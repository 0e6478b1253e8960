-------------------------- MODULE ComponentLoader ---------------------------
(***************************************************************************)
(* How a component function becomes a call (torchx/specs/file_linter.py,   *)
(* from_function of torchx/specs/api.py and torchx/util/types.py).  The    *)
(* linter reads the syntax of the function; the loader then builds an      *)
(* argument parser out of its signature and decodes what it is given by    *)
(* the annotations.  The two look at different parts of the signature.     *)
(*                                                                         *)
(* A value is represented by its type, a text by how it can be read.       *)
(***************************************************************************)
EXTENDS Naturals, Sequences

(***************************************************************************)
(* A component: `where' its function is in the file, whether it has a      *)
(* docstring, what its return annotation is, and its parameters, each with *)
(* its annotation, its default, and whether the docstring describes it.    *)
(* An annotation has a form ("nothing", a "name", "List", "Dict", another  *)
(* subscript or an attribute, or a "quoted" type), is wrapped in Optional  *)
(* or is not, and has a name or names in it ("nested" if it is neither).   *)
(***************************************************************************)
Annotation(form, optional, of) == [form |-> form, optional |-> optional, of |-> of]
Param(kind, ann, default, doc) ==
  [kind |-> kind, ann |-> ann, default |-> default, doc |-> doc]
Component(where, docstring, returns, params) ==
  [where |-> where, docstring |-> docstring, returns |-> returns, params |-> params]

Annotations ==
  {ann \in [form : {"nothing", "name", "List", "Dict", "other", "quoted"},
            optional : BOOLEAN, of : {"int", "str", "bool", "nested"}] :
     ann.form = "name" => ann.of # "nested"}
ComponentParams ==
  [kind : {"plain", "varargs", "kwonly"}, ann : Annotations,
   default : {"required", "None", "empty", "value"}, doc : BOOLEAN]

ParamsOf(comp, kind) == {i \in DOMAIN comp.params : comp.params[i].kind = kind}

-----------------------------------------------------------------------------
(* The linter *)

\* visit_FunctionDef: any definition that is not in a function and not async;
\* a file that cannot be parsed has none
Visited(comp) == comp.where \in {"top", "method"}

\* get_arg_names: args.args leaves out *args and what follows it
LintedParams(comp) == {comp.params[i] : i \in ParamsOf(comp, "plain")}

\* TorchxDocstringValidator
Documented(comp) == comp.docstring /\ \A p \in LintedParams(comp) : p.doc

\* TorchxFunctionArgsValidator: any name at all will do; of a quoted annotation
\* it asks for a `value.id' that is not there, and raises
AnnotationAccepted(ann) ==
  \/ ann.form = "name"
  \/ ann.form \in {"List", "Dict"} /\ ann.of # "nested"

\* TorchxReturnValidator
ReturnAccepted(comp) == comp.returns = "AppDef"

\* validate() returns, and no message
LintAccepts(comp) ==
  /\ Visited(comp)
  /\ Documented(comp)
  /\ \A p \in LintedParams(comp) : AnnotationAccepted(p.ann)
  /\ ReturnAccepted(comp)

-----------------------------------------------------------------------------
(* The loader *)

Texts == {"absent", "number", "word", "pairs", "blank", "empty"}

\* is_primitive: int, str or float
IsPrimitive(ann) == ann.form = "name" /\ ~ann.optional /\ ann.of \in {"int", "str"}

\* decode_optional
DecodeOptional(ann) == [ann EXCEPT !.optional = FALSE]

\* _create_args_parser looks every parameter up in the docstring: KeyError
ParserBuilt(comp) == \A i \in DOMAIN comp.params : comp.params[i].doc

\* parse_args with the type of get_argparse_param_type: else SystemExit
Parses(p, text) ==
  /\ text = "absent" => p.default # "required" \/ p.kind = "varargs"
  /\ IsPrimitive(p.ann) /\ p.ann.of = "int" => text \in {"number", "absent"}

\* value_type(el) of one element; bool() takes any text
Converts(type, text) ==
  CASE type = "int"             -> text = "number"
    [] type \in {"str", "bool"} -> TRUE
    [] OTHER                    -> FALSE

\* _decode_string_to_list and _decode_string_to_dict of a text that is there;
\* "pairs" is a key and a number, "blank" is an empty collection
DecodesTo(ann, text) ==
  CASE ann.form = "List" /\ ann.of \in {"int", "str"}
         /\ (text = "blank" \/ Converts(ann.of, text)) -> "List"
    [] ann.form = "Dict"
         /\ (text = "blank" \/ (text = "pairs" /\ ann.of # "nested")) -> "Dict"
    [] OTHER -> "error"

\* the value of a parameter that is its default, and what decode_from_string
\* makes of it: a default that is empty becomes None, another has no strip()
DefaultValue(p) ==
  CASE p.default = "None" -> "None"
    [] p.default # "None" /\ IsPrimitive(DecodeOptional(p.ann)) -> p.ann.of
    [] p.default = "empty" /\ ~IsPrimitive(DecodeOptional(p.ann)) -> "None"
    [] OTHER -> "error"

MutantGivenValue(p, text) ==           \* no type for the argument parser
  IF IsPrimitive(DecodeOptional(p.ann)) THEN "str" ELSE DecodesTo(DecodeOptional(p.ann), text)

\* the value of a parameter that is given a text
GivenValue(p, text) ==
  CASE IsPrimitive(p.ann) -> p.ann.of
    [] p.ann.optional /\ IsPrimitive(DecodeOptional(p.ann)) -> "str"
    [] ~IsPrimitive(DecodeOptional(p.ann)) /\ text = "empty" -> "None"
    [] OTHER -> DecodesTo(DecodeOptional(p.ann), text)

\* one parameter in _get_function_args.  argparse makes a list of *args, which
\* decode_from_string cannot decode: if empty it becomes None, without len()
ArgValue(p, text) ==
  CASE p.kind = "varargs" -> IF IsPrimitive(DecodeOptional(p.ann)) THEN "list" ELSE "error"
    [] p.kind # "varargs" /\ text = "absent" -> DefaultValue(p)
    [] OTHER -> GivenValue(p, text)

\* app_fn(*function_args, *var_arg) has all values by position: a parameter
\* after *args can only be left to its default, and its value is one of *args
CallBinds(comp) ==
  /\ \A i \in ParamsOf(comp, "kwonly") : comp.params[i].default # "required"
  /\ ParamsOf(comp, "kwonly") # {} => ParamsOf(comp, "varargs") # {}

-----------------------------------------------------------------------------
(* What a component is promised of its arguments *)

\* the value has the type of the annotation, or is None where the annotation
\* or the default says so, or for a List or a Dict that is given as empty
TypeFits(p, value) ==
  \/ value = p.ann.of /\ p.ann.form = "name"
  \/ value = p.ann.form
  \/ value = "None" /\ (p.ann.optional \/ p.default = "None" \/ p.ann.form \in {"List", "Dict"})
=============================================================================
