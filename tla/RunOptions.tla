----------------------------- MODULE RunOptions -----------------------------
(***************************************************************************)
(* The options of a scheduler and the configuration of a run (class        *)
(* runopts and class RunConfig of torchx/specs/api.py).  An option has a   *)
(* default, a type and may be required; a configuration maps keys to       *)
(* values, and a value is a record of its type and what it is.             *)
(***************************************************************************)

EXTENDS Naturals, Sequences

None == [type |-> "NoneType", val |-> "None"]

\* RunConfig.get
Get(cfg, key) == IF key \in DOMAIN cfg THEN cfg[key] ELSE None

\* parse_args_children: of one part it is a text, of more it is a list of them
ParsedValue(parts) ==
  IF Len(parts) = 1 THEN [type |-> "str", val |-> parts[1]]
                    ELSE [type |-> "List[str]", val |-> parts]

\* _parse_run_config of the argument of --scheduler_args, whose values are the
\* sequences of what is between semicolons
ParseRunConfig(arg) == [key \in DOMAIN arg |-> ParsedValue(arg[key])]

\* runopts.is_type: isinstance, for which a bool is an int
IsType(value, type) ==
  \/ value.type = type
  \/ value.type = "bool" /\ type = "int"

\* runopts.add raises for any other option
AddAccepts(opt) ==
  /\ opt.required => opt.default = None
  /\ opt.default # None => IsType(opt.default, opt.type)

\* runopts.resolve raises InvalidRunConfigException
Invalid(opts, cfg) ==
  \E key \in DOMAIN opts :
    \/ opts[key].required /\ Get(cfg, key) = None
    \/ Get(cfg, key) # None /\ ~IsType(Get(cfg, key), opts[key].type)

\* the copy of the configuration that runopts.resolve returns
Resolved(opts, cfg) ==
  [key \in DOMAIN opts \cup DOMAIN cfg |->
     IF key \in DOMAIN opts /\ Get(cfg, key) = None
       THEN opts[key].default
       ELSE cfg[key]]
=============================================================================
