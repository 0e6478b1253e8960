------------------------------ MODULE KfpStep -------------------------------
(***************************************************************************)
(* A component as a step of a Kubeflow pipeline.  component_spec of        *)
(* torchx/pipelines/kfp/adapter.py says which inputs the step has and what *)
(* its command line is; in the container main() of                         *)
(* torchx/runtime/container/main.py loads the plugins of the image         *)
(* (torchx/runtime/plugins.py), which register storage providers           *)
(* (torchx/runtime/storage.py), reads the command line, writes the outputs *)
(* of the step and constructs and runs the component                       *)
(* (torchx/runtime/component.py), that of torchx/apps/io/copy.py for one.  *)
(*                                                                         *)
(* A component is the sequence of its fields, those of Config, of Inputs   *)
(* and of Outputs, and, if it is Copy, the schemes of the URLs it is given *)
(* to copy from and to.  No field is named output_path_ and the name of an *)
(* output: argparse would store both under one name.                       *)
(***************************************************************************)
EXTENDS Naturals, Sequences

CONSTANTS
  Components,   \* what the component may be
  Plugins       \* what may be in the plugin configuration of an image: sequences

Field(group, name, type, optional) ==
  [group |-> group, name |-> name, type |-> type, optional |-> optional]

StepFields ==
  [group : {"config", "inputs", "outputs"}, name : STRING,
   type : {"int", "str", "json"}, optional : BOOLEAN]

ASSUME ComponentsAssumption == \A c \in Components : c.fields \in Seq(StepFields)
ASSUME PluginsAssumption == Plugins \subseteq Seq([scheme : STRING, name : STRING])

OutputsOf(fields) == {i \in DOMAIN fields : fields[i].group = "outputs"}

\* texts by how they can be read
Texts == {"null", "number", "word", "object"}

NoValue == [type |-> "NoneType", text |-> "null"]

-----------------------------------------------------------------------------
(* The adapter: component_spec *)

MutantDefault(field) == IF field.optional THEN "word" ELSE "none"   \* str(None)

\* the default of an input, in JSON
Default(field) == IF field.optional THEN "null" ELSE "none"

\* the options of the command, each the placeholder of a value or a path
Command(fields) ==
  {<<"inputValue", i>> : i \in DOMAIN fields} \cup {<<"outputPath", i>> : i \in OutputsOf(fields)}

\* what Kubeflow puts for them: no input is left out that has no default
PipelineArgs(fields) ==
  {[values |-> values,
    paths  |-> {i \in DOMAIN fields : <<"outputPath", i>> \in Command(fields)}] :
     values \in [DOMAIN fields -> Texts]}

\* with the default for every input that has one
Defaulted(fields) ==
  {a \in PipelineArgs(fields) :
     \A i \in DOMAIN fields : fields[i].optional => a.values[i] = Default(fields[i])}

\* any other command line of main.py
ShellArgs(fields) ==
  {[values |-> values, paths |-> paths] :
     values \in [DOMAIN fields -> Texts \cup {"absent"}], paths \in SUBSET OutputsOf(fields)}

-----------------------------------------------------------------------------
VARIABLES
  pc,         \* what main() does next
  launcher,   \* "kfp", or "shell"
  component,  \* the class that is named on the command line
  plugins,    \* the plugins that are still to be loaded
  configured, \* all plugins of the configuration
  providers,  \* _PROVIDERS
  args,       \* the command line
  values,     \* vars(parsed)
  next,       \* the field whose output is written next
  files,      \* the output files, by field
  stored,     \* what is at the URL that Copy copies to
  failure     \* what has raised

image == <<launcher, component, configured>>
inputs == <<args, values>>
vars == <<pc, image, plugins, providers, inputs, next, files, stored, failure>>

\* importing torchx.runtime.storage registers the FileProvider
Init ==
  /\ pc = "plugins"
  /\ launcher \in {"kfp", "shell"}
  /\ component \in Components
  /\ configured \in Plugins
  /\ plugins = configured
  /\ providers = [scheme \in {"file"} |-> "FileProvider"]
  /\ args = [values |-> <<>>, paths |-> {}]
  /\ values = <<>>
  /\ next = 1
  /\ files = <<>>
  /\ stored = "nothing"
  /\ failure = "none"

fields == component.fields

Raise(what) ==
  /\ pc' = "raised"
  /\ failure' = what

-----------------------------------------------------------------------------
(* init_plugins *)

MutantRegister(plugin) == TRUE         \* the last one wins

\* register_storage_provider
Register(plugin) == plugin.scheme \notin DOMAIN providers
Provide(plugin) ==
  [scheme \in DOMAIN providers \cup {plugin.scheme} |->
     IF scheme = plugin.scheme THEN plugin.name ELSE providers[scheme]]

\* the next plugin is imported and its init_plugin() called; either may raise,
\* and the plugins after it are not loaded.  So does a malformed configuration.
LoadPlugin ==
  /\ pc = "plugins"
  /\ \/ LET plugin == Head(plugins) IN
        /\ plugins # <<>>
        /\ Register(plugin)
        /\ providers' = Provide(plugin)
        /\ plugins' = Tail(plugins)
        /\ UNCHANGED <<pc, failure>>
     \/ /\ Raise("plugin")
        /\ UNCHANGED <<plugins, providers>>
  /\ UNCHANGED <<image, inputs, next, files, stored>>

\* get_component_class: no such module or class, or not a Component
LoadClass ==
  /\ pc = "plugins"
  /\ plugins = <<>>
  /\ \/ /\ pc' = "arguments"
        /\ UNCHANGED failure
     \/ Raise("class")
  /\ UNCHANGED <<image, plugins, providers, inputs, next, files, stored>>

-----------------------------------------------------------------------------
(* The command line *)

\* a name twice is two options of one name
Duplicate == \E i, j \in DOMAIN fields : i # j /\ fields[i].name = fields[j].name

\* _get_parser: int, float or str, also if it is optional, or json.loads
Readable(type, text) ==
  CASE type = "int"  -> text = "number"
    [] type = "str"  -> TRUE
    [] type = "json" -> text # "word"

MutantValue(type, text) ==             \* the text, whatever the type
  IF text = "absent" THEN NoValue ELSE [type |-> "str", text |-> text]

\* the value that argparse stores
Value(type, text) ==
  CASE text = "absent" \/ (type = "json" /\ text = "null") -> NoValue
    [] text # "absent" /\ type = "str" -> [type |-> "str", text |-> text]
    [] OTHER -> [type |-> IF text = "number" THEN "int" ELSE "dict", text |-> text]

\* `required', and the type of an option that is given
Accepted(field, text) ==
  IF text = "absent" THEN field.optional ELSE Readable(field.type, text)

ReadArguments ==
  /\ pc = "arguments"
  /\ args' \in IF launcher = "kfp" THEN PipelineArgs(fields) ELSE ShellArgs(fields)
  /\ \/ /\ ~Duplicate
        /\ \A i \in DOMAIN fields : Accepted(fields[i], args'.values[i])
        /\ values' = [i \in DOMAIN fields |-> Value(fields[i].type, args'.values[i])]
        /\ files' = [i \in DOMAIN fields |-> "absent"]
        /\ pc' = "outputs"
        /\ UNCHANGED failure
     \/ /\ Duplicate \/ \E i \in DOMAIN fields : ~Accepted(fields[i], args'.values[i])
        /\ Raise("arguments")
        /\ UNCHANGED <<values, files>>
  /\ UNCHANGED <<image, plugins, providers, next, stored>>

-----------------------------------------------------------------------------
(* The outputs, and the component *)

\* makedirs and open(), which makes the file empty, and may raise; then the
\* value is written if it is a str
WriteOutput ==
  /\ pc = "outputs"
  /\ next \in DOMAIN fields
  /\ \/ /\ next \notin args.paths
        /\ next' = next + 1
        /\ UNCHANGED <<pc, files, failure>>
     \/ /\ next \in args.paths
        /\ values[next].type = "str"
        /\ files' = [files EXCEPT ![next] = values[next].text]
        /\ next' = next + 1
        /\ UNCHANGED <<pc, failure>>
     \/ /\ next \in args.paths
        /\ values[next].type # "str"
        /\ files' = [files EXCEPT ![next] = "empty"]
        /\ Raise("output")
        /\ UNCHANGED next
     \/ /\ next \in args.paths
        /\ Raise("disk")
        /\ UNCHANGED <<next, files>>
  /\ UNCHANGED <<image, plugins, providers, inputs, stored>>

MutantMissing == FALSE                 \* left to the component

\* a field that is not optional has no value
Missing == \E i \in DOMAIN fields : ~fields[i].optional /\ values[i] = NoValue

\* Component.__init__
Construct ==
  /\ pc = "outputs"
  /\ next \notin DOMAIN fields
  /\ \/ /\ ~Missing
        /\ pc' = "run"
        /\ UNCHANGED failure
     \/ /\ Missing
        /\ Raise("missing")
  /\ UNCHANGED <<image, plugins, providers, inputs, next, files, stored>>

\* run() of a component that is not Copy
Run ==
  /\ pc = "run"
  /\ component.copies = <<>>
  /\ \/ /\ pc' = "done"
        /\ UNCHANGED failure
     \/ Raise("run")
  /\ UNCHANGED <<image, plugins, providers, inputs, next, files, stored>>

\* get_storage_provider asserts that there is one
Provided(scheme) == scheme \in DOMAIN providers

\* Copy.run() loads the blob with the provider of the one URL
Download ==
  LET from == component.copies[1] IN
  /\ pc = "run"
  /\ component.copies # <<>>
  /\ \/ /\ Provided(from)
        /\ pc' = "upload"
        /\ UNCHANGED failure
     \/ Provided(from) /\ Raise("run")
     \/ ~Provided(from) /\ Raise("provider")
  /\ UNCHANGED <<image, plugins, providers, inputs, next, files, stored>>

\* what an upload that raises may leave: a file is emptied before it is written;
\* an object is put as a whole, and only the answer may be lost
FileLeaves == {"nothing", "part"}
ObjectLeaves == {"nothing", "blob"}

\* and stores it with that of the other; a plugin's puts objects, as S3 does
Upload ==
  LET to == component.copies[2] IN
  /\ pc = "upload"
  /\ \/ /\ Provided(to)
        /\ stored' = "blob"
        /\ pc' = "done"
        /\ UNCHANGED failure
     \/ /\ Provided(to)
        /\ stored' \in IF providers[to] = "FileProvider" THEN FileLeaves ELSE ObjectLeaves
        /\ Raise("run")
     \/ /\ ~Provided(to)
        /\ Raise("provider")
        /\ UNCHANGED stored
  /\ UNCHANGED <<image, plugins, providers, inputs, next, files>>

Next ==
  \/ LoadPlugin
  \/ LoadClass
  \/ ReadArguments
  \/ WriteOutput
  \/ Construct
  \/ Run
  \/ Download
  \/ Upload

Spec == Init /\ [][Next]_vars

-----------------------------------------------------------------------------
(* Properties *)

\* run() has been called, if it left something
Runs == pc \in {"run", "upload", "done"} \/ stored # "nothing"

\* Every variable has its type, and a value that of its field.
TypeOK ==
  /\ pc \in {"plugins", "arguments", "outputs", "run", "upload", "done", "raised"}
  /\ launcher \in {"kfp", "shell"}
  /\ component \in Components
  /\ configured \in Plugins
  /\ \E n \in 0 .. Len(configured) : plugins = SubSeq(configured, n + 1, Len(configured))
  /\ args.paths \subseteq OutputsOf(fields)
  /\ DOMAIN values \in {{}, DOMAIN fields}
  /\ \A i \in DOMAIN values :
       \/ values[i] = NoValue
       \/ fields[i].type \in {"int", "str"} /\ values[i].type = fields[i].type
       \/ fields[i].type = "json" /\ values[i].type \in {"int", "dict"}
  /\ DOMAIN files = DOMAIN values
  /\ next \in 1 .. Len(fields) + 1
  /\ stored \in {"nothing", "part", "blob"}
  /\ failure = "none" <=> pc # "raised"

\* A component runs only with a value for every field that has to have one, and
\* what the next steps of the pipeline read from its output files is what it was
\* itself told that its outputs are.
OutputsAgree ==
  Runs =>
    /\ \A i \in DOMAIN fields : values[i] = NoValue => fields[i].optional
    /\ \A i \in args.paths : files[i] = values[i].text /\ fields[i].type = "str"

\* No output is written, nothing runs and nothing is copied in an image whose
\* configuration is not loaded completely: every plugin is the provider of its
\* scheme, and none has replaced another or the FileProvider.
PluginsFirst ==
  Runs \/ (\E i \in DOMAIN files : files[i] # "absent") =>
    /\ providers["file"] = "FileProvider"
    /\ \A i \in DOMAIN configured : providers[configured[i].scheme] = configured[i].name

\* The command line that the adapter makes is one that main() takes: a step
\* whose outputs are strings, and that leaves its optional inputs out, is not
\* refused if the other texts are of their types.  Optional numbers are: "null"
\* is not one.
StepStarts ==
  launcher = "kfp" /\ args \in Defaulted(fields) /\ failure \in {"arguments", "output", "missing"} =>
    \/ Duplicate
    \/ \E i \in DOMAIN fields :
         IF fields[i].optional
           THEN fields[i].type = "int" \/ (fields[i].type = "json" /\ i \in OutputsOf(fields))
           ELSE \/ fields[i].type = "int" /\ args.values[i] # "number"
                \/ fields[i].type = "json" /\ args.values[i] \in {"word", "null"}
                \/ fields[i].type # "str" /\ i \in OutputsOf(fields)
=============================================================================
