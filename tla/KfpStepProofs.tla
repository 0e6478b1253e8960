--------------------------- MODULE KfpStepProofs ----------------------------
(***************************************************************************)
(* Proofs about KfpStep, for any components and any plugins.  Plugins are  *)
(* loaded in order and never replace a provider; the values are those of   *)
(* the command line, for as long as the step goes on; outputs are written  *)
(* in order and never one that is not a string; and a step that is refused *)
(* is refused for a field that the adapter cannot know about.              *)
(***************************************************************************)
EXTENDS KfpStep, SequenceTheorems, TLAPS

Plugin == [scheme : STRING, name : STRING]

-----------------------------------------------------------------------------
(* Plugins *)

Loaded == 1 .. Len(configured) - Len(plugins)

\* What is left of the plugins are the last of those that are configured, and
\* the others are the providers of their schemes.
PluginInvariant ==
  /\ configured \in Seq(Plugin) /\ plugins \in Seq(Plugin)
  /\ Len(plugins) <= Len(configured)
  /\ \A j \in 1 .. Len(plugins) : plugins[j] = configured[Len(configured) - Len(plugins) + j]
  /\ "file" \in DOMAIN providers /\ providers["file"] = "FileProvider"
  /\ \A i \in Loaded :
       /\ configured[i].scheme \in DOMAIN providers
       /\ providers[configured[i].scheme] = configured[i].name
  /\ pc \in {"arguments", "outputs"} \/ Runs \/ files # <<>> => plugins = <<>>
  /\ pc = "plugins" => files = <<>> /\ stored = "nothing"

\* A provider that is registered stays.
LEMMA RegisterKeeps ==
  ASSUME NEW plugin \in Plugin, Register(plugin), providers' = Provide(plugin)
  PROVE  /\ plugin.scheme \in DOMAIN providers' /\ providers'[plugin.scheme] = plugin.name
         /\ \A s \in DOMAIN providers : s \in DOMAIN providers' /\ providers'[s] = providers[s]
BY DEF Register, Provide

\* The invariant holds at the start.
LEMMA PluginStarts == Init => PluginInvariant
<1> SUFFICES ASSUME Init PROVE PluginInvariant
  OBVIOUS
<1>1. configured \in Seq(Plugin) /\ plugins = configured
  BY PluginsAssumption DEF Init, Plugin
<1>2. "file" \in DOMAIN providers /\ providers["file"] = "FileProvider"
  BY DEF Init
<1>3. QED
  BY <1>1, <1>2 DEF Init, PluginInvariant, Loaded, Runs

\* The next plugin becomes the provider of its scheme.
LEMMA PluginLoads ==
  ASSUME PluginInvariant, LoadPlugin PROVE PluginInvariant'
<1>1. CASE UNCHANGED <<plugins, providers>> /\ Raise("plugin")
  BY <1>1 DEF PluginInvariant, LoadPlugin, Loaded, Raise, Runs, image
<1>2. CASE /\ plugins # <<>> /\ Register(Head(plugins))
           /\ providers' = Provide(Head(plugins))
           /\ plugins' = Tail(plugins)
           /\ UNCHANGED <<pc, failure>>
  <2>1. /\ plugins \in Seq(Plugin) /\ configured \in Seq(Plugin)
        /\ Len(plugins) \in Nat /\ Len(configured) \in Nat
    BY DEF PluginInvariant
  <2>2. /\ Head(plugins) \in Plugin /\ Tail(plugins) \in Seq(Plugin)
        /\ Len(Tail(plugins)) = Len(plugins) - 1
        /\ \A j \in 1 .. Len(Tail(plugins)) : Tail(plugins)[j] = plugins[j + 1]
    BY <1>2, <2>1, HeadTailProperties
  <2>3. Len(plugins) > 0 /\ Head(plugins) = plugins[1]
    BY <1>2, <2>1
  <2>4. PICK k \in 1 .. Len(configured) : k = Len(configured) - Len(plugins) + 1
    BY <2>1, <2>3 DEF PluginInvariant
  <2>5. Head(plugins) = configured[k]
    BY <2>1, <2>3, <2>4 DEF PluginInvariant
  <2>6. /\ configured[k].scheme \in DOMAIN providers'
        /\ providers'[configured[k].scheme] = configured[k].name
        /\ \A s \in DOMAIN providers : s \in DOMAIN providers' /\ providers'[s] = providers[s]
    BY <1>2, <2>2, <2>5, RegisterKeeps
  <2>7. /\ configured' = configured /\ files' = files /\ stored' = stored
        /\ pc = "plugins" /\ pc' = pc
    BY <1>2 DEF LoadPlugin, image
  <2>8. Loaded' = Loaded \cup {k}
    BY <1>2, <2>1, <2>2, <2>4, <2>7 DEF Loaded
  <2>9. \A i \in Loaded' :
          /\ configured[i].scheme \in DOMAIN providers'
          /\ providers'[configured[i].scheme] = configured[i].name
    BY <2>6, <2>8 DEF PluginInvariant
  <2>10. \A j \in 1 .. Len(Tail(plugins)) :
           Tail(plugins)[j] = configured[Len(configured) - Len(Tail(plugins)) + j]
    <3> SUFFICES ASSUME NEW j \in 1 .. Len(Tail(plugins))
                 PROVE  Tail(plugins)[j] = configured[Len(configured) - Len(Tail(plugins)) + j]
      OBVIOUS
    <3>1. j + 1 \in 1 .. Len(plugins) /\ Tail(plugins)[j] = plugins[j + 1]
      BY <2>1, <2>2
    <3>2. plugins[j + 1] = configured[Len(configured) - Len(plugins) + (j + 1)]
      BY <3>1 DEF PluginInvariant
    <3>3. Len(configured) - Len(plugins) + (j + 1) = Len(configured) - Len(Tail(plugins)) + j
      BY <2>1, <2>2
    <3>4. QED
      BY <3>1, <3>2, <3>3
  <2>11. Len(Tail(plugins)) <= Len(configured)
    BY <2>1, <2>2 DEF PluginInvariant
  <2>12. "file" \in DOMAIN providers' /\ providers'["file"] = "FileProvider"
    BY <2>6 DEF PluginInvariant
  <2>13. QED
    BY <1>2, <2>1, <2>2, <2>7, <2>9, <2>10, <2>11, <2>12 DEF PluginInvariant, Runs
<1>3. QED
  BY <1>1, <1>2 DEF LoadPlugin

\* Every step keeps the invariant.
LEMMA PluginStep == PluginInvariant /\ [Next]_vars => PluginInvariant'
<1> SUFFICES ASSUME PluginInvariant, [Next]_vars PROVE PluginInvariant'
  OBVIOUS
<1>1. CASE UNCHANGED vars
  BY <1>1 DEF PluginInvariant, Loaded, Runs, vars, image
<1>2. CASE LoadClass
  BY <1>2 DEF PluginInvariant, Loaded, Runs, LoadClass, Raise, image
<1>3. CASE ReadArguments
  BY <1>3 DEF PluginInvariant, Loaded, Runs, ReadArguments, Raise, image
<1>4. CASE WriteOutput
  BY <1>4 DEF PluginInvariant, Loaded, Runs, WriteOutput, Raise, image
<1>5. CASE Construct \/ Run
  BY <1>5 DEF PluginInvariant, Loaded, Runs, Construct, Run, Raise, image
<1>7. CASE Download \/ Upload
  BY <1>7 DEF PluginInvariant, Loaded, Runs, Download, Upload, Raise, image
<1>6. QED
  BY <1>1, <1>2, <1>3, <1>4, <1>5, <1>7, PluginLoads DEF Next

\* Whatever is configured, the invariant holds.
THEOREM PluginInvariantHolds == Spec => []PluginInvariant
BY PluginStarts, PluginStep, PTL DEF Spec

\* Nothing is written, and nothing runs, in an image that is not loaded.
THEOREM PluginsFirstHolds == Spec => []PluginsFirst
<1>1. PluginInvariant => PluginsFirst
  <2> SUFFICES ASSUME PluginInvariant,
                      Runs \/ (\E i \in DOMAIN files : files[i] # "absent")
               PROVE  /\ providers["file"] = "FileProvider"
                      /\ \A i \in DOMAIN configured :
                           providers[configured[i].scheme] = configured[i].name
    BY DEF PluginsFirst
  <2>1. plugins = <<>>
    BY DEF PluginInvariant
  <2>2. Loaded = DOMAIN configured
    BY <2>1 DEF Loaded, PluginInvariant
  <2>3. QED
    BY <2>2 DEF PluginInvariant
<1>2. QED
  BY <1>1, PluginInvariantHolds, PTL

-----------------------------------------------------------------------------
(* The command line, the outputs and the component *)

\* main() has taken the command line, and has not refused it.
Taken ==
  \/ pc \in {"outputs", "run", "upload", "done"}
  \/ failure \in {"output", "disk", "missing", "provider", "run"}

Types ==
  /\ pc \in {"plugins", "arguments", "outputs", "run", "upload", "done", "raised"}
  /\ launcher \in {"kfp", "shell"}
  /\ component \in Components
  /\ configured \in Plugins
  /\ args.paths \subseteq OutputsOf(fields)
  /\ stored \in {"nothing", "part", "blob"}
  /\ failure = "none" <=> pc # "raised"

\* Until the command line is taken nothing is written or copied; then the values
\* are those that it gives, each accepted for its field.
Values ==
  IF Taken
    THEN /\ values = [i \in DOMAIN fields |-> Value(fields[i].type, args.values[i])]
         /\ \A i \in DOMAIN fields : Accepted(fields[i], args.values[i])
         /\ DOMAIN files = DOMAIN fields
         /\ next \in 1 .. Len(fields) + 1
    ELSE values = <<>> /\ files = <<>> /\ next = 1 /\ stored = "nothing"

\* The outputs before `next' are written as they were read, and the component
\* runs when all are.
Written ==
  /\ pc = "outputs" => stored = "nothing"
  /\ pc = "outputs" \/ Runs =>
       \A i \in args.paths : i < next => files[i] = values[i].text /\ values[i].type = "str"
  /\ Runs => next \notin DOMAIN fields /\ ~Missing

\* A step is refused for the reason that it gives.
Reasons ==
  /\ failure = "arguments" =>
       Duplicate \/ \E i \in DOMAIN fields : ~Accepted(fields[i], args.values[i])
  /\ failure = "output" => \E i \in args.paths : values[i].type # "str"
  /\ failure = "missing" => Missing

OutputInvariant == Types /\ Values /\ Written /\ Reasons

\* What the fields are.
LEMMA FieldsNumbered ==
  ASSUME component \in Components
  PROVE  /\ Len(fields) \in Nat /\ DOMAIN fields = 1 .. Len(fields)
         /\ \A i \in DOMAIN fields : fields[i] \in StepFields
<1>1. fields \in Seq(StepFields)
  BY ComponentsAssumption DEF fields
<1>2. QED
  BY <1>1, LenProperties, ElementOfSeq

\* Nothing is in the empty sequence.
LEMMA NoValues == DOMAIN <<>> = {}
<1>1. <<>> \in Seq({}) /\ Len(<<>>) = 0
  BY EmptySeq
<1>2. QED
  BY <1>1, LenProperties

\* What argparse makes of a text, by the type of the field.
LEMMA ValueOfText ==
  ASSUME NEW type \in {"int", "str", "json"}, NEW text
  PROVE  /\ text = "absent" \/ (type = "json" /\ text = "null") <=> Value(type, text) = NoValue
         /\ Value(type, text).type = "str" <=> type = "str" /\ text # "absent"
         /\ Value(type, text).type \in {"NoneType", "str", "int", "dict"}
         /\ Value(type, text).type = "NoneType" => Value(type, text) = NoValue
         /\ type = "int" /\ text = "number" => Value(type, text).type = "int"
<1>1. CASE text = "absent" \/ (type = "json" /\ text = "null")
  <2>1. Value(type, text) = NoValue
    BY <1>1 DEF Value
  <2>2. QED
    BY <1>1, <2>1 DEF NoValue
<1>2. CASE text # "absent" /\ type = "str"
  <2>1. Value(type, text) = [type |-> "str", text |-> text]
    BY <1>2 DEF Value
  <2>2. QED
    BY <1>2, <2>1 DEF NoValue
<1>3. CASE /\ text # "absent" /\ type # "str"
           /\ ~(type = "json" /\ text = "null")
  <2>1. Value(type, text) = [type |-> IF text = "number" THEN "int" ELSE "dict", text |-> text]
    BY <1>3 DEF Value
  <2>2. QED
    BY <1>3, <2>1 DEF NoValue
<1>4. QED
  BY <1>1, <1>2, <1>3

\* The command line names outputs by their fields; that of a pipeline has them
\* all, and a text for every field.
LEMMA LineOfPipeline ==
  ASSUME NEW a \in PipelineArgs(fields)
  PROVE  a.paths = OutputsOf(fields) /\ a.values \in [DOMAIN fields -> Texts]
<1> DEFINE given == {i \in DOMAIN fields : <<"outputPath", i>> \in Command(fields)}
<1>1. given = OutputsOf(fields)
  BY DEF Command, OutputsOf
<1>2. PICK v \in [DOMAIN fields -> Texts] : a = [values |-> v, paths |-> given]
  BY DEF PipelineArgs
<1>3. QED
  BY <1>1, <1>2

LEMMA PathsAreOutputs ==
  ASSUME NEW a, a \in PipelineArgs(fields) \/ a \in ShellArgs(fields)
  PROVE  a.paths \subseteq OutputsOf(fields)
<1>1. CASE a \in PipelineArgs(fields)
  BY <1>1, LineOfPipeline
<1>2. CASE a \in ShellArgs(fields)
  <2>1. PICK v, paths : a = [values |-> v, paths |-> paths] /\ paths \in SUBSET OutputsOf(fields)
    BY <1>2 DEF ShellArgs
  <2>2. QED
    BY <2>1
<1>3. QED
  BY <1>1, <1>2

\* The invariant holds at the start.
LEMMA OutputStarts == Init => OutputInvariant
<1> SUFFICES ASSUME Init PROVE OutputInvariant
  OBVIOUS
<1>1. Types
  BY PluginsAssumption DEF Init, Types
<1>2. Values /\ Written /\ Reasons
  BY DEF Init, Values, Written, Reasons, Taken, Runs
<1>3. QED
  BY <1>1, <1>2 DEF OutputInvariant

\* The command line is taken, or refused for a field or a name.
LEMMA LineTaken ==
  ASSUME OutputInvariant, ReadArguments PROVE OutputInvariant'
<1>1. /\ component' = component /\ fields' = fields /\ next' = 1 /\ stored' = "nothing"
      /\ launcher' = launcher /\ configured' = configured
      /\ pc = "arguments" /\ failure = "none"
      /\ values = <<>> /\ files = <<>>
  BY DEF ReadArguments, image, fields, OutputInvariant, Types, Values, Taken
<1>2. args'.paths \subseteq OutputsOf(fields)
  BY PathsAreOutputs DEF ReadArguments
<1>3. /\ Len(fields) \in Nat /\ DOMAIN fields = 1 .. Len(fields)
  BY FieldsNumbered DEF OutputInvariant, Types
<1>4. Duplicate' <=> Duplicate
  BY <1>1 DEF Duplicate
<1>5. CASE pc' = "outputs"
  <2>1. /\ values' = [i \in DOMAIN fields |-> Value(fields[i].type, args'.values[i])]
        /\ \A i \in DOMAIN fields : Accepted(fields[i], args'.values[i])
        /\ files' = [i \in DOMAIN fields |-> "absent"]
        /\ failure' = "none"
    BY <1>1, <1>5 DEF ReadArguments, Raise
  <2>2. Types'
    BY <1>1, <1>2, <1>5, <2>1 DEF OutputInvariant, Types
  <2>3. Values'
    BY <1>1, <1>3, <1>5, <2>1 DEF Values, Taken
  <2>4. Written'
    <3>1. \A i \in args'.paths : ~(i < 1)
      BY <1>2, <1>3 DEF OutputsOf
    <3>2. QED
      BY <1>1, <1>5, <3>1 DEF Written, Runs
  <2>5. Reasons'
    BY <2>1 DEF Reasons
  <2>6. QED
    BY <2>2, <2>3, <2>4, <2>5 DEF OutputInvariant
<1>6. CASE pc' # "outputs"
  <2>1. /\ pc' = "raised" /\ failure' = "arguments"
        /\ values' = values /\ files' = files
        /\ Duplicate \/ \E i \in DOMAIN fields : ~Accepted(fields[i], args'.values[i])
    BY <1>1, <1>6 DEF ReadArguments, Raise
  <2>2. Types'
    BY <1>1, <1>2, <2>1 DEF OutputInvariant, Types
  <2>3. Values' /\ Written'
    BY <1>1, <2>1 DEF Values, Written, Taken, Runs
  <2>4. Reasons'
    BY <1>1, <1>4, <2>1 DEF Reasons
  <2>5. QED
    BY <2>2, <2>3, <2>4 DEF OutputInvariant
<1>7. QED
  BY <1>5, <1>6

\* An output is written, or ends the step because it is not a string.
LEMMA OutputWritten ==
  ASSUME OutputInvariant, WriteOutput PROVE OutputInvariant'
<1>1. /\ component' = component /\ fields' = fields /\ args' = args /\ values' = values
      /\ launcher' = launcher /\ configured' = configured /\ stored' = stored
      /\ pc = "outputs" /\ next \in DOMAIN fields /\ failure = "none" /\ stored = "nothing"
      /\ Taken /\ DOMAIN files = DOMAIN fields /\ next \in 1 .. Len(fields) + 1
  BY DEF WriteOutput, image, inputs, fields, OutputInvariant, Types, Values, Written, Taken
<1>2. /\ Len(fields) \in Nat /\ DOMAIN fields = 1 .. Len(fields)
  BY FieldsNumbered DEF OutputInvariant, Types
<1>3. DOMAIN files' = DOMAIN fields
  BY <1>1 DEF WriteOutput
<1>4. CASE pc' = "raised"
  <2>1. /\ next' = next /\ failure' \in {"output", "disk"}
        /\ failure' = "output" => next \in args.paths /\ values[next].type # "str"
    BY <1>1, <1>4 DEF WriteOutput, Raise
  <2>2. Types'
    BY <1>1, <1>4, <2>1 DEF OutputInvariant, Types
  <2>3. Values'
    BY <1>1, <1>3, <2>1 DEF OutputInvariant, Values, Taken
  <2>4. Written' /\ Reasons'
    BY <1>1, <1>4, <2>1 DEF Written, Reasons, Runs
  <2>5. QED
    BY <2>2, <2>3, <2>4 DEF OutputInvariant
<1>5. CASE pc' # "raised"
  <2>1. pc' = pc /\ next' = next + 1 /\ failure' = failure
    BY <1>5 DEF WriteOutput, Raise
  <2>2. \/ next \notin args.paths /\ files' = files
        \/ values[next].type = "str" /\ files' = [files EXCEPT ![next] = values[next].text]
    BY <1>5 DEF WriteOutput, Raise
  <2>3. \A i \in args.paths : i \in Nat /\ (i < next + 1 <=> i < next \/ i = next)
    BY <1>1, <1>2 DEF OutputInvariant, Types, OutputsOf
  <2>4. \A i \in args.paths :
          i < next => files[i] = values[i].text /\ values[i].type = "str"
    BY <1>1 DEF OutputInvariant, Written
  <2>5. \A i \in args.paths :
          i < next + 1 => files'[i] = values[i].text /\ values[i].type = "str"
    <3>1. args.paths \subseteq DOMAIN files
      BY <1>1 DEF OutputInvariant, Types, OutputsOf
    <3>2. CASE next \notin args.paths /\ files' = files
      BY <2>3, <2>4, <3>2
    <3>3. CASE values[next].type = "str" /\ files' = [files EXCEPT ![next] = values[next].text]
      BY <2>3, <2>4, <3>1, <3>3
    <3>4. QED
      BY <2>2, <3>2, <3>3
  <2>6. Types'
    BY <1>1, <2>1 DEF OutputInvariant, Types
  <2>7. Values'
    BY <1>1, <1>2, <1>3, <2>1 DEF OutputInvariant, Values, Taken
  <2>8. Written' /\ Reasons'
    BY <1>1, <2>1, <2>5 DEF Written, Reasons, Runs
  <2>9. QED
    BY <2>6, <2>7, <2>8 DEF OutputInvariant
<1>6. QED
  BY <1>4, <1>5

\* What comes after the outputs leaves them, and the values, as they are.
LEMMA ComponentSteps ==
  ASSUME OutputInvariant, Construct \/ Run \/ Download \/ Upload PROVE OutputInvariant'
<1>1. /\ component' = component /\ fields' = fields /\ args' = args /\ values' = values
      /\ launcher' = launcher /\ configured' = configured
      /\ files' = files /\ next' = next
      /\ pc \in {"outputs", "run", "upload"} /\ failure = "none" /\ Taken
      /\ stored \in {"nothing", "part", "blob"}
  BY DEF Construct, Run, Download, Upload, image, inputs, fields, OutputInvariant, Types, Taken
<1>2. /\ pc' \in {"run", "upload", "done", "raised"}
      /\ pc' = "raised" <=> failure' # "none"
      /\ failure' \in {"none", "missing", "provider", "run"}
      /\ stored' \in {"nothing", "part", "blob"}
  BY <1>1 DEF Construct, Run, Download, Upload, Raise, FileLeaves, ObjectLeaves
<1>3. Missing' <=> Missing
  BY <1>1 DEF Missing
<1>4. Types'
  BY <1>1, <1>2 DEF OutputInvariant, Types
<1>5. Values'
  BY <1>1, <1>2 DEF OutputInvariant, Values, Taken
<1>6. /\ failure' = "missing" => Missing /\ pc = "outputs" /\ stored' = stored
      /\ Runs' => next \notin DOMAIN fields /\ ~Missing
  BY <1>1, <1>2 DEF Construct, Run, Download, Upload, Raise, Runs, OutputInvariant, Written
<1>7. Written'
  BY <1>1, <1>2, <1>3, <1>6 DEF OutputInvariant, Written, Runs
<1>8. Reasons'
  BY <1>2, <1>3, <1>6 DEF Reasons
<1>9. QED
  BY <1>4, <1>5, <1>7, <1>8 DEF OutputInvariant

\* Every step keeps the invariant.
LEMMA OutputStep == OutputInvariant /\ [Next]_vars => OutputInvariant'
<1> SUFFICES ASSUME OutputInvariant, [Next]_vars PROVE OutputInvariant'
  OBVIOUS
<1>1. CASE UNCHANGED vars
  <2>1. /\ component' = component /\ fields' = fields /\ args' = args /\ values' = values
        /\ launcher' = launcher /\ configured' = configured /\ files' = files /\ next' = next
        /\ pc' = pc /\ failure' = failure /\ stored' = stored
    BY <1>1 DEF vars, image, inputs, fields
  <2>2. QED
    BY <2>1 DEF OutputInvariant, Types, Values, Written, Reasons, Taken, Runs, Missing, Duplicate
<1>2. CASE LoadPlugin \/ LoadClass
  <2>1. /\ component' = component /\ fields' = fields /\ args' = args /\ values' = values
        /\ launcher' = launcher /\ configured' = configured /\ files' = files /\ next' = next
        /\ stored' = stored /\ pc = "plugins" /\ failure = "none"
    BY <1>2 DEF LoadPlugin, LoadClass, image, inputs, fields, OutputInvariant, Types
  <2>2. \/ pc' \in {"plugins", "arguments"} /\ failure' = "none"
        \/ pc' = "raised" /\ failure' \in {"plugin", "class"}
    BY <1>2, <2>1 DEF LoadPlugin, LoadClass, Raise
  <2>3. QED
    BY <2>1, <2>2 DEF OutputInvariant, Types, Values, Written, Reasons, Taken, Runs
<1>3. QED
  BY <1>1, <1>2, LineTaken, OutputWritten, ComponentSteps DEF Next

\* Whatever the component and its command line, the values are those of the
\* command line and what is refused is refused for its reason.
THEOREM OutputInvariantHolds == Spec => []OutputInvariant
BY OutputStarts, OutputStep, PTL DEF Spec

\* The next steps of the pipeline read what the component was told.
THEOREM OutputsAgreeHolds == Spec => []OutputsAgree
<1>1. OutputInvariant => OutputsAgree
  <2> SUFFICES ASSUME OutputInvariant, Runs PROVE OutputsAgree
    BY DEF OutputsAgree
  <2>1. Taken
    BY DEF OutputInvariant, Values, Runs, Taken
  <2>2. /\ Len(fields) \in Nat /\ DOMAIN fields = 1 .. Len(fields)
        /\ \A i \in DOMAIN fields : fields[i] \in StepFields
    BY FieldsNumbered DEF OutputInvariant, Types
  <2>3. \A i \in args.paths : i < next /\ i \in DOMAIN fields
    BY <2>1, <2>2 DEF OutputInvariant, Types, Values, Written, OutputsOf
  <2>4. \A i \in args.paths : files[i] = values[i].text /\ values[i].type = "str"
    BY <2>3 DEF OutputInvariant, Written
  <2>5. \A i \in args.paths : fields[i].type = "str"
    <3>1. \A i \in DOMAIN fields : values[i] = Value(fields[i].type, args.values[i])
      BY <2>1 DEF OutputInvariant, Values
    <3>2. \A i \in DOMAIN fields : fields[i].type \in {"int", "str", "json"}
      BY <2>2 DEF StepFields
    <3>3. QED
      BY <2>3, <2>4, <3>1, <3>2, ValueOfText
  <2>6. \A i \in DOMAIN fields : values[i] = NoValue => fields[i].optional
    BY DEF OutputInvariant, Written, Missing
  <2>7. QED
    BY <2>4, <2>5, <2>6 DEF OutputsAgree
<1>2. QED
  BY <1>1, OutputInvariantHolds, PTL

-----------------------------------------------------------------------------
(* What the adapter promises *)

\* The command line of a pipeline is refused for a text that is not of the type
\* of its field, or for an output that is not a string.
LEMMA RefusedForItsFields == OutputInvariant => StepStarts
<1> SUFFICES ASSUME OutputInvariant, args \in Defaulted(fields),
                    failure \in {"arguments", "output", "missing"}, ~Duplicate
             PROVE  \E i \in DOMAIN fields :
                      IF fields[i].optional
                        THEN \/ fields[i].type = "int"
                             \/ fields[i].type = "json" /\ i \in OutputsOf(fields)
                        ELSE \/ fields[i].type = "int" /\ args.values[i] # "number"
                             \/ fields[i].type = "json" /\ args.values[i] \in {"word", "null"}
                             \/ fields[i].type # "str" /\ i \in OutputsOf(fields)
  BY DEF StepStarts
<1>1. args \in PipelineArgs(fields)
  BY DEF Defaulted
<1>2. /\ args.paths = OutputsOf(fields)
      /\ \A i \in DOMAIN fields : args.values[i] \in Texts
  BY <1>1, LineOfPipeline
<1>3. \A i \in DOMAIN fields : fields[i].optional => args.values[i] = "null"
  BY DEF Defaulted, Default
<1>4. \A i \in DOMAIN fields : fields[i].type \in {"int", "str", "json"}
  BY FieldsNumbered DEF OutputInvariant, Types, StepFields
<1>5. CASE failure = "arguments"
  <2>1. PICK i \in DOMAIN fields : ~Accepted(fields[i], args.values[i])
    BY <1>5 DEF OutputInvariant, Reasons
  <2>2. /\ args.values[i] \in {"null", "number", "word", "object"}
        /\ ~Readable(fields[i].type, args.values[i])
    BY <1>2, <2>1 DEF Accepted, Texts
  <2>3. \/ fields[i].type = "int" /\ args.values[i] # "number"
        \/ fields[i].type = "json" /\ args.values[i] = "word"
    BY <1>4, <2>2 DEF Readable
  <2>4. QED
    BY <1>3, <2>3
<1>6. CASE failure = "output"
  <2>1. PICK i \in args.paths : values[i].type # "str"
    BY <1>6 DEF OutputInvariant, Reasons
  <2>2. i \in OutputsOf(fields) /\ i \in DOMAIN fields
    BY <1>2 DEF OutputsOf
  <2>3. values[i] = Value(fields[i].type, args.values[i])
    BY <1>6, <2>2 DEF OutputInvariant, Values, Taken
  <2>4. fields[i].type # "str"
    <3>1. args.values[i] # "absent"
      BY <1>2, <2>2 DEF Texts
    <3>2. QED
      BY <1>4, <2>1, <2>2, <2>3, <3>1, ValueOfText
  <2>5. QED
    BY <1>4, <2>2, <2>4
<1>7. CASE failure = "missing"
  <2>1. PICK i \in DOMAIN fields : ~fields[i].optional /\ values[i] = NoValue
    BY <1>7 DEF OutputInvariant, Reasons, Missing
  <2>2. values[i] = Value(fields[i].type, args.values[i])
    BY <1>7 DEF OutputInvariant, Values, Taken
  <2>3. args.values[i] # "absent"
    BY <1>2 DEF Texts
  <2>4. fields[i].type = "json" /\ args.values[i] = "null"
    BY <1>4, <2>1, <2>2, <2>3, ValueOfText
  <2>5. QED
    BY <2>1, <2>4
<1>8. QED
  BY <1>5, <1>6, <1>7

\* A step whose optional inputs are left out, and whose outputs are strings, is
\* refused for nothing but a text that is not of the type of its field.
THEOREM StepStartsHolds == Spec => []StepStarts
BY RefusedForItsFields, OutputInvariantHolds, PTL

-----------------------------------------------------------------------------
(* Types *)

\* What is left of the plugins are the last of the configuration.
LEMMA PluginsLeft ==
  ASSUME PluginInvariant
  PROVE  \E n \in 0 .. Len(configured) : plugins = SubSeq(configured, n + 1, Len(configured))
<1> DEFINE n == Len(configured) - Len(plugins)
<1> DEFINE rest == SubSeq(configured, n + 1, Len(configured))
<1>1. /\ configured \in Seq(Plugin) /\ plugins \in Seq(Plugin)
      /\ Len(configured) \in Nat /\ Len(plugins) \in Nat /\ Len(plugins) <= Len(configured)
  BY LenProperties DEF PluginInvariant
<1>2. n \in 0 .. Len(configured) /\ n + 1 \in Int /\ Len(configured) \in Int
  BY <1>1
<1>3. \A i \in n + 1 .. Len(configured) : configured[i] \in Plugin
  <2>1. \A i \in n + 1 .. Len(configured) : i \in 1 .. Len(configured)
    BY <1>1
  <2>2. QED
    BY <1>1, <2>1, ElementOfSeq
<1>4. /\ rest \in Seq(Plugin)
      /\ Len(rest) = IF n + 1 <= Len(configured) THEN Len(configured) - (n + 1) + 1 ELSE 0
      /\ \A i \in 1 .. Len(configured) - (n + 1) + 1 : rest[i] = configured[n + 1 + i - 1]
  BY <1>2, <1>3, SubSeqProperties
<1>5. Len(rest) = Len(plugins)
  BY <1>1, <1>4
<1>6. \A i \in 1 .. Len(plugins) : plugins[i] = rest[i]
  <2> SUFFICES ASSUME NEW i \in 1 .. Len(plugins) PROVE plugins[i] = rest[i]
    OBVIOUS
  <2>1. /\ i \in 1 .. Len(configured) - (n + 1) + 1
        /\ n + 1 + i - 1 = Len(configured) - Len(plugins) + i
    BY <1>1
  <2>2. plugins[i] = configured[Len(configured) - Len(plugins) + i]
    BY DEF PluginInvariant
  <2>3. QED
    BY <1>4, <2>1, <2>2
<1>7. plugins = rest
  BY <1>1, <1>4, <1>5, <1>6, SeqEqual
<1>8. QED
  BY <1>2, <1>7

\* Every variable of the step keeps its type, and every value that of its field.
THEOREM KfpStepTypeCorrect == Spec => []TypeOK
<1>1. OutputInvariant /\ PluginInvariant => TypeOK
  <2> SUFFICES ASSUME OutputInvariant, PluginInvariant PROVE TypeOK
    OBVIOUS
  <2>1. /\ Len(fields) \in Nat /\ DOMAIN fields = 1 .. Len(fields)
        /\ \A i \in DOMAIN fields : fields[i] \in StepFields
    BY FieldsNumbered DEF OutputInvariant, Types
  <2>2. CASE Taken
    <3>1. /\ DOMAIN values = DOMAIN fields /\ DOMAIN files = DOMAIN fields
          /\ next \in 1 .. Len(fields) + 1
          /\ \A i \in DOMAIN fields :
               /\ values[i] = Value(fields[i].type, args.values[i])
               /\ Accepted(fields[i], args.values[i])
      BY <2>2 DEF OutputInvariant, Values
    <3>2. \A i \in DOMAIN fields :
            \/ values[i] = NoValue
            \/ fields[i].type \in {"int", "str"} /\ values[i].type = fields[i].type
            \/ fields[i].type = "json" /\ values[i].type \in {"int", "dict"}
      <4> SUFFICES ASSUME NEW i \in DOMAIN fields, values[i] # NoValue
                   PROVE  \/ fields[i].type \in {"int", "str"} /\ values[i].type = fields[i].type
                          \/ fields[i].type = "json" /\ values[i].type \in {"int", "dict"}
        OBVIOUS
      <4>1. fields[i].type \in {"int", "str", "json"}
        BY <2>1 DEF StepFields
      <4>2. args.values[i] # "absent" /\ Readable(fields[i].type, args.values[i])
        BY <3>1, <4>1, ValueOfText DEF Accepted
      <4>3. fields[i].type = "int" => args.values[i] = "number"
        BY <4>2 DEF Readable
      <4>4. QED
        BY <3>1, <4>1, <4>2, <4>3, ValueOfText
    <3>3. QED
      BY <3>1, <3>2, PluginsLeft DEF TypeOK, OutputInvariant, Types
  <2>3. CASE ~Taken
    <3>1. DOMAIN values = {} /\ DOMAIN files = {} /\ next = 1
      BY <2>3, NoValues DEF OutputInvariant, Values
    <3>2. QED
      BY <2>1, <3>1, PluginsLeft DEF TypeOK, OutputInvariant, Types
  <2>4. QED
    BY <2>2, <2>3
<1>2. QED
  BY <1>1, OutputInvariantHolds, PluginInvariantHolds, PTL
=============================================================================
