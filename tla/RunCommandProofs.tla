-------------------------- MODULE RunCommandProofs --------------------------
(***************************************************************************)
(* Proofs about RunCommand, for any components, applications, scheduler    *)
(* arguments and backends.  What is called was accepted by the linter      *)
(* because everything that is in the globals was; its arguments are of the *)
(* annotated types because the loader decodes or refuses all that the      *)
(* linter lets through.  The request has every replica of every role, and  *)
(* where two roles have one name it has two replicas with one log          *)
(* directory, of which schedule starts the first only: when all have been  *)
(* started no names were the same.  And no replica is left behind.         *)
(***************************************************************************)
EXTENDS RunCommand, SequenceTheorems, TLAPS

Loadable == FileComponents \cup ModuleComponents

\* what each argument was decoded from
Decoded ==
  \E texts \in [DOMAIN component.params -> Texts] :
    /\ args = [i \in DOMAIN component.params |-> ArgValue(component.params[i], texts[i])]
    /\ \A i \in DOMAIN component.params : args[i] # "error"

LoadInvariant ==
  /\ namespace # NoComponent => namespace \in Loadable /\ LintAccepts(namespace)
  /\ pc \in {"lint", "exec", "parse", "called"} => component \in Loadable
  /\ pc \in {"exec", "parse", "called"} => LintAccepts(component)
  /\ pc = "called" => Decoded

-----------------------------------------------------------------------------
(* Loading *)

\* The invariant is kept by the steps that load nothing.
LEMMA LoadQuiet ==
  ASSUME LoadInvariant, UNCHANGED loading,
         pc' = pc \/ pc' \notin {"lint", "exec", "parse", "called"}
  PROVE  LoadInvariant'
BY DEF LoadInvariant, Decoded, loading

\* What is resolved is a component; what it was is forgotten.
LEMMA LoadResolve ==
  ASSUME LoadInvariant, Resolve PROVE LoadInvariant'
BY DEF LoadInvariant, Resolve, LoadFunction, ReadConfFile, Raise, Loadable

\* The linter stands between the lookup and the execution.
LEMMA LoadLint ==
  ASSUME LoadInvariant, Lint PROVE LoadInvariant'
BY DEF LoadInvariant, Lint, Raise, Accepted, loading

\* All that executing a file can leave in the globals was accepted before.
LEMMA LoadExecute ==
  ASSUME LoadInvariant, Execute PROVE LoadInvariant'
<1>1. component \in Loadable /\ LintAccepts(component)
  BY DEF LoadInvariant, Execute
<1>2. namespace' = namespace \/ namespace' = component
  BY DEF Execute
<1>3. namespace' # NoComponent => namespace' \in Loadable /\ LintAccepts(namespace')
  BY <1>1, <1>2 DEF LoadInvariant
<1>4. pc' = "parse" => component' = namespace' /\ namespace' # NoComponent
  BY DEF Execute, Raise
<1>5. pc' \in {"parse", "resolve", "finalize"}
  BY DEF Execute, Raise
<1>6. QED
  BY <1>3, <1>4, <1>5 DEF LoadInvariant

\* A component is called with what its arguments decode to.
LEMMA LoadCall ==
  ASSUME LoadInvariant, Call PROVE LoadInvariant'
<1>1. component \in Loadable /\ LintAccepts(component)
  BY DEF LoadInvariant, Call
<1>2. pc' \in {"called", "resolve", "finalize"} /\ component' = component /\ namespace' = namespace
  BY DEF Call, Raise
<1>3. pc' = "called" => Decoded'
  <2> SUFFICES ASSUME pc' = "called" PROVE Decoded'
    OBVIOUS
  <2>1. PICK texts \in [DOMAIN component.params -> Texts] :
          /\ args' = [i \in DOMAIN component.params |-> ArgValue(component.params[i], texts[i])]
          /\ \A i \in DOMAIN component.params : ArgValue(component.params[i], texts[i]) # "error"
    BY DEF Call, Raise
  <2>2. QED
    BY <1>2, <2>1 DEF Decoded
<1>4. QED
  BY <1>1, <1>2, <1>3 DEF LoadInvariant

\* Nothing is loaded when the component has returned.
LEMMA LoadReturned ==
  ASSUME LoadInvariant, Returned PROVE LoadInvariant'
BY DEF LoadInvariant, Returned, Raise

\* Every step keeps the invariant.
LEMMA LoadStep == LoadInvariant /\ [Next]_vars => LoadInvariant'
<1> SUFFICES ASSUME LoadInvariant, [Next]_vars PROVE LoadInvariant'
  OBVIOUS
<1>1. CASE UNCHANGED vars
  BY <1>1, LoadQuiet DEF vars
<1>2. CASE Validate \/ SubmitDryrun
  BY <1>2, LoadQuiet DEF Validate, SubmitDryrun, Raise
<1>3. CASE AddRole \/ Requested
  BY <1>3, LoadQuiet DEF AddRole, Requested, Raise
<1>4. CASE Schedule
  BY <1>4, LoadQuiet DEF Schedule, Raise
<1>5. CASE Status
  BY <1>5, LoadQuiet DEF Status, Raise
<1>6. CASE Wait
  BY <1>6, LoadQuiet DEF Wait
<1>7. CASE Terminate \/ Exit
  BY <1>7, LoadQuiet DEF Terminate, Exit
<1>8. CASE EndProcess
  BY <1>8, LoadQuiet DEF EndProcess
<1>9. QED
  BY <1>1, <1>2, <1>3, <1>4, <1>5, <1>6, <1>7, <1>8,
     LoadResolve, LoadLint, LoadExecute, LoadCall, LoadReturned DEF Next

\* The invariant holds whatever is run.
THEOREM LoadInvariantHolds == Spec => []LoadInvariant
<1>1. Init => LoadInvariant
  BY DEF Init, LoadInvariant
<1>2. QED
  BY <1>1, LoadStep, PTL DEF Spec

\* No function is called that the linter has not accepted.
THEOREM LintedBeforeCalledHolds == Spec => []LintedBeforeCalled
<1>1. LoadInvariant => LintedBeforeCalled
  BY DEF LoadInvariant, LintedBeforeCalled
<1>2. QED
  BY <1>1, LoadInvariantHolds, PTL

-----------------------------------------------------------------------------
(* Decoding *)

\* What a plain parameter with an accepted annotation decodes to is of that
\* type, but for a bool or an Optional of a primitive.
LEMMA ArgValueFits ==
  ASSUME NEW p \in ComponentParams, p.kind = "plain", AnnotationAccepted(p.ann),
         NEW text \in Texts, ArgValue(p, text) # "error"
  PROVE  \/ TypeFits(p, ArgValue(p, text))
         \/ p.ann.form = "name" /\ (p.ann.of = "bool" \/ p.ann.optional)
<1> DEFINE bare == DecodeOptional(p.ann)
<1>1. p.ann \in Annotations /\ p.ann.optional \in BOOLEAN /\ bare.form = p.ann.form /\ bare.of = p.ann.of /\ ~bare.optional
  BY DEF ComponentParams, Annotations, DecodeOptional
<1>2. CASE p.ann.form = "name" /\ p.ann.of \in {"int", "str"} /\ ~p.ann.optional
  <2>1. IsPrimitive(p.ann) /\ IsPrimitive(bare)
    BY <1>1, <1>2 DEF IsPrimitive
  <2>2. GivenValue(p, text) = p.ann.of
    BY <1>2, <2>1 DEF GivenValue
  <2>3. DefaultValue(p) = p.ann.of \/ (DefaultValue(p) = "None" /\ p.default = "None")
    BY <2>1 DEF DefaultValue
  <2>4. ArgValue(p, text) \in {GivenValue(p, text), DefaultValue(p)}
    BY DEF ArgValue
  <2>5. QED
    BY <1>2, <2>2, <2>3, <2>4 DEF TypeFits
<1>3. CASE p.ann.form \in {"List", "Dict"}
  <2>1. ~IsPrimitive(p.ann) /\ ~IsPrimitive(bare)
    BY <1>1, <1>3 DEF IsPrimitive
  <2>2. DecodesTo(bare, text) \in {p.ann.form, "error"}
    BY <1>1, <1>3 DEF DecodesTo
  <2>3. GivenValue(p, text) \in {"None", p.ann.form, "error"}
    BY <2>1, <2>2 DEF GivenValue
  <2>4. DefaultValue(p) \in {"None", "error"}
    BY <2>1 DEF DefaultValue
  <2>5. ArgValue(p, text) \in {"None", p.ann.form}
    BY <2>3, <2>4 DEF ArgValue
  <2>6. QED
    BY <1>3, <2>5 DEF TypeFits
<1>4. QED
  BY <1>1, <1>2, <1>3 DEF AnnotationAccepted, Annotations

\* The arguments of a component have the annotated types.
THEOREM TypedArgumentsHolds == Spec => []TypedArguments
<1>1. LoadInvariant => TypedArguments
  <2> SUFFICES ASSUME LoadInvariant, pc = "called",
                      NEW i \in ParamsOf(component, "plain")
               PROVE  LET p == component.params[i] IN
                      \/ TypeFits(p, args[i])
                      \/ p.ann.form = "name" /\ (p.ann.of = "bool" \/ p.ann.optional)
    BY DEF TypedArguments
  <2>1. component \in Loadable /\ LintAccepts(component)
    BY DEF LoadInvariant
  <2>2. PICK texts \in [DOMAIN component.params -> Texts] :
          /\ args = [j \in DOMAIN component.params |-> ArgValue(component.params[j], texts[j])]
          /\ \A j \in DOMAIN component.params : args[j] # "error"
    BY DEF LoadInvariant, Decoded
  <2>3. i \in DOMAIN component.params /\ component.params[i].kind = "plain"
    BY DEF ParamsOf
  <2>4. component.params[i] \in ComponentParams
    <3>1. component.params \in Seq(ComponentParams)
      BY <2>1, ComponentsAssumption DEF Loadable
    <3>2. QED
      BY <2>3, <3>1
  <2>5. AnnotationAccepted(component.params[i].ann)
    BY <2>1, <2>3 DEF LintAccepts, LintedParams, ParamsOf
  <2>6. args[i] = ArgValue(component.params[i], texts[i]) /\ args[i] # "error" /\ texts[i] \in Texts
    BY <2>2, <2>3
  <2>7. QED
    BY <2>3, <2>4, <2>5, <2>6, ArgValueFits
<1>2. QED
  BY <1>1, LoadInvariantHolds, PTL

-----------------------------------------------------------------------------
(* The invariant of the request and its replicas *)

Loads == {"resolve", "lint", "exec", "parse", "called"}

\* Nothing is there before the component returns, no process before the request
\* is complete, and what is submitted has roles with replicas.
Fresh ==
  /\ program = "api" => pc \in Loads
  /\ pc \in Loads \cup {"dryrun", "submit", "request"} =>
       started = <<>> /\ running = {} /\ killed = {} /\ outcome = "none"
  /\ pc \in Loads \cup {"dryrun", "submit"} => request = <<>> /\ at = First
  /\ pc \in {"submit", "request", "schedule"} \/ outcome = "launched" => WellFormed(app)

\* Every entry of the request has replicas, and only of the roles of its name.
Entries ==
  \A p \in DOMAIN request :
    /\ request[p].params # <<>>
    /\ \A q \in DOMAIN request[p].params : request[p].params[q].logDir[1] = request[p].name

\* The first n roles are in the request: each of their replicas is, and namesakes
\* have two with one log directory, since each role has a replica 0.
Built(roles, req, n) ==
  /\ \A i \in 1 .. n : \A k \in 0 .. roles[i].replicas - 1 :
       \E p \in DOMAIN req : \E q \in DOMAIN req[p].params :
         req[p].params[q].logDir = <<roles[i].name, k>> /\ req[p].params[q].id = k
  /\ \A i, j \in 1 .. n : i < j /\ roles[i].name = roles[j].name =>
       \E p \in DOMAIN req : \E q, r \in DOMAIN req[p].params :
         q < r /\ req[p].params[q].logDir = req[p].params[r].logDir

Building ==
  /\ pc = "request" => at.role \in 1 .. Len(app) + 1 /\ Built(app, request, at.role - 1)
  /\ pc = "schedule" \/ outcome = "launched" => Built(app, request, Len(app))

\* what schedule has started
Passed(p, q) ==
  \/ p < at.role
  \/ p = at.role /\ q < at.replica

Starting ==
  pc = "schedule" \/ outcome = "launched" =>
    /\ at.role \in DOMAIN request => at.replica \in DOMAIN request[at.role].params
    /\ \A p \in DOMAIN request : \A q \in DOMAIN request[p].params :
         Passed(p, q) => \E i \in DOMAIN started : started[i] = request[p].params[q]
    /\ \A p \in DOMAIN request : \A q, r \in DOMAIN request[p].params :
         q < r /\ Passed(p, r) => request[p].params[q].logDir # request[p].params[r].logDir
    /\ outcome = "launched" => at.role \notin DOMAIN request

DirsApart ==
  \A i, j \in DOMAIN started : i # j => started[i].logDir # started[j].logDir

RunInvariant ==
  /\ TypeOK
  /\ Fresh
  /\ Entries
  /\ Building
  /\ Starting
  /\ DirsApart

\* Nothing is in the empty sequence, and it is one of anything.
LEMMA Empty == DOMAIN <<>> = {} /\ \A S : <<>> \in Seq(S)
<1>1. \A S : <<>> \in Seq(S)
  BY EmptySeq
<1>2. DOMAIN <<>> = 1 .. 0
  BY LenProperties, EmptySeq
<1>3. QED
  BY <1>1, <1>2

\* The invariant holds at the start.
LEMMA RunStarts == Init => RunInvariant
<1> SUFFICES ASSUME Init PROVE RunInvariant
  OBVIOUS
<1>1. DOMAIN started = {} /\ DOMAIN request = {} /\ DOMAIN args = {}
  BY Empty DEF Init
<1>2. TypeOK
  <2>1. request \in Seq([name : STRING, params : Seq(Params)]) /\ started \in Seq(Params)
    BY Empty DEF Init
  <2>2. killed \subseteq running /\ running \subseteq ToSet(started)
    BY DEF Init
  <2>3. at \in [role : Nat \ {0}, replica : Nat \ {0}]
    <3>1. First \in [role : Nat \ {0}, replica : Nat \ {0}]
      BY DEF First
    <3>2. QED
      BY <3>1 DEF Init
  <2>4. {component, namespace} \subseteq FileComponents \cup ModuleComponents \cup {NoComponent}
    BY DEF Init
  <2>5. QED
    BY <1>1, <2>1, <2>2, <2>3, <2>4 DEF Init, TypeOK
<1>3. Fresh /\ Entries /\ Building /\ Starting /\ DirsApart
  BY <1>1 DEF Init, Fresh, Entries, Building, Starting, DirsApart, Loads
<1>4. QED
  BY <1>2, <1>3 DEF RunInvariant

-----------------------------------------------------------------------------
(* Types *)

ArgTypes == {"int", "str", "bool", "None", "List", "Dict", "list"}

ControlTypes ==
  /\ pc \in Loads \cup {"dryrun", "submit", "request", "schedule", "status", "wait", "finalize",
                      "ended"}
  /\ program \in {"torchx run", "api"}
  /\ path \in {"none", "file", "module"}
  /\ outcome \in {"none", "raised", "launched"}

LoadingTypes ==
  /\ component \in Loadable \cup {NoComponent}
  /\ namespace \in Loadable \cup {NoComponent}
  /\ \A i \in DOMAIN args : args[i] \in ArgTypes

OptionTypes ==
  /\ app \in AppDefs \cup {<<>>}
  /\ backend \in Backends \cup {"none"}
  /\ DOMAIN RunOpts \subseteq DOMAIN cfg \/ cfg = <<>>

RequestType == request \in Seq([name : STRING, params : Seq(Params)])
CursorType == at \in [role : Nat \ {0}, replica : Nat \ {0}]
ProcessTypes ==
  /\ started \in Seq(Params)
  /\ killed \subseteq running
  /\ running \subseteq ToSet(started)

\* The types, by what they are about.
LEMMA TypeParts ==
  TypeOK <=> /\ ControlTypes
             /\ LoadingTypes
             /\ OptionTypes
             /\ RequestType
             /\ CursorType
             /\ ProcessTypes
BY DEF TypeOK, ControlTypes, LoadingTypes, OptionTypes, RequestType, CursorType, ProcessTypes,
       Loads, Loadable, ArgTypes

\* The control state.
LEMMA ControlStep ==
  ASSUME ControlTypes, [Next]_vars PROVE ControlTypes'
<1> USE DEF ControlTypes, Loads, Raise
<1>1. CASE Resolve \/ Lint \/ Execute
  BY <1>1 DEF Resolve, LoadFunction, ReadConfFile, Lint, Execute, loading
<1>2. CASE Call \/ Returned
  BY <1>2 DEF Call, Returned
<1>3. CASE Validate \/ SubmitDryrun \/ AddRole \/ Requested
  BY <1>3 DEF Validate, SubmitDryrun, AddRole, Requested, loading
<1>4. CASE Schedule \/ Status \/ Wait
  BY <1>4 DEF Schedule, Status, Wait, loading
<1>5. CASE Terminate \/ EndProcess \/ Exit
  BY <1>5 DEF Terminate, EndProcess, Exit, loading
<1>6. CASE UNCHANGED vars
  BY <1>6 DEF vars, loading
<1>7. QED
  BY <1>1, <1>2, <1>3, <1>4, <1>5, <1>6 DEF Next

\* What a parameter decodes to.
LEMMA ArgValueType ==
  ASSUME NEW p \in ComponentParams, NEW text \in Texts
  PROVE  ArgValue(p, text) \in ArgTypes \cup {"error"}
<1> DEFINE bare == DecodeOptional(p.ann)
<1>1. /\ p.ann \in Annotations
      /\ bare.form = p.ann.form /\ bare.of = p.ann.of
      /\ p.default \in {"required", "None", "empty", "value"}
  BY DEF ComponentParams, Annotations, DecodeOptional
<1>2. IsPrimitive(bare) \/ IsPrimitive(p.ann) => p.ann.of \in {"int", "str"}
  BY <1>1 DEF IsPrimitive
<1>3. DecodesTo(bare, text) \in {"List", "Dict", "error"}
  BY DEF DecodesTo
<1>4. GivenValue(p, text) \in ArgTypes \cup {"error"}
  BY <1>2, <1>3 DEF GivenValue, ArgTypes
<1>5. DefaultValue(p) \in ArgTypes \cup {"error"}
  BY <1>2 DEF DefaultValue, ArgTypes
<1>6. QED
  BY <1>4, <1>5 DEF ArgValue, ArgTypes

\* What is loaded, and called with what.
LEMMA LoadingStep ==
  ASSUME LoadingTypes, LoadInvariant, [Next]_vars PROVE LoadingTypes'
<1>1. CASE Resolve
  BY <1>1, Empty DEF Resolve, LoadFunction, ReadConfFile, LoadingTypes, Loadable
<1>2. CASE Execute
  BY <1>2 DEF Execute, LoadingTypes
<1>3. CASE Call
  <2>1. component' = component /\ namespace' = namespace
    BY <1>3 DEF Call
  <2>2. CASE UNCHANGED args
    BY <2>1, <2>2 DEF LoadingTypes
  <2>3. CASE ~UNCHANGED args
    <3>1. PICK texts \in [DOMAIN component.params -> Texts] :
            /\ args' = [i \in DOMAIN component.params |->
                          ArgValue(component.params[i], texts[i])]
            /\ \A i \in DOMAIN component.params :
                 ArgValue(component.params[i], texts[i]) # "error"
      BY <1>3, <2>3 DEF Call
    <3>2. component.params \in Seq(ComponentParams)
      BY <1>3, ComponentsAssumption DEF Call, LoadInvariant, Loadable
    <3>3. \A i \in DOMAIN component.params : component.params[i] \in ComponentParams
      BY <3>2
    <3>4. \A i \in DOMAIN args' : args'[i] \in ArgTypes
      BY <3>1, <3>3, ArgValueType
    <3>5. QED
      BY <2>1, <3>4 DEF LoadingTypes
  <2>4. QED
    BY <2>2, <2>3
<1>4. CASE Returned
  BY <1>4, Empty DEF Returned, LoadingTypes
<1>5. CASE UNCHANGED loading
  BY <1>5 DEF loading, LoadingTypes
<1>6. CASE UNCHANGED vars
  BY <1>5, <1>6 DEF vars
<1>7. QED
  BY <1>1, <1>2, <1>3, <1>4, <1>5, <1>6
  DEF Next, Lint, Validate, SubmitDryrun, AddRole, Requested, Schedule, Status, Wait, Terminate,
      EndProcess, Exit

\* The resolved configuration has all options.
LEMMA OptionStep ==
  ASSUME OptionTypes, [Next]_vars PROVE OptionTypes'
<1>1. CASE Returned
  BY <1>1 DEF Returned, OptionTypes
<1>2. CASE SubmitDryrun
  BY <1>2 DEF SubmitDryrun, OptionTypes, Resolved
<1>3. CASE UNCHANGED options
  BY <1>3 DEF options, OptionTypes
<1>4. QED
  BY <1>1, <1>2, <1>3
  DEF Next, vars, preparing, Resolve, LoadFunction, ReadConfFile, Lint, Execute, Call, Validate, AddRole, Requested, Schedule,
      Status, Wait, Terminate, EndProcess, Exit

-----------------------------------------------------------------------------
(* The request *)

Requests(S) == Seq([name : STRING, params : Seq(S)])

\* The replicas of a role, in the order of their ids.
LEMMA ReplicaParamsType ==
  ASSUME NEW S, NEW role \in AppRoles, role.replicas > 0, NEW redirect,
         \A k \in 0 .. role.replicas - 1 : ReplicaParam(role, k, redirect) \in S
  PROVE  /\ ReplicaParams(role, redirect) \in Seq(S)
         /\ Len(ReplicaParams(role, redirect)) = role.replicas
         /\ \A k \in 1 .. role.replicas :
              ReplicaParams(role, redirect)[k] = ReplicaParam(role, k - 1, redirect)
<1>1. role.replicas \in Nat
  BY DEF AppRoles
<1>2. \A k \in 1 .. role.replicas : ReplicaParam(role, k - 1, redirect) \in S
  BY <1>1
<1>3. QED
  BY <1>1, <1>2 DEF ReplicaParams

\* A role with a new name has an entry of its own.
LEMMA NewEntry ==
  ASSUME NEW S, NEW req \in Requests(S), NEW role \in AppRoles, role.replicas > 0, NEW redirect,
         \A k \in 0 .. role.replicas - 1 : ReplicaParam(role, k, redirect) \in S,
         ~\E i \in DOMAIN req : req[i].name = role.name
  PROVE  /\ WithRole(req, role, redirect) \in Requests(S)
         /\ DOMAIN WithRole(req, role, redirect) = 1 .. Len(req) + 1
         /\ \A p \in DOMAIN req : WithRole(req, role, redirect)[p] = req[p]
         /\ WithRole(req, role, redirect)[Len(req) + 1]
              = [name |-> role.name, params |-> ReplicaParams(role, redirect)]
<1> DEFINE new == [name |-> role.name, params |-> ReplicaParams(role, redirect)]
<1>1. new \in [name : STRING, params : Seq(S)]
  BY ReplicaParamsType DEF AppRoles
<1>2. WithRole(req, role, redirect) = Append(req, new)
  BY DEF WithRole, Entry
<1> HIDE DEF new
<1>3. /\ Append(req, new) \in Requests(S)
      /\ Len(Append(req, new)) = Len(req) + 1
      /\ \A i \in 1 .. Len(req) : Append(req, new)[i] = req[i]
      /\ Append(req, new)[Len(req) + 1] = new
  BY <1>1, AppendProperties DEF Requests
<1>4. DOMAIN req = 1 .. Len(req) /\ DOMAIN Append(req, new) = 1 .. Len(Append(req, new))
  BY <1>3, LenProperties DEF Requests
<1>5. QED
  BY <1>2, <1>3, <1>4 DEF new

\* The replicas of a namesake come after those that are there.
LEMMA SameEntry ==
  ASSUME NEW S, NEW req \in Requests(S), NEW role \in AppRoles, role.replicas > 0, NEW redirect,
         \A k \in 0 .. role.replicas - 1 : ReplicaParam(role, k, redirect) \in S,
         \E i \in DOMAIN req : req[i].name = role.name
  PROVE  /\ WithRole(req, role, redirect) \in Requests(S)
         /\ DOMAIN WithRole(req, role, redirect) = DOMAIN req
         /\ \A p \in DOMAIN req :
              WithRole(req, role, redirect)[p] =
                IF req[p].name = role.name
                  THEN [name |-> role.name,
                        params |-> req[p].params \o ReplicaParams(role, redirect)]
                  ELSE req[p]
<1> DEFINE after(p) == [name |-> role.name,
                        params |-> req[p].params \o ReplicaParams(role, redirect)]
<1>1. WithRole(req, role, redirect)
        = [p \in DOMAIN req |-> IF req[p].name = role.name THEN after(p) ELSE req[p]]
  BY DEF WithRole, Entry
<1>2. DOMAIN req = 1 .. Len(req) /\ Len(req) \in Nat
  BY LenProperties DEF Requests
<1>3. \A p \in DOMAIN req : req[p] \in [name : STRING, params : Seq(S)]
  BY <1>2, ElementOfSeq DEF Requests
<1>4. \A p \in DOMAIN req : after(p) \in [name : STRING, params : Seq(S)]
  <2> SUFFICES ASSUME NEW p \in DOMAIN req PROVE after(p) \in [name : STRING, params : Seq(S)]
    OBVIOUS
  <2>1. req[p].params \o ReplicaParams(role, redirect) \in Seq(S)
    BY <1>3, ReplicaParamsType, ConcatProperties
  <2>2. QED
    BY <2>1 DEF AppRoles
<1> HIDE DEF after
<1>5. WithRole(req, role, redirect) \in Requests(S)
  <2>1. \A p \in 1 .. Len(req) :
          (IF req[p].name = role.name THEN after(p) ELSE req[p]) \in [name : STRING, params : Seq(S)]
    BY <1>2, <1>3, <1>4
  <2>2. QED
    BY <1>1, <1>2, <2>1 DEF Requests
<1>6. QED
  BY <1>1, <1>5 DEF after

\* everything in a request is where it was
Keeps(req, new) ==
  \A p \in DOMAIN req :
    /\ p \in DOMAIN new
    /\ new[p].name = req[p].name
    /\ \A q \in DOMAIN req[p].params :
         q \in DOMAIN new[p].params /\ new[p].params[q] = req[p].params[q]

\* the replicas of a role are in an entry one after the other, after the first m
Has(entry, m, role, redirect) ==
  \A k \in 1 .. role.replicas :
    m + k \in DOMAIN entry.params /\ entry.params[m + k] = ReplicaParam(role, k - 1, redirect)

\* what is not from before is a replica of the role, in an entry of its name
Adds(req, new, role, redirect) ==
  \A p \in DOMAIN new :
    /\ new[p].params # <<>>
    /\ \A q \in DOMAIN new[p].params :
         \/ p \in DOMAIN req /\ q \in DOMAIN req[p].params
         \/ /\ new[p].name = role.name
            /\ \E k \in 1 .. role.replicas :
                 new[p].params[q] = ReplicaParam(role, k - 1, redirect)

\* What is in a request is where it was when a role is added, the replicas of the
\* role are in one entry in the order of their ids, and nothing else comes in.
LEMMA WithRoleProperties ==
  ASSUME NEW S, NEW req \in Requests(S), NEW role \in AppRoles, role.replicas > 0, NEW redirect,
         \A k \in 0 .. role.replicas - 1 : ReplicaParam(role, k, redirect) \in S,
         \A p \in DOMAIN req : req[p].params # <<>>,
         NEW new, new = WithRole(req, role, redirect)
  PROVE  /\ new \in Requests(S)
         /\ Keeps(req, new)
         /\ \A p \in DOMAIN req :
              req[p].name = role.name => Has(new[p], Len(req[p].params), role, redirect)
         /\ \E p \in DOMAIN new : \E m \in Nat : Has(new[p], m, role, redirect)
         /\ Adds(req, new, role, redirect)
<1> DEFINE added == ReplicaParams(role, redirect)
<1>1. /\ added \in Seq(S) /\ Len(added) = role.replicas /\ DOMAIN added = 1 .. role.replicas
      /\ \A k \in 1 .. role.replicas : added[k] = ReplicaParam(role, k - 1, redirect)
      /\ role.replicas \in Nat
  BY ReplicaParamsType, LenProperties DEF AppRoles
<1>2. DOMAIN req = 1 .. Len(req) /\ Len(req) \in Nat
  BY LenProperties DEF Requests
<1>3. \A p \in DOMAIN req :
        /\ req[p].params \in Seq(S) /\ Len(req[p].params) \in Nat
        /\ DOMAIN req[p].params = 1 .. Len(req[p].params)
  <2> SUFFICES ASSUME NEW p \in DOMAIN req
               PROVE  /\ req[p].params \in Seq(S) /\ Len(req[p].params) \in Nat
                      /\ DOMAIN req[p].params = 1 .. Len(req[p].params)
    OBVIOUS
  <2>1. req[p] \in [name : STRING, params : Seq(S)]
    BY <1>2, ElementOfSeq DEF Requests
  <2>2. QED
    BY <2>1, LenProperties
<1> HIDE DEF added
<1>4. CASE ~\E i \in DOMAIN req : req[i].name = role.name
  <2>1. /\ new \in Requests(S)
        /\ DOMAIN new = 1 .. Len(req) + 1
        /\ \A p \in DOMAIN req : new[p] = req[p]
        /\ new[Len(req) + 1] = [name |-> role.name, params |-> added]
    BY <1>4, NewEntry DEF added
  <2>2. added # <<>>
    BY <1>1, Empty
  <2>3. Keeps(req, new)
    BY <1>2, <2>1 DEF Keeps
  <2>4. Has(new[Len(req) + 1], 0, role, redirect)
    BY <1>1, <2>1 DEF Has
  <2>5. Adds(req, new, role, redirect)
    <3> SUFFICES ASSUME NEW p \in DOMAIN new, p \notin DOMAIN req
                 PROVE  /\ new[p].params # <<>> /\ new[p].name = role.name
                        /\ \A q \in DOMAIN new[p].params : \E k \in 1 .. role.replicas :
                             new[p].params[q] = ReplicaParam(role, k - 1, redirect)
      BY <2>1 DEF Adds
    <3>1. p = Len(req) + 1
      BY <1>2, <2>1
    <3>2. QED
      BY <1>1, <2>1, <2>2, <3>1
  <2>6. QED
    BY <1>2, <1>4, <2>1, <2>3, <2>4, <2>5
<1>5. CASE \E i \in DOMAIN req : req[i].name = role.name
  <2>1. /\ new \in Requests(S)
        /\ DOMAIN new = DOMAIN req
        /\ \A p \in DOMAIN req :
             new[p] = IF req[p].name = role.name
                        THEN [name |-> role.name, params |-> req[p].params \o added]
                        ELSE req[p]
    BY <1>5, SameEntry DEF added
  <2>2. \A p \in DOMAIN req :
          /\ DOMAIN (req[p].params \o added) = 1 .. Len(req[p].params) + role.replicas
          /\ \A q \in 1 .. Len(req[p].params) + role.replicas :
               (req[p].params \o added)[q] =
                 IF q <= Len(req[p].params) THEN req[p].params[q] ELSE added[q - Len(req[p].params)]
    BY <1>1, <1>3, ConcatProperties, LenProperties
  <2>3. \A p \in DOMAIN req : req[p].params \o added # <<>>
    BY <1>1, <1>3, <2>2, Empty
  <2>4. \A p \in DOMAIN req :
          req[p].name = role.name => Has(new[p], Len(req[p].params), role, redirect)
    <3> SUFFICES ASSUME NEW p \in DOMAIN req, req[p].name = role.name, NEW k \in 1 .. role.replicas
                 PROVE  /\ Len(req[p].params) + k \in DOMAIN new[p].params
                        /\ new[p].params[Len(req[p].params) + k]
                             = ReplicaParam(role, k - 1, redirect)
      BY DEF Has
    <3>1. new[p].params = req[p].params \o added
      BY <2>1
    <3>2. QED
      BY <1>1, <1>3, <2>2, <3>1
  <2>5. Keeps(req, new)
    <3> SUFFICES ASSUME NEW p \in DOMAIN req, NEW q \in DOMAIN req[p].params
                 PROVE  q \in DOMAIN new[p].params /\ new[p].params[q] = req[p].params[q]
      BY <2>1 DEF Keeps
    <3>1. CASE req[p].name = role.name
      <4>1. new[p].params = req[p].params \o added
        BY <2>1, <3>1
      <4>2. QED
        BY <1>1, <1>3, <2>2, <4>1
    <3>2. CASE req[p].name # role.name
      BY <2>1, <3>2
    <3>3. QED
      BY <3>1, <3>2
  <2>6. Adds(req, new, role, redirect)
    <3> SUFFICES ASSUME NEW p \in DOMAIN new
                 PROVE  /\ new[p].params # <<>>
                        /\ \A q \in DOMAIN new[p].params :
                             \/ q \in DOMAIN req[p].params
                             \/ /\ new[p].name = role.name
                                /\ \E k \in 1 .. role.replicas :
                                     new[p].params[q] = ReplicaParam(role, k - 1, redirect)
      BY <2>1 DEF Adds
    <3>1. CASE req[p].name = role.name
      <4>1. new[p].params = req[p].params \o added /\ new[p].name = role.name
        BY <2>1, <3>1
      <4>2. ASSUME NEW q \in DOMAIN new[p].params, q \notin DOMAIN req[p].params
            PROVE  \E k \in 1 .. role.replicas :
                     new[p].params[q] = ReplicaParam(role, k - 1, redirect)
        <5>1. q \in Len(req[p].params) + 1 .. Len(req[p].params) + role.replicas
          BY <1>1, <1>3, <2>1, <2>2, <4>1, <4>2
        <5>2. q - Len(req[p].params) \in 1 .. role.replicas
          BY <1>1, <1>3, <2>1, <5>1
        <5>3. new[p].params[q] = added[q - Len(req[p].params)]
          BY <1>1, <1>3, <2>1, <2>2, <4>1, <5>1
        <5>4. QED
          BY <1>1, <5>2, <5>3
      <4>3. QED
        BY <2>1, <2>3, <4>1, <4>2
    <3>2. CASE req[p].name # role.name
      BY <2>1, <3>2
    <3>3. QED
      BY <3>1, <3>2
  <2>7. QED
    BY <1>3, <1>5, <2>1, <2>4, <2>5, <2>6
<1>6. QED
  BY <1>4, <1>5

-----------------------------------------------------------------------------
(* A step of _to_popen_request *)

\* AddRole, by what it does with one role.
LEMMA RoleAdded ==
  ASSUME RunInvariant, AddRole, pc' = "request"
  PROVE  /\ at.role \in DOMAIN app /\ at' = [at EXCEPT !.role = @ + 1]
         /\ app[at.role] \in AppRoles /\ app[at.role].replicas > 0
         /\ \E redirect \in BOOLEAN :
              /\ request' = WithRole(request, app[at.role], redirect)
              /\ \A k \in 0 .. app[at.role].replicas - 1 :
                   ReplicaParam(app[at.role], k, redirect) \in Params
<1>1. program = "torchx run"
  BY DEF RunInvariant, Fresh, AddRole, Loads, TypeOK
<1>2. /\ at.role \in DOMAIN app
      /\ request' = WithRole(request, app[at.role], Redirects)
      /\ at' = [at EXCEPT !.role = @ + 1]
  BY <1>1 DEF AddRole, Raise
<1>3. app \in Seq(AppRoles)
  BY AppDefsAssumption, Empty DEF RunInvariant, TypeOK
<1>4. app[at.role] \in AppRoles
  BY <1>2, <1>3, ElementOfSeq, LenProperties
<1>5. app[at.role].replicas > 0
  BY <1>2 DEF RunInvariant, Fresh, AddRole, WellFormed
<1>6. \A redirect \in BOOLEAN : \A k \in 0 .. app[at.role].replicas - 1 :
        ReplicaParam(app[at.role], k, redirect) \in Params
  BY <1>2 DEF Params
<1>7. Redirects \in BOOLEAN
  BY DEF Redirects
<1>8. QED
  BY <1>2, <1>4, <1>5, <1>6, <1>7

\* The replicas of the role are in the request, and where a namesake has replicas
\* there are two with the id 0.
LEMMA AddRoleBuilds ==
  ASSUME RunInvariant, AddRole, pc' = "request"
  PROVE  RequestType' /\ CursorType' /\ Entries' /\ Building'
<1> DEFINE role == app[at.role]
<1>1. /\ at.role \in DOMAIN app /\ role \in AppRoles /\ role.replicas > 0
      /\ role.replicas \in Nat
      /\ at' = [at EXCEPT !.role = @ + 1]
  BY RoleAdded DEF AppRoles
<1>2. PICK redirect \in BOOLEAN :
        /\ request' = WithRole(request, role, redirect)
        /\ \A k \in 0 .. role.replicas - 1 : ReplicaParam(role, k, redirect) \in Params
  BY RoleAdded
<1>3. /\ RequestType /\ request \in Requests(Params)
      /\ CursorType /\ Entries /\ Building /\ pc = "request" /\ outcome = "none"
      /\ UNCHANGED <<app, outcome>>
  BY TypeParts DEF RunInvariant, RequestType, Requests, AddRole, Raise, options, Fresh, Loads
<1>4. UNCHANGED Params
  BY <1>3 DEF Params
<1>5. /\ request' \in Requests(Params)
      /\ Keeps(request, request')
      /\ \A p \in DOMAIN request :
           request[p].name = role.name => Has(request'[p], Len(request[p].params), role, redirect)
      /\ \E p \in DOMAIN request' : \E m \in Nat : Has(request'[p], m, role, redirect)
      /\ Adds(request, request', role, redirect)
  <2>1. \A p \in DOMAIN request : request[p].params # <<>>
    BY <1>3 DEF Entries
  <2> HIDE DEF role
  <2>2. QED
    BY <1>1, <1>2, <1>3, <2>1, WithRoleProperties
<1>6. CursorType' /\ at'.role = at.role + 1 /\ at.role \in Nat
  BY <1>1, <1>3 DEF CursorType
<1>7. Len(app) \in Nat /\ DOMAIN app = 1 .. Len(app) /\ \A i \in DOMAIN app : app[i] \in AppRoles
  <2>1. app \in Seq(AppRoles)
    BY AppDefsAssumption, Empty DEF RunInvariant, TypeOK
  <2>2. QED
    BY <2>1, ElementOfSeq, LenProperties
<1> HIDE DEF role
<1>8. Entries'
  <2> SUFFICES ASSUME NEW p \in DOMAIN request'
               PROVE  /\ request'[p].params # <<>>
                      /\ \A q \in DOMAIN request'[p].params :
                           request'[p].params[q].logDir[1] = request'[p].name
    BY DEF Entries
  <2>1. request'[p].params # <<>>
    BY <1>5 DEF Adds
  <2>2. ASSUME NEW q \in DOMAIN request'[p].params
        PROVE  request'[p].params[q].logDir[1] = request'[p].name
    <3>1. CASE p \in DOMAIN request /\ q \in DOMAIN request[p].params
      BY <1>3, <1>5, <3>1 DEF Keeps, Entries
    <3>2. CASE ~(p \in DOMAIN request /\ q \in DOMAIN request[p].params)
      <4>1. /\ request'[p].name = role.name
            /\ \E k \in 1 .. role.replicas :
                 request'[p].params[q] = ReplicaParam(role, k - 1, redirect)
        BY <1>5, <2>2, <3>2 DEF Adds
      <4>2. QED
        BY <4>1 DEF ReplicaParam
    <3>3. QED
      BY <3>1, <3>2
  <2>3. QED
    BY <2>1, <2>2
<1>9. ASSUME NEW i \in 1 .. at.role, NEW k \in 0 .. app[i].replicas - 1
      PROVE  \E p \in DOMAIN request' : \E q \in DOMAIN request'[p].params :
               /\ request'[p].params[q].logDir = <<app[i].name, k>>
               /\ request'[p].params[q].id = k
  <2>1. CASE i < at.role
    <3>1. PICK p \in DOMAIN request : \E q \in DOMAIN request[p].params :
            request[p].params[q].logDir = <<app[i].name, k>> /\ request[p].params[q].id = k
      <4>1. i \in 1 .. at.role - 1
        BY <1>6, <2>1
      <4>2. QED
        BY <1>3, <1>9, <4>1 DEF Building, Built
    <3>2. QED
      BY <1>5, <3>1 DEF Keeps
  <2>2. CASE i = at.role
    <3>1. k + 1 \in 1 .. role.replicas /\ (k + 1) - 1 = k
      BY <1>1, <1>9, <2>2 DEF role
    <3>2. PICK p \in DOMAIN request' : \E m \in Nat : Has(request'[p], m, role, redirect)
      BY <1>5
    <3>3. \E q \in DOMAIN request'[p].params : request'[p].params[q] = ReplicaParam(role, k, redirect)
      BY <3>1, <3>2 DEF Has
    <3>4. QED
      BY <2>2, <3>3 DEF ReplicaParam, MacroId, role
  <2>3. QED
    BY <1>6, <2>1, <2>2
<1>10. ASSUME NEW i \in 1 .. at.role, NEW j \in 1 .. at.role, i < j, app[i].name = app[j].name
       PROVE  \E p \in DOMAIN request' : \E q, r \in DOMAIN request'[p].params :
                q < r /\ request'[p].params[q].logDir = request'[p].params[r].logDir
  <2>1. CASE j < at.role
    <3>1. PICK p \in DOMAIN request : \E q, r \in DOMAIN request[p].params :
            q < r /\ request[p].params[q].logDir = request[p].params[r].logDir
      <4>1. i \in 1 .. at.role - 1 /\ j \in 1 .. at.role - 1
        BY <1>6, <1>10, <2>1
      <4>2. QED
        BY <1>3, <1>10, <4>1 DEF Building, Built
    <3>2. QED
      BY <1>5, <3>1 DEF Keeps
  <2>2. CASE j = at.role
    <3>1. i \in DOMAIN app /\ app[i].replicas > 0 /\ app[i].replicas \in Int
      <4>1. i \in DOMAIN app
        BY <1>1, <1>6, <1>7
      <4>2. WellFormed(app)
        BY <1>3 DEF RunInvariant, Fresh
      <4>3. QED
        BY <1>7, <4>1, <4>2 DEF WellFormed, AppRoles
    <3>2. PICK p \in DOMAIN request : \E q \in DOMAIN request[p].params :
            request[p].params[q].logDir = <<app[i].name, 0>>
      <4>1. 0 \in 0 .. app[i].replicas - 1 /\ i \in 1 .. at.role - 1
        BY <1>6, <1>10, <2>2, <3>1
      <4>2. QED
        BY <1>3, <4>1 DEF Building, Built
    <3>3. PICK q \in DOMAIN request[p].params : request[p].params[q].logDir = <<app[i].name, 0>>
      BY <3>2
    <3>4. request[p].name = role.name
      BY <1>3, <1>10, <2>2, <3>3 DEF Entries, role
    <3>5. 1 \in 1 .. role.replicas
      BY <1>1
    <3>6. /\ Len(request[p].params) + 1 \in DOMAIN request'[p].params
          /\ request'[p].params[Len(request[p].params) + 1] = ReplicaParam(role, 0, redirect)
      BY <1>5, <3>4, <3>5 DEF Has
    <3>7. q < Len(request[p].params) + 1
      <4>1. request[p] \in [name : STRING, params : Seq(Params)]
        BY <1>3, ElementOfSeq, LenProperties DEF Requests
      <4>2. QED
        BY <4>1, LenProperties
    <3>8. request'[p].params[q].logDir = request'[p].params[Len(request[p].params) + 1].logDir
      BY <1>5, <1>10, <2>2, <3>3, <3>6 DEF Keeps, ReplicaParam, role
    <3>9. q \in DOMAIN request'[p].params /\ p \in DOMAIN request'
      BY <1>5 DEF Keeps
    <3>10. QED
      BY <3>6, <3>7, <3>8, <3>9
  <2>3. QED
    BY <1>6, <2>1, <2>2
<1>11. Building'
  <2>1. at'.role \in 1 .. Len(app) + 1 /\ at'.role - 1 = at.role
    BY <1>1, <1>6, <1>7
  <2>2. Built(app, request, at.role - 1)'
    <3>1. app' = app /\ 1 .. at'.role - 1 = 1 .. at.role
      BY <1>3, <2>1
    <3>2. \A i \in 1 .. at'.role - 1 : \A k \in 0 .. app'[i].replicas - 1 :
            \E p \in DOMAIN request' : \E q \in DOMAIN request'[p].params :
              /\ request'[p].params[q].logDir = <<app'[i].name, k>>
              /\ request'[p].params[q].id = k
      <4> SUFFICES ASSUME NEW i \in 1 .. at'.role - 1, NEW k \in 0 .. app'[i].replicas - 1
                   PROVE  \E p \in DOMAIN request' : \E q \in DOMAIN request'[p].params :
                            /\ request'[p].params[q].logDir = <<app'[i].name, k>>
                            /\ request'[p].params[q].id = k
        OBVIOUS
      <4>1. i \in 1 .. at.role /\ k \in 0 .. app[i].replicas - 1 /\ app'[i].name = app[i].name
        BY <3>1
      <4>2. QED
        BY <1>9, <4>1
    <3>3. \A i, j \in 1 .. at'.role - 1 : i < j /\ app'[i].name = app'[j].name =>
            \E p \in DOMAIN request' : \E q, r \in DOMAIN request'[p].params :
              q < r /\ request'[p].params[q].logDir = request'[p].params[r].logDir
      BY <1>10, <3>1
    <3>4. QED
      BY <3>2, <3>3 DEF Built
  <2>3. QED
    BY <1>3, <2>1, <2>2 DEF Building
<1>12. QED
  BY <1>4, <1>5, <1>6, <1>8, <1>11 DEF RequestType, Requests

-----------------------------------------------------------------------------
(* A step of schedule *)

\* A replica that is started is the next of the request.
LEMMA ReplicaStarted ==
  ASSUME RunInvariant, Schedule, at.role \in DOMAIN request, pc' = "schedule"
  PROVE  LET param == request[at.role].params[at.replica] IN
         /\ param \in Params
         /\ \A i \in DOMAIN started : started[i].logDir # param.logDir
         /\ started' = Append(started, param) /\ started' \in Seq(Params)
         /\ Len(started') = Len(started) + 1
         /\ DOMAIN started = 1 .. Len(started) /\ DOMAIN started' = 1 .. Len(started) + 1
         /\ \A i \in DOMAIN started : started'[i] = started[i]
         /\ started'[Len(started) + 1] = param
         /\ running' = running \cup {param}
         /\ at' = Following
<1> DEFINE param == request[at.role].params[at.replica]
<1>1. program = "torchx run" /\ pc = "schedule"
  BY DEF RunInvariant, Fresh, Schedule, Loads, TypeOK
<1>2. /\ \A i \in DOMAIN started : started[i].logDir # param.logDir
      /\ started' = Append(started, param)
      /\ running' = running \cup {param}
      /\ at' = Following
  BY <1>1 DEF Schedule, Raise
<1>3. param \in Params
  <2>1. /\ request \in Requests(Params)
        /\ at.replica \in DOMAIN request[at.role].params
    BY <1>1, TypeParts DEF RunInvariant, RequestType, Requests, Starting
  <2>2. request[at.role] \in [name : STRING, params : Seq(Params)]
    BY <2>1, ElementOfSeq, LenProperties DEF Requests
  <2>3. QED
    BY <2>1, <2>2, ElementOfSeq, LenProperties
<1>4. started \in Seq(Params)
  BY DEF RunInvariant, TypeOK
<1> HIDE DEF param
<1>5. /\ Append(started, param) \in Seq(Params)
      /\ Len(Append(started, param)) = Len(started) + 1
      /\ \A i \in 1 .. Len(started) : Append(started, param)[i] = started[i]
      /\ Append(started, param)[Len(started) + 1] = param
  BY <1>3, <1>4, AppendProperties
<1>6. /\ DOMAIN started = 1 .. Len(started)
      /\ DOMAIN Append(started, param) = 1 .. Len(Append(started, param))
  BY <1>4, <1>5, LenProperties
<1>7. QED
  BY <1>2, <1>3, <1>5, <1>6 DEF param

\* It has another log directory than those before, and is the next that is passed.
LEMMA ScheduleStarts ==
  ASSUME RunInvariant, Schedule, at.role \in DOMAIN request, pc' = "schedule"
  PROVE  ProcessTypes' /\ CursorType' /\ Starting' /\ DirsApart'
<1> DEFINE param == request[at.role].params[at.replica]
<1>1. /\ param \in Params
      /\ \A i \in DOMAIN started : started[i].logDir # param.logDir
      /\ started' \in Seq(Params)
      /\ DOMAIN started = 1 .. Len(started) /\ DOMAIN started' = 1 .. Len(started) + 1
      /\ \A i \in DOMAIN started : started'[i] = started[i]
      /\ started'[Len(started) + 1] = param
      /\ running' = running \cup {param}
      /\ at' = Following
  BY ReplicaStarted
<1>2. /\ UNCHANGED <<app, request, killed>> /\ pc = "schedule"
      /\ ProcessTypes /\ CursorType /\ Entries /\ Starting /\ DirsApart
      /\ request \in Requests(Params)
  BY TypeParts DEF RunInvariant, Schedule, options, RequestType, Requests
<1>3. UNCHANGED Params
  BY <1>2 DEF Params
<1>4. /\ DOMAIN request = 1 .. Len(request) /\ Len(request) \in Nat
      /\ \A p \in DOMAIN request :
           /\ request[p].params # <<>> /\ Len(request[p].params) \in Nat
           /\ DOMAIN request[p].params = 1 .. Len(request[p].params)
  <2>1. DOMAIN request = 1 .. Len(request) /\ Len(request) \in Nat
    BY <1>2, LenProperties DEF Requests
  <2>2. \A p \in DOMAIN request : request[p] \in [name : STRING, params : Seq(Params)]
    BY <1>2, <2>1, ElementOfSeq DEF Requests
  <2>3. \A p \in DOMAIN request :
           /\ Len(request[p].params) \in Nat
           /\ DOMAIN request[p].params = 1 .. Len(request[p].params)
    BY <2>2, LenProperties
  <2>4. QED
    BY <1>2, <2>1, <2>3 DEF Entries
<1>5. Len(started) \in Nat
  BY <1>2, LenProperties DEF ProcessTypes
<1>6. at.role \in DOMAIN request /\ at.replica \in DOMAIN request[at.role].params
  BY <1>2 DEF Starting
<1> HIDE DEF param
<1>7. ProcessTypes'
  <2>1. running \cup {param} \subseteq ToSet(started')
    BY <1>1, <1>2, <1>5 DEF ProcessTypes, ToSet
  <2>2. QED
    BY <1>1, <1>2, <1>3, <2>1 DEF ProcessTypes
<1>8. CursorType' /\ (at'.role \in DOMAIN request => at'.replica \in DOMAIN request[at'.role].params)
  <2>1. CASE at.replica < Len(request[at.role].params)
    <3>1. at' = [at EXCEPT !.replica = @ + 1]
      BY <1>1, <2>1 DEF Following
    <3>2. QED
      BY <1>2, <1>4, <1>6, <2>1, <3>1 DEF CursorType
  <2>2. CASE ~(at.replica < Len(request[at.role].params))
    <3>1. at' = [role |-> at.role + 1, replica |-> 1]
      BY <1>1, <2>2 DEF Following
    <3>2. \A p \in DOMAIN request : 1 \in DOMAIN request[p].params
      <4>1. \A p \in DOMAIN request : Len(request[p].params) # 0
        <5> SUFFICES ASSUME NEW p \in DOMAIN request, Len(request[p].params) = 0 PROVE FALSE
          OBVIOUS
        <5>1. request[p].params \in Seq(Params)
          <6>1. request[p] \in [name : STRING, params : Seq(Params)]
            BY <1>2, <1>4, ElementOfSeq DEF Requests
          <6>2. QED
            BY <6>1
        <5>2. QED
          BY <1>4, <5>1, EmptySeq
      <4>2. QED
        BY <1>4, <4>1
    <3>3. QED
      BY <1>2, <1>4, <3>1, <3>2 DEF CursorType
  <2>3. QED
    BY <2>1, <2>2
<1>9. ASSUME NEW p \in DOMAIN request, NEW q \in DOMAIN request[p].params, Passed(p, q)'
      PROVE  Passed(p, q) \/ (p = at.role /\ q = at.replica)
  <2>1. p \in Nat /\ q \in Nat \ {0} /\ at.role \in Nat /\ at.replica \in Nat
    BY <1>2, <1>4 DEF CursorType
  <2>2. CASE at.replica < Len(request[at.role].params)
    <3>1. at' = [at EXCEPT !.replica = @ + 1]
      BY <1>1, <2>2 DEF Following
    <3>2. at'.role = at.role /\ at'.replica = at.replica + 1
      BY <1>2, <3>1 DEF CursorType
    <3>3. QED
      BY <1>9, <2>1, <3>2 DEF Passed
  <2>3. CASE ~(at.replica < Len(request[at.role].params))
    <3>1. at' = [role |-> at.role + 1, replica |-> 1]
      BY <1>1, <2>3 DEF Following
    <3>2. p < at.role + 1
      BY <1>9, <2>1, <3>1 DEF Passed
    <3>3. p = at.role => q <= at.replica
      BY <1>4, <1>6, <2>1, <2>3
    <3>4. QED
      BY <2>1, <3>2, <3>3 DEF Passed
  <2>4. QED
    BY <2>2, <2>3
<1>10. ASSUME NEW p \in DOMAIN request, NEW q \in DOMAIN request[p].params, Passed(p, q)'
       PROVE  \E i \in DOMAIN started' : started'[i] = request[p].params[q]
  <2>1. CASE Passed(p, q)
    BY <1>1, <1>2, <1>5, <2>1 DEF Starting
  <2>2. CASE p = at.role /\ q = at.replica
    BY <1>1, <1>5, <2>2 DEF param
  <2>3. QED
    BY <1>9, <1>10, <2>1, <2>2
<1>11. ASSUME NEW p \in DOMAIN request, NEW q \in DOMAIN request[p].params,
              NEW r \in DOMAIN request[p].params, q < r, Passed(p, r)'
       PROVE  request[p].params[q].logDir # request[p].params[r].logDir
  <2>1. CASE Passed(p, r)
    BY <1>2, <1>11, <2>1 DEF Starting
  <2>2. CASE p = at.role /\ r = at.replica
    <3>1. Passed(p, q)
      BY <1>11, <2>2 DEF Passed
    <3>2. PICK i \in DOMAIN started : started[i] = request[p].params[q]
      BY <1>2, <3>1 DEF Starting
    <3>3. QED
      BY <1>1, <2>2, <3>2 DEF param
  <2>3. QED
    BY <1>9, <1>11, <2>1, <2>2
<1>12. Starting'
  <2>1. outcome' # "launched"
    BY DEF RunInvariant, Starting, Schedule, Raise, TypeOK
  <2>2. QED
    BY <1>2, <1>8, <1>10, <1>11, <2>1 DEF Starting
<1>13. DirsApart'
  <2> SUFFICES ASSUME NEW i \in DOMAIN started', NEW j \in DOMAIN started', i # j
               PROVE  started'[i].logDir # started'[j].logDir
    BY DEF DirsApart
  <2>1. CASE i \in DOMAIN started /\ j \in DOMAIN started
    BY <1>1, <1>2, <2>1 DEF DirsApart
  <2>2. CASE i \in DOMAIN started /\ j = Len(started) + 1
    BY <1>1, <2>2
  <2>3. CASE j \in DOMAIN started /\ i = Len(started) + 1
    BY <1>1, <2>3
  <2>4. QED
    BY <1>1, <1>5, <2>1, <2>2, <2>3
<1>14. QED
  BY <1>7, <1>8, <1>12, <1>13

-----------------------------------------------------------------------------
(* Every step *)

\* What is there before, and what is submitted.
LEMMA FreshStep ==
  ASSUME RunInvariant, [Next]_vars PROVE Fresh'
<1> USE DEF Fresh, Loads, Raise
<1>1. Fresh /\ ControlTypes
  BY TypeParts DEF RunInvariant
<1>2. CASE Resolve \/ Lint \/ Execute \/ Call
  BY <1>1, <1>2
  DEF Resolve, LoadFunction, ReadConfFile, Lint, Execute, Call, preparing, options, processes, ControlTypes
<1>3. CASE Returned
  BY <1>1, <1>3 DEF Returned, processes, ControlTypes
<1>4. CASE Validate
  BY <1>1, <1>4 DEF Validate, preparing, options, processes, ControlTypes
<1>5. CASE SubmitDryrun
  BY <1>1, <1>5 DEF SubmitDryrun, processes, ControlTypes
<1>6. CASE AddRole \/ Requested
  BY <1>1, <1>6 DEF AddRole, Requested, options, processes, ControlTypes
<1>7. CASE Schedule
  BY <1>1, <1>7 DEF Schedule, options, ControlTypes
<1>8. CASE Status \/ Wait
  BY <1>1, <1>8 DEF Status, Wait, preparing, options, processes, ControlTypes
<1>9. CASE Terminate \/ EndProcess
  BY <1>1, <1>9 DEF Terminate, EndProcess, preparing, options, ControlTypes
<1>10. CASE Exit
  BY <1>1, <1>10 DEF Exit, preparing, options, ControlTypes
<1>11. CASE UNCHANGED vars
  BY <1>1, <1>11 DEF vars, preparing, options, processes
<1>12. QED
  BY <1>2, <1>3, <1>4, <1>5, <1>6, <1>7, <1>8, <1>9, <1>10, <1>11 DEF Next

\* The request and the processes stay as they are in a step that does not touch
\* them, and neither begins the request or the launch.
LEMMA Quiet ==
  ASSUME RunInvariant, UNCHANGED <<app, request, at>>,
         pc' = "request" => pc = "request",
         pc' = "schedule" \/ outcome' = "launched" => pc = "schedule" \/ outcome = "launched",
         outcome' = "launched" => outcome = "launched" \/ at.role \notin DOMAIN request
  PROVE  /\ RequestType' /\ CursorType' /\ Entries' /\ Building'
         /\ UNCHANGED started => Starting' /\ DirsApart'
<1>1. RequestType /\ CursorType /\ Entries /\ Building /\ Starting /\ DirsApart
  BY TypeParts DEF RunInvariant
<1>2. UNCHANGED Params
  BY DEF Params
<1>3. RequestType' /\ CursorType' /\ Entries'
  BY <1>1, <1>2 DEF RequestType, CursorType, Entries
<1>4. Building'
  BY <1>1 DEF Building
<1>5. ASSUME UNCHANGED started PROVE Starting' /\ DirsApart'
  <2>1. DirsApart'
    BY <1>1, <1>5 DEF DirsApart
  <2>2. Starting'
    BY <1>1, <1>5 DEF Starting, Passed
  <2>3. QED
    BY <2>1, <2>2
<1>6. QED
  BY <1>3, <1>4, <1>5

\* The processes in a step that starts none.
LEMMA ProcessStep ==
  ASSUME RunInvariant, UNCHANGED <<app, started>>,
         killed' \subseteq running', running' \subseteq running
  PROVE  ProcessTypes'
<1>1. ProcessTypes /\ UNCHANGED Params
  BY TypeParts DEF RunInvariant, Params
<1>2. QED
  BY <1>1 DEF ProcessTypes

RequestParts ==
  RequestType /\ CursorType /\ ProcessTypes /\ Entries /\ Building /\ Starting /\ DirsApart

\* The steps before there is a request.
LEMMA LoadParts ==
  ASSUME RunInvariant, Resolve \/ Lint \/ Execute \/ Call \/ Validate
  PROVE  RequestParts'
<1>1. /\ UNCHANGED <<app, request, at, started, running, killed>>
      /\ outcome = "none"
      /\ pc' \notin {"request", "schedule"} /\ outcome' # "launched"
  BY DEF Resolve, LoadFunction, ReadConfFile, Lint, Execute, Call, Validate, Raise, preparing, options, processes,
         RunInvariant, Fresh, Loads
<1>2. killed \subseteq running
  BY DEF RunInvariant, TypeOK
<1>3. QED
  BY <1>1, <1>2, Quiet, ProcessStep DEF RequestParts

\* An application is there before anything is requested for it.
LEMMA ReturnedParts ==
  ASSUME RunInvariant, Returned
  PROVE  RequestParts'
<1>1. /\ request' = <<>> /\ at' = First /\ started' = <<>> /\ running' = {} /\ killed' = {}
      /\ pc' \notin {"request", "schedule"} /\ outcome' # "launched"
  BY DEF Returned, Raise, processes, RunInvariant, Fresh, Loads
<1>2. DOMAIN request' = {} /\ DOMAIN started' = {}
  BY <1>1, Empty
<1>3. RequestType' /\ ProcessTypes'
  BY <1>1, Empty DEF RequestType, ProcessTypes
<1>4. CursorType'
  <2>1. First \in [role : Nat \ {0}, replica : Nat \ {0}]
    BY DEF First
  <2>2. QED
    BY <1>1, <2>1 DEF CursorType
<1>5. Entries' /\ Building' /\ Starting' /\ DirsApart'
  BY <1>1, <1>2 DEF Entries, Building, Starting, DirsApart
<1>6. QED
  BY <1>3, <1>4, <1>5 DEF RequestParts

\* The request begins empty.
LEMMA SubmitParts ==
  ASSUME RunInvariant, SubmitDryrun
  PROVE  RequestParts'
<1>1. /\ UNCHANGED <<app, request, at, started, running, killed>>
      /\ at = First /\ outcome = "none"
      /\ pc' \in {"request", "resolve", "finalize"} /\ outcome' # "launched"
  BY DEF SubmitDryrun, Raise, processes, RunInvariant, Fresh, Loads
<1>2. RequestType /\ CursorType /\ ProcessTypes /\ Entries /\ DirsApart
  BY TypeParts DEF RunInvariant
<1>3. UNCHANGED Params
  BY <1>1 DEF Params
<1>4. RequestType' /\ CursorType' /\ ProcessTypes' /\ Entries' /\ DirsApart'
  BY <1>1, <1>2, <1>3 DEF RequestType, CursorType, ProcessTypes, Entries, DirsApart
<1>5. Len(app) \in Nat
  <2>1. app \in Seq(AppRoles)
    BY AppDefsAssumption, Empty DEF RunInvariant, TypeOK
  <2>2. QED
    BY <2>1, LenProperties
<1>6. at'.role \in 1 .. Len(app') + 1 /\ Built(app, request, at.role - 1)'
  BY <1>1, <1>5 DEF First, Built
<1>7. Building' /\ Starting'
  BY <1>1, <1>6 DEF Building, Starting
<1>8. QED
  BY <1>4, <1>7 DEF RequestParts

\* The request is built role by role.
LEMMA AddRoleParts ==
  ASSUME RunInvariant, AddRole
  PROVE  RequestParts'
<1>1. /\ UNCHANGED <<app, started, running, killed>>
      /\ outcome = "none" /\ outcome' # "launched" /\ pc' # "schedule" /\ killed \subseteq running
  BY DEF AddRole, Raise, options, processes, RunInvariant, Fresh, Loads, TypeOK
<1>2. ProcessTypes'
  BY <1>1, ProcessStep
<1>3. Starting' /\ DirsApart'
  BY <1>1 DEF Starting, DirsApart, RunInvariant
<1>4. CASE pc' = "request"
  BY <1>2, <1>3, <1>4, AddRoleBuilds DEF RequestParts
<1>5. CASE pc' # "request"
  <2>1. UNCHANGED <<request, at>>
    BY <1>5 DEF AddRole
  <2>2. QED
    BY <1>1, <1>2, <1>5, <2>1, Quiet DEF RequestParts
<1>6. QED
  BY <1>4, <1>5

\* All roles are in the request when it is scheduled, and nothing is passed.
LEMMA RequestedParts ==
  ASSUME RunInvariant, Requested
  PROVE  RequestParts'
<1>1. /\ UNCHANGED <<app, request, started, running, killed>> /\ at' = First
      /\ pc = "request" /\ outcome = "none" /\ outcome' = "none" /\ pc' # "request"
      /\ killed \subseteq running /\ started = <<>> /\ at.role \notin DOMAIN app
  BY DEF Requested, options, processes, RunInvariant, Fresh, Loads, TypeOK
<1>2. RequestType /\ CursorType /\ Entries /\ Building /\ DirsApart
  BY TypeParts DEF RunInvariant
<1>3. UNCHANGED Params
  BY <1>1 DEF Params
<1>4. RequestType' /\ ProcessTypes' /\ Entries' /\ DirsApart'
  BY <1>1, <1>2, <1>3, ProcessStep DEF RequestType, Entries, DirsApart
<1>5. CursorType' /\ at'.role = 1 /\ at'.replica = 1
  <2>1. First \in [role : Nat \ {0}, replica : Nat \ {0}] /\ First.role = 1 /\ First.replica = 1
    BY DEF First
  <2>2. QED
    BY <1>1, <2>1 DEF CursorType
<1>6. Building'
  <2>1. Len(app) \in Nat /\ DOMAIN app = 1 .. Len(app)
    <3>1. app \in Seq(AppRoles)
      BY AppDefsAssumption, Empty DEF RunInvariant, TypeOK
    <3>2. QED
      BY <3>1, LenProperties
  <2>2. at.role - 1 = Len(app)
    BY <1>1, <1>2, <2>1 DEF Building
  <2>3. Built(app, request, Len(app))
    BY <1>1, <1>2, <2>2 DEF Building
  <2>4. Built(app, request, Len(app))'
    BY <1>1, <2>3
  <2>5. QED
    BY <1>1, <2>4 DEF Building
<1>7. Starting'
  <2>1. /\ DOMAIN request = 1 .. Len(request)
        /\ \A p \in DOMAIN request : request[p].params # <<>> /\ request[p].params \in Seq(Params)
    <3>1. DOMAIN request = 1 .. Len(request) /\ request \in Requests(Params)
      BY <1>2, LenProperties DEF RequestType, Requests
    <3>2. \A p \in DOMAIN request : request[p] \in [name : STRING, params : Seq(Params)]
      BY <3>1, ElementOfSeq DEF Requests
    <3>3. QED
      BY <1>2, <3>1, <3>2 DEF Entries
  <2>2. \A p \in DOMAIN request :
          1 \in DOMAIN request[p].params /\ DOMAIN request[p].params \subseteq Nat \ {0}
    BY <2>1, EmptySeq, LenProperties
  <2>3. \A p \in DOMAIN request : \A q \in DOMAIN request[p].params : ~Passed(p, q)'
    BY <1>5, <2>1, <2>2 DEF Passed
  <2>4. QED
    BY <1>1, <1>5, <2>2, <2>3 DEF Starting
<1>8. QED
  BY <1>4, <1>5, <1>6, <1>7 DEF RequestParts

\* Replicas are started one by one.
LEMMA ScheduleParts ==
  ASSUME RunInvariant, Schedule
  PROVE  RequestParts'
<1>1. UNCHANGED <<app, request>> /\ pc = "schedule" /\ killed' = killed /\ killed \subseteq running
  BY DEF Schedule, options, RunInvariant, TypeOK
<1>2. CASE pc' = "schedule"
  <2>1. at.role \in DOMAIN request
    BY <1>2 DEF Schedule
  <2>2. ProcessTypes' /\ CursorType' /\ Starting' /\ DirsApart'
    BY <1>2, <2>1, ScheduleStarts
  <2>3. RequestType /\ Entries /\ Building /\ UNCHANGED Params
    BY <1>1, TypeParts DEF RunInvariant, Params
  <2>4. RequestType' /\ Entries'
    BY <1>1, <2>3 DEF RequestType, Entries
  <2>5. Building'
    BY <1>1, <1>2, <2>3 DEF Building
  <2>6. QED
    BY <2>2, <2>4, <2>5 DEF RequestParts
<1>3. CASE pc' # "schedule"
  <2>1. /\ UNCHANGED <<at, started, running>> /\ pc' # "request"
        /\ outcome' = "launched" => outcome = "launched" \/ at.role \notin DOMAIN request
    BY <1>1, <1>3 DEF Schedule, Raise
  <2>2. QED
    BY <1>1, <1>3, <2>1, Quiet, ProcessStep DEF RequestParts
<1>4. QED
  BY <1>2, <1>3

\* Nothing is started any more.
LEMMA EndParts ==
  ASSUME RunInvariant, Status \/ Wait \/ Terminate \/ EndProcess \/ Exit \/ UNCHANGED vars
  PROVE  RequestParts'
<1>1. /\ UNCHANGED <<app, request, at, started>>
      /\ pc' = "request" => pc = "request"
      /\ pc' = "schedule" => pc = "schedule"
      /\ outcome' = "launched" => outcome = "launched"
  BY DEF Status, Wait, Terminate, EndProcess, Exit, vars, preparing, options, processes, Raise
<1>2. killed' \subseteq running' /\ running' \subseteq running
  <2>1. killed \subseteq running
    BY DEF RunInvariant, TypeOK
  <2>2. QED
    BY <2>1 DEF Status, Wait, Terminate, EndProcess, DeathSignal, Exit, vars, processes
<1>3. QED
  BY <1>1, <1>2, Quiet, ProcessStep DEF RequestParts

\* Every step keeps the invariant.
LEMMA RunStep == RunInvariant /\ LoadInvariant /\ [Next]_vars => RunInvariant'
<1> SUFFICES ASSUME RunInvariant, LoadInvariant, [Next]_vars PROVE RunInvariant'
  OBVIOUS
<1>1. ControlTypes' /\ LoadingTypes' /\ OptionTypes'
  BY TypeParts, ControlStep, LoadingStep, OptionStep DEF RunInvariant
<1>2. RequestParts'
  BY LoadParts, ReturnedParts, SubmitParts, AddRoleParts, RequestedParts, ScheduleParts, EndParts
  DEF Next
<1>3. TypeOK'
  <2>1. RequestType' /\ CursorType' /\ ProcessTypes'
    BY <1>2 DEF RequestParts
  <2>2. QED
    BY <1>1, <2>1, TypeParts, PTL
<1>4. QED
  BY <1>2, <1>3, FreshStep DEF RunInvariant, RequestParts

\* The invariant holds whatever is run.
THEOREM RunInvariantHolds == Spec => []RunInvariant
<1>1. LoadInvariant /\ RunInvariant /\ [Next]_vars => RunInvariant'
  BY RunStep
<1>2. QED
  BY RunStarts, <1>1, LoadInvariantHolds, PTL DEF Spec

\* Every variable has its type.
THEOREM RunTypeCorrect == Spec => []TypeOK
<1>1. RunInvariant => TypeOK
  BY DEF RunInvariant
<1>2. QED
  BY <1>1, RunInvariantHolds, PTL

\* A handle is returned only when every replica of every role was started, and
\* only if the roles have different names.
THEOREM HandleMeansAllHolds == Spec => []HandleMeansAll
<1>1. RunInvariant => HandleMeansAll
  <2> SUFFICES ASSUME RunInvariant, outcome = "launched"
               PROVE  /\ \A i \in DOMAIN app : \A k \in 0 .. app[i].replicas - 1 :
                           \E j \in DOMAIN started :
                             started[j].logDir = <<app[i].name, k>> /\ started[j].id = k
                      /\ \A i, j \in DOMAIN app : i # j => app[i].name # app[j].name
    BY DEF HandleMeansAll
  <2>1. app \in Seq(AppRoles) /\ request \in Requests(Params) /\ CursorType
    BY AppDefsAssumption, Empty, TypeParts DEF RunInvariant, TypeOK, Requests
  <2>2. /\ DOMAIN app = 1 .. Len(app) /\ DOMAIN request = 1 .. Len(request)
        /\ Len(app) \in Nat /\ Len(request) \in Nat
    BY <2>1, LenProperties DEF Requests
  <2>3. \A p \in DOMAIN request : \A q \in DOMAIN request[p].params : Passed(p, q)
    BY <2>1, <2>2 DEF RunInvariant, Starting, Passed, CursorType
  <2>4. Built(app, request, Len(app))
    BY DEF RunInvariant, Building
  <2>5. ASSUME NEW i \in DOMAIN app, NEW k \in 0 .. app[i].replicas - 1
        PROVE  \E j \in DOMAIN started :
                 started[j].logDir = <<app[i].name, k>> /\ started[j].id = k
    <3>1. PICK p \in DOMAIN request : \E q \in DOMAIN request[p].params :
            request[p].params[q].logDir = <<app[i].name, k>> /\ request[p].params[q].id = k
      <4>1. i \in 1 .. Len(app) /\ k \in 0 .. app[i].replicas - 1
        BY <2>2, <2>5
      <4>2. QED
        BY <2>4, <4>1, Zenon DEF Built
    <3>2. PICK q \in DOMAIN request[p].params :
            request[p].params[q].logDir = <<app[i].name, k>> /\ request[p].params[q].id = k
      BY <3>1
    <3>3. PICK j \in DOMAIN started : started[j] = request[p].params[q]
      BY <2>3 DEF RunInvariant, Starting
    <3>4. QED
      BY <3>2, <3>3
  <2>6. ASSUME NEW i \in DOMAIN app, NEW j \in DOMAIN app, i < j PROVE app[i].name # app[j].name
    <3>1. \A p \in DOMAIN request : \A q, r \in DOMAIN request[p].params :
            q < r => request[p].params[q].logDir # request[p].params[r].logDir
      BY <2>3 DEF RunInvariant, Starting
    <3>2. QED
      BY <2>2, <2>4, <2>6, <3>1 DEF Built
  <2>7. \A i, j \in DOMAIN app : i # j => app[i].name # app[j].name
    <3> SUFFICES ASSUME NEW i \in DOMAIN app, NEW j \in DOMAIN app, i # j
                 PROVE  app[i].name # app[j].name
      OBVIOUS
    <3>1. i < j \/ j < i
      BY <2>2
    <3>2. QED
      BY <2>6, <3>1
  <2>8. QED
    BY <2>5, <2>7
<1>2. QED
  BY <1>1, RunInvariantHolds, PTL

\* No two replicas that were started write to one log directory, or to one error
\* file unless the role says so.
THEOREM ReplicasApartHolds == Spec => []ReplicasApart
<1>1. RunInvariant => ReplicasApart
  <2> SUFFICES ASSUME RunInvariant, NEW i \in DOMAIN started, NEW j \in DOMAIN started, i # j
               PROVE  /\ started[i].logDir # started[j].logDir
                      /\ started[i].errorFile = started[j].errorFile =>
                           started[i].errorFile[1] = "env"
    BY DEF ReplicasApart
  <2>1. started[i].logDir # started[j].logDir
    BY DEF RunInvariant, DirsApart
  <2>2. started[i] \in Params /\ started[j] \in Params
    <3>1. started \in Seq(Params)
      BY DEF RunInvariant, TypeOK
    <3>2. QED
      BY <3>1, ElementOfSeq, LenProperties
  <2>3. PICK a \in DOMAIN app :
          \E k \in 0 .. app[a].replicas - 1 : \E redirect \in BOOLEAN :
            started[i] = ReplicaParam(app[a], k, redirect)
    BY <2>2 DEF Params
  <2>4. PICK b \in DOMAIN app :
          \E m \in 0 .. app[b].replicas - 1 : \E redirect \in BOOLEAN :
            started[j] = ReplicaParam(app[b], m, redirect)
    BY <2>2 DEF Params
  <2>5. ASSUME started[i].errorFile = started[j].errorFile
        PROVE  started[i].errorFile[1] = "env"
    <3>1. PICK k \in 0 .. app[a].replicas - 1 : \E redirect \in BOOLEAN :
            started[i] = ReplicaParam(app[a], k, redirect)
      BY <2>3
    <3>2. PICK m \in 0 .. app[b].replicas - 1 : \E redirect \in BOOLEAN :
            started[j] = ReplicaParam(app[b], m, redirect)
      BY <2>4
    <3>3. ErrorFile(app[a], k) = ErrorFile(app[b], m) /\ started[i].errorFile = ErrorFile(app[a], k)
      BY <2>5, <3>1, <3>2 DEF ReplicaParam
    <3>4. <<app[a].name, k>> # <<app[b].name, m>>
      BY <2>1, <3>1, <3>2 DEF ReplicaParam
    <3>5. CASE app[a].errorFile
      BY <3>3, <3>5 DEF ErrorFile
    <3>6. CASE ~app[a].errorFile
      <4>1. ErrorFile(app[a], k) = <<app[a].name, k, "error.json">>
        BY <3>6 DEF ErrorFile
      <4>2. CASE app[b].errorFile
        BY <3>3, <4>1, <4>2 DEF ErrorFile
      <4>3. CASE ~app[b].errorFile
        BY <3>3, <3>4, <4>1, <4>3 DEF ErrorFile
      <4>4. QED
        BY <4>2, <4>3
    <3>7. QED
      BY <3>5, <3>6
  <2>6. QED
    BY <2>1, <2>5
<1>2. QED
  BY <1>1, RunInvariantHolds, PTL

-----------------------------------------------------------------------------
(* Orphans *)

\* No replica outlives the command without a SIGTERM.
THEOREM NoOrphansHolds == Spec => []NoOrphans
<1>1. Init => NoOrphans
  BY DEF Init, NoOrphans
<1>2. NoOrphans /\ [Next]_vars => NoOrphans'
  <2> SUFFICES ASSUME NoOrphans, [Next]_vars, pc' = "ended"
               PROVE  running' \subseteq killed'
    BY DEF NoOrphans
  <2>1. CASE EndProcess
    BY <2>1 DEF EndProcess, DeathSignal
  <2>2. CASE Exit
    BY <2>2 DEF Exit, NoOrphans
  <2>3. CASE UNCHANGED vars
    BY <2>3 DEF vars, processes, NoOrphans
  <2>4. CASE Resolve \/ Lint \/ Execute \/ Call \/ Returned
    BY <2>4 DEF Resolve, LoadFunction, ReadConfFile, Lint, Execute, Call, Returned, Raise
  <2>5. CASE Validate \/ SubmitDryrun \/ AddRole \/ Requested \/ Schedule
    BY <2>5 DEF Validate, SubmitDryrun, AddRole, Requested, Schedule, Raise
  <2>6. CASE Status \/ Wait \/ Terminate
    BY <2>6 DEF Status, Wait, Terminate, Raise
  <2>7. QED
    BY <2>1, <2>2, <2>3, <2>4, <2>5, <2>6 DEF Next
<1>3. QED
  BY <1>1, <1>2, PTL DEF Spec
=============================================================================
