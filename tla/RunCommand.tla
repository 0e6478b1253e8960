----------------------------- MODULE RunCommand -----------------------------
(***************************************************************************)
(* `torchx run' (class CmdRun of torchx/cli/cmd_run.py) from its arguments *)
(* to its end: Runner.run_from_path resolves, lints, loads and calls a     *)
(* component function; the application it returns is checked, dry run and  *)
(* scheduled; the command then waits for it, or does not, and ends, which  *)
(* finalizes the scheduler and kills what is left.                         *)
(*                                                                         *)
(* A program that imports torchx may call run_from_path many times in one  *)
(* process, and from_file executes every file in the globals of            *)
(* torchx.specs.api.  Such a program is followed here up to the calls of   *)
(* its component functions (Runner has what comes after), and all          *)
(* functions have the same name.                                           *)
(***************************************************************************)
EXTENDS ComponentLoader, RunOptions, PopenRequest, SequencesExt

CONSTANTS
  FileComponents,    \* what the function of a file may be
  ModuleComponents,  \* what a builtin or a registered function may be
  AppDefs,           \* what a component function may return
  SchedulerArgs,     \* what --scheduler_args may be
  Backends           \* what --scheduler may be, registered or not

\* The components are ones: `of' is "int", "str" for str and float, "bool" for
\* any other type that takes a text, or "nested".
ASSUME ComponentsAssumption ==
  \A comp \in FileComponents \cup ModuleComponents : comp.params \in Seq(ComponentParams)

ASSUME AppDefsAssumption == AppDefs \subseteq Seq(AppRoles)

NoComponent == Component("nowhere", FALSE, "nothing", <<>>)
SchedulerBackends == {"local", "default"}

\* LocalScheduler.run_opts
RunOpts ==
  [key \in {"image_type", "log_dir"} |->
     [type |-> "str", required |-> FALSE,
      default |-> IF key = "image_type" THEN [type |-> "str", val |-> "dir"] ELSE None]]

ASSUME RunOptsAssumption == \A key \in DOMAIN RunOpts : AddAccepts(RunOpts[key])

VARIABLES
  pc,         \* what the process does next
  program,    \* "torchx run", or "api": a program that calls run_from_path
  component,  \* the function that is being loaded
  path,       \* "file" if it comes from a file, else "module"
  namespace,  \* the function of that name in the globals of torchx.specs.api
  args,       \* the values it is called with
  app,        \* the AppDef it returned
  backend,    \* --scheduler
  cfg,        \* the resolved RunConfig
  request,    \* the PopenRequest
  at,         \* the role and the replica that is added to it, or started, next
  running,    \* the replicas that run, each its ReplicaParam
  started,    \* the replicas that were started
  killed,     \* the replicas that run and were sent SIGTERM
  outcome     \* "none", "raised", or "launched" once a handle was returned

loading   == <<component, path, namespace, args>>
options   == <<app, backend, cfg>>
preparing == <<options, request, at>>
processes == <<running, started, killed>>
vars == <<pc, program, loading, preparing, processes, outcome>>

First == [role |-> 1, replica |-> 1]

Init ==
  /\ pc = "resolve"
  /\ program \in {"torchx run", "api"}
  /\ component = NoComponent
  /\ path = "none"
  /\ namespace = NoComponent
  /\ args = <<>>
  /\ app = <<>>
  /\ backend = "none"
  /\ cfg = <<>>
  /\ request = <<>>
  /\ at = First
  /\ running = {}
  /\ started = <<>>
  /\ killed = {}
  /\ outcome = "none"

\* an exception ends the command; a program may catch it and try another path
Raise ==
  /\ pc' = IF program = "api" THEN "resolve" ELSE "finalize"
  /\ outcome' = IF program = "api" THEN outcome ELSE "raised"

-----------------------------------------------------------------------------
(* run_from_path *)

\* entrypoints.load of what is registered under the path, or the import of a
\* builtin module
LoadFunction == path' = "module" /\ component' \in ModuleComponents

\* read_conf_file: the file of the user, or else that of torchx
ReadConfFile == path' = "file" /\ component' \in FileComponents

\* registered components, then file:function, then builtin modules; or nothing
\* of that path, or arguments that are none.  from_file lints what it reads;
\* from_function lints the file of the function, which it has already.
Resolve ==
  /\ pc = "resolve"
  /\ \/ /\ LoadFunction \/ ReadConfFile
        /\ pc' = "lint"
        /\ UNCHANGED outcome
     \/ /\ Raise
        /\ UNCHANGED <<path, component>>
  /\ args' = <<>>
  /\ UNCHANGED <<program, namespace, preparing, processes>>

MutantAccepted == path = "module" => LintAccepts(component)   \* files are not linted

Accepted == LintAccepts(component)

\* _validate_and_raise
Lint ==
  /\ pc = "lint"
  /\ \/ /\ Accepted
        /\ pc' = IF path = "file" THEN "exec" ELSE "parse"
        /\ UNCHANGED outcome
     \/ /\ ~Accepted
        /\ Raise
  /\ UNCHANGED <<program, loading, preparing, processes>>

\* exec(file_content, globals()): what the file defines stays, also if the
\* file then raises; what a method is named is not in the globals
Execute ==
  /\ pc = "exec"
  /\ namespace' \in IF component.where = "top" THEN {namespace, component} ELSE {namespace}
  /\ \/ /\ component.where = "top" => namespace' = component
        /\ namespace' # NoComponent
        /\ component' = namespace'
        /\ pc' = "parse"
        /\ UNCHANGED outcome
     \/ /\ Raise
        /\ UNCHANGED component
  /\ UNCHANGED <<program, path, args, preparing, processes>>

\* _get_function_args, and the call of the component function
Call ==
  /\ pc = "parse"
  /\ \E texts \in [DOMAIN component.params -> Texts] :
       LET params == component.params
           values == [i \in DOMAIN params |-> ArgValue(params[i], texts[i])]
       IN \/ /\ ParserBuilt(component)
             /\ \A i \in DOMAIN params : Parses(params[i], texts[i]) /\ values[i] # "error"
             /\ CallBinds(component)
             /\ args' = values
             /\ pc' = "called"
             /\ UNCHANGED outcome
          \/ /\ \/ ~ParserBuilt(component)
                \/ \E i \in DOMAIN params : ~Parses(params[i], texts[i]) \/ values[i] = "error"
                \/ ~CallBinds(component)
             /\ Raise
             /\ UNCHANGED args
  /\ UNCHANGED <<program, component, path, namespace, preparing, processes>>

\* the function returns an AppDef or raises; of the loading nothing is left but
\* what the file left in the globals
Returned ==
  /\ pc = "called"
  /\ \/ /\ program = "torchx run"
        /\ app' \in AppDefs
        /\ backend' \in Backends
        /\ pc' = "dryrun"
        /\ UNCHANGED outcome
     \/ /\ Raise
        /\ UNCHANGED <<app, backend>>
  /\ component' = NoComponent
  /\ path' = "none"
  /\ args' = <<>>
  /\ namespace' = IF program = "api" THEN namespace ELSE NoComponent
  /\ UNCHANGED <<program, cfg, request, at, processes>>

-----------------------------------------------------------------------------
(* Runner.dryrun, Scheduler.submit_dryrun and the request *)

\* Runner._scheduler
Defined == backend \in SchedulerBackends

\* the checks of Runner.dryrun; the _validate of the local scheduler has none
Validate ==
  /\ pc = "dryrun"
  /\ \/ /\ WellFormed(app)
        /\ Defined
        /\ pc' = "submit"
        /\ UNCHANGED outcome
     \/ /\ ~WellFormed(app) \/ ~Defined
        /\ Raise
  /\ UNCHANGED <<program, loading, preparing, processes>>

\* submit_dryrun resolves the options; the pre_proc of a Role leaves the request
\* as it is
SubmitDryrun ==
  /\ pc = "submit"
  /\ \E arg \in SchedulerArgs :
       LET given == ParseRunConfig(arg) IN
       \/ /\ ~Invalid(RunOpts, given)
          /\ cfg' = Resolved(RunOpts, given)
          /\ pc' = "request"
          /\ UNCHANGED outcome
       \/ /\ Invalid(RunOpts, given)
          /\ Raise
          /\ UNCHANGED cfg
  /\ UNCHANGED <<program, loading, app, backend, request, at, processes>>

\* _get_img_provider
Supported == cfg["image_type"].val \in {"dir", "docker"}

\* _get_app_log_dir: there is a log_dir in the configuration, and not an empty one
Redirects == cfg["log_dir"] \notin {None, [type |-> "str", val |-> ""]}

\* one role in the loop of _to_popen_request
AddRole ==
  LET role == app[at.role] IN
  /\ pc = "request"
  /\ Supported => at.role \in DOMAIN app
  /\ \/ /\ Supported
        /\ Fetches(cfg["image_type"].val, role)
        /\ request' = WithRole(request, role, Redirects)
        /\ at' = [at EXCEPT !.role = @ + 1]
        /\ UNCHANGED <<pc, outcome>>
     \/ /\ ~Supported \/ ~Fetches(cfg["image_type"].val, role)
        /\ Raise
        /\ UNCHANGED <<request, at>>
  /\ UNCHANGED <<program, loading, options, processes>>

\* the request is complete; --dryrun prints it
Requested ==
  /\ pc = "request"
  /\ Supported
  /\ at.role \notin DOMAIN app
  /\ pc' \in {"schedule", "finalize"}
  /\ at' = First
  /\ UNCHANGED <<program, loading, options, request, processes, outcome>>

-----------------------------------------------------------------------------
(* LocalScheduler.schedule, for the first application of a scheduler *)

\* the entry of the request and the replica in it that come after
Following ==
  IF at.replica < Len(request[at.role].params)
    THEN [at EXCEPT !.replica = @ + 1]
    ELSE [role |-> at.role + 1, replica |-> 1]

\* os.makedirs of the log dir of the replica and _popen; any may raise, and the
\* first does when a namesake of the role has a replica with that id.  The app
\* is registered when all are started, and the handle is printed.
Schedule ==
  LET param == request[at.role].params[at.replica] IN
  /\ pc = "schedule"
  /\ \/ /\ at.role \in DOMAIN request
        /\ \A i \in DOMAIN started : started[i].logDir # param.logDir
        /\ started' = Append(started, param)
        /\ running' = running \cup {param}
        /\ at' = Following
        /\ UNCHANGED <<pc, outcome>>
     \/ /\ at.role \in DOMAIN request
        /\ Raise
        /\ UNCHANGED <<started, running, at>>
     \/ /\ at.role \notin DOMAIN request
        /\ pc' = "status"
        /\ outcome' = "launched"
        /\ UNCHANGED <<started, running, at>>
  /\ UNCHANGED <<program, loading, options, request, killed>>

Registered == started # <<>> /\ at.role \notin DOMAIN request

\* the rest of CmdRun.run: status, and wait for one backend only.  A status
\* raises while a replica is writing its error file.
Status ==
  /\ pc \in {"status", "wait"}
  /\ running # {}
  /\ Raise
  /\ UNCHANGED <<program, loading, preparing, processes>>

Waits == backend = "local"

\* until describe answers a terminal state
Wait ==
  /\ \/ /\ pc = "status"
        /\ pc' = IF Waits THEN "wait" ELSE "finalize"
     \/ /\ pc = "wait"
        /\ running = {}
        /\ pc' = "finalize"
  /\ UNCHANGED <<program, loading, preparing, processes, outcome>>

-----------------------------------------------------------------------------
(* The end: LocalScheduler.__del__ and the death signal of the replicas *)

\* the finalizer terminates the registered replicas one by one, and waits
Terminate ==
  /\ pc = "finalize"
  /\ Registered
  /\ killed = {}
  /\ \E i \in DOMAIN started :
       /\ started[i] \in running
       /\ \A j \in 1 .. i - 1 : started[j] \notin running
       /\ killed' = {started[i]}
  /\ UNCHANGED <<pc, program, loading, preparing, running, started, outcome>>

MutantNoDeathSignal == {}

MutantDeathSignal == ToSet(started)    \* also what has exited

\* _pr_set_pdeathsig: the kernel sends SIGTERM to the children of a process
\* that ends
DeathSignal == running

\* after an exception the finalizer may not come to run
EndProcess ==
  /\ pc = "finalize"
  /\ Registered /\ outcome # "raised" => running = {}
  /\ killed' = killed \cup DeathSignal
  /\ pc' = "ended"
  /\ UNCHANGED <<program, loading, preparing, running, started, outcome>>

\* a replica exits, on its own or because of a signal
Exit ==
  /\ \E replica \in running :
       /\ running' = running \ {replica}
       /\ killed' = killed \ {replica}
  /\ UNCHANGED <<pc, program, loading, preparing, started, outcome>>

Next ==
  \/ Resolve
  \/ Lint
  \/ Execute
  \/ Call
  \/ Returned
  \/ Validate
  \/ SubmitDryrun
  \/ AddRole
  \/ Requested
  \/ Schedule
  \/ Status
  \/ Wait
  \/ Terminate
  \/ EndProcess
  \/ Exit

Spec == Init /\ [][Next]_vars

-----------------------------------------------------------------------------
(* Properties *)

Params ==
  UNION {{ReplicaParam(app[i], k, redirect) : k \in 0 .. app[i].replicas - 1, redirect \in BOOLEAN} :
           i \in DOMAIN app}

\* Every variable has its type.
TypeOK ==
  /\ pc \in {"resolve", "lint", "exec", "parse", "called", "dryrun", "submit", "request",
             "schedule", "status", "wait", "finalize", "ended"}
  /\ program \in {"torchx run", "api"}
  /\ {component, namespace} \subseteq FileComponents \cup ModuleComponents \cup {NoComponent}
  /\ path \in {"none", "file", "module"}
  /\ \A i \in DOMAIN args : args[i] \in {"int", "str", "bool", "None", "List", "Dict", "list"}
  /\ app \in AppDefs \cup {<<>>}
  /\ backend \in Backends \cup {"none"}
  /\ DOMAIN RunOpts \subseteq DOMAIN cfg \/ cfg = <<>>
  /\ request \in Seq([name : STRING, params : Seq(Params)])
  /\ at \in [role : Nat \ {0}, replica : Nat \ {0}]
  /\ started \in Seq(Params)
  /\ killed \subseteq running /\ running \subseteq ToSet(started)
  /\ outcome \in {"none", "raised", "launched"}

\* No function is called that the linter has not accepted, even when a file does
\* not define the function that is asked for and that of an earlier file is
\* found in the globals.
LintedBeforeCalled == pc = "called" => LintAccepts(component)

\* The arguments of a component have the annotated types: what the linter lets
\* through the loader decodes or refuses.  Two annotations are not kept, a bool
\* and an Optional of a primitive.
TypedArguments ==
  pc = "called" =>
    \A i \in ParamsOf(component, "plain") :
      LET p == component.params[i] IN
      \/ TypeFits(p, args[i])
      \/ p.ann.form = "name" /\ (p.ann.of = "bool" \/ p.ann.optional)

\* A handle is returned only for an application all of whose replicas were
\* started, each with its own id for its macros, and for one whose roles have
\* different names: what the handle of another is asked for, by the name of a
\* role, is that role.
HandleMeansAll ==
  outcome = "launched" =>
    /\ \A i \in DOMAIN app : \A k \in 0 .. app[i].replicas - 1 :
         \E j \in DOMAIN started : started[j].logDir = <<app[i].name, k>> /\ started[j].id = k
    /\ \A i, j \in DOMAIN app : i # j => app[i].name # app[j].name

\* No two replicas that were started write to one log directory, or to one
\* error file unless their role says so, whatever the roles are named.
ReplicasApart ==
  \A i, j \in DOMAIN started :
    i # j =>
      /\ started[i].logDir # started[j].logDir
      /\ started[i].errorFile = started[j].errorFile => started[i].errorFile[1] = "env"

\* No replica outlives the command without a SIGTERM, also when schedule fails
\* half way and the scheduler does not know what it started.
NoOrphans == pc = "ended" => running \subseteq killed

\* The command does not block and the job goes on without it, so that its
\* handle can be given to other commands (docstring of torchx/cli/__init__.py).
JobOutlivesCommand == [][outcome = "launched" => killed' \subseteq killed]_vars
=============================================================================
