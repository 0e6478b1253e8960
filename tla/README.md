# A verification of torchx

TLA+ models of [torchx](../src) (`src/torchx`), checked with TLC, and theorems
about them, checked with TLAPS.  torchx turns a *component* (a Python function)
into an *AppDef* and runs it through a *scheduler* of some backend.  Most of the
package builds plain data.  What is hard about it is at the other end: the
local scheduler, which keeps processes, files and a cache in step with no lock
and no thread of its own, and what is built on it.  The models begin there, and
go on to the way from a component function to running replicas (`torchx run`),
the threads of `torchx log`, and the programs that torchx starts itself: a
pipeline step and a server for a model.

## 1. The system

Line numbers are those of the files under `src/`.

### Components, state and operations

| component | code | state | operations | what makes it correct |
|---|---|---|---|---|
| local scheduler | `schedulers/local_scheduler.py` | `_apps` (a dict used as a bounded cache), per application its `state`, `last_updated` and replica processes; log dirs, error files, a `SUCCESS` file | `schedule`, `describe`, `cancel`, `__del__` | what it says of an application is true of its processes; it never loses track of a process; only a cancel kills; calls return |
| log iterator | `LogIterator`, `log_iter`, `Runner.log_lines` | position in the file, `_app_finished` | `__iter__`, `__next__` | returns every line, once; stops, and not too early |
| scheduler contract | `schedulers/api.py`, `AppState` in `specs/api.py` | none of its own | `submit`, `describe`, `exists`, `cancel` | an application goes through its states to a terminal one and stays there |
| runner (session) | `runner/api.py` | `_apps`: handle -> AppDef | `run`, `status`, `wait`, `list`, `stop`, `describe`, `log_lines` | its list agrees with the scheduler; `wait` and `stop` do what they say |
| popen request | `_to_popen_request` and around | none | dry run of an AppDef | replicas get the right arguments, environment and files |
| image providers | `ImageProvider` and subclasses | none | `fetch`, `get_replica_param` | - |
| run options | `runopts` in `specs/api.py` | the declared options | `add`, `resolve` | defaults, types, required options |
| app handles | `make_app_handle`, `parse_app_handle`, `validate` in `cli/cmd_log.py` | none | format, parse | parse undoes make, in whichever command reads the handle |
| app definitions | `specs/api.py` | plain data | builders, `macros` | - |
| component loading | `specs/api.py`, `util/types.py`, `util/entrypoints.py` | the globals in which files are executed | `from_function`, `from_file`, `from_module`, decoding of arguments | nothing is called that was not linted; arguments get the declared types |
| component linter | `specs/file_linter.py` | a list of errors | a visitor | reports exactly what cannot be loaded |
| events | `runner/events` | one logger, set up by the first event | `log_event` as a context manager | one event per call, exceptions included and propagated |
| run command | `cli/cmd_run.py` | none | component -> AppDef -> replicas, wait, end | a handle means that all replicas run; nothing outlives a failed command |
| log command | `cli/cmd_log.py` | a queue of exceptions | one thread per replica | exceptions of threads are not lost; it ends |
| other commands | `cli/` | none | one call of the runner each | - |
| Kubeflow adapter | `pipelines/kfp/adapter.py` | none | component -> pipeline step | the command line it makes is one the container takes |
| runtime components | `runtime/component.py`, `runtime/container/main.py` | output files | `run` of a component in a container | outputs are there, and as declared, when it runs |
| storage and plugins | `runtime/storage.py`, `runtime/plugins.py`, `aws/s3.py` | a registry of providers | `init_plugins`, `register_storage_provider`, `download_blob`, `upload_blob` | one provider per scheme, before anything runs |
| cloudformation | `aws/cfn.py`, `aws/util.py` | a remote stack | create, describe, `wait_for` | - |
| model serving app | `apps/serve/serve.py` | an HTTP server thread | serve, register a model, shut down | the server is there as long as torchserve may use it, and ends whatever happens |
| builtin components | `components/` | none | functions that return AppDefs | - |

### How they interact

    torchx run / log / status  (cli, one Runner per command, cmd_log: threads)
        |
      Runner          _apps: handle -> AppDef      every call inside log_event
        |  submit_dryrun (validates, makes a request) / schedule / describe / cancel / log_iter
      Scheduler       LocalScheduler: _apps: app_id -> replicas, state
        |  Popen, SIGTERM, wait, poll           |  files in log_dir/<session>/<app_id>
      replica processes  ---- write ---->  stdout.log, stderr.log, error.json
                                                |
      LogIterator  <----- readline -------------+   and asks describe whether to stop

Nothing in the local scheduler runs by itself.  The state of an application
changes only when somebody calls `describe` (which polls all its replicas and
stores what it concludes), or `cancel`.  Eviction looks at that stored state.
`Runner.status` is a `describe`; `wait`, `list`, `stop` and `log_lines` begin
with a `status`; the log iterator describes whenever it reaches the end of the
file; `cancel` begins with a `describe` (`exists`).  So a `describe`, which
closes the application it finds finished, happens everywhere.

### What is hard

* Several threads may call one scheduler (the docstring of `Scheduler.cancel`
  expects it; `cmd_log` shares one runner among threads) and there is no lock.
* Replicas exit while they are being polled, one after the other.
* `describe`, `close`, `cancel` and the finalizer overlap: each may terminate
  and wait for processes, and write the `SUCCESS` file.
* A launch may fail after some replicas were started.
* Files are read while they are written: error files (`json.load`) and logs
  (`readline`).
* The cache drops applications that others still ask about.
* Some waits have no timeout.
* The linter reads the syntax of a component function, the loader its signature;
  what one overlooks the other has to refuse.
* Files are executed in the globals of the module that loads them, so a file may
  leave a function for the next one.
* The replicas of a command depend on how the command ends: by the finalizer, or
  by the death signal.
* The events logger is set up in several steps, without a lock.
* A pipeline step is described in one place and parsed in another.

`PROJECT.json` lists these one by one, each at its line, with the properties
that would catch it going wrong.

## 2. The modules

| module | models | role |
|---|---|---|
| `AppState` | `AppState`, `is_terminal` | constants of the others |
| `AppLifecycle` | the contract of `Scheduler`: the life of an application as seen by its user | abstract specification |
| `LocalScheduler` | `LocalScheduler`, `_LocalAppDef`, `_LocalReplica` and the replica processes | the core |
| `LogTail` | `Runner.log_lines`, `LocalScheduler.log_iter`, `LogIterator`, the log file | EXTENDS `LocalScheduler` |
| `Runner` | `Runner` over any scheduler that keeps the contract | INSTANCE `AppLifecycle` |
| `ComponentLoader` | the linter, `from_function` and the decoding of arguments | operators |
| `RunOptions` | `runopts`, `RunConfig` | operators |
| `PopenRequest` | `_to_popen_request` and what it reads of an AppDef | operators |
| `RunCommand` | `torchx run`, from its arguments to the end of the process | EXTENDS the three above |
| `LogCommand` | `torchx log`: its threads, their exceptions, their events | |
| `KfpStep` | the Kubeflow adapter and the container that runs a component | |
| `TorchServe` | the application that registers a model with torchserve | |
| `LocalSchedulerInv` | the inductive invariant of the proofs | checked by TLC as well |
| `LocalSchedulerProofs`, `LocalSchedulerAlone`, `LogTailProofs`, `RunnerProofs`, `RunCommandProofs`, `LogCommandProofs`, `TorchServeProofs`, `KfpStepProofs` | proofs | |
| `MCLocalScheduler`, `MCRunner`, `MCRunCommand`, `MCKfpStep` | symmetry sets, sessions of threads, small sets of components, applications and configurations, for TLC | |

The layers fit together as the code does.  `LocalScheduler` is shown to
implement `AppLifecycle` (for one thread, see 3); `Runner` is built on
`AppLifecycle` only, so what it shows holds over any such backend; `LogTail`,
whose correctness depends on how a `describe` is interleaved with a replica that
ends, is built on the detailed steps.  `RunCommand` follows one application from the
path of its component to the exit of its replicas; of the scheduler it has only
what a process with one application does, since the rest is in `LocalScheduler`.

### `LocalScheduler`

A call is a sequence of steps of the thread that makes it.  Under the GIL, and
with no `await`, threads can be switched anywhere; what other threads and the
processes can tell apart are the system calls a thread makes and the points at
which it reads shared state again, so a step ends at each of them.  Code between
two such points is one action.

| variable | code |
|---|---|
| `cache` | the keys of `_apps`, in insertion order |
| `state`, `updatedBefore` | `_LocalAppDef.state`; the order of the `last_updated` times |
| `submitted` | how far `schedule` came; the log dir exists unless it is `"no"` |
| `proc`, `signalled` | the child processes and the SIGTERMs that running ones were sent |
| `errs`, `torn` | error files by increasing mtime; those not completely written |
| `success` | the state recorded in the `SUCCESS` file |
| `gone` | `__del__` has begun |
| `call` | for each thread its frame: method, point, and the local variables `running`, `failed`, `structured_error_msg`, `state`, and the loop index |

| action | code (`local_scheduler.py`) |
|---|---|
| `Schedule`, `EvictLru` | 518-523, 419-443: room in the cache, or `IndexError` |
| `Prepare` | 525-533: the assertion that the id is new, `os.makedirs` |
| `Launch`, `Register` | the loop over replicas (`_popen`, which may raise), then `_apps[app_id] = ...` |
| `Describe`, `Cancel` | the lookup at the beginning; a cancel starts with `exists`, a describe |
| `ReadError` | `get_structured_error_msg`: `json.load` of the oldest error file, which may raise |
| `CheckState`, `Poll`, `SetState`, `Settle` | 615-635: state already known, or poll replica by replica, `set_state`, then `close` if terminal |
| `Signal`, `Reap`, `Seal` | `close`: `terminate()`, `wait()` for each replica in turn, the `SUCCESS` file |
| `Mark` | `_cancel_existing`: the state becomes `CANCELLED` |
| `Finalize`, `FinalizeNext` | `__del__` |
| `Exit`, `StartError`, `FinishError` | the replicas, which are not under `src/`: they exit with any code at any time, may ignore SIGTERM, and may write an error file in two steps |

Choices that matter:

* The comparison `app.last_updated <= lru_time` is always true, as `lru_time` is
  never lowered from `sys.maxsize`.  So `EvictLru` takes the last terminal
  application, which is what the code does.
* Two error files never have the same mtime.
* `signalled` holds running replicas only: a SIGTERM to a process that has
  exited does nothing.
* `makedirs` of a replica's log dir and the start of its process are one step
  that may raise: both fail in the same way, before the process exists.
* `__del__` runs when nobody holds the scheduler, so with no call in progress.
* Processes that a replica starts itself are outside of the model, and so is here
  `PR_SET_PDEATHSIG`, which `RunCommand` has.
* The request that `schedule` receives is taken as made (`PopenRequest` makes
  it), each with an `app_id` of its own; an id may be submitted twice, which is what the assertion and
  `FileExistsError` are about.

### `LogTail`

The log of one replica (`Source`) is a sequence of pieces, one per `write()`: a piece may or
may not end a line and may or may not match the regex. A reader makes the calls of
`log_lines`: a status, the lookup of `log_iter`, and then `LogIterator`: check, read to the
end, check, and so on. Its describes are those of `LocalScheduler`, step by step, so
replicas write and exit, and other threads cancel and evict, anywhere within one. `log_iter`
has seen the file and nothing removes it, so the wait loop of `__iter__` is one check.
`Finalize` is left out, because an iterator holds on to the scheduler. The argument
`should_tail` has no part in the model, as the code does not use it.

### `Runner`

Each call of a scheduler is one step here, any of them may raise (`"raised"`), and
between two steps the scheduler may forget what is over.  `Run` stands for
`dryrun` (which may refuse) and `schedule`; `Record` is the assignment to `_apps`
after the application was started; `Ask` and `Told` are the two halves of
`status` around the scheduler's answer, and `Told` goes on to what `wait`, `stop`
or `list` do with it.  `list` walks over a copy of the keys.  A handle is a pair
of session and application; any thread may use the handle of any session.

### `RunCommand`, with `ComponentLoader`, `RunOptions` and `PopenRequest`

`run_from_path` and the command around it, one step per point at which something
may raise.  Data is what the checks tell apart: a function is where it stands in
its file, its docstring, its return annotation and its parameters; a value is its
type; a text is how it can be read; a path is a tuple of its parts.

| variable | code |
|---|---|
| `component`, `path`, `args` | the function that is loaded, whether it comes from a file, the values it is called with |
| `namespace` | the function of that name in the globals of `torchx.specs.api` |
| `app`, `backend`, `cfg`, `request` | the AppDef, `--scheduler`, the resolved `RunConfig`, the `PopenRequest` as far as it is made |
| `at` | the role that is added to the request next, then the replica that is started next |
| `started`, `running`, `killed` | the replicas by `ReplicaParam`; those that were sent SIGTERM |

| action | code |
|---|---|
| `Resolve` | `Runner.run_from_path`: `entrypoints.load` or a builtin module (`LoadFunction`), or `read_conf_file` (`ReadConfFile`) |
| `Lint`, `Execute` | `_validate_and_raise`, and the `exec` of `from_file` |
| `Call`, `Returned` | `_get_function_args` and the call: parser, decoding, binding; what the function gives |
| `Validate`, `SubmitDryrun` | the checks of `Runner.dryrun`; `Scheduler.submit_dryrun`, which resolves the options |
| `AddRole`, `Requested` | one role in the loop of `_to_popen_request`, with `_get_img_provider` and `fetch`; `--dryrun` ends here |
| `Schedule`, `Status`, `Wait` | one replica in the launch loop, then the handle; `CmdRun.run` after it |
| `Terminate`, `EndProcess`, `Exit` | `__del__`, the end of the process with `_pr_set_pdeathsig`, the replicas |

A program that calls `run_from_path` many times (`program = "api"`) is followed to
the calls of its component functions, because that is as far as one load can
influence another: `exec` leaves what a file defines in `namespace`.  After an
exception the finalizer may or may not come to run: the traceback holds the
frames, and with them the scheduler.  So `EndProcess` may come first, and then only
the death signal is left.  Which of entry points, files and modules has the path is one
choice in `Resolve`.  The request is made and its replicas are started one at a time, as
the loops of the code do, so the models have no recursion there and the proofs can follow
them.

### `LogCommand`

The main thread (0) checks the identifier (`validate`), describes, starts a thread per
replica, joins them and drains the queue of exceptions; a thread makes the calls `status`
and `log_lines` of the shared runner, iterates, and may raise at each of these. Each of
these calls ends with `record()`, and `_get_or_create_logger` is four statements of which
any thread may make one between those of another (`Configure`). What the calls do to an
application is in `LogTail`; here they return or raise, and an iterator may never end. The
events of one thread are compared in order, those of two are not.

### `KfpStep`

`Command` and `Default` are `component_spec`: which options the command line of a
step has and what an input that is left out becomes.  `main()` of the container
then loads the plugins (`LoadPlugin`), finds the class, reads the command line
(`ReadArguments`: `argparse`, and the types of the fields), writes the outputs
(`WriteOutput`), constructs and runs the component.  `Copy` loads a blob and stores it
(`Download`, `Upload`), each with the provider of the scheme of the URL: a file is emptied
before it is written, so a failed upload may leave a part of it; an object is put as a
whole, and only the answer may be lost.  Of another component it is only known that `run()`
ends or raises.  Every step may raise;
`failure` says which did.  A launcher `"shell"` is any other command line.  No field is
named `output_path_` and the name of an output, since `argparse` would store both
under one name.

### `TorchServe`

`main()` of `serve.py`, the thread of its HTTP server, the thread of the request
that torchserve makes, and torchserve.  The loop of `socketserver` is not under
`src/` and is modelled as the standard library has it: the flag that `shutdown()`
sets is read before and after each `select`, `serve_forever` clears the event at
its start and sets it at its end, and does not clear the flag before it begins;
that last point is why a `shutdown()` that comes first is not lost.

## 3. The runs

Fairness: a thread that is inside a call keeps running (`WF` on each thread's
`Progress` or `ReaderStep`), which is what the operating system gives to a
thread that is not blocked; a thread that waits for a process in `Reap` is blocked,
its action is disabled, and fairness does not help it.  Nothing forces a program
to begin a call, or a replica to exit, not even one that was sent SIGTERM.  In
`LogCommand` the main thread and the other threads run, except for an iterator,
which may wait for its application for ever.  In `TorchServe` the main thread and
the thread of the server run, and the timeout of `requests.post` is what makes
`Answer` fair; that timeout is per read, so a server that sends a byte now and then
could extend it, which is left out.  Nothing is assumed of torchserve.

`CHECK_DEADLOCK FALSE` is set throughout because the system may really stop: the
scheduler has been finalized, all applications are over and every id is used, or the
process has ended.

| run | bounds | what it shows |
|---|---|---|
| `local_one_caller` | 1 thread, 2 applications of 2 replicas, cache of 1, an error writer | `LocalScheduler` implements `AppLifecycle` (`ImplementsLifecycle`); the cache keeps its bound (`CacheBounded`) and no running replica drops out of it (`RunningIsTracked`); a cancel stops what it found (`CancelStops`); only a cancel changes a terminal state (`TerminalIsFinal`); `TypeOK` |
| `local_threads` | 2 threads, 1 application of 2 replicas, both write errors | what is recorded and reported is true (`TerminalMeansExited`, `OutcomeAccurate`, `SuccessMeansClosed`), the error reported is the first complete one, always the same (`FirstErrorReported`), asking never kills (`OnlyCancelTerminates`); the invariant of the proofs (`TruthInvariant`) |
| `local_evicts_newest` | 1 thread, 3 applications of 1 replica, cache of 2 | the disagreement below |
| `log_follow` | 1 reader, 1 other thread, 1 application of 2 replicas, 2 pieces | an iterator that stops returned every match ever written (`StopsWhenComplete`); `TailTypeOK` |
| `log_live` | 1 reader, 1 other thread, 2 applications of 1 replica, cache of 1 | a call returns unless it waits for a replica that ignores SIGTERM (`CallsReturn`); the iterator ends once the application is over, evicted or not (`IteratorEnds`) |
| `runner_session` | 2 threads, 1 session, 2 applications | `WaitTellsTheEnd`, `StopStops`, `ListForgets`, `KnownIsListed`, `RunnerTypeOK` |
| `runner_waits` | 2 threads, 1 session, 1 application | a wait for what is over returns (`WaitReturns`) |
| `run_command` | every small component, application, configuration and backend | only linted functions are called (`LintedBeforeCalled`), with arguments of the annotated types (`TypedArguments`); a handle means that every replica was started, once (`HandleMeansAll`), and none shares its files with another (`ReplicasApart`); nothing outlives the command without a SIGTERM (`NoOrphans`); `TypeOK` |
| `run_default_dies` | the same, with the backend `default` | the disagreement below |
| `log_command` | up to 3 threads | each call of a thread leaves one event, in order, however the set up of the logger is interleaved (`EventsRecorded`); no exception is lost (`FailuresReported`); the command ends (`CommandEnds`); `TypeOK` |
| `serve_model` | 1 model | torchserve finds the model as long as it may still answer (`ServedWhileAsked`); the directory goes after the server (`RemovedAfterServing`); the command ends (`ServeEnds`); `TypeOK` |
| `kfp_step` | components of 2 fields, Copy among them, images of up to 2 plugins, every command line | the outputs that later steps read are those the component was told (`OutputsAgree`); nothing is written or copied in an image that is not loaded completely (`PluginsFirst`); the adapter and the container agree on the command line (`StepStarts`); `TypeOK` |

Why the bounds are enough. A race needs two threads (each pair of concurrent calls) and two
replicas (the outcome of polling them one after the other depends on which exits in
between); the errors need two writers, one to overtake the other. Eviction needs one
application more than the cache holds, and a choice among finished ones a cache of two,
which the run `local_evicts_newest` has. All threads may make all calls, except that
`Submitters` is one thread in the runs: with two, both may pass the test `len(self._apps) ==
self._cache_size` before either inserts, and the cache then outgrows its bound for good;
`CacheBounded` is claimed, and proved, for one submitting thread only. In `log_follow` two
pieces make a line in one or two writes, before and after the describe that decides; in
`log_live` nothing is written (`MaxPieces = 0`), since a finite file delays the end by
finitely many reads only. `SmallModuleComponents` has a function for every annotation the
linter or the loader tells apart, with each kind of default, and pairs where one parameter
decides about another (`*args` and what follows it); other parameters are independent.
`SmallFileComponents` has what the linter accepts and refuses, in each place of a file; two
are enough for one to leave a function to the other. `SmallAppDefs` has up to two roles,
which may be namesakes, of up to two replicas. Three threads of `torchx log` and the main
thread exceed what the logger needs, two; the main thread is done with its event when they
start, so the run shows that the order in which the code makes its calls is what keeps the
set up safe. Two fields of a step may be two outputs, or an input and an output of one name;
two plugins may register one scheme; a URL may have a scheme that is registered, one that a
plugin may register, or one that nobody has. The proofs of section 4 need none of these
bounds.

`StopStops` rests on what `AppLifecycle` says of a cancel, that it takes effect
once nothing of the application runs.  That is what `LocalScheduler` does,
which waits for the replicas; a backend that only requests the cancellation, as the
docstring of `Scheduler.cancel` allows, would not give it.

### Disagreements

Each of these runs checks one statement of a docstring or comment, and TLC
finds a behaviour of the code that breaks it.

| run | statement | what happens |
|---|---|---|
| `local_evicts_newest` | LRU is "the oldest app in a terminal state" (421) | the newest inserted one is evicted (`EvictsOldest`) |
| `run_default_dies` | the docstring of `cli/__init__.py`: the command does not block, and its handle is for other commands | the scheduler named `default` is the local one, but `CmdRun` waits only for the name `local`; the command ends, and its finalizer terminates the job (`JobOutlivesCommand`) |

Others need no search, as reading the code shows them, and have no run.  They are in
the models as they are in the code:

* The `SUCCESS` file has the "final_state" (288); that of a cancelled application says
  `RUNNING`, because `close` writes it before the state changes (675).
* A state is to be reached "finally" (`specs/api.py:316`).  Of two concurrent describes the
  older verdict may be stored last: `SUCCEEDED` becomes `RUNNING` again (632), until the next
  one.  This is why `ImplementsLifecycle` is claimed, and proved, for one thread only.
* The finalizer is to terminate all applications (679), but does not know one whose launch
  raised half way (545).  `NoOrphans` shows that the death signal is left.
* `log_iter` iterates over lines (`schedulers/api.py:180`); a line that the replica
  writes in two calls may be returned as two (727).
* `close` is "NOT safe to call multiple times!" (258) and every describe of a finished
  application calls it; here it does no harm (`SuccessMeansClosed`, `OnlyCancelTerminates`).
* A cancel turns `SUCCEEDED` or `FAILED` into `CANCELLED`, which is to mean "before
  completing" (`specs/api.py:333`).
* `cancel` "does not block" (`schedulers/api.py:159`), but waits for the replicas with no
  timeout; and it raises, without stopping anything, when it meets an error file that is not
  completely written.  `CancelStops` and `CallsReturn` except these two cases by name.
* `should_tail=False` is to stop at the end of the file (`schedulers/api.py:221`); the
  argument is not used.
* `log_lines` is to raise `UnknownAppException` (`runner/api.py:463`), and raises
  `KeyError` if the application is evicted between its two lookups (`LogIter`).
* `Runner.describe` is to return `None` "if the app does not exist anymore"
  (`runner/api.py:384`), and returns the AppDef it holds (`DescribeApp`).
* `_scheduler_app_id` is to raise `ValueError` if the sessions differ (`runner/api.py:494`);
  they are not compared.
* An argument annotated `bool` is any text, and one annotated `Optional[int]` arrives as a
  text, because `get_argparse_param_type` has a type for primitives only.  `TypedArguments`
  excepts these two by name.
* Events of a runner are lost or recorded twice if its first two calls are made by two
  threads at once (`runner/events/__init__.py:51`); `torchx log` makes one call
  before it starts its threads (`EventsRecorded`; its mutant leaves that call out).
* The adapter gives an optional input the default `null` (`adapter.py:63`).  The container
  reads a field of type `int` with `int()`, which refuses it, and an optional output that
  is not a text fails the assertion in `main()` that outputs are (`StepStarts` excepts both).
* `runopts.resolve` says that it mutates the configuration (`specs/api.py:629`), and copies it.
* Names may have any characters, says `parse_app_handle` (`specs/api.py:744`).  It takes an
  application with a slash in its name for a part of the session, and `torchx status` asks
  about another application; a session with a scheme in it for a part of the scheduler.
* `torchx log` refuses handles that `run` prints: those with a dot, or with a slash, in a name.
  It accepts a scheduler with an underscore, and then loses it, as `urlparse` knows no such
  scheme.
* If the thread of the model server cannot be started, `shutdown()` in the `finally` waits for
  ever (`ServeEnds` excepts this by name).

## 4. The proofs

Theorems hold for every value of the constants: any number of applications,
replicas, threads, sessions and submitting threads, any cache size, any set of
components, applications, configurations and plugins.  The assumptions are those that
the modules state, and TLC evaluates them on every run: `CacheSizeAssumption` is the
`ValueError` of `__init__`; `SessionAssumption` gives each thread a session;
`ThreadsAssumption` is a number; `ComponentsAssumption` and `PluginsAssumption` say that
components and plugins are records of their fields; the others that sets are subsets.
`RunOptsAssumption` has no constant in it: the options of the local scheduler are ones
that `runopts.add` accepts.

| theorem | module | says |
|---|---|---|
| `TypeCorrect` | `LocalSchedulerProofs` | `Spec => []TypeOK` |
| `TruthInvariantHolds` | `LocalSchedulerProofs` | `Spec => []TruthInvariant` |
| `TerminalMeansExitedHolds` | `LocalSchedulerProofs` | an application that is called over has no running replica |
| `OutcomeAccurateHolds` | `LocalSchedulerProofs` | `SUCCEEDED` and `FAILED` agree with the exit codes |
| `SuccessMeansClosedHolds` | `LocalSchedulerProofs` | no `SUCCESS` file while a replica can write |
| `RunningIsTrackedHolds` | `LocalSchedulerProofs` | eviction never loses a running replica |
| `OnlyCancelTerminatesHolds` | `LocalSchedulerProofs` | only a cancel or the finalizer signals a running replica |
| `FirstErrorReportedHolds` | `LocalSchedulerProofs` | every describe that returns an error returns the first complete one |
| `CacheBoundedHolds` | `LocalSchedulerAlone` | with one submitting thread the cache keeps its bound |
| `CancelStopsHolds`, `TerminalIsFinalHolds` | `LocalSchedulerAlone` | with one thread, a cancel stops what it found, and nothing else changes a terminal state |
| `ImplementsLifecycleHolds` | `LocalSchedulerAlone` | with one thread, `LocalScheduler` implements `AppLifecycle` |
| `TailInvariantHolds`, `TailTypeCorrect` | `LogTailProofs` | the invariant below; `TailSpec => []TailTypeOK` |
| `StopsWhenCompleteHolds` | `LogTailProofs` | an iterator that stops has returned every match, for logs of any length |
| `RunnerInvariantHolds`, `RunnerTypeCorrect` | `RunnerProofs` | the invariant below; `RunnerSpec => []RunnerTypeOK` |
| `WaitTellsTheEndHolds`, `StopStopsHolds` | `RunnerProofs` | a wait that returns, and a stop that does, are about an application that is over |
| `KnownIsListedHolds` | `RunnerProofs` | what the scheduler knows is in a list |
| `ListForgetsHolds` | `RunnerProofs` | a list does not show what was forgotten when it began |
| `LintedBeforeCalledHolds`, `TypedArgumentsHolds` | `RunCommandProofs` | what is called was linted, and gets arguments of the annotated types; for any components |
| `RunInvariantHolds`, `RunTypeCorrect` | `RunCommandProofs` | the invariant below; `Spec => []TypeOK` |
| `HandleMeansAllHolds` | `RunCommandProofs` | a handle means that every replica of every role was started, for any number of roles and replicas |
| `ReplicasApartHolds` | `RunCommandProofs` | no two replicas share a log directory or an error file |
| `NoOrphansHolds` | `RunCommandProofs` | nothing outlives the command without a SIGTERM |
| `FailuresReportedHolds` | `LogCommandProofs` | no exception of a thread is lost, for any number of threads |
| `EventsRecordedHolds`, `LogCommandTypeCorrect` | `LogCommandProofs` | every call is recorded once; `Spec => []TypeOK` |
| `ServedWhileAskedHolds`, `RemovedAfterServingHolds`, `TorchServeTypeCorrect` | `TorchServeProofs` | the model is there while torchserve may answer, and goes after the server; `Spec => []TypeOK` |
| `PluginsFirstHolds` | `KfpStepProofs` | nothing is written or runs before all plugins are registered, for any configuration |
| `OutputInvariantHolds`, `KfpStepTypeCorrect` | `KfpStepProofs` | the invariant below; `Spec => []TypeOK` |
| `OutputsAgreeHolds`, `StepStartsHolds` | `KfpStepProofs` | what a step writes is what it was told, and what the adapter writes is not refused; for components of any number of fields |

**Why an invariant is needed.**  `TerminalMeansExited` is not inductive: a
`SetState` that stores `SUCCEEDED` keeps it only if what the thread has in its
frame is true, and the replicas were polled at different moments.
`TruthInvariant` (in `LocalSchedulerInv`) therefore says, for each point a call can
be at, what its thread *knows*:

* `PollTrue`: unless `"running"` was seen, every replica polled so far has exited,
  and with code zero unless `"failed"` was seen.  A process that has exited
  stays exited with its code, so nobody can make this false.
* `CloseTrue`: the replicas before the k-th have been waited for, and unless the
  call is a cancel or the finalizer, all had exited before the close began (this
  is why a describe, which closes too, never kills).
* `LaunchTrue` and `LaunchingAlone`: the replicas before the k-th were started,
  and only one thread starts processes of an application.  `os.makedirs`, which
  fails if the directory exists, is what makes it one.
* `AppTrue`: what is stored of an application is true, an application that is not
  registered is untouched, and one that is registered and not in the cache has
  exited.
* `FrameTrue`: a call past its lookup is about a registered application, and the
  state it carries, or has reported, is true.

The proof has one lemma per action; the two that carry it are `SetState` (the
verdict follows from `PollTrue`) and `Exit` (every fact is stable when a process
exits).  `TerminalMeansExitedHolds` and the four after it in the table follow from the
invariant; the last, an action property, from `CloseTrue` before the step.

`CacheBoundedHolds` needs an invariant of its own: between the test of the size and
the insertion the submitting thread has a place kept (`PlaceKept`), which nobody
can take since only a schedule inserts, and what it launches is not in the cache
(`LaunchIsNew`).

`FirstErrorReportedHolds` follows from its own statement, made for every point of a call
(`ErrorInvariant`): a file that is begun comes last, and one that is completed moves to the
end, so nothing comes before a file that is complete.

`AloneInvariant` is what a thread knows in addition if it is the only one: what it has
looked up stays in the cache until it returns, and what it found not to be over is not ended
by somebody else while it polls.  `CancelStops` and `TerminalIsFinal` follow from it, and
both are false for two threads.  The refinement is a step simulation: a `Launch` of the first
replica starts the work of the application, the `Exit` of its last replica ends it, an
eviction forgets, `Register` makes it known, `SetState` and `Mark` change its status, and
every other step is a stutter (`QuietImplements`).  That the status which `SetState` gives
agrees with the work that is left is `PollTrue`; that it does not go back is `AloneTrue`.

`TailInvariant` adds to `TruthInvariant` what a reader knows: its thread is in a describe of
its own application (`AskTrue`), what that describe tells is true, an application that it
knows and that the cache does not hold is over, and what it has read past it has returned
if it matched (`PassedTrue`; that `readline` finds an end at all is `LineEndExists`, which
takes the least element of a set of naturals).  Once told the end, nothing writes to the
file any more (`TailWrite`), so the read that finds nothing is the last one.

`RunnerInvariant` rests on facts that no step takes back: an application that was
submitted and does not run never runs again (`Done`), and one that the scheduler has
forgotten it never knows again (`Forgotten`).  What a thread learns by asking is one of
them, so it is still true when the thread acts on it, whatever the others did; that is
`FrameTrue`.  `KnownIsListed` also needs the thread between `schedule` and the
assignment to `_apps` (`Listed`).  For `ListForgets` `ListInvariant` adds that what a list
has dropped is not added again, because an application is recorded once, by the thread
that ran it (`Fresh`).

`LoadInvariant` says that the globals hold only functions that were accepted by the
linter, and that between the lint and the call the function, and after it the
arguments, are ones that the linter and the loader agreed on; the lemma
`ArgValueFits` goes through the annotations.  `NoOrphans` is inductive.

`RunInvariant` follows the two loops from the AppDef to the processes.  `Building` says what
of the request is made: every replica of the roles before `at` is in it, and where two of
these roles have one name, some entry has two replicas with one log directory, because each
of them has a replica 0 (`Built`).  `Starting` says what is started: the replicas of the
request before `at`, no two of which have one log directory.  When the loop has passed
them all, the first gives that all are started, and the two together that no roles are
namesakes, which is how `HandleMeansAll` gets from `makedirs`, which fails on the second
replica 0, to the names of roles, which nothing in the code compares.  That entries
of different names never share a directory is `Entries`.  `ReplicasApart` follows from
`DirsApart`: an error file that the role does not set is in the directory of its replica.

`QueueInvariant` says, for each point of the main thread, which threads are over and what
of the queue is taken out: when it drains the queue nobody can put anything there.
`EventInvariant` says how far the logger is set up, and by whom (`LoggerFollows`): as long
as its set up is not complete only the main thread is in a call, since no other is
started before its first call has returned; and what each thread has recorded at each of its
points (`RecordFollows`).

`ServeInvariant` relates the main thread of `TorchServe` to the thread of the server: until
main shuts it down the flag is not set and the server does not stop (`ServerFollows`), and
the directory holds the model from the download to the shutdown (`DownloadFollows`).  So
torchserve, while main waits for its answer, finds a server that runs and the model.

`PluginInvariant` says that what is left of the plugins are the last of the configuration,
and that each of the others is the provider of its scheme; a registration that would
replace one raises.  `OutputInvariant` says that from the moment the command line is taken
the values are those that it gives, each accepted for its field (`Values`), that the
outputs before the next one are written as they were read and that the component runs when
all are (`Written`), and that a step which is refused is refused for the reason it gives
(`Reasons`).  `StepStarts` then is a matter of what `argparse` makes of a text for each type
(`ValueOfText`), and of what is on the command line of a pipeline (`LineOfPipeline`).

**Only model-checked**: the liveness properties (`CallsReturn`, `IteratorEnds`,
`WaitReturns`, `CommandEnds`, `ServeEnds`), as liveness under fairness is out of the
prover's reach.  Every invariant, action property and refinement that a passing run checks
is a theorem too.  `CacheBounded` is one for one submitting
thread, and `CancelStops`, `TerminalIsFinal` and `ImplementsLifecycle` are for one thread, as
the runs that check them have it.

## 5. What is not modelled

* Commands other than `run` and `log`, which make one call of the runner and print.
* The builtin components, which build an AppDef from their arguments.
* `component_from_app` of the adapter, which copies the fields of a role to a container.
* The transfers of files by a storage provider, `temppath`, `S3.cp` and `cloudformation`,
  which nothing in the program calls: input and output, and sequential scripts.
* The patterns that `parse_app_handle` and `torchx log` read a handle with: which names they
  misread is said above; the models have a handle as the pair of its names.
* The texts of commands, environments, messages and events.
* Documentation, examples and scripts.

Of what is modelled, left out are the contents of files and messages, `roles_statuses` and
`ui_url` of a status, and the events of a runner elsewhere than in `LogCommand`.

## 6. Plan

Done, in this order: `LocalScheduler` and `AppLifecycle` with the first proofs; `LogTail`,
`Runner`; `RunCommand` with the pure algorithms it is made of; `LogCommand`, `TorchServe`,
`KfpStep`; the proofs about the runner and the new modules, about the log iterator, and of what
holds for one thread, the refinement among it; the proofs from the AppDef to the processes,
about the events, the model server and the command line of a pipeline step.

Left, by what they would add:

1. The composition of `LogCommand` with `LogTail`: the threads of the command over the
   detailed scheduler, with applications that are evicted under them.
