--------------------------- MODULE LocalScheduler ---------------------------
(***************************************************************************)
(* The local scheduler of torchx (torchx/schedulers/local_scheduler.py):   *)
(* it runs every replica of an application as a child process of the       *)
(* caller's own process, remembers applications in a bounded cache, and    *)
(* learns what became of them only when somebody asks.                     *)
(*                                                                         *)
(* Several threads of a process may use one scheduler object (docstring of *)
(* Scheduler.cancel; a Runner shared by threads, as in cli/cmd_log.py) and *)
(* there is no lock, so a call is a sequence of steps: a step ends where   *)
(* the thread makes a system call or reads shared state a second time.     *)
(* call[c] is the frame of the call that thread c is in, and, between      *)
(* calls, what its last call returned or raised.  Replicas of all roles    *)
(* are numbered together, in the order of role_replicas.                   *)
(***************************************************************************)
EXTENDS Integers, Sequences, SequencesExt, AppState

CONSTANTS
  Apps,          \* application ids, each the app_id of one PopenRequest
  NumReplicas,   \* replicas per application, over all its roles
  Callers,       \* threads that use the scheduler object
  Submitters,    \* the threads among them that call schedule
  CacheSize,     \* cache_size
  ErrorWriters   \* replicas whose program may write its error file

ASSUME CallersAssumption == Submitters \subseteq Callers
\* LocalScheduler.__init__ raises ValueError for any other cache_size
ASSUME CacheSizeAssumption == CacheSize \in Nat \ {0}
ASSUME ReplicasAssumption == NumReplicas \in Nat
ASSUME WritersAssumption == ErrorWriters \subseteq 1 .. NumReplicas

VARIABLES
  cache,         \* _apps: the ids of the dict, in insertion order
  state,         \* _LocalAppDef.state
  updatedBefore, \* pairs <<a, b>>: a.last_updated < b.last_updated
  submitted,     \* how far schedule came; the log dir exists iff not "no"
  proc,          \* the process of each replica
  signalled,     \* running replicas that were sent SIGTERM
  errs,          \* replicas with an error file, by increasing mtime
  torn,          \* replicas whose error file is not fully written
  success,       \* final_state in the SUCCESS file, "none" if no such file
  gone,          \* the scheduler object is being finalized (__del__)
  call           \* the frame of each thread

appVars == <<cache, state, updatedBefore, submitted, success, gone>>
osVars  == <<proc, signalled, errs, torn>>
vars    == <<appVars, osVars, call>>

Replicas == 1 .. NumReplicas

(***************************************************************************)
(* The frame of a call.  op "cancel" is the exists() half of               *)
(* Scheduler.cancel, op "kill" its _cancel_existing() half, op "del" the   *)
(* finalizer.  `seen' holds the local flags `running' and `failed' of      *)
(* describe, `msg' the replica whose error file it returns (0 for NONE),   *)
(* `res' the local `state' of describe and, once idle, the outcome.        *)
(***************************************************************************)
Errors ==
  {"IndexError", "AssertionError", "FileExistsError", "OSError",
   "KeyError", "JSONDecodeError"}

Frame ==
  [at   : {"idle", "prepare", "launch", "readerr", "check", "poll",
           "settle", "signal", "reap", "mark"},
   op   : {"none", "schedule", "describe", "cancel", "kill", "del"},
   app  : Apps,
   k    : 1 .. NumReplicas + 1,
   seen : SUBSET {"running", "failed"},
   msg  : 0 .. NumReplicas,
   res  : AppStates \cup Errors \cup {"none", "ok"}]

Cached(a) == \E i \in DOMAIN cache : cache[i] = a
Alive(a, r) == proc[a][r] = "alive"
Exited(a) == \A r \in Replicas : ~Alive(a, r)

Idle(c) == call[c].at = "idle"
At(c, label) == call[c].at = label
Become(c, frame) == call' = [call EXCEPT ![c] = frame]
MutantNewFrame(label, op, a, res) ==   \* replicas counted from zero
  [at |-> label, op |-> op, app |-> a, k |-> 0,
   seen |-> {}, msg |-> 0, res |-> res]

NewFrame(label, op, a, res) ==
  [at |-> label, op |-> op, app |-> a, k |-> 1,
   seen |-> {}, msg |-> 0, res |-> res]
Enter(c, op, a, label) == Become(c, NewFrame(label, op, a, "none"))
Refuse(c, op, a, res) == Become(c, NewFrame("idle", op, a, res))
Return(c, res) ==
  Become(c, [call[c] EXCEPT !.at = "idle", !.k = 1, !.seen = {}, !.res = res])

Init ==
  /\ cache = <<>>
  /\ state = [a \in Apps |-> "PENDING"]
  /\ updatedBefore = {}
  /\ submitted = [a \in Apps |-> "no"]
  /\ proc = [a \in Apps |-> [r \in Replicas |-> "none"]]
  /\ signalled = [a \in Apps |-> {}]
  /\ errs = [a \in Apps |-> <<>>]
  /\ torn = [a \in Apps |-> {}]
  /\ success = [a \in Apps |-> "none"]
  /\ gone = FALSE
  /\ \E a \in Apps :
       call = [c \in Callers |-> NewFrame("idle", "none", a, "none")]

-----------------------------------------------------------------------------
(* schedule *)

MutantFull == Len(cache) > CacheSize   \* one too many
Full == Len(cache) = CacheSize

MutantEvictable == DOMAIN cache        \* whether finished or not
Evictable == {i \in DOMAIN cache : IsTerminal(state[cache[i]])}

\* _evict_lru: the loop never lowers lru_time, so its comparison always holds
\* and the last application in a terminal state is the one that goes.
EvictLru ==
  \E i \in Evictable :
    /\ \A j \in Evictable : j <= i
    /\ cache' = RemoveAt(cache, i)

\* schedule, first statement: make room, or refuse.
Schedule(c, a) ==
  /\ Idle(c)
  /\ c \in Submitters
  /\ ~gone
  /\ \/ /\ ~Full
        /\ Enter(c, "schedule", a, "prepare")
        /\ UNCHANGED cache
     \/ /\ Full
        /\ EvictLru
        /\ Enter(c, "schedule", a, "prepare")
     \/ /\ Full
        /\ Evictable = {}
        /\ Refuse(c, "schedule", a, "IndexError")
        /\ UNCHANGED cache
  /\ UNCHANGED <<state, updatedBefore, submitted, success, gone, osVars>>

\* the assertion on app_id and os.makedirs(app_log_dir)
Prepare(c) ==
  LET a == call[c].app IN
  /\ At(c, "prepare")
  /\ \/ /\ Cached(a)
        /\ Return(c, "AssertionError")
        /\ UNCHANGED submitted
     \/ /\ ~Cached(a)
        /\ submitted[a] # "no"
        /\ Return(c, "FileExistsError")
        /\ UNCHANGED submitted
     \/ /\ ~Cached(a)
        /\ submitted[a] = "no"
        /\ submitted' = [submitted EXCEPT ![a] = "launching"]
        /\ Become(c, [call[c] EXCEPT !.at = "launch", !.k = 1])
  /\ UNCHANGED <<cache, state, updatedBefore, success, gone, osVars>>

\* os.makedirs(replica_log_dir) and _popen of replica k; either may raise
Launch(c) ==
  LET a == call[c].app
      k == call[c].k
  IN
  /\ At(c, "launch")
  /\ k <= NumReplicas
  /\ \/ /\ proc' = [proc EXCEPT ![a] = [@ EXCEPT ![k] = "alive"]]
        /\ Become(c, [call[c] EXCEPT !.k = k + 1])
        /\ UNCHANGED submitted
     \/ /\ submitted' = [submitted EXCEPT ![a] = "failed"]
        /\ Return(c, "OSError")
        /\ UNCHANGED proc
  /\ UNCHANGED <<cache, state, updatedBefore, success, gone,
                 signalled, errs, torn>>

\* self._apps[app_id] = local_app
Register(c) ==
  LET a == call[c].app IN
  /\ At(c, "launch")
  /\ call[c].k > NumReplicas
  /\ cache' = Append(cache, a)
  /\ submitted' = [submitted EXCEPT ![a] = "yes"]
  /\ Return(c, "ok")
  /\ UNCHANGED <<state, updatedBefore, success, gone, osVars>>

-----------------------------------------------------------------------------
(* describe, and the exists() half of cancel, which is a describe *)

Query(c, op, a) ==
  /\ Idle(c)
  /\ ~gone
  /\ \/ /\ Cached(a)
        /\ Enter(c, op, a, "readerr")
     \/ /\ ~Cached(a)
        /\ Refuse(c, op, a, "none")
  /\ UNCHANGED <<appVars, osVars>>

Describe(c, a) == Query(c, "describe", a)
Cancel(c, a) == Query(c, "cancel", a)

\* _get_error_file: the error file with the least mtime
MutantErrorFile(a) == Last(errs[a])    \* the greatest
ErrorFile(a) == errs[a][1]

\* get_structured_error_msg: json.load of that file
ReadError(c) ==
  LET a == call[c].app IN
  /\ At(c, "readerr")
  /\ \/ /\ errs[a] = <<>>
        /\ Become(c, [call[c] EXCEPT !.at = "check"])
     \/ /\ errs[a] # <<>>
        /\ ErrorFile(a) \notin torn[a]
        /\ Become(c, [call[c] EXCEPT !.at = "check", !.msg = ErrorFile(a)])
     \/ /\ errs[a] # <<>>
        /\ ErrorFile(a) \in torn[a]
        /\ Return(c, "JSONDecodeError")
  /\ UNCHANGED <<appVars, osVars>>

MutantCheckState(c) ==                 \* polls whatever is known
  /\ At(c, "check")
  /\ Become(c, [call[c] EXCEPT !.at = "poll", !.k = 1, !.seen = {}])
  /\ UNCHANGED <<appVars, osVars>>

\* `check if the app is known to have finished'
CheckState(c) ==
  LET s == state[call[c].app] IN
  /\ At(c, "check")
  /\ \/ /\ IsTerminal(s)
        /\ Become(c, [call[c] EXCEPT !.at = "settle", !.res = s])
     \/ /\ ~IsTerminal(s)
        /\ Become(c, [call[c] EXCEPT !.at = "poll", !.k = 1, !.seen = {}])
  /\ UNCHANGED <<appVars, osVars>>

MutantFlags(p) == IF p = "alive" THEN {"running"} ELSE {}  \* drops failed()

\* running |= r.is_alive(); failed |= r.failed().  failed() polls once more: a
\* replica that exits between the two adds "failed" to "running", which makes
\* no difference to the verdict.
Flags(p) ==
  CASE p = "alive"   -> {"running"}
    [] p = "nonzero" -> {"failed"}
    [] OTHER         -> {}

Poll(c) ==
  LET a == call[c].app
      k == call[c].k
  IN
  /\ At(c, "poll")
  /\ k <= NumReplicas
  /\ Become(c, [call[c] EXCEPT !.k = k + 1,
                               !.seen = @ \cup Flags(proc[a][k])])
  /\ UNCHANGED <<appVars, osVars>>

MutantVerdict(seen) ==                 \* looks at failed first
  CASE "failed" \in seen                          -> "FAILED"
    [] "failed" \notin seen /\ "running" \in seen -> "RUNNING"
    [] OTHER                                      -> "SUCCEEDED"

\* the state describe concludes from what it has polled
Verdict(seen) ==
  CASE "running" \in seen                        -> "RUNNING"
    [] "running" \notin seen /\ "failed" \in seen -> "FAILED"
    [] OTHER                                     -> "SUCCEEDED"

\* set_state: every other application was updated before this one
SetState(c) ==
  LET a == call[c].app
      s == Verdict(call[c].seen)
  IN
  /\ At(c, "poll")
  /\ call[c].k > NumReplicas
  /\ state' = [state EXCEPT ![a] = s]
  /\ updatedBefore' = {p \in updatedBefore : p[1] # a}
                        \cup ((Apps \ {a}) \X {a})
  /\ Become(c, [call[c] EXCEPT !.at = "settle", !.k = 1, !.seen = {},
                               !.res = s])
  /\ UNCHANGED <<cache, submitted, success, gone, osVars>>

\* what follows the describe: the reply, or for cancel _cancel_existing, whose
\* lookup raises KeyError if the application was evicted in between
Answer(c) ==
  IF call[c].op = "describe"
  THEN Return(c, call[c].res)
  ELSE IF Cached(call[c].app)
       THEN Enter(c, "kill", call[c].app, "signal")
       ELSE Return(c, "KeyError")

MutantSettle(c) ==                     \* closes every application it describes
  /\ At(c, "settle")
  /\ Become(c, [call[c] EXCEPT !.at = "signal", !.k = 1])
  /\ UNCHANGED <<appVars, osVars>>

\* local_app.state is read again: close() if it is terminal, else answer
Settle(c) ==
  /\ At(c, "settle")
  /\ \/ /\ IsTerminal(state[call[c].app])
        /\ Become(c, [call[c] EXCEPT !.at = "signal", !.k = 1])
     \/ /\ ~IsTerminal(state[call[c].app])
        /\ Answer(c)
  /\ UNCHANGED <<appVars, osVars>>

-----------------------------------------------------------------------------
(* close, _cancel_existing and the finalizer: all terminate the replicas *)

MutantSignal(c) ==                     \* waits without terminating
  /\ At(c, "signal")
  /\ call[c].k <= NumReplicas
  /\ Become(c, [call[c] EXCEPT !.at = "reap"])
  /\ UNCHANGED <<appVars, osVars>>

\* proc.terminate() of replica k: SIGTERM, unless it is known to have exited
Signal(c) ==
  LET a == call[c].app
      k == call[c].k
  IN
  /\ At(c, "signal")
  /\ k <= NumReplicas
  /\ signalled' = IF Alive(a, k)
                    THEN [signalled EXCEPT ![a] = @ \cup {k}]
                    ELSE signalled
  /\ Become(c, [call[c] EXCEPT !.at = "reap"])
  /\ UNCHANGED <<appVars, proc, errs, torn>>

MutantReap(c) ==                       \* terminates without waiting
  /\ At(c, "reap")
  /\ call[c].k <= NumReplicas
  /\ Become(c, [call[c] EXCEPT !.at = "signal", !.k = @ + 1])
  /\ UNCHANGED <<appVars, osVars>>

\* proc.wait() of replica k, with no timeout
Reap(c) ==
  /\ At(c, "reap")
  /\ call[c].k <= NumReplicas
  /\ ~Alive(call[c].app, call[c].k)
  /\ Become(c, [call[c] EXCEPT !.at = "signal", !.k = @ + 1])
  /\ UNCHANGED <<appVars, osVars>>

\* the end of close(): write the SUCCESS file, over any earlier one
Seal(c) ==
  LET a == call[c].app IN
  /\ At(c, "signal")
  /\ call[c].k > NumReplicas
  /\ call[c].op # "del"
  /\ success' = [success EXCEPT ![a] = state[a]]
  /\ \/ /\ call[c].op = "kill"
        /\ Become(c, [call[c] EXCEPT !.at = "mark", !.k = 1])
     \/ /\ call[c].op # "kill"
        /\ Answer(c)
  /\ UNCHANGED <<cache, state, updatedBefore, submitted, gone, osVars>>

\* local_app.state = CANCELLED, not through set_state
Mark(c) ==
  /\ At(c, "mark")
  /\ state' = [state EXCEPT ![call[c].app] = "CANCELLED"]
  /\ Return(c, "ok")
  /\ UNCHANGED <<cache, updatedBefore, submitted, success, gone, osVars>>

\* __del__ runs when the last reference goes, so when no call is in progress
Finalize(c) ==
  /\ ~gone
  /\ \A d \in Callers : Idle(d)
  /\ gone' = TRUE
  /\ \/ /\ cache = <<>>
        /\ Refuse(c, "del", call[c].app, "ok")
     \/ /\ cache # <<>>
        /\ Enter(c, "del", cache[1], "signal")
  /\ UNCHANGED <<cache, state, updatedBefore, submitted, success, osVars>>

\* __del__ goes on to the next application of the dict
FinalizeNext(c) ==
  /\ At(c, "signal")
  /\ call[c].k > NumReplicas
  /\ call[c].op = "del"
  /\ \E i \in DOMAIN cache :
       /\ cache[i] = call[c].app
       /\ IF i = Len(cache)
          THEN Return(c, "ok")
          ELSE Enter(c, "del", cache[i + 1], "signal")
  /\ UNCHANGED <<appVars, osVars>>

-----------------------------------------------------------------------------
(* The replicas, which run on their own.  SIGTERM may be handled or ignored, *)
(* so a replica may outlive it and may exit with any code at any time.       *)

Exit(a, r) ==
  /\ Alive(a, r)
  /\ \E code \in {"zero", "nonzero"} :
       proc' = [proc EXCEPT ![a] = [@ EXCEPT ![r] = code]]
  /\ signalled' = [signalled EXCEPT ![a] = @ \ {r}]
  /\ UNCHANGED <<appVars, errs, torn, call>>

HasErrorFile(a, r) == \E i \in DOMAIN errs[a] : errs[a][i] = r

\* the replica creates its error file ...
StartError(a, r) ==
  /\ r \in ErrorWriters
  /\ Alive(a, r)
  /\ ~HasErrorFile(a, r)
  /\ errs' = [errs EXCEPT ![a] = Append(@, r)]
  /\ torn' = [torn EXCEPT ![a] = @ \cup {r}]
  /\ UNCHANGED <<appVars, proc, signalled, call>>

\* ... and later completes it, which moves its mtime
FinishError(a, r) ==
  /\ Alive(a, r)
  /\ r \in torn[a]
  /\ \E i \in DOMAIN errs[a] :
       /\ errs[a][i] = r
       /\ errs' = [errs EXCEPT ![a] = Append(RemoveAt(@, i), r)]
  /\ torn' = [torn EXCEPT ![a] = @ \ {r}]
  /\ UNCHANGED <<appVars, proc, signalled, call>>

-----------------------------------------------------------------------------
\* a thread inside a call, taking the next step of it
Progress(c) ==
  \/ Prepare(c)
  \/ Launch(c)
  \/ Register(c)
  \/ ReadError(c)
  \/ CheckState(c)
  \/ Poll(c)
  \/ SetState(c)
  \/ Settle(c)
  \/ Signal(c)
  \/ Reap(c)
  \/ Seal(c)
  \/ Mark(c)
  \/ FinalizeNext(c)

Invoke(c) ==
  \/ \E a \in Apps : Schedule(c, a)
  \/ \E a \in Apps : Describe(c, a)
  \/ \E a \in Apps : Cancel(c, a)
  \/ Finalize(c)

Environment ==
  \E a \in Apps, r \in Replicas :
    \/ Exit(a, r)
    \/ StartError(a, r)
    \/ FinishError(a, r)

Next ==
  \/ \E c \in Callers : Progress(c)
  \/ \E c \in Callers : Invoke(c)
  \/ Environment

Spec == Init /\ [][Next]_vars

(***************************************************************************)
(* A thread that is inside a call keeps running.  Nothing makes a program  *)
(* start a call, and nothing makes a replica exit by itself.               *)
(***************************************************************************)
CallerFairness == \A c \in Callers : WF_vars(Progress(c))
FairSpec == Spec /\ CallerFairness

-----------------------------------------------------------------------------
(* What all this implements: the life of an application, seen from outside. *)

WorkOf(a) ==
  CASE \E r \in Replicas : Alive(a, r)            -> "live"
    [] \A r \in Replicas : proc[a][r] = "none"    -> "none"
    [] Exited(a) /\ \E r \in Replicas : proc[a][r] = "nonzero" -> "bad"
    [] OTHER                                      -> "ok"

StatusOf(a) == IF submitted[a] = "yes" THEN state[a] ELSE "UNSUBMITTED"

Lifecycle ==
  INSTANCE AppLifecycle WITH
    status <- [a \in Apps |-> StatusOf(a)],
    work   <- [a \in Apps |-> WorkOf(a)],
    known  <- {a \in Apps : Cached(a)}

\* One thread that uses the scheduler sees it keep the promise of AppLifecycle.
ImplementsLifecycle == Lifecycle!Spec

-----------------------------------------------------------------------------
(* Properties *)

\* Every variable has its type.
TypeOK ==
  /\ cache \in Seq(Apps)
  /\ state \in [Apps -> AppStates]
  /\ updatedBefore \subseteq Apps \X Apps
  /\ submitted \in [Apps -> {"no", "launching", "yes", "failed"}]
  /\ proc \in [Apps -> [Replicas -> {"none", "alive", "zero", "nonzero"}]]
  /\ signalled \in [Apps -> SUBSET Replicas]
  /\ errs \in [Apps -> Seq(Replicas)]
  /\ torn \in [Apps -> SUBSET Replicas]
  /\ success \in [Apps -> AppStates \cup {"none"}]
  /\ gone \in BOOLEAN
  /\ call \in [Callers -> Frame]

\* what the last call of thread c told about its application
Reported(c, s) == Idle(c) /\ call[c].res = s

\* An application that is in a terminal state, or that a describe reported in
\* one, has no running replica - although describe looks at its replicas one
\* after the other while they exit, while other threads describe and cancel
\* the same application, and although the last of those to write wins.
TerminalMeansExited ==
  \A a \in Apps :
    \/ IsTerminal(state[a])
    \/ \E c \in Callers : call[c].app = a /\ \E s \in TerminalStates : Reported(c, s)
    => Exited(a)

\* SUCCEEDED, recorded or reported, means that every replica was started and
\* exited with code zero; FAILED, that one of them did not.
OutcomeAccurate ==
  \A a \in Apps :
    LET Told(s) == \/ state[a] = s
                   \/ \E c \in Callers : call[c].app = a /\ Reported(c, s)
    IN /\ Told("SUCCEEDED") => \A r \in Replicas : proc[a][r] = "zero"
       /\ Told("FAILED") => \E r \in Replicas : proc[a][r] = "nonzero"

\* A SUCCESS file, which says that the logs can be read reliably, is there
\* only when no replica can write to them any more.
SuccessMeansClosed ==
  \A a \in Apps : success[a] # "none" => Exited(a)

\* The finalizer terminates what is in the cache: a replica that runs belongs
\* to an application of the cache, or to one whose launch is not over or
\* raised.  So evicting an application never loses a running replica.
RunningIsTracked ==
  \A a \in Apps :
    ~Exited(a) => Cached(a) \/ submitted[a] \in {"launching", "failed"}

\* The cache never outgrows cache_size (schedule tests the size with ==), and
\* holds each application once.
CacheBounded ==
  /\ Len(cache) <= CacheSize
  /\ \A i, j \in DOMAIN cache : cache[i] = cache[j] => i = j

\* Asking never kills: only a cancel of the application, or the finalizer,
\* sends a signal to a replica that runs, although describe too closes
\* applications it finds finished.
OnlyCancelTerminates ==
  [][\A a \in Apps : ~(signalled'[a] \subseteq signalled[a]) =>
       \E c \in Callers : call[c].app = a /\ call[c].op \in {"kill", "del"}]_vars

\* An application leaves a terminal state only for CANCELLED, by a cancel.
TerminalIsFinal ==
  [][\A a \in Apps : IsTerminal(state[a]) /\ state'[a] # state[a] =>
       /\ state'[a] = "CANCELLED"
       /\ \E c \in Callers : call[c].app = a /\ call[c].op = "kill"]_vars

\* However a cancel that found the application ends, by returning or by
\* raising, the application is stopped; and if it returned it is CANCELLED.
\* The one exception is an error file that cannot be read: nothing is done then.
CancelStops ==
  \A c \in Callers :
    Idle(c) /\ call[c].op \in {"cancel", "kill"}
      /\ call[c].res \notin {"none", "JSONDecodeError"} =>
      /\ Exited(call[c].app)
      /\ call[c].res = "ok" => state[call[c].app] = "CANCELLED"

\* A describe that returns an error returns that of the replica that completed
\* its error file first, in full; so all describes of an application that
\* return an error return the same one.
FirstErrorReported ==
  \A c \in Callers :
    LET a == call[c].app
        m == call[c].msg
    IN Idle(c) /\ m # 0 => errs[a] # <<>> /\ errs[a][1] = m /\ m \notin torn[a]

\* schedule, if it makes room, forgets the oldest finished application
\* (docstring of _evict_lru), the one whose state was set least recently.
EvictsOldest ==
  [][\A i \in DOMAIN cache :
       Len(cache') < Len(cache) /\ (\A j \in DOMAIN cache' : cache'[j] # cache[i]) =>
         \A j \in Evictable : <<cache[j], cache[i]>> \notin updatedBefore]_vars

\* Every call returns, or waits for ever for one replica: only a cancel and the
\* finalizer wait for a replica that runs, and they have sent it SIGTERM.  So a
\* describe returns whatever the replicas do, even when it closes the
\* application, and even while another thread cancels it.
CallsReturn ==
  \A c \in Callers :
    LET a == call[c].app
        k == call[c].k
    IN ~Idle(c) ~> \/ Idle(c)
                   \/ /\ At(c, "reap")
                      /\ call[c].op \in {"kill", "del"}
                      /\ k \in signalled[a]
=============================================================================
