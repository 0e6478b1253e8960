------------------------------- MODULE Runner -------------------------------
(***************************************************************************)
(* Sessions (class Runner of torchx/runner/api.py): run, status, wait,     *)
(* list, stop and describe, called by several threads, over a scheduler    *)
(* that keeps the promise of AppLifecycle and may forget an application    *)
(* that is over between any two calls.  A session keeps the applications   *)
(* it ran in _apps and drops one when the scheduler does not know it.      *)
(*                                                                         *)
(* Here a call of the scheduler is one step (LocalScheduler has what is    *)
(* inside) and any of them may raise, which ends the call of the session.  *)
(* A handle is the session and the application that it names.              *)
(***************************************************************************)
EXTENDS AppState

CONSTANTS
  Apps,      \* application ids
  Sessions,  \* Runner objects, which share one scheduler
  Callers,   \* threads
  SessionOf  \* the Runner that each thread calls

ASSUME SessionAssumption == SessionOf \in [Callers -> Sessions]

VARIABLES
  status, work, known,  \* the scheduler and what it runs, see AppLifecycle
  apps,      \* _apps of each Runner: the handles it holds
  call       \* the frame of each thread

schedulerVars == <<status, work, known>>
runnerVars == <<schedulerVars, apps, call>>

Scheduler == INSTANCE AppLifecycle

Handles == Sessions \X Apps

(***************************************************************************)
(* `todo' is what list has still to ask about; `gone', for the property of  *)
(* list, the handles of its copy that the scheduler did not know when the   *)
(* call began; `res' what describe, then the call itself, returned.         *)
(***************************************************************************)
Frame ==
  [at   : {"idle", "schedule", "record", "ask", "told", "cancel"},
   op   : {"none", "run", "status", "wait", "list", "stop", "describe"},
   h    : Handles,
   todo : SUBSET Handles,
   gone : SUBSET Handles,
   res  : AppStates \cup {"none", "ok", "AppDef", "raised"}]

Idle(c) == call[c].at = "idle"
At(c, label) == call[c].at = label
AppOf(h) == h[2]
Unknown(handles) == {h \in handles : AppOf(h) \notin known}

NewFrame(label, op, h, res) ==
  [at |-> label, op |-> op, h |-> h, todo |-> {}, gone |-> {}, res |-> res]
Become(c, frame) == call' = [call EXCEPT ![c] = frame]
Enter(c, op, h, label) == Become(c, NewFrame(label, op, h, "none"))
Apart(c, label) == Become(c, [call[c] EXCEPT !.at = label])
Return(c, res) ==
  Become(c, [call[c] EXCEPT !.at = "idle", !.todo = {}, !.res = res])

\* a call that is over at once
AtOnce(c, op, h, res) == Become(c, NewFrame("idle", op, h, res))

RunnerInit ==
  /\ Scheduler!Init
  /\ apps = [s \in Sessions |-> {}]
  /\ \E h \in Handles :
       call = [c \in Callers |-> NewFrame("idle", "none", h, "none")]

-----------------------------------------------------------------------------
(* run *)

\* dryrun makes up an app_id that nobody has, or refuses the AppDef
Run(c, a) ==
  /\ Idle(c)
  /\ status[a] = "UNSUBMITTED"
  /\ work[a] = "none"
  /\ \A d \in Callers : At(d, "schedule") => AppOf(call[d].h) # a
  /\ \/ Enter(c, "run", <<SessionOf[c], a>>, "schedule")
     \/ AtOnce(c, "run", <<SessionOf[c], a>>, "raised")
  /\ UNCHANGED <<schedulerVars, apps>>

\* sched.schedule; an AppDef that passed dryrun has replicas, so work begins
ScheduleApp(c) ==
  /\ At(c, "schedule")
  /\ \/ /\ work[AppOf(call[c].h)] # "none"
        /\ Scheduler!Submit(AppOf(call[c].h))
        /\ Apart(c, "record")
     \/ /\ Return(c, "raised")
        /\ UNCHANGED schedulerVars
  /\ UNCHANGED apps

MutantRecord(c) ==                     \* under the app_id
  /\ At(c, "record")
  /\ apps' = [apps EXCEPT ![SessionOf[c]] = @ \cup {AppOf(call[c].h)}]
  /\ Return(c, "ok")
  /\ UNCHANGED schedulerVars

\* self._apps[app_handle] = app
Record(c) ==
  /\ At(c, "record")
  /\ apps' = [apps EXCEPT ![SessionOf[c]] = @ \cup {call[c].h}]
  /\ Return(c, "ok")
  /\ UNCHANGED schedulerVars

-----------------------------------------------------------------------------
(* status, and the calls that are made of it: wait, list, stop *)

\* handles come from a run; that of another session is as good
AskAbout(c, op, h) ==
  /\ Idle(c)
  /\ status[AppOf(h)] # "UNSUBMITTED"
  /\ Enter(c, op, h, "ask")
  /\ UNCHANGED <<schedulerVars, apps>>

Status(c, h) == AskAbout(c, "status", h)
Wait(c, h) == AskAbout(c, "wait", h)
Stop(c, h) == AskAbout(c, "stop", h)

\* list takes a copy of the keys; order plays no part here
List(c) ==
  LET held == apps[SessionOf[c]] IN
  /\ Idle(c)
  /\ \/ /\ held = {}
        /\ AtOnce(c, "list", call[c].h, "ok")
     \/ \E h \in held :
          Become(c, [NewFrame("ask", "list", h, "none") EXCEPT
                       !.todo = held \ {h}, !.gone = Unknown(held)])
  /\ UNCHANGED <<schedulerVars, apps>>

\* scheduler.describe: it answers with what it knew or has just found out
Ask(c) ==
  LET a == AppOf(call[c].h) IN
  /\ At(c, "ask")
  /\ \/ /\ a \notin known
        /\ Become(c, [call[c] EXCEPT !.at = "told", !.res = "none"])
        /\ UNCHANGED schedulerVars
     \/ /\ a \in known
        /\ \/ IsTerminal(status[a]) /\ UNCHANGED schedulerVars
           \/ work[a] = "live" /\ Scheduler!Observe(a)
           \/ work[a] # "live" /\ Scheduler!Finish(a)
        /\ Become(c, [call[c] EXCEPT !.at = "told", !.res = status'[a]])
     \/ /\ Return(c, "raised")
        /\ UNCHANGED schedulerVars
  /\ UNCHANGED apps

MutantForgetting(c) ==                 \* drops what is over as well
  call[c].res = "none" \/ IsTerminal(call[c].res)

\* `if not desc': the handle goes from _apps
Forgetting(c) == call[c].res = "none"

MutantOver(c) == call[c].res # "PENDING"   \* waits for it to start

MutantOverTerminal(c) == IsTerminal(call[c].res)   \* waits for what is gone

\* no status, or a terminal one
Over(c) == call[c].res = "none" \/ IsTerminal(call[c].res)

MutantNextOfList(c) == Return(c, "ok")  \* asks about the first one only

NextOfList(c) ==
  \/ /\ call[c].todo = {}
     /\ Return(c, "ok")
  \/ \E h \in call[c].todo :
       Become(c, [call[c] EXCEPT !.at = "ask", !.h = h, !.todo = @ \ {h}])

\* what the call that wanted the status does with it
Told(c) ==
  /\ At(c, "told")
  /\ apps' = IF Forgetting(c)
               THEN [apps EXCEPT ![SessionOf[c]] = @ \ {call[c].h}]
               ELSE apps
  /\ \/ call[c].op = "status" /\ Return(c, call[c].res)
     \/ call[c].op = "wait" /\ Over(c) /\ Return(c, call[c].res)
     \/ call[c].op = "wait" /\ ~Over(c) /\ Apart(c, "ask")
     \/ call[c].op = "stop" /\ Over(c) /\ Return(c, "ok")
     \/ call[c].op = "stop" /\ ~Over(c) /\ Apart(c, "cancel")
     \/ call[c].op = "list" /\ NextOfList(c)
  /\ UNCHANGED schedulerVars

MutantCancelApp(c) ==                  \* does nothing if it is there
  /\ At(c, "cancel")
  /\ Return(c, IF AppOf(call[c].h) \in known THEN "ok" ELSE "raised")
  /\ UNCHANGED <<schedulerVars, apps>>

\* scheduler.cancel: does nothing if the application is not there
CancelApp(c) ==
  LET a == AppOf(call[c].h) IN
  /\ At(c, "cancel")
  /\ \/ a \notin known /\ Return(c, "ok") /\ UNCHANGED schedulerVars
     \/ Scheduler!Cancel(a) /\ Return(c, "ok")
     \/ Return(c, "raised") /\ UNCHANGED schedulerVars
  /\ UNCHANGED apps

\* Runner.describe: from _apps, or else from the scheduler
DescribeApp(c, h) ==
  /\ Idle(c)
  /\ status[AppOf(h)] # "UNSUBMITTED"
  /\ \E res \in {"AppDef", "none", "raised"} :
       /\ h \in apps[SessionOf[c]] => res = "AppDef"
       /\ h \notin apps[SessionOf[c]] =>
            /\ res = "AppDef" => AppOf(h) \in known
            /\ res = "none" => AppOf(h) \notin known
       /\ AtOnce(c, "describe", h, res)
  /\ UNCHANGED <<schedulerVars, apps>>

-----------------------------------------------------------------------------
Progress(c) ==
  \/ ScheduleApp(c)
  \/ Record(c)
  \/ Ask(c)
  \/ Told(c)
  \/ CancelApp(c)

Invoke(c) ==
  \/ \E a \in Apps : Run(c, a)
  \/ \E h \in Handles : Status(c, h) \/ Wait(c, h) \/ Stop(c, h) \/ DescribeApp(c, h)
  \/ List(c)

\* an application starts while it is being scheduled, and ends; what is over
\* may be forgotten
Work ==
  \/ \E c \in Callers : At(c, "schedule") /\ Scheduler!Start(AppOf(call[c].h))
  \/ \E a \in Apps : Scheduler!End(a)
  \/ \E a \in Apps : Scheduler!Forget(a)

RunnerNext ==
  \/ \E c \in Callers : Progress(c)
  \/ \E c \in Callers : Invoke(c)
  \/ Work /\ UNCHANGED <<apps, call>>

RunnerSpec == RunnerInit /\ [][RunnerNext]_runnerVars

\* A thread in a call keeps running; applications end only as they please.
RunnerFairSpec == RunnerSpec /\ \A c \in Callers : WF_runnerVars(Progress(c))

-----------------------------------------------------------------------------
(* Properties *)

\* Every variable of the sessions has its type.
RunnerTypeOK ==
  /\ Scheduler!TypeOK
  /\ apps \in [Sessions -> SUBSET Handles]
  /\ call \in [Callers -> Frame]

Returned(c, op) == Idle(c) /\ call[c].op = op /\ call[c].res # "raised"

\* A wait that returns tells that the application is over, by a terminal status
\* or by none if it was forgotten meanwhile, and nothing of it runs.
WaitTellsTheEnd ==
  \A c \in Callers :
    Returned(c, "wait") =>
      /\ call[c].res = "none" \/ IsTerminal(call[c].res)
      /\ work[AppOf(call[c].h)] # "live"

\* When stop returns nothing of the application runs: it was over when stop
\* asked, or ended or was forgotten before the cancel, or was cancelled.
StopStops ==
  \A c \in Callers :
    Returned(c, "stop") => work[AppOf(call[c].h)] # "live"

\* list does not show an application that the scheduler had forgotten when the
\* call began, though other threads run, stop and list meanwhile.
ListForgets ==
  \A c \in Callers :
    Returned(c, "list") => call[c].gone \cap apps[SessionOf[c]] = {}

\* An application that the scheduler knows is in the list of the session that
\* ran it, from the moment its run returns: no call drops it early.
KnownIsListed ==
  \A a \in known :
    \/ \E s \in Sessions : <<s, a>> \in apps[s]
    \/ \E c \in Callers : At(c, "record") /\ AppOf(call[c].h) = a

\* A wait for an application that is over returns.
WaitReturns ==
  \A c \in Callers :
    ~Idle(c) /\ call[c].op = "wait" /\ work[AppOf(call[c].h)] # "live" ~> Idle(c)
=============================================================================
