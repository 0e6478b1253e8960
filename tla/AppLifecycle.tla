---------------------------- MODULE AppLifecycle ----------------------------
(***************************************************************************)
(* What a scheduler promises about an application (class AppState of       *)
(* torchx/specs/api.py and class Scheduler of torchx/schedulers/api.py),   *)
(* whatever it runs applications on: no processes, no threads, no steps    *)
(* inside a call.  `work' is what the application really does, `status'    *)
(* what the scheduler says of it, `known' whether it still says anything.  *)
(***************************************************************************)
EXTENDS AppState

CONSTANT Apps

VARIABLES
  status,   \* the state that describe reports
  work,     \* the application itself
  known     \* the applications describe knows

lifecycleVars == <<status, work, known>>

Works == {"none", "live", "ok", "bad"}

Init ==
  /\ status = [a \in Apps |-> "UNSUBMITTED"]
  /\ work = [a \in Apps |-> "none"]
  /\ known = {}

\* a replica starts; until the application is submitted more may follow
Start(a) ==
  /\ status[a] = "UNSUBMITTED"
  /\ work' = [work EXCEPT ![a] = "live"]
  /\ UNCHANGED <<status, known>>

Submit(a) ==
  /\ status[a] = "UNSUBMITTED"
  /\ status' = [status EXCEPT ![a] = "PENDING"]
  /\ known' = known \cup {a}
  /\ UNCHANGED work

\* the application ends by itself or because it is told to
End(a) ==
  /\ work[a] = "live"
  /\ \E w \in {"ok", "bad"} : work' = [work EXCEPT ![a] = w]
  /\ UNCHANGED <<status, known>>

\* the scheduler learns that the application runs ...
Observe(a) ==
  /\ status[a] \in {"PENDING", "RUNNING"}
  /\ status' = [status EXCEPT ![a] = "RUNNING"]
  /\ UNCHANGED <<work, known>>

\* ... or that it has ended, and how
Finish(a) ==
  /\ status[a] \in {"PENDING", "RUNNING"}
  /\ \/ /\ work[a] \in {"none", "ok"}
        /\ status' = [status EXCEPT ![a] = "SUCCEEDED"]
     \/ /\ work[a] = "bad"
        /\ status' = [status EXCEPT ![a] = "FAILED"]
  /\ UNCHANGED <<work, known>>

\* a cancel takes effect, once nothing of the application runs
Cancel(a) ==
  /\ a \in known
  /\ work[a] # "live"
  /\ status' = [status EXCEPT ![a] = "CANCELLED"]
  /\ UNCHANGED <<work, known>>

\* the scheduler may forget what is over
Forget(a) ==
  /\ a \in known
  /\ IsTerminal(status[a])
  /\ known' = known \ {a}
  /\ UNCHANGED <<status, work>>

Next ==
  \E a \in Apps :
    \/ Start(a)
    \/ Submit(a)
    \/ End(a)
    \/ Observe(a)
    \/ Finish(a)
    \/ Cancel(a)
    \/ Forget(a)

Spec == Init /\ [][Next]_lifecycleVars

\* Every variable has its type.
TypeOK ==
  /\ status \in [Apps -> AppStates]
  /\ work \in [Apps -> Works]
  /\ known \subseteq Apps
=============================================================================
