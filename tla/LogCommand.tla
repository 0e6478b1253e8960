----------------------------- MODULE LogCommand -----------------------------
(***************************************************************************)
(* `torchx log' (get_logs of torchx/cli/cmd_log.py): the main thread       *)
(* checks the identifier, looks the application up, starts one thread per  *)
(* replica, joins them all and raises the first exception that any of them *)
(* queued.  Each thread calls log_lines, and status within it, of one      *)
(* Runner that they share, and every such call records an event through a  *)
(* logger that the first one sets up, in several steps and without a lock  *)
(* (torchx/runner/events/__init__.py).                                     *)
(***************************************************************************)
EXTENDS Integers, Sequences, SequencesExt

CONSTANT MaxThreads   \* most replicas that are asked for

ASSUME ThreadsAssumption == MaxThreads \in Nat

VARIABLES
  at,        \* what each thread does; 0 is the main thread
  logging,   \* how far it is in record(), "no" if it is not in it
  raised,    \* whether an exception is on its way out of a thread
  threads,   \* number of threads to start
  logger,    \* what has been set of the events logger
  recorded,  \* the events that were recorded of each thread: their apis
  failures,  \* exceptions, the queue that the threads share
  drained,   \* how many of them the main thread has taken out
  outcome    \* how the command ended

events == <<logging, logger, recorded>>
vars == <<at, raised, threads, events, failures, drained, outcome>>

Main == 0
Workers == 1 .. MaxThreads
Actors == {Main} \cup Workers

Become(a, label) == at' = [at EXCEPT ![a] = label]

MutantFirst == "plan"                  \* starts the threads at once
First == "validate"

Init ==
  /\ at = [a \in Actors |-> IF a = Main THEN First ELSE "asleep"]
  /\ logging = [a \in Actors |-> "no"]
  /\ raised = [a \in Actors |-> FALSE]
  /\ threads = 0
  /\ logger = {}
  /\ recorded = [a \in Actors |-> <<>>]
  /\ failures = <<>>
  /\ drained = 0
  /\ outcome = "none"

-----------------------------------------------------------------------------
(* Events *)

\* the api whose call a thread is in: what it does is named for it
Api(a) == at[a]

\* the statements of _get_or_create_logger, in order: _events_logger is
\* assigned, then gets its level, is told not to propagate, and gets a handler
SetUp == <<"assign", "level", "propagate", "handler">>

\* __exit__ of log_event, raised or not: record()
Record(a) ==
  /\ logging[a] = "no"
  /\ logging' = [logging EXCEPT ![a] = "check"]
  /\ UNCHANGED <<logger, recorded>>

\* `if _events_logger: return', or one of the statements
Configure(a) ==
  /\ \/ /\ logging[a] = "check"
        /\ logging' = [logging EXCEPT ![a] = IF "assign" \in logger THEN "info" ELSE "assign"]
        /\ UNCHANGED logger
     \/ \E i \in DOMAIN SetUp :
          /\ logging[a] = SetUp[i]
          /\ logger' = logger \cup {SetUp[i]}
          /\ logging' = [logging EXCEPT ![a] =
                           IF i = Len(SetUp) THEN "info" ELSE SetUp[i + 1]]
  /\ UNCHANGED <<at, raised, threads, recorded, failures, drained, outcome>>

\* info(): dropped unless the level and the handler are there
Info(a) ==
  /\ logging[a] = "info"
  /\ recorded' = IF {"level", "handler"} \subseteq logger
                   THEN [recorded EXCEPT ![a] = Append(@, Api(a))]
                   ELSE recorded
  /\ logging' = [logging EXCEPT ![a] = "no"]
  /\ UNCHANGED logger

-----------------------------------------------------------------------------
(* The main thread *)

\* validate(): an identifier of another form ends the command
Validate ==
  /\ at[Main] = "validate"
  /\ \/ /\ Become(Main, "describe")
        /\ UNCHANGED outcome
     \/ /\ Become(Main, "ended")
        /\ outcome' = "exit"
  /\ UNCHANGED <<raised, threads, events, failures, drained>>

\* runner.describe(app_handle), which raises or not
Describe ==
  /\ at[Main] = "describe"
  /\ raised' \in {raised, [raised EXCEPT ![Main] = TRUE]}
  /\ Record(Main)
  /\ UNCHANGED <<at, threads, failures, drained, outcome>>

\* an application that nobody knows is an AssertionError
Described ==
  /\ at[Main] = "describe"
  /\ Info(Main)
  /\ \/ /\ Become(Main, "ended")
        /\ outcome' = "raised"
     \/ /\ ~raised[Main]
        /\ Become(Main, "plan")
        /\ UNCHANGED outcome
  /\ UNCHANGED <<raised, threads, failures, drained>>

\* the replicas of the identifier, or with find_role_replicas all of its role;
\* or there is no such role
Plan ==
  /\ at[Main] = "plan"
  /\ \/ /\ threads' \in 0 .. MaxThreads
        /\ Become(Main, "start")
        /\ UNCHANGED outcome
     \/ /\ Become(Main, "ended")
        /\ outcome' = "exit"
        /\ UNCHANGED threads
  /\ UNCHANGED <<raised, events, failures, drained>>

MutantAsleep == {t \in Workers : at[t] = "asleep"}   \* whatever is asked for

Asleep == {t \in 1 .. threads : at[t] = "asleep"}

\* thread.start() of the next
Start ==
  /\ at[Main] = "start"
  /\ \/ \E t \in Asleep :
          /\ \A u \in Asleep : t <= u
          /\ Become(t, "status")
     \/ /\ Asleep = {}
        /\ Become(Main, "join")
  /\ UNCHANGED <<raised, threads, events, failures, drained, outcome>>

MutantJoined ==                        \* joins the last one only
  threads > 0 => at[threads] = "over"

Joined == \A t \in 1 .. threads : at[t] = "over"

\* thread.join() of each
Join ==
  /\ at[Main] = "join"
  /\ Joined
  /\ Become(Main, "drain")
  /\ UNCHANGED <<raised, threads, events, failures, drained, outcome>>

MutantDrained == drained = threads     \* one exception per thread

Drained == drained = Len(failures)

\* exceptions.get() until the queue is empty; the first one is raised
Drain ==
  /\ at[Main] = "drain"
  /\ \/ /\ drained < Len(failures)
        /\ drained' = drained + 1
        /\ UNCHANGED <<at, outcome>>
     \/ /\ Drained
        /\ Become(Main, "ended")
        /\ outcome' = IF drained = 0 THEN "ok" ELSE "raised"
        /\ UNCHANGED drained
  /\ UNCHANGED <<raised, threads, events, failures>>

-----------------------------------------------------------------------------
(* The thread of a replica: print_log_lines *)

\* the calls of the scheduler: describe within status, log_iter within
\* log_lines, which raises too if status has found nothing
CallScheduler(t) ==
  /\ at[t] \in {"status", "log_lines"}
  /\ raised' \in {raised, [raised EXCEPT ![t] = TRUE]}
  /\ Record(t)
  /\ UNCHANGED <<at, threads, failures, drained, outcome>>

\* an exception of status goes through log_lines, which records it as well
Called(t) ==
  /\ Info(t)
  /\ \/ /\ at[t] = "status"
        /\ Become(t, "log_lines")
     \/ /\ at[t] = "log_lines"
        /\ Become(t, IF raised[t] THEN "fail" ELSE "iterate")
  /\ UNCHANGED <<raised, threads, failures, drained, outcome>>

\* the iterator, whose event is recorded already, ends or raises
Iterate(t) ==
  /\ at[t] = "iterate"
  /\ Become(t, "over") \/ Become(t, "fail")
  /\ UNCHANGED <<raised, threads, events, failures, drained, outcome>>

\* exceptions.put(e)
Fail(t) ==
  /\ at[t] = "fail"
  /\ failures' = Append(failures, t)
  /\ Become(t, "over")
  /\ UNCHANGED <<raised, threads, events, drained, outcome>>

-----------------------------------------------------------------------------
MainStep ==
  \/ Validate
  \/ Describe
  \/ Described
  \/ Plan
  \/ Start
  \/ Join
  \/ Drain
  \/ Configure(Main)

\* what a thread does without waiting for the application
WorkerStep(t) ==
  \/ CallScheduler(t)
  \/ Called(t)
  \/ Fail(t)
  \/ Configure(t)

Next ==
  \/ MainStep
  \/ \E t \in Workers : WorkerStep(t) \/ Iterate(t)

Spec == Init /\ [][Next]_vars

\* Threads run; an iterator may wait for its application for ever.
FairSpec == Spec /\ WF_vars(MainStep) /\ \A t \in Workers : WF_vars(WorkerStep(t))

-----------------------------------------------------------------------------
(* Properties *)

\* Every variable has its type, and no thread starts that is not asked for.
TypeOK ==
  /\ at[Main] \in {"validate", "describe", "plan", "start", "join", "drain", "ended"}
  /\ \A t \in Workers :
       at[t] \in {"asleep", "status", "log_lines", "iterate", "fail", "over"}
  /\ logging \in [Actors -> {"no", "check", "info"} \cup ToSet(SetUp)]
  /\ raised \in [Actors -> BOOLEAN]
  /\ threads \in 0 .. MaxThreads
  /\ \A t \in Workers : t > threads => at[t] = "asleep"
  /\ logger \subseteq ToSet(SetUp)
  /\ recorded \in [Actors -> Seq({"describe", "status", "log_lines"})]
  /\ failures \in Seq(Workers)
  /\ drained \in 0 .. Len(failures)
  /\ outcome \in {"none", "ok", "raised", "exit"}

\* Every call that the threads make of the runner is recorded exactly once, by
\* the time it is over, that of status before that of the log_lines it is part
\* of; no thread finds the logger half set up.
EventsRecorded ==
  /\ at[Main] \notin {"validate", "describe", "ended"} => recorded[Main] = <<"describe">>
  /\ \A t \in Workers :
       recorded[t] =
         CASE at[t] \in {"asleep", "status"} -> <<>>
           [] at[t] = "log_lines"            -> <<"status">>
           [] OTHER                          -> <<"status", "log_lines">>

\* The command ends well only if no thread has failed or ever will, and if one
\* has it raises, with all exceptions taken from the queue.
FailuresReported ==
  at[Main] = "ended" /\ outcome # "exit" =>
    /\ \A t \in 1 .. threads : at[t] = "over"
    /\ outcome = "ok" => failures = <<>>
    /\ drained = Len(failures)

\* The command ends unless the iterator of a thread waits for ever.
CommandEnds ==
  <>(at[Main] = "ended") \/ \E t \in Workers : <>[](at[t] = "iterate")
=============================================================================
