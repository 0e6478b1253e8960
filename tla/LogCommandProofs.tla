-------------------------- MODULE LogCommandProofs --------------------------
(***************************************************************************)
(* Proofs about LogCommand, for any number of threads.  When the main      *)
(* thread drains the queue every thread it started is over, and only a     *)
(* thread that is not puts something there; so nothing is missed.          *)
(***************************************************************************)
EXTENDS LogCommand, SequenceTheorems, TLAPS

USE ThreadsAssumption

MainLabels == {"validate", "describe", "plan", "start", "join", "drain", "ended"}
WorkerLabels == {"asleep", "status", "log_lines", "iterate", "fail", "over"}

\* The types of what the queue depends on.
QueueTypes ==
  /\ at \in [Actors -> MainLabels \cup WorkerLabels]
  /\ at[Main] \in MainLabels
  /\ \A t \in Workers : at[t] \in WorkerLabels
  /\ threads \in 0 .. MaxThreads
  /\ failures \in Seq(Workers)
  /\ drained \in Nat

\* Where the threads are, by what the main thread does.
ThreadsFollow ==
  /\ at[Main] \in {"validate", "describe", "plan"} => threads = 0
  /\ \A t \in Workers : t > threads => at[t] = "asleep"
  /\ at[Main] = "drain" => \A t \in 1 .. threads : at[t] = "over"
  /\ at[Main] = "ended" => outcome = "exit" \/ \A t \in 1 .. threads : at[t] = "over"

\* What has been taken out of the queue.
QueueFollows ==
  /\ at[Main] \in {"validate", "describe", "plan"} => failures = <<>>
  /\ at[Main] \notin {"drain", "ended"} => drained = 0
  /\ drained <= Len(failures)
  /\ at[Main] = "ended" /\ outcome # "exit" => drained = Len(failures)
  /\ at[Main] = "ended" /\ outcome = "ok" => drained = 0

QueueInvariant == QueueTypes /\ ThreadsFollow /\ QueueFollows

LEMMA Numbers ==
  /\ Main \in Actors /\ Main \notin Workers
  /\ \A t \in Workers : t \in Actors /\ t \in Nat /\ t # Main
  /\ \A n \in 0 .. MaxThreads : 1 .. n \subseteq Workers
BY DEF Main, Actors, Workers

\* The invariant holds at the start.
LEMMA QueueStarts == Init => QueueInvariant
<1> SUFFICES ASSUME Init PROVE QueueInvariant
  OBVIOUS
<1>1. at \in [Actors -> MainLabels \cup WorkerLabels] /\ at[Main] = "validate"
      /\ \A t \in Workers : at[t] = "asleep"
  BY Numbers DEF Init, First, MainLabels, WorkerLabels
<1>2. QED
  BY <1>1 DEF Init, QueueInvariant, QueueTypes, ThreadsFollow, QueueFollows, MainLabels,
              WorkerLabels

\* A step that moves nothing of this keeps the invariant.
LEMMA QueueQuiet ==
  ASSUME QueueInvariant, UNCHANGED <<at, threads, failures, drained, outcome>>
  PROVE  QueueInvariant'
BY DEF QueueInvariant, QueueTypes, ThreadsFollow, QueueFollows

\* The steps of the main thread.
LEMMA QueueMain ==
  ASSUME QueueInvariant, Validate \/ Described \/ Plan \/ Start \/ Join \/ Drain
  PROVE  QueueInvariant'
<1> USE Numbers DEF QueueInvariant, QueueTypes, ThreadsFollow, QueueFollows, Become,
                    MainLabels, WorkerLabels
<1>0. CASE Validate
  <2>1. threads = 0 /\ failures = <<>> /\ drained = 0 /\ 1 .. 0 = {}
    BY <1>0 DEF Validate
  <2>2. QED
    BY <1>0, <2>1 DEF Validate
<1>1. CASE Described
  <2>1. threads = 0 /\ failures = <<>> /\ drained = 0 /\ 1 .. 0 = {}
    BY <1>1 DEF Described
  <2>2. QED
    BY <1>1, <2>1 DEF Described, Info
<1>2. CASE Plan
  BY <1>2 DEF Plan
<1>3. CASE Start
  BY <1>3 DEF Start, Asleep
<1>4. CASE Join
  BY <1>4 DEF Join, Joined
<1>5. CASE Drain
  BY <1>5 DEF Drain, Drained
<1>6. QED
  BY <1>0, <1>1, <1>2, <1>3, <1>4, <1>5

\* A thread that moves was started and is not over, and the main thread has not
\* come to the queue; so what it puts there will be taken out.
LEMMA QueueWorker ==
  ASSUME QueueInvariant, NEW t \in Workers, Called(t) \/ Iterate(t) \/ Fail(t)
  PROVE  QueueInvariant'
<1> USE Numbers DEF QueueInvariant, QueueTypes, ThreadsFollow, QueueFollows, MainLabels,
                    WorkerLabels
<1>1. at[t] \notin {"asleep", "over"}
  BY DEF Called, Iterate, Fail
<1>2. PICK label \in WorkerLabels \ {"asleep"} : at' = [at EXCEPT ![t] = label]
  BY DEF Called, Iterate, Fail, Become
<1>3. t \in 1 .. threads
  BY <1>1 DEF Workers
<1>4. at[Main] # "drain" /\ (at[Main] = "ended" => outcome = "exit")
  BY <1>1, <1>3
<1>5. failures' \in Seq(Workers) /\ Len(failures') >= Len(failures)
  <2>1. failures' = failures \/ failures' = Append(failures, t)
    BY DEF Called, Iterate, Fail
  <2>2. failures \in Seq(Workers) /\ Len(failures) \in Nat
    OBVIOUS
  <2>3. Append(failures, t) \in Seq(Workers) /\ Len(Append(failures, t)) = Len(failures) + 1
    BY <2>2, AppendProperties
  <2>4. CASE failures' = failures
    BY <2>2, <2>4
  <2>5. CASE failures' = Append(failures, t)
    <3>1. Len(failures') = Len(failures) + 1 /\ failures' \in Seq(Workers)
      BY <2>3, <2>5, Zenon
    <3>2. QED
      BY <2>2, <3>1
  <2>6. QED
    BY <2>1, <2>4, <2>5
<1>6. at[Main] \notin {"validate", "describe", "plan"}
  BY <1>3
<1>7. UNCHANGED <<threads, drained, outcome>>
  BY DEF Called, Iterate, Fail
<1>8. QED
  BY <1>2, <1>3, <1>4, <1>5, <1>6, <1>7

\* Every step keeps the invariant.
LEMMA QueueStep == QueueInvariant /\ [Next]_vars => QueueInvariant'
<1> SUFFICES ASSUME QueueInvariant, [Next]_vars PROVE QueueInvariant'
  OBVIOUS
<1>1. CASE UNCHANGED vars
  BY <1>1, QueueQuiet DEF vars
<1>2. CASE Describe
  BY <1>2, QueueQuiet DEF Describe
<1>3. CASE \E a \in Actors : Configure(a)
  BY <1>3, QueueQuiet DEF Configure
<1>4. CASE \E t \in Workers : CallScheduler(t)
  BY <1>4, QueueQuiet DEF CallScheduler
<1>5. QED
  BY <1>1, <1>2, <1>3, <1>4, QueueMain, QueueWorker, Numbers DEF Next, MainStep, WorkerStep

\* Whatever the threads do, the invariant holds.
THEOREM QueueInvariantHolds == Spec => []QueueInvariant
BY QueueStarts, QueueStep, PTL DEF Spec

\* The command ends well only if no thread has failed or ever will.
THEOREM FailuresReportedHolds == Spec => []FailuresReported
<1>1. QueueInvariant => FailuresReported
  BY DEF QueueInvariant, QueueTypes, ThreadsFollow, QueueFollows, FailuresReported
<1>2. QED
  BY <1>1, QueueInvariantHolds, PTL

-----------------------------------------------------------------------------
(* Events *)

Stages == {"assign", "level", "propagate", "handler"}
Calls == {"status", "log_lines"}

LEMMA Statements ==
  /\ DOMAIN SetUp = 1 .. 4 /\ Len(SetUp) = 4 /\ ToSet(SetUp) = Stages
  /\ SetUp[1] = "assign" /\ SetUp[2] = "level"
  /\ SetUp[3] = "propagate" /\ SetUp[4] = "handler"
BY DEF SetUp, ToSet, Stages

\* How far the logger is set up, by where the call of the main thread is.
SetUpBy(stage) ==
  CASE stage \in {"no", "check", "assign"} -> {}
    [] stage = "level"     -> {"assign"}
    [] stage = "propagate" -> {"assign", "level"}
    [] stage = "handler"   -> {"assign", "level", "propagate"}
    [] OTHER               -> Stages

\* The logger is set up by the call of the main thread alone, before any thread
\* is started; so that every other call finds all of it.
LoggerFollows ==
  /\ logging \in [Actors -> {"no", "check", "info"} \cup Stages]
  /\ logger \subseteq Stages
  /\ at[Main] \in {"validate", "describe"} => logger = SetUpBy(logging[Main])
  /\ at[Main] # "describe" => logging[Main] = "no"
  /\ at[Main] \in {"plan", "start", "join", "drain"} => logger = Stages
  /\ \A t \in Workers :
       /\ at[t] # "asleep" => logger = Stages
       /\ at[t] \notin Calls => logging[t] = "no"
       /\ logging[t] \in {"no", "check", "info"}

\* What is recorded of each thread, by what it does.
RecordFollows ==
  /\ recorded \in [Actors -> Seq({"describe", "status", "log_lines"})]
  /\ at[Main] \in {"validate", "describe"} => recorded[Main] = <<>>
  /\ at[Main] \in {"plan", "start", "join", "drain"} => recorded[Main] = <<"describe">>
  /\ \A t \in Workers :
       /\ at[t] \in {"asleep", "status"} => recorded[t] = <<>>
       /\ at[t] = "log_lines" => recorded[t] = <<"status">>
       /\ at[t] \in {"iterate", "fail", "over"} => recorded[t] = <<"status", "log_lines">>

EventInvariant == LoggerFollows /\ RecordFollows

\* The invariant holds at the start.
LEMMA EventStarts == Init => EventInvariant
<1> SUFFICES ASSUME Init PROVE EventInvariant
  OBVIOUS
<1>1. /\ at[Main] = "validate" /\ \A t \in Workers : at[t] = "asleep"
      /\ \A a \in Actors : logging[a] = "no" /\ recorded[a] = <<>>
  BY Numbers DEF Init, First
<1>2. LoggerFollows
  BY <1>1, Numbers DEF Init, LoggerFollows, SetUpBy, Calls
<1>3. recorded \in [Actors -> Seq({"describe", "status", "log_lines"})]
  BY DEF Init
<1>4. RecordFollows
  BY <1>1, <1>3, Numbers DEF RecordFollows
<1>5. QED
  BY <1>2, <1>4 DEF EventInvariant

\* The next statement of a call; only that of the main thread finds the logger
\* not set up.
LEMMA EventConfigure ==
  ASSUME QueueInvariant, EventInvariant, NEW a \in Actors, Configure(a)
  PROVE  EventInvariant'
<1>1. /\ UNCHANGED <<at, recorded>>
      /\ \/ /\ logging[a] = "check" /\ logger' = logger
            /\ logging' = [logging EXCEPT ![a] = IF "assign" \in logger THEN "info" ELSE "assign"]
         \/ \E i \in DOMAIN SetUp :
              /\ logging[a] = SetUp[i]
              /\ logger' = logger \cup {SetUp[i]}
              /\ logging' = [logging EXCEPT ![a] = IF i = Len(SetUp) THEN "info" ELSE SetUp[i + 1]]
  BY DEF Configure
<1>2. RecordFollows'
  BY <1>1 DEF EventInvariant, RecordFollows
<1>3. CASE a = Main
  <2>1. at[Main] = "describe" /\ \A t \in Workers : at[t] = "asleep"
    <3>1. at[Main] = "describe"
      BY <1>1, <1>3, Statements, Numbers DEF EventInvariant, LoggerFollows
    <3>2. threads = 0
      BY <3>1 DEF QueueInvariant, ThreadsFollow
    <3>3. QED
      BY <3>1, <3>2, Numbers DEF QueueInvariant, ThreadsFollow, Workers
  <2>2. logger = SetUpBy(logging[Main]) /\ Main \in Actors
    BY <2>1, Numbers DEF EventInvariant, LoggerFollows
  <2>3. logger' \subseteq Stages /\ logger' = SetUpBy(logging'[Main])
        /\ logging' \in [Actors -> {"no", "check", "info"} \cup Stages]
    BY <1>1, <1>3, <2>2, Statements DEF SetUpBy, Stages, EventInvariant, LoggerFollows
  <2>4. \A t \in Workers : logging'[t] = logging[t]
    BY <1>1, <1>3, Numbers DEF EventInvariant, LoggerFollows
  <2>5. LoggerFollows'
    BY <1>1, <2>1, <2>3, <2>4 DEF EventInvariant, LoggerFollows
  <2>6. QED
    BY <1>2, <2>5 DEF EventInvariant
<1>4. CASE a # Main
  <2>1. a \in Workers /\ a # Main /\ Main \in Actors
    BY <1>4, Numbers DEF Actors
  <2>2. logging[a] \in {"no", "check", "info"}
    BY <2>1 DEF EventInvariant, LoggerFollows
  <2>3. logging[a] = "check"
    BY <1>1, <2>2, Statements
  <2>4. at[a] \in Calls /\ logger = Stages
    BY <2>1, <2>3 DEF EventInvariant, LoggerFollows, Calls
  <2>5. logger' = logger /\ logging' = [logging EXCEPT ![a] = "info"]
    BY <1>1, <2>3, <2>4, Statements DEF Stages
  <2>6. LoggerFollows'
    BY <1>1, <2>1, <2>4, <2>5 DEF EventInvariant, LoggerFollows
  <2>7. QED
    BY <1>2, <2>6 DEF EventInvariant
<1>5. QED
  BY <1>3, <1>4

\* A call ends, is recorded, or begins to be.
LEMMA EventMain ==
  ASSUME QueueInvariant, EventInvariant,
         Validate \/ Describe \/ Described \/ Plan \/ Start \/ Join \/ Drain
  PROVE  EventInvariant'
<1> USE Numbers DEF EventInvariant, LoggerFollows, RecordFollows, Become, Calls,
                    QueueInvariant, QueueTypes
<1>1. CASE Validate
  BY <1>1 DEF Validate, events
<1>2. CASE Describe
  BY <1>2 DEF Describe, Record, SetUpBy
<1>3. CASE Described
  <2>1. at[Main] = "describe" /\ logging[Main] = "info" /\ logger' = logger
        /\ recorded[Main] = <<>>
    BY <1>3 DEF Described, Info
  <2>2. logger = Stages /\ {"level", "handler"} \subseteq logger
    BY <2>1 DEF SetUpBy, Stages
  <2>3. /\ recorded' = [recorded EXCEPT ![Main] = Append(@, "describe")]
        /\ logging' = [logging EXCEPT ![Main] = "no"]
    BY <1>3, <2>1, <2>2 DEF Described, Info, Api
  <2>4. recorded'[Main] = <<"describe">>
        /\ recorded' \in [Actors -> Seq({"describe", "status", "log_lines"})]
        /\ \A t \in Workers : recorded'[t] = recorded[t] /\ logging'[t] = logging[t]
    BY <2>1, <2>3
  <2>5. \/ at' = [at EXCEPT ![Main] = "ended"]
        \/ at' = [at EXCEPT ![Main] = "plan"]
    BY <1>3 DEF Described
  <2>6. QED
    BY <2>1, <2>2, <2>3, <2>4, <2>5
<1>4. CASE Plan
  BY <1>4 DEF Plan, events
<1>5. CASE Start
  BY <1>5 DEF Start, Asleep, events, ThreadsFollow
<1>6. CASE Join \/ Drain
  BY <1>6 DEF Join, Drain, events
<1>7. QED
  BY <1>1, <1>2, <1>3, <1>4, <1>5, <1>6

LEMMA CallsAppended ==
  /\ Append(<<>>, "status") = <<"status">>
  /\ Append(<<"status">>, "log_lines") = <<"status", "log_lines">>
<1>1. /\ <<>> \in Seq(Calls) /\ <<"status">> \in Seq(Calls)
      /\ "status" \in Calls /\ "log_lines" \in Calls
      /\ <<"status", "log_lines">> \in Seq(Calls)
  BY DEF Calls
<1>2. Append(<<>>, "status") = <<"status">>
  BY <1>1
<1>3. Append(<<"status">>, "log_lines") = <<"status", "log_lines">>
  <2> DEFINE both == Append(<<"status">>, "log_lines")
  <2>1. /\ both \in Seq(Calls) /\ Len(both) = 2
        /\ both[1] = "status" /\ both[2] = "log_lines"
    BY <1>1, AppendProperties
  <2> HIDE DEF both
  <2>2. both = <<"status", "log_lines">>
    BY <1>1, <2>1
  <2>3. QED
    BY <2>2 DEF both
<1>4. QED
  BY <1>2, <1>3

\* A call of a thread, which records it into a logger that is all set up.
LEMMA EventWorker ==
  ASSUME QueueInvariant, EventInvariant, NEW t \in Workers,
         CallScheduler(t) \/ Called(t) \/ Iterate(t) \/ Fail(t)
  PROVE  EventInvariant'
<1> USE Numbers DEF EventInvariant, LoggerFollows, RecordFollows, Become, Calls,
                    QueueInvariant, QueueTypes
<1>1. CASE CallScheduler(t)
  BY <1>1 DEF CallScheduler, Record
<1>2. CASE Called(t)
  <2>1. /\ at[t] \in Calls /\ logging[t] = "info" /\ logger' = logger /\ logger = Stages
        /\ t \in Actors /\ t # Main /\ Main \in Actors
    BY <1>2 DEF Called, Info
  <2>2. {"level", "handler"} \subseteq logger
    BY <2>1 DEF Stages
  <2>3. /\ recorded' = [recorded EXCEPT ![t] = Append(@, at[t])]
        /\ logging' = [logging EXCEPT ![t] = "no"]
    BY <1>2, <2>1, <2>2 DEF Called, Info, Api
  <2>4. recorded' \in [Actors -> Seq({"describe", "status", "log_lines"})]
    <3>1. recorded[t] \in Seq({"describe", "status", "log_lines"})
      BY <2>1
    <3>2. Append(recorded[t], at[t]) \in Seq({"describe", "status", "log_lines"})
      BY <2>1, <3>1
    <3>3. QED
      BY <2>3, <3>2
  <2>5. \A a \in Actors \ {t} : recorded'[a] = recorded[a] /\ logging'[a] = logging[a]
    BY <2>3
  <2>6. PICK label \in {"log_lines", "iterate", "fail"} :
          /\ at' = [at EXCEPT ![t] = label]
          /\ label = "log_lines" <=> at[t] = "status"
    BY <1>2 DEF Called
  <2>7. recorded'[t] = IF label = "log_lines" THEN <<"status">> ELSE <<"status", "log_lines">>
    <3>1. recorded'[t] = Append(recorded[t], at[t])
      BY <2>1, <2>3
    <3>2. recorded[t] = IF at[t] = "status" THEN <<>> ELSE <<"status">>
      BY <2>1
    <3>3. QED
      BY <2>1, <2>6, <3>1, <3>2, CallsAppended
  <2>8. /\ at'[t] = label /\ at'[Main] = at[Main] /\ recorded'[Main] = recorded[Main]
        /\ \A u \in Workers \ {t} : at'[u] = at[u] /\ recorded'[u] = recorded[u]
    BY <2>1, <2>5, <2>6, Numbers
  <2>9. RecordFollows'
    BY <2>4, <2>6, <2>7, <2>8
  <2>10. LoggerFollows'
    BY <2>1, <2>3, <2>6, <2>8
  <2>11. QED
    BY <2>9, <2>10
<1>3. CASE Iterate(t)
  BY <1>3 DEF Iterate, events
<1>4. CASE Fail(t)
  BY <1>4 DEF Fail, events
<1>5. QED
  BY <1>1, <1>2, <1>3, <1>4

\* Every step keeps the invariant.
LEMMA EventStep == QueueInvariant /\ EventInvariant /\ [Next]_vars => EventInvariant'
<1> SUFFICES ASSUME QueueInvariant, EventInvariant, [Next]_vars PROVE EventInvariant'
  OBVIOUS
<1>1. CASE UNCHANGED vars
  BY <1>1 DEF vars, events, EventInvariant, LoggerFollows, RecordFollows
<1>2. QED
  BY <1>1, EventMain, EventWorker, EventConfigure, Numbers DEF Next, MainStep, WorkerStep

\* Whatever the threads do, the invariant holds.
THEOREM EventInvariantHolds == Spec => []EventInvariant
BY EventStarts, EventStep, QueueInvariantHolds, PTL DEF Spec

\* Every call is recorded exactly once, whatever the threads do.
THEOREM EventsRecordedHolds == Spec => []EventsRecorded
<1>1. QueueInvariant /\ EventInvariant => EventsRecorded
  BY DEF QueueInvariant, QueueTypes, EventInvariant, RecordFollows, EventsRecorded, MainLabels,
         WorkerLabels
<1>2. QED
  BY <1>1, QueueInvariantHolds, EventInvariantHolds, PTL

-----------------------------------------------------------------------------
(* Types *)

\* What is left of the types.
OtherTypes ==
  /\ raised \in [Actors -> BOOLEAN]
  /\ outcome \in {"none", "ok", "raised", "exit"}

\* Every step keeps them.
LEMMA OtherTypesKept ==
  OtherTypes /\ QueueInvariant /\ [Next]_vars => OtherTypes'
<1> SUFFICES ASSUME OtherTypes, QueueInvariant, [Next]_vars PROVE OtherTypes'
  OBVIOUS
<1> USE Numbers DEF OtherTypes, WorkerLabels, Become, QueueInvariant, QueueTypes
<1>1. CASE UNCHANGED vars
  BY <1>1 DEF vars
<1>2. CASE MainStep
  <2>1. CASE Validate \/ Describe \/ Described \/ Plan
    BY <2>1 DEF Validate, Describe, Described, Plan
  <2>2. CASE Start \/ Join \/ Drain \/ Configure(Main)
    BY <2>2 DEF Start, Join, Drain, Configure, Asleep
  <2>3. QED
    BY <1>2, <2>1, <2>2 DEF MainStep
<1>3. ASSUME NEW t \in Workers, WorkerStep(t) \/ Iterate(t) PROVE OtherTypes'
  BY <1>3 DEF WorkerStep, CallScheduler, Called, Iterate, Fail, Configure
<1>4. QED
  BY <1>1, <1>2, <1>3 DEF Next

\* Every variable keeps its type.
THEOREM LogCommandTypeCorrect == Spec => []TypeOK
<1>1. Init => OtherTypes
  BY Numbers DEF Init, OtherTypes, WorkerLabels
<1>2. OtherTypes /\ QueueInvariant /\ EventInvariant => TypeOK
  BY Statements
     DEF OtherTypes, WorkerLabels, QueueInvariant, QueueTypes, ThreadsFollow, QueueFollows,
         EventInvariant, LoggerFollows, RecordFollows, MainLabels, TypeOK, Stages
<1>3. QED
  BY <1>1, <1>2, OtherTypesKept, QueueInvariantHolds, EventInvariantHolds, PTL DEF Spec
=============================================================================
