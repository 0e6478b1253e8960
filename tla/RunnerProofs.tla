---------------------------- MODULE RunnerProofs ----------------------------
(***************************************************************************)
(* Proofs about Runner, for any sets of applications, sessions and         *)
(* threads.  The invariant rests on two facts that no step of any thread   *)
(* takes back: an application that was submitted and does not run will     *)
(* never run again, and one that the scheduler has forgotten it will never *)
(* know again.  What a thread learns by asking is one of them.             *)
(***************************************************************************)
EXTENDS Runner, TLAPS

USE SessionAssumption

Submitted(a) == status[a] # "UNSUBMITTED"

\* it will not run again
Done(a) == Submitted(a) /\ work[a] # "live"

\* it will not be known again
Forgotten(a) == Submitted(a) /\ a \notin known

\* An application, as the scheduler has it.
AppTrue(a) ==
  /\ IsTerminal(status[a]) => work[a] # "live"
  /\ Forgotten(a) => Done(a)
  /\ a \in known => Submitted(a)

\* the points of a call that knows its handle
Known == {"record", "ask", "told", "cancel"}

\* What the frame f of a thread that calls session s has learnt.
FrameTrue(f, s) ==
  /\ f.at \in Known => Submitted(AppOf(f.h))
  /\ f.at \in {"schedule", "record"} => f.op = "run" /\ f.h = <<s, AppOf(f.h)>>
  /\ f.at = "cancel" => f.op = "stop"
  /\ f.at = "told" /\ IsTerminal(f.res) => Done(AppOf(f.h))
  /\ f.at = "told" /\ f.res = "none" => Forgotten(AppOf(f.h))
  /\ f.at = "idle" /\ f.op \in {"wait", "stop"} /\ f.res # "raised" => Done(AppOf(f.h))
  /\ f.at = "idle" /\ f.op = "wait" /\ f.res # "raised" =>
       f.res = "none" \/ IsTerminal(f.res)
  /\ \A h \in f.todo : Submitted(AppOf(h))

Listed(a) ==
  \/ \E s \in Sessions : <<s, a>> \in apps[s]
  \/ \E c \in Callers : At(c, "record") /\ AppOf(call[c].h) = a

RunnerInvariant ==
  /\ RunnerTypeOK
  /\ \A a \in Apps : AppTrue(a)
  /\ \A c \in Callers : FrameTrue(call[c], SessionOf[c])
  /\ \A s \in Sessions : \A h \in apps[s] : Submitted(AppOf(h))
  /\ \A a \in known : Listed(a)

-----------------------------------------------------------------------------
(* Types *)

\* What every step of a thread does to its frame keeps it a frame.
LEMMA BecomeFrame ==
  ASSUME RunnerTypeOK, NEW c \in Callers, NEW f \in Frame, Become(c, f)
  PROVE  call' \in [Callers -> Frame]
BY DEF RunnerTypeOK, Become

\* The types of the fields of a frame.
LEMMA FrameFacts ==
  ASSUME RunnerTypeOK, NEW c \in Callers
  PROVE  /\ call[c] \in Frame
         /\ call[c].h \in Handles
         /\ AppOf(call[c].h) \in Apps
         /\ call[c].todo \subseteq Handles
         /\ call[c].gone \subseteq Handles
         /\ call[c].res \in AppStates \cup {"none", "ok", "AppDef", "raised"}
         /\ SessionOf[c] \in Sessions
BY DEF RunnerTypeOK, Frame, Handles, AppOf

\* A return keeps frames frames.
LEMMA ReturnFrame ==
  ASSUME RunnerTypeOK, NEW c \in Callers,
         NEW res \in AppStates \cup {"none", "ok", "AppDef", "raised"}, Return(c, res)
  PROVE  call' \in [Callers -> Frame]
BY FrameFacts, BecomeFrame DEF Return, Frame

\* A new frame is a frame.
LEMMA NewFrameType ==
  ASSUME NEW label \in {"idle", "schedule", "record", "ask", "told", "cancel"},
         NEW op \in {"none", "run", "status", "wait", "list", "stop", "describe"},
         NEW h \in Handles,
         NEW res \in AppStates \cup {"none", "ok", "AppDef", "raised"}
  PROVE  NewFrame(label, op, h, res) \in Frame
BY DEF NewFrame, Frame

-----------------------------------------------------------------------------
(* What no step takes back *)

\* what is known of the application stays so
Kept(a) ==
  /\ Submitted(a) => Submitted(a)'
  /\ Done(a) => Done(a)'
  /\ Forgotten(a) => Forgotten(a)'

SchedulerStep ==
  \/ UNCHANGED schedulerVars
  \/ \E a \in Apps :
       \/ Scheduler!Start(a)
       \/ Scheduler!Submit(a)
       \/ Scheduler!End(a)
       \/ Scheduler!Observe(a)
       \/ Scheduler!Finish(a)
       \/ Scheduler!Cancel(a)
       \/ Scheduler!Forget(a)

\* Whatever the scheduler does keeps its types and what is true of an
\* application, and takes back none of the two facts.
LEMMA SchedulerKeeps ==
  ASSUME RunnerTypeOK, SchedulerStep, \A a \in Apps : AppTrue(a)
  PROVE  /\ Scheduler!TypeOK'
         /\ \A a \in Apps : AppTrue(a)'
         /\ \A a \in Apps : Kept(a)
<1> USE DEF RunnerTypeOK, Scheduler!TypeOK, AppTrue, Kept, Submitted, Done, Forgotten
<1>1. CASE UNCHANGED schedulerVars
  BY <1>1 DEF schedulerVars
<1>2. ASSUME NEW a \in Apps, Scheduler!Start(a)
      PROVE  /\ Scheduler!TypeOK'
             /\ \A b \in Apps : AppTrue(b)'
             /\ \A b \in Apps : Kept(b)
  BY <1>2 DEF Scheduler!Start, Scheduler!Works, IsTerminal, TerminalStates
<1>3. ASSUME NEW a \in Apps, Scheduler!Submit(a)
      PROVE  /\ Scheduler!TypeOK'
             /\ \A b \in Apps : AppTrue(b)'
             /\ \A b \in Apps : Kept(b)
  BY <1>3 DEF Scheduler!Submit, AppStates, Scheduler!AppStates, IsTerminal, Scheduler!IsTerminal, TerminalStates,
         Scheduler!TerminalStates
<1>4. ASSUME NEW a \in Apps, Scheduler!End(a)
      PROVE  /\ Scheduler!TypeOK'
             /\ \A b \in Apps : AppTrue(b)'
             /\ \A b \in Apps : Kept(b)
  BY <1>4 DEF Scheduler!End, Scheduler!Works
<1>5. ASSUME NEW a \in Apps, Scheduler!Observe(a) \/ Scheduler!Finish(a)
      PROVE  /\ Scheduler!TypeOK'
             /\ \A b \in Apps : AppTrue(b)'
             /\ \A b \in Apps : Kept(b)
  BY <1>5 DEF Scheduler!Observe, Scheduler!Finish, AppStates, Scheduler!AppStates, IsTerminal, Scheduler!IsTerminal, TerminalStates,
         Scheduler!TerminalStates
<1>6. ASSUME NEW a \in Apps, Scheduler!Cancel(a) \/ Scheduler!Forget(a)
      PROVE  /\ Scheduler!TypeOK'
             /\ \A b \in Apps : AppTrue(b)'
             /\ \A b \in Apps : Kept(b)
  BY <1>6 DEF Scheduler!Cancel, Scheduler!Forget, AppStates, Scheduler!AppStates, IsTerminal, Scheduler!IsTerminal, TerminalStates,
         Scheduler!TerminalStates
<1>7. QED
  BY <1>1, <1>2, <1>3, <1>4, <1>5, <1>6 DEF SchedulerStep

\* What the frame of a thread has learnt stays true while others take steps.
LEMMA FrameStays ==
  ASSUME RunnerTypeOK, NEW c \in Callers, FrameTrue(call[c], SessionOf[c]),
         call'[c] = call[c],
         \A a \in Apps : Kept(a)
  PROVE  FrameTrue(call[c], SessionOf[c])'
<1>1. AppOf(call[c].h) \in Apps /\ \A h \in call[c].todo : AppOf(h) \in Apps
  BY FrameFacts DEF AppOf, Handles
<1>2. QED
  BY <1>1 DEF FrameTrue, Kept

\* A step of thread c keeps the invariant if it is one of the scheduler and
\* leaves a true frame and true lists.
LEMMA StepKeeps ==
  ASSUME RunnerInvariant, SchedulerStep, NEW c \in Callers,
         call' \in [Callers -> Frame],
         \A d \in Callers \ {c} : call'[d] = call[d],
         FrameTrue(call[c], SessionOf[c])',
         apps' \in [Sessions -> SUBSET Handles],
         \A s \in Sessions : \A h \in apps'[s] : Submitted(AppOf(h))',
         \A a \in known' : Listed(a)'
  PROVE  RunnerInvariant'
<1>1. \A d \in Callers : FrameTrue(call[d], SessionOf[d])'
  BY SchedulerKeeps, FrameStays DEF RunnerInvariant
<1>2. QED
  BY <1>1, SchedulerKeeps DEF RunnerInvariant, RunnerTypeOK

\* The same for a step that changes neither the scheduler nor the lists, nor
\* takes a call out of run.
LEMMA CallStepKeeps ==
  ASSUME RunnerInvariant, UNCHANGED <<schedulerVars, apps>>, NEW c \in Callers,
         NEW f \in Frame, Become(c, f), FrameTrue(f, SessionOf[c]), ~At(c, "record")
  PROVE  RunnerInvariant'
<1>1. call' \in [Callers -> Frame] /\ \A d \in Callers \ {c} : call'[d] = call[d]
  BY BecomeFrame DEF RunnerInvariant, RunnerTypeOK, Become
<1>2. call'[c] = f
  BY DEF RunnerInvariant, RunnerTypeOK, Become
<1>3. FrameTrue(call[c], SessionOf[c])'
  BY <1>2 DEF FrameTrue, Submitted, Done, Forgotten, schedulerVars
<1>4. \A a \in known' : Listed(a)'
  BY <1>1 DEF RunnerInvariant, Listed, At, schedulerVars
<1>5. \A s \in Sessions : \A h \in apps'[s] : Submitted(AppOf(h))'
  BY DEF RunnerInvariant, Submitted, schedulerVars
<1>6. apps' \in [Sessions -> SUBSET Handles]
  BY DEF RunnerInvariant, RunnerTypeOK
<1>7. SchedulerStep
  BY DEF SchedulerStep
<1>8. QED
  BY <1>1, <1>3, <1>4, <1>5, <1>6, <1>7, StepKeeps

\* An application stays listed while the lists stay and a call that is not a
\* run takes a step.
LEMMA ListedStays ==
  ASSUME RunnerInvariant, NEW c \in Callers, ~At(c, "record"), UNCHANGED apps,
         \A d \in Callers \ {c} : call'[d] = call[d],
         NEW a \in known
  PROVE  Listed(a)'
BY DEF RunnerInvariant, Listed, At

-----------------------------------------------------------------------------
(* The steps *)

\* The invariant holds at the start.
LEMMA RunnerStarts == RunnerInit => RunnerInvariant
<1> SUFFICES ASSUME RunnerInit PROVE RunnerInvariant
  OBVIOUS
<1>1. PICK h \in Handles : call = [c \in Callers |-> NewFrame("idle", "none", h, "none")]
  BY DEF RunnerInit
<1>2. NewFrame("idle", "none", h, "none") \in Frame
  BY NewFrameType
<1>3. Scheduler!TypeOK
  BY DEF RunnerInit, Scheduler!Init, Scheduler!TypeOK, Scheduler!Works, Scheduler!AppStates
<1>4. RunnerTypeOK
  BY <1>1, <1>2, <1>3 DEF RunnerTypeOK, RunnerInit
<1>5. \A a \in Apps : AppTrue(a)
  BY DEF RunnerInit, Scheduler!Init, AppTrue, Forgotten, Submitted, IsTerminal,
         TerminalStates
<1>6. \A c \in Callers : FrameTrue(call[c], SessionOf[c])
  BY <1>1 DEF FrameTrue, NewFrame, Known
<1>7. QED
  BY <1>4, <1>5, <1>6 DEF RunnerInvariant, RunnerInit, Scheduler!Init

\* A call of run begins, or is refused.
LEMMA RunKeeps ==
  ASSUME RunnerInvariant, NEW c \in Callers, NEW a \in Apps, Run(c, a)
  PROVE  RunnerInvariant'
<1> DEFINE h == <<SessionOf[c], a>>
<1>1. h \in Handles /\ AppOf(h) = a
  BY FrameFacts DEF RunnerInvariant, Handles, AppOf
<1>2. ~At(c, "record")
  BY DEF Run, Idle, At
<1>3. CASE Enter(c, "run", h, "schedule")
  <2>1. NewFrame("schedule", "run", h, "none") \in Frame
    BY <1>1, NewFrameType
  <2>2. FrameTrue(NewFrame("schedule", "run", h, "none"), SessionOf[c])
    BY <1>1 DEF FrameTrue, NewFrame, Known
  <2>3. QED
    BY <1>2, <1>3, <2>1, <2>2, CallStepKeeps DEF Enter, Run
<1>4. CASE AtOnce(c, "run", h, "raised")
  <2>1. NewFrame("idle", "run", h, "raised") \in Frame
    BY <1>1, NewFrameType
  <2>2. FrameTrue(NewFrame("idle", "run", h, "raised"), SessionOf[c])
    BY DEF FrameTrue, NewFrame, Known
  <2>3. QED
    BY <1>2, <1>4, <2>1, <2>2, CallStepKeeps DEF AtOnce, Run
<1>5. QED
  BY <1>3, <1>4 DEF Run

\* The scheduler takes the application, which run has yet to record.
LEMMA ScheduleAppKeeps ==
  ASSUME RunnerInvariant, NEW c \in Callers, ScheduleApp(c)
  PROVE  RunnerInvariant'
<1>0. PICK a \in Apps : a = AppOf(call[c].h)
  BY FrameFacts DEF RunnerInvariant
<1>1. call[c] \in Frame /\ ~At(c, "record") /\ call[c].at = "schedule"
  BY FrameFacts DEF RunnerInvariant, ScheduleApp, At
<1>2. FrameTrue(call[c], SessionOf[c])
  BY DEF RunnerInvariant
<1>3. CASE Scheduler!Submit(a) /\ Apart(c, "record")
  <2> DEFINE f == [call[c] EXCEPT !.at = "record"]
  <2>1. f \in Frame
    BY <1>1 DEF Frame
  <2>2. call' \in [Callers -> Frame] /\ call'[c] = f /\ \A d \in Callers \ {c} : call'[d] = call[d]
    BY <1>3, <2>1, BecomeFrame DEF RunnerInvariant, RunnerTypeOK, Apart, Become
  <2>3. SchedulerStep
    BY <1>3 DEF SchedulerStep
  <2>3a. Submitted(a)'
    <3>1. status' = [status EXCEPT ![a] = "PENDING"]
      BY <1>3 DEF Scheduler!Submit
    <3>2. status \in [Apps -> AppStates]
      BY DEF RunnerInvariant, RunnerTypeOK, Scheduler!TypeOK, Scheduler!AppStates, AppStates
    <3>3. status'[a] = "PENDING"
      BY <3>1, <3>2
    <3>4. QED
      BY <3>3 DEF Submitted
  <2>4. Submitted(a)' /\ \A b \in Apps : Submitted(b) => Submitted(b)'
    BY <2>3, <2>3a, SchedulerKeeps DEF RunnerInvariant, Kept
  <2>5. f.at = "record" /\ f.h = call[c].h /\ f.todo = call[c].todo
    BY <1>1 DEF Frame
  <2>6. \A h \in call[c].todo : AppOf(h) \in Apps
    BY FrameFacts DEF RunnerInvariant, Handles, AppOf
  <2>7. FrameTrue(call[c], SessionOf[c])'
    BY <1>0, <1>1, <1>2, <2>2, <2>4, <2>5, <2>6 DEF FrameTrue
  <2>8. \A b \in known' : Listed(b)'
    <3>1. known' = known \cup {a}
      BY <1>3 DEF Scheduler!Submit
    <3>2. Listed(a)'
      BY <1>0, <2>2, <2>5 DEF Listed, At
    <3>3. QED
      BY <1>1, <2>2, <3>1, <3>2, ListedStays DEF ScheduleApp
  <2>9. \A s \in Sessions : \A h \in apps'[s] : Submitted(AppOf(h))'
    BY <2>4 DEF ScheduleApp, RunnerInvariant, RunnerTypeOK, Handles, AppOf
  <2>10. apps' \in [Sessions -> SUBSET Handles]
    BY DEF ScheduleApp, RunnerInvariant, RunnerTypeOK
  <2>11. QED
    BY <2>2, <2>3, <2>7, <2>8, <2>9, <2>10, StepKeeps
<1>4. CASE Return(c, "raised") /\ UNCHANGED schedulerVars
  <2> DEFINE f == [call[c] EXCEPT !.at = "idle", !.todo = {}, !.res = "raised"]
  <2>1. f \in Frame /\ FrameTrue(f, SessionOf[c])
    BY <1>1 DEF Frame, FrameTrue, Known
  <2>2. QED
    BY <1>1, <1>4, <2>1, CallStepKeeps DEF Return, ScheduleApp
<1>5. QED
  BY <1>0, <1>3, <1>4 DEF ScheduleApp

\* A run that is recorded lists its application.
LEMMA RecordKeeps ==
  ASSUME RunnerInvariant, NEW c \in Callers, Record(c)
  PROVE  RunnerInvariant'
<1>0. PICK h \in Handles, s \in Sessions : h = call[c].h /\ s = SessionOf[c]
  BY FrameFacts DEF RunnerInvariant
<1> DEFINE f == [call[c] EXCEPT !.at = "idle", !.todo = {}, !.res = "ok"]
<1>1. call[c] \in Frame /\ call[c].at = "record"
  BY FrameFacts DEF RunnerInvariant, Record, At
<1>2. Submitted(AppOf(h)) /\ h = <<s, AppOf(h)>>
  BY <1>0, <1>1 DEF RunnerInvariant, FrameTrue, Known
<1>3. f \in Frame /\ FrameTrue(f, s)
  <2>1. f \in Frame
    BY <1>1 DEF Frame
  <2>2. f.at = "idle" /\ f.todo = {} /\ f.res = "ok" /\ f.op = call[c].op
    BY <1>1 DEF Frame
  <2>3. call[c].op \notin {"wait", "stop"}
    BY <1>1 DEF RunnerInvariant, FrameTrue
  <2>4. QED
    BY <2>1, <2>2, <2>3 DEF FrameTrue, Known
<1>4. call' \in [Callers -> Frame] /\ call'[c] = f /\ \A d \in Callers \ {c} : call'[d] = call[d]
  BY <1>3, BecomeFrame DEF RunnerInvariant, RunnerTypeOK, Record, Return, Become
<1>5. FrameTrue(call[c], s)'
  BY <1>3, <1>4 DEF FrameTrue, Record, schedulerVars, Submitted, Done, Forgotten
<1>6. apps' = [apps EXCEPT ![s] = @ \cup {h}] /\ apps \in [Sessions -> SUBSET Handles]
  BY <1>0 DEF Record, RunnerInvariant, RunnerTypeOK
<1>7. apps' \in [Sessions -> SUBSET Handles]
  BY <1>6
<1>8. \A t \in Sessions : \A g \in apps'[t] : Submitted(AppOf(g))'
  BY <1>1, <1>2, <1>6 DEF RunnerInvariant, Submitted, Record, schedulerVars
<1>9. \A a \in known' : Listed(a)'
  <2> SUFFICES ASSUME NEW a \in known PROVE Listed(a)'
    BY DEF Record, schedulerVars
  <2>1. CASE \E t \in Sessions : <<t, a>> \in apps[t]
    BY <1>6, <2>1 DEF Listed
  <2>2. CASE \E d \in Callers \ {c} : At(d, "record") /\ AppOf(call[d].h) = a
    BY <1>4, <2>2 DEF Listed, At
  <2>3. CASE AppOf(call[c].h) = a
    BY <1>0, <1>1, <1>2, <1>6, <2>3 DEF Listed
  <2>4. QED
    BY <2>1, <2>2, <2>3 DEF RunnerInvariant, Listed
<1>10. SchedulerStep
  BY DEF SchedulerStep, Record
<1>11. QED
  BY <1>0, <1>4, <1>5, <1>7, <1>8, <1>9, <1>10, StepKeeps

\* A status, wait or stop begins, with a handle that a run returned.
LEMMA AskAboutKeeps ==
  ASSUME RunnerInvariant, NEW c \in Callers, NEW op \in {"status", "wait", "stop"},
         NEW h \in Handles, AskAbout(c, op, h)
  PROVE  RunnerInvariant'
<1> DEFINE f == NewFrame("ask", op, h, "none")
<1>1. f \in Frame
  BY NewFrameType
<1>2. FrameTrue(f, SessionOf[c])
  BY DEF FrameTrue, NewFrame, AskAbout, Submitted
<1>3. ~At(c, "record")
  BY DEF AskAbout, Idle, At
<1>4. QED
  BY <1>1, <1>2, <1>3, CallStepKeeps DEF AskAbout, Enter

\* A list begins, or is over because the session holds nothing.
LEMMA ListKeeps ==
  ASSUME RunnerInvariant, NEW c \in Callers, List(c)
  PROVE  RunnerInvariant'
<1> DEFINE held == apps[SessionOf[c]]
<1>1. ~At(c, "record")
  BY DEF List, Idle, At
<1>2. held \subseteq Handles /\ \A h \in held : Submitted(AppOf(h))
  BY FrameFacts DEF RunnerInvariant, RunnerTypeOK
<1>3. CASE AtOnce(c, "list", call[c].h, "ok")
  <2>1. NewFrame("idle", "list", call[c].h, "ok") \in Frame
    BY FrameFacts, NewFrameType DEF RunnerInvariant
  <2>2. FrameTrue(NewFrame("idle", "list", call[c].h, "ok"), SessionOf[c])
    BY DEF FrameTrue, NewFrame, Known
  <2>3. QED
    BY <1>1, <1>3, <2>1, <2>2, CallStepKeeps DEF AtOnce, List
<1>4. ASSUME NEW h \in held,
             Become(c, [NewFrame("ask", "list", h, "none") EXCEPT
                          !.todo = held \ {h}, !.gone = Unknown(held)])
      PROVE  RunnerInvariant'
  <2> DEFINE f == [NewFrame("ask", "list", h, "none") EXCEPT
                     !.todo = held \ {h}, !.gone = Unknown(held)]
  <2>1. f \in Frame
    BY <1>2 DEF Frame, NewFrame, Unknown
  <2>2. FrameTrue(f, SessionOf[c])
    BY <1>2 DEF FrameTrue, NewFrame, IsTerminal, TerminalStates
  <2>3. QED
    BY <1>1, <1>4, <2>1, <2>2, CallStepKeeps DEF List
<1>5. QED
  BY <1>3, <1>4 DEF List

\* What the scheduler answers is true, and a call that is told that the
\* application is over or forgotten may rely on it.
LEMMA AskKeeps ==
  ASSUME RunnerInvariant, NEW c \in Callers, Ask(c)
  PROVE  RunnerInvariant'
<1>0. PICK a \in Apps : a = AppOf(call[c].h)
  BY FrameFacts DEF RunnerInvariant
<1>1. call[c] \in Frame /\ ~At(c, "record") /\ call[c].at = "ask"
  BY FrameFacts DEF RunnerInvariant, Ask, At
<1>2. FrameTrue(call[c], SessionOf[c]) /\ Submitted(a) /\ AppTrue(a)
  BY <1>0, <1>1 DEF RunnerInvariant, FrameTrue, Known
<1>3. CASE /\ a \notin known
           /\ Become(c, [call[c] EXCEPT !.at = "told", !.res = "none"])
           /\ UNCHANGED schedulerVars
  <2> DEFINE f == [call[c] EXCEPT !.at = "told", !.res = "none"]
  <2>1. f \in Frame
    BY <1>1 DEF Frame
  <2>2. FrameTrue(f, SessionOf[c])
    BY <1>0, <1>1, <1>2, <1>3 DEF FrameTrue, Frame, Forgotten, IsTerminal, TerminalStates
  <2>3. QED
    BY <1>1, <1>3, <2>1, <2>2, CallStepKeeps DEF Ask
<1>4. ASSUME a \in known,
             \/ IsTerminal(status[a]) /\ UNCHANGED schedulerVars
             \/ work[a] = "live" /\ Scheduler!Observe(a)
             \/ work[a] # "live" /\ Scheduler!Finish(a),
             Become(c, [call[c] EXCEPT !.at = "told", !.res = status'[a]])
      PROVE  RunnerInvariant'
  <2>1. SchedulerStep
    BY <1>4 DEF SchedulerStep
  <2>2. /\ RunnerTypeOK
        /\ \A b \in Apps : AppTrue(b)
        /\ \A b \in Apps : AppTrue(b)' /\ Kept(b)
        /\ Scheduler!TypeOK'
    BY <2>1, SchedulerKeeps DEF RunnerInvariant
  <2>3. PICK t \in AppStates : t = status'[a]
    BY <2>2 DEF Scheduler!TypeOK, Scheduler!AppStates, AppStates
  <2> DEFINE f == [call[c] EXCEPT !.at = "told", !.res = t]
  <2>4. /\ f \in Frame /\ f.at = "told" /\ f.res = t
        /\ f.h = call[c].h /\ f.todo = call[c].todo
    BY <1>1 DEF Frame
  <2>5. call' \in [Callers -> Frame] /\ call'[c] = f /\ \A d \in Callers \ {c} : call'[d] = call[d]
    BY <1>4, <2>2, <2>3, <2>4, BecomeFrame DEF RunnerTypeOK, Become
  <2>6. Submitted(a)' /\ (IsTerminal(t) => Done(a)')
    BY <1>2, <2>2, <2>3 DEF Kept, AppTrue, Done
  <2>7. \A h \in call[c].todo : Submitted(AppOf(h))'
    BY <1>2, <2>2, FrameFacts DEF FrameTrue, Kept, Handles, AppOf
  <2>8. t # "none"
    BY DEF AppStates
  <2>9. FrameTrue(call[c], SessionOf[c])'
    BY <1>0, <2>4, <2>5, <2>6, <2>7, <2>8 DEF FrameTrue
  <2>10. \A b \in known' : Listed(b)'
    <3>1. known' = known
      BY <1>4 DEF schedulerVars, Scheduler!Observe, Scheduler!Finish
    <3>2. QED
      BY <1>1, <2>5, <3>1, ListedStays DEF Ask
  <2>11. \A s \in Sessions : \A h \in apps'[s] : Submitted(AppOf(h))'
    BY <2>2 DEF Ask, RunnerInvariant, RunnerTypeOK, Handles, AppOf, Kept
  <2>12. apps' \in [Sessions -> SUBSET Handles]
    BY <2>2 DEF Ask, RunnerTypeOK
  <2>13. QED
    BY <2>1, <2>5, <2>9, <2>10, <2>11, <2>12, StepKeeps
<1>5. CASE Return(c, "raised") /\ UNCHANGED schedulerVars
  <2> DEFINE f == [call[c] EXCEPT !.at = "idle", !.todo = {}, !.res = "raised"]
  <2>1. f \in Frame /\ FrameTrue(f, SessionOf[c])
    BY <1>1 DEF Frame, FrameTrue, Known
  <2>2. QED
    BY <1>1, <1>5, <2>1, CallStepKeeps DEF Return, Ask
<1>6. QED
  BY <1>0, <1>3, <1>4, <1>5 DEF Ask

\* A call that was told drops the handle from the list only if the scheduler has
\* forgotten the application.
LEMMA ToldLists ==
  ASSUME RunnerInvariant, NEW c \in Callers, Told(c)
  PROVE  /\ apps' \in [Sessions -> SUBSET Handles]
         /\ \A s \in Sessions : apps'[s] \subseteq apps[s]
         /\ \A s \in Sessions : \A h \in apps[s] : AppOf(h) \in known => h \in apps'[s]
<1>1. call[c].h \in Handles /\ SessionOf[c] \in Sessions /\ call[c].at = "told"
  BY FrameFacts DEF RunnerInvariant, Told, At
<1>2. Forgetting(c) => AppOf(call[c].h) \notin known
  BY <1>1 DEF RunnerInvariant, FrameTrue, Forgetting, Forgotten
<1>3. apps \in [Sessions -> SUBSET Handles]
  BY DEF RunnerInvariant, RunnerTypeOK
<1>4. QED
  BY <1>1, <1>2, <1>3 DEF Told

\* A call that was told keeps the invariant if its frame stays true.
LEMMA ToldFrame ==
  ASSUME RunnerInvariant, NEW c \in Callers, Told(c),
         NEW f \in Frame, Become(c, f), FrameTrue(f, SessionOf[c])
  PROVE  RunnerInvariant'
<1>1. call' \in [Callers -> Frame] /\ call'[c] = f /\ \A d \in Callers \ {c} : call'[d] = call[d]
  BY BecomeFrame DEF RunnerInvariant, RunnerTypeOK, Become
<1>2. FrameTrue(call[c], SessionOf[c])'
  BY <1>1 DEF FrameTrue, Submitted, Done, Forgotten, Told, schedulerVars
<1>3. \A a \in known' : Listed(a)'
  <2> SUFFICES ASSUME NEW a \in known PROVE Listed(a)'
    BY DEF Told, schedulerVars
  <2>1. CASE \E s \in Sessions : <<s, a>> \in apps[s]
    BY <2>1, ToldLists DEF Listed, AppOf
  <2>2. CASE \E d \in Callers : At(d, "record") /\ AppOf(call[d].h) = a
    BY <1>1, <2>2 DEF Listed, At, Told
  <2>3. QED
    BY <2>1, <2>2 DEF RunnerInvariant, Listed
<1>4. \A s \in Sessions : \A h \in apps'[s] : Submitted(AppOf(h))'
  BY ToldLists DEF RunnerInvariant, Submitted, Told, schedulerVars
<1>5. SchedulerStep
  BY DEF SchedulerStep, Told
<1>6. QED
  BY <1>1, <1>2, <1>3, <1>4, <1>5, ToldLists, StepKeeps

\* What a status, wait, stop or list does with what it was told.
LEMMA ToldKeeps ==
  ASSUME RunnerInvariant, NEW c \in Callers, Told(c)
  PROVE  RunnerInvariant'
<1>0. PICK a \in Apps : a = AppOf(call[c].h)
  BY FrameFacts DEF RunnerInvariant
<1>1. call[c] \in Frame /\ call[c].at = "told"
  BY FrameFacts DEF RunnerInvariant, Told, At
<1>2. FrameTrue(call[c], SessionOf[c]) /\ AppTrue(a)
  BY DEF RunnerInvariant
<1>3. Submitted(a) /\ \A h \in call[c].todo : h \in Handles /\ Submitted(AppOf(h))
  BY <1>0, <1>1, <1>2, FrameFacts DEF FrameTrue, Known, RunnerInvariant
<1>4. Over(c) => Done(a)
  BY <1>0, <1>1, <1>2 DEF FrameTrue, AppTrue, Over
<1>5. CASE call[c].op = "status" /\ Return(c, call[c].res)
  <2> DEFINE f == [call[c] EXCEPT !.at = "idle", !.todo = {}, !.res = call[c].res]
  <2>1. f \in Frame /\ FrameTrue(f, SessionOf[c])
    BY <1>1, <1>5 DEF Frame, FrameTrue, Known
  <2>2. QED
    BY <1>5, <2>1, ToldFrame DEF Return
<1>6. CASE call[c].op = "wait" /\ Over(c) /\ Return(c, call[c].res)
  <2> DEFINE f == [call[c] EXCEPT !.at = "idle", !.todo = {}, !.res = call[c].res]
  <2>1. f \in Frame /\ FrameTrue(f, SessionOf[c])
    BY <1>0, <1>1, <1>4, <1>6 DEF Frame, FrameTrue, Known, Over
  <2>2. QED
    BY <1>6, <2>1, ToldFrame DEF Return
<1>7. CASE call[c].op = "wait" /\ ~Over(c) /\ Apart(c, "ask")
  <2> DEFINE f == [call[c] EXCEPT !.at = "ask"]
  <2>1. f \in Frame /\ FrameTrue(f, SessionOf[c])
    BY <1>0, <1>1, <1>3 DEF Frame, FrameTrue, Known
  <2>2. QED
    BY <1>7, <2>1, ToldFrame DEF Apart
<1>8. CASE call[c].op = "stop" /\ Over(c) /\ Return(c, "ok")
  <2> DEFINE f == [call[c] EXCEPT !.at = "idle", !.todo = {}, !.res = "ok"]
  <2>1. f \in Frame /\ FrameTrue(f, SessionOf[c])
    BY <1>0, <1>1, <1>4, <1>8 DEF Frame, FrameTrue, Known
  <2>2. QED
    BY <1>8, <2>1, ToldFrame DEF Return
<1>9. CASE call[c].op = "stop" /\ ~Over(c) /\ Apart(c, "cancel")
  <2> DEFINE f == [call[c] EXCEPT !.at = "cancel"]
  <2>1. f \in Frame /\ FrameTrue(f, SessionOf[c])
    BY <1>0, <1>1, <1>3, <1>9 DEF Frame, FrameTrue, Known
  <2>2. QED
    BY <1>9, <2>1, ToldFrame DEF Apart
<1>10. CASE call[c].op = "list" /\ Return(c, "ok")
  <2> DEFINE f == [call[c] EXCEPT !.at = "idle", !.todo = {}, !.res = "ok"]
  <2>1. f \in Frame /\ FrameTrue(f, SessionOf[c])
    BY <1>1, <1>10 DEF Frame, FrameTrue, Known
  <2>2. QED
    BY <1>10, <2>1, ToldFrame DEF Return
<1>11. ASSUME NEW h \in call[c].todo,
              Become(c, [call[c] EXCEPT !.at = "ask", !.h = h, !.todo = @ \ {h}])
       PROVE  RunnerInvariant'
  <2> DEFINE f == [call[c] EXCEPT !.at = "ask", !.h = h, !.todo = @ \ {h}]
  <2>1. f \in Frame
    BY <1>1, <1>3 DEF Frame
  <2>2. FrameTrue(f, SessionOf[c])
    BY <1>1, <1>3 DEF Frame, FrameTrue
  <2>3. QED
    BY <1>11, <2>1, <2>2, ToldFrame
<1>12. QED
  BY <1>5, <1>6, <1>7, <1>8, <1>9, <1>10, <1>11 DEF Told, NextOfList

\* A stop that returns has cancelled the application, or had nothing to cancel.
LEMMA CancelAppKeeps ==
  ASSUME RunnerInvariant, NEW c \in Callers, CancelApp(c)
  PROVE  RunnerInvariant'
<1>0. PICK a \in Apps : a = AppOf(call[c].h)
  BY FrameFacts DEF RunnerInvariant
<1>1. call[c] \in Frame /\ ~At(c, "record") /\ call[c].at = "cancel"
  BY FrameFacts DEF RunnerInvariant, CancelApp, At
<1>2. FrameTrue(call[c], SessionOf[c]) /\ Submitted(a) /\ AppTrue(a) /\ call[c].op = "stop"
  BY <1>0, <1>1 DEF RunnerInvariant, FrameTrue, Known
<1>3. ASSUME NEW res \in {"ok", "raised"}, Return(c, res), UNCHANGED schedulerVars,
             res = "ok" => a \notin known
      PROVE  RunnerInvariant'
  <2> DEFINE f == [call[c] EXCEPT !.at = "idle", !.todo = {}, !.res = res]
  <2>1. f \in Frame /\ f.at = "idle" /\ f.op = "stop" /\ f.res = res /\ f.h = call[c].h /\ f.todo = {}
    BY <1>1, <1>2 DEF Frame
  <2>2. res # "raised" => Done(a)
    BY <1>2, <1>3 DEF AppTrue, Forgotten
  <2>3. FrameTrue(f, SessionOf[c])
    BY <1>0, <2>1, <2>2 DEF FrameTrue, Known
  <2>4. QED
    BY <1>1, <1>3, <2>1, <2>3, CallStepKeeps DEF Return, CancelApp
<1>4. CASE Scheduler!Cancel(a) /\ Return(c, "ok")
  <2>1. SchedulerStep
    BY <1>4 DEF SchedulerStep
  <2>2. RunnerTypeOK /\ (\A b \in Apps : AppTrue(b)) /\ \A b \in Apps : Kept(b)
    BY <2>1, SchedulerKeeps DEF RunnerInvariant
  <2>3. Done(a)
    BY <1>2, <1>4 DEF Done, Scheduler!Cancel
  <2>4. Done(a)'
    BY <2>2, <2>3 DEF Kept
  <2> DEFINE f == [call[c] EXCEPT !.at = "idle", !.todo = {}, !.res = "ok"]
  <2>5. f \in Frame /\ f.at = "idle" /\ f.op = "stop" /\ f.h = call[c].h /\ f.todo = {}
    BY <1>1, <1>2 DEF Frame
  <2>6. call' \in [Callers -> Frame] /\ call'[c] = f /\ \A d \in Callers \ {c} : call'[d] = call[d]
    BY <1>4, <2>2, <2>5, BecomeFrame DEF RunnerTypeOK, Return, Become
  <2>7. FrameTrue(call[c], SessionOf[c])'
    BY <1>0, <2>4, <2>5, <2>6 DEF FrameTrue, Known
  <2>8. \A b \in known' : Listed(b)'
    BY <1>1, <1>4, <2>6, ListedStays DEF CancelApp, Scheduler!Cancel
  <2>9. \A s \in Sessions : \A h \in apps'[s] : Submitted(AppOf(h))'
    BY <2>2 DEF CancelApp, RunnerInvariant, RunnerTypeOK, Handles, AppOf, Kept
  <2>10. apps' \in [Sessions -> SUBSET Handles]
    BY <2>2 DEF CancelApp, RunnerTypeOK
  <2>11. QED
    BY <2>1, <2>6, <2>7, <2>8, <2>9, <2>10, StepKeeps
<1>5. QED
  BY <1>0, <1>3, <1>4 DEF CancelApp

\* describe of a session changes nothing.
LEMMA DescribeAppKeeps ==
  ASSUME RunnerInvariant, NEW c \in Callers, NEW h \in Handles, DescribeApp(c, h)
  PROVE  RunnerInvariant'
<1>1. PICK res \in {"AppDef", "none", "raised"} : AtOnce(c, "describe", h, res)
  BY DEF DescribeApp
<1>2. ~At(c, "record")
  BY DEF DescribeApp, Idle, At
<1>3. NewFrame("idle", "describe", h, res) \in Frame
  BY NewFrameType
<1>4. FrameTrue(NewFrame("idle", "describe", h, res), SessionOf[c])
  BY DEF FrameTrue, NewFrame, Known
<1>5. QED
  BY <1>1, <1>2, <1>3, <1>4, CallStepKeeps DEF AtOnce, DescribeApp

\* Applications start, end and are forgotten on their own.
LEMMA WorkKeeps ==
  ASSUME RunnerInvariant, Work, UNCHANGED <<apps, call>>
  PROVE  RunnerInvariant'
<1>1. SchedulerStep
  BY FrameFacts DEF Work, SchedulerStep, RunnerInvariant
<1>2. /\ RunnerTypeOK /\ Scheduler!TypeOK'
      /\ \A a \in Apps : AppTrue(a)' /\ Kept(a)
  BY <1>1, SchedulerKeeps DEF RunnerInvariant
<1>3. known' \subseteq known
  BY DEF Work, Scheduler!Start, Scheduler!End, Scheduler!Forget
<1>4. \A a \in known' : Listed(a)'
  BY <1>3 DEF RunnerInvariant, Listed, At
<1>5. \A c \in Callers : FrameTrue(call[c], SessionOf[c])'
  BY <1>2, FrameStays DEF RunnerInvariant
<1>6. \A s \in Sessions : \A h \in apps'[s] : Submitted(AppOf(h))'
  BY <1>2 DEF RunnerInvariant, RunnerTypeOK, Handles, AppOf, Kept
<1>7. RunnerTypeOK'
  BY <1>2 DEF RunnerTypeOK
<1>8. QED
  BY <1>2, <1>4, <1>5, <1>6, <1>7 DEF RunnerInvariant

\* Every step keeps the invariant.
LEMMA RunnerStep ==
  RunnerInvariant /\ [RunnerNext]_runnerVars => RunnerInvariant'
<1> SUFFICES ASSUME RunnerInvariant, [RunnerNext]_runnerVars
             PROVE  RunnerInvariant'
  OBVIOUS
<1>1. CASE UNCHANGED runnerVars
  BY <1>1 DEF runnerVars, schedulerVars, RunnerInvariant, RunnerTypeOK, Scheduler!TypeOK,
     AppTrue, FrameTrue, Listed, At, Submitted, Done, Forgotten
<1>2. ASSUME NEW c \in Callers, Progress(c)
      PROVE  RunnerInvariant'
  BY <1>2, ScheduleAppKeeps, RecordKeeps, AskKeeps, ToldKeeps, CancelAppKeeps
     DEF Progress
<1>3. ASSUME NEW c \in Callers, Invoke(c)
      PROVE  RunnerInvariant'
  BY <1>3, RunKeeps, AskAboutKeeps, DescribeAppKeeps, ListKeeps
     DEF Invoke, Status, Wait, Stop
<1>4. CASE Work /\ UNCHANGED <<apps, call>>
  BY <1>4, WorkKeeps
<1>5. QED
  BY <1>1, <1>2, <1>3, <1>4 DEF RunnerNext

-----------------------------------------------------------------------------
(* The theorems *)

\* Whatever the threads do, the invariant holds.
THEOREM RunnerInvariantHolds == RunnerSpec => []RunnerInvariant
BY RunnerStarts, RunnerStep, PTL DEF RunnerSpec

\* The sessions keep their types.
THEOREM RunnerTypeCorrect == RunnerSpec => []RunnerTypeOK
<1>1. RunnerInvariant => RunnerTypeOK
  BY DEF RunnerInvariant
<1>2. QED
  BY <1>1, RunnerInvariantHolds, PTL

\* A wait that returns tells that the application is over, and it is.
THEOREM WaitTellsTheEndHolds == RunnerSpec => []WaitTellsTheEnd
<1>1. RunnerInvariant => WaitTellsTheEnd
  BY DEF RunnerInvariant, WaitTellsTheEnd, Returned, Idle, FrameTrue, Done
<1>2. QED
  BY <1>1, RunnerInvariantHolds, PTL

\* When stop returns nothing of the application runs.
THEOREM StopStopsHolds == RunnerSpec => []StopStops
<1>1. RunnerInvariant => StopStops
  BY DEF RunnerInvariant, StopStops, Returned, Idle, FrameTrue, Done
<1>2. QED
  BY <1>1, RunnerInvariantHolds, PTL

\* An application that the scheduler knows is in a list, once its run returned.
THEOREM KnownIsListedHolds == RunnerSpec => []KnownIsListed
<1>1. RunnerInvariant => KnownIsListed
  BY DEF RunnerInvariant, KnownIsListed, Listed
<1>2. QED
  BY <1>1, RunnerInvariantHolds, PTL

-----------------------------------------------------------------------------
(***************************************************************************)
(* list never shows what the scheduler had forgotten when the call began.  *)
(* What it still has to ask about it either drops when it is told, or      *)
(* another thread has dropped; and nothing that was dropped comes back,    *)
(* because an application is recorded once, by the thread that ran it,     *)
(* before anybody can have found it forgotten in a list.                   *)
(***************************************************************************)

Runs(c) == call[c].at \in {"schedule", "record"}

\* What the frame f of a thread that calls session s has dropped so far.
ListTrue(f, s) ==
  /\ \A h \in f.gone : Forgotten(AppOf(h))
  /\ f.op = "list" /\ f.at \in {"ask", "told"} =>
       \A h \in f.gone : h \in apps[s] => h \in f.todo \/ h = f.h
  /\ f.op = "list" /\ f.at = "told" /\ f.h \in f.gone => f.res = "none"
  /\ f.op = "list" /\ f.at = "idle" /\ f.res # "raised" =>
       \A h \in f.gone : h \notin apps[s]

\* An application that thread c runs is in no list until c has recorded it.
Fresh(c) ==
  LET a == AppOf(call[c].h) IN
  /\ call[c].at = "schedule" => ~Submitted(a)
  /\ call[c].at = "record" =>
       /\ \A s \in Sessions : \A h \in apps[s] : AppOf(h) # a
       /\ \A d \in Callers : \A h \in call[d].gone : AppOf(h) # a
  /\ Runs(c) => \A d \in Callers \ {c} : Runs(d) => AppOf(call[d].h) # a

ListInvariant ==
  /\ RunnerInvariant
  /\ \A c \in Callers : ListTrue(call[c], SessionOf[c])
  /\ \A c \in Callers : Fresh(c)

-----------------------------------------------------------------------------
\* What a thread has dropped stays dropped while nothing of it is added.
LEMMA ListStays ==
  ASSUME RunnerTypeOK, NEW c \in Callers, ListTrue(call[c], SessionOf[c]),
         call'[c] = call[c], \A a \in Apps : Kept(a),
         \A h \in call[c].gone : h \in apps'[SessionOf[c]] => h \in apps[SessionOf[c]]
  PROVE  ListTrue(call[c], SessionOf[c])'
<1>1. \A h \in call[c].gone : AppOf(h) \in Apps
  BY FrameFacts DEF AppOf, Handles
<1>2. QED
  BY <1>1 DEF ListTrue, Kept

\* A step keeps the invariant that submits nothing, lists nothing more, and
\* leaves a thread that is not in run.
LEMMA QuietStepKeeps ==
  ASSUME ListInvariant, RunnerInvariant', SchedulerStep, NEW c \in Callers,
         \A d \in Callers \ {c} : call'[d] = call[d],
         call'[c].at \notin {"schedule", "record"},
         ListTrue(call[c], SessionOf[c])',
         \A h \in call'[c].gone : h \in call[c].gone \/ h \in apps[SessionOf[c]],
         \A s \in Sessions : apps'[s] \subseteq apps[s],
         \A a \in Apps : Submitted(a)' => Submitted(a)
  PROVE  ListInvariant'
<1>1. RunnerTypeOK /\ \A a \in Apps : Kept(a)
  BY SchedulerKeeps DEF ListInvariant, RunnerInvariant
<1>2. \A d \in Callers : SessionOf[d] \in Sessions /\ AppOf(call[d].h) \in Apps
  BY <1>1, FrameFacts
<1>3. \A d \in Callers \ {c} : ListTrue(call[d], SessionOf[d])'
  BY <1>1, <1>2, ListStays DEF ListInvariant
<1>4. ASSUME NEW d \in Callers PROVE Fresh(d)'
  <2>1. CASE d = c
    BY <2>1 DEF Fresh, Runs
  <2>2. CASE d # c
    <3>1. call'[d] = call[d] /\ Fresh(d)
      BY <2>2 DEF ListInvariant
    <3>2. call'[d].at = "schedule" => ~(status'[AppOf(call'[d].h)] # "UNSUBMITTED")
      BY <1>2, <3>1 DEF Fresh, Submitted
    <3>3. call'[d].at = "record" =>
            /\ \A s \in Sessions : \A h \in apps'[s] : AppOf(h) # AppOf(call'[d].h)
            /\ \A e \in Callers : \A h \in call'[e].gone : AppOf(h) # AppOf(call'[d].h)
      BY <1>2, <3>1 DEF Fresh
    <3>4. Runs(d)' => \A e \in Callers \ {d} : Runs(e)' => AppOf(call'[e].h) # AppOf(call'[d].h)
      BY <3>1 DEF Fresh, Runs
    <3>5. QED
      BY <3>2, <3>3, <3>4 DEF Fresh, Submitted
  <2>3. QED
    BY <2>1, <2>2
<1>5. QED
  BY <1>3, <1>4 DEF ListInvariant

\* The same for a step that changes neither the scheduler nor the lists.
LEMMA QuietCallKeeps ==
  ASSUME ListInvariant, RunnerInvariant', UNCHANGED <<schedulerVars, apps>>,
         NEW c \in Callers, NEW f, Become(c, f), f.at \notin {"schedule", "record"},
         ListTrue(f, SessionOf[c]),
         \A h \in f.gone : h \in call[c].gone \/ h \in apps[SessionOf[c]]
  PROVE  ListInvariant'
<1>1. call'[c] = f /\ \A d \in Callers \ {c} : call'[d] = call[d]
  BY DEF ListInvariant, RunnerInvariant, RunnerTypeOK, Become
<1>2. ListTrue(call[c], SessionOf[c])'
  BY <1>1 DEF ListTrue, schedulerVars, Forgotten, Submitted
<1>3. SchedulerStep
  BY DEF SchedulerStep
<1>4. \A a \in Apps : Submitted(a)' => Submitted(a)
  BY DEF Submitted, schedulerVars
<1>5. QED
  BY <1>1, <1>2, <1>3, <1>4, QuietStepKeeps

\* A frame that a call begins with, and that is not that of a list, has dropped
\* nothing.
LEMMA NewFrameDropsNothing ==
  ASSUME NEW label, NEW op, NEW h, NEW res, NEW s
  PROVE  ListTrue(NewFrame(label, op, h, res), s) /\ NewFrame(label, op, h, res).gone = {}
BY DEF ListTrue, NewFrame

\* The invariant holds at the start.
LEMMA ListStarts == RunnerInit => ListInvariant
<1> SUFFICES ASSUME RunnerInit PROVE ListInvariant
  OBVIOUS
<1>1. PICK h \in Handles : call = [c \in Callers |-> NewFrame("idle", "none", h, "none")]
  BY DEF RunnerInit
<1>2. \A c \in Callers : ListTrue(call[c], SessionOf[c])
  BY <1>1, NewFrameDropsNothing
<1>3. \A c \in Callers : Fresh(c)
  BY <1>1 DEF Fresh, NewFrame, Runs
<1>4. QED
  BY <1>2, <1>3, RunnerStarts DEF ListInvariant

-----------------------------------------------------------------------------
(* run *)

\* What run is given an id for is submitted by nobody else.
LEMMA ListRun ==
  ASSUME ListInvariant, RunnerInvariant', NEW c \in Callers, NEW a \in Apps, Run(c, a)
  PROVE  ListInvariant'
<1> DEFINE h == <<SessionOf[c], a>>
<1>1. CASE AtOnce(c, "run", h, "raised")
  <2>1. NewFrame("idle", "run", h, "raised").at = "idle"
    BY DEF NewFrame
  <2>2. QED
    BY <1>1, <2>1, NewFrameDropsNothing, QuietCallKeeps DEF AtOnce, Run
<1>2. CASE Enter(c, "run", h, "schedule")
  <2> DEFINE f == NewFrame("schedule", "run", h, "none")
  <2>1. call'[c] = f /\ \A d \in Callers \ {c} : call'[d] = call[d]
    BY <1>2 DEF Enter, Become, ListInvariant, RunnerInvariant, RunnerTypeOK
  <2>2. f.at = "schedule" /\ AppOf(f.h) = a /\ f.gone = {}
    BY DEF NewFrame, AppOf
  <2>3. UNCHANGED <<status, work, known, apps>> /\ ~Submitted(a)
    BY DEF Run, schedulerVars, Submitted
  <2>4. \A d \in Callers : ListTrue(call[d], SessionOf[d])'
    <3>1. ListTrue(call[c], SessionOf[c])'
      BY <2>1 DEF ListTrue, NewFrame
    <3>2. \A d \in Callers \ {c} : ListTrue(call[d], SessionOf[d])'
      BY <2>1, <2>3 DEF ListInvariant, ListTrue, Forgotten, Submitted
    <3>3. QED
      BY <3>1, <3>2
  <2>5. \A d \in Callers : Runs(d) => AppOf(call[d].h) # a
    <3>1. \A d \in Callers : call[d].at = "record" => Submitted(AppOf(call[d].h))
      BY DEF ListInvariant, RunnerInvariant, FrameTrue, Known
    <3>2. QED
      BY <2>3, <3>1 DEF Run, Runs, At
  <2>6. ASSUME NEW d \in Callers PROVE Fresh(d)'
    <3>1. CASE d = c
      BY <2>1, <2>2, <2>3, <2>5, <3>1 DEF Fresh, Runs, Submitted
    <3>2. CASE d # c
      <4>1. call'[d] = call[d] /\ Fresh(d)
        BY <2>1, <3>2 DEF ListInvariant
      <4>2. \A e \in Callers : \A g \in call'[e].gone : g \in call[e].gone
        BY <2>1, <2>2
      <4>3. Runs(d)' => \A e \in Callers \ {d} : Runs(e)' => AppOf(call'[e].h) # AppOf(call'[d].h)
        BY <2>1, <2>2, <2>5, <4>1 DEF Fresh, Runs
      <4>4. QED
        BY <2>3, <4>1, <4>2, <4>3 DEF Fresh, Submitted
    <3>3. QED
      BY <3>1, <3>2
  <2>7. QED
    BY <2>4, <2>6 DEF ListInvariant
<1>3. QED
  BY <1>1, <1>2 DEF Run

\* When an application is submitted it is in no list, and no list has dropped it.
LEMMA ListSchedule ==
  ASSUME ListInvariant, RunnerInvariant', NEW c \in Callers, ScheduleApp(c)
  PROVE  ListInvariant'
<1>0. PICK a \in Apps : a = AppOf(call[c].h)
  BY FrameFacts DEF ListInvariant, RunnerInvariant
<1>1. call[c] \in Frame /\ call[c].at = "schedule" /\ call[c].op = "run"
  BY FrameFacts DEF ListInvariant, RunnerInvariant, ScheduleApp, At, FrameTrue
<1>2. CASE Return(c, "raised") /\ UNCHANGED schedulerVars
  <2> DEFINE f == [call[c] EXCEPT !.at = "idle", !.todo = {}, !.res = "raised"]
  <2>1. f.at = "idle" /\ f.gone = call[c].gone /\ f.res = "raised"
    BY <1>1 DEF Frame
  <2>2. ListTrue(f, SessionOf[c])
    BY <2>1 DEF ListInvariant, ListTrue
  <2>3. QED
    BY <1>2, <2>1, <2>2, QuietCallKeeps DEF Return, ScheduleApp
<1>3. CASE Scheduler!Submit(a) /\ Apart(c, "record")
  <2> DEFINE f == [call[c] EXCEPT !.at = "record"]
  <2>1. call'[c] = f /\ \A d \in Callers \ {c} : call'[d] = call[d]
    BY <1>3 DEF Apart, Become, ListInvariant, RunnerInvariant, RunnerTypeOK
  <2>2. f.at = "record" /\ f.h = call[c].h /\ f.gone = call[c].gone /\ f.op = "run"
    BY <1>1 DEF Frame
  <2>3. SchedulerStep /\ apps' = apps
    BY <1>3 DEF SchedulerStep, ScheduleApp
  <2>4. RunnerTypeOK /\ \A b \in Apps : Kept(b)
    BY <2>3, SchedulerKeeps DEF ListInvariant, RunnerInvariant
  <2>5. ~Submitted(a) /\ \A b \in Apps \ {a} : Submitted(b)' => Submitted(b)
    <3>1. status \in [Apps -> AppStates] /\ status' = [status EXCEPT ![a] = "PENDING"]
      BY <1>3, <2>4 DEF RunnerTypeOK, Scheduler!TypeOK, Scheduler!AppStates, AppStates,
         Scheduler!Submit
    <3>2. status[a] = "UNSUBMITTED"
      BY <1>3 DEF Scheduler!Submit
    <3>3. QED
      BY <3>1, <3>2 DEF Submitted
  <2>6. \A d \in Callers : ListTrue(call[d], SessionOf[d])'
    <3>1. \A d \in Callers \ {c} : ListTrue(call[d], SessionOf[d])'
      BY <2>1, <2>3, <2>4, ListStays DEF ListInvariant
    <3>2. \A h \in call[c].gone : AppOf(h) \in Apps
      BY <2>4, FrameFacts DEF AppOf, Handles
    <3>3. ListTrue(call[c], SessionOf[c])'
      BY <2>1, <2>2, <2>4, <3>2 DEF ListInvariant, ListTrue, Kept
    <3>4. QED
      BY <3>1, <3>3
  <2>7. /\ \A s \in Sessions : \A h \in apps[s] : AppOf(h) # a
        /\ \A d \in Callers : \A h \in call'[d].gone : AppOf(h) # a
    <3>1. \A s \in Sessions : \A h \in apps[s] : AppOf(h) # a
      BY <2>5 DEF ListInvariant, RunnerInvariant
    <3>2. \A d \in Callers : \A h \in call[d].gone : AppOf(h) # a
      BY <2>5 DEF ListInvariant, ListTrue, Forgotten
    <3>3. QED
      BY <2>1, <2>2, <3>1, <3>2
  <2>8. \A d \in Callers \ {c} : Runs(d) => AppOf(call[d].h) # a
    BY <1>0, <1>1 DEF ListInvariant, Fresh, Runs
  <2>9. ASSUME NEW d \in Callers PROVE Fresh(d)'
    <3>1. CASE d = c
      BY <1>0, <2>1, <2>2, <2>3, <2>7, <2>8, <3>1 DEF Fresh, Runs
    <3>2. CASE d # c
      <4>1. call'[d] = call[d] /\ Fresh(d) /\ AppOf(call[d].h) \in Apps
        BY <2>1, <2>4, <3>2, FrameFacts DEF ListInvariant
      <4>2. \A e \in Callers : call'[e].gone = call[e].gone
        BY <2>1, <2>2
      <4>3. Runs(d)' => \A e \in Callers \ {d} : Runs(e)' => AppOf(call'[e].h) # AppOf(call'[d].h)
        <5>1. \A e \in Callers : call'[e].h = call[e].h /\ (Runs(e)' => Runs(e))
          BY <1>1, <2>1, <2>2 DEF Runs
        <5>2. QED
          BY <4>1, <5>1 DEF Fresh
      <4>4. call'[d].at = "schedule" => ~Submitted(AppOf(call[d].h))'
        <5> SUFFICES ASSUME call[d].at = "schedule" PROVE ~Submitted(AppOf(call[d].h))'
          BY <4>1
        <5>1. PICK b \in Apps : b = AppOf(call[d].h)
          BY <4>1
        <5>2. b # a /\ ~Submitted(b)
          BY <2>8, <3>2, <4>1, <5>1 DEF Fresh, Runs
        <5>3. ~Submitted(b)'
          BY <2>5, <5>2
        <5>4. QED
          BY <4>1, <5>1, <5>3
      <4>5. QED
        BY <2>3, <4>1, <4>2, <4>3, <4>4 DEF Fresh
    <3>3. QED
      BY <3>1, <3>2
  <2>10. QED
    BY <2>6, <2>9 DEF ListInvariant
<1>4. QED
  BY <1>0, <1>2, <1>3 DEF ScheduleApp

\* What is recorded is in no list yet, and no list has dropped it.
LEMMA ListRecord ==
  ASSUME ListInvariant, RunnerInvariant', NEW c \in Callers, Record(c)
  PROVE  ListInvariant'
<1>0. PICK a \in Apps, s \in Sessions : a = AppOf(call[c].h) /\ s = SessionOf[c]
  BY FrameFacts DEF ListInvariant, RunnerInvariant
<1> DEFINE f == [call[c] EXCEPT !.at = "idle", !.todo = {}, !.res = "ok"]
<1>1. call[c] \in Frame /\ call[c].at = "record" /\ call[c].op = "run"
  BY FrameFacts DEF ListInvariant, RunnerInvariant, Record, At, FrameTrue
<1>2. f.at = "idle" /\ f.gone = call[c].gone /\ f.op = "run"
  BY <1>1 DEF Frame
<1>3. call'[c] = f /\ \A d \in Callers \ {c} : call'[d] = call[d]
  BY DEF Record, Return, Become, ListInvariant, RunnerInvariant, RunnerTypeOK
<1>4. UNCHANGED <<status, work, known>>
  BY DEF Record, schedulerVars
<1>5. \A t \in Sessions : \A h \in apps'[t] : h \in apps[t] \/ AppOf(h) = a
  BY <1>0 DEF Record, ListInvariant, RunnerInvariant, RunnerTypeOK
<1>6. \A d \in Callers : \A h \in call[d].gone : AppOf(h) # a
  BY <1>0, <1>1 DEF ListInvariant, Fresh
<1>7. \A d \in Callers : \A h \in call[d].gone :
        h \in apps'[SessionOf[d]] => h \in apps[SessionOf[d]]
  BY <1>5, <1>6, FrameFacts DEF ListInvariant, RunnerInvariant
<1>8. \A d \in Callers : ListTrue(call[d], SessionOf[d])'
  <2>1. \A d \in Callers \ {c} : ListTrue(call[d], SessionOf[d])'
    BY <1>3, <1>4, <1>7 DEF ListInvariant, ListTrue, Forgotten, Submitted
  <2>2. ListTrue(call[c], SessionOf[c])'
    BY <1>2, <1>3, <1>4 DEF ListInvariant, ListTrue, Forgotten, Submitted
  <2>3. QED
    BY <2>1, <2>2
<1>9. ASSUME NEW d \in Callers PROVE Fresh(d)'
  <2>1. CASE d = c
    BY <1>2, <1>3, <2>1 DEF Fresh, Runs
  <2>2. CASE d # c
    <3>1. call'[d] = call[d] /\ Fresh(d)
      BY <1>3, <2>2 DEF ListInvariant
    <3>2. \A e \in Callers : call'[e].gone = call[e].gone
      BY <1>2, <1>3
    <3>3. Runs(d) => AppOf(call[d].h) # a
      BY <1>0, <1>1, <2>2 DEF ListInvariant, Fresh, Runs
    <3>4. call'[d].at = "record" =>
            \A t \in Sessions : \A h \in apps'[t] : AppOf(h) # AppOf(call'[d].h)
      BY <1>5, <3>1, <3>3 DEF Fresh, Runs
    <3>5. Runs(d)' => \A e \in Callers \ {d} : Runs(e)' => AppOf(call'[e].h) # AppOf(call'[d].h)
      BY <1>2, <1>3, <3>1 DEF Fresh, Runs
    <3>6. QED
      BY <1>4, <3>1, <3>2, <3>4, <3>5 DEF Fresh, Submitted
  <2>3. QED
    BY <2>1, <2>2
<1>10. QED
  BY <1>8, <1>9 DEF ListInvariant

-----------------------------------------------------------------------------
(* The other calls *)

\* A status, wait or stop begins.
LEMMA ListAskAbout ==
  ASSUME ListInvariant, RunnerInvariant', NEW c \in Callers, NEW op, NEW h,
         AskAbout(c, op, h)
  PROVE  ListInvariant'
<1>1. NewFrame("ask", op, h, "none").at = "ask"
  BY DEF NewFrame
<1>2. QED
  BY <1>1, NewFrameDropsNothing, QuietCallKeeps DEF AskAbout, Enter

\* describe of a session drops nothing.
LEMMA ListDescribeApp ==
  ASSUME ListInvariant, RunnerInvariant', NEW c \in Callers, NEW h, DescribeApp(c, h)
  PROVE  ListInvariant'
<1>1. PICK res : AtOnce(c, "describe", h, res)
  BY DEF DescribeApp
<1>2. NewFrame("idle", "describe", h, res).at = "idle"
  BY DEF NewFrame
<1>3. QED
  BY <1>1, <1>2, NewFrameDropsNothing, QuietCallKeeps DEF AtOnce, DescribeApp

\* A list begins with all that the session holds.
LEMMA ListList ==
  ASSUME ListInvariant, RunnerInvariant', NEW c \in Callers, List(c)
  PROVE  ListInvariant'
<1> DEFINE held == apps[SessionOf[c]]
<1>1. CASE AtOnce(c, "list", call[c].h, "ok")
  <2>1. NewFrame("idle", "list", call[c].h, "ok").at = "idle"
    BY DEF NewFrame
  <2>2. QED
    BY <1>1, <2>1, NewFrameDropsNothing, QuietCallKeeps DEF AtOnce, List
<1>2. ASSUME NEW h \in held,
             Become(c, [NewFrame("ask", "list", h, "none") EXCEPT
                          !.todo = held \ {h}, !.gone = Unknown(held)])
      PROVE  ListInvariant'
  <2> DEFINE f == [NewFrame("ask", "list", h, "none") EXCEPT
                     !.todo = held \ {h}, !.gone = Unknown(held)]
  <2>1. f.at = "ask" /\ f.op = "list" /\ f.h = h /\ f.todo = held \ {h} /\ f.gone = Unknown(held)
    BY DEF NewFrame
  <2>2. \A g \in Unknown(held) : g \in held /\ Forgotten(AppOf(g))
    BY FrameFacts DEF Unknown, Forgotten, ListInvariant, RunnerInvariant
  <2>3. ListTrue(f, SessionOf[c])
    BY <2>1, <2>2 DEF ListTrue
  <2>4. QED
    BY <1>2, <2>1, <2>2, <2>3, QuietCallKeeps DEF List
<1>3. QED
  BY <1>1, <1>2 DEF List

\* The scheduler does not know what a list has found forgotten.
LEMMA ListAsk ==
  ASSUME ListInvariant, RunnerInvariant', NEW c \in Callers, Ask(c)
  PROVE  ListInvariant'
<1>0. PICK a \in Apps : a = AppOf(call[c].h)
  BY FrameFacts DEF ListInvariant, RunnerInvariant
<1>1. /\ call[c] \in Frame /\ call[c].at = "ask" /\ ListTrue(call[c], SessionOf[c])
      /\ call \in [Callers -> Frame]
  BY FrameFacts DEF ListInvariant, RunnerInvariant, RunnerTypeOK, Ask, At
<1>2. CASE Return(c, "raised") /\ UNCHANGED schedulerVars
  <2> DEFINE f == [call[c] EXCEPT !.at = "idle", !.todo = {}, !.res = "raised"]
  <2>1. f.at = "idle" /\ f.gone = call[c].gone /\ f.res = "raised"
    BY <1>1 DEF Frame
  <2>2. ListTrue(f, SessionOf[c])
    BY <1>1, <2>1 DEF ListTrue
  <2>3. QED
    BY <1>2, <2>1, <2>2, QuietCallKeeps DEF Return, Ask
<1>3. CASE /\ a \notin known
           /\ Become(c, [call[c] EXCEPT !.at = "told", !.res = "none"])
           /\ UNCHANGED schedulerVars
  <2> DEFINE f == [call[c] EXCEPT !.at = "told", !.res = "none"]
  <2>1. /\ f.at = "told" /\ f.res = "none" /\ f.gone = call[c].gone /\ f.op = call[c].op
        /\ f.h = call[c].h /\ f.todo = call[c].todo
    BY <1>1 DEF Frame
  <2>2. ListTrue(f, SessionOf[c])
    BY <1>1, <2>1 DEF ListTrue
  <2>3. QED
    BY <1>3, <2>1, <2>2, QuietCallKeeps DEF Ask
<1>4. ASSUME a \in known,
             \/ IsTerminal(status[a]) /\ UNCHANGED schedulerVars
             \/ work[a] = "live" /\ Scheduler!Observe(a)
             \/ work[a] # "live" /\ Scheduler!Finish(a),
             Become(c, [call[c] EXCEPT !.at = "told", !.res = status'[a]])
      PROVE  ListInvariant'
  <2> DEFINE f == [call[c] EXCEPT !.at = "told", !.res = status'[a]]
  <2>1. /\ f.at = "told" /\ f.gone = call[c].gone /\ f.op = call[c].op
        /\ f.h = call[c].h /\ f.todo = call[c].todo
    BY <1>1 DEF Frame
  <2>2. call'[c] = f /\ \A d \in Callers \ {c} : call'[d] = call[d]
    BY <1>1, <1>4 DEF Become
  <2>3. SchedulerStep
    BY <1>4 DEF SchedulerStep
  <2>4. RunnerTypeOK /\ \A b \in Apps : Kept(b)
    BY <2>3, SchedulerKeeps DEF ListInvariant, RunnerInvariant
  <2>5. call[c].h \notin call[c].gone
    BY <1>0, <1>1, <1>4 DEF ListTrue, Forgotten
  <2>6. \A h \in call[c].gone : AppOf(h) \in Apps
    BY <2>4, FrameFacts DEF AppOf, Handles
  <2>7. apps' = apps
    BY DEF Ask
  <2>8. ListTrue(call[c], SessionOf[c])'
    BY <1>1, <2>1, <2>2, <2>4, <2>5, <2>6, <2>7 DEF ListTrue, Kept
  <2>9. \A b \in Apps : Submitted(b)' => Submitted(b)
    BY <1>4, <2>4 DEF schedulerVars, Scheduler!Observe, Scheduler!Finish, Submitted,
       RunnerTypeOK, Scheduler!TypeOK
  <2>10. QED
    BY <2>1, <2>2, <2>3, <2>7, <2>8, <2>9, QuietStepKeeps
<1>5. QED
  BY <1>0, <1>2, <1>3, <1>4 DEF Ask

\* What a frame is after one that was told: a list has the handles still to ask
\* about before it, or has none left.
ToldAll(told, f) ==
  /\ f.at \in {"idle", "ask", "cancel"}
  /\ f.op = told.op /\ f.gone = told.gone
  /\ f.op = "list" /\ f.at = "ask" => told.todo \subseteq f.todo \cup {f.h}
  /\ f.op = "list" /\ f.at = "idle" => told.todo = {}

\* A list that was told drops the handle if the scheduler has forgotten it.
LEMMA ListTold ==
  ASSUME ListInvariant, RunnerInvariant', NEW c \in Callers, Told(c)
  PROVE  ListInvariant'
<1> DEFINE s == SessionOf[c]
<1>1. /\ call[c] \in Frame /\ call[c].at = "told" /\ ListTrue(call[c], s)
      /\ call \in [Callers -> Frame] /\ s \in Sessions
      /\ apps \in [Sessions -> SUBSET Handles]
  BY FrameFacts DEF ListInvariant, RunnerInvariant, RunnerTypeOK, Told, At
<1>2. \A t \in Sessions : apps'[t] \subseteq apps[t]
  BY ToldLists DEF ListInvariant
<1>3. call[c].op = "list" /\ call[c].h \in call[c].gone => call[c].h \notin apps'[s]
  BY <1>1 DEF ListTrue, Told, Forgetting
<1>4. SchedulerStep /\ UNCHANGED <<status, known>>
  BY DEF SchedulerStep, Told, schedulerVars
<1>5. PICK f : Become(c, f) /\ ToldAll(call[c], f)
  <2>1. ASSUME NEW res, Become(c, [call[c] EXCEPT !.at = "idle", !.todo = {}, !.res = res]),
               call[c].op = "list" => call[c].todo = {}
        PROVE  \E f : Become(c, f) /\ ToldAll(call[c], f)
    <3> DEFINE f == [call[c] EXCEPT !.at = "idle", !.todo = {}, !.res = res]
    <3>1. f.at = "idle" /\ f.gone = call[c].gone /\ f.op = call[c].op
      BY <1>1 DEF Frame
    <3>2. ToldAll(call[c], f)
      BY <2>1, <3>1 DEF ToldAll
    <3>3. QED
      BY <2>1, <3>2
  <2>2. ASSUME NEW label \in {"ask", "cancel"}, Become(c, [call[c] EXCEPT !.at = label])
        PROVE  \E f : Become(c, f) /\ ToldAll(call[c], f)
    <3> DEFINE f == [call[c] EXCEPT !.at = label]
    <3>1. f.at = label /\ f.gone = call[c].gone /\ f.op = call[c].op /\ f.todo = call[c].todo
      BY <1>1 DEF Frame
    <3>2. ToldAll(call[c], f)
      BY <3>1 DEF ToldAll
    <3>3. QED
      BY <2>2, <3>2
  <2>3. ASSUME NEW h \in call[c].todo,
               Become(c, [call[c] EXCEPT !.at = "ask", !.h = h, !.todo = @ \ {h}])
        PROVE  \E f : Become(c, f) /\ ToldAll(call[c], f)
    <3> DEFINE f == [call[c] EXCEPT !.at = "ask", !.h = h, !.todo = @ \ {h}]
    <3>1. /\ f.at = "ask" /\ f.gone = call[c].gone /\ f.op = call[c].op
          /\ f.h = h /\ f.todo = call[c].todo \ {h}
      BY <1>1 DEF Frame
    <3>2. ToldAll(call[c], f)
      BY <3>1 DEF ToldAll
    <3>3. QED
      BY <2>3, <3>2
  <2>4. CASE call[c].op = "list"
    BY <2>1, <2>3, <2>4 DEF Told, NextOfList, Return
  <2>5. CASE call[c].op # "list"
    BY <2>1, <2>2, <2>5 DEF Told, Return, Apart
  <2>6. QED
    BY <2>4, <2>5
<1>6. call'[c] = f /\ \A d \in Callers \ {c} : call'[d] = call[d]
  BY <1>1, <1>5 DEF Become
<1>7. ListTrue(call[c], SessionOf[c])'
  <2>1. \A h \in f.gone : h \in apps'[s] => h \in call[c].todo \/ f.op # "list"
    BY <1>1, <1>2, <1>3, <1>5 DEF ListTrue, ToldAll
  <2>2. QED
    BY <1>1, <1>4, <1>5, <1>6, <2>1 DEF ListTrue, Forgotten, Submitted, ToldAll
<1>8. QED
  BY <1>2, <1>4, <1>5, <1>6, <1>7, QuietStepKeeps DEF Submitted, ToldAll

\* A stop ends.
LEMMA ListCancelApp ==
  ASSUME ListInvariant, RunnerInvariant', NEW c \in Callers, CancelApp(c)
  PROVE  ListInvariant'
<1>0. PICK a \in Apps : a = AppOf(call[c].h)
  BY FrameFacts DEF ListInvariant, RunnerInvariant
<1>1. /\ call[c] \in Frame /\ call[c].op = "stop" /\ ListTrue(call[c], SessionOf[c])
      /\ call \in [Callers -> Frame]
  BY FrameFacts DEF ListInvariant, RunnerInvariant, RunnerTypeOK, FrameTrue, CancelApp, At
<1>2. PICK res : Return(c, res)
  BY DEF CancelApp
<1> DEFINE f == [call[c] EXCEPT !.at = "idle", !.todo = {}, !.res = res]
<1>3. f.at = "idle" /\ f.op = "stop" /\ f.gone = call[c].gone
  BY <1>1 DEF Frame
<1>4. call'[c] = f /\ \A d \in Callers \ {c} : call'[d] = call[d]
  BY <1>1, <1>2 DEF Return, Become
<1>5. (Scheduler!Cancel(a) \/ UNCHANGED schedulerVars) /\ apps' = apps
  BY <1>0 DEF CancelApp
<1>6. SchedulerStep
  BY <1>5 DEF SchedulerStep
<1>7. RunnerTypeOK /\ (\A b \in Apps : AppTrue(b)) /\ \A b \in Apps : Kept(b)
  BY <1>6, SchedulerKeeps DEF ListInvariant, RunnerInvariant
<1>8. \A h \in call[c].gone : AppOf(h) \in Apps
  BY <1>7, FrameFacts DEF AppOf, Handles
<1>9. ListTrue(call[c], SessionOf[c])'
  BY <1>1, <1>3, <1>4, <1>7, <1>8 DEF ListTrue, Kept
<1>10. \A b \in Apps : Submitted(b)' => Submitted(b)
  BY <1>5, <1>7 DEF schedulerVars, Scheduler!Cancel, Submitted, AppTrue,
     RunnerTypeOK, Scheduler!TypeOK
<1>11. QED
  BY <1>3, <1>4, <1>5, <1>6, <1>9, <1>10, QuietStepKeeps

\* Applications submit nothing and change no list.
LEMMA ListWork ==
  ASSUME ListInvariant, RunnerInvariant', Work, UNCHANGED <<apps, call>>
  PROVE  ListInvariant'
<1>1. SchedulerStep
  BY FrameFacts DEF Work, SchedulerStep, ListInvariant, RunnerInvariant
<1>2. RunnerTypeOK /\ \A a \in Apps : Kept(a)
  BY <1>1, SchedulerKeeps DEF ListInvariant, RunnerInvariant
<1>3. UNCHANGED status
  BY DEF Work, Scheduler!Start, Scheduler!End, Scheduler!Forget
<1>4. \A c \in Callers : ListTrue(call[c], SessionOf[c])'
  BY <1>2, ListStays DEF ListInvariant
<1>5. \A c \in Callers : Fresh(c)'
  BY <1>3 DEF ListInvariant, Fresh, Runs, Submitted
<1>6. QED
  BY <1>4, <1>5 DEF ListInvariant

\* Every step keeps the invariant.
LEMMA ListStep == ListInvariant /\ [RunnerNext]_runnerVars => ListInvariant'
<1> SUFFICES ASSUME ListInvariant, [RunnerNext]_runnerVars PROVE ListInvariant'
  OBVIOUS
<1>1. RunnerInvariant'
  BY RunnerStep DEF ListInvariant
<1>2. CASE UNCHANGED runnerVars
  <2>1. UNCHANGED <<status, work, known, apps, call>>
    BY <1>2 DEF runnerVars, schedulerVars
  <2>2. QED
    BY <1>1, <2>1 DEF ListInvariant, ListTrue, Fresh, Runs, Forgotten, Submitted
<1>3. ASSUME NEW c \in Callers, Progress(c)
      PROVE  ListInvariant'
  BY <1>1, <1>3, ListSchedule, ListRecord, ListAsk, ListTold, ListCancelApp DEF Progress
<1>4. ASSUME NEW c \in Callers, Invoke(c)
      PROVE  ListInvariant'
  BY <1>1, <1>4, ListRun, ListAskAbout, ListDescribeApp, ListList
     DEF Invoke, Status, Wait, Stop
<1>5. CASE Work /\ UNCHANGED <<apps, call>>
  BY <1>1, <1>5, ListWork
<1>6. QED
  BY <1>2, <1>3, <1>4, <1>5 DEF RunnerNext

\* Whatever the threads do, the invariant holds.
THEOREM ListInvariantHolds == RunnerSpec => []ListInvariant
BY ListStarts, ListStep, PTL DEF RunnerSpec

\* list does not show what the scheduler had forgotten when the call began.
THEOREM ListForgetsHolds == RunnerSpec => []ListForgets
<1>1. ListInvariant => ListForgets
  BY DEF ListInvariant, ListForgets, ListTrue, Returned, Idle
<1>2. QED
  BY <1>1, ListInvariantHolds, PTL
=============================================================================
