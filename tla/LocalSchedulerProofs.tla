------------------------ MODULE LocalSchedulerProofs ------------------------
(***************************************************************************)
(* Proofs about LocalScheduler, for any sets of applications and threads,  *)
(* any number of replicas and any cache size: its types, which error is    *)
(* reported, and that TruthInvariant is an invariant, whichever threads    *)
(* submit, with what follows from it.                                      *)
(***************************************************************************)
EXTENDS LocalSchedulerInv, TLAPS

USE ReplicasAssumption

\* Taking element i out of a sequence moves those behind it one place forward.
LEMMA RemoveAtElements ==
  ASSUME NEW S, NEW s \in Seq(S), NEW i \in DOMAIN s
  PROVE  /\ RemoveAt(s, i) \in Seq(S)
         /\ Len(RemoveAt(s, i)) = Len(s) - 1
         /\ DOMAIN RemoveAt(s, i) = 1 .. Len(s) - 1
         /\ \A j \in 1 .. Len(s) - 1 :
              RemoveAt(s, i)[j] = IF j < i THEN s[j] ELSE s[j + 1]
<1>1. /\ RemoveAt(s, i) \in Seq(S)
      /\ Len(RemoveAt(s, i)) = Len(s) - 1
      /\ DOMAIN RemoveAt(s, i) = 1 .. Len(s) - 1
  BY DEF RemoveAt
<1>2. \A j \in 1 .. Len(s) - 1 :
        RemoveAt(s, i)[j] = IF j < i THEN s[j] ELSE s[j + 1]
  <2>1. SubSeq(s, 1, i - 1) \in Seq(S) /\ SubSeq(s, i + 1, Len(s)) \in Seq(S)
    OBVIOUS
  <2> DEFINE a == SubSeq(s, 1, i - 1)
             b == SubSeq(s, i + 1, Len(s))
  <2>2. /\ Len(a) = i - 1 /\ \A j \in 1 .. i - 1 : a[j] = s[j]
        /\ Len(b) = Len(s) - i /\ \A j \in 1 .. Len(s) - i : b[j] = s[i + j]
    OBVIOUS
  <2>3. RemoveAt(s, i) = a \o b
    BY DEF RemoveAt
  <2> HIDE DEF a, b
  <2>4. TAKE j \in 1 .. Len(s) - 1
  <2>5. CASE j < i
    BY <2>2, <2>3, <2>5
  <2>6. CASE ~(j < i)
    <3>1. (a \o b)[j] = b[j - (i - 1)]
      BY <2>2, <2>6
    <3>2. QED
      BY <2>2, <2>3, <2>6, <3>1
  <2>7. QED
    BY <2>5, <2>6
<1>3. QED
  BY <1>1, <1>2

\* Taking an element out of a sequence leaves a sequence, one shorter, of
\* elements of the sequence.
LEMMA RemoveAtProperties ==
  ASSUME NEW S, NEW s \in Seq(S), NEW i \in DOMAIN s
  PROVE  /\ RemoveAt(s, i) \in Seq(S)
         /\ Len(RemoveAt(s, i)) = Len(s) - 1
         /\ \A j \in DOMAIN RemoveAt(s, i) :
              \E h \in DOMAIN s : h # i /\ RemoveAt(s, i)[j] = s[h]
         /\ \A h \in DOMAIN s : h # i =>
              \E j \in DOMAIN RemoveAt(s, i) : RemoveAt(s, i)[j] = s[h]
<1>1. /\ RemoveAt(s, i) \in Seq(S)
      /\ Len(RemoveAt(s, i)) = Len(s) - 1
      /\ DOMAIN RemoveAt(s, i) = 1 .. Len(s) - 1
  BY RemoveAtElements
<1>2. \A j \in 1 .. Len(s) - 1 :
        RemoveAt(s, i)[j] = IF j < i THEN s[j] ELSE s[j + 1]
  BY RemoveAtElements
<1>3. ASSUME NEW j \in 1 .. Len(s) - 1
      PROVE  \E h \in DOMAIN s : h # i /\ RemoveAt(s, i)[j] = s[h]
  <2>1. CASE j < i
    BY <1>2, <2>1
  <2>2. CASE ~(j < i)
    BY <1>2, <2>2
  <2>3. QED
    BY <2>1, <2>2
<1>4. ASSUME NEW h \in DOMAIN s, h # i
      PROVE  \E j \in 1 .. Len(s) - 1 : RemoveAt(s, i)[j] = s[h]
  <2>1. CASE h < i
    BY <1>2, <2>1
  <2>2. CASE ~(h < i)
    <3>1. h - 1 \in 1 .. Len(s) - 1 /\ ~(h - 1 < i)
      BY <1>4, <2>2
    <3>2. QED
      BY <1>2, <3>1
  <2>3. QED
    BY <2>1, <2>2
<1>5. QED
  BY <1>1, <1>3, <1>4

-----------------------------------------------------------------------------
(* Types *)

\* What every step of a thread does to its frame keeps it a frame.
LEMMA BecomeFrame ==
  ASSUME TypeOK, NEW c \in Callers, NEW f \in Frame, Become(c, f)
  PROVE  call' \in [Callers -> Frame]
BY DEF TypeOK, Become

\* The types of the fields of a frame.
LEMMA FrameFacts ==
  ASSUME TypeOK, NEW c \in Callers
  PROVE  /\ call[c] \in Frame
         /\ call[c].app \in Apps
         /\ call[c].k \in 1 .. NumReplicas + 1
         /\ call[c].k <= NumReplicas => call[c].k \in Replicas
         /\ call[c].seen \subseteq {"running", "failed"}
         /\ call[c].res \in AppStates \cup Errors \cup {"none", "ok"}
BY DEF TypeOK, Frame, Replicas

\* The first replica is in range even if there is none.
LEMMA FirstReplica == 1 \in 1 .. NumReplicas + 1
OBVIOUS

\* A return keeps frames frames.
LEMMA ReturnFrame ==
  ASSUME TypeOK, NEW c \in Callers,
         NEW r \in AppStates \cup Errors \cup {"none", "ok"}, Return(c, r)
  PROVE  call' \in [Callers -> Frame]
<1>1. [call[c] EXCEPT !.at = "idle", !.k = 1, !.seen = {}, !.res = r] \in Frame
  BY FrameFacts, FirstReplica DEF Frame
<1>2. QED
  BY <1>1, BecomeFrame DEF Return

\* A new frame is one.
LEMMA NewFrameType ==
  ASSUME NEW l \in {"idle", "prepare", "readerr", "signal"},
         NEW op \in {"none", "schedule", "describe", "cancel", "kill", "del"},
         NEW a \in Apps,
         NEW r \in AppStates \cup Errors \cup {"none", "ok"}
  PROVE  NewFrame(l, op, a, r) \in Frame
BY DEF NewFrame, Frame

\* The initial states are well typed.
LEMMA TypeInit == Init => TypeOK
<1> SUFFICES ASSUME Init PROVE TypeOK
  OBVIOUS
<1>1. call \in [Callers -> Frame]
  BY NewFrameType DEF Init
<1>2. state \in [Apps -> AppStates]
  BY DEF Init, AppStates
<1>3. proc \in [Apps -> [Replicas -> {"none", "alive", "zero", "nonzero"}]]
  BY DEF Init
<1>4. errs \in [Apps -> Seq(Replicas)] /\ cache \in Seq(Apps)
  BY DEF Init
<1>5. QED
  BY <1>1, <1>2, <1>3, <1>4 DEF Init, TypeOK

\* Every step of a thread or of a replica keeps every variable in its type.
LEMMA TypeStep == TypeOK /\ [Next]_vars => TypeOK'
<1> SUFFICES ASSUME TypeOK, [Next]_vars PROVE TypeOK'
  OBVIOUS
<1> USE DEF appVars, osVars
<1>1. ASSUME NEW c \in Callers, NEW a \in Apps, Schedule(c, a) PROVE TypeOK'
  <2>1. call' \in [Callers -> Frame]
    BY <1>1, NewFrameType, BecomeFrame DEF Schedule, Enter, Refuse, Errors
  <2>2. cache' \in Seq(Apps)
    BY <1>1, RemoveAtProperties DEF Schedule, EvictLru, Evictable, TypeOK
  <2>3. QED
    BY <1>1, <2>1, <2>2 DEF Schedule, TypeOK
<1>2. ASSUME NEW c \in Callers, Prepare(c) PROVE TypeOK'
  <2>1. call' \in [Callers -> Frame]
    <3>1. [call[c] EXCEPT !.at = "launch", !.k = 1] \in Frame
      BY FrameFacts, FirstReplica DEF Frame
    <3>2. QED
      BY <1>2, <3>1, ReturnFrame, BecomeFrame DEF Prepare, Errors
  <2>2. submitted' \in [Apps -> {"no", "launching", "yes", "failed"}]
    BY <1>2, FrameFacts DEF Prepare, TypeOK
  <2>3. QED
    BY <1>2, <2>1, <2>2 DEF Prepare, TypeOK
<1>3. ASSUME NEW c \in Callers, Launch(c) PROVE TypeOK'
  <2>1. call' \in [Callers -> Frame]
    <3>1. [call[c] EXCEPT !.k = call[c].k + 1] \in Frame
      BY <1>3, FrameFacts DEF Launch, Frame
    <3>2. QED
      BY <1>3, <3>1, ReturnFrame, BecomeFrame DEF Launch, Errors
  <2>2. submitted' \in [Apps -> {"no", "launching", "yes", "failed"}]
    BY <1>3, FrameFacts DEF Launch, TypeOK
  <2>3. proc' \in [Apps -> [Replicas -> {"none", "alive", "zero", "nonzero"}]]
    <3>1. [proc[call[c].app] EXCEPT ![call[c].k] = "alive"]
            \in [Replicas -> {"none", "alive", "zero", "nonzero"}]
      BY FrameFacts DEF TypeOK
    <3>2. QED
      BY <1>3, <3>1, FrameFacts DEF Launch, TypeOK
  <2>4. QED
    BY <1>3, <2>1, <2>2, <2>3 DEF Launch, TypeOK
<1>4. ASSUME NEW c \in Callers, Register(c) PROVE TypeOK'
  <2>1. call' \in [Callers -> Frame]
    BY <1>4, ReturnFrame DEF Register
  <2>2. QED
    BY <1>4, <2>1, FrameFacts DEF Register, TypeOK
<1>5. ASSUME NEW c \in Callers, NEW op \in {"describe", "cancel"},
             NEW a \in Apps, Query(c, op, a)
      PROVE  TypeOK'
  <2>1. call' \in [Callers -> Frame]
    BY <1>5, NewFrameType, BecomeFrame DEF Query, Enter, Refuse
  <2>2. QED
    BY <1>5, <2>1 DEF Query, TypeOK
<1>6. ASSUME NEW c \in Callers, ReadError(c) PROVE TypeOK'
  <2>1. [call[c] EXCEPT !.at = "check"] \in Frame
    BY FrameFacts DEF Frame
  <2>2. ASSUME errs[call[c].app] # <<>>
        PROVE  [call[c] EXCEPT !.at = "check", !.msg = ErrorFile(call[c].app)]
                 \in Frame
    <3>1. ErrorFile(call[c].app) \in Replicas
      BY <2>2, FrameFacts DEF TypeOK, ErrorFile
    <3>2. ErrorFile(call[c].app) \in 0 .. NumReplicas
      BY <3>1 DEF Replicas
    <3>3. QED
      BY <3>2, FrameFacts DEF Frame
  <2>3. call' \in [Callers -> Frame]
    BY <1>6, <2>1, <2>2, ReturnFrame, BecomeFrame DEF ReadError, Errors
  <2>4. QED
    BY <1>6, <2>3 DEF ReadError, TypeOK
<1>7. ASSUME NEW c \in Callers, CheckState(c) PROVE TypeOK'
  <2>1. [call[c] EXCEPT !.at = "poll", !.k = 1, !.seen = {}] \in Frame
    BY FrameFacts, FirstReplica DEF Frame
  <2>2. [call[c] EXCEPT !.at = "settle", !.res = state[call[c].app]] \in Frame
    <3>1. state[call[c].app] \in AppStates \cup Errors \cup {"none", "ok"}
      BY FrameFacts DEF TypeOK
    <3>2. QED
      BY <3>1, FrameFacts DEF Frame
  <2>3. call' \in [Callers -> Frame]
    BY <1>7, <2>1, <2>2, BecomeFrame DEF CheckState
  <2>4. QED
    BY <1>7, <2>3 DEF CheckState, TypeOK
<1>8. ASSUME NEW c \in Callers, Poll(c) PROVE TypeOK'
  <2> DEFINE fl == Flags(proc[call[c].app][call[c].k])
  <2>1. [call[c] EXCEPT !.k = call[c].k + 1, !.seen = call[c].seen \cup fl] \in Frame
    <3>1. fl \subseteq {"running", "failed"}
      BY DEF Flags
    <3>2. call[c].seen \cup fl \in SUBSET {"running", "failed"}
      BY <3>1, FrameFacts
    <3>3. call[c].k + 1 \in 1 .. NumReplicas + 1
      BY <1>8, FrameFacts DEF Poll
    <3>4. QED
      BY <3>2, <3>3, FrameFacts DEF Frame
  <2>2. call' \in [Callers -> Frame]
    BY <1>8, <2>1, BecomeFrame DEF Poll
  <2>3. QED
    BY <1>8, <2>2 DEF Poll, TypeOK
<1>9. ASSUME NEW c \in Callers, SetState(c) PROVE TypeOK'
  <2>1. Verdict(call[c].seen) \in AppStates
    BY DEF Verdict, AppStates
  <2>2. [call[c] EXCEPT !.at = "settle", !.k = 1, !.seen = {},
                        !.res = Verdict(call[c].seen)] \in Frame
    BY <2>1, FrameFacts, FirstReplica DEF Frame
  <2>3. call' \in [Callers -> Frame]
    BY <1>9, <2>2, BecomeFrame DEF SetState
  <2>4. /\ state' \in [Apps -> AppStates]
        /\ updatedBefore' \subseteq Apps \X Apps
    BY <1>9, <2>1, FrameFacts DEF SetState, TypeOK
  <2>5. QED
    BY <1>9, <2>3, <2>4 DEF SetState, TypeOK
<1>10. ASSUME NEW c \in Callers, Answer(c) PROVE call' \in [Callers -> Frame]
  <2>1. NewFrame("signal", "kill", call[c].app, "none") \in Frame
    BY FrameFacts, NewFrameType
  <2>2. QED
    BY <1>10, <2>1, FrameFacts, ReturnFrame, BecomeFrame
    DEF Answer, Enter, Errors
<1>11. ASSUME NEW c \in Callers, Settle(c) PROVE TypeOK'
  <2>1. [call[c] EXCEPT !.at = "signal", !.k = 1] \in Frame
    BY FrameFacts, FirstReplica DEF Frame
  <2>2. call' \in [Callers -> Frame]
    BY <1>11, <2>1, <1>10, BecomeFrame DEF Settle
  <2>3. QED
    BY <1>11, <2>2 DEF Settle, TypeOK
<1>12. ASSUME NEW c \in Callers, Signal(c) PROVE TypeOK'
  <2>1. [call[c] EXCEPT !.at = "reap"] \in Frame
    BY FrameFacts DEF Frame
  <2>2. call' \in [Callers -> Frame]
    BY <1>12, <2>1, BecomeFrame DEF Signal
  <2>3. signalled' \in [Apps -> SUBSET Replicas]
    BY <1>12, FrameFacts DEF Signal, TypeOK
  <2>4. QED
    BY <1>12, <2>2, <2>3 DEF Signal, TypeOK
<1>13. ASSUME NEW c \in Callers, Reap(c) PROVE TypeOK'
  <2>1. call[c].k + 1 \in 1 .. NumReplicas + 1
    BY <1>13, FrameFacts DEF Reap
  <2>2. [call[c] EXCEPT !.at = "signal", !.k = call[c].k + 1] \in Frame
    BY <2>1, FrameFacts DEF Frame
  <2>3. call' \in [Callers -> Frame]
    BY <1>13, <2>2, BecomeFrame DEF Reap
  <2>4. QED
    BY <1>13, <2>3 DEF Reap, TypeOK
<1>14. ASSUME NEW c \in Callers, Seal(c) PROVE TypeOK'
  <2>1. [call[c] EXCEPT !.at = "mark", !.k = 1] \in Frame
    BY FrameFacts, FirstReplica DEF Frame
  <2>2. call' \in [Callers -> Frame]
    BY <1>14, <2>1, <1>10, BecomeFrame DEF Seal
  <2>3. success' \in [Apps -> AppStates \cup {"none"}]
    BY <1>14, FrameFacts DEF Seal, TypeOK
  <2>4. QED
    BY <1>14, <2>2, <2>3 DEF Seal, TypeOK
<1>15. ASSUME NEW c \in Callers, Mark(c) PROVE TypeOK'
  <2>1. call' \in [Callers -> Frame]
    BY <1>15, ReturnFrame DEF Mark
  <2>2. QED
    BY <1>15, <2>1, FrameFacts DEF Mark, TypeOK, AppStates
<1>16. ASSUME NEW c \in Callers, Finalize(c) PROVE TypeOK'
  <2>1. cache # <<>> => cache[1] \in Apps
    BY DEF TypeOK
  <2>2. call' \in [Callers -> Frame]
    BY <1>16, <2>1, FrameFacts, NewFrameType, BecomeFrame
    DEF Finalize, Enter, Refuse
  <2>3. QED
    BY <1>16, <2>2 DEF Finalize, TypeOK
<1>17. ASSUME NEW c \in Callers, FinalizeNext(c) PROVE TypeOK'
  <2>1. PICK i \in DOMAIN cache :
          IF i = Len(cache) THEN Return(c, "ok")
                            ELSE Enter(c, "del", cache[i + 1], "signal")
    BY <1>17 DEF FinalizeNext
  <2>2. i # Len(cache) => cache[i + 1] \in Apps
    BY DEF TypeOK
  <2>3. call' \in [Callers -> Frame]
    BY <2>1, <2>2, ReturnFrame, NewFrameType, BecomeFrame DEF Enter
  <2>4. QED
    BY <1>17, <2>3 DEF FinalizeNext, TypeOK
<1>18. ASSUME NEW a \in Apps, NEW r \in Replicas, Exit(a, r) PROVE TypeOK'
  BY <1>18 DEF Exit, TypeOK
<1>19. ASSUME NEW a \in Apps, NEW r \in Replicas, StartError(a, r) PROVE TypeOK'
  BY <1>19 DEF StartError, TypeOK
<1>20. ASSUME NEW a \in Apps, NEW r \in Replicas, FinishError(a, r) PROVE TypeOK'
  <2>1. errs' \in [Apps -> Seq(Replicas)]
    BY <1>20, RemoveAtProperties DEF FinishError, TypeOK
  <2>2. QED
    BY <1>20, <2>1 DEF FinishError, TypeOK
<1>21. CASE UNCHANGED vars
  BY <1>21 DEF vars, TypeOK
<1>22. QED
  BY <1>1, <1>2, <1>3, <1>4, <1>5, <1>6, <1>7, <1>8, <1>9, <1>11, <1>12,
     <1>13, <1>14, <1>15, <1>16, <1>17, <1>18, <1>19, <1>20, <1>21
  DEF Next, Progress, Invoke, Environment, Describe, Cancel

\* In every behaviour every variable keeps its type.
THEOREM TypeCorrect == Spec => []TypeOK
BY TypeInit, TypeStep, PTL DEF Spec

-----------------------------------------------------------------------------
(* The error that a describe returns *)

\* m is the replica of a that completed its error file first, or there is none
First(a, m) == m # 0 => errs[a] # <<>> /\ errs[a][1] = m /\ m \notin torn[a]

\* It is so from the moment that a thread has read the file.
ErrorInvariant == \A c \in Callers : First(call[c].app, call[c].msg)

\* A thread that reads no error file moves on with the error it has, or none.
LEMMA KeepsError ==
  ASSUME TypeOK, ErrorInvariant, UNCHANGED <<errs, torn>>,
         NEW c \in Callers, NEW f, Become(c, f),
         f.msg = 0 \/ (f.msg = call[c].msg /\ f.app = call[c].app)
  PROVE  ErrorInvariant'
BY DEF TypeOK, ErrorInvariant, First, Become

\* Returning keeps the error, and what begins anew has none.
LEMMA ReturnsError ==
  ASSUME TypeOK, ErrorInvariant, UNCHANGED <<errs, torn>>, NEW c \in Callers,
         \/ \E r : Return(c, r)
         \/ \E op, a, l : Enter(c, op, a, l)
         \/ \E op, a, r : Refuse(c, op, a, r)
  PROVE  ErrorInvariant'
<1>1. ASSUME NEW r, Return(c, r) PROVE ErrorInvariant'
  <2> DEFINE f == [call[c] EXCEPT !.at = "idle", !.k = 1, !.seen = {}, !.res = r]
  <2>1. Become(c, f) /\ f.msg = call[c].msg /\ f.app = call[c].app
    BY <1>1, FrameFacts DEF Return, Frame
  <2>2. QED
    BY <2>1, KeepsError
<1>2. ASSUME NEW l, NEW op, NEW a, NEW r, Become(c, NewFrame(l, op, a, r))
      PROVE  ErrorInvariant'
  BY <1>2, KeepsError DEF NewFrame
<1>3. QED
  BY <1>1, <1>2 DEF Enter, Refuse

\* Reading takes the first of the error files, if it is complete.
LEMMA ReadsError ==
  ASSUME TypeOK, ErrorInvariant, NEW c \in Callers, ReadError(c)
  PROVE  ErrorInvariant'
<1>1. UNCHANGED <<errs, torn>>
  BY DEF ReadError, osVars
<1> DEFINE a == call[c].app
           f == [call[c] EXCEPT !.at = "check", !.msg = ErrorFile(a)]
<1>2. CASE errs[a] # <<>> /\ ErrorFile(a) \notin torn[a] /\ Become(c, f)
  <2>1. f.app = a /\ f.msg = ErrorFile(a)
    BY FrameFacts DEF Frame
  <2>2. call'[c] = f /\ \A d \in Callers : d # c => call'[d] = call[d]
    BY <1>2 DEF TypeOK, Become
  <2>3. call'[c].app = a /\ call'[c].msg = errs[a][1]
    BY <2>1, <2>2 DEF ErrorFile
  <2>4. First(call[c].app, call[c].msg)'
    BY <1>1, <1>2, <2>3 DEF First, ErrorFile
  <2> HIDE DEF f
  <2>5. \A d \in Callers : d # c => First(call[d].app, call[d].msg)'
    BY <1>1, <2>2 DEF ErrorInvariant, First
  <2>6. QED
    BY <2>4, <2>5 DEF ErrorInvariant
<1>3. CASE Become(c, [call[c] EXCEPT !.at = "check"])
  <2> DEFINE g == [call[c] EXCEPT !.at = "check"]
  <2>1. g.msg = call[c].msg /\ g.app = call[c].app
    BY FrameFacts DEF Frame
  <2>2. QED
    BY <1>1, <1>3, <2>1, KeepsError
<1>4. CASE Return(c, "JSONDecodeError")
  BY <1>1, <1>4, ReturnsError
<1>5. QED
  BY <1>2, <1>3, <1>4 DEF ReadError

\* No step of a thread replaces the error it has by another.
LEMMA ThreadsKeepError ==
  ASSUME TypeOK, ErrorInvariant, NEW c \in Callers, Progress(c) \/ Invoke(c)
  PROVE  ErrorInvariant'
<1> USE DEF osVars, appVars
<1>1. ASSUME NEW f, Become(c, f), UNCHANGED <<errs, torn>>,
             f.msg = call[c].msg /\ f.app = call[c].app
      PROVE  ErrorInvariant'
  BY <1>1, KeepsError
<1>2. call[c] \in Frame
  BY FrameFacts
<1>3. CASE \/ \E a \in Apps : Schedule(c, a) \/ Describe(c, a) \/ Cancel(c, a)
           \/ Finalize(c) \/ FinalizeNext(c) \/ Register(c) \/ Mark(c)
  BY <1>3, ReturnsError
  DEF Schedule, Describe, Cancel, Query, Finalize, FinalizeNext, Register, Mark
<1>4. CASE Prepare(c)
  <2>1. [call[c] EXCEPT !.at = "launch", !.k = 1].msg = call[c].msg
        /\ [call[c] EXCEPT !.at = "launch", !.k = 1].app = call[c].app
    BY <1>2 DEF Frame
  <2>2. QED
    BY <1>1, <1>4, <2>1, ReturnsError DEF Prepare
<1>5. CASE Launch(c)
  <2>1. [call[c] EXCEPT !.k = call[c].k + 1].msg = call[c].msg
        /\ [call[c] EXCEPT !.k = call[c].k + 1].app = call[c].app
    BY <1>2 DEF Frame
  <2>2. QED
    BY <1>1, <1>5, <2>1, ReturnsError DEF Launch
<1>6. CASE CheckState(c) \/ Poll(c) \/ SetState(c)
  <2>1. \A s : LET f == [call[c] EXCEPT !.at = "settle", !.res = s]
               IN f.msg = call[c].msg /\ f.app = call[c].app
    BY <1>2 DEF Frame
  <2>2. LET f == [call[c] EXCEPT !.at = "poll", !.k = 1, !.seen = {}]
        IN f.msg = call[c].msg /\ f.app = call[c].app
    BY <1>2 DEF Frame
  <2>3. \A n, s : LET f == [call[c] EXCEPT !.k = n, !.seen = s]
                  IN f.msg = call[c].msg /\ f.app = call[c].app
    BY <1>2 DEF Frame
  <2>4. \A s : LET f == [call[c] EXCEPT !.at = "settle", !.k = 1, !.seen = {},
                                        !.res = s]
               IN f.msg = call[c].msg /\ f.app = call[c].app
    BY <1>2 DEF Frame
  <2>5. CASE CheckState(c)
    BY <1>1, <2>1, <2>2, <2>5 DEF CheckState
  <2>6. CASE Poll(c)
    BY <1>1, <2>3, <2>6 DEF Poll
  <2>7. CASE SetState(c)
    BY <1>1, <2>4, <2>7 DEF SetState
  <2>8. QED
    BY <1>6, <2>5, <2>6, <2>7
<1>7. ASSUME Answer(c), UNCHANGED <<errs, torn>> PROVE ErrorInvariant'
  BY <1>7, ReturnsError DEF Answer
<1>8. CASE Settle(c) \/ Signal(c) \/ Reap(c) \/ Seal(c)
  <2>1. \A l, n : LET f == [call[c] EXCEPT !.at = l, !.k = n]
                  IN f.msg = call[c].msg /\ f.app = call[c].app
    BY <1>2 DEF Frame
  <2>2. LET f == [call[c] EXCEPT !.at = "reap"]
        IN f.msg = call[c].msg /\ f.app = call[c].app
    BY <1>2 DEF Frame
  <2>3. CASE Settle(c)
    BY <1>1, <1>7, <2>1, <2>3 DEF Settle
  <2>4. CASE Signal(c)
    BY <1>1, <2>2, <2>4 DEF Signal
  <2>5. CASE Reap(c)
    BY <1>1, <2>1, <2>5 DEF Reap
  <2>6. CASE Seal(c)
    BY <1>1, <1>7, <2>1, <2>6 DEF Seal
  <2>7. QED
    BY <1>8, <2>3, <2>4, <2>5, <2>6
<1>9. QED
  BY <1>3, <1>4, <1>5, <1>6, <1>8, ReadsError DEF Progress, Invoke

\* A replica that begins its error file comes last, and one that completes it
\* moves to the end; the first complete one stays where it is.
LEMMA ReplicasKeepError ==
  ASSUME TypeOK, ErrorInvariant, Environment
  PROVE  ErrorInvariant'
<1>1. PICK a \in Apps, r \in Replicas :
        Exit(a, r) \/ StartError(a, r) \/ FinishError(a, r)
  BY DEF Environment
<1>2. call' = call
  BY <1>1 DEF Exit, StartError, FinishError
<1>3. SUFFICES ASSUME NEW c \in Callers,
                      First(call[c].app, call[c].msg), call[c].msg # 0
               PROVE  First(call[c].app, call[c].msg)'
  BY <1>2 DEF ErrorInvariant, First
<1> DEFINE b == call[c].app
           m == call[c].msg
<1>4. b \in Apps /\ errs[b] \in Seq(Replicas) /\ 1 \in DOMAIN errs[b]
      /\ errs[b][1] = m /\ m \notin torn[b]
  BY <1>3, FrameFacts DEF First, TypeOK
<1>5. CASE errs'[b] = errs[b] /\ torn'[b] = torn[b]
  BY <1>2, <1>3, <1>5 DEF First
<1>6. CASE b = a /\ StartError(a, r)
  <2>1. r # m /\ errs'[b] = Append(errs[b], r) /\ torn'[b] = torn[b] \cup {r}
    BY <1>4, <1>6 DEF StartError, HasErrorFile, TypeOK
  <2>2. errs'[b] # <<>> /\ errs'[b][1] = m
    BY <1>4, <2>1
  <2>3. QED
    BY <1>2, <1>4, <2>1, <2>2 DEF First
<1>7. CASE b = a /\ FinishError(a, r)
  <2>1. PICK i \in DOMAIN errs[b] :
          errs[b][i] = r /\ errs'[b] = Append(RemoveAt(errs[b], i), r)
    BY <1>7 DEF FinishError, TypeOK
  <2>2. torn'[b] = torn[b] \ {r} /\ r \in torn[b]
    BY <1>7 DEF FinishError, TypeOK
  <2> DEFINE rest == RemoveAt(errs[b], i)
  <2>3. i # 1
    BY <1>4, <2>1, <2>2
  <2>4. rest \in Seq(Replicas) /\ Len(rest) = Len(errs[b]) - 1
        /\ \A j \in 1 .. Len(errs[b]) - 1 :
             rest[j] = IF j < i THEN errs[b][j] ELSE errs[b][j + 1]
    BY <1>4, RemoveAtElements
  <2> HIDE DEF rest
  <2>5. 1 \in 1 .. Len(errs[b]) - 1 /\ 1 < i
    BY <1>4, <2>3
  <2>6. rest[1] = m /\ Len(rest) >= 1
    BY <1>4, <2>4, <2>5
  <2>7. errs'[b] # <<>> /\ errs'[b][1] = m
    BY <2>1, <2>4, <2>6 DEF rest
  <2>8. QED
    BY <1>2, <1>4, <2>2, <2>7 DEF First
<1>8. QED
  BY <1>1, <1>4, <1>5, <1>6, <1>7 DEF Exit, StartError, FinishError, TypeOK

\* Whatever threads and replicas do, and however many there are, a describe
\* that returns an error returns that of the replica that completed its error
\* file first, because nothing comes before a file that is complete.
THEOREM FirstErrorReportedHolds == Spec => []FirstErrorReported
<1>1. Init => ErrorInvariant
  <2>1. SUFFICES ASSUME Init PROVE ErrorInvariant
    OBVIOUS
  <2>2. \A c \in Callers : call[c].msg = 0
    BY <2>1 DEF Init, NewFrame
  <2>3. QED
    BY <2>2 DEF ErrorInvariant, First
<1>2. TypeOK /\ ErrorInvariant /\ [Next]_vars => ErrorInvariant'
  <2>1. SUFFICES ASSUME TypeOK, ErrorInvariant, [Next]_vars PROVE ErrorInvariant'
    OBVIOUS
  <2>2. CASE UNCHANGED vars
    BY <2>1, <2>2 DEF vars, osVars, ErrorInvariant, First
  <2>3. QED
    BY <2>1, <2>2, ThreadsKeepError, ReplicasKeepError DEF Next
<1>3. ErrorInvariant => FirstErrorReported
  BY DEF ErrorInvariant, First, FirstErrorReported
<1>4. QED
  BY <1>1, <1>2, <1>3, TypeCorrect, PTL DEF Spec

-----------------------------------------------------------------------------
(* What no step takes away *)

\* An application that was found in the cache once stays registered, and its
\* replicas that have exited keep their exit code.
Settled ==
  \A a \in Apps :
    /\ Registered(a) =>
         /\ Registered(a)'
         /\ \A r \in Replicas : ~Alive(a, r) => proc'[a][r] = proc[a][r]
    /\ \A r \in Replicas : proc[a][r] # "none" => proc'[a][r] # "none"

\* A true statement about a registered application stays true.
LEMMA KeepTrueOf ==
  ASSUME Settled, NEW a \in Apps, Registered(a), NEW s, TrueOf(a, s)
  PROVE  TrueOf(a, s)'
BY DEF Settled, TrueOf, Exited, Alive, IsTerminal

\* What a thread knows stays true while other threads and replicas go on.
LEMMA KeepFrame ==
  ASSUME Settled, NEW f \in Frame, FrameTrue(f),
         f.at = "launch" => submitted'[f.app] = submitted[f.app]
  PROVE  FrameTrue(f)'
<1>1. f.app \in Apps
  BY DEF Frame
<1>2. (f.at \in Found => Registered(f.app))'
  BY <1>1 DEF FrameTrue, Settled
<1>3. (IsTerminal(f.res) => Registered(f.app) /\ TrueOf(f.app, f.res))'
  BY <1>1, KeepTrueOf DEF FrameTrue, Settled, IsTerminal
<1>4. LaunchTrue(f)'
  BY <1>1 DEF FrameTrue, LaunchTrue, Settled
<1>5. PollTrue(f)'
  BY <1>1 DEF FrameTrue, PollTrue, Settled, Found, Alive
<1>6. CloseTrue(f)'
  BY <1>1 DEF FrameTrue, CloseTrue, Settled, Found, Exited, Alive
<1>7. QED
  BY <1>2, <1>3, <1>4, <1>5, <1>6 DEF FrameTrue

\* A step of thread c leaves the frames of all threads true if it leaves its
\* own true and does not meddle with the launches of others.
LEMMA KeepFrames ==
  ASSUME TruthInvariant, Settled, NEW c \in Callers, NEW f \in Frame,
         Become(c, f), FrameTrue(f)',
         \A d \in Callers \ {c} : At(d, "launch") =>
           submitted'[call[d].app] = submitted[call[d].app]
  PROVE  \A d \in Callers : FrameTrue(call[d])'
<1> TAKE d \in Callers
<1>1. CASE d = c
  <2>1. call'[d] = f
    BY <1>1 DEF TruthInvariant, TypeOK, Become
  <2>2. QED
    BY <2>1 DEF FrameTrue, LaunchTrue, PollTrue, CloseTrue
<1>2. CASE d # c
  <2>1. call'[d] = call[d] /\ call[d] \in Frame
    BY <1>2 DEF TruthInvariant, TypeOK, Become
  <2>2. PICK g \in Frame : g = call[d]
    BY <2>1
  <2>3. FrameTrue(g)
    BY <2>2 DEF TruthInvariant
  <2>4. FrameTrue(g)'
    BY <1>2, <2>2, <2>3, KeepFrame DEF At
  <2>5. call'[d] = g
    BY <2>1, <2>2
  <2>6. QED
    BY <2>4, <2>5 DEF FrameTrue, LaunchTrue, PollTrue, CloseTrue
<1>3. QED
  BY <1>1, <1>2

-----------------------------------------------------------------------------
(* Steps that only move a thread on *)

\* A step of thread c that leaves the scheduler's memory alone preserves the
\* invariant if its new frame is true.
LEMMA QuietStep ==
  ASSUME TruthInvariant, TypeOK', NEW c \in Callers, NEW f \in Frame,
         Become(c, f), f.at # "launch", FrameTrue(f),
         UNCHANGED <<cache, state, submitted, success, proc>>
  PROVE  TruthInvariant'
<1>1. Settled
  BY DEF Settled, Registered, Alive
<1>2. \A d \in Callers : FrameTrue(call[d])'
  <2>1. FrameTrue(f)'
    BY <1>1, KeepFrame
  <2>2. QED
    BY <1>1, <2>1, KeepFrames
<1>3. LaunchingAlone'
  BY DEF TruthInvariant, TypeOK, LaunchingAlone, At, Become
<1>4. CacheRegistered'
  BY DEF TruthInvariant, CacheRegistered, Registered
<1>5. \A a \in Apps : AppTrue(a)'
  BY DEF TruthInvariant, AppTrue, Registered, Cached, TrueOf, Exited, Alive
<1>6. QED
  BY <1>2, <1>3, <1>4, <1>5 DEF TruthInvariant

\* So does one that changes nothing but the frame.
LEMMA CallStep ==
  ASSUME TruthInvariant, NEW c \in Callers, NEW f \in Frame, Become(c, f),
         UNCHANGED <<appVars, osVars>>, f.at # "launch", FrameTrue(f)
  PROVE  TruthInvariant'
<1>1. TypeOK'
  BY BecomeFrame DEF TruthInvariant, TypeOK, appVars, osVars
<1>2. QED
  BY <1>1, QuietStep DEF appVars, osVars

\* The fields of a new frame.
LEMMA NewFrameFields ==
  ASSUME NEW l, NEW op, NEW a, NEW r
  PROVE  /\ NewFrame(l, op, a, r).at = l
         /\ NewFrame(l, op, a, r).op = op
         /\ NewFrame(l, op, a, r).app = a
         /\ NewFrame(l, op, a, r).k = 1
         /\ NewFrame(l, op, a, r).res = r
BY DEF NewFrame

\* A new frame is true of an application that the step found in the cache, or
\* if the call does not look for one.
LEMMA NewFrameTrue ==
  ASSUME TruthInvariant, NEW op, NEW a \in Apps,
         NEW l \in {"idle", "prepare", "readerr", "signal"},
         NEW r \in Errors \cup {"none", "ok"},
         l \in Found => Registered(a),
         l = "signal" => op \in {"kill", "del"}
  PROVE  FrameTrue(NewFrame(l, op, a, r))
BY NewFrameFields
   DEF FrameTrue, LaunchTrue, PollTrue, CloseTrue, IsTerminal, TerminalStates,
       Errors, Replicas

\* Returning keeps a frame true, whatever is raised, or if what is returned is.
LEMMA ReturnTrue ==
  ASSUME TruthInvariant, NEW c \in Callers,
         NEW r \in AppStates \cup Errors \cup {"none", "ok"}, Return(c, r),
         IsTerminal(r) => Registered(call[c].app) /\ TrueOf(call[c].app, r)
  PROVE  \E f \in Frame : Become(c, f) /\ f.at = "idle" /\ FrameTrue(f)
<1>1. PICK f : f = [call[c] EXCEPT !.at = "idle", !.k = 1, !.seen = {}, !.res = r]
  OBVIOUS
<1>2. f \in Frame
  BY <1>1, FrameFacts, FirstReplica DEF Frame, TruthInvariant
<1>3. f.at = "idle" /\ f.app = call[c].app /\ f.res = r
  BY <1>1, FrameFacts DEF Frame, TruthInvariant
<1>4. FrameTrue(f)
  BY <1>3 DEF FrameTrue, LaunchTrue, PollTrue, CloseTrue, Found
<1>5. QED
  BY <1>1, <1>2, <1>3, <1>4 DEF Return

\* A return that changes nothing else preserves the invariant.
LEMMA ReturnStep ==
  ASSUME TruthInvariant, NEW c \in Callers,
         NEW r \in AppStates \cup Errors \cup {"none", "ok"}, Return(c, r),
         UNCHANGED <<appVars, osVars>>,
         IsTerminal(r) => Registered(call[c].app) /\ TrueOf(call[c].app, r)
  PROVE  TruthInvariant'
<1>1. PICK f \in Frame : Become(c, f) /\ f.at = "idle" /\ FrameTrue(f)
  BY ReturnTrue
<1>2. QED
  BY <1>1, CallStep

\* What is in the cache has been registered.
LEMMA CachedRegistered ==
  ASSUME TruthInvariant, NEW a \in Apps, Cached(a)
  PROVE  Registered(a)
BY DEF TruthInvariant, CacheRegistered, Cached

-----------------------------------------------------------------------------
\* describe and cancel look the application up.
LEMMA TruthQuery ==
  ASSUME TruthInvariant, NEW c \in Callers, NEW a \in Apps,
         NEW op \in {"describe", "cancel"}, Query(c, op, a)
  PROVE  TruthInvariant'
<1>1. CASE Cached(a) /\ Enter(c, op, a, "readerr")
  <2>1. FrameTrue(NewFrame("readerr", op, a, "none"))
    BY <1>1, CachedRegistered, NewFrameTrue
  <2>2. QED
    BY <1>1, <2>1, CallStep, NewFrameType, NewFrameFields DEF Enter, Query
<1>2. CASE Refuse(c, op, a, "none")
  <2>1. FrameTrue(NewFrame("idle", op, a, "none"))
    BY NewFrameTrue DEF Found
  <2>2. QED
    BY <1>2, <2>1, CallStep, NewFrameType, NewFrameFields DEF Refuse, Query
<1>3. QED
  BY <1>1, <1>2 DEF Query

\* describe reads the error file, or raises.
LEMMA TruthReadError ==
  ASSUME TruthInvariant, NEW c \in Callers, ReadError(c)
  PROVE  TruthInvariant'
<1> DEFINE a == call[c].app
<1>1. CASE Return(c, "JSONDecodeError")
  BY <1>1, ReturnStep DEF ReadError, Errors, IsTerminal, TerminalStates
<1>2. ASSUME NEW f \in Frame, Become(c, f), f.at = "check", f.app = a,
             f.res = call[c].res
      PROVE  TruthInvariant'
  <2>1. FrameTrue(call[c])
    BY DEF TruthInvariant
  <2>2. FrameTrue(f)
    BY <1>2, <2>1 DEF ReadError, At, FrameTrue, LaunchTrue, PollTrue, CloseTrue,
                      Found
  <2>3. QED
    BY <1>2, <2>2, CallStep DEF ReadError
<1>3. CASE Become(c, [call[c] EXCEPT !.at = "check"])
  <2>1. PICK f : f = [call[c] EXCEPT !.at = "check"]
    OBVIOUS
  <2>2. f \in Frame /\ f.at = "check" /\ f.app = a /\ f.res = call[c].res
    BY <2>1, FrameFacts DEF Frame, TruthInvariant
  <2>3. QED
    BY <1>2, <1>3, <2>1, <2>2
<1>4. CASE /\ errs[a] # <<>>
           /\ Become(c, [call[c] EXCEPT !.at = "check", !.msg = ErrorFile(a)])
  <2>1. ErrorFile(a) \in 0 .. NumReplicas
    BY <1>4, FrameFacts DEF TruthInvariant, TypeOK, ErrorFile, Replicas
  <2>2. PICK f : f = [call[c] EXCEPT !.at = "check", !.msg = ErrorFile(a)]
    OBVIOUS
  <2>3. f \in Frame /\ f.at = "check" /\ f.app = a /\ f.res = call[c].res
    BY <2>1, <2>2, FrameFacts DEF Frame, TruthInvariant
  <2>4. QED
    BY <1>2, <1>4, <2>2, <2>3
<1>5. QED
  BY <1>1, <1>3, <1>4 DEF ReadError

\* describe relies on a terminal state that is recorded.
LEMMA TruthCheckState ==
  ASSUME TruthInvariant, NEW c \in Callers, CheckState(c)
  PROVE  TruthInvariant'
<1> DEFINE a == call[c].app
           s == state[a]
<1>1. FrameTrue(call[c]) /\ Registered(a)
  BY DEF TruthInvariant, FrameTrue, CheckState, At, Found
<1>2. a \in Apps /\ s \in AppStates /\ TrueOf(a, s)
  BY FrameFacts DEF TruthInvariant, TypeOK, AppTrue
<1>3. CASE IsTerminal(s) /\ Become(c, [call[c] EXCEPT !.at = "settle", !.res = s])
  <2>1. PICK f : f = [call[c] EXCEPT !.at = "settle", !.res = s]
    OBVIOUS
  <2>2. f \in Frame /\ f.at = "settle" /\ f.app = a /\ f.res = s
    BY <1>2, <2>1, FrameFacts DEF Frame, TruthInvariant
  <2>3. FrameTrue(f)
    BY <1>1, <1>2, <2>2 DEF FrameTrue, LaunchTrue, PollTrue, CloseTrue
  <2>4. QED
    BY <1>3, <2>1, <2>2, <2>3, CallStep DEF CheckState
<1>4. CASE Become(c, [call[c] EXCEPT !.at = "poll", !.k = 1, !.seen = {}])
  <2>1. PICK f : f = [call[c] EXCEPT !.at = "poll", !.k = 1, !.seen = {}]
    OBVIOUS
  <2>2. f \in Frame
    BY <2>1, FrameFacts, FirstReplica DEF Frame, TruthInvariant
  <2>3. /\ f.at = "poll" /\ f.app = a /\ f.res = call[c].res
        /\ f.k = 1 /\ f.seen = {}
    BY <2>1, FrameFacts DEF Frame, TruthInvariant
  <2>4. FrameTrue(f)
    BY <1>1, <2>3 DEF FrameTrue, LaunchTrue, PollTrue, CloseTrue, Replicas
  <2>5. QED
    BY <1>4, <2>1, <2>2, <2>3, <2>4, CallStep DEF CheckState
<1>5. QED
  BY <1>3, <1>4 DEF CheckState

\* describe learns one more exit code: the replicas it has polled may only have
\* exited since.
LEMMA TruthPoll ==
  ASSUME TruthInvariant, NEW c \in Callers, Poll(c)
  PROVE  TruthInvariant'
<1> DEFINE a == call[c].app
           k == call[c].k
           fl == Flags(proc[a][k])
<1>1. /\ FrameTrue(call[c]) /\ Registered(a) /\ a \in Apps /\ k \in Replicas
      /\ call[c].at = "poll"
  BY FrameFacts DEF TruthInvariant, FrameTrue, Poll, At, Found
<1>2. /\ proc[a][k] \in {"alive", "zero", "nonzero"}
      /\ call[c].seen \subseteq {"running", "failed"}
  BY <1>1, FrameFacts DEF TruthInvariant, AppTrue, TypeOK
<1>3. PICK f : f = [call[c] EXCEPT !.k = k + 1, !.seen = call[c].seen \cup fl]
  OBVIOUS
<1>4. f \in Frame
  <2>1. fl \subseteq {"running", "failed"}
    BY DEF Flags
  <2>2. call[c].seen \cup fl \in SUBSET {"running", "failed"}
    BY <1>2, <2>1
  <2>3. k + 1 \in 1 .. NumReplicas + 1
    BY <1>1 DEF Replicas
  <2>4. QED
    BY <1>3, <2>2, <2>3, FrameFacts DEF Frame, TruthInvariant
<1>5. /\ f.at = "poll" /\ f.app = a /\ f.res = call[c].res
      /\ f.k = k + 1 /\ f.seen = call[c].seen \cup fl
  BY <1>1, <1>3, FrameFacts DEF Frame, TruthInvariant
<1>6. PollTrue(f)
  <2>1. ASSUME NEW r \in Replicas, r < f.k, "running" \notin f.seen
        PROVE  /\ ~Alive(a, r)
               /\ "failed" \notin f.seen => proc[a][r] = "zero"
    <3>1. CASE r < k
      BY <1>1, <1>5, <2>1, <3>1 DEF FrameTrue, PollTrue
    <3>2. CASE r = k
      BY <1>2, <1>5, <2>1, <3>2 DEF Flags, Alive
    <3>3. QED
      BY <1>1, <1>5, <2>1, <3>1, <3>2 DEF Replicas
  <2>2. ASSUME "failed" \in f.seen
        PROVE  \E r \in Replicas : proc[a][r] = "nonzero"
    <3>1. CASE "failed" \in call[c].seen
      BY <1>1, <3>1 DEF FrameTrue, PollTrue
    <3>2. CASE "failed" \in fl
      BY <1>1, <3>2 DEF Flags
    <3>3. QED
      BY <1>5, <2>2, <3>1, <3>2
  <2>3. QED
    BY <1>5, <2>1, <2>2 DEF PollTrue
<1>7. FrameTrue(f)
  BY <1>1, <1>5, <1>6 DEF FrameTrue, LaunchTrue, CloseTrue
<1>8. QED
  BY <1>3, <1>4, <1>5, <1>7, CallStep DEF Poll

\* The answer of a describe is true if its frame is; a cancel goes on to close
\* an application that it found again.
LEMMA AnswerTrue ==
  ASSUME TruthInvariant, NEW c \in Callers, Answer(c)
  PROVE  \E f \in Frame : Become(c, f) /\ f.at # "launch" /\ FrameTrue(f)
<1>1. /\ FrameTrue(call[c]) /\ call[c].app \in Apps
      /\ call[c].res \in AppStates \cup Errors \cup {"none", "ok"}
  BY FrameFacts DEF TruthInvariant
<1>2. CASE Return(c, call[c].res)
  BY <1>1, <1>2, ReturnTrue DEF FrameTrue
<1>3. CASE Cached(call[c].app) /\ Enter(c, "kill", call[c].app, "signal")
  <2>1. FrameTrue(NewFrame("signal", "kill", call[c].app, "none"))
    BY <1>1, <1>3, CachedRegistered, NewFrameTrue
  <2>2. QED
    BY <1>1, <1>3, <2>1, NewFrameType, NewFrameFields DEF Enter
<1>4. CASE Return(c, "KeyError")
  BY <1>4, ReturnTrue DEF Errors, IsTerminal, TerminalStates
<1>5. QED
  BY <1>2, <1>3, <1>4 DEF Answer

\* A closing frame that has waited for every replica is about an application
\* that has exited.
LEMMA WaitedForAll ==
  ASSUME TruthInvariant, NEW c \in Callers, call[c].at \in {"signal", "reap"},
         call[c].k > NumReplicas
  PROVE  Exited(call[c].app)
<1>1. FrameTrue(call[c])
  BY DEF TruthInvariant
<1>2. \A r \in Replicas : r < call[c].k
  BY FrameFacts DEF TruthInvariant, Replicas
<1>3. QED
  BY <1>1, <1>2 DEF FrameTrue, CloseTrue, Exited

\* describe closes an application in a terminal state, and no other.
LEMMA TruthSettle ==
  ASSUME TruthInvariant, NEW c \in Callers, Settle(c)
  PROVE  TruthInvariant'
<1> DEFINE a == call[c].app
<1>1. FrameTrue(call[c]) /\ Registered(a) /\ a \in Apps
  BY FrameFacts DEF TruthInvariant, FrameTrue, Settle, At, Found
<1>2. CASE /\ IsTerminal(state[a])
           /\ Become(c, [call[c] EXCEPT !.at = "signal", !.k = 1])
  <2>1. Exited(a)
    BY <1>1, <1>2 DEF TruthInvariant, AppTrue, TrueOf
  <2>2. PICK f : f = [call[c] EXCEPT !.at = "signal", !.k = 1]
    OBVIOUS
  <2>3. f \in Frame
    BY <2>2, FrameFacts, FirstReplica DEF Frame, TruthInvariant
  <2>4. f.at = "signal" /\ f.app = a /\ f.res = call[c].res
    BY <2>2, FrameFacts DEF Frame, TruthInvariant
  <2>5. FrameTrue(f)
    BY <1>1, <2>1, <2>4 DEF FrameTrue, LaunchTrue, PollTrue, CloseTrue, Exited
  <2>6. QED
    BY <1>2, <2>2, <2>3, <2>4, <2>5, CallStep DEF Settle
<1>3. CASE Answer(c)
  BY <1>3, AnswerTrue, CallStep DEF Settle
<1>4. QED
  BY <1>2, <1>3 DEF Settle

\* close has waited for one more replica.
LEMMA TruthReap ==
  ASSUME TruthInvariant, NEW c \in Callers, Reap(c)
  PROVE  TruthInvariant'
<1> DEFINE a == call[c].app
           k == call[c].k
<1>1. FrameTrue(call[c]) /\ Registered(a) /\ a \in Apps /\ k \in Replicas
  BY FrameFacts DEF TruthInvariant, FrameTrue, Reap, At, Found
<1>2. PICK f : f = [call[c] EXCEPT !.at = "signal", !.k = k + 1]
  OBVIOUS
<1>3. f \in Frame
  <2>1. k + 1 \in 1 .. NumReplicas + 1
    BY <1>1 DEF Replicas
  <2>2. QED
    BY <1>2, <2>1, FrameFacts DEF Frame, TruthInvariant
<1>4. /\ f.at = "signal" /\ f.app = a /\ f.res = call[c].res
      /\ f.op = call[c].op /\ f.k = k + 1
  BY <1>2, FrameFacts DEF Frame, TruthInvariant
<1>5. \A r \in Replicas : r < k + 1 => r < k \/ r = k
  BY <1>1 DEF Replicas
<1>6. FrameTrue(f)
  BY <1>1, <1>4, <1>5 DEF FrameTrue, LaunchTrue, PollTrue, CloseTrue, Reap, At
<1>7. QED
  BY <1>2, <1>3, <1>4, <1>6, CallStep DEF Reap

\* The finalizer goes on to another registered application.
LEMMA TruthFinalizeNext ==
  ASSUME TruthInvariant, NEW c \in Callers, FinalizeNext(c)
  PROVE  TruthInvariant'
<1>1. PICK i \in DOMAIN cache :
        IF i = Len(cache) THEN Return(c, "ok")
                          ELSE Enter(c, "del", cache[i + 1], "signal")
  BY DEF FinalizeNext
<1>2. CASE Return(c, "ok")
  BY <1>2, ReturnStep DEF FinalizeNext, IsTerminal, TerminalStates
<1>3. CASE i # Len(cache) /\ Enter(c, "del", cache[i + 1], "signal")
  <2>1. cache[i + 1] \in Apps /\ Registered(cache[i + 1])
    BY <1>3 DEF TruthInvariant, TypeOK, CacheRegistered
  <2>2. FrameTrue(NewFrame("signal", "del", cache[i + 1], "none"))
    BY <2>1, NewFrameTrue
  <2>3. QED
    BY <1>3, <2>1, <2>2, CallStep, NewFrameType, NewFrameFields
    DEF Enter, FinalizeNext
<1>4. QED
  BY <1>1, <1>2, <1>3

-----------------------------------------------------------------------------
(* Steps that change what the scheduler remembers *)

\* schedule evicts an application in a terminal state, whose replicas have
\* exited.
LEMMA TruthSchedule ==
  ASSUME TruthInvariant, TypeOK', NEW c \in Callers, NEW a \in Apps,
         Schedule(c, a)
  PROVE  TruthInvariant'
<1>1. CASE /\ EvictLru
           /\ Enter(c, "schedule", a, "prepare")
  <2>1. PICK i \in DOMAIN cache :
          IsTerminal(state[cache[i]]) /\ cache' = RemoveAt(cache, i)
    BY <1>1 DEF EvictLru, Evictable
  <2>2. /\ \A j \in DOMAIN cache' : \E h \in DOMAIN cache : cache'[j] = cache[h]
        /\ \A h \in DOMAIN cache : h # i => \E j \in DOMAIN cache' : cache'[j] = cache[h]
    <3>1. cache \in Seq(Apps)
      BY DEF TruthInvariant, TypeOK
    <3>2. QED
      BY <2>1, <3>1, RemoveAtProperties
  <2>3. UNCHANGED <<state, submitted, success, proc>>
    BY DEF Schedule, osVars
  <2>4. CacheRegistered'
    BY <2>2, <2>3 DEF TruthInvariant, CacheRegistered, Registered
  <2>5. \A b \in Apps : AppTrue(b)'
    <3> TAKE b \in Apps
    <3>1. AppTrue(b)
      BY DEF TruthInvariant
    <3>2. Registered(b) /\ ~Cached(b)' => Exited(b)
      <4>1. CASE ~Cached(b)
        BY <3>1, <4>1 DEF AppTrue
      <4>2. CASE Cached(b) /\ ~Cached(b)'
        <5>1. b = cache[i]
          BY <2>2, <4>2 DEF Cached
        <5>2. QED
          BY <2>1, <3>1, <5>1 DEF AppTrue, TrueOf
      <4>3. QED
        BY <4>1, <4>2
    <3>3. QED
      BY <2>3, <3>1, <3>2 DEF AppTrue, Registered, TrueOf, Exited, Alive
  <2>6. PICK f \in Frame : f = NewFrame("prepare", "schedule", a, "none")
    BY NewFrameType
  <2>7. f.at = "prepare" /\ FrameTrue(f)
    <3>1. FrameTrue(NewFrame("prepare", "schedule", a, "none"))
      BY NewFrameTrue DEF Found
    <3>2. QED
      BY <2>6, <3>1, NewFrameFields
  <2>8. Settled
    BY <2>3 DEF Settled, Registered, Alive
  <2>9. \A d \in Callers : FrameTrue(call[d])'
    <3>1. FrameTrue(f)'
      BY <2>7, <2>8, KeepFrame
    <3>2. Become(c, f)
      BY <1>1, <2>6 DEF Enter
    <3>3. QED
      BY <2>3, <2>8, <3>1, <3>2, KeepFrames
  <2>10. LaunchingAlone'
    BY <1>1, <2>6, <2>7 DEF TruthInvariant, TypeOK, LaunchingAlone, At, Become, Enter
  <2>11. QED
    BY <2>4, <2>5, <2>9, <2>10 DEF TruthInvariant
<1>2. CASE UNCHANGED cache /\ Enter(c, "schedule", a, "prepare")
  <2>1. FrameTrue(NewFrame("prepare", "schedule", a, "none"))
    BY NewFrameTrue DEF Found
  <2>2. QED
    BY <1>2, <2>1, NewFrameType, NewFrameFields, QuietStep
    DEF Enter, Schedule, osVars
<1>3. CASE UNCHANGED cache /\ Refuse(c, "schedule", a, "IndexError")
  <2>1. FrameTrue(NewFrame("idle", "schedule", a, "IndexError"))
    BY NewFrameTrue DEF Found, Errors
  <2>2. NewFrame("idle", "schedule", a, "IndexError") \in Frame
    BY NewFrameType DEF Errors
  <2>3. QED
    BY <1>3, <2>1, <2>2, NewFrameFields, QuietStep
    DEF Refuse, Schedule, osVars
<1>4. QED
  BY <1>1, <1>2, <1>3 DEF Schedule

\* schedule begins an application of which nothing runs.
LEMMA TruthPrepare ==
  ASSUME TruthInvariant, TypeOK', NEW c \in Callers, Prepare(c)
  PROVE  TruthInvariant'
<1> DEFINE a == call[c].app
<1> a \in Apps
  BY FrameFacts DEF TruthInvariant
<1>1. CASE Return(c, "AssertionError") /\ UNCHANGED submitted
  BY <1>1, ReturnTrue, QuietStep
  DEF Prepare, Errors, IsTerminal, TerminalStates, osVars
<1>2. CASE Return(c, "FileExistsError") /\ UNCHANGED submitted
  BY <1>2, ReturnTrue, QuietStep
  DEF Prepare, Errors, IsTerminal, TerminalStates, osVars
<1>3. CASE /\ submitted[a] = "no"
           /\ submitted' = [submitted EXCEPT ![a] = "launching"]
           /\ Become(c, [call[c] EXCEPT !.at = "launch", !.k = 1])
  <2>1. PICK f : f = [call[c] EXCEPT !.at = "launch", !.k = 1]
    OBVIOUS
  <2>2. f \in Frame
    BY <2>1, FrameFacts, FirstReplica DEF Frame, TruthInvariant
  <2>3. f.at = "launch" /\ f.k = 1 /\ f.app = a /\ f.res = call[c].res
    BY <2>1, FrameFacts DEF Frame, TruthInvariant
  <2>4. /\ UNCHANGED <<cache, state, success, proc>>
        /\ submitted'[a] = "launching"
        /\ \A b \in Apps \ {a} : submitted'[b] = submitted[b]
    BY <1>3 DEF Prepare, osVars, TruthInvariant, TypeOK
  <2>5. Settled
    BY <1>3, <2>4 DEF Settled, Registered, Alive
  <2>6. \A d \in Callers \ {c} : At(d, "launch") => call[d].app \in Apps \ {a}
    BY <1>3, FrameFacts DEF TruthInvariant, FrameTrue, LaunchTrue, At
  <2>7. FrameTrue(f)'
    <3>1. FrameTrue(call[c])
      BY DEF TruthInvariant
    <3>2. ~IsTerminal(f.res)
      BY <1>3, <2>3, <3>1 DEF FrameTrue, Registered
    <3>3. QED
      BY <2>3, <2>4, <3>2
      DEF FrameTrue, LaunchTrue, PollTrue, CloseTrue, Found, Replicas
  <2>8. \A d \in Callers : FrameTrue(call[d])'
    BY <1>3, <2>1, <2>2, <2>4, <2>5, <2>6, <2>7, KeepFrames
  <2>9. LaunchingAlone'
    <3>1. /\ call'[c].app = a
          /\ \A d \in Callers \ {c} : call'[d] = call[d]
      BY <1>3, <2>1, <2>3 DEF Become, TruthInvariant, TypeOK
    <3>2. QED
      BY <2>6, <3>1 DEF TruthInvariant, LaunchingAlone, At
  <2>10. CacheRegistered'
    BY <1>3, <2>4 DEF TruthInvariant, TypeOK, CacheRegistered, Registered
  <2>11. \A b \in Apps : AppTrue(b)'
    BY <1>3, <2>4 DEF TruthInvariant, AppTrue, Registered, Cached, TrueOf, Exited, Alive
  <2>12. QED
    BY <2>8, <2>9, <2>10, <2>11 DEF TruthInvariant
<1>4. QED
  BY <1>1, <1>2, <1>3 DEF Prepare

\* schedule starts one replica of an application nobody else has found.
LEMMA TruthLaunch ==
  ASSUME TruthInvariant, TypeOK', NEW c \in Callers, Launch(c)
  PROVE  TruthInvariant'
<1> PICK a \in Apps : a = call[c].app
  BY FrameFacts DEF TruthInvariant
<1> DEFINE k == call[c].k
<1>1. /\ a \in Apps /\ k \in Replicas /\ call[c].at = "launch"
      /\ FrameTrue(call[c])
      /\ submitted[a] = "launching"
  BY FrameFacts DEF TruthInvariant, FrameTrue, LaunchTrue, Launch, At
<1>2. /\ UNCHANGED <<cache, state, success>>
      /\ state[a] = "PENDING" /\ success[a] = "none"
  BY <1>1 DEF Launch, TruthInvariant, AppTrue, Registered
<1>3. ~IsTerminal(call[c].res)
  BY <1>1 DEF FrameTrue, Registered
<1>4. \A d \in Callers \ {c} : At(d, "launch") => call[d].app \in Apps \ {a}
  BY <1>1, FrameFacts DEF TruthInvariant, LaunchingAlone, At
<1>5. CASE /\ proc' = [proc EXCEPT ![a] = [@ EXCEPT ![k] = "alive"]]
           /\ Become(c, [call[c] EXCEPT !.k = k + 1])
           /\ UNCHANGED submitted
  <2>1. PICK f : f = [call[c] EXCEPT !.k = k + 1]
    OBVIOUS
  <2>2. f \in Frame
    <3>1. k + 1 \in 1 .. NumReplicas + 1
      BY <1>1 DEF Replicas
    <3>2. QED
      BY <2>1, <3>1, FrameFacts DEF Frame, TruthInvariant
  <2>3. f.at = "launch" /\ f.k = k + 1 /\ f.app = a /\ f.res = call[c].res
    BY <1>1, <2>1, FrameFacts DEF Frame, TruthInvariant
  <2>4. /\ proc'[a][k] = "alive"
        /\ \A r \in Replicas \ {k} : proc'[a][r] = proc[a][r]
        /\ \A b \in Apps \ {a} : proc'[b] = proc[b]
    BY <1>1, <1>5 DEF TruthInvariant, TypeOK
  <2>5. Settled
    BY <1>1, <1>5, <2>4 DEF Settled, Registered
  <2>6. LaunchTrue(f)'
    <3>1. \A r \in Replicas : r < k + 1 => r < k \/ r = k
      BY <1>1 DEF Replicas
    <3>2. QED
      BY <1>1, <1>5, <2>3, <2>4, <3>1 DEF FrameTrue, LaunchTrue
  <2>7. FrameTrue(f)'
    BY <1>3, <2>3, <2>6 DEF FrameTrue, PollTrue, CloseTrue, Found
  <2>8. \A d \in Callers : FrameTrue(call[d])'
    BY <1>5, <2>1, <2>2, <2>5, <2>7, KeepFrames
  <2>9. LaunchingAlone'
    <3>1. /\ call'[c].app = a
          /\ \A d \in Callers \ {c} : call'[d] = call[d]
      BY <1>5, <2>1, <2>3 DEF Become, TruthInvariant, TypeOK
    <3>2. QED
      BY <1>4, <3>1 DEF TruthInvariant, LaunchingAlone, At
  <2>10. CacheRegistered'
    BY <1>2, <1>5 DEF TruthInvariant, CacheRegistered, Registered
  <2>11. \A b \in Apps : AppTrue(b)'
    <3>1. AppTrue(a)'
      BY <1>1, <1>2, <1>5 DEF AppTrue, Registered, TrueOf, IsTerminal, TerminalStates
    <3>2. ASSUME NEW b \in Apps \ {a} PROVE AppTrue(b)'
      BY <1>2, <1>5, <2>4
      DEF TruthInvariant, AppTrue, Registered, Cached, TrueOf, Exited, Alive
    <3>3. QED
      BY <3>1, <3>2
  <2>12. QED
    BY <2>8, <2>9, <2>10, <2>11 DEF TruthInvariant
<1>6. CASE /\ submitted' = [submitted EXCEPT ![a] = "failed"]
           /\ Return(c, "OSError")
           /\ UNCHANGED proc
  <2>1. PICK f \in Frame : Become(c, f) /\ f.at = "idle" /\ FrameTrue(f)
    BY <1>6, ReturnTrue DEF Errors, IsTerminal, TerminalStates
  <2>2. /\ submitted'[a] = "failed"
        /\ \A b \in Apps \ {a} : submitted'[b] = submitted[b]
    BY <1>1, <1>6 DEF TruthInvariant, TypeOK
  <2>3. Settled
    BY <1>1, <1>6, <2>2 DEF Settled, Registered, Alive
  <2>4. FrameTrue(f)'
    BY <2>1, <2>3, KeepFrame
  <2>5. \A d \in Callers : FrameTrue(call[d])'
    BY <1>4, <2>1, <2>2, <2>3, <2>4, KeepFrames
  <2>6. LaunchingAlone'
    BY <2>1 DEF TruthInvariant, TypeOK, LaunchingAlone, At, Become
  <2>7. CacheRegistered'
    BY <1>1, <1>2, <2>2 DEF TruthInvariant, TypeOK, CacheRegistered, Registered
  <2>8. \A b \in Apps : AppTrue(b)'
    <3>1. AppTrue(a)'
      BY <1>2, <2>2 DEF AppTrue, Registered, TrueOf, IsTerminal, TerminalStates
    <3>2. ASSUME NEW b \in Apps \ {a} PROVE AppTrue(b)'
      BY <1>2, <1>6, <2>2
      DEF TruthInvariant, AppTrue, Registered, Cached, TrueOf, Exited, Alive
    <3>3. QED
      BY <3>1, <3>2
  <2>9. QED
    BY <2>5, <2>6, <2>7, <2>8 DEF TruthInvariant
<1>7. QED
  BY <1>5, <1>6 DEF Launch

\* schedule registers an application all of whose replicas were started.
LEMMA TruthRegister ==
  ASSUME TruthInvariant, TypeOK', NEW c \in Callers, Register(c)
  PROVE  TruthInvariant'
<1> PICK a \in Apps : a = call[c].app
  BY FrameFacts DEF TruthInvariant
<1>1. /\ a \in Apps /\ call[c].at = "launch" /\ FrameTrue(call[c])
      /\ submitted[a] = "launching"
  BY FrameFacts DEF TruthInvariant, FrameTrue, LaunchTrue, Register, At
<1>2. /\ UNCHANGED <<state, success, proc>>
      /\ state[a] = "PENDING" /\ success[a] = "none"
  BY <1>1 DEF Register, TruthInvariant, AppTrue, Registered, osVars
<1>3. \A d \in Callers \ {c} : At(d, "launch") => call[d].app \in Apps \ {a}
  BY <1>1, FrameFacts DEF TruthInvariant, LaunchingAlone, At
<1>4. /\ submitted'[a] = "yes"
      /\ \A b \in Apps \ {a} : submitted'[b] = submitted[b]
  BY <1>1 DEF Register, TruthInvariant, TypeOK
<1>5. /\ \A i \in DOMAIN cache' : (i \in DOMAIN cache /\ cache'[i] = cache[i])
                                    \/ cache'[i] = a
      /\ \A i \in DOMAIN cache : i \in DOMAIN cache' /\ cache'[i] = cache[i]
      /\ \E i \in DOMAIN cache' : cache'[i] = a
  <2>1. cache \in Seq(Apps) /\ cache' = Append(cache, a)
    BY DEF Register, TruthInvariant, TypeOK
  <2>2. /\ DOMAIN cache = 1 .. Len(cache) /\ Len(cache) \in Nat
        /\ DOMAIN cache' = 1 .. Len(cache) + 1
        /\ cache'[Len(cache) + 1] = a
        /\ \A i \in 1 .. Len(cache) : cache'[i] = cache[i]
    BY <1>1, <2>1
  <2>3. QED
    BY <2>2
<1>6. \A r \in Replicas : proc[a][r] # "none"
  <2>1. \A r \in Replicas : r < call[c].k
    BY FrameFacts DEF TruthInvariant, Register, Replicas
  <2>2. QED
    BY <1>1, <2>1 DEF FrameTrue, LaunchTrue
<1>7. PICK f \in Frame : Become(c, f) /\ f.at = "idle" /\ FrameTrue(f)
  BY ReturnTrue DEF Register, IsTerminal, TerminalStates
<1>8. Settled
  BY <1>1, <1>2, <1>4 DEF Settled, Registered, Alive
<1>9. \A d \in Callers : FrameTrue(call[d])'
  <2>1. FrameTrue(f)'
    BY <1>7, <1>8, KeepFrame
  <2>2. QED
    BY <1>3, <1>4, <1>7, <1>8, <2>1, KeepFrames
<1>10. LaunchingAlone'
  BY <1>7 DEF TruthInvariant, TypeOK, LaunchingAlone, At, Become
<1>11. CacheRegistered'
  <2>1. \A b \in Apps : submitted[b] = "yes" => submitted'[b] = "yes"
    BY <1>1, <1>4
  <2>2. \A i \in DOMAIN cache : cache[i] \in Apps /\ submitted[cache[i]] = "yes"
    BY DEF TruthInvariant, TypeOK, CacheRegistered, Registered
  <2>3. \A i \in DOMAIN cache' : submitted'[cache'[i]] = "yes"
    BY <1>4, <1>5, <2>1, <2>2
  <2>4. QED
    BY <2>3 DEF CacheRegistered, Registered
<1>12. \A b \in Apps : AppTrue(b)'
  <2>1. AppTrue(a)'
    BY <1>2, <1>4, <1>5, <1>6
    DEF AppTrue, Registered, Cached, TrueOf, IsTerminal, TerminalStates
  <2>2. ASSUME NEW b \in Apps \ {a} PROVE AppTrue(b)'
    BY <1>2, <1>4, <1>5
    DEF TruthInvariant, AppTrue, Registered, Cached, TrueOf, Exited, Alive
  <2>3. QED
    BY <2>1, <2>2
<1>13. QED
  BY <1>9, <1>10, <1>11, <1>12 DEF TruthInvariant

\* Steps of a thread that found its application, and that change what is
\* remembered of it but neither its processes nor the cache.
LEMMA FoundStep ==
  ASSUME TruthInvariant, TypeOK', NEW c \in Callers, NEW a \in Apps,
         NEW f \in Frame, Become(c, f), f.at # "launch", FrameTrue(f),
         Registered(a), TrueOf(a, state'[a]), success'[a] # "none" => Exited(a),
         \A b \in Apps \ {a} : state'[b] = state[b] /\ success'[b] = success[b],
         UNCHANGED <<cache, submitted, proc>>
  PROVE  TruthInvariant'
<1>1. Settled
  BY DEF Settled, Registered, Alive
<1>2. \A d \in Callers : FrameTrue(call[d])'
  <2>1. FrameTrue(f)'
    BY <1>1, KeepFrame
  <2>2. QED
    BY <1>1, <2>1, KeepFrames
<1>3. LaunchingAlone'
  BY DEF TruthInvariant, TypeOK, LaunchingAlone, At, Become
<1>4. CacheRegistered'
  BY DEF TruthInvariant, CacheRegistered, Registered
<1>5. \A b \in Apps : AppTrue(b)'
  <2>1. AppTrue(a)'
    BY DEF TruthInvariant, AppTrue, Registered, Cached, TrueOf, Exited, Alive
  <2>2. ASSUME NEW b \in Apps \ {a} PROVE AppTrue(b)'
    BY DEF TruthInvariant, AppTrue, Registered, Cached, TrueOf, Exited, Alive
  <2>3. QED
    BY <2>1, <2>2
<1>6. QED
  BY <1>2, <1>3, <1>4, <1>5 DEF TruthInvariant

\* The verdict of a describe that has polled every replica is true, whatever
\* the replicas it polled first have done since.
LEMMA VerdictTrue ==
  ASSUME TruthInvariant, NEW c \in Callers, At(c, "poll"),
         call[c].k > NumReplicas
  PROVE  TrueOf(call[c].app, Verdict(call[c].seen))
<1>1. \A r \in Replicas : r < call[c].k
  BY FrameFacts DEF TruthInvariant, Replicas
<1>2. PollTrue(call[c]) /\ call[c].at = "poll"
  BY DEF TruthInvariant, FrameTrue, At
<1>3. QED
  BY <1>1, <1>2
  DEF PollTrue, Verdict, TrueOf, Exited, IsTerminal, TerminalStates

\* describe records its verdict.
LEMMA TruthSetState ==
  ASSUME TruthInvariant, TypeOK', NEW c \in Callers, SetState(c)
  PROVE  TruthInvariant'
<1> PICK a \in Apps : a = call[c].app
  BY FrameFacts DEF TruthInvariant
<1> DEFINE s == Verdict(call[c].seen)
<1>1. TrueOf(a, s)
  BY VerdictTrue DEF SetState
<1>2. success[a] # "none" => Exited(a)
  BY DEF TruthInvariant, AppTrue
<1>3. Registered(a)
  BY DEF TruthInvariant, FrameTrue, SetState, At, Found
<1>4. PICK f : f = [call[c] EXCEPT !.at = "settle", !.k = 1, !.seen = {}, !.res = s]
  OBVIOUS
<1>5. f \in Frame
  <2>1. s \in AppStates
    BY DEF Verdict, AppStates
  <2>2. QED
    BY <1>4, <2>1, FrameFacts, FirstReplica DEF Frame, TruthInvariant
<1>6. f.at = "settle" /\ f.app = a /\ f.res = s
  BY <1>4, FrameFacts DEF Frame, TruthInvariant
<1>7. FrameTrue(f)
  BY <1>1, <1>3, <1>6 DEF FrameTrue, LaunchTrue, PollTrue, CloseTrue
<1>8. state'[a] = s /\ \A b \in Apps \ {a} : state'[b] = state[b]
  BY DEF SetState, TruthInvariant, TypeOK
<1>9. QED
  BY <1>1, <1>2, <1>3, <1>4, <1>5, <1>6, <1>7, <1>8, FoundStep
  DEF SetState, osVars

\* close writes the SUCCESS file when no replica is left running.
LEMMA TruthSeal ==
  ASSUME TruthInvariant, TypeOK', NEW c \in Callers, Seal(c)
  PROVE  TruthInvariant'
<1> PICK a \in Apps : a = call[c].app
  BY FrameFacts DEF TruthInvariant
<1>1. Exited(a)
  BY WaitedForAll DEF Seal, At
<1>2. FrameTrue(call[c]) /\ Registered(a)
  BY DEF TruthInvariant, FrameTrue, Seal, At, Found
<1>3. \E f \in Frame : Become(c, f) /\ f.at # "launch" /\ FrameTrue(f)
  <2>1. CASE Answer(c)
    BY <2>1, AnswerTrue
  <2>2. CASE Become(c, [call[c] EXCEPT !.at = "mark", !.k = 1])
    <3>1. PICK f : f = [call[c] EXCEPT !.at = "mark", !.k = 1]
      OBVIOUS
    <3>2. f \in Frame
      BY <3>1, FrameFacts, FirstReplica DEF Frame, TruthInvariant
    <3>3. f.at = "mark" /\ f.app = a /\ f.res = call[c].res
      BY <3>1, FrameFacts DEF Frame, TruthInvariant
    <3>4. FrameTrue(f)
      BY <1>1, <1>2, <3>3 DEF FrameTrue, LaunchTrue, PollTrue, CloseTrue
    <3>5. QED
      BY <2>2, <3>1, <3>2, <3>3, <3>4
  <2>3. QED
    BY <2>1, <2>2 DEF Seal
<1>4. /\ UNCHANGED <<cache, state, submitted, proc>>
      /\ \A b \in Apps \ {a} : success'[b] = success[b]
  BY DEF Seal, osVars, TruthInvariant, TypeOK
<1>5. TrueOf(a, state'[a])
  BY <1>4 DEF TruthInvariant, AppTrue
<1>6. QED
  BY <1>1, <1>2, <1>3, <1>4, <1>5, FoundStep

\* cancel records CANCELLED when no replica is left running.
LEMMA TruthMark ==
  ASSUME TruthInvariant, TypeOK', NEW c \in Callers, Mark(c)
  PROVE  TruthInvariant'
<1> PICK a \in Apps : a = call[c].app
  BY FrameFacts DEF TruthInvariant
<1>1. Registered(a) /\ Exited(a)
  BY DEF TruthInvariant, FrameTrue, CloseTrue, Mark, At, Found
<1>2. PICK f \in Frame : Become(c, f) /\ f.at = "idle" /\ FrameTrue(f)
  BY ReturnTrue DEF Mark, IsTerminal, TerminalStates
<1>3. state'[a] = "CANCELLED" /\ \A b \in Apps \ {a} : state'[b] = state[b]
  BY DEF Mark, TruthInvariant, TypeOK
<1>4. TrueOf(a, state'[a])
  BY <1>1, <1>3 DEF TrueOf
<1>5. QED
  BY <1>1, <1>2, <1>3, <1>4, FoundStep DEF Mark, osVars

\* A signal changes no process by itself.
LEMMA TruthSignal ==
  ASSUME TruthInvariant, TypeOK', NEW c \in Callers, Signal(c)
  PROVE  TruthInvariant'
<1>1. FrameTrue(call[c]) /\ call[c].at = "signal"
  BY DEF TruthInvariant, Signal, At
<1>2. PICK f : f = [call[c] EXCEPT !.at = "reap"]
  OBVIOUS
<1>3. f \in Frame
  BY <1>2, FrameFacts DEF Frame, TruthInvariant
<1>4. /\ f.at = "reap" /\ f.app = call[c].app /\ f.res = call[c].res
      /\ f.op = call[c].op /\ f.k = call[c].k
  BY <1>2, FrameFacts DEF Frame, TruthInvariant
<1>5. FrameTrue(f)
  BY <1>1, <1>4 DEF FrameTrue, LaunchTrue, PollTrue, CloseTrue, Found
<1>6. QED
  BY <1>2, <1>3, <1>4, <1>5, QuietStep DEF Signal, appVars

\* The finalizer starts with a registered application.
LEMMA TruthFinalize ==
  ASSUME TruthInvariant, TypeOK', NEW c \in Callers, Finalize(c)
  PROVE  TruthInvariant'
<1>1. CASE Refuse(c, "del", call[c].app, "ok")
  <2>1. call[c].app \in Apps
    BY FrameFacts DEF TruthInvariant
  <2>2. FrameTrue(NewFrame("idle", "del", call[c].app, "ok"))
    BY <2>1, NewFrameTrue DEF Found
  <2>3. QED
    BY <1>1, <2>1, <2>2, NewFrameType, NewFrameFields, QuietStep
    DEF Refuse, Finalize, osVars
<1>2. CASE cache # <<>> /\ Enter(c, "del", cache[1], "signal")
  <2>1. cache[1] \in Apps /\ Registered(cache[1])
    BY <1>2 DEF TruthInvariant, TypeOK, CacheRegistered
  <2>2. FrameTrue(NewFrame("signal", "del", cache[1], "none"))
    BY <2>1, NewFrameTrue
  <2>3. QED
    BY <1>2, <2>1, <2>2, NewFrameType, NewFrameFields, QuietStep
    DEF Enter, Finalize, osVars
<1>3. QED
  BY <1>1, <1>2 DEF Finalize

-----------------------------------------------------------------------------
(* Steps of the replicas *)

\* Steps that leave what is registered, the cache and all calls alone.
LEMMA OutsideStep ==
  ASSUME TruthInvariant, TypeOK', Settled,
         UNCHANGED <<cache, state, submitted, success, call>>,
         \A a \in Apps : AppTrue(a)'
  PROVE  TruthInvariant'
<1>1. \A d \in Callers : FrameTrue(call[d])'
  <2> TAKE d \in Callers
  <2>1. PICK g \in Frame : g = call[d]
    BY FrameFacts DEF TruthInvariant
  <2>2. FrameTrue(g)
    BY <2>1 DEF TruthInvariant
  <2>3. FrameTrue(g)'
    BY <2>2, KeepFrame
  <2>4. call'[d] = g
    BY <2>1
  <2>5. QED
    BY <2>3, <2>4 DEF FrameTrue, LaunchTrue, PollTrue, CloseTrue
<1>2. LaunchingAlone'
  BY DEF TruthInvariant, LaunchingAlone, At
<1>3. CacheRegistered'
  BY DEF TruthInvariant, CacheRegistered, Registered
<1>4. QED
  BY <1>1, <1>2, <1>3 DEF TruthInvariant

\* A replica exits.
LEMMA TruthExit ==
  ASSUME TruthInvariant, TypeOK', NEW a \in Apps, NEW r \in Replicas, Exit(a, r)
  PROVE  TruthInvariant'
<1>1. /\ proc[a][r] = "alive"
      /\ proc'[a][r] \in {"zero", "nonzero"}
      /\ \A q \in Replicas \ {r} : proc'[a][q] = proc[a][q]
      /\ \A b \in Apps \ {a} : proc'[b] = proc[b]
      /\ UNCHANGED <<cache, state, submitted, success, call>>
  BY DEF Exit, Alive, appVars, TruthInvariant, TypeOK
<1>2. Settled
  BY <1>1 DEF Settled, Registered, Alive
<1>3. AppTrue(a)'
  <2>1. AppTrue(a) /\ ~Exited(a)
    BY <1>1 DEF TruthInvariant, Exited, Alive
  <2>2. ~IsTerminal(state[a]) /\ success[a] = "none" /\ submitted[a] # "no"
    BY <1>1, <2>1 DEF AppTrue, TrueOf
  <2>3. Registered(a) => Cached(a)
    BY <2>1 DEF AppTrue
  <2>4. QED
    BY <1>1, <2>1, <2>2, <2>3
    DEF AppTrue, Registered, Cached, TrueOf, IsTerminal, TerminalStates
<1>4. ASSUME NEW b \in Apps \ {a} PROVE AppTrue(b)'
  BY <1>1 DEF TruthInvariant, AppTrue, Registered, Cached, TrueOf, Exited, Alive
<1>5. QED
  BY <1>1, <1>2, <1>3, <1>4, OutsideStep

\* An error file tells nothing of the processes.
LEMMA TruthErrorFile ==
  ASSUME TruthInvariant, TypeOK',
         UNCHANGED <<cache, state, submitted, success, proc, call>>
  PROVE  TruthInvariant'
<1>1. Settled
  BY DEF Settled, Registered, Alive
<1>2. \A a \in Apps : AppTrue(a)'
  BY DEF TruthInvariant, AppTrue, Registered, Cached, TrueOf, Exited, Alive
<1>3. QED
  BY <1>1, <1>2, OutsideStep

-----------------------------------------------------------------------------
(* The theorems *)

\* Nothing is known at first.
LEMMA TruthInit == Init => TruthInvariant
<1> SUFFICES ASSUME Init PROVE TruthInvariant
  OBVIOUS
<1>1. \A a \in Apps : AppTrue(a)
  BY DEF Init, AppTrue, Registered, TrueOf, Exited, Alive, IsTerminal,
         TerminalStates
<1>2. ASSUME NEW c \in Callers PROVE call[c].at = "idle" /\ FrameTrue(call[c])
  <2>1. PICK a \in Apps : call[c] = NewFrame("idle", "none", a, "none")
    BY DEF Init
  <2>2. call[c].at = "idle" /\ call[c].res = "none"
    BY <2>1, NewFrameFields
  <2>3. QED
    BY <2>2 DEF FrameTrue, LaunchTrue, PollTrue, CloseTrue, Found, IsTerminal,
                TerminalStates
<1>3. CacheRegistered
  BY DEF Init, CacheRegistered
<1>4. LaunchingAlone
  BY <1>2 DEF LaunchingAlone, At
<1>5. QED
  BY <1>1, <1>2, <1>3, <1>4, TypeInit DEF TruthInvariant

\* Every step preserves the invariant.
LEMMA TruthStep == TruthInvariant /\ [Next]_vars => TruthInvariant'
<1> SUFFICES ASSUME TruthInvariant, [Next]_vars PROVE TruthInvariant'
  OBVIOUS
<1> TypeOK'
  BY TypeStep DEF TruthInvariant
<1>1. ASSUME NEW c \in Callers, Progress(c) PROVE TruthInvariant'
  BY <1>1, TruthPrepare, TruthLaunch, TruthRegister, TruthReadError,
     TruthCheckState, TruthPoll, TruthSetState, TruthSettle, TruthSignal,
     TruthReap, TruthSeal, TruthMark, TruthFinalizeNext
  DEF Progress
<1>2. ASSUME NEW c \in Callers, Invoke(c) PROVE TruthInvariant'
  BY <1>2, TruthSchedule, TruthQuery, TruthFinalize
  DEF Invoke, Describe, Cancel
<1>3. CASE Environment
  BY <1>3, TruthExit, TruthErrorFile
  DEF Environment, StartError, FinishError, appVars
<1>4. CASE UNCHANGED vars
  BY <1>4, TruthErrorFile DEF vars, appVars, osVars
<1>5. QED
  BY <1>1, <1>2, <1>3, <1>4 DEF Next

\* What each thread knows about the processes of its application at each point
\* of a call is true, and stays true whatever the other threads and the
\* processes do: the inductive invariant behind the theorems that follow.
THEOREM TruthInvariantHolds == Spec => []TruthInvariant
BY TruthInit, TruthStep, PTL DEF Spec

\* Whatever the threads and the replicas do, an application that is in a
\* terminal state, or was reported in one, has no running replica.
THEOREM TerminalMeansExitedHolds == Spec => []TerminalMeansExited
<1>1. TruthInvariant => TerminalMeansExited
  BY DEF TruthInvariant, AppTrue, FrameTrue, TrueOf, TerminalMeansExited,
         Reported, IsTerminal
<1>2. QED
  BY <1>1, TruthInvariantHolds, PTL

\* SUCCEEDED and FAILED, recorded or reported, are true of the exit codes.
THEOREM OutcomeAccurateHolds == Spec => []OutcomeAccurate
<1>1. TruthInvariant => OutcomeAccurate
  BY DEF TruthInvariant, AppTrue, FrameTrue, TrueOf, OutcomeAccurate,
         Reported, IsTerminal, TerminalStates
<1>2. QED
  BY <1>1, TruthInvariantHolds, PTL

\* A SUCCESS file means that no replica can write to its logs any more.
THEOREM SuccessMeansClosedHolds == Spec => []SuccessMeansClosed
<1>1. TruthInvariant => SuccessMeansClosed
  BY DEF TruthInvariant, AppTrue, SuccessMeansClosed
<1>2. QED
  BY <1>1, TruthInvariantHolds, PTL

\* Eviction never loses a running replica.
THEOREM RunningIsTrackedHolds == Spec => []RunningIsTracked
<1>1. TruthInvariant => RunningIsTracked
  <2> SUFFICES ASSUME TruthInvariant, NEW a \in Apps, ~Exited(a)
               PROVE  Cached(a) \/ submitted[a] \in {"launching", "failed"}
    BY DEF RunningIsTracked
  <2>1. AppTrue(a) /\ submitted[a] \in {"no", "launching", "yes", "failed"}
    BY DEF TruthInvariant, TypeOK
  <2>2. submitted[a] # "no"
    BY <2>1 DEF AppTrue, Exited, Alive
  <2>3. QED
    BY <2>1, <2>2 DEF AppTrue, Registered
<1>2. QED
  BY <1>1, TruthInvariantHolds, PTL

\* Only a cancel or the finalizer sends a signal to a replica that runs.
THEOREM OnlyCancelTerminatesHolds == Spec => OnlyCancelTerminates
<1> DEFINE Guilty == \A a \in Apps : ~(signalled'[a] \subseteq signalled[a]) =>
             \E c \in Callers : call[c].app = a /\ call[c].op \in {"kill", "del"}
<1>1. TruthInvariant /\ [Next]_vars => [Guilty]_vars
  <2> SUFFICES ASSUME TruthInvariant, [Next]_vars, NEW a \in Apps,
                      ~(signalled'[a] \subseteq signalled[a])
               PROVE  \E c \in Callers :
                        call[c].app = a /\ call[c].op \in {"kill", "del"}
    OBVIOUS
  <2>1. ASSUME NEW c \in Callers, Signal(c)
        PROVE  call[c].app = a /\ call[c].op \in {"kill", "del"}
    <3>1. Alive(call[c].app, call[c].k) /\ call[c].app = a
      BY <2>1 DEF Signal, TruthInvariant, TypeOK
    <3>2. ~Exited(a)
      BY <2>1, <3>1, FrameFacts DEF Exited, Signal, TruthInvariant
    <3>3. QED
      BY <2>1, <3>1, <3>2 DEF TruthInvariant, FrameTrue, CloseTrue, Signal, At
  <2>2. ASSUME NEW b \in Apps, NEW r \in Replicas, Exit(b, r) PROVE FALSE
    BY <2>2 DEF Exit, TruthInvariant, TypeOK
  <2>3. CASE UNCHANGED signalled
    BY <2>3
  <2>4. QED
    BY <2>1, <2>2, <2>3
    DEF Next, Progress, Invoke, Environment, Prepare, Launch, Register,
        ReadError, CheckState, Poll, SetState, Settle, Reap, Seal, Mark,
        FinalizeNext, Schedule, Describe, Cancel, Query, Finalize, StartError,
        FinishError, vars, osVars
<1>2. QED
  BY <1>1, TruthInvariantHolds, PTL DEF Spec, OnlyCancelTerminates
=============================================================================
