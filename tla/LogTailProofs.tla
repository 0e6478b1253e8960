---------------------------- MODULE LogTailProofs ----------------------------
(***************************************************************************)
(* Proofs about LogTail, for any applications, readers and other threads,  *)
(* and for logs of any length.                                             *)
(*                                                                         *)
(* An iterator stops at the end of the file, and only after a describe has *)
(* told it that its application is over.  What describe tells is true when *)
(* it returns and stays true (TruthInvariant), so nothing was written      *)
(* between that describe and the read that found nothing more.  And what   *)
(* the iterator has read past it has returned, if it matched.              *)
(***************************************************************************)
EXTENDS LogTail, LocalSchedulerProofs, WellFoundedInduction, NaturalsInduction

USE ReplicasAssumption, ReadersAssumption, SourceAssumption, MaxPiecesAssumption

\* What the frame f of a thread that describes a has found so far.  An
\* application that is known to be registered, and that the cache does not
\* hold when the call looks, is over.
AskTrue(f, a, found) ==
  /\ f.op = "describe" /\ f.app = a
  /\ f.at \in {"idle"} \cup (Found \ {"mark"})
  /\ f.at \in {"settle", "signal", "reap"} => f.res \in AppStates
  /\ f.at = "idle" /\ f.res \notin Errors \cup {"none"} => Registered(a)
  /\ found => Registered(a) /\ (f.at = "idle" /\ f.res = "none" => Exited(a))

\* What a reader has passed it has returned, if it matched.
PassedTrue(rd) ==
  /\ rd.pos <= Len(stderr[rd.app])
  /\ \A i \in 1 .. rd.pos : stderr[rd.app][i].hit =>
       \E n \in DOMAIN rd.got : i \in rd.got[n][1] .. rd.got[n][2]

\* What a reader has been told of its application.
ReaderTrue(rd) ==
  /\ rd.at = "off" => rd.pos = 0 /\ ~rd.finished
  /\ rd.at \in {"open", "check", "checking", "read", "stopped"} => Registered(rd.app)
  /\ rd.finished => Registered(rd.app) /\ Exited(rd.app)
  /\ rd.at = "stopped" => rd.finished /\ rd.pos = Len(stderr[rd.app])

\* the reader is in a describe
Asking(rd) == rd.at \in {"status", "checking"}

ReaderInvariant(c) ==
  /\ ReaderTrue(reader[c])
  /\ PassedTrue(reader[c])
  /\ Asking(reader[c]) =>
       AskTrue(call[c], reader[c].app, reader[c].at = "checking")

TailInvariant ==
  /\ TruthInvariant
  /\ TailTypeOK
  /\ \A a \in Apps : Len(stderr[a]) <= MaxPieces
  /\ \A c \in Readers : ReaderInvariant(c)

-----------------------------------------------------------------------------
(* Where a line ends *)

\* Every nonempty set of naturals has a least element.
LEMMA LeastElement ==
  ASSUME NEW T \in SUBSET Nat, T # {}
  PROVE  \E m \in T : \A n \in T : m <= n
<1> DEFINE R == {p \in Nat \X Nat : p[1] < p[2]}
<1>1. IsWellFoundedOn(R, Nat)
  <2>1. OpToRel(<, Nat) = R
    BY DEF OpToRel
  <2>2. QED
    BY <2>1, NatLessThanWellFounded
<1>2. \E m \in T : \A n \in T : ~(<<n, m>> \in R)
  BY <1>1, WFMin
<1>3. \A n, m \in Nat : n < m => <<n, m>> \in R
  OBVIOUS
<1> HIDE DEF R
<1>4. PICK m \in T : \A n \in T : ~(<<n, m>> \in R)
  BY <1>2
<1>5. ASSUME NEW n \in T PROVE m <= n
  <2>1. n \in Nat /\ m \in Nat
    OBVIOUS
  <2>2. ~(n < m)
    BY <1>3, <1>4, <2>1
  <2>3. QED
    BY <2>1, <2>2
<1>6. QED
  BY <1>5

\* readline always finds an end, not before where it starts nor past the file.
LEMMA LineEndExists ==
  ASSUME NEW text \in Seq(Pieces), NEW from \in 1 .. Len(text)
  PROVE  LineEnd(text, from) \in from .. Len(text)
<1> DEFINE Ends == {i \in from .. Len(text) : text[i].eol \/ i = Len(text)}
<1>1. Ends \in SUBSET Nat /\ Ends # {}
  <2>1. Len(text) \in Ends
    OBVIOUS
  <2>2. QED
    BY <2>1
<1>2. PICK to \in Ends : \A i \in Ends : to <= i
  BY <1>1, LeastElement
<1>3. to \in from .. Len(text) /\ (text[to].eol \/ to = Len(text))
  BY <1>2
<1>4. \A i \in from .. to - 1 : ~text[i].eol
  <2>1. TAKE i \in from .. to - 1
  <2>2. i \in from .. Len(text) /\ ~(to <= i)
    BY <1>3
  <2>3. QED
    BY <1>2, <2>2
<1> HIDE DEF Ends
<1>5. QED
  BY <1>3, <1>4 DEF LineEnd

-----------------------------------------------------------------------------
(* What the steps of the scheduler leave alone *)

\* The readers take steps of the scheduler, or none.
LEMMA TailSteps == TailTypeOK /\ [TailNext]_tailVars => [Next]_vars
<1> SUFFICES ASSUME TailTypeOK, [TailNext]_tailVars PROVE [Next]_vars
  OBVIOUS
<1>1. ASSUME NEW c \in Callers, Progress(c) PROVE Next
  BY <1>1 DEF Next
<1>2. ASSUME NEW c \in Callers, NEW a \in Apps,
             Schedule(c, a) \/ Describe(c, a) \/ Cancel(c, a)
      PROVE  Next
  BY <1>2 DEF Next, Invoke
<1>3. ASSUME NEW c \in Readers, NEW a \in Apps, LogLines(c, a) PROVE Next
  BY <1>2, <1>3 DEF LogLines
<1>4. ASSUME NEW c \in Readers, ReaderStep(c) PROVE [Next]_vars
  <2>1. CASE AskFinished(c)
    <3>1. reader[c].app \in Apps
      BY DEF TailTypeOK, Reader
    <3>2. QED
      BY <1>2, <2>1, <3>1 DEF AskFinished
  <2>2. CASE Progress(c)
    BY <1>1, <2>2
  <2>3. CASE UNCHANGED vars
    BY <2>3
  <2>4. QED
    BY <1>4, <2>1, <2>2, <2>3
    DEF ReaderStep, StatusKnown, LogIter, CheckFinished, ReadLine, ReadNothing
<1>5. CASE OtherCalls
  BY <1>1, <1>2, <1>5 DEF OtherCalls
<1>6. CASE Environment
  BY <1>6 DEF Next
<1>7. ASSUME NEW a \in Apps, Write(a) PROVE UNCHANGED vars
  BY <1>7 DEF Write
<1>8. CASE UNCHANGED tailVars
  BY <1>8 DEF tailVars
<1>9. QED
  BY <1>3, <1>4, <1>5, <1>6, <1>7, <1>8 DEF TailNext

\* An application that is registered stays so, and one that is over as well.
Lasting ==
  \A a \in Apps : Registered(a) => Registered(a)' /\ (Exited(a) => Exited(a)')

LEMMA LastingStep ==
  ASSUME TruthInvariant, [Next]_vars
  PROVE  Lasting
<1>1. TypeOK
  BY DEF TruthInvariant
<1>2. ASSUME NEW c \in Callers, Prepare(c) PROVE Lasting
  BY <1>1, <1>2, FrameFacts DEF Prepare, Lasting, Registered, Exited, Alive, TypeOK, osVars
<1>3. ASSUME NEW c \in Callers, Register(c) PROVE Lasting
  BY <1>1, <1>3, FrameFacts DEF Register, Lasting, Registered, Exited, Alive, TypeOK, osVars
<1>4. ASSUME NEW c \in Callers, Launch(c) PROVE Lasting
  <2> PICK a \in Apps : a = call[c].app
    BY <1>1, FrameFacts
  <2>1. submitted[a] = "launching"
    BY <1>4 DEF TruthInvariant, FrameTrue, LaunchTrue, Launch, At
  <2>2. \A b \in Apps \ {a} : submitted'[b] = submitted[b] /\ proc'[b] = proc[b]
    BY <1>1, <1>4 DEF Launch, TypeOK
  <2>3. QED
    BY <2>1, <2>2 DEF Lasting, Registered, Exited, Alive
<1>5. ASSUME NEW a \in Apps, NEW r \in Replicas, Exit(a, r) PROVE Lasting
  BY <1>1, <1>5 DEF Exit, Lasting, Registered, Exited, Alive, TypeOK, appVars
<1>6. CASE UNCHANGED <<submitted, proc>>
  BY <1>6 DEF Lasting, Registered, Exited, Alive
<1>7. QED
  BY <1>2, <1>3, <1>4, <1>5, <1>6
  DEF Next, Progress, Invoke, Environment, ReadError, CheckState, Poll, SetState, Settle,
      Signal, Reap, Seal, Mark, FinalizeNext, Schedule, Describe, Cancel, Query, Finalize,
      StartError, FinishError, vars, appVars, osVars

\* What a reader knows lasts.
LEMMA KeepsReader ==
  ASSUME Lasting, UNCHANGED stderr, NEW rd \in Reader, ReaderTrue(rd), PassedTrue(rd)
  PROVE  ReaderTrue(rd)' /\ PassedTrue(rd)'
<1>1. rd.app \in Apps
  BY DEF Reader
<1>2. QED
  BY <1>1 DEF Lasting, ReaderTrue, PassedTrue

\* So does what its describe has found.
LEMMA KeepsAsk ==
  ASSUME Lasting, NEW f, NEW a \in Apps, NEW found, AskTrue(f, a, found)
  PROVE  AskTrue(f, a, found)'
BY DEF Lasting, AskTrue

\* A reader that stays where it is, in a frame that is true, keeps its part.
LEMMA ReaderStays ==
  ASSUME TailInvariant, Lasting, UNCHANGED stderr, NEW c \in Readers,
         reader'[c] = reader[c],
         \/ call'[c] = call[c]
         \/ Asking(reader[c]) =>
              AskTrue(call[c], reader[c].app, reader[c].at = "checking")'
  PROVE  ReaderInvariant(c)'
<1> PICK rd : rd = reader[c]
  OBVIOUS
<1>1. rd \in Reader /\ rd.app \in Apps
  BY DEF TailInvariant, TailTypeOK, Reader
<1>2. ReaderTrue(rd) /\ PassedTrue(rd)
  BY DEF TailInvariant, ReaderInvariant
<1>3. ReaderTrue(rd)' /\ PassedTrue(rd)'
  BY <1>1, <1>2, KeepsReader
<1>4. reader'[c] = rd
  OBVIOUS
<1>5. ReaderTrue(reader[c])' /\ PassedTrue(reader[c])'
  BY <1>3, <1>4 DEF ReaderTrue, PassedTrue
<1>6. ASSUME Asking(rd)
      PROVE  AskTrue(call[c], reader[c].app, reader[c].at = "checking")'
  <2>1. CASE call'[c] = call[c]
    <3> PICK f : f = call[c]
      OBVIOUS
    <3>1. AskTrue(f, rd.app, rd.at = "checking")
      BY <1>6 DEF TailInvariant, ReaderInvariant
    <3>2. AskTrue(f, rd.app, rd.at = "checking")'
      BY <1>1, <3>1, KeepsAsk
    <3>3. QED
      BY <1>4, <2>1, <3>2 DEF AskTrue
  <2>2. CASE AskTrue(call[c], reader[c].app, reader[c].at = "checking")'
    BY <2>2
  <2>3. QED
    BY <1>6, <2>1, <2>2
<1>7. QED
  BY <1>4, <1>5, <1>6 DEF ReaderInvariant, Asking

-----------------------------------------------------------------------------
(* The describe of a reader *)

\* A describe finds out what it says: each step of it keeps it a describe, and
\* its reply is a state of an application that is registered.
LEMMA AskGoesOn ==
  ASSUME TruthInvariant, Lasting, NEW c \in Callers, NEW a \in Apps, NEW found,
         AskTrue(call[c], a, found), Progress(c)
  PROVE  AskTrue(call[c], a, found)'
<1>1. /\ call[c].at \in Found => Registered(call[c].app)
      /\ call[c] \in Frame
      /\ call[c].app \in Apps
      /\ TypeOK
  BY FrameFacts DEF TruthInvariant, FrameTrue
<1>2. call[c].app = a /\ call[c].op = "describe"
  BY DEF AskTrue
<1>3. ASSUME NEW f, Become(c, f), f.op = "describe", f.app = a, Registered(a),
             f.at \in {"check", "poll", "signal", "reap", "settle", "idle"},
             f.at \in {"settle", "signal", "reap"} => f.res \in AppStates,
             f.at = "idle" => f.res \in AppStates \cup {"JSONDecodeError"}
      PROVE  AskTrue(call[c], a, found)'
  <2>1. call'[c] = f
    BY <1>1, <1>3 DEF TypeOK, Become
  <2>2. f.at = "idle" => f.res # "none"
    BY <1>3 DEF AppStates
  <2>3. Registered(a)'
    BY <1>3 DEF Lasting
  <2>4. QED
    BY <1>3, <2>1, <2>2, <2>3 DEF AskTrue, Found
<1>4. CASE ReadError(c)
  <2>1. Registered(a)
    BY <1>1, <1>2, <1>4 DEF ReadError, At, Found
  <2> DEFINE f == [call[c] EXCEPT !.at = "check"]
             g == [call[c] EXCEPT !.at = "check", !.msg = ErrorFile(call[c].app)]
             h == [call[c] EXCEPT !.at = "idle", !.k = 1, !.seen = {},
                                  !.res = "JSONDecodeError"]
  <2>2. Become(c, f) \/ Become(c, g) \/ Become(c, h)
    BY <1>4 DEF ReadError, Return
  <2>3. /\ f.at = "check" /\ f.op = "describe" /\ f.app = a
        /\ g.at = "check" /\ g.op = "describe" /\ g.app = a
        /\ h.at = "idle" /\ h.op = "describe" /\ h.app = a /\ h.res = "JSONDecodeError"
    BY <1>1, <1>2 DEF Frame
  <2> HIDE DEF f, g, h
  <2>4. QED
    BY <1>3, <2>1, <2>2, <2>3
<1>5. CASE CheckState(c)
  <2>1. Registered(a)
    BY <1>1, <1>2, <1>5 DEF CheckState, At, Found
  <2> DEFINE f == [call[c] EXCEPT !.at = "settle", !.res = state[call[c].app]]
             g == [call[c] EXCEPT !.at = "poll", !.k = 1, !.seen = {}]
  <2>2. Become(c, f) \/ Become(c, g)
    BY <1>5 DEF CheckState
  <2>3. /\ f.at = "settle" /\ f.op = "describe" /\ f.app = a /\ f.res \in AppStates
        /\ g.at = "poll" /\ g.op = "describe" /\ g.app = a
    BY <1>1, <1>2 DEF Frame, TypeOK
  <2> HIDE DEF f, g
  <2>4. QED
    BY <1>3, <2>1, <2>2, <2>3
<1>6. CASE Poll(c)
  <2>1. Registered(a)
    BY <1>1, <1>2, <1>6 DEF Poll, At, Found
  <2> DEFINE f == [call[c] EXCEPT !.k = call[c].k + 1,
                     !.seen = call[c].seen \cup Flags(proc[call[c].app][call[c].k])]
  <2>2. Become(c, f)
    BY <1>6 DEF Poll
  <2>3. f.at = "poll" /\ f.op = "describe" /\ f.app = a
    BY <1>1, <1>2, <1>6 DEF Frame, Poll, At
  <2> HIDE DEF f
  <2>4. QED
    BY <1>3, <2>1, <2>2, <2>3
<1>7. CASE SetState(c)
  <2>1. Registered(a)
    BY <1>1, <1>2, <1>7 DEF SetState, At, Found
  <2> DEFINE f == [call[c] EXCEPT !.at = "settle", !.k = 1, !.seen = {},
                                  !.res = Verdict(call[c].seen)]
  <2>2. Become(c, f)
    BY <1>7 DEF SetState
  <2>3. f.at = "settle" /\ f.op = "describe" /\ f.app = a /\ f.res \in AppStates
    BY <1>1, <1>2 DEF Frame, Verdict, AppStates
  <2> HIDE DEF f
  <2>4. QED
    BY <1>3, <2>1, <2>2, <2>3
<1>8. ASSUME Answer(c), Registered(a), call[c].res \in AppStates
      PROVE  AskTrue(call[c], a, found)'
  <2> DEFINE f == [call[c] EXCEPT !.at = "idle", !.k = 1, !.seen = {},
                                  !.res = call[c].res]
  <2>1. Become(c, f)
    BY <1>2, <1>8 DEF Answer, Return
  <2>2. f.at = "idle" /\ f.op = "describe" /\ f.app = a /\ f.res \in AppStates
    BY <1>1, <1>2, <1>8 DEF Frame
  <2> HIDE DEF f
  <2>3. QED
    BY <1>3, <1>8, <2>1, <2>2
<1>9. CASE Settle(c) \/ Signal(c) \/ Reap(c) \/ Seal(c)
  <2>1. Registered(a) /\ call[c].res \in AppStates
    BY <1>1, <1>2, <1>9 DEF Settle, Signal, Reap, Seal, At, Found, AskTrue
  <2> DEFINE f(l, k) == [call[c] EXCEPT !.at = l, !.k = k]
             g == [call[c] EXCEPT !.at = "reap"]
  <2>2. \/ \E k : Become(c, f("signal", k))
        \/ Become(c, g)
        \/ Answer(c)
    BY <1>2, <1>9 DEF Settle, Signal, Reap, Seal
  <2>3. \A k : f("signal", k).at = "signal" /\ f("signal", k).op = "describe"
               /\ f("signal", k).app = a /\ f("signal", k).res \in AppStates
    BY <1>1, <1>2, <2>1 DEF Frame
  <2>4. g.at = "reap" /\ g.op = "describe" /\ g.app = a /\ g.res \in AppStates
    BY <1>1, <1>2, <2>1 DEF Frame
  <2> HIDE DEF f, g
  <2>5. QED
    BY <1>3, <1>8, <2>1, <2>2, <2>3, <2>4
<1>10. ~Prepare(c) /\ ~Launch(c) /\ ~Register(c) /\ ~Mark(c) /\ ~FinalizeNext(c)
  BY DEF AskTrue, Found, Prepare, Launch, Register, Mark, FinalizeNext, At
<1>11. QED
  BY <1>4, <1>5, <1>6, <1>7, <1>9, <1>10 DEF Progress

\* A describe that begins knows what it finds in the cache, or does not.
LEMMA AskBegins ==
  ASSUME TruthInvariant, NEW c \in Callers, NEW a \in Apps, NEW found,
         found => Registered(a), Describe(c, a)
  PROVE  AskTrue(call[c], a, found)'
<1>1. UNCHANGED <<appVars, osVars>> /\ TypeOK
  BY DEF Describe, Query, TruthInvariant
<1>2. CASE Cached(a) /\ Become(c, NewFrame("readerr", "describe", a, "none"))
  <2>1. call'[c].at = "readerr" /\ call'[c].op = "describe" /\ call'[c].app = a
    BY <1>1, <1>2, NewFrameFields DEF TypeOK, Become
  <2>2. Registered(a)
    BY <1>2, CachedRegistered
  <2>3. QED
    BY <1>1, <2>1, <2>2 DEF AskTrue, Found, Registered, appVars
<1>3. CASE ~Cached(a) /\ Become(c, NewFrame("idle", "describe", a, "none"))
  <2>1. /\ call'[c].at = "idle" /\ call'[c].op = "describe" /\ call'[c].app = a
        /\ call'[c].res = "none"
    BY <1>1, <1>3, NewFrameFields DEF TypeOK, Become
  <2>2. found => Registered(a) /\ Exited(a)
    BY <1>3 DEF TruthInvariant, AppTrue
  <2>3. QED
    BY <1>1, <2>1, <2>2 DEF AskTrue, Registered, Exited, Alive, appVars, osVars
<1>4. QED
  BY <1>2, <1>3 DEF Describe, Query, Enter, Refuse

-----------------------------------------------------------------------------
(* The steps *)

\* A thread moves alone.
LEMMA ThreadAlone ==
  ASSUME TypeOK, NEW c \in Callers,
         \/ Progress(c)
         \/ \E a \in Apps : Schedule(c, a) \/ Describe(c, a) \/ Cancel(c, a)
  PROVE  \A d \in Callers \ {c} : call'[d] = call[d]
<1>1. ASSUME NEW f, Become(c, f) PROVE \A d \in Callers \ {c} : call'[d] = call[d]
  BY <1>1 DEF TypeOK, Become
<1>2. ASSUME Answer(c) PROVE \A d \in Callers \ {c} : call'[d] = call[d]
  BY <1>1, <1>2 DEF Answer, Return, Enter
<1>3. QED
  BY <1>1, <1>2
  DEF Progress, Prepare, Launch, Register, ReadError, CheckState, Poll, SetState, Settle,
      Signal, Reap, Seal, Mark, FinalizeNext, Schedule, Describe, Cancel, Query, Return,
      Enter, Refuse

\* A reader moves, and knows what it should where it comes to.
LEMMA ReaderMoves ==
  ASSUME TailInvariant, Lasting, TruthInvariant', UNCHANGED stderr,
         NEW c \in Readers, NEW rd \in Reader,
         reader' = [reader EXCEPT ![c] = rd],
         \A d \in Callers \ {c} : call'[d] = call[d],
         ReaderTrue(rd)', PassedTrue(rd)',
         Asking(rd) => AskTrue(call[c], rd.app, rd.at = "checking")'
  PROVE  TailInvariant'
<1>1. TailTypeOK'
  BY DEF TailInvariant, TailTypeOK
<1>2. reader'[c] = rd /\ \A d \in Readers \ {c} : reader'[d] = reader[d]
  BY DEF TailInvariant, TailTypeOK
<1>3. ReaderInvariant(c)'
  BY <1>2 DEF ReaderInvariant, ReaderTrue, PassedTrue, Asking, AskTrue
<1>4. \A d \in Readers \ {c} : ReaderInvariant(d)'
  BY <1>2, ReaderStays
<1>5. QED
  BY <1>1, <1>3, <1>4 DEF TailInvariant

\* The readers stay where they are while others act.
LEMMA ReadersStay ==
  ASSUME TailInvariant, Lasting, TruthInvariant', UNCHANGED <<stderr, reader>>,
         \A c \in Readers :
           \/ call'[c] = call[c]
           \/ Asking(reader[c]) =>
                AskTrue(call[c], reader[c].app, reader[c].at = "checking")'
  PROVE  TailInvariant'
<1>1. \A c \in Readers : ReaderInvariant(c)'
  BY ReaderStays
<1>2. QED
  BY <1>1 DEF TailInvariant, TailTypeOK

\* The fields of a reader, and what it knows before a step.
LEMMA ReaderFacts ==
  ASSUME TailInvariant, NEW c \in Readers
  PROVE  /\ reader[c] \in Reader
         /\ reader[c].app \in Apps
         /\ reader[c].pos \in 0 .. MaxPieces
         /\ stderr[reader[c].app] \in Seq(Pieces)
         /\ Len(stderr[reader[c].app]) <= MaxPieces
         /\ ReaderTrue(reader[c]) /\ PassedTrue(reader[c])
         /\ TypeOK /\ c \in Callers
<1>1. reader[c] \in Reader
  BY DEF TailInvariant, TailTypeOK
<1>2. reader[c].app \in Apps /\ reader[c].pos \in 0 .. MaxPieces
  BY <1>1 DEF Reader
<1>3. QED
  BY <1>1, <1>2 DEF TailInvariant, TailTypeOK, ReaderInvariant, TruthInvariant

\* A call of log_lines begins.
LEMMA TailLogLines ==
  ASSUME TailInvariant, Lasting, TruthInvariant', NEW c \in Readers, NEW a \in Apps,
         LogLines(c, a)
  PROVE  TailInvariant'
<1> PICK rd : rd = [reader[c] EXCEPT !.at = "status", !.app = a]
  OBVIOUS
<1>1. /\ rd \in Reader /\ rd.at = "status" /\ rd.app = a
      /\ rd.pos = reader[c].pos /\ rd.finished = reader[c].finished
  BY ReaderFacts DEF Reader
<1>2. reader' = [reader EXCEPT ![c] = rd] /\ UNCHANGED stderr /\ Describe(c, a)
  BY DEF LogLines
<1>3. rd.pos = 0 /\ ~rd.finished
  BY <1>1, ReaderFacts DEF LogLines, ReaderAt, ReaderTrue
<1>4. ReaderTrue(rd)' /\ PassedTrue(rd)'
  <2>1. stderr[a] \in Seq(Pieces)
    BY DEF TailInvariant, TailTypeOK
  <2>2. QED
    BY <1>1, <1>2, <1>3, <2>1 DEF ReaderTrue, PassedTrue
<1>5. AskTrue(call[c], a, FALSE)'
  BY <1>2, ReaderFacts, AskBegins DEF TailInvariant
<1>6. AskTrue(call[c], rd.app, rd.at = "checking")'
  BY <1>1, <1>5 DEF AskTrue
<1>7. \A d \in Callers \ {c} : call'[d] = call[d]
  BY <1>2, ReaderFacts, ThreadAlone
<1>8. QED
  BY <1>1, <1>2, <1>4, <1>6, <1>7, ReaderMoves

\* A reader that raises is done.
LEMMA TailRaises ==
  ASSUME TailInvariant, Lasting, TruthInvariant', NEW c \in Readers,
         NEW e \in Errors \cup {"UnknownAppException", "RuntimeError"}, Raise(c, e),
         UNCHANGED <<vars, stderr>>
  PROVE  TailInvariant'
<1> PICK rd : rd = [reader[c] EXCEPT !.at = "raised", !.error = e]
  OBVIOUS
<1>1. /\ rd \in Reader /\ rd.at = "raised" /\ rd.app = reader[c].app
      /\ rd.pos = reader[c].pos /\ rd.finished = reader[c].finished
      /\ rd.got = reader[c].got
  BY ReaderFacts DEF Reader
<1>2. reader' = [reader EXCEPT ![c] = rd]
  BY DEF Raise
<1>3. ReaderTrue(rd) /\ PassedTrue(rd)
  BY <1>1, ReaderFacts DEF ReaderTrue, PassedTrue
<1>4. ReaderTrue(rd)' /\ PassedTrue(rd)'
  BY <1>1, <1>3, KeepsReader
<1>5. call' = call
  BY DEF vars
<1>6. QED
  BY <1>1, <1>2, <1>4, <1>5, ReaderMoves DEF Asking

\* A reader moves on with what it has.
LEMMA TailMoves ==
  ASSUME TailInvariant, Lasting, TruthInvariant', NEW c \in Readers,
         NEW l \in {"open", "check", "read", "stopped"}, Move(c, l),
         Registered(reader[c].app),
         l = "stopped" => reader[c].finished
                          /\ reader[c].pos = Len(stderr[reader[c].app]),
         UNCHANGED <<vars, stderr>>
  PROVE  TailInvariant'
<1> PICK rd : rd = [reader[c] EXCEPT !.at = l]
  OBVIOUS
<1>1. /\ rd \in Reader /\ rd.at = l /\ rd.app = reader[c].app
      /\ rd.pos = reader[c].pos /\ rd.finished = reader[c].finished
      /\ rd.got = reader[c].got
  BY ReaderFacts DEF Reader
<1>2. reader' = [reader EXCEPT ![c] = rd]
  BY ReaderFacts DEF Move, TailInvariant, TailTypeOK
<1>3. ReaderTrue(rd) /\ PassedTrue(rd)
  BY <1>1, ReaderFacts DEF ReaderTrue, PassedTrue
<1>4. ReaderTrue(rd)' /\ PassedTrue(rd)'
  BY <1>1, <1>3, KeepsReader
<1>5. call' = call
  BY DEF vars
<1>6. QED
  BY <1>1, <1>2, <1>4, <1>5, ReaderMoves DEF Asking

\* log_lines goes on if it was told a state, so with a registered application.
LEMMA TailStatusKnown ==
  ASSUME TailInvariant, Lasting, TruthInvariant', NEW c \in Readers, StatusKnown(c)
  PROVE  TailInvariant'
<1>1. AskTrue(call[c], reader[c].app, reader[c].at = "checking")
  BY DEF StatusKnown, ReaderAt, Asking, TailInvariant, ReaderInvariant
<1>2. CASE DescribeRaised(c) /\ Raise(c, call[c].res)
  BY <1>2, TailRaises DEF StatusKnown, DescribeRaised
<1>3. CASE Raise(c, "UnknownAppException")
  BY <1>3, TailRaises DEF StatusKnown
<1>4. CASE ~DescribeRaised(c) /\ ~NotFound(c) /\ Move(c, "open")
  <2>1. Registered(reader[c].app)
    BY <1>1, <1>4 DEF StatusKnown, Idle, DescribeRaised, NotFound, AskTrue
  <2>2. QED
    BY <1>4, <2>1, TailMoves DEF StatusKnown
<1>5. QED
  BY <1>2, <1>3, <1>4 DEF StatusKnown

\* log_iter finds the application in the cache, or raises.
LEMMA TailLogIter ==
  ASSUME TailInvariant, Lasting, TruthInvariant', NEW c \in Readers, LogIter(c)
  PROVE  TailInvariant'
<1>1. CASE Raise(c, "KeyError")
  BY <1>1, TailRaises DEF LogIter, Errors
<1>2. CASE Raise(c, "RuntimeError")
  BY <1>2, TailRaises DEF LogIter
<1>3. CASE Cached(reader[c].app) /\ Move(c, "check")
  <2>1. Registered(reader[c].app)
    BY <1>3, ReaderFacts, CachedRegistered DEF TailInvariant
  <2>2. QED
    BY <1>3, <2>1, TailMoves DEF LogIter
<1>4. QED
  BY <1>1, <1>2, <1>3 DEF LogIter

\* The iterator asks about an application that is registered.
LEMMA TailAskFinished ==
  ASSUME TailInvariant, Lasting, TruthInvariant', NEW c \in Readers, AskFinished(c)
  PROVE  TailInvariant'
<1> PICK rd : rd = [reader[c] EXCEPT !.at = "checking"]
  OBVIOUS
<1> PICK a : a = reader[c].app
  OBVIOUS
<1>1. /\ rd \in Reader /\ rd.at = "checking" /\ rd.app = a /\ a \in Apps
      /\ rd.pos = reader[c].pos /\ rd.finished = reader[c].finished
      /\ rd.got = reader[c].got
  BY ReaderFacts DEF Reader
<1>2. /\ reader' = [reader EXCEPT ![c] = rd] /\ UNCHANGED stderr
      /\ Describe(c, a) /\ reader[c].at = "check"
  BY DEF AskFinished, Move, ReaderAt
<1>3. Registered(a) /\ ReaderTrue(rd) /\ PassedTrue(rd)
  BY <1>1, <1>2, ReaderFacts DEF ReaderTrue, PassedTrue
<1>4. ReaderTrue(rd)' /\ PassedTrue(rd)'
  BY <1>1, <1>2, <1>3, KeepsReader
<1>5. AskTrue(call[c], a, TRUE)'
  BY <1>1, <1>2, <1>3, ReaderFacts, AskBegins DEF TailInvariant
<1>6. AskTrue(call[c], rd.app, rd.at = "checking")'
  BY <1>1, <1>5 DEF AskTrue
<1>7. \A d \in Callers \ {c} : call'[d] = call[d]
  BY <1>1, <1>2, ReaderFacts, ThreadAlone
<1>8. QED
  BY <1>1, <1>2, <1>4, <1>6, <1>7, ReaderMoves

\* If it is told that the application is over, or gone, nothing of it runs.
LEMMA TailCheckFinished ==
  ASSUME TailInvariant, Lasting, TruthInvariant', NEW c \in Readers, CheckFinished(c)
  PROVE  TailInvariant'
<1>1. CASE DescribeRaised(c) /\ Raise(c, call[c].res)
  BY <1>1, TailRaises DEF CheckFinished, DescribeRaised
<1>2. CASE reader' = [reader EXCEPT ![c] = [@ EXCEPT !.at = "read", !.finished = Finished(c)]]
  <2> PICK rd : rd = [reader[c] EXCEPT !.at = "read", !.finished = Finished(c)]
    OBVIOUS
  <2>1. Finished(c) \in BOOLEAN
    BY DEF Finished, NotFound, IsTerminal
  <2>2. /\ rd \in Reader /\ rd.at = "read" /\ rd.app = reader[c].app
        /\ rd.pos = reader[c].pos /\ rd.finished = Finished(c)
        /\ rd.got = reader[c].got
    BY <2>1, ReaderFacts DEF Reader
  <2>3. reader' = [reader EXCEPT ![c] = rd]
    BY <1>2
  <2>4. AskTrue(call[c], reader[c].app, TRUE) /\ call[c].at = "idle"
    BY DEF CheckFinished, ReaderAt, Idle, Asking, TailInvariant, ReaderInvariant, AskTrue
  <2>5. ASSUME Finished(c) PROVE Exited(reader[c].app)
    <3>1. CASE NotFound(c)
      BY <2>4, <3>1 DEF NotFound, AskTrue
    <3>2. CASE IsTerminal(call[c].res)
      BY <2>4, <3>2, ReaderFacts DEF TailInvariant, TruthInvariant, FrameTrue, TrueOf, AskTrue
    <3>3. QED
      BY <2>5, <3>1, <3>2 DEF Finished
  <2>6. ReaderTrue(rd) /\ PassedTrue(rd)
    BY <2>2, <2>4, <2>5, ReaderFacts DEF ReaderTrue, PassedTrue, AskTrue
  <2>7. ReaderTrue(rd)' /\ PassedTrue(rd)'
    BY <2>2, <2>6, KeepsReader DEF CheckFinished
  <2>8. call' = call /\ stderr' = stderr
    BY DEF CheckFinished, vars
  <2>9. QED
    BY <2>2, <2>3, <2>7, <2>8, ReaderMoves DEF Asking
<1>3. QED
  BY <1>1, <1>2 DEF CheckFinished

\* What is in a sequence stays where it is.
LEMMA AppendKeeps ==
  ASSUME NEW S, NEW s \in Seq(S), NEW e
  PROVE  \A n \in DOMAIN s : n \in DOMAIN Append(s, e) /\ Append(s, e)[n] = s[n]
OBVIOUS

\* A line that is read is returned, if any piece of it matches.
LEMMA TailReadLine ==
  ASSUME TailInvariant, Lasting, TruthInvariant', NEW c \in Readers, ReadLine(c)
  PROVE  TailInvariant'
<1> PICK text : text = stderr[reader[c].app]
  OBVIOUS
<1> PICK from : from = reader[c].pos + 1
  OBVIOUS
<1> PICK to : to = LineEnd(text, from)
  OBVIOUS
<1> PICK got : got = IF Matches(text, from, to)
                     THEN Append(reader[c].got, <<from, to>>) ELSE reader[c].got
  OBVIOUS
<1> PICK rd : rd = [reader[c] EXCEPT !.pos = to, !.got = got]
  OBVIOUS
<1>1. /\ text \in Seq(Pieces) /\ Len(text) <= MaxPieces
      /\ from \in 1 .. Len(text) /\ reader[c].pos = from - 1
  BY ReaderFacts DEF ReadLine
<1>2. to \in from .. Len(text)
  BY <1>1, LineEndExists
<1>3. from \in 1 .. MaxPieces /\ to \in 1 .. MaxPieces /\ to \in 0 .. MaxPieces
  BY <1>1, <1>2
<1>4. reader[c].got \in Seq((1 .. MaxPieces) \X (1 .. MaxPieces))
  BY ReaderFacts DEF Reader
<1>5. got \in Seq((1 .. MaxPieces) \X (1 .. MaxPieces))
  BY <1>3, <1>4
<1>6. /\ rd \in Reader /\ rd.at = "read" /\ rd.app = reader[c].app
      /\ rd.pos = to /\ rd.finished = reader[c].finished /\ rd.got = got
  BY <1>3, <1>5, ReaderFacts DEF Reader, ReadLine, ReaderAt
<1>7. reader' = [reader EXCEPT ![c] = rd] /\ UNCHANGED <<vars, stderr>>
  <2>1. reader' = [reader EXCEPT ![c].pos = to, ![c].got = got]
    BY DEF ReadLine
  <2>2. QED
    BY <2>1, ReaderFacts DEF ReadLine, TailInvariant, TailTypeOK, Reader
<1>8. \A n \in DOMAIN reader[c].got : n \in DOMAIN got /\ got[n] = reader[c].got[n]
  <2>1. CASE got = reader[c].got
    BY <2>1
  <2>2. CASE got = Append(reader[c].got, <<from, to>>)
    BY <1>4, <2>2, AppendKeeps
  <2>3. QED
    BY <2>1, <2>2
<1>9. ASSUME NEW i \in 1 .. to, text[i].hit
      PROVE  \E n \in DOMAIN got : i \in got[n][1] .. got[n][2]
  <2>1. CASE i < from
    <3>1. i \in 1 .. reader[c].pos
      BY <1>1, <1>2, <2>1
    <3>2. PICK n \in DOMAIN reader[c].got : i \in reader[c].got[n][1] .. reader[c].got[n][2]
      BY <1>9, <3>1, ReaderFacts DEF PassedTrue
    <3>3. QED
      BY <1>8, <3>2
  <2>2. CASE ~(i < from)
    <3>1. i \in from .. to
      BY <1>1, <1>2, <2>2
    <3>2. got = Append(reader[c].got, <<from, to>>)
      BY <1>9, <3>1 DEF Matches
    <3>3. PICK n : n = Len(reader[c].got) + 1
      OBVIOUS
    <3>4. n \in DOMAIN got /\ got[n] = <<from, to>>
      BY <1>4, <3>2, <3>3
    <3>5. QED
      BY <3>1, <3>4
  <2>3. QED
    BY <2>1, <2>2
<1>10. ReaderTrue(rd) /\ PassedTrue(rd)
  <2>1. PassedTrue(rd)
    <3>1. stderr[rd.app] = text /\ rd.pos = to /\ rd.got = got
      BY <1>6
    <3>2. to <= Len(text)
      BY <1>1, <1>2
    <3>3. QED
      BY <1>9, <3>1, <3>2 DEF PassedTrue
  <2>2. ReaderTrue(rd)
    BY <1>6, ReaderFacts DEF ReaderTrue, ReadLine, ReaderAt
  <2>3. QED
    BY <2>1, <2>2
<1>11. ReaderTrue(rd)' /\ PassedTrue(rd)'
  BY <1>6, <1>7, <1>10, KeepsReader
<1>12. call' = call
  BY <1>7 DEF vars
<1>13. QED
  BY <1>6, <1>7, <1>11, <1>12, ReaderMoves DEF Asking

\* At the end of the file it stops if it was told so, and asks again if not.
LEMMA TailReadNothing ==
  ASSUME TailInvariant, Lasting, TruthInvariant', NEW c \in Readers, ReadNothing(c)
  PROVE  TailInvariant'
<1>1. Registered(reader[c].app) /\ reader[c].pos = Len(stderr[reader[c].app])
  BY ReaderFacts DEF ReadNothing, ReaderAt, ReaderTrue
<1>2. CASE reader[c].finished
  BY <1>1, <1>2, TailMoves DEF ReadNothing
<1>3. CASE ~reader[c].finished
  BY <1>1, <1>3, TailMoves DEF ReadNothing
<1>4. QED
  BY <1>2, <1>3

\* Nothing is written to the file of a reader that has been told the end.
LEMMA TailWrite ==
  ASSUME TailInvariant, TruthInvariant', NEW a \in Apps, Write(a)
  PROVE  TailInvariant'
<1> PICK p \in Pieces : stderr' = [stderr EXCEPT ![a] = Append(@, p)]
  BY DEF Write
<1>1. stderr \in [Apps -> Seq(Pieces)] /\ stderr[a] \in Seq(Pieces)
  BY DEF TailInvariant, TailTypeOK
<1>2. stderr' \in [Apps -> Seq(Pieces)]
  BY <1>1
<1>3. /\ \A b \in Apps \ {a} : stderr'[b] = stderr[b]
      /\ stderr'[a] = Append(stderr[a], p)
  BY <1>1
<1>4. UNCHANGED <<vars, reader>> /\ Alive(a, Source) /\ Len(stderr[a]) < MaxPieces
  BY DEF Write
<1>5. \A b \in Apps : Len(stderr[b])' <= MaxPieces
  BY <1>1, <1>3, <1>4 DEF TailInvariant
<1>6. ASSUME NEW c \in Readers PROVE ReaderInvariant(c)'
  <2>1. ReaderInvariant(c) /\ reader[c].app \in Apps /\ reader[c].pos \in Nat
    BY ReaderFacts DEF TailInvariant
  <2>2. reader[c].app = a => ~reader[c].finished
    BY <1>4, <2>1 DEF ReaderInvariant, ReaderTrue, Exited
  <2>3. reader'[c] = reader[c] /\ call'[c] = call[c]
    BY <1>4 DEF vars
  <2>4. ReaderTrue(reader[c])'
    BY <1>3, <1>4, <2>1, <2>2
    DEF ReaderInvariant, ReaderTrue, Registered, Exited, Alive, vars, appVars, osVars
  <2>5. PassedTrue(reader[c])'
    <3>1. CASE reader[c].app # a
      BY <1>3, <1>4, <2>1, <3>1 DEF ReaderInvariant, PassedTrue
    <3>2. CASE reader[c].app = a
      <4>1. Len(stderr'[a]) = Len(stderr[a]) + 1
            /\ \A i \in 1 .. Len(stderr[a]) : stderr'[a][i] = stderr[a][i]
        BY <1>1, <1>3
      <4>2. reader[c].pos <= Len(stderr[a]) /\ Len(stderr[a]) \in Nat
        BY <1>1, <2>1, <3>2 DEF ReaderInvariant, PassedTrue
      <4>3. QED
        BY <1>4, <2>1, <3>2, <4>1, <4>2 DEF ReaderInvariant, PassedTrue
    <3>3. QED
      BY <3>1, <3>2
  <2>6. Asking(reader[c]) => AskTrue(call[c], reader[c].app, reader[c].at = "checking")'
    BY <1>4, <2>1
    DEF ReaderInvariant, AskTrue, Registered, Exited, Alive, vars, appVars, osVars
  <2>7. QED
    BY <2>3, <2>4, <2>5, <2>6 DEF ReaderInvariant, Asking
<1>7. QED
  BY <1>2, <1>4, <1>5, <1>6 DEF TailInvariant, TailTypeOK

\* A reader goes on in its describe; the other threads, and the replicas, have
\* no part in what a reader knows.
LEMMA TailScheduler ==
  ASSUME TailInvariant, Lasting, TruthInvariant', UNCHANGED <<stderr, reader>>,
         \/ \E c \in Readers : Progress(c)
         \/ OtherCalls
         \/ Environment
         \/ UNCHANGED vars
  PROVE  TailInvariant'
<1>1. ASSUME NEW c \in Readers, Progress(c) PROVE TailInvariant'
  <2>1. \A d \in Callers \ {c} : call'[d] = call[d]
    BY <1>1, ReaderFacts, ThreadAlone
  <2>2. ASSUME Asking(reader[c])
        PROVE  AskTrue(call[c], reader[c].app, reader[c].at = "checking")'
    <3> PICK a \in Apps : a = reader[c].app
      BY ReaderFacts
    <3> PICK found : found = (reader[c].at = "checking")
      OBVIOUS
    <3>1. AskTrue(call[c], a, found)
      BY <2>2 DEF TailInvariant, ReaderInvariant
    <3>2. AskTrue(call[c], a, found)'
      BY <1>1, <3>1, ReaderFacts, AskGoesOn DEF TailInvariant
    <3>3. a = reader'[c].app /\ found = (reader'[c].at = "checking")
      OBVIOUS
    <3>4. QED
      BY <3>2, <3>3 DEF AskTrue
  <2>3. QED
    BY <2>1, <2>2, ReadersStay
<1>2. CASE OtherCalls
  <2>1. PICK c \in Callers \ Readers :
          Progress(c) \/ \E a \in Apps : Schedule(c, a) \/ Cancel(c, a)
    BY <1>2 DEF OtherCalls
  <2>2. \A d \in Callers \ {c} : call'[d] = call[d]
    BY <2>1, ThreadAlone DEF TailInvariant, TruthInvariant
  <2>3. QED
    BY <2>2, ReadersStay
<1>3. CASE Environment \/ UNCHANGED vars
  <2>1. call' = call
    BY <1>3 DEF Environment, Exit, StartError, FinishError, vars
  <2>2. QED
    BY <2>1, ReadersStay
<1>4. QED
  BY <1>1, <1>2, <1>3

\* Every step preserves the invariant.
LEMMA TailStep == TailInvariant /\ [TailNext]_tailVars => TailInvariant'
<1> SUFFICES ASSUME TailInvariant, [TailNext]_tailVars PROVE TailInvariant'
  OBVIOUS
<1>1. [Next]_vars
  BY TailSteps DEF TailInvariant
<1>2. TruthInvariant' /\ Lasting
  BY <1>1, TruthStep, LastingStep DEF TailInvariant
<1>3. ASSUME NEW c \in Readers, ReaderStep(c) PROVE TailInvariant'
  BY <1>2, <1>3, TailScheduler, TailStatusKnown, TailLogIter, TailAskFinished,
     TailCheckFinished, TailReadLine, TailReadNothing
  DEF ReaderStep
<1>4. ASSUME NEW c \in Readers, NEW a \in Apps, LogLines(c, a) PROVE TailInvariant'
  BY <1>2, <1>4, TailLogLines
<1>5. CASE OtherCalls /\ UNCHANGED <<stderr, reader>>
  BY <1>2, <1>5, TailScheduler
<1>6. CASE Environment /\ UNCHANGED <<stderr, reader>>
  BY <1>2, <1>6, TailScheduler
<1>7. ASSUME NEW a \in Apps, Write(a) PROVE TailInvariant'
  BY <1>2, <1>7, TailWrite
<1>8. CASE UNCHANGED tailVars
  BY <1>2, <1>8, TailScheduler DEF tailVars
<1>9. QED
  BY <1>3, <1>4, <1>5, <1>6, <1>7, <1>8 DEF TailNext

\* Nothing is written and nobody reads at first.
LEMMA TailStarts == TailInit => TailInvariant
<1> SUFFICES ASSUME TailInit PROVE TailInvariant
  OBVIOUS
<1>1. TruthInvariant
  BY TruthInit DEF TailInit
<1>2. stderr = [a \in Apps |-> <<>>]
  BY DEF TailInit
<1>3. PICK a \in Apps :
        reader = [c \in Readers |->
                    [at |-> "off", app |-> a, pos |-> 0, finished |-> FALSE,
                     got |-> <<>>, error |-> "none"]]
  BY DEF TailInit
<1>4. TailTypeOK
  BY <1>2, <1>3 DEF TailTypeOK, Reader
<1>5. \A c \in Readers : ReaderInvariant(c)
  BY <1>2, <1>3 DEF ReaderInvariant, ReaderTrue, PassedTrue, Asking
<1>6. \A b \in Apps : Len(stderr[b]) <= MaxPieces
  BY <1>2
<1>7. QED
  BY <1>1, <1>4, <1>5, <1>6 DEF TailInvariant

-----------------------------------------------------------------------------
(* The theorems *)

\* What a reader has been told, and what it has returned, is true at each point.
THEOREM TailInvariantHolds == TailSpec => []TailInvariant
BY TailStarts, TailStep, PTL DEF TailSpec

\* Every variable of the readers keeps its type; a position is in the file.
THEOREM TailTypeCorrect == TailSpec => []TailTypeOK
<1>1. TailInvariant => TailTypeOK
  BY DEF TailInvariant
<1>2. QED
  BY <1>1, TailInvariantHolds, PTL

\* An iterator that stops has returned every match that was, and will ever be,
\* written to the log, whenever the replica writes its last line and exits.
THEOREM StopsWhenCompleteHolds == TailSpec => []StopsWhenComplete
<1>1. TailInvariant => StopsWhenComplete
  <2> SUFFICES ASSUME TailInvariant, NEW c \in Readers, ReaderAt(c, "stopped")
               PROVE  /\ ~Alive(reader[c].app, Source)
                      /\ \A i \in DOMAIN stderr[reader[c].app] :
                           stderr[reader[c].app][i].hit => Returned(c, i)
    BY DEF StopsWhenComplete
  <2>1. /\ Exited(reader[c].app)
        /\ reader[c].pos = Len(stderr[reader[c].app])
        /\ PassedTrue(reader[c])
    BY ReaderFacts DEF ReaderAt, ReaderTrue
  <2>2. DOMAIN stderr[reader[c].app] = 1 .. Len(stderr[reader[c].app])
    BY ReaderFacts
  <2>3. QED
    BY <2>1, <2>2 DEF Exited, PassedTrue, Returned
<1>2. QED
  BY <1>1, TailInvariantHolds, PTL
=============================================================================
