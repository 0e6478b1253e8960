------------------------ MODULE LocalSchedulerAlone -------------------------
(***************************************************************************)
(* What the local scheduler promises to a thread that nobody interferes    *)
(* with, for any number of applications and replicas and any cache size.   *)
(*                                                                         *)
(* With one thread that submits, the cache keeps its bound.  The size is   *)
(* tested, with ==, long before the new application goes in, so the        *)
(* invariant says that the place stays free while the thread prepares and  *)
(* launches; a second submitter would take the same place.                 *)
(*                                                                         *)
(* With one thread altogether, what it has looked up stays in the cache    *)
(* and what it has found not to be over is not ended by somebody else.  So *)
(* a cancel stops the application, a terminal state is final, and every    *)
(* step is one that AppLifecycle allows, or none of its business.          *)
(***************************************************************************)
EXTENDS LocalSchedulerProofs

USE ReplicasAssumption, CacheSizeAssumption

-----------------------------------------------------------------------------
(* One submitting thread *)

Submitting(f) == f.at \in {"prepare", "launch"}

\* a thread that submits has a place in the cache, and is the one submitter
PlaceKept ==
  \A c \in Callers :
    Submitting(call[c]) => c \in Submitters /\ Len(cache) < CacheSize

\* what is being launched is not in the cache yet
LaunchIsNew == \A c \in Callers : At(c, "launch") => ~Cached(call[c].app)

CacheInvariant == CacheBounded /\ PlaceKept /\ LaunchIsNew

\* A step that leaves the cache alone and takes its thread to a point outside
\* of schedule.
Quiet(c) ==
  /\ cache' = cache
  /\ \A d \in Callers : d # c => call'[d] = call[d]
  /\ ~Submitting(call'[c])

\* A quiet step preserves the invariant: it takes no place and gives none back.
LEMMA QuietKeeps ==
  ASSUME CacheInvariant, NEW c \in Callers, Quiet(c)
  PROVE  CacheInvariant'
<1>1. CacheBounded'
  BY DEF CacheInvariant, CacheBounded, Quiet
<1>2. PlaceKept'
  BY DEF CacheInvariant, PlaceKept, Quiet
<1>3. LaunchIsNew'
  BY DEF CacheInvariant, LaunchIsNew, At, Cached, Submitting, Quiet
<1>4. QED
  BY <1>1, <1>2, <1>3 DEF CacheInvariant

\* A thread that returns, or moves on in a call, moves alone.
LEMMA MovesAlone ==
  ASSUME TypeOK, NEW c \in Callers, NEW f, Become(c, f)
  PROVE  call'[c] = f /\ \A d \in Callers : d # c => call'[d] = call[d]
BY DEF TypeOK, Become

\* A move to a point outside of schedule is quiet.
LEMMA MovesQuietly ==
  ASSUME TypeOK, cache' = cache, NEW c \in Callers, NEW f, Become(c, f),
         ~Submitting(f)
  PROVE  Quiet(c)
BY MovesAlone DEF Quiet

\* So does one that returns,
LEMMA ReturnsAlone ==
  ASSUME TypeOK, NEW c \in Callers, NEW r, Return(c, r)
  PROVE  /\ call'[c].at = "idle"
         /\ \A d \in Callers : d # c => call'[d] = call[d]
<1>1. PICK f : f = [call[c] EXCEPT !.at = "idle", !.k = 1, !.seen = {}, !.res = r]
  OBVIOUS
<1>2. f.at = "idle"
  BY <1>1, FrameFacts DEF Frame
<1>3. QED
  BY <1>1, <1>2, MovesAlone DEF Return

\* and one that begins a new part of its call.
LEMMA EntersAlone ==
  ASSUME TypeOK, NEW c \in Callers, NEW l, NEW op, NEW a, NEW r,
         Become(c, NewFrame(l, op, a, r))
  PROVE  /\ call'[c].at = l
         /\ \A d \in Callers : d # c => call'[d] = call[d]
BY MovesAlone DEF NewFrame

\* Every step of a call but schedule is quiet.
LEMMA QueryQuiet ==
  ASSUME TypeOK, NEW c \in Callers, NEW op, NEW a, Query(c, op, a)
  PROVE  Quiet(c)
BY EntersAlone DEF Query, Enter, Refuse, Quiet, Submitting, appVars

\* The steps of describe are quiet,
LEMMA DescribeQuiet ==
  ASSUME TypeOK, NEW c \in Callers,
         ReadError(c) \/ CheckState(c) \/ Poll(c) \/ SetState(c) \/ Settle(c)
  PROVE  Quiet(c)
<1>1. CASE ReadError(c)
  <2>1. CASE Return(c, "JSONDecodeError")
    BY <1>1, <2>1, ReturnsAlone DEF ReadError, Quiet, Submitting, appVars
  <2>2. CASE ~Return(c, "JSONDecodeError")
    <3>1. PICK f : Become(c, f) /\ f.at = "check"
      <4>1. [call[c] EXCEPT !.at = "check"].at = "check"
        BY FrameFacts DEF Frame
      <4>2. [call[c] EXCEPT !.at = "check", !.msg = ErrorFile(call[c].app)].at
              = "check"
        BY FrameFacts DEF Frame
      <4>3. QED
        BY <1>1, <2>2, <4>1, <4>2 DEF ReadError
    <3>2. QED
      BY <1>1, <3>1, MovesQuietly DEF ReadError, Submitting, appVars
  <2>3. QED
    BY <2>1, <2>2
<1>2. CASE CheckState(c)
  <2>1. /\ [call[c] EXCEPT !.at = "poll", !.k = 1, !.seen = {}].at = "poll"
        /\ [call[c] EXCEPT !.at = "settle", !.res = state[call[c].app]].at
             = "settle"
    BY FrameFacts DEF Frame
  <2>2. QED
    BY <1>2, <2>1, MovesQuietly DEF CheckState, Submitting, appVars
<1>3. CASE Poll(c)
  <2>1. PICK f : Become(c, f) /\ f.at = "poll"
    <3>1. PICK g : g = [call[c] EXCEPT !.k = @ + 1,
                          !.seen = @ \cup Flags(proc[call[c].app][call[c].k])]
      OBVIOUS
    <3>2. g.at = "poll"
      BY <1>3, <3>1, FrameFacts DEF Poll, At, Frame
    <3>3. QED
      BY <1>3, <3>1, <3>2 DEF Poll
  <2>2. QED
    BY <1>3, <2>1, MovesQuietly DEF Poll, Submitting, appVars
<1>4. CASE SetState(c)
  BY <1>4, FrameFacts DEF SetState, Become, Quiet, Submitting, Frame, TypeOK
<1>5. CASE Settle(c)
  <2>1. CASE Answer(c)
    BY <1>5, <2>1, ReturnsAlone, EntersAlone
    DEF Settle, Answer, Enter, Quiet, Submitting, appVars
  <2>2. CASE ~Answer(c)
    <3>1. [call[c] EXCEPT !.at = "signal", !.k = 1].at = "signal"
      BY FrameFacts DEF Frame
    <3>2. QED
      BY <1>5, <2>2, <3>1, MovesQuietly DEF Settle, Submitting, appVars
  <2>3. QED
    BY <2>1, <2>2
<1>6. QED
  BY <1>1, <1>2, <1>3, <1>4, <1>5

\* and so are those of close, cancel and the finalizer.
LEMMA CloseQuiet ==
  ASSUME TypeOK, NEW c \in Callers,
         Signal(c) \/ Reap(c) \/ Seal(c) \/ Mark(c) \/ FinalizeNext(c) \/ Finalize(c)
  PROVE  Quiet(c)
<1>1. CASE Signal(c)
  BY <1>1, FrameFacts
  DEF Signal, Become, Quiet, Submitting, appVars, Frame, TypeOK
<1>2. CASE Reap(c)
  BY <1>2, FrameFacts
  DEF Reap, Become, Quiet, Submitting, appVars, Frame, TypeOK
<1>3. CASE Seal(c)
  <2>1. CASE Answer(c)
    BY <1>3, <2>1, ReturnsAlone, EntersAlone
    DEF Seal, Answer, Enter, Quiet, Submitting
  <2>2. CASE ~Answer(c)
    <3>1. [call[c] EXCEPT !.at = "mark", !.k = 1].at = "mark"
      BY FrameFacts DEF Frame
    <3>2. QED
      BY <1>3, <2>2, <3>1, MovesQuietly DEF Seal, Submitting
  <2>3. QED
    BY <2>1, <2>2
<1>4. CASE Mark(c)
  BY <1>4, ReturnsAlone DEF Mark, Quiet, Submitting
<1>5. CASE FinalizeNext(c)
  BY <1>5, ReturnsAlone, EntersAlone
  DEF FinalizeNext, Enter, Quiet, Submitting, appVars
<1>6. CASE Finalize(c)
  BY <1>6, EntersAlone DEF Finalize, Enter, Refuse, Quiet, Submitting
<1>7. QED
  BY <1>1, <1>2, <1>3, <1>4, <1>5, <1>6

-----------------------------------------------------------------------------
(* schedule *)

\* With one submitter, its steps do not meet those of another.
LEMMA ScheduleKeeps ==
  ASSUME TypeOK, CacheInvariant, NEW s, Submitters = {s},
         NEW c \in Callers, NEW a \in Apps, Schedule(c, a)
  PROVE  CacheInvariant'
<1>1. c = s /\ ~Submitting(call[c])
  BY DEF Schedule, Idle, Submitting
<1>2. /\ \A d \in Callers : d # c => call'[d] = call[d] /\ ~Submitting(call[d])
      /\ call'[c].at \in {"prepare", "idle"}
  BY <1>1, EntersAlone DEF Schedule, Enter, Refuse, CacheInvariant, PlaceKept
<1>3. LaunchIsNew'
  BY <1>2 DEF LaunchIsNew, At, Submitting
<1>4. CASE cache' = cache
  <2>1. CacheBounded'
    BY <1>4 DEF CacheInvariant, CacheBounded
  <2>2. call'[c].at = "prepare" => Len(cache) < CacheSize
    <3>1. CASE Refuse(c, "schedule", a, "IndexError")
      BY <3>1, EntersAlone DEF Refuse
    <3>2. CASE ~Full
      BY <3>2 DEF Full, CacheInvariant, CacheBounded, TypeOK
    <3>3. CASE EvictLru
      <4>1. PICK i \in DOMAIN cache : cache' = RemoveAt(cache, i)
        BY <3>3 DEF EvictLru, Evictable
      <4>2. Len(cache') = Len(cache) - 1 /\ Len(cache) \in Nat
        BY <4>1, RemoveAtProperties DEF TypeOK
      <4>3. QED
        BY <1>4, <4>2
    <3>4. QED
      BY <3>1, <3>2, <3>3 DEF Schedule
  <2>3. PlaceKept'
    BY <1>1, <1>2, <1>4, <2>2 DEF PlaceKept, Submitting
  <2>4. QED
    BY <1>3, <2>1, <2>3 DEF CacheInvariant
<1>5. CASE cache' # cache
  <2>1. PICK i \in DOMAIN cache : cache' = RemoveAt(cache, i)
    BY <1>5 DEF Schedule, EvictLru, Evictable
  <2>2. /\ Len(cache') = Len(cache) - 1
        /\ DOMAIN cache' = 1 .. Len(cache) - 1
        /\ \A j \in 1 .. Len(cache) - 1 :
             cache'[j] = IF j < i THEN cache[j] ELSE cache[j + 1]
    <3>1. cache \in Seq(Apps)
      BY DEF TypeOK
    <3>2. QED
      BY <2>1, <3>1, RemoveAtElements
  <2>3. Len(cache') < CacheSize
    <3>1. Len(cache) \in Nat /\ Len(cache) <= CacheSize
      BY DEF CacheInvariant, CacheBounded, TypeOK
    <3>2. QED
      BY <2>2, <3>1
  <2>4. \A j, h \in DOMAIN cache' : cache'[j] = cache'[h] => j = h
    <3>1. SUFFICES ASSUME NEW j \in DOMAIN cache', NEW h \in DOMAIN cache',
                          cache'[j] = cache'[h]
                   PROVE  j = h
      OBVIOUS
    <3>2. \A m, n \in 1 .. Len(cache) : cache[m] = cache[n] => m = n
      BY DEF CacheInvariant, CacheBounded, TypeOK
    <3>3. i \in 1 .. Len(cache) /\ Len(cache) \in Nat
      BY DEF TypeOK
    <3>4. QED
      BY <2>2, <3>1, <3>2, <3>3
  <2>5. CacheBounded'
    BY <2>2, <2>3, <2>4 DEF CacheBounded, TypeOK
  <2>6. PlaceKept'
    BY <1>1, <1>2, <2>3 DEF PlaceKept, Submitting
  <2>7. QED
    BY <1>3, <2>5, <2>6 DEF CacheInvariant
<1>6. QED
  BY <1>4, <1>5

\* Preparing keeps the place and finds that the application is not cached.
LEMMA PrepareKeeps ==
  ASSUME TypeOK, CacheInvariant, NEW c \in Callers, Prepare(c)
  PROVE  CacheInvariant'
<1>1. CASE Return(c, "AssertionError") \/ Return(c, "FileExistsError")
  BY <1>1, ReturnsAlone, QuietKeeps DEF Prepare, Quiet, Submitting
<1>2. CASE /\ ~Cached(call[c].app)
           /\ Become(c, [call[c] EXCEPT !.at = "launch", !.k = 1])
  <2>1. PICK f : f = [call[c] EXCEPT !.at = "launch", !.k = 1]
    OBVIOUS
  <2>2. f.at = "launch" /\ f.app = call[c].app
    BY <2>1, FrameFacts DEF Frame
  <2>3. call'[c] = f /\ \A d \in Callers : d # c => call'[d] = call[d]
    BY <1>2, <2>1, MovesAlone
  <2>4. cache' = cache
    BY DEF Prepare
  <2>5. CacheBounded'
    BY <2>4 DEF CacheInvariant, CacheBounded
  <2>6. PlaceKept'
    BY <2>2, <2>3, <2>4 DEF CacheInvariant, PlaceKept, Submitting, Prepare, At
  <2>7. LaunchIsNew'
    BY <1>2, <2>2, <2>3, <2>4 DEF CacheInvariant, LaunchIsNew, At, Cached
  <2>8. QED
    BY <2>5, <2>6, <2>7 DEF CacheInvariant
<1>3. QED
  BY <1>1, <1>2 DEF Prepare

\* Launching keeps both.
LEMMA LaunchKeeps ==
  ASSUME TypeOK, CacheInvariant, NEW c \in Callers, Launch(c)
  PROVE  CacheInvariant'
<1>1. CASE Return(c, "OSError")
  BY <1>1, ReturnsAlone, QuietKeeps DEF Launch, Quiet, Submitting
<1>2. CASE Become(c, [call[c] EXCEPT !.k = call[c].k + 1])
  <2>1. PICK f : f = [call[c] EXCEPT !.k = call[c].k + 1]
    OBVIOUS
  <2>2. f.at = call[c].at /\ f.app = call[c].app
    BY <2>1, FrameFacts DEF Frame
  <2>3. call'[c] = f /\ \A d \in Callers : d # c => call'[d] = call[d]
    BY <1>2, <2>1, MovesAlone
  <2>4. cache' = cache
    BY DEF Launch
  <2>5. QED
    BY <2>2, <2>3, <2>4
    DEF CacheInvariant, CacheBounded, PlaceKept, LaunchIsNew, Submitting, At, Cached
<1>3. QED
  BY <1>1, <1>2 DEF Launch

\* Registering takes the place that was kept.
LEMMA RegisterKeeps ==
  ASSUME TypeOK, CacheInvariant, NEW s, Submitters = {s},
         NEW c \in Callers, Register(c)
  PROVE  CacheInvariant'
<1>1. /\ call'[c].at = "idle"
      /\ \A d \in Callers : d # c => call'[d] = call[d]
  BY ReturnsAlone DEF Register
<1>2. /\ Submitting(call[c])
      /\ ~Cached(call[c].app)
      /\ Len(cache) < CacheSize
      /\ \A d \in Callers : d # c => ~Submitting(call[d])
  BY DEF Register, At, Submitting, CacheInvariant, PlaceKept, LaunchIsNew
<1>3. PICK a \in Apps : a = call[c].app
  BY FrameFacts
<1>4. cache' = Append(cache, a) /\ ~Cached(a)
  BY <1>2, <1>3 DEF Register
<1>5. /\ Len(cache') = Len(cache) + 1
      /\ DOMAIN cache' = 1 .. Len(cache) + 1
      /\ \A j \in 1 .. Len(cache) : cache'[j] = cache[j]
      /\ cache'[Len(cache) + 1] = a
      /\ Len(cache) \in Nat
  BY <1>4 DEF TypeOK
<1>6. \A j, h \in DOMAIN cache' : cache'[j] = cache'[h] => j = h
  <2>1. \A m, n \in 1 .. Len(cache) : cache[m] = cache[n] => m = n
    BY DEF CacheInvariant, CacheBounded, TypeOK
  <2>2. \A m \in 1 .. Len(cache) : cache[m] # a
    BY <1>4 DEF Cached, TypeOK
  <2>3. QED
    BY <1>5, <2>1, <2>2
<1>7. CacheBounded'
  BY <1>2, <1>5, <1>6 DEF CacheBounded
<1>8. PlaceKept' /\ LaunchIsNew'
  BY <1>1, <1>2 DEF PlaceKept, LaunchIsNew, Submitting, At
<1>9. QED
  BY <1>7, <1>8 DEF CacheInvariant

\* A replica does not touch the scheduler.
LEMMA ReplicasKeep ==
  ASSUME CacheInvariant, UNCHANGED cache, UNCHANGED call
  PROVE  CacheInvariant'
BY DEF CacheInvariant, CacheBounded, PlaceKept, LaunchIsNew, At, Cached

\* The cache of the local scheduler never holds more than cache_size
\* applications, nor one of them twice, if one thread schedules: however long
\* it takes between the test of the size and the insertion, and whatever the
\* other threads describe and cancel meanwhile.
THEOREM CacheBoundedHolds ==
  ASSUME NEW s, Submitters = {s}
  PROVE  Spec => []CacheBounded
<1>1. Init => CacheInvariant
  <2>1. SUFFICES ASSUME Init PROVE CacheInvariant
    OBVIOUS
  <2>2. cache = <<>> /\ \A c \in Callers : call[c].at = "idle"
    BY <2>1 DEF Init, NewFrame
  <2>3. QED
    BY <2>2 DEF CacheInvariant, CacheBounded, PlaceKept, LaunchIsNew, Submitting, At
<1>2. TypeOK /\ CacheInvariant /\ [Next]_vars => CacheInvariant'
  <2>1. SUFFICES ASSUME TypeOK, CacheInvariant, [Next]_vars PROVE CacheInvariant'
    OBVIOUS
  <2>2. ASSUME NEW c \in Callers, Progress(c) PROVE CacheInvariant'
    BY <2>1, <2>2, PrepareKeeps, LaunchKeeps, RegisterKeeps, DescribeQuiet,
       CloseQuiet, QuietKeeps
    DEF Progress
  <2>3. ASSUME NEW c \in Callers, Invoke(c) PROVE CacheInvariant'
    BY <2>1, <2>3, ScheduleKeeps, QueryQuiet, CloseQuiet, QuietKeeps
    DEF Invoke, Describe, Cancel
  <2>4. ASSUME Environment PROVE CacheInvariant'
    BY <2>1, <2>4, ReplicasKeep
    DEF Environment, Exit, StartError, FinishError, appVars
  <2>5. CASE UNCHANGED vars
    BY <2>1, <2>5, ReplicasKeep DEF vars, appVars
  <2>6. QED
    BY <2>1, <2>2, <2>3, <2>4, <2>5 DEF Next
<1>3. CacheInvariant => CacheBounded
  BY DEF CacheInvariant
<1>4. QED
  BY <1>1, <1>2, <1>3, TypeCorrect, PTL DEF Spec

-----------------------------------------------------------------------------
(* One thread *)

Polled == {"readerr", "check", "poll", "settle"}
Closing == {"signal", "reap", "mark"}

\* what a thread that is alone knows at each point of a call, f its frame
AloneTrue(f) ==
  /\ f.at \in {"prepare", "launch"} => f.op = "schedule"
  /\ f.at \in Polled => f.op \in {"describe", "cancel"}
  /\ f.at \in Polled \cup Closing => Cached(f.app)
  /\ f.at = "poll" => ~IsTerminal(state[f.app])
  /\ f.at = "mark" => f.op = "kill"
  /\ f.at = "idle" /\ f.op \in {"cancel", "kill"}
       /\ f.res \notin {"none", "JSONDecodeError"} =>
       /\ Exited(f.app)
       /\ f.res = "ok" => state[f.app] = "CANCELLED"

\* the states that an application of the local scheduler can be in
LocalStates == {"PENDING", "RUNNING"} \cup TerminalStates

AloneInvariant ==
  /\ \A c \in Callers : AloneTrue(call[c])
  /\ \A a \in Apps : state[a] \in LocalStates

\* The thread moves to a frame that is true after the step.
LEMMA AloneMoves ==
  ASSUME TypeOK, AloneInvariant, NEW c \in Callers, Callers = {c}, NEW f,
         Become(c, f), AloneTrue(f)', \A a \in Apps : state'[a] \in LocalStates
  PROVE  AloneInvariant'
<1>1. call'[c] = f
  BY MovesAlone
<1>2. QED
  BY <1>1 DEF AloneInvariant, AloneTrue

\* In most steps nothing but the thread moves.
LEMMA AloneCalls ==
  ASSUME TypeOK, AloneInvariant, NEW c \in Callers, Callers = {c}, NEW f,
         Become(c, f), AloneTrue(f), UNCHANGED <<cache, state, proc>>
  PROVE  AloneInvariant'
<1>1. AloneTrue(f)'
  BY DEF AloneTrue, Cached, Exited, Alive
<1>2. QED
  BY <1>1, AloneMoves DEF AloneInvariant

\* A thread that returns from another call than a cancel knows nothing, and
\* neither does one whose cancel raises because of an error file.
LEMMA AloneReturns ==
  ASSUME TypeOK, AloneInvariant, NEW c \in Callers, Callers = {c}, NEW r,
         Return(c, r), call[c].op \notin {"cancel", "kill"} \/ r = "JSONDecodeError",
         \A a \in Apps : state'[a] \in LocalStates
  PROVE  AloneInvariant'
<1>1. PICK f : f = [call[c] EXCEPT !.at = "idle", !.k = 1, !.seen = {}, !.res = r]
  OBVIOUS
<1>2. f.at = "idle" /\ f.op = call[c].op /\ f.res = r
  BY <1>1, FrameFacts DEF Frame
<1>3. AloneTrue(f)'
  BY <1>2 DEF AloneTrue, Polled, Closing
<1>4. QED
  BY <1>1, <1>3, AloneMoves DEF Return

\* A new frame is true if its application is cached where it has to be.
LEMMA AloneEnters ==
  ASSUME TypeOK, AloneInvariant, NEW c \in Callers, Callers = {c},
         NEW l \in {"idle", "prepare", "readerr", "signal"}, NEW op, NEW a, NEW r,
         Become(c, NewFrame(l, op, a, r)),
         l = "idle" => op \notin {"cancel", "kill"} \/ r = "none",
         l = "prepare" => op = "schedule",
         l = "readerr" => op \in {"describe", "cancel"},
         l \in {"readerr", "signal"} => Cached(a)',
         UNCHANGED state
  PROVE  AloneInvariant'
<1>1. AloneTrue(NewFrame(l, op, a, r))'
  BY NewFrameFields DEF AloneTrue, Polled, Closing
<1>2. QED
  BY <1>1, AloneMoves DEF AloneInvariant

\* The answer after a describe: a cancel goes on to the replicas, as nobody has
\* evicted the application.
LEMMA AloneAnswer ==
  ASSUME TypeOK, AloneInvariant, NEW c \in Callers, Callers = {c}, Answer(c),
         call[c].at \in {"settle", "signal"}, call[c].op # "kill",
         UNCHANGED <<cache, state, proc>>
  PROVE  AloneInvariant'
<1>1. Cached(call[c].app)
  BY DEF AloneInvariant, AloneTrue, Polled, Closing
<1>2. CASE call[c].op = "describe"
  BY <1>2, AloneReturns DEF Answer, AloneInvariant
<1>3. CASE call[c].op # "describe"
  <2>1. Become(c, NewFrame("signal", "kill", call[c].app, "none"))
    BY <1>1, <1>3 DEF Answer, Enter
  <2>2. QED
    BY <1>1, <2>1, AloneCalls, NewFrameFields DEF AloneTrue, Polled, Closing
<1>4. QED
  BY <1>2, <1>3

\* schedule: the thread is in no other call.
LEMMA AloneSchedules ==
  ASSUME TypeOK, AloneInvariant, NEW c \in Callers, Callers = {c},
         \/ \E a \in Apps : Schedule(c, a)
         \/ Prepare(c) \/ Launch(c) \/ Register(c)
  PROVE  AloneInvariant'
<1>1. ASSUME NEW a \in Apps, Schedule(c, a) PROVE AloneInvariant'
  BY <1>1, AloneEnters DEF Schedule, Enter, Refuse
<1>2. ASSUME call[c].at \in {"prepare", "launch"}, UNCHANGED state,
             NEW r, Return(c, r)
      PROVE  AloneInvariant'
  <2>1. call[c].op = "schedule"
    BY <1>2 DEF AloneInvariant, AloneTrue
  <2>2. QED
    BY <1>2, <2>1, AloneReturns DEF AloneInvariant
<1>3. ASSUME call[c].at \in {"prepare", "launch"}, UNCHANGED state,
             NEW f, Become(c, f), f.at = "launch", f.op = call[c].op
      PROVE  AloneInvariant'
  <2>1. AloneTrue(f)'
    BY <1>3 DEF AloneInvariant, AloneTrue, Polled, Closing
  <2>2. QED
    BY <1>3, <2>1, AloneMoves DEF AloneInvariant
<1>4. CASE Prepare(c)
  <2>1. /\ [call[c] EXCEPT !.at = "launch", !.k = 1].at = "launch"
        /\ [call[c] EXCEPT !.at = "launch", !.k = 1].op = call[c].op
    BY FrameFacts DEF Frame
  <2>2. QED
    BY <1>2, <1>3, <1>4, <2>1 DEF Prepare, At
<1>5. CASE Launch(c)
  <2>1. /\ [call[c] EXCEPT !.k = call[c].k + 1].at = call[c].at
        /\ [call[c] EXCEPT !.k = call[c].k + 1].op = call[c].op
    BY FrameFacts DEF Frame
  <2>2. QED
    BY <1>2, <1>3, <1>5, <2>1 DEF Launch, At
<1>6. CASE Register(c)
  BY <1>2, <1>6 DEF Register, At
<1>7. QED
  BY <1>1, <1>4, <1>5, <1>6

\* describe, and the describe of a cancel.
LEMMA AloneDescribes ==
  ASSUME TypeOK, AloneInvariant, NEW c \in Callers, Callers = {c},
         \/ \E a \in Apps : Query(c, "describe", a) \/ Query(c, "cancel", a)
         \/ ReadError(c) \/ CheckState(c) \/ Poll(c) \/ SetState(c) \/ Settle(c)
  PROVE  AloneInvariant'
<1>1. ASSUME NEW op \in {"describe", "cancel"}, NEW a \in Apps, Query(c, op, a)
      PROVE  AloneInvariant'
  <2>1. UNCHANGED <<cache, state, proc>>
    BY <1>1 DEF Query, appVars, osVars
  <2>2. Cached(a)' <=> Cached(a)
    BY <2>1 DEF Cached
  <2>3. QED
    BY <1>1, <2>1, <2>2, AloneEnters DEF Query, Enter, Refuse
<1>2. ASSUME call[c].at \in Polled, UNCHANGED <<cache, state, proc>>, NEW f, Become(c, f),
             f.at \in {"check", "poll", "settle", "signal"}, f.op = call[c].op,
             f.app = call[c].app, f.at = "poll" => ~IsTerminal(state[call[c].app])
      PROVE  AloneInvariant'
  <2>1. AloneTrue(f)
    BY <1>2 DEF AloneInvariant, AloneTrue, Polled, Closing
  <2>2. QED
    BY <1>2, <2>1, AloneCalls
<1>3. CASE ReadError(c)
  <2>1. CASE Return(c, "JSONDecodeError")
    BY <1>3, <2>1, AloneReturns DEF ReadError, AloneInvariant, appVars
  <2>2. PICK m : m = ErrorFile(call[c].app)
    OBVIOUS
  <2>3. ASSUME NEW f \in {[call[c] EXCEPT !.at = "check"],
                          [call[c] EXCEPT !.at = "check", !.msg = m]}
        PROVE  f.at = "check" /\ f.op = call[c].op /\ f.app = call[c].app
    BY FrameFacts DEF Frame
  <2>4. QED
    BY <1>2, <1>3, <2>1, <2>2, <2>3 DEF ReadError, At, Polled, appVars, osVars
<1>4. CASE CheckState(c)
  <2>1. ASSUME NEW f \in {[call[c] EXCEPT !.at = "settle", !.res = state[call[c].app]],
                          [call[c] EXCEPT !.at = "poll", !.k = 1, !.seen = {}]}
        PROVE  f.at \in {"settle", "poll"} /\ f.op = call[c].op /\ f.app = call[c].app
    BY FrameFacts DEF Frame
  <2>2. [call[c] EXCEPT !.at = "settle", !.res = state[call[c].app]].at = "settle"
    BY FrameFacts DEF Frame
  <2>3. QED
    BY <1>2, <1>4, <2>1, <2>2 DEF CheckState, At, Polled, appVars, osVars
<1>5. CASE Poll(c)
  <2>1. PICK f : f = [call[c] EXCEPT !.k = call[c].k + 1,
                        !.seen = call[c].seen \cup Flags(proc[call[c].app][call[c].k])]
    OBVIOUS
  <2>2. f.at = call[c].at /\ f.op = call[c].op /\ f.app = call[c].app
    BY <2>1, FrameFacts DEF Frame
  <2>3. Become(c, f) /\ call[c].at = "poll" /\ UNCHANGED <<cache, state, proc>>
    BY <1>5, <2>1 DEF Poll, At, appVars, osVars
  <2>4. ~IsTerminal(state[call[c].app])
    BY <2>3 DEF AloneInvariant, AloneTrue
  <2>5. QED
    BY <1>2, <2>2, <2>3, <2>4 DEF Polled
<1>6. CASE SetState(c)
  <2>1. PICK f : f = [call[c] EXCEPT !.at = "settle", !.k = 1, !.seen = {},
                                     !.res = Verdict(call[c].seen)]
    OBVIOUS
  <2>2. f.at = "settle" /\ f.op = call[c].op /\ f.app = call[c].app
    BY <2>1, FrameFacts DEF Frame
  <2>3. Become(c, f) /\ call[c].at = "poll" /\ cache' = cache
    BY <1>6, <2>1 DEF SetState, At
  <2>4. AloneTrue(f)'
    BY <2>2, <2>3 DEF AloneInvariant, AloneTrue, Polled, Closing, Cached
  <2>5. \A a \in Apps : state'[a] \in LocalStates
    <3>1. Verdict(call[c].seen) \in LocalStates
      BY DEF Verdict, LocalStates, TerminalStates
    <3>2. QED
      BY <1>6, <3>1 DEF SetState, AloneInvariant, TypeOK
  <2>6. QED
    BY <2>3, <2>4, <2>5, AloneMoves
<1>7. CASE Settle(c)
  <2>1. UNCHANGED <<cache, state, proc>> /\ call[c].at = "settle"
    BY <1>7 DEF Settle, At, appVars, osVars
  <2>2. call[c].op # "kill"
    BY <2>1 DEF AloneInvariant, AloneTrue, Polled
  <2>3. /\ [call[c] EXCEPT !.at = "signal", !.k = 1].at = "signal"
        /\ [call[c] EXCEPT !.at = "signal", !.k = 1].op = call[c].op
        /\ [call[c] EXCEPT !.at = "signal", !.k = 1].app = call[c].app
    BY FrameFacts DEF Frame
  <2>4. QED
    BY <1>2, <1>7, <2>1, <2>2, <2>3, AloneAnswer DEF Settle, Polled
<1>8. QED
  BY <1>1, <1>3, <1>4, <1>5, <1>6, <1>7

\* close, the rest of a cancel, and the finalizer.
LEMMA AloneCloses ==
  ASSUME TruthInvariant, AloneInvariant, NEW c \in Callers, Callers = {c},
         \/ Signal(c) \/ Reap(c) \/ Seal(c) \/ Mark(c)
         \/ FinalizeNext(c) \/ Finalize(c)
  PROVE  AloneInvariant'
<1> TypeOK
  BY DEF TruthInvariant
<1>1. ASSUME call[c].at \in Closing, UNCHANGED <<cache, state, proc>>, NEW f, Become(c, f),
             f.at \in Closing, f.op = call[c].op, f.app = call[c].app,
             f.at = "mark" => f.op = "kill"
      PROVE  AloneInvariant'
  <2>1. AloneTrue(f)
    BY <1>1 DEF AloneInvariant, AloneTrue, Polled, Closing
  <2>2. QED
    BY <1>1, <2>1, AloneCalls
<1>2. CASE Signal(c)
  <2>1. PICK f : f = [call[c] EXCEPT !.at = "reap"]
    OBVIOUS
  <2>2. f.at = "reap" /\ f.op = call[c].op /\ f.app = call[c].app
    BY <2>1, FrameFacts DEF Frame
  <2>3. QED
    BY <1>1, <1>2, <2>1, <2>2 DEF Signal, At, Closing, appVars
<1>3. CASE Reap(c)
  <2>1. PICK f : f = [call[c] EXCEPT !.at = "signal", !.k = call[c].k + 1]
    OBVIOUS
  <2>2. f.at = "signal" /\ f.op = call[c].op /\ f.app = call[c].app
    BY <2>1, FrameFacts DEF Frame
  <2>3. QED
    BY <1>1, <1>3, <2>1, <2>2 DEF Reap, At, Closing, appVars, osVars
<1>4. CASE Seal(c)
  <2>1. CASE call[c].op = "kill"
    <3>1. PICK f : f = [call[c] EXCEPT !.at = "mark", !.k = 1]
      OBVIOUS
    <3>2. f.at = "mark" /\ f.op = call[c].op /\ f.app = call[c].app
      BY <3>1, FrameFacts DEF Frame
    <3>3. QED
      BY <1>1, <1>4, <2>1, <3>1, <3>2 DEF Seal, At, Closing, osVars
  <2>2. CASE call[c].op # "kill"
    BY <1>4, <2>2, AloneAnswer DEF Seal, At, osVars
  <2>3. QED
    BY <2>1, <2>2
<1>5. CASE Mark(c)
  <2>1. PICK f : f = [call[c] EXCEPT !.at = "idle", !.k = 1, !.seen = {}, !.res = "ok"]
    OBVIOUS
  <2>2. f.at = "idle" /\ f.app = call[c].app /\ f.app \in Apps
    BY <2>1, FrameFacts DEF Frame
  <2>3. Exited(f.app)
    BY <1>5, <2>2 DEF TruthInvariant, FrameTrue, CloseTrue, Mark, At
  <2>4. UNCHANGED proc /\ state'[f.app] = "CANCELLED"
    BY <1>5, <2>2 DEF Mark, TypeOK, osVars
  <2>5. AloneTrue(f)'
    BY <2>2, <2>3, <2>4 DEF AloneTrue, Polled, Closing, Exited, Alive
  <2>6. \A a \in Apps : state'[a] \in LocalStates
    BY <1>5 DEF Mark, AloneInvariant, TypeOK, LocalStates, TerminalStates
  <2>7. QED
    BY <1>5, <2>1, <2>5, <2>6, AloneMoves DEF Mark, Return
<1>6. CASE FinalizeNext(c)
  <2>1. UNCHANGED <<cache, state, proc>> /\ call[c].op = "del"
    BY <1>6 DEF FinalizeNext, appVars, osVars
  <2>2. CASE Return(c, "ok")
    BY <2>1, <2>2, AloneReturns DEF AloneInvariant
  <2>3. CASE \E i \in DOMAIN cache : i # Len(cache) /\ Enter(c, "del", cache[i + 1], "signal")
    <3>1. PICK i \in DOMAIN cache : i # Len(cache) /\ Enter(c, "del", cache[i + 1], "signal")
      BY <2>3
    <3>2. i + 1 \in DOMAIN cache
      BY <3>1 DEF TypeOK
    <3>3. PICK a : a = cache[i + 1]
      OBVIOUS
    <3>4. Cached(a)'
      BY <2>1, <3>2, <3>3 DEF Cached
    <3>5. QED
      BY <2>1, <3>1, <3>3, <3>4, AloneEnters DEF Enter
  <2>4. QED
    BY <1>6, <2>2, <2>3 DEF FinalizeNext
<1>7. CASE Finalize(c)
  <2>1. UNCHANGED <<cache, state, proc>>
    BY <1>7 DEF Finalize, osVars
  <2>2. CASE Refuse(c, "del", call[c].app, "ok")
    <3>1. PICK a : a = call[c].app
      OBVIOUS
    <3>2. QED
      BY <2>1, <2>2, <3>1, AloneEnters DEF Refuse
  <2>3. CASE cache # <<>> /\ Enter(c, "del", cache[1], "signal")
    <3>1. PICK a : a = cache[1]
      OBVIOUS
    <3>2. Cached(a)'
      BY <2>1, <2>3, <3>1 DEF Cached, TypeOK
    <3>3. QED
      BY <2>1, <2>3, <3>1, <3>2, AloneEnters DEF Enter
  <2>4. QED
    BY <1>7, <2>2, <2>3 DEF Finalize
<1>8. QED
  BY <1>2, <1>3, <1>4, <1>5, <1>6, <1>7

\* The replicas only exit.
LEMMA AloneEnvironment ==
  ASSUME TypeOK, AloneInvariant, UNCHANGED <<cache, state, call>>,
         \/ Environment
         \/ UNCHANGED proc
  PROVE  AloneInvariant'
<1>1. \A a \in Apps : Exited(a) => Exited(a)'
  <2>1. ASSUME NEW a \in Apps, NEW r \in Replicas, Exit(a, r),
               NEW b \in Apps, Exited(b)
        PROVE  Exited(b)'
    BY <2>1 DEF Exit, Exited, Alive, TypeOK
  <2>2. CASE UNCHANGED proc
    BY <2>2 DEF Exited, Alive
  <2>3. QED
    BY <2>1, <2>2 DEF Environment, StartError, FinishError
<1>2. \A c \in Callers : call[c].app \in Apps
  BY FrameFacts
<1>3. QED
  BY <1>1, <1>2 DEF AloneInvariant, AloneTrue, Cached

LEMMA AloneStarts == Init => AloneInvariant
<1> SUFFICES ASSUME Init PROVE AloneInvariant
  OBVIOUS
<1>1. \A c \in Callers : call[c].at = "idle" /\ call[c].op = "none"
  BY DEF Init, NewFrame
<1>2. QED
  BY <1>1 DEF Init, AloneInvariant, AloneTrue, Polled, Closing, LocalStates

\* Every step keeps what the thread knows.
LEMMA AloneStep ==
  ASSUME NEW c, Callers = {c}, TruthInvariant, AloneInvariant, [Next]_vars
  PROVE  AloneInvariant'
<1>1. TypeOK /\ c \in Callers
  BY DEF TruthInvariant
<1>2. CASE Progress(c) \/ Invoke(c)
  BY <1>1, <1>2, AloneSchedules, AloneDescribes, AloneCloses
  DEF Progress, Invoke, Describe, Cancel
<1>3. CASE Environment
  <2>1. UNCHANGED <<cache, state, call>>
    BY <1>3 DEF Environment, Exit, StartError, FinishError, appVars
  <2>2. QED
    BY <1>1, <1>3, <2>1, AloneEnvironment
<1>4. CASE UNCHANGED vars
  BY <1>1, <1>4, AloneEnvironment DEF vars, appVars, osVars
<1>5. QED
  BY <1>2, <1>3, <1>4 DEF Next

\* What a thread that is alone knows is true at every point.
LEMMA AloneInvariantHolds ==
  ASSUME NEW s, Callers = {s}
  PROVE  Spec => []AloneInvariant
<1>1. TruthInvariant /\ AloneInvariant /\ [Next]_vars => AloneInvariant'
  BY AloneStep
<1>2. QED
  BY <1>1, AloneStarts, TruthInvariantHolds, PTL DEF Spec

\* However a cancel of a thread that is alone ends, once it has found the
\* application: the application is stopped, unless its error file is unreadable.
THEOREM CancelStopsHolds ==
  ASSUME NEW s, Callers = {s}
  PROVE  Spec => []CancelStops
<1>1. AloneInvariant => CancelStops
  BY DEF AloneInvariant, AloneTrue, CancelStops, Idle
<1>2. QED
  BY <1>1, AloneInvariantHolds, PTL

\* A terminal state is final for a thread that is alone, but for its cancels.
THEOREM TerminalIsFinalHolds ==
  ASSUME NEW s, Callers = {s}
  PROVE  Spec => TerminalIsFinal
<1> DEFINE Final == \A a \in Apps : IsTerminal(state[a]) /\ state'[a] # state[a] =>
             /\ state'[a] = "CANCELLED"
             /\ \E c \in Callers : call[c].app = a /\ call[c].op = "kill"
<1>1. TruthInvariant /\ AloneInvariant /\ [Next]_vars => [Final]_vars
  <2> SUFFICES ASSUME TruthInvariant, AloneInvariant, [Next]_vars, NEW a \in Apps,
                      IsTerminal(state[a]), state'[a] # state[a]
               PROVE  /\ state'[a] = "CANCELLED"
                      /\ \E c \in Callers : call[c].app = a /\ call[c].op = "kill"
    OBVIOUS
  <2>1. ASSUME NEW c \in Callers, Mark(c)
        PROVE  state'[a] = "CANCELLED" /\ call[c].app = a /\ call[c].op = "kill"
    BY <2>1 DEF Mark, At, TruthInvariant, TypeOK, AloneInvariant, AloneTrue
  <2>2. ASSUME NEW c \in Callers, SetState(c) PROVE FALSE
    BY <2>2 DEF SetState, At, TruthInvariant, TypeOK, AloneInvariant, AloneTrue
  <2>3. CASE UNCHANGED state
    BY <2>3
  <2>4. QED
    BY <2>1, <2>2, <2>3
    DEF Next, Progress, Invoke, Environment, Prepare, Launch, Register,
        ReadError, CheckState, Poll, Settle, Signal, Reap, Seal,
        FinalizeNext, Schedule, Describe, Cancel, Query, Finalize, Exit, StartError,
        FinishError, vars, appVars
<1>2. QED
  BY <1>1, AloneInvariantHolds, TruthInvariantHolds, PTL DEF Spec, TerminalIsFinal

-----------------------------------------------------------------------------
(* The contract *)

\* A step that changes nothing that AppLifecycle sees is a stutter,
LEMMA LifecycleStutters ==
  ASSUME UNCHANGED <<cache, state, proc>>,
         \A a \in Apps : submitted'[a] = "yes" <=> submitted[a] = "yes"
  PROVE  UNCHANGED Lifecycle!lifecycleVars
<1>1. \A a \in Apps : StatusOf(a)' = StatusOf(a)
  BY DEF StatusOf
<1>2. \A a \in Apps : WorkOf(a)' = WorkOf(a)
  BY DEF WorkOf, Exited, Alive
<1>3. \A a \in Apps : Cached(a)' <=> Cached(a)
  BY DEF Cached
<1>4. QED
  BY <1>1, <1>2, <1>3 DEF Lifecycle!lifecycleVars

\* one that changes the state of an application is a step of its status,
LEMMA StatusChanges ==
  ASSUME TypeOK, NEW a \in Apps, UNCHANGED <<cache, submitted, proc>>,
         submitted[a] = "yes", NEW v, state' = [state EXCEPT ![a] = v]
  PROVE  /\ StatusOf(a) = state[a]
         /\ [b \in Apps |-> StatusOf(b)]' = [[b \in Apps |-> StatusOf(b)] EXCEPT ![a] = v]
         /\ UNCHANGED [b \in Apps |-> WorkOf(b)]
         /\ UNCHANGED {b \in Apps : Cached(b)}
<1>1. StatusOf(a) = state[a] /\ StatusOf(a)' = v
  BY DEF StatusOf, TypeOK
<1>2. \A b \in Apps \ {a} : StatusOf(b)' = StatusOf(b)
  BY DEF StatusOf, TypeOK
<1>3. \A b \in Apps : WorkOf(b)' = WorkOf(b)
  BY DEF WorkOf, Exited, Alive
<1>4. \A b \in Apps : Cached(b)' <=> Cached(b)
  BY DEF Cached
<1>5. QED
  BY <1>1, <1>2, <1>3, <1>4

\* and one that changes the processes of an application is a step of its work.
LEMMA WorkChanges ==
  ASSUME TypeOK, NEW a \in Apps, UNCHANGED <<cache, submitted, state>>,
         \A b \in Apps \ {a} : proc'[b] = proc[b]
  PROVE  /\ [b \in Apps |-> WorkOf(b)]' = [[b \in Apps |-> WorkOf(b)] EXCEPT ![a] = WorkOf(a)']
         /\ UNCHANGED [b \in Apps |-> StatusOf(b)]
         /\ UNCHANGED {b \in Apps : Cached(b)}
<1>1. \A b \in Apps \ {a} : WorkOf(b)' = WorkOf(b)
  BY DEF WorkOf, Exited, Alive
<1>2. \A b \in Apps : StatusOf(b)' = StatusOf(b)
  BY DEF StatusOf
<1>3. \A b \in Apps : Cached(b)' <=> Cached(b)
  BY DEF Cached
<1>4. QED
  BY <1>1, <1>2, <1>3

\* Starting a replica.
LEMMA LaunchImplements ==
  ASSUME TruthInvariant, NEW c \in Callers, Launch(c)
  PROVE  Lifecycle!Next \/ UNCHANGED Lifecycle!lifecycleVars
<1> PICK a \in Apps : a = call[c].app
  BY FrameFacts DEF TruthInvariant
<1>1. submitted[a] = "launching" /\ TypeOK
  BY DEF TruthInvariant, FrameTrue, LaunchTrue, Launch, At
<1>2. CASE UNCHANGED proc
  <2>1. \A b \in Apps : submitted'[b] = "yes" <=> submitted[b] = "yes"
    BY <1>1, <1>2 DEF Launch, TypeOK
  <2>2. QED
    BY <1>2, <2>1, LifecycleStutters DEF Launch
<1>3. CASE /\ proc' = [proc EXCEPT ![a] = [proc[a] EXCEPT ![call[c].k] = "alive"]]
           /\ UNCHANGED submitted
  <2>1. call[c].k \in Replicas
    BY <1>1, FrameFacts DEF Launch
  <2>2. proc'[a][call[c].k] = "alive" /\ \A b \in Apps \ {a} : proc'[b] = proc[b]
    BY <1>1, <1>3, <2>1 DEF TypeOK
  <2>3. WorkOf(a)' = "live"
    BY <2>1, <2>2 DEF WorkOf, Exited, Alive
  <2>4. StatusOf(a) = "UNSUBMITTED"
    BY <1>1 DEF StatusOf
  <2>5. Lifecycle!Start(a)
    BY <1>1, <1>3, <2>2, <2>3, <2>4, WorkChanges DEF Lifecycle!Start, Launch
  <2>6. QED
    BY <2>5 DEF Lifecycle!Next
<1>4. QED
  BY <1>2, <1>3 DEF Launch

\* The exit of a replica: the application ends with the last.
LEMMA ExitImplements ==
  ASSUME TypeOK, NEW a \in Apps, NEW r \in Replicas, Exit(a, r)
  PROVE  Lifecycle!Next \/ UNCHANGED Lifecycle!lifecycleVars
<1>1. /\ proc'[a][r] \in {"zero", "nonzero"}
      /\ \A b \in Apps \ {a} : proc'[b] = proc[b]
      /\ UNCHANGED <<cache, submitted, state>>
  BY DEF Exit, TypeOK, appVars
<1>2. WorkOf(a) = "live"
  BY DEF Exit, WorkOf, Exited, Alive
<1>3. WorkOf(a)' \in {"live", "ok", "bad"}
  BY <1>1 DEF WorkOf, Exited, Alive
<1>4. CASE WorkOf(a)' = "live"
  <2>1. UNCHANGED [b \in Apps |-> WorkOf(b)]
    BY <1>1, <1>2, <1>4, WorkChanges
  <2>2. QED
    BY <1>1, <2>1, WorkChanges DEF Lifecycle!lifecycleVars
<1>5. CASE WorkOf(a)' \in {"ok", "bad"}
  <2>1. Lifecycle!End(a)
    BY <1>1, <1>2, <1>5, WorkChanges DEF Lifecycle!End
  <2>2. QED
    BY <2>1 DEF Lifecycle!Next
<1>6. QED
  BY <1>3, <1>4, <1>5

\* A schedule that makes room forgets an application that is over.
LEMMA ScheduleImplements ==
  ASSUME TruthInvariant, CacheBounded, NEW c \in Callers, NEW a \in Apps, Schedule(c, a)
  PROVE  Lifecycle!Next \/ UNCHANGED Lifecycle!lifecycleVars
<1>1. TypeOK /\ UNCHANGED <<state, submitted, proc>>
  BY DEF TruthInvariant, Schedule, osVars
<1>2. CASE EvictLru
  <2>1. PICK i \in DOMAIN cache : IsTerminal(state[cache[i]]) /\ cache' = RemoveAt(cache, i)
    BY <1>2 DEF EvictLru, Evictable
  <2>2. PICK b \in Apps : b = cache[i]
    BY <1>1 DEF TypeOK
  <2>3. StatusOf(b) = state[b] /\ Cached(b)
    BY <2>1, <2>2 DEF TruthInvariant, CacheRegistered, Registered, StatusOf, Cached
  <2>4. /\ \A j \in DOMAIN cache' : \E h \in DOMAIN cache : h # i /\ cache'[j] = cache[h]
        /\ \A h \in DOMAIN cache : h # i => \E j \in DOMAIN cache' : cache'[j] = cache[h]
    <3>1. cache \in Seq(Apps)
      BY <1>1 DEF TypeOK
    <3>2. /\ \A j \in DOMAIN RemoveAt(cache, i) :
               \E h \in DOMAIN cache : h # i /\ RemoveAt(cache, i)[j] = cache[h]
          /\ \A h \in DOMAIN cache : h # i =>
               \E j \in DOMAIN RemoveAt(cache, i) : RemoveAt(cache, i)[j] = cache[h]
      BY <3>1, RemoveAtProperties
    <3>3. QED
      BY <2>1, <3>2
  <2>5. \A e \in Apps : Cached(e)' <=> Cached(e) /\ e # b
    BY <2>2, <2>4 DEF Cached, CacheBounded
  <2>6. \A e \in Apps : StatusOf(e)' = StatusOf(e)
    BY <1>1 DEF StatusOf
  <2>7. \A e \in Apps : WorkOf(e)' = WorkOf(e)
    BY <1>1 DEF WorkOf, Exited, Alive
  <2>8. Lifecycle!Forget(b)
    <3>1. {e \in Apps : Cached(e)}' = {e \in Apps : Cached(e)} \ {b}
      BY <2>5
    <3>2. IsTerminal(StatusOf(b)) /\ b \in {e \in Apps : Cached(e)}
      BY <2>1, <2>2, <2>3
    <3>3. QED
      BY <2>6, <2>7, <3>1, <3>2
      DEF Lifecycle!Forget, Lifecycle!IsTerminal, Lifecycle!TerminalStates,
          IsTerminal, TerminalStates
  <2>9. QED
    BY <2>8 DEF Lifecycle!Next
<1>3. CASE UNCHANGED cache
  BY <1>1, <1>3, LifecycleStutters
<1>4. QED
  BY <1>2, <1>3 DEF Schedule

\* Registering an application submits it.
LEMMA RegisterImplements ==
  ASSUME TruthInvariant, NEW c \in Callers, Register(c)
  PROVE  Lifecycle!Next
<1> PICK a \in Apps : a = call[c].app
  BY FrameFacts DEF TruthInvariant
<1>1. submitted[a] = "launching" /\ state[a] = "PENDING" /\ TypeOK
  BY DEF TruthInvariant, FrameTrue, LaunchTrue, AppTrue, Registered, Register, At
<1>2. /\ submitted' = [submitted EXCEPT ![a] = "yes"]
      /\ cache' = Append(cache, a)
      /\ UNCHANGED <<state, proc>>
  BY DEF Register, osVars
<1>3. StatusOf(a) = "UNSUBMITTED" /\ StatusOf(a)' = "PENDING"
  BY <1>1, <1>2 DEF StatusOf, TypeOK
<1>4. \A b \in Apps \ {a} : StatusOf(b)' = StatusOf(b)
  BY <1>1, <1>2 DEF StatusOf, TypeOK
<1>5. \A b \in Apps : WorkOf(b)' = WorkOf(b)
  BY <1>2 DEF WorkOf, Exited, Alive
<1>6. \A b \in Apps : Cached(b)' <=> Cached(b) \/ b = a
  <2>1. /\ DOMAIN cache' = 1 .. Len(cache) + 1 /\ Len(cache) \in Nat
        /\ DOMAIN cache = 1 .. Len(cache)
        /\ \A j \in 1 .. Len(cache) : cache'[j] = cache[j]
        /\ cache'[Len(cache) + 1] = a
    BY <1>1, <1>2 DEF TypeOK
  <2>2. QED
    BY <2>1 DEF Cached
<1>7. {b \in Apps : Cached(b)}' = {b \in Apps : Cached(b)} \cup {a}
  BY <1>6
<1>8. [b \in Apps |-> StatusOf(b)]' = [[b \in Apps |-> StatusOf(b)] EXCEPT ![a] = "PENDING"]
  BY <1>3, <1>4
<1>9. Lifecycle!Submit(a)
  BY <1>3, <1>5, <1>7, <1>8 DEF Lifecycle!Submit
<1>10. QED
  BY <1>9 DEF Lifecycle!Next

\* A verdict is what the application is.
LEMMA SetStateImplements ==
  ASSUME TruthInvariant, AloneInvariant, NEW c \in Callers, SetState(c)
  PROVE  Lifecycle!Next
<1> PICK a \in Apps : a = call[c].app
  BY FrameFacts DEF TruthInvariant
<1> DEFINE s == Verdict(call[c].seen)
<1>1. TypeOK /\ submitted[a] = "yes" /\ UNCHANGED <<cache, submitted, proc>>
  BY DEF TruthInvariant, FrameTrue, SetState, At, Found, Registered, osVars
<1>2. state[a] \in {"PENDING", "RUNNING"}
  BY DEF SetState, At, AloneInvariant, AloneTrue, LocalStates, IsTerminal
<1>3. state' = [state EXCEPT ![a] = s]
  BY DEF SetState
<1>4. TrueOf(a, s) /\ s \in {"RUNNING", "SUCCEEDED", "FAILED"}
  BY VerdictTrue DEF SetState, Verdict
<1> HIDE DEF s
<1>5. CASE s = "RUNNING"
  <2>1. Lifecycle!Observe(a)
    BY <1>1, <1>2, <1>3, <1>5, StatusChanges DEF Lifecycle!Observe
  <2>2. QED
    BY <2>1 DEF Lifecycle!Next
<1>6. CASE s = "SUCCEEDED"
  <2>1. WorkOf(a) \in {"none", "ok"}
    BY <1>4, <1>6 DEF TrueOf, WorkOf, Exited, Alive
  <2>2. Lifecycle!Finish(a)
    BY <1>1, <1>2, <1>3, <1>6, <2>1, StatusChanges DEF Lifecycle!Finish
  <2>3. QED
    BY <2>2 DEF Lifecycle!Next
<1>7. CASE s = "FAILED"
  <2>1. WorkOf(a) = "bad"
    BY <1>4, <1>7 DEF TrueOf, WorkOf, Exited, Alive, IsTerminal, TerminalStates
  <2>2. Lifecycle!Finish(a)
    BY <1>1, <1>2, <1>3, <1>7, <2>1, StatusChanges DEF Lifecycle!Finish
  <2>3. QED
    BY <2>2 DEF Lifecycle!Next
<1>8. QED
  BY <1>4, <1>5, <1>6, <1>7

\* A cancel takes effect when the replicas have exited.
LEMMA MarkImplements ==
  ASSUME TruthInvariant, AloneInvariant, NEW c \in Callers, Mark(c)
  PROVE  Lifecycle!Next
<1> PICK a \in Apps : a = call[c].app
  BY FrameFacts DEF TruthInvariant
<1>1. TypeOK /\ submitted[a] = "yes" /\ UNCHANGED <<cache, submitted, proc>>
  BY DEF TruthInvariant, FrameTrue, Mark, At, Found, Registered, osVars
<1>2. Exited(a) /\ Cached(a)
  BY DEF TruthInvariant, FrameTrue, CloseTrue, AloneInvariant, AloneTrue, Closing, Mark, At
<1>3. state' = [state EXCEPT ![a] = "CANCELLED"]
  BY DEF Mark
<1>4. WorkOf(a) # "live"
  BY <1>2 DEF WorkOf, Exited, Alive
<1>5. Lifecycle!Cancel(a)
  BY <1>1, <1>2, <1>3, <1>4, StatusChanges DEF Lifecycle!Cancel
<1>6. QED
  BY <1>5 DEF Lifecycle!Next

\* Every other step of a thread is a stutter.
LEMMA QuietImplements ==
  ASSUME TruthInvariant, NEW c \in Callers,
         \/ Prepare(c) \/ ReadError(c) \/ CheckState(c) \/ Poll(c) \/ Settle(c)
         \/ Signal(c) \/ Reap(c) \/ Seal(c) \/ FinalizeNext(c) \/ Finalize(c)
         \/ \E a \in Apps : Query(c, "describe", a) \/ Query(c, "cancel", a)
  PROVE  UNCHANGED Lifecycle!lifecycleVars
<1>1. UNCHANGED <<cache, state, proc>>
  BY DEF Prepare, ReadError, CheckState, Poll, Settle, Signal, Reap, Seal, FinalizeNext,
         Finalize, Query, appVars, osVars
<1>2. CASE Prepare(c)
  <2>1. \A a \in Apps : submitted'[a] = "yes" <=> submitted[a] = "yes"
    BY <1>2 DEF Prepare, TruthInvariant, TypeOK
  <2>2. QED
    BY <1>1, <2>1, LifecycleStutters
<1>3. CASE ~Prepare(c)
  <2>1. UNCHANGED submitted
    BY <1>3 DEF ReadError, CheckState, Poll, Settle, Signal, Reap, Seal, FinalizeNext,
                Finalize, Query, appVars
  <2>2. QED
    BY <1>1, <2>1, LifecycleStutters
<1>4. QED
  BY <1>2, <1>3

LEMMA LifecycleStarts == Init => Lifecycle!Init
<1> SUFFICES ASSUME Init PROVE Lifecycle!Init
  OBVIOUS
<1>1. \A a \in Apps : StatusOf(a) = "UNSUBMITTED"
  BY DEF Init, StatusOf
<1>2. \A a \in Apps : WorkOf(a) = "none"
  BY DEF Init, WorkOf, Exited, Alive
<1>3. \A a \in Apps : ~Cached(a)
  BY DEF Init, Cached
<1>4. QED
  BY <1>1, <1>2, <1>3 DEF Lifecycle!Init

\* Every step is one of AppLifecycle or leaves alone what it sees.
LEMMA LifecycleStep ==
  ASSUME TruthInvariant, CacheBounded, AloneInvariant, [Next]_vars
  PROVE  Lifecycle!Next \/ UNCHANGED Lifecycle!lifecycleVars
<1>1. ASSUME NEW c \in Callers, Progress(c)
      PROVE  Lifecycle!Next \/ UNCHANGED Lifecycle!lifecycleVars
  BY <1>1, LaunchImplements, RegisterImplements, SetStateImplements, MarkImplements,
     QuietImplements
  DEF Progress
<1>2. ASSUME NEW c \in Callers, Invoke(c)
      PROVE  Lifecycle!Next \/ UNCHANGED Lifecycle!lifecycleVars
  BY <1>2, ScheduleImplements, QuietImplements DEF Invoke, Describe, Cancel
<1>3. ASSUME NEW a \in Apps, NEW r \in Replicas,
             Exit(a, r) \/ StartError(a, r) \/ FinishError(a, r)
      PROVE  Lifecycle!Next \/ UNCHANGED Lifecycle!lifecycleVars
  <2>1. CASE Exit(a, r)
    BY <2>1, ExitImplements DEF TruthInvariant
  <2>2. CASE StartError(a, r) \/ FinishError(a, r)
    BY <2>2, LifecycleStutters DEF StartError, FinishError, appVars
  <2>3. QED
    BY <1>3, <2>1, <2>2
<1>4. CASE UNCHANGED vars
  BY <1>4, LifecycleStutters DEF vars, appVars, osVars
<1>5. QED
  BY <1>1, <1>2, <1>3, <1>4 DEF Next, Environment

\* A thread that is alone sees the local scheduler keep the promise of
\* AppLifecycle, for any applications, number of replicas and cache size.
THEOREM ImplementsLifecycleHolds ==
  ASSUME NEW s, Callers = {s}, Submitters = {s}
  PROVE  Spec => ImplementsLifecycle
<1>1. TruthInvariant /\ CacheBounded /\ AloneInvariant /\ [Next]_vars =>
        [Lifecycle!Next]_Lifecycle!lifecycleVars
  BY LifecycleStep
<1>2. Spec => []CacheBounded
  BY CacheBoundedHolds
<1>3. Spec => []AloneInvariant
  BY AloneInvariantHolds
<1>4. QED
  BY <1>1, <1>2, <1>3, TruthInvariantHolds, LifecycleStarts, PTL
  DEF Spec, ImplementsLifecycle, Lifecycle!Spec
=============================================================================
