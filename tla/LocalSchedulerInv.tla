------------------------- MODULE LocalSchedulerInv --------------------------
(***************************************************************************)
(* Why the local scheduler tells the truth: the inductive invariant behind *)
(* TerminalMeansExited, OutcomeAccurate, SuccessMeansClosed,               *)
(* RunningIsTracked and OnlyCancelTerminates.  It says, for every point a  *)
(* call can be at, what that thread already knows of the processes and     *)
(* what no other thread can take away from it: a process that has exited   *)
(* stays exited, and only the thread that launches an application starts   *)
(* processes of it, before any other thread can find it.                   *)
(***************************************************************************)
EXTENDS LocalScheduler

Registered(a) == submitted[a] = "yes"

\* the points of a call that looked its application up in the cache
Found == {"readerr", "check", "poll", "settle", "signal", "reap", "mark"}

\* what it takes for s to be a true statement about application a
TrueOf(a, s) ==
  /\ IsTerminal(s) => Exited(a)
  /\ s = "SUCCEEDED" => \A r \in Replicas : proc[a][r] = "zero"
  /\ s = "FAILED" => \E r \in Replicas : proc[a][r] = "nonzero"

\* An application, as the scheduler remembers it.
AppTrue(a) ==
  /\ submitted[a] = "no" => \A r \in Replicas : proc[a][r] = "none"
  /\ ~Registered(a) => state[a] = "PENDING" /\ success[a] = "none"
  /\ Registered(a) => \A r \in Replicas : proc[a][r] # "none"
  /\ Registered(a) /\ ~Cached(a) => Exited(a)
  /\ TrueOf(a, state[a])
  /\ success[a] # "none" => Exited(a)

\* what a thread that launches has started so far
LaunchTrue(f) ==
  f.at = "launch" =>
    /\ submitted[f.app] = "launching"
    /\ \A r \in Replicas : r < f.k => proc[f.app][r] # "none"

\* what a describe has learnt from the replicas it has polled so far
PollTrue(f) ==
  f.at = "poll" =>
    /\ \A r \in Replicas :
         r < f.k /\ "running" \notin f.seen =>
           /\ ~Alive(f.app, r)
           /\ "failed" \notin f.seen => proc[f.app][r] = "zero"
    /\ "failed" \in f.seen => \E r \in Replicas : proc[f.app][r] = "nonzero"

\* what a close has waited for so far; only a cancel or the finalizer closes an
\* application that may run
CloseTrue(f) ==
  /\ f.at \in {"signal", "reap"} =>
       /\ \A r \in Replicas : r < f.k => ~Alive(f.app, r)
       /\ f.op \notin {"kill", "del"} => Exited(f.app)
  /\ f.at = "mark" => Exited(f.app)

\* The frame of a thread.
FrameTrue(f) ==
  /\ f.at \in Found => Registered(f.app)
  /\ IsTerminal(f.res) => Registered(f.app) /\ TrueOf(f.app, f.res)
  /\ LaunchTrue(f)
  /\ PollTrue(f)
  /\ CloseTrue(f)

CacheRegistered == \A i \in DOMAIN cache : Registered(cache[i])

\* one thread launches an application
LaunchingAlone ==
  \A c, d \in Callers :
    At(c, "launch") /\ At(d, "launch") /\ call[c].app = call[d].app => c = d

TruthInvariant ==
  /\ TypeOK
  /\ CacheRegistered
  /\ LaunchingAlone
  /\ \A a \in Apps : AppTrue(a)
  /\ \A c \in Callers : FrameTrue(call[c])
=============================================================================
