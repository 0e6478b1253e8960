-------------------------- MODULE TorchServeProofs --------------------------
(***************************************************************************)
(* Proofs about TorchServe.  The server stops only when main has told it   *)
(* to, which main does after it has given torchserve up or was answered,   *)
(* and main removes the directory only when the server has stopped.        *)
(***************************************************************************)
EXTENDS TorchServe, TLAPS

\* main before it shuts the server down
Before == {"download", "bind", "start", "address", "post", "waiting", "shutdown"}

\* What main knows of the thread of the server.
ServerFollows ==
  /\ pc \in {"download", "bind", "start"} => server = "none"
  /\ pc \in {"address", "post", "waiting"} => server # "none"
  /\ pc \in Before => ~flag /\ server \notin {"stopping", "stopped", "over"}
  /\ isShutDown => server = "over"
  /\ pc \in {"remove", "exit", "ended"} => server \in {"none", "over"}

\* What torchserve is told, and what it finds.
DownloadFollows ==
  /\ pc \in {"bind", "start", "address", "post", "waiting"} => tmpdir = "model"
  /\ pc \in Before \ {"waiting", "shutdown"} => torchserve = "idle" /\ download = "none"
  /\ pc = "waiting" => download \notin {"not found", "reset"}

ServeInvariant == TypeOK /\ ServerFollows /\ DownloadFollows

\* The invariant holds at the start.
LEMMA ServeStarts == Init => ServeInvariant
BY DEF Init, ServeInvariant, TypeOK, ServerFollows, DownloadFollows, Before

-----------------------------------------------------------------------------
(* Types *)

\* Every step of main keeps the types.
LEMMA MainTypes ==
  ASSUME TypeOK, Main PROVE TypeOK'
<1> USE DEF TypeOK, Raise, loop, remote
<1>1. CASE Download \/ Bind \/ Start
  BY <1>1 DEF Download, Copied, Bind, Start
<1>2. CASE Address \/ Post \/ Answer
  BY <1>2 DEF Address, Post, Answer, Cleanup
<1>3. CASE Shutdown \/ AwaitShutdown
  BY <1>3 DEF Shutdown, AwaitShutdown
<1>4. CASE Remove \/ EndProcess
  BY <1>4 DEF Remove, Removed, EndProcess
<1>5. QED
  BY <1>1, <1>2, <1>3, <1>4 DEF Main

\* Every other step keeps the types, and so does none.
LEMMA OthersTypes ==
  ASSUME TypeOK, Server \/ Respond \/ Connect \/ Register \/ Refuse \/ UNCHANGED vars
  PROVE  TypeOK'
<1>1. /\ UNCHANGED <<pc, outcome, tmpdir>>
      /\ pc' \in {"exit", "ended"} <=> pc \in {"exit", "ended"}
  BY DEF Server, ServeForever, ServeLoop, Select, Handle, Stop, Respond, Connect, Register, Refuse,
         vars
<1>2. /\ server' \in {"none", "started", "loop", "select", "selected", "handle", "stopping",
                     "stopped", "over"}
      /\ flag' \in BOOLEAN /\ isShutDown' \in BOOLEAN
  BY DEF TypeOK, loop, remote, Server, ServeForever, ServeLoop, Select, Handle, Stop, Respond,
         Connect, Register, Refuse, vars
<1>3. /\ download' \in {"none", "queued", "accepted", "sending", "sent", "not found", "reset"}
      /\ torchserve' \in {"idle", "asked", "downloading", "registered", "failed"}
  BY DEF TypeOK, loop, remote, Server, ServeForever, ServeLoop, Select, Handle, Stop, Respond,
         Connect, Register, Refuse, vars
<1>4. QED
  BY <1>1, <1>2, <1>3 DEF TypeOK

-----------------------------------------------------------------------------
(* Main, its server and torchserve *)

\* The steps of main.
LEMMA MainKeeps ==
  ASSUME ServeInvariant, Main PROVE ServerFollows' /\ DownloadFollows'
<1> USE DEF ServeInvariant, ServerFollows, DownloadFollows, Before, Raise, loop, remote
<1>0. CASE Download
  BY <1>0 DEF Download, Copied
<1>1. CASE Bind
  BY <1>1 DEF Bind
<1>2. CASE Start
  <2>1. ServerFollows'
    BY <1>2 DEF Start
  <2>2. DownloadFollows'
    BY <1>2 DEF Start
  <2>3. QED
    BY <2>1, <2>2
<1>3. CASE Address \/ Post
  <2>1. /\ UNCHANGED <<server, flag, isShutDown>>
        /\ pc \in {"address", "post"} /\ pc' \in {"post", "waiting", "shutdown"}
    BY <1>3 DEF Address, Post, Cleanup
  <2>2. DownloadFollows'
    BY <1>3 DEF Address, Post, Cleanup
  <2>3. ServerFollows'
    BY <2>1
  <2>4. QED
    BY <2>2, <2>3
<1>4. CASE Answer
  BY <1>4 DEF Answer, Cleanup, GivesUp
<1>5. CASE Shutdown
  BY <1>5 DEF Shutdown
<1>6. CASE AwaitShutdown
  BY <1>6 DEF AwaitShutdown
<1>7. CASE Remove
  BY <1>7 DEF Remove
<1>8. CASE EndProcess
  BY <1>8 DEF EndProcess
<1>9. QED
  BY <1>0, <1>1, <1>2, <1>3, <1>4, <1>5, <1>6, <1>7, <1>8 DEF Main

\* The steps of the thread of the server: it leaves its loop only when it is
\* told to, and handing a connection on refuses nothing.
LEMMA ServerKeeps ==
  ASSUME ServeInvariant, Server PROVE ServerFollows' /\ DownloadFollows'
<1>1. UNCHANGED <<pc, tmpdir, torchserve>>
  BY DEF Server, ServeForever, ServeLoop, Select, Handle, Stop, remote
<1>2. \/ download' = download
      \/ download = "queued" /\ download' = "accepted"
  BY DEF Server, ServeForever, ServeLoop, Select, Handle, Stop, remote
<1>3. DownloadFollows'
  BY <1>1, <1>2 DEF ServeInvariant, DownloadFollows
<1>4. ServerFollows'
  <2> USE DEF ServeInvariant, ServerFollows, Before, remote
  <2>1. CASE ServeForever
    BY <2>1 DEF ServeForever
  <2>2. CASE ServeLoop
    BY <2>2 DEF ServeLoop
  <2>3. CASE Select \/ Handle
    BY <2>3 DEF Select, Handle
  <2>4. CASE Stop
    BY <2>4 DEF Stop
  <2>5. QED
    BY <2>1, <2>2, <2>3, <2>4 DEF Server
<1>5. QED
  BY <1>3, <1>4

\* The steps of torchserve and of the thread that sends to it: while main waits
\* there is a connection and a model.
LEMMA TorchserveKeeps ==
  ASSUME ServeInvariant, Respond \/ Connect \/ Register \/ Refuse
  PROVE  ServerFollows' /\ DownloadFollows'
<1>1. UNCHANGED <<pc, tmpdir, server, flag, isShutDown>>
  BY DEF Respond, Connect, Register, Refuse, loop
<1>2. ServerFollows'
  BY <1>1 DEF ServeInvariant, ServerFollows
<1>3. torchserve = "idle" /\ download = "none" => FALSE
  BY DEF Respond, Connect, Register, Refuse
<1>4. pc = "waiting" => download' \notin {"not found", "reset"}
  BY DEF ServeInvariant, DownloadFollows, Respond, Connect, Register, Refuse
<1>5. DownloadFollows'
  BY <1>1, <1>3, <1>4 DEF ServeInvariant, DownloadFollows
<1>6. QED
  BY <1>2, <1>5

\* Every step keeps the invariant.
LEMMA ServeStep == ServeInvariant /\ [Next]_vars => ServeInvariant'
<1> SUFFICES ASSUME ServeInvariant, [Next]_vars PROVE ServeInvariant'
  OBVIOUS
<1>1. CASE UNCHANGED vars
  <2>1. UNCHANGED <<pc, outcome, tmpdir, server, flag, isShutDown, download, torchserve>>
    BY <1>1 DEF vars, loop, remote
  <2>2. TypeOK'
    BY <1>1, OthersTypes DEF ServeInvariant
  <2>3. ServerFollows' /\ DownloadFollows'
    BY <2>1 DEF ServeInvariant, ServerFollows, DownloadFollows
  <2>4. QED
    BY <2>2, <2>3 DEF ServeInvariant
<1>2. CASE Next
  <2>1. TypeOK'
    BY <1>2, MainTypes, OthersTypes DEF Next, ServeInvariant
  <2>2. QED
    BY <1>2, <2>1, MainKeeps, ServerKeeps, TorchserveKeeps DEF Next, ServeInvariant
<1>3. QED
  BY <1>1, <1>2

\* Wherever main fails and whatever torchserve does, the invariant holds.
THEOREM ServeInvariantHolds == Spec => []ServeInvariant
BY ServeStarts, ServeStep, PTL DEF Spec

\* Every variable keeps its type, and the directory is there until main exits.
THEOREM TorchServeTypeCorrect == Spec => []TypeOK
<1>1. ServeInvariant => TypeOK
  BY DEF ServeInvariant
<1>2. QED
  BY <1>1, ServeInvariantHolds, PTL

\* What torchserve was told to download is there as long as it may answer in time.
THEOREM ServedWhileAskedHolds == Spec => []ServedWhileAsked
<1>1. ServeInvariant => ServedWhileAsked
  BY DEF ServeInvariant, ServerFollows, DownloadFollows, ServedWhileAsked, Before
<1>2. QED
  BY <1>1, ServeInvariantHolds, PTL

\* The directory is removed only when the server takes no more connections.
THEOREM RemovedAfterServingHolds == Spec => []RemovedAfterServing
<1>1. ServeInvariant => RemovedAfterServing
  BY DEF ServeInvariant, ServerFollows, RemovedAfterServing
<1>2. QED
  BY <1>1, ServeInvariantHolds, PTL
=============================================================================
