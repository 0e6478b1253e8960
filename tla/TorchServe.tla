----------------------------- MODULE TorchServe -----------------------------
(***************************************************************************)
(* The application that registers a model with torchserve (main of         *)
(* torchx/apps/serve/serve.py): it copies the model to a temporary         *)
(* directory, serves the directory over HTTP from a thread of its own,     *)
(* asks torchserve to register the model, for which torchserve downloads   *)
(* it from that server while the request is pending, and cleans up.        *)
(*                                                                         *)
(* The loop of the server is that of socketserver: shutdown() sets a flag  *)
(* and waits for an event that serve_forever sets at its end.              *)
(***************************************************************************)

VARIABLES
  pc,          \* what main does next
  outcome,     \* "none", "ok" or "raised"
  tmpdir,      \* "empty", "model" or, once it was removed, "none"
  server,      \* what the thread of the server does; "none" until it starts
  flag,        \* its __shutdown_request
  isShutDown,  \* its event __is_shut_down
  download,    \* torchserve's connection to the server
  torchserve   \* "idle", "asked", "downloading", "registered" or "failed"

loop == <<server, flag, isShutDown>>
remote == <<download, torchserve>>
vars == <<pc, outcome, tmpdir, loop, remote>>

Init ==
  /\ pc = "download"
  /\ outcome = "none"
  /\ tmpdir = "empty"
  /\ server = "none"
  /\ flag = FALSE
  /\ isShutDown = FALSE
  /\ download = "none"
  /\ torchserve = "idle"

-----------------------------------------------------------------------------
(* main() *)

\* what an exception leads to: before the `try' only the directory is left
Raise(next) ==
  /\ outcome' = "raised"
  /\ pc' = next

MutantCopied == TRUE                   \* an error of fs.get is ignored

Copied == tmpdir' = "model"

\* one path, and fs.get()
Download ==
  /\ pc = "download"
  /\ tmpdir' \in {"empty", "model"}
  /\ \/ /\ Copied
        /\ pc' = "bind"
        /\ UNCHANGED outcome
     \/ Raise("remove")
  /\ UNCHANGED <<loop, remote>>

\* ThreadingHTTPServer(): the port may be in use
Bind ==
  /\ pc = "bind"
  /\ \/ /\ pc' = "start"
        /\ UNCHANGED outcome
     \/ Raise("remove")
  /\ UNCHANGED <<tmpdir, loop, remote>>

\* t.start()
Start ==
  /\ pc = "start"
  /\ \/ /\ server' = "started"
        /\ pc' = "address"
        /\ UNCHANGED outcome
     \/ /\ Raise("shutdown")
        /\ UNCHANGED server
  /\ UNCHANGED <<tmpdir, flag, isShutDown, remote>>

MutantCleanup == "remove"              \* no `finally'

Cleanup == "shutdown"

\* get_routable_ip_to()
Address ==
  /\ pc = "address"
  /\ \/ /\ pc' = "post"
        /\ UNCHANGED outcome
     \/ Raise(Cleanup)
  /\ UNCHANGED <<tmpdir, loop, remote>>

\* requests.post(): the connection may be refused
Post ==
  /\ pc = "post"
  /\ \/ /\ torchserve' = "asked"
        /\ pc' = "waiting"
        /\ UNCHANGED outcome
     \/ /\ Raise(Cleanup)
        /\ UNCHANGED torchserve
  /\ UNCHANGED <<tmpdir, loop, download>>

MutantGivesUp == torchserve = "failed"     \* no timeout

\* an answer that is an error, or none before the timeout
GivesUp == TRUE

\* raise_for_status() and the timeout of the request
Answer ==
  /\ pc = "waiting"
  /\ \/ /\ torchserve = "registered"
        /\ pc' = "shutdown"
        /\ outcome' = "ok"
     \/ /\ GivesUp
        /\ Raise(Cleanup)
  /\ UNCHANGED <<tmpdir, loop, remote>>

\* server.shutdown(): __shutdown_request = True, and __is_shut_down.wait()
Shutdown ==
  /\ pc = "shutdown"
  /\ flag' = TRUE
  /\ pc' = "wait"
  /\ UNCHANGED <<outcome, tmpdir, server, isShutDown, remote>>

AwaitShutdown ==
  /\ pc = "wait"
  /\ isShutDown
  /\ pc' = "remove"
  /\ UNCHANGED <<outcome, tmpdir, loop, remote>>

MutantRemoved == tmpdir                \* mkdtemp() has no __exit__

Removed == "none"

\* __exit__ of TemporaryDirectory
Remove ==
  /\ pc = "remove"
  /\ tmpdir' = Removed
  /\ pc' = "exit"
  /\ UNCHANGED <<outcome, loop, remote>>

\* the interpreter joins the thread of the server; the threads of the requests
\* are daemons, and end with the process as its sockets do
EndProcess ==
  /\ pc = "exit"
  /\ server \in {"none", "over"}
  /\ pc' = "ended"
  /\ download' = IF download \in {"queued", "accepted", "sending"} THEN "reset" ELSE download
  /\ UNCHANGED <<outcome, tmpdir, loop, torchserve>>

-----------------------------------------------------------------------------
(* The thread of the server, and that of a request *)

\* __is_shut_down.clear()
ServeForever ==
  /\ server = "started"
  /\ isShutDown' = FALSE
  /\ server' = "loop"
  /\ UNCHANGED <<pc, outcome, tmpdir, flag, remote>>

\* `while not self.__shutdown_request', and again after the select
ServeLoop ==
  /\ server \in {"loop", "selected"}
  /\ server' = IF flag THEN "stopping" ELSE IF server = "loop" THEN "select" ELSE "handle"
  /\ UNCHANGED <<pc, outcome, tmpdir, flag, isShutDown, remote>>

\* selector.select(poll_interval) returns: a connection waits, or time is up
Select ==
  /\ server = "select"
  /\ server' = "selected"
  /\ UNCHANGED <<pc, outcome, tmpdir, flag, isShutDown, remote>>

\* _handle_request_noblock(): a connection gets a thread
Handle ==
  /\ server = "handle"
  /\ download' = IF download = "queued" THEN "accepted" ELSE download
  /\ server' = "loop"
  /\ UNCHANGED <<pc, outcome, tmpdir, flag, isShutDown, torchserve>>

\* `finally: __shutdown_request = False; __is_shut_down.set()'
Stop ==
  /\ \/ /\ server = "stopping"
        /\ flag' = FALSE
        /\ server' = "stopped"
        /\ UNCHANGED isShutDown
     \/ /\ server = "stopped"
        /\ isShutDown' = TRUE
        /\ server' = "over"
        /\ UNCHANGED flag
  /\ UNCHANGED <<pc, outcome, tmpdir, remote>>

\* do_GET(): a file that is open can be sent after it was removed
Respond ==
  /\ pc # "ended"
  /\ \/ /\ download = "accepted"
        /\ download' = IF tmpdir = "model" THEN "sending" ELSE "not found"
     \/ /\ download = "sending"
        /\ download' = "sent"
  /\ UNCHANGED <<pc, outcome, tmpdir, loop, torchserve>>

-----------------------------------------------------------------------------
(* Torchserve *)

\* it connects: the socket listens from the bind to the end of the process
Connect ==
  /\ torchserve = "asked"
  /\ torchserve' = "downloading"
  /\ download' = IF pc = "ended" THEN "reset" ELSE "queued"
  /\ UNCHANGED <<pc, outcome, tmpdir, loop>>

\* it registers the model that it has downloaded
Register ==
  /\ torchserve = "downloading"
  /\ download = "sent"
  /\ torchserve' = "registered"
  /\ UNCHANGED <<pc, outcome, tmpdir, loop, download>>

\* it may refuse the request or the model, or give up
Refuse ==
  /\ torchserve \in {"asked", "downloading"}
  /\ torchserve' = "failed"
  /\ UNCHANGED <<pc, outcome, tmpdir, loop, download>>

-----------------------------------------------------------------------------
Main ==
  \/ Download
  \/ Bind
  \/ Start
  \/ Address
  \/ Post
  \/ Answer
  \/ Shutdown
  \/ AwaitShutdown
  \/ Remove
  \/ EndProcess

Server ==
  \/ ServeForever
  \/ ServeLoop
  \/ Select
  \/ Handle
  \/ Stop

Next ==
  \/ Main
  \/ Server
  \/ Respond
  \/ Connect
  \/ Register
  \/ Refuse

Spec == Init /\ [][Next]_vars

\* Main and the thread of the server run; the timeout of the request makes
\* Answer fair.  Nothing is assumed of torchserve, nor of the thread that sends
\* to it.
FairSpec == Spec /\ WF_vars(Main) /\ WF_vars(Server)

-----------------------------------------------------------------------------
(* Properties *)

\* Every variable has its type; the directory is there until the command exits.
TypeOK ==
  /\ pc \in {"download", "bind", "start", "address", "post", "waiting", "shutdown",
             "wait", "remove", "exit", "ended"}
  /\ outcome \in {"none", "ok", "raised"}
  /\ tmpdir \in {"none", "empty", "model"}
  /\ tmpdir = "none" <=> pc \in {"exit", "ended"}
  /\ server \in {"none", "started", "loop", "select", "selected", "handle", "stopping",
                 "stopped", "over"}
  /\ flag \in BOOLEAN /\ isShutDown \in BOOLEAN
  /\ download \in {"none", "queued", "accepted", "sending", "sent", "not found", "reset"}
  /\ torchserve \in {"idle", "asked", "downloading", "registered", "failed"}

\* As long as torchserve may still answer in time, what it was told to download
\* is there and the server takes connections: it is refused, or finds nothing,
\* only after the command has given up.
ServedWhileAsked ==
  pc = "waiting" =>
    /\ tmpdir = "model"
    /\ ~flag /\ server \notin {"stopping", "stopped", "over"}
    /\ download \notin {"not found", "reset"}

\* The directory is removed only when the server takes no more connections, also
\* when the request fails before the server has begun to serve.
RemovedAfterServing ==
  pc \in {"remove", "exit", "ended"} => server \in {"none", "over"}

\* The command ends, with the directory removed, at whatever point it fails and
\* whatever torchserve does; unless the thread of the server could not be
\* started, for which shutdown() waits for ever.
ServeEnds ==
  <>\/ pc = "ended" /\ tmpdir = "none"
    \/ pc = "wait" /\ server = "none"
=============================================================================
