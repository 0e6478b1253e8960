------------------------------ MODULE LogTail ------------------------------
(***************************************************************************)
(* Reading the log of a replica while it is written: Runner.log_lines of   *)
(* torchx/runner/api.py and LogIterator of                                 *)
(* torchx/schedulers/local_scheduler.py, on top of LocalScheduler.         *)
(*                                                                         *)
(* A reader is a thread of its own that never blocks on the replica.  It   *)
(* reads what is in stderr.log and, at the end of the file, asks the       *)
(* scheduler whether the application is over, with a describe that is as   *)
(* long, and as easily overtaken, as any other.  The file is a sequence    *)
(* of pieces, one per write() of the replica: a piece may end a line or    *)
(* leave it open, and may hold text that the regex looks for.              *)
(***************************************************************************)
EXTENDS LocalScheduler

CONSTANTS
  Readers,    \* the callers that read logs; the others schedule and cancel
  Logged,     \* the applications run with log_dir in their RunConfig
  Source,     \* the replica whose log is read
  MaxPieces   \* bound: how much a replica writes

ASSUME ReadersAssumption == Readers \subseteq Callers /\ Logged \subseteq Apps
ASSUME SourceAssumption == Source \in Replicas
ASSUME MaxPiecesAssumption == MaxPieces \in Nat

VARIABLES
  stderr,     \* what the replica Source of each application has written
  reader      \* the log_lines call and the iterator of each reader

tailVars == <<vars, stderr, reader>>

Pieces == [eol : BOOLEAN, hit : BOOLEAN]

\* `got' holds the lines returned so far, each as the pieces it is made of
Reader ==
  [at       : {"off", "status", "open", "check", "checking", "read",
               "stopped", "raised"},
   app      : Apps,
   pos      : 0 .. MaxPieces,
   finished : BOOLEAN,
   got      : Seq((1 .. MaxPieces) \X (1 .. MaxPieces)),
   error    : Errors \cup {"none", "UnknownAppException", "RuntimeError"}]

ReaderAt(c, label) == reader[c].at = label
Move(c, label) == reader' = [reader EXCEPT ![c].at = label]
Raise(c, error) ==
  reader' = [reader EXCEPT ![c] = [@ EXCEPT !.at = "raised", !.error = error]]

\* how the describe that reader c made came out: it raised, it found nothing,
\* or it told a state
DescribeRaised(c) == call[c].res \in Errors
NotFound(c) == call[c].res = "none"

TailInit ==
  /\ Init
  /\ stderr = [a \in Apps |-> <<>>]
  /\ \E a \in Apps :
       reader = [c \in Readers |->
                   [at |-> "off", app |-> a, pos |-> 0, finished |-> FALSE,
                    got |-> <<>>, error |-> "none"]]

-----------------------------------------------------------------------------
(* log_lines *)

\* self.status(app_handle)
LogLines(c, a) ==
  /\ ReaderAt(c, "off")
  /\ Describe(c, a)
  /\ reader' = [reader EXCEPT ![c] = [@ EXCEPT !.at = "status", !.app = a]]
  /\ UNCHANGED stderr

\* the status is there, or log_lines raises
StatusKnown(c) ==
  /\ ReaderAt(c, "status")
  /\ Idle(c)
  /\ \/ DescribeRaised(c) /\ Raise(c, call[c].res)
     \/ NotFound(c) /\ Raise(c, "UnknownAppException")
     \/ ~DescribeRaised(c) /\ ~NotFound(c) /\ Move(c, "open")
  /\ UNCHANGED <<vars, stderr>>

\* LocalScheduler.log_iter: looks the application up again, wants its file
LogIter(c) ==
  LET a == reader[c].app IN
  /\ ReaderAt(c, "open")
  /\ \/ ~Cached(a) /\ Raise(c, "KeyError")
     \/ Cached(a) /\ a \notin Logged /\ Raise(c, "RuntimeError")
     \/ Cached(a) /\ a \in Logged /\ Move(c, "check")
  /\ UNCHANGED <<vars, stderr>>

-----------------------------------------------------------------------------
(* LogIterator.  log_iter has seen the file and nothing removes it, so       *)
(* __iter__ is one _check_finished, followed by the open.                    *)

\* _check_finished asks ...
AskFinished(c) ==
  /\ ReaderAt(c, "check")
  /\ Describe(c, reader[c].app)
  /\ Move(c, "checking")
  /\ UNCHANGED stderr

MutantFinished(c) == IsTerminal(call[c].res)  \* forgets `not desc'

\* `not desc or is_terminal(desc.state)'
Finished(c) == NotFound(c) \/ IsTerminal(call[c].res)

MutantCheckFinished(c) ==              \* stops as soon as it is told
  /\ ReaderAt(c, "checking")
  /\ Idle(c)
  /\ \/ DescribeRaised(c) /\ Raise(c, call[c].res)
     \/ /\ ~DescribeRaised(c)
        /\ Move(c, IF Finished(c) THEN "stopped" ELSE "read")
  /\ UNCHANGED <<vars, stderr>>

\* ... and learns, or the describe raises through the iterator
CheckFinished(c) ==
  /\ ReaderAt(c, "checking")
  /\ Idle(c)
  /\ \/ DescribeRaised(c) /\ Raise(c, call[c].res)
     \/ /\ ~DescribeRaised(c)
        /\ reader' = [reader EXCEPT ![c] = [@ EXCEPT !.at = "read",
                                                     !.finished = Finished(c)]]
  /\ UNCHANGED <<vars, stderr>>

\* where readline stops: after the first newline, or at the end of the file
LineEnd(text, from) ==
  CHOOSE to \in from .. Len(text) :
    /\ \A i \in from .. to - 1 : ~text[i].eol
    /\ text[to].eol \/ to = Len(text)

Matches(text, from, to) == \E i \in from .. to : text[i].hit

MutantReadLine(c) ==                   \* takes a position for a length
  LET text == stderr[reader[c].app]
      from == reader[c].pos + 1
  IN
  /\ ReaderAt(c, "read")
  /\ from <= Len(text)
  /\ reader' = [reader EXCEPT ![c].pos = @ + LineEnd(text, from)]
  /\ UNCHANGED <<vars, stderr>>

\* readline returns something: a line to return if it matches the regex
ReadLine(c) ==
  LET text == stderr[reader[c].app]
      from == reader[c].pos + 1
      to   == LineEnd(text, from)
  IN
  /\ ReaderAt(c, "read")
  /\ from <= Len(text)
  /\ reader' = [reader EXCEPT ![c].pos = to,
                              ![c].got = IF Matches(text, from, to)
                                           THEN Append(@, <<from, to>>) ELSE @]
  /\ UNCHANGED <<vars, stderr>>

\* readline returns nothing: stop, or sleep and check again
ReadNothing(c) ==
  /\ ReaderAt(c, "read")
  /\ reader[c].pos = Len(stderr[reader[c].app])
  /\ Move(c, IF reader[c].finished THEN "stopped" ELSE "check")
  /\ UNCHANGED <<vars, stderr>>

-----------------------------------------------------------------------------
\* the replica writes to its stderr.log
Write(a) ==
  /\ a \in Logged
  /\ Alive(a, Source)
  /\ Len(stderr[a]) < MaxPieces
  /\ \E p \in Pieces : stderr' = [stderr EXCEPT ![a] = Append(@, p)]
  /\ UNCHANGED <<vars, reader>>

ReaderStep(c) ==
  \/ Progress(c) /\ UNCHANGED <<stderr, reader>>
  \/ StatusKnown(c)
  \/ LogIter(c)
  \/ AskFinished(c)
  \/ CheckFinished(c)
  \/ ReadLine(c)
  \/ ReadNothing(c)

\* the others; Finalize is left out, as an iterator holds on to the scheduler
OtherCalls ==
  \E c \in Callers \ Readers :
    \/ Progress(c)
    \/ \E a \in Apps : Schedule(c, a) \/ Cancel(c, a)

TailNext ==
  \/ \E c \in Readers, a \in Apps : LogLines(c, a)
  \/ \E c \in Readers : ReaderStep(c)
  \/ OtherCalls /\ UNCHANGED <<stderr, reader>>
  \/ Environment /\ UNCHANGED <<stderr, reader>>
  \/ \E a \in Apps : Write(a)

TailSpec == TailInit /\ [][TailNext]_tailVars

\* A reader takes its lines for as long as there are any; a thread that is in
\* a call of the scheduler keeps running.
TailFairSpec ==
  /\ TailSpec
  /\ \A c \in Readers : WF_tailVars(ReaderStep(c))
  /\ \A c \in Callers \ Readers : WF_tailVars(Progress(c) /\ UNCHANGED <<stderr, reader>>)

-----------------------------------------------------------------------------
(* Properties *)

\* Every variable of the readers has its type.
TailTypeOK ==
  /\ stderr \in [Apps -> Seq(Pieces)]
  /\ reader \in [Readers -> Reader]

Returned(c, i) == \E n \in DOMAIN reader[c].got : i \in reader[c].got[n][1] .. reader[c].got[n][2]

\* An iterator that stops has returned all there will ever be: nothing writes
\* to the file any more, and every match that was ever written to it has been
\* returned - although the application may end, and write its last lines,
\* between a read that finds nothing and the describe that says it is over.
StopsWhenComplete ==
  \A c \in Readers :
    LET text == stderr[reader[c].app] IN
    ReaderAt(c, "stopped") =>
      /\ ~Alive(reader[c].app, Source)
      /\ \A i \in DOMAIN text : text[i].hit => Returned(c, i)

\* The iterator ends: once nothing of the application runs, it stops or raises,
\* even if the application is evicted before anybody asks about it again.
IteratorEnds ==
  \A c \in Readers :
    reader[c].at \in {"check", "checking", "read"} /\ Exited(reader[c].app)
      ~> reader[c].at \in {"stopped", "raised"}
=============================================================================
