------------------------------ MODULE AppState ------------------------------
(***************************************************************************)
(* The states of an application (torchx/specs/api.py, class AppState) and  *)
(* the test every component uses to tell whether an application is over.   *)
(***************************************************************************)

AppStates ==
  {"UNSUBMITTED", "SUBMITTED", "PENDING", "RUNNING",
   "SUCCEEDED", "FAILED", "CANCELLED"}

\* _TERMINAL_STATES
TerminalStates == {"SUCCEEDED", "FAILED", "CANCELLED"}

\* is_terminal
IsTerminal(s) == s \in TerminalStates
=============================================================================
