------------------------- MODULE MCLocalScheduler --------------------------
(***************************************************************************)
(* LocalScheduler with small sets for TLC.                                 *)
(***************************************************************************)
EXTENDS LocalSchedulerInv, TLC

\* applications are interchangeable; threads too when all of them submit or none
AppSymmetry == Permutations(Apps)
=============================================================================
