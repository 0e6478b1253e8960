------------------------------ MODULE MCRunner ------------------------------
(***************************************************************************)
(* Runner with two threads for TLC, on one session.                        *)
(***************************************************************************)
EXTENDS Runner, TLC

CONSTANTS c1, c2, s1

OneSession == c1 :> s1 @@ c2 :> s1

\* applications are interchangeable
AppSymmetry == Permutations(Apps)
=============================================================================
