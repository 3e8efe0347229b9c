----------------------------- MODULE MCAppSleep -----------------------------
(* AppSleep for TLC.                                                         *)
EXTENDS AppSleep, TLC
CONSTANTS a1, a2, a3
\* The assertions are interchangeable and no liveness property is checked.
IdSymmetry == Permutations({a1, a2, a3})
=============================================================================
