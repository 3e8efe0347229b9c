--------------------------- MODULE MCPMAssertions ---------------------------
(* PMAssertions for TLC.                                                     *)
EXTENDS PMAssertions, TLC

CONSTANTS a1, a2, p1, p2
TwoAndTwo == Permutations({a1, a2}) \cup Permutations({p1, p2})
=============================================================================
