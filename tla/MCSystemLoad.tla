---------------------------- MODULE MCSystemLoad ----------------------------
(* SystemLoad for TLC: a battery below the threshold, a CPU that is limited.  *)
EXTENDS SystemLoad, TLC
Symmetry == Permutations(Clients)
LowBattery == {<<[ac |-> FALSE, current |-> 1, max |-> 3]>>}
Limited == {[thermal |-> TRUE, constrained |-> TRUE, plimit |-> TRUE]}
=============================================================================
