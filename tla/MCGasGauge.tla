----------------------------- MODULE MCGasGauge -----------------------------
(* GasGauge for TLC: one client, as the service expects.                      *)
EXTENDS GasGauge
=============================================================================
