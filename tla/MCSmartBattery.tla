--------------------------- MODULE MCSmartBattery ---------------------------
(* SmartBattery for TLC: a table with one entry for each way in which the     *)
(* machine treats a command; "serial" stands for those that are published as  *)
(* they are read, the extended reads among them.  The command that the        *)
(* manager refuses comes last, and only in the polls of the longest path, so  *)
(* that the others are read at all.                                           *)
EXTENDS SmartBattery
SmallTable ==
  << [kind |-> "state", path |-> kUserVis, sif |-> FALSE, op |-> "read"],
     [kind |-> "status", path |-> kUserVis, sif |-> FALSE, op |-> "read"],
     [kind |-> "serial", path |-> kFull, sif |-> TRUE, op |-> "extended"],
     [kind |-> "capacity", path |-> kUserVis, sif |-> FALSE, op |-> "read"],
     [kind |-> "word", path |-> kBoot, sif |-> FALSE, op |-> "dictionary"] >>
=============================================================================
