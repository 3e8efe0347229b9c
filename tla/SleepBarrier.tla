---------------------------- MODULE SleepBarrier ----------------------------
(***************************************************************************)
(* What powerd promises the kernel and its clients about a sleep           *)
(* notification: every notification is acknowledged once; the kernel may   *)
(* go on only when each client that was told has answered or is gone,      *)
(* unless the wait was given up (the time is over, or the kernel has       *)
(* announced another sleep); and there is one wait at a time.              *)
(***************************************************************************)
EXTENDS Integers

CONSTANTS Clients, MaxSleep

VARIABLES
  sent,     \* sleep notifications the kernel has sent
  acked,    \* the ones it has had the acknowledgement of
  waiting   \* the clients the last one waits for
barrier == <<sent, acked, waiting>>

BarrierInit == sent = 0 /\ acked = {} /\ waiting = {}

\* A notification: it ends the previous wait, and starts one of its own or none.
Announce ==
  /\ sent < MaxSleep
  /\ sent' = sent + 1
  /\ \/ acked' = 1..sent /\ waiting' \in SUBSET Clients
     \/ acked' = 1..(sent + 1) /\ waiting' = {}

\* A client answers or goes away; after the last one the kernel is told.
Leave ==
  /\ sent \notin acked
  /\ \E c \in waiting :
       /\ waiting' = waiting \ {c}
       /\ acked' = IF waiting = {c} THEN 1..sent ELSE acked
  /\ UNCHANGED sent

\* The wait is given up.
GiveUp ==
  /\ sent # 0 /\ sent \notin acked
  /\ waiting' = {}
  /\ acked' = 1..sent
  /\ UNCHANGED sent

BarrierNext == Announce \/ Leave \/ GiveUp
BarrierSpec == BarrierInit /\ [][BarrierNext]_barrier /\ WF_barrier(GiveUp)
=============================================================================
