------------------------- MODULE SmartBatteryProofs -------------------------
(***************************************************************************)
(* Proofs about SmartBattery, for any table of commands, any number of     *)
(* callers and clients and any bounds.                                     *)
(***************************************************************************)
EXTENDS SmartBattery, SequenceTheorems, WellFoundedInduction, TLAPS

ThreadType ==
  [pc : {"idle", "poll", "complete", "gated", "next", "finish", "finished", "ack"},
   cs : Commands \cup {Restart}, ok : BOOLEAN,
   type : Paths \cup {kUseLastPath}, whole : BOOLEAN, timeout : BOOLEAN]

\* Only the thread inside the gate has commands to complete, and what it has read
\* was read while that was allowed.
ReadsAllowed ==
  /\ \A c \in Callers : thr[c].cs = Restart
  /\ thr[Gate].pc # "complete"
  /\ thr[Gate].pc = "gated" /\ thr[Gate].ok /\ thr[Gate].cs # Restart => isTransactionAllowed

\* A poll that was neither cancelled nor overtaken by a sleep, and whose watchdog is
\* not armed, is about to end.
Watched ==
  /\ toAck => sleeping /\ (pollingNow => slept)
  /\ pollingNow /\ ~cancelPolling /\ ~slept /\ ~timer =>
       \E t \in Threads : thr[t].pc \in {"finish", "finished"}

\* While a read of the poll is outstanding and a client has taken fTransaction with a
\* request that was accepted, that client sleeps in its exclusive access, and its own
\* transaction comes later.
ClientBehind ==
  Plain = {} /\ (\A x, y \in Clients : x = y) /\ ~fouled /\ onBus /\ buffer \in Clients =>
    exclusive /\ asleep # {} /\ extBus \subseteq behind

IndInv == /\ TypeOK /\ ReadsAllowed /\ NoGhostBattery /\ Watched
          /\ ClientBehind /\ NoForeignData

-----------------------------------------------------------------------------
(* Threads.                                                                 *)

\* The parts of the table.
LEMMA TableFact ==
  /\ Len(Table) \in Nat /\ Len(Table) > 0 /\ 1 \in Commands /\ Restart \notin Commands
  /\ Commands \subseteq Nat
  /\ \A i \in Commands : /\ Table[i].kind \in Kinds /\ Table[i].path \in Paths
                         /\ Table[i].sif \in BOOLEAN
                         /\ Table[i].op \in {"read", "extended", "dictionary"}
<1>1. Table \in Seq([kind : Kinds, path : Paths, sif : BOOLEAN,
                     op : {"read", "extended", "dictionary"}])
  BY BatteryAssumption DEF BatteryAssumption
<1>2. Len(Table) \in Nat /\ Len(Table) > 0
  BY <1>1, BatteryAssumption DEF BatteryAssumption
<1>3. ASSUME NEW i \in Commands
      PROVE  Table[i] \in [kind : Kinds, path : Paths, sif : BOOLEAN,
                           op : {"read", "extended", "dictionary"}]
  BY <1>1, <1>2, ElementOfSeq DEF Commands
<1>4. 1 \in Commands /\ Restart \notin Commands /\ Commands \subseteq Nat
  BY <1>2 DEF Commands, Restart
<1> QED
  BY <1>2, <1>3, <1>4

\* The bounds.
LEMMA BoundsFact ==
  /\ RetryAttempts \in Nat /\ RetryAttempts > 0 /\ MaxFailures \in Nat
  /\ Countdown \in Nat /\ ReadRetryMax \in Nat
BY BatteryAssumption DEF BatteryAssumption

\* A thread that rests, and what handlers make of it.
LEMMA IdleFact ==
  /\ Idle \in ThreadType /\ Idle.pc = "idle" /\ Idle.cs = Restart
  /\ Idle.type = kUseLastPath /\ Idle.ok = TRUE /\ Idle.whole = FALSE
BY DEF Idle, ThreadType, Restart

LEMMA PollingFact ==
  ASSUME NEW type \in Paths \cup {kUseLastPath}
  PROVE  /\ Polling(type) \in ThreadType /\ Polling(type).pc = "poll"
         /\ Polling(type).cs = Restart /\ Polling(type).type = type
<1>1. At("poll") \in ThreadType /\ At("poll").pc = "poll" /\ At("poll").cs = Restart
  BY IdleFact DEF At, ThreadType
<1> QED
  BY <1>1 DEF Polling, ThreadType

LEMMA CompletingFact ==
  ASSUME NEW cs \in Commands \cup {Restart}, NEW ok \in BOOLEAN
  PROVE  /\ Completing(cs, ok) \in ThreadType /\ Completing(cs, ok).pc = "complete"
         /\ Completing(cs, ok).cs = cs /\ Completing(cs, ok).ok = ok
         /\ Gated(cs, ok) \in ThreadType /\ Gated(cs, ok).pc = "gated"
         /\ Gated(cs, ok).cs = cs /\ Gated(cs, ok).ok = ok
<1>1. At("complete") \in ThreadType /\ At("complete").pc = "complete"
  BY IdleFact DEF At, ThreadType
<1>2. At("gated") \in ThreadType /\ At("gated").pc = "gated"
  BY IdleFact DEF At, ThreadType
<1> QED
  BY <1>1, <1>2 DEF Completing, Gated, ThreadType

LEMMA FinishingFact ==
  ASSUME NEW r \in ThreadType, NEW whole \in BOOLEAN
  PROVE  /\ Finishing(r, whole) \in ThreadType /\ Finishing(r, whole).pc = "finish"
         /\ Finishing(r, whole).cs = Restart /\ Finishing(r, whole).whole = whole
BY DEF Finishing, ThreadType

\* A step of one thread.
LEMMA GoesFact ==
  ASSUME thr \in [Threads -> ThreadType], NEW t \in Threads, NEW r \in ThreadType, Goes(t, r)
  PROVE  /\ thr' \in [Threads -> ThreadType] /\ thr'[t] = r
         /\ \A u \in Threads : u # t => thr'[u] = thr[u]
BY DEF Goes

\* A completion enters the gate, or finds the poll cancelled.
LEMMA EnteringFact ==
  ASSUME NEW t \in Threads, NEW cs \in Commands \cup {Restart}, NEW ok \in BOOLEAN
  PROVE  /\ Entering(t, cs, ok) \in ThreadType
         /\ Entering(t, cs, ok).cs \in {cs, Restart}
         /\ t = Gate => \/ /\ Entering(t, cs, ok).pc = "gated"
                          /\ Entering(t, cs, ok).cs = cs /\ Entering(t, cs, ok).ok = ok
                       \/ Entering(t, cs, ok).pc = "finish"
<1>1. CASE t # Gate
  BY <1>1, CompletingFact DEF Entering
<1>2. CASE t = Gate /\ cancelPolling
  BY <1>2, IdleFact, FinishingFact DEF Entering
<1>3. CASE t = Gate /\ ~cancelPolling
  BY <1>3, CompletingFact DEF Entering
<1> QED
  BY <1>1, <1>2, <1>3

\* The type invariant in two halves.
StateOK ==
  /\ {pollingNow, cancelPolling, rebootPolling, timer, sleeping, toAck, slept, present,
      charge, serial, exclusive, inaccessible, fouled} \subseteq BOOLEAN
  /\ machinePath \in Paths
  /\ txnFailures \in 0..MaxFailures + 1
  /\ countdown \in 0..Countdown /\ readRetries \in 0..ReadRetryMax
  /\ ref \in Commands /\ stage \in {"write", "read"}
  /\ attempts \in 0..RetryAttempts /\ buffer \in Commands \cup Clients
  /\ onBus \in BOOLEAN /\ behind \subseteq extBus /\ extBus \subseteq Clients
  /\ asleep \subseteq Clients

LEMMA HalvesFact == TypeOK <=> StateOK /\ thr \in [Threads -> ThreadType]
BY DEF TypeOK, StateOK, ThreadType

LEMMA HalvesNext == (StateOK /\ thr \in [Threads -> ThreadType])' => TypeOK'
BY HalvesFact, PTL

\* The gate is a thread, and each thread has a type.
LEMMA ThreadFact ==
  ASSUME TypeOK, NEW t \in Threads
  PROVE  /\ Gate \in Threads /\ thr[t] \in ThreadType
         /\ thr[t].cs \in Commands \cup {Restart} /\ thr[t].ok \in BOOLEAN
         /\ thr[t].whole \in BOOLEAN /\ thr[t].type \in Paths \cup {kUseLastPath}
BY HalvesFact DEF Threads, ThreadType

-----------------------------------------------------------------------------
(* The type invariant.                                                      *)

\* The first command of a poll, or of a part of one.
LEMMA LeastFact ==
  ASSUME NEW S \in SUBSET Commands, S # {}
  PROVE  (CHOOSE i \in S : \A j \in S : i <= j) \in S
<1>1. S \subseteq Nat
  BY TableFact
<1>2. \E x \in S : \A y \in S : ~(<<y, x>> \in OpToRel(<, Nat))
  BY <1>1, NatLessThanWellFounded, WFMin
<1>3. PICK x \in S : \A y \in S : ~(<<y, x>> \in OpToRel(<, Nat))
  BY <1>2
<1>4. ASSUME NEW y \in S PROVE x <= y
  <2>1. x \in Nat /\ y \in Nat
    BY <1>1
  <2>2. ~(y < x)
    BY <1>3, <2>1 DEF OpToRel
  <2> QED
    BY <2>1, <2>2
<1> QED
  BY <1>4

\* The steps of SmbusHandler.
LEMMA BusType ==
  ASSUME TypeOK, Completes \/ LosesTransaction \/
         \E x \in Clients : \/ smbusExternalTransaction(x)
                           \/ smbusExternalTransactionCompletion(x)
  PROVE  TypeOK'
<1>1. StateOK /\ thr \in [Threads -> ThreadType] /\ Gate \in Threads
  BY HalvesFact, ThreadFact DEF Threads
<1>2. ASSUME NEW result \in {"good", "zero", "again", "fatal"}, smbusCompletion(result)
      PROVE  TypeOK'
  <2> DEFINE retry == requiresRetryGetMicroSec(result, buffer)
  <2>1. retry \in 0..RetryAttempts
    BY <1>1, BoundsFact DEF requiresRetryGetMicroSec, StateOK
  <2>2. UNCHANGED <<pollVars, readVars, dataVars, pmVars, extVars, mgrVars, ref, buffer>>
    BY <1>2 DEF smbusCompletion
  <2>3. ASSUME NEW n \in 0..RetryAttempts, Resubmitted(n)
        PROVE  /\ onBus' \in BOOLEAN /\ behind' = {} /\ attempts' \in 0..RetryAttempts
               /\ thr' \in [Threads -> ThreadType]
    <3>1. PICK accepted \in BOOLEAN :
            /\ Submitted(accepted)
            /\ attempts' = IF accepted THEN n ELSE 0
            /\ Goes(Gate, IF accepted THEN Idle ELSE Entering(Gate, ref, FALSE))
      BY <2>3 DEF Resubmitted
    <3>2. (IF accepted THEN Idle ELSE Entering(Gate, ref, FALSE)) \in ThreadType
      BY <1>1, IdleFact, EnteringFact DEF StateOK
    <3>3. thr' \in [Threads -> ThreadType]
      BY <1>1, <3>1, <3>2, GoesFact
    <3> QED
      BY <3>1, <3>3, BoundsFact DEF Submitted
  <2>4. ASSUME NEW ok \in BOOLEAN, PassedOn(ok)
        PROVE  onBus' \in BOOLEAN /\ behind' = {} /\ thr' \in [Threads -> ThreadType]
    BY <1>1, <2>4, EnteringFact, GoesFact DEF PassedOn, StateOK
  <2>5. /\ onBus' \in BOOLEAN /\ behind' = {} /\ attempts' \in 0..RetryAttempts
        /\ stage' \in {"write", "read"} /\ thr' \in [Threads -> ThreadType]
    <3> DEFINE good == result \in {"good", "zero"}
    <3>1. CASE PassedOn(FALSE) /\ UNCHANGED <<stage, attempts>>
      BY <1>1, <2>4, <3>1 DEF StateOK
    <3>2. CASE Resubmitted(retry) /\ UNCHANGED stage
      BY <1>1, <2>1, <2>3, <3>2 DEF StateOK
    <3>3. CASE stage' = "read" /\ Resubmitted(0)
      BY <2>1, <2>3, <3>3, BoundsFact
    <3>4. CASE PassedOn(good) /\ attempts' = 0 /\ UNCHANGED stage
      <4>1. good \in BOOLEAN
        OBVIOUS
      <4> HIDE DEF good
      <4> QED
        BY <1>1, <2>4, <3>4, <4>1, BoundsFact DEF StateOK
    <3> QED
      BY <1>2, <3>1, <3>2, <3>3, <3>4 DEF smbusCompletion
  <2>6. StateOK'
    BY <1>1, <2>2, <2>5 DEF StateOK, pollVars, readVars, dataVars, pmVars, extVars, mgrVars
  <2> QED
    BY <2>5, <2>6, HalvesNext
<1>3. CASE LosesTransaction
  BY <1>1, <1>3, HalvesNext
     DEF LosesTransaction, StateOK, pollVars, readVars, dataVars, pmVars, extVars, mgrVars
<1>4. ASSUME NEW x \in Clients, smbusExternalTransaction(x) PROVE TypeOK'
  BY <1>1, <1>4, HalvesNext
     DEF smbusExternalTransaction, StateOK, pollVars, readVars, dataVars, pmVars, mgrVars
<1>5. ASSUME NEW x \in Clients, smbusExternalTransactionCompletion(x) PROVE TypeOK'
  BY <1>1, <1>5, HalvesNext
     DEF smbusExternalTransactionCompletion, StateOK, pollVars, readVars, dataVars, pmVars,
         mgrVars, busVars
<1> QED
  BY <1>2, <1>3, <1>4, <1>5 DEF Completes

\* A request for a poll, from any thread.
LEMMA RequestType ==
  ASSUME TypeOK, NEW t \in Threads, NEW type \in Paths \cup {kUseLastPath},
         pollBatteryState(t, type)
  PROVE  TypeOK'
<1>1. StateOK /\ thr \in [Threads -> ThreadType]
  BY HalvesFact
<1>2. PathFor(type) \in Paths
  BY <1>1 DEF PathFor, StateOK, Paths
<1>3. thr' \in [Threads -> ThreadType]
  <2>1. Idle \in ThreadType /\ Entering(t, Restart, TRUE) \in ThreadType
    BY IdleFact, EnteringFact
  <2>2. \E r \in ThreadType : Goes(t, r)
    BY <2>1 DEF pollBatteryState
  <2> QED
    BY <1>1, <2>2, GoesFact
<1>4. StateOK'
  BY <1>1, <1>2 DEF pollBatteryState, StateOK, pollVars, readVars, dataVars, pmVars, busVars,
     extVars, mgrVars
<1> QED
  BY <1>3, <1>4, HalvesNext

\* A command is completed: what was read is applied, the machine restarted, or the
\* poll ended.
LEMMA GatedType ==
  ASSUME TypeOK, NEW t \in Threads, transactionCompletionGated(t)
  PROVE  TypeOK'
<1> DEFINE cs == thr[t].cs
           goOn == Goes(t, [thr[t] EXCEPT !.pc = "next", !.ok = TRUE])
           abort == Goes(t, Finishing(thr[t], FALSE))
           restart == Goes(t, [thr[t] EXCEPT !.pc = "next", !.cs = Restart])
<1>1. StateOK /\ thr \in [Threads -> ThreadType] /\ thr[t] \in ThreadType
  BY HalvesFact, ThreadFact
<1>2. /\ [thr[t] EXCEPT !.pc = "next", !.ok = TRUE] \in ThreadType
      /\ [thr[t] EXCEPT !.pc = "next", !.cs = Restart] \in ThreadType
      /\ Finishing(thr[t], FALSE) \in ThreadType
  BY <1>1, FinishingFact DEF ThreadType
<1>3. goOn \/ abort \/ restart
  BY DEF transactionCompletionGated
<1>4. thr' \in [Threads -> ThreadType]
  BY <1>1, <1>2, <1>3, GoesFact
<1>5. UNCHANGED <<countdown, readRetries, sleeping, toAck, busVars, extVars, mgrVars, machinePath>>
  BY DEF transactionCompletionGated, pollVars
<1>6. /\ \/ UNCHANGED <<pollVars, timer, slept>>
         \/ Restarted
      /\ txnFailures' \in {txnFailures, 0}
           \/ (txnFailures <= MaxFailures /\ txnFailures' = txnFailures + 1)
  <2>1. txnFailures > MaxFailures \/ txnFailures <= MaxFailures
    BY <1>1, BoundsFact DEF StateOK
  <2> QED
    BY <2>1 DEF transactionCompletionGated, Restarted
<1>9. {pollingNow', cancelPolling', rebootPolling', timer', slept'} \subseteq BOOLEAN
  BY <1>1, <1>6 DEF Restarted, StateOK, pollVars
<1>10. txnFailures' \in 0..MaxFailures + 1
  BY <1>1, <1>6, BoundsFact DEF StateOK
<1>7. {present', charge', serial'} \subseteq BOOLEAN
  <2>1. CASE UNCHANGED dataVars
    BY <1>1, <2>1 DEF StateOK, dataVars
  <2>2. CASE Applied(cs)
    <3>1. present' \in BOOLEAN
      BY <1>1, <2>2 DEF Applied, PresentAfter, StateOK
    <3>2. charge' \in BOOLEAN /\ serial' \in BOOLEAN
      BY <1>1, <2>2 DEF Applied, ChargeAfter, handleSetItAndForgetIt, StateOK
    <3> QED
      BY <3>1, <3>2
  <2>3. CASE Cleared /\ UNCHANGED serial
    BY <1>1, <2>3 DEF Cleared, StateOK
  <2> QED
    BY <2>1, <2>2, <2>3 DEF transactionCompletionGated
<1>8. StateOK'
  BY <1>1, <1>5, <1>7, <1>9, <1>10 DEF StateOK, busVars, extVars, mgrVars
<1> QED
  BY <1>4, <1>8, HalvesNext

\* The next command is sent, or there is none.
LEMMA InitiateType ==
  ASSUME TypeOK, NEW t \in Threads, initiateNextTransaction(t)
  PROVE  TypeOK'
<1> DEFINE rest == Rest(thr[t].cs)
           next == CHOOSE i \in rest : \A j \in rest : i <= j
<1>1. StateOK /\ thr \in [Threads -> ThreadType] /\ thr[t] \in ThreadType
  BY HalvesFact, ThreadFact
<1>2. UNCHANGED <<pollVars, readVars, dataVars, pmVars, extBus, asleep, mgrVars>>
  BY DEF initiateNextTransaction
<1>3. CASE rest = {}
  <2>1. Goes(t, Finishing(thr[t], TRUE)) /\ UNCHANGED <<busVars, fouled>>
    BY <1>3 DEF initiateNextTransaction
  <2>2. thr' \in [Threads -> ThreadType]
    BY <1>1, <2>1, FinishingFact, GoesFact
  <2>3. StateOK'
    BY <1>1, <1>2, <2>1 DEF StateOK, pollVars, readVars, dataVars, pmVars, busVars, mgrVars
  <2> QED
    BY <2>2, <2>3, HalvesNext
<1>4. CASE rest # {}
  <2>1. next \in Commands
    BY <1>4, LeastFact DEF Rest
  <2>2. /\ ref' \in {ref, next} /\ Goes(t, Idle)
        /\ \/ /\ buffer' = next /\ stage' \in {"write", "read"} /\ attempts' = 0
              /\ onBus' \in BOOLEAN /\ behind' = {} /\ fouled' = FALSE
           \/ UNCHANGED <<buffer, stage, attempts, onBus, behind, fouled>>
    BY <1>4 DEF initiateNextTransaction, Submitted, busVars
  <2> HIDE DEF next
  <2>3. thr' \in [Threads -> ThreadType]
    BY <1>1, <2>2, IdleFact, GoesFact
  <2>4. /\ ref' \in Commands /\ stage' \in {"write", "read"} /\ onBus' \in BOOLEAN
        /\ attempts' \in 0..RetryAttempts /\ buffer' \in Commands \cup Clients
        /\ behind' \subseteq extBus /\ fouled' \in BOOLEAN
    <3>1. /\ ref \in Commands /\ stage \in {"write", "read"} /\ onBus \in BOOLEAN
          /\ attempts \in 0..RetryAttempts /\ buffer \in Commands \cup Clients
          /\ behind \subseteq extBus /\ fouled \in BOOLEAN /\ 0 \in 0..RetryAttempts
      BY <1>1, BoundsFact DEF StateOK
    <3>2. CASE UNCHANGED <<buffer, stage, attempts, onBus, behind, fouled>>
      BY <2>1, <2>2, <3>1, <3>2
    <3>3. CASE ~UNCHANGED <<buffer, stage, attempts, onBus, behind, fouled>>
      <4>1. /\ buffer' = next /\ stage' \in {"write", "read"} /\ attempts' = 0
            /\ onBus' \in BOOLEAN /\ behind' = {} /\ fouled' = FALSE
        BY <2>2, <3>3
      <4> QED
        BY <2>1, <2>2, <3>1, <4>1
    <3> QED
      BY <3>2, <3>3
  <2>5. StateOK'
    BY <1>1, <1>2, <2>4 DEF StateOK, pollVars, readVars, dataVars, pmVars, mgrVars
  <2> QED
    BY <2>3, <2>5, HalvesNext
<1> QED
  BY <1>3, <1>4

\* The other steps of a thread that polls.
LEMMA PollStepType ==
  ASSUME TypeOK, NEW t \in Threads, PollStep(t)
  PROVE  TypeOK'
<1>1. StateOK /\ thr \in [Threads -> ThreadType] /\ thr[t] \in ThreadType
  BY HalvesFact, ThreadFact
<1>2. CASE transactionCompletion(t)
  <2>1. Finishing(thr[t], FALSE) \in ThreadType /\ Gated(thr[t].cs, thr[t].ok) \in ThreadType
    BY <1>1, FinishingFact, CompletingFact, ThreadFact
  <2>2. thr' \in [Threads -> ThreadType]
    BY <1>1, <1>2, <2>1, GoesFact DEF transactionCompletion
  <2>3. StateOK'
    BY <1>1, <1>2 DEF transactionCompletion, StateOK, pollVars, readVars, dataVars, pmVars,
       busVars, extVars, mgrVars
  <2> QED
    BY <2>2, <2>3, HalvesNext
<1>3. CASE transactionCompletionGated(t)
  BY <1>3, GatedType
<1>4. CASE initiateNextTransaction(t)
  BY <1>4, InitiateType
<1>5. CASE handlePollingFinishedGated(t)
  <2>1. [thr[t] EXCEPT !.pc = "finished", !.whole = FALSE] \in ThreadType
    BY <1>1 DEF ThreadType
  <2>2. thr' \in [Threads -> ThreadType]
    BY <1>1, <1>5, <2>1, GoesFact DEF handlePollingFinishedGated
  <2>3. timer' \in BOOLEAN /\ countdown' \in 0..Countdown
    BY <1>1, <1>5, BoundsFact DEF handlePollingFinishedGated, StateOK
  <2>4. StateOK'
    BY <1>1, <1>5, <2>3 DEF handlePollingFinishedGated, StateOK, pollVars, dataVars, pmVars,
       busVars, extVars, mgrVars
  <2> QED
    BY <2>2, <2>4, HalvesNext
<1>6. CASE handlePollingFinished(t)
  <2>1. [thr[t] EXCEPT !.pc = "ack"] \in ThreadType
    BY <1>1 DEF ThreadType
  <2>2. thr' \in [Threads -> ThreadType]
    BY <1>1, <1>6, <2>1, GoesFact DEF handlePollingFinished
  <2>3. StateOK'
    BY <1>1, <1>6 DEF handlePollingFinished, StateOK, readVars, dataVars, busVars, extVars,
       mgrVars
  <2> QED
    BY <2>2, <2>3, HalvesNext
<1>7. CASE acknowledgeSystemSleepWake(t)
  <2>1. Idle \in ThreadType /\ Polling(kUseLastPath) \in ThreadType
    BY IdleFact, PollingFact
  <2>2. thr' \in [Threads -> ThreadType]
    BY <1>1, <1>7, <2>1, GoesFact DEF acknowledgeSystemSleepWake
  <2>3. readRetries' \in 0..ReadRetryMax /\ toAck' \in BOOLEAN /\ timer' \in BOOLEAN
    <3>1. readRetries' \in 0..ReadRetryMax
      <4>1. readRetries' = readRetries \/ (readRetries > 0 /\ readRetries' = readRetries - 1)
        BY <1>7 DEF acknowledgeSystemSleepWake
      <4> QED
        BY <1>1, <4>1, BoundsFact DEF StateOK
    <3>2. toAck' \in BOOLEAN /\ timer' \in BOOLEAN
      BY <1>1, <1>7 DEF acknowledgeSystemSleepWake, Acknowledged, StateOK
    <3> QED
      BY <3>1, <3>2
  <2>4. StateOK'
    BY <1>1, <1>7, <2>3 DEF acknowledgeSystemSleepWake, StateOK, pollVars, dataVars, busVars,
       extVars, mgrVars
  <2> QED
    BY <2>2, <2>4, HalvesNext
<1> QED
  BY <1>2, <1>3, <1>4, <1>5, <1>6, <1>7 DEF PollStep

\* What reaches the driver from outside.
LEMMA OutsideType ==
  ASSUME TypeOK,
         \/ incompleteReadTimeOut
         \/ setPowerState
         \/ message
         \/ ExclusiveStart
         \/ clientClose
  PROVE  TypeOK'
<1>1. StateOK /\ thr \in [Threads -> ThreadType] /\ Gate \in Threads
  BY HalvesFact DEF Threads
<1>2. CASE incompleteReadTimeOut
  <2>1. Finishing(Idle, FALSE) \in ThreadType
    BY IdleFact, FinishingFact
  <2>2. [Finishing(Idle, FALSE) EXCEPT !.timeout = TRUE] \in ThreadType
    BY <2>1 DEF ThreadType
  <2>3. thr' \in [Threads -> ThreadType]
    BY <1>1, <1>2, <2>2, GoesFact DEF incompleteReadTimeOut
  <2>4. StateOK'
    BY <1>1, <1>2 DEF incompleteReadTimeOut, StateOK, pollVars, dataVars, pmVars, busVars,
       extVars, mgrVars
  <2> QED
    BY <2>3, <2>4, HalvesNext
<1>3. CASE setPowerState
  <2>1. PICK down \in BOOLEAN : handleSystemSleepWake(down)
    BY <1>3 DEF setPowerState
  <2>2. sleeping' \in BOOLEAN /\ toAck' \in BOOLEAN /\ slept' \in BOOLEAN
    BY <1>1, <2>1 DEF handleSystemSleepWake, StateOK
  <2> QED
    BY <1>1, <2>1, <2>2, HalvesNext DEF handleSystemSleepWake, StateOK, pollVars, readVars,
       dataVars, busVars, extVars, mgrVars
<1>4. CASE handleBatteryRemoved
  <2>1. StateOK'
    BY <1>1, <1>4 DEF handleBatteryRemoved, Cleared, StateOK, busVars, extVars
  <2> QED
    BY <1>1, <1>4, <2>1, HalvesNext DEF handleBatteryRemoved
<1>5. CASE handleBatteryInserted
  <2>1. thr' \in [Threads -> ThreadType]
    BY <1>1, <1>5, PollingFact, GoesFact DEF handleBatteryInserted, Paths
  <2>2. countdown' \in 0..Countdown
    BY <1>5, BoundsFact DEF handleBatteryInserted
  <2>3. StateOK'
    BY <1>1, <1>5, <2>2 DEF handleBatteryInserted, Cleared, StateOK, pmVars, busVars, extVars
  <2> QED
    BY <2>1, <2>3, HalvesNext
<1>6. ASSUME NEW request \in BOOLEAN, requestExclusiveSMBusAccess(request)
      PROVE  TypeOK'
  <2>1. Idle \in ThreadType /\ Polling(kFull) \in ThreadType
    BY IdleFact, PollingFact DEF Paths
  <2>2. thr' \in [Threads -> ThreadType]
    BY <1>1, <1>6, <2>1, GoesFact DEF requestExclusiveSMBusAccess
  <2>3. StateOK'
    BY <1>1, <1>6 DEF requestExclusiveSMBusAccess, StateOK, pollVars, readVars, dataVars,
       pmVars, busVars, extVars
  <2> QED
    BY <2>2, <2>3, HalvesNext
<1> QED
  BY <1>2, <1>3, <1>4, <1>5, <1>6 DEF message, ExclusiveStart, clientClose

LEMMA TypeInit == Init => TypeOK
<1> SUFFICES ASSUME Init PROVE TypeOK
  OBVIOUS
<1>1. StateOK
  <2>1. /\ txnFailures \in 0..MaxFailures + 1 /\ countdown \in 0..Countdown
        /\ readRetries \in 0..ReadRetryMax /\ attempts \in 0..RetryAttempts
    BY BoundsFact DEF Init
  <2>2. ref \in Commands /\ buffer \in Commands \cup Clients /\ stage \in {"write", "read"}
    BY TableFact DEF Init
  <2>3. machinePath \in Paths
    BY DEF Init, Paths
  <2> QED
    BY <2>1, <2>2, <2>3 DEF Init, StateOK
<1>2. thr \in [Threads -> ThreadType]
  BY IdleFact DEF Init
<1> QED
  BY <1>1, <1>2, HalvesFact

LEMMA TypeStep == TypeOK /\ [Next]_vars => TypeOK'
<1> SUFFICES ASSUME TypeOK, [Next]_vars PROVE TypeOK'
  OBVIOUS
<1>1. ASSUME NEW t \in Threads, PollStep(t) PROVE TypeOK'
  BY <1>1, PollStepType
<1>2. CASE PollFromGate
  <2>1. Gate \in Threads
    BY DEF Threads
  <2> QED
    BY <1>2, <2>1, ThreadFact, RequestType DEF PollFromGate
<1>3. CASE Completes \/ LosesTransaction \/ \E x \in Clients :
             smbusExternalTransaction(x) \/ smbusExternalTransactionCompletion(x)
  BY <1>3, BusType
<1>4. ASSUME NEW c \in Callers, NEW type \in Requests, requestPoll(c, type)
      PROVE  TypeOK'
  <2>1. c \in Threads /\ type \in Paths \cup {kUseLastPath}
    BY BatteryAssumption DEF BatteryAssumption, Threads
  <2> QED
    BY <1>4, <2>1, RequestType DEF requestPoll
<1>5. CASE incompleteReadTimeOut \/ setPowerState \/ message \/ ExclusiveStart \/ clientClose
  BY <1>5, OutsideType
<1>6. CASE UNCHANGED vars
  BY <1>6 DEF TypeOK, vars, pollVars, readVars, dataVars, pmVars, busVars, extVars, mgrVars
<1> QED
  BY <1>1, <1>2, <1>3, <1>4, <1>5, <1>6 DEF Next

-----------------------------------------------------------------------------
(* What steps do to threads.                                                *)

\* A thread that polls does not come back to the entry of a completion, and enters
\* the gate only from there.
LEMMA PollThread ==
  ASSUME TypeOK, NEW t \in Threads, PollStep(t)
  PROVE  /\ thr'[t].cs \in {thr[t].cs, Restart} /\ thr'[t].pc # "complete"
         /\ thr'[t].pc = "gated" => thr[t].pc = "complete"
         /\ \A u \in Threads : u # t => thr'[u] = thr[u]
         /\ UNCHANGED mgrVars
<1>1. thr \in [Threads -> ThreadType] /\ thr[t] \in ThreadType
  BY HalvesFact, ThreadFact
<1>2. CASE transactionCompletion(t)
  <2>1. /\ Finishing(thr[t], FALSE) \in ThreadType
        /\ Gated(thr[t].cs, thr[t].ok) \in ThreadType
        /\ Finishing(thr[t], FALSE).pc = "finish" /\ Finishing(thr[t], FALSE).cs = Restart
        /\ Gated(thr[t].cs, thr[t].ok).pc = "gated"
        /\ Gated(thr[t].cs, thr[t].ok).cs = thr[t].cs
    <3>1. thr[t].cs \in Commands \cup {Restart} /\ thr[t].ok \in BOOLEAN
      BY ThreadFact
    <3>2. /\ Gated(thr[t].cs, thr[t].ok) \in ThreadType
          /\ Gated(thr[t].cs, thr[t].ok).pc = "gated"
          /\ Gated(thr[t].cs, thr[t].ok).cs = thr[t].cs
      BY <3>1, CompletingFact
    <3>3. /\ Finishing(thr[t], FALSE) \in ThreadType
          /\ Finishing(thr[t], FALSE).pc = "finish" /\ Finishing(thr[t], FALSE).cs = Restart
      BY <1>1, FinishingFact
    <3> QED
      BY <3>2, <3>3
  <2> QED
    BY <1>1, <1>2, <2>1, GoesFact DEF transactionCompletion
<1>3. CASE transactionCompletionGated(t)
  <2>1. /\ [thr[t] EXCEPT !.pc = "next", !.ok = TRUE] \in ThreadType
        /\ [thr[t] EXCEPT !.pc = "next", !.cs = Restart] \in ThreadType
        /\ Finishing(thr[t], FALSE) \in ThreadType
        /\ Finishing(thr[t], FALSE).pc = "finish" /\ Finishing(thr[t], FALSE).cs = Restart
    BY <1>1, FinishingFact DEF ThreadType
  <2>2. /\ [thr[t] EXCEPT !.pc = "next", !.ok = TRUE].pc = "next"
        /\ [thr[t] EXCEPT !.pc = "next", !.ok = TRUE].cs = thr[t].cs
        /\ [thr[t] EXCEPT !.pc = "next", !.cs = Restart].pc = "next"
        /\ [thr[t] EXCEPT !.pc = "next", !.cs = Restart].cs = Restart
    BY <1>1 DEF ThreadType
  <2> DEFINE r1 == [thr[t] EXCEPT !.pc = "next", !.ok = TRUE]
             r2 == [thr[t] EXCEPT !.pc = "next", !.cs = Restart]
  <2>3. Goes(t, r1) \/ Goes(t, r2) \/ Goes(t, Finishing(thr[t], FALSE))
    BY <1>3 DEF transactionCompletionGated
  <2>4. UNCHANGED mgrVars
    BY <1>3 DEF transactionCompletionGated
  <2> HIDE DEF r1, r2
  <2>5. \E r \in ThreadType : /\ Goes(t, r) /\ r.pc \in {"next", "finish"}
                              /\ r.cs \in {thr[t].cs, Restart}
    BY <2>1, <2>2, <2>3 DEF r1, r2
  <2> QED
    BY <1>1, <2>4, <2>5, GoesFact
<1>4. CASE initiateNextTransaction(t)
  <2>1. Goes(t, Finishing(thr[t], TRUE)) \/ Goes(t, Idle)
    BY <1>4 DEF initiateNextTransaction
  <2>2. UNCHANGED mgrVars
    BY <1>4 DEF initiateNextTransaction
  <2> QED
    BY <1>1, <2>1, <2>2, GoesFact, FinishingFact, IdleFact
<1>5. CASE handlePollingFinishedGated(t)
  <2>1. [thr[t] EXCEPT !.pc = "finished", !.whole = FALSE] \in ThreadType
    BY <1>1 DEF ThreadType
  <2> DEFINE r == [thr[t] EXCEPT !.pc = "finished", !.whole = FALSE]
  <2>2. r.pc = "finished" /\ r.cs = thr[t].cs
    BY <1>1 DEF ThreadType
  <2>3. Goes(t, r) /\ UNCHANGED mgrVars
    BY <1>5 DEF handlePollingFinishedGated
  <2> HIDE DEF r
  <2>4. r \in ThreadType
    BY <2>1 DEF r
  <2> QED
    BY <1>1, <2>2, <2>3, <2>4, GoesFact
<1>6. CASE handlePollingFinished(t)
  <2>1. [thr[t] EXCEPT !.pc = "ack"] \in ThreadType
    BY <1>1 DEF ThreadType
  <2> QED
    BY <1>1, <1>6, <2>1, GoesFact DEF handlePollingFinished, ThreadType
<1>7. CASE acknowledgeSystemSleepWake(t)
  <2>1. Goes(t, Idle) \/ Goes(t, Polling(kUseLastPath))
    BY <1>7 DEF acknowledgeSystemSleepWake
  <2>2. UNCHANGED mgrVars
    BY <1>7 DEF acknowledgeSystemSleepWake
  <2> QED
    BY <1>1, <2>1, <2>2, GoesFact, IdleFact, PollingFact
<1> QED
  BY <1>2, <1>3, <1>4, <1>5, <1>6, <1>7 DEF PollStep

\* A thread that asks for a poll: it starts one, or rests.
LEMMA RequestThread ==
  ASSUME TypeOK, NEW t \in Threads, NEW type \in Paths \cup {kUseLastPath},
         pollBatteryState(t, type)
  PROVE  /\ thr'[t].cs = Restart /\ (t = Gate => thr'[t].pc # "complete")
         /\ \A u \in Threads : u # t => thr'[u] = thr[u]
         /\ UNCHANGED <<pollingNow, cancelPolling, readVars, dataVars, pmVars, busVars, extVars,
                        mgrVars>>
<1>1. thr \in [Threads -> ThreadType]
  BY HalvesFact
<1>2. Goes(t, Idle) \/ Goes(t, Entering(t, Restart, TRUE))
  BY DEF pollBatteryState
<1>3. /\ thr'[t].cs = Restart /\ (t = Gate => thr'[t].pc # "complete")
      /\ \A u \in Threads : u # t => thr'[u] = thr[u]
  <2> DEFINE r == Entering(t, Restart, TRUE)
  <2>1. r \in ThreadType /\ r.cs = Restart /\ (t = Gate => r.pc # "complete")
    BY EnteringFact
  <2>2. Goes(t, Idle) \/ Goes(t, r)
    BY <1>2
  <2> HIDE DEF r
  <2> QED
    BY <1>1, <2>1, <2>2, GoesFact, IdleFact
<1>4. UNCHANGED <<pollingNow, cancelPolling, readVars, dataVars, pmVars, busVars, extVars,
                  mgrVars>>
  BY DEF pollBatteryState, pollVars
<1> QED
  BY <1>3, <1>4

\* A completion of the bus: what is passed on as a good read was read while the bus
\* was the battery's.
LEMMA CompletesThread ==
  ASSUME TypeOK, Completes
  PROVE  /\ GateFree /\ onBus /\ (onBus' => isTransactionAllowed)
         /\ thr'[Gate].pc # "complete"
         /\ thr'[Gate].pc = "gated" /\ thr'[Gate].ok => isTransactionAllowed
         /\ \A u \in Threads : u # Gate => thr'[u] = thr[u]
         /\ UNCHANGED <<pollVars, readVars, dataVars, pmVars, extVars, mgrVars, ref, buffer>>
<1>1. StateOK /\ thr \in [Threads -> ThreadType] /\ Gate \in Threads
  BY HalvesFact DEF Threads
<1>2. PICK result \in {"good", "zero", "again", "fatal"} : smbusCompletion(result)
  BY DEF Completes
<1>3. /\ GateFree /\ onBus
      /\ UNCHANGED <<pollVars, readVars, dataVars, pmVars, extVars, mgrVars, ref, buffer>>
  BY <1>2 DEF smbusCompletion
<1>4. ASSUME NEW n, Resubmitted(n), isTransactionAllowed
      PROVE  /\ thr'[Gate].pc # "complete"
             /\ \A u \in Threads : u # Gate => thr'[u] = thr[u]
  <2>1. Goes(Gate, Idle) \/ Goes(Gate, Entering(Gate, ref, FALSE))
    BY <1>4 DEF Resubmitted
  <2>2. /\ Entering(Gate, ref, FALSE) \in ThreadType
        /\ Entering(Gate, ref, FALSE).pc # "complete"
    BY <1>1, EnteringFact DEF StateOK
  <2> QED
    BY <1>1, <2>1, <2>2, GoesFact, IdleFact
<1>5. ASSUME NEW ok \in BOOLEAN, PassedOn(ok)
      PROVE  /\ thr'[Gate].pc # "complete" /\ ~onBus'
             /\ (thr'[Gate].pc = "gated" => thr'[Gate].ok = ok)
             /\ \A u \in Threads : u # Gate => thr'[u] = thr[u]
  <2>1. Goes(Gate, Entering(Gate, ref, ok)) /\ ~onBus'
    BY <1>5 DEF PassedOn
  <2>2. /\ Entering(Gate, ref, ok) \in ThreadType
        /\ Entering(Gate, ref, ok).pc # "complete"
        /\ (Entering(Gate, ref, ok).pc = "gated" => Entering(Gate, ref, ok).ok = ok)
    BY <1>1, EnteringFact DEF StateOK
  <2> QED
    BY <1>1, <2>1, <2>2, GoesFact
<1>6. CASE PassedOn(FALSE)
  BY <1>3, <1>5, <1>6
<1>7. CASE isTransactionAllowed /\ \E n : Resubmitted(n)
  BY <1>3, <1>4, <1>7
<1>8. CASE isTransactionAllowed /\ \E ok \in BOOLEAN : PassedOn(ok)
  BY <1>3, <1>5, <1>8
<1> QED
  <2>1. (result \in {"good", "zero"}) \in BOOLEAN
    OBVIOUS
  <2> QED
    BY <1>2, <1>6, <1>7, <1>8, <2>1 DEF smbusCompletion

\* A step into which the gate must be free leaves a thread there that has read
\* nothing, and no other thread moves.
LEMMA OutsideThread ==
  ASSUME TypeOK,
         \/ incompleteReadTimeOut
         \/ message
         \/ ExclusiveStart
         \/ clientClose
  PROVE  /\ GateFree /\ thr'[Gate].pc \in {"idle", "poll", "finish"}
         /\ \A u \in Threads : u # Gate => thr'[u] = thr[u]
<1>1. StateOK /\ thr \in [Threads -> ThreadType] /\ Gate \in Threads
  BY HalvesFact DEF Threads
<1>2. CASE incompleteReadTimeOut
  <2>1. Finishing(Idle, FALSE) \in ThreadType /\ Finishing(Idle, FALSE).pc = "finish"
    BY IdleFact, FinishingFact
  <2>2. /\ [Finishing(Idle, FALSE) EXCEPT !.timeout = TRUE] \in ThreadType
        /\ [Finishing(Idle, FALSE) EXCEPT !.timeout = TRUE].pc = "finish"
    BY <2>1 DEF ThreadType
  <2> QED
    BY <1>1, <1>2, <2>2, GoesFact DEF incompleteReadTimeOut
<1>3. CASE handleBatteryRemoved
  BY <1>1, <1>3 DEF handleBatteryRemoved, GateFree
<1>4. CASE handleBatteryInserted
  BY <1>1, <1>4, PollingFact, GoesFact DEF handleBatteryInserted, Paths
<1>5. ASSUME NEW request \in BOOLEAN, requestExclusiveSMBusAccess(request)
      PROVE  /\ GateFree /\ thr'[Gate].pc \in {"idle", "poll", "finish"}
             /\ \A u \in Threads : u # Gate => thr'[u] = thr[u]
  <2>1. Goes(Gate, Idle) \/ Goes(Gate, Polling(kFull))
    BY <1>5 DEF requestExclusiveSMBusAccess
  <2> QED
    BY <1>1, <1>5, <2>1, IdleFact, PollingFact, GoesFact DEF requestExclusiveSMBusAccess, Paths
<1> QED
  BY <1>2, <1>3, <1>4, <1>5 DEF message, ExclusiveStart, clientClose

-----------------------------------------------------------------------------
(* The invariants.                                                          *)

\* A step of no thread that changes neither who may use the bus nor what is known of
\* the battery.
Quiet == \/ LosesTransaction
         \/ \E x \in Clients : smbusExternalTransaction(x) \/ smbusExternalTransactionCompletion(x)
         \/ setPowerState
         \/ UNCHANGED vars

LEMMA QuietFact ==
  ASSUME Quiet
  PROVE  UNCHANGED <<thr, mgrVars, pollVars, readVars, dataVars, ref>>
BY DEF Quiet, LosesTransaction, smbusExternalTransaction, smbusExternalTransactionCompletion,
   setPowerState, handleSystemSleepWake, vars, busVars

\* Next, in the groups that the lemmas about threads speak of.
LEMMA NextCases ==
  ASSUME [Next]_vars
  PROVE  \/ \E t \in Threads : PollStep(t)
         \/ \E t \in Threads, type \in Paths \cup {kUseLastPath} :
              /\ pollBatteryState(t, type) /\ thr[t].pc \in {"idle", "poll"}
         \/ Completes
         \/ Quiet
         \/ incompleteReadTimeOut
         \/ message
         \/ ExclusiveStart
         \/ clientClose
         \/ thr[Gate].type \notin Paths \cup {kUseLastPath}
<1>1. CASE PollFromGate
  BY <1>1 DEF PollFromGate, Threads
<1>2. CASE \E c \in Callers, type \in Requests : requestPoll(c, type)
  BY <1>2, BatteryAssumption DEF BatteryAssumption, Threads, requestPoll
<1> QED
  BY <1>1, <1>2 DEF Next, Quiet

LEMMA ReadsInit == Init => ReadsAllowed
BY IdleFact DEF Init, ReadsAllowed, Threads

LEMMA ReadsStep ==
  ASSUME TypeOK, ReadsAllowed, [Next]_vars
  PROVE  ReadsAllowed'
<1>1. /\ Gate \in Threads /\ Callers \subseteq Threads /\ Gate \notin Callers
      /\ thr[Gate].type \in Paths \cup {kUseLastPath}
  BY BatteryAssumption, ThreadFact DEF BatteryAssumption, Threads
<1>2. ASSUME NEW t \in Threads, PollStep(t) PROVE ReadsAllowed'
  <2>1. /\ thr'[t].cs \in {thr[t].cs, Restart} /\ thr'[t].pc # "complete"
        /\ thr'[t].pc = "gated" => thr[t].pc = "complete"
        /\ \A u \in Threads : u # t => thr'[u] = thr[u]
        /\ UNCHANGED mgrVars
    BY <1>2, PollThread
  <2> QED
    BY <1>1, <2>1 DEF ReadsAllowed, isTransactionAllowed, mgrVars
<1>3. ASSUME NEW t \in Threads, NEW type \in Paths \cup {kUseLastPath}, pollBatteryState(t, type)
      PROVE  ReadsAllowed'
  <2>1. /\ thr'[t].cs = Restart /\ (t = Gate => thr'[t].pc # "complete")
        /\ \A u \in Threads : u # t => thr'[u] = thr[u]
        /\ UNCHANGED mgrVars
    BY <1>3, RequestThread
  <2> QED
    BY <1>1, <2>1 DEF ReadsAllowed, isTransactionAllowed, mgrVars
<1>4. CASE Completes
  <2>1. /\ thr'[Gate].pc # "complete"
        /\ thr'[Gate].pc = "gated" /\ thr'[Gate].ok => isTransactionAllowed
        /\ \A u \in Threads : u # Gate => thr'[u] = thr[u]
        /\ UNCHANGED mgrVars
    BY <1>4, CompletesThread
  <2> QED
    BY <1>1, <2>1 DEF ReadsAllowed, isTransactionAllowed, mgrVars
<1>5. CASE Quiet
  BY <1>5, QuietFact DEF ReadsAllowed, isTransactionAllowed, mgrVars
<1>6. CASE incompleteReadTimeOut \/ message \/ ExclusiveStart \/ clientClose
  <2>1. /\ thr'[Gate].pc \in {"idle", "poll", "finish"}
        /\ \A u \in Threads : u # Gate => thr'[u] = thr[u]
    BY <1>6, OutsideThread
  <2> QED
    BY <1>1, <2>1 DEF ReadsAllowed
<1> QED
  BY <1>1, <1>2, <1>3, <1>4, <1>5, <1>6, NextCases

\* Nothing of a removed battery is read: a completion that applies data is that of
\* the gate, and was allowed.
LEMMA GhostStep ==
  ASSUME TypeOK, ReadsAllowed, NoGhostBattery, [Next]_vars
  PROVE  NoGhostBattery'
<1>1. Gate \in Threads /\ thr[Gate].type \in Paths \cup {kUseLastPath}
  BY ThreadFact DEF Threads
<1>2. ASSUME NEW t \in Threads, PollStep(t) PROVE NoGhostBattery'
  <2>1. UNCHANGED mgrVars
    BY <1>2, PollThread
  <2>2. CASE transactionCompletionGated(t)
    <3>1. CASE UNCHANGED dataVars
      BY <2>1, <3>1 DEF NoGhostBattery, dataVars, mgrVars
    <3>2. CASE Cleared
      BY <3>2 DEF NoGhostBattery, Cleared
    <3>3. CASE thr[t].pc = "gated" /\ thr[t].ok /\ thr[t].cs # Restart
      <4>1. t = Gate
        BY <3>3 DEF ReadsAllowed, Threads
      <4>2. ~inaccessible
        BY <3>3, <4>1 DEF ReadsAllowed, isTransactionAllowed
      <4> QED
        BY <2>1, <4>2 DEF NoGhostBattery, mgrVars
    <3> QED
      BY <2>2, <3>1, <3>2, <3>3 DEF transactionCompletionGated
  <2>3. CASE ~transactionCompletionGated(t)
    <3>1. UNCHANGED dataVars
      BY <1>2, <2>3 DEF PollStep, transactionCompletion, initiateNextTransaction,
         handlePollingFinishedGated, handlePollingFinished, acknowledgeSystemSleepWake
    <3> QED
      BY <2>1, <3>1 DEF NoGhostBattery, dataVars, mgrVars
  <2> QED
    BY <2>2, <2>3
<1>3. ASSUME NEW t \in Threads, NEW type \in Paths \cup {kUseLastPath}, pollBatteryState(t, type)
      PROVE  NoGhostBattery'
  BY <1>3, RequestThread DEF NoGhostBattery, dataVars, mgrVars
<1>4. CASE Completes
  BY <1>4, CompletesThread DEF NoGhostBattery, dataVars, mgrVars
<1>5. CASE Quiet
  BY <1>5, QuietFact DEF NoGhostBattery, dataVars, mgrVars
<1>6. CASE incompleteReadTimeOut
  BY <1>6 DEF incompleteReadTimeOut, NoGhostBattery, dataVars, mgrVars
<1>7. CASE message
  BY <1>7 DEF message, handleBatteryRemoved, handleBatteryInserted, Cleared, NoGhostBattery
<1>8. CASE ExclusiveStart \/ clientClose
  BY <1>8 DEF ExclusiveStart, clientClose, requestExclusiveSMBusAccess, NoGhostBattery, dataVars
<1> QED
  BY <1>1, <1>2, <1>3, <1>4, <1>5, <1>6, <1>7, <1>8, NextCases

\* A thread that ends a poll.
Ending(t) == thr[t].pc \in {"finish", "finished"}

LEMMA WatchedStep ==
  ASSUME TypeOK, Watched, [Next]_vars
  PROVE  Watched'
<1> DEFINE A == toAck => sleeping /\ (pollingNow => slept)
           B == pollingNow /\ ~cancelPolling /\ ~slept /\ ~timer => \E t \in Threads : Ending(t)
<1>0. Watched <=> A /\ B
  BY DEF Watched, Ending
<1>00. Watched' <=> A' /\ B'
  BY DEF Watched, Ending
<1>1. Gate \in Threads /\ thr[Gate].type \in Paths \cup {kUseLastPath}
  BY ThreadFact DEF Threads
<1>2. ASSUME NEW t \in Threads, PollStep(t) PROVE Watched'
  <2>1. \A u \in Threads : u # t => thr'[u] = thr[u]
    BY <1>2, PollThread
  <2>t. thr \in [Threads -> ThreadType] /\ thr[t] \in ThreadType
    BY HalvesFact, ThreadFact
  <2>2. CASE transactionCompletion(t)
    <3>1. UNCHANGED <<pollVars, timer, sleeping, toAck, slept>> /\ ~Ending(t)
      BY <2>2 DEF transactionCompletion, readVars, pmVars, Ending
    <3> QED
      BY <1>0, <1>00, <2>1, <3>1 DEF Ending, pollVars
  <2>3. CASE transactionCompletionGated(t)
    <3>0. UNCHANGED <<sleeping, toAck>>
      BY <2>3 DEF transactionCompletionGated
    <3>1. CASE UNCHANGED <<pollVars, timer, slept>> /\ Goes(t, Finishing(thr[t], FALSE))
      <4>1. thr'[t].pc = "finish"
        <5>1. Finishing(thr[t], FALSE).pc = "finish"
          BY <2>t, FinishingFact
        <5> QED
          BY <2>t, <3>1, <5>1 DEF Goes
      <4> QED
        BY <1>0, <1>00, <3>0, <3>1, <4>1 DEF Ending, pollVars
    <3>2. CASE Restarted /\ ~sleeping
      BY <1>0, <1>00, <3>0, <3>2 DEF Restarted
    <3>3. CASE UNCHANGED <<pollVars, timer, slept>>
      <4>1. ~Ending(t)
        BY <2>3 DEF transactionCompletionGated, Ending
      <4> QED
        BY <1>0, <1>00, <2>1, <3>0, <3>3, <4>1 DEF Ending, pollVars
    <3> QED
      BY <2>3, <3>1, <3>2, <3>3 DEF transactionCompletionGated
  <2>4. CASE initiateNextTransaction(t)
    <3>1. UNCHANGED <<pollVars, timer, sleeping, toAck, slept>> /\ ~Ending(t)
      BY <2>4 DEF initiateNextTransaction, readVars, pmVars, Ending
    <3> QED
      BY <1>0, <1>00, <2>1, <3>1 DEF Ending, pollVars
  <2>5. CASE handlePollingFinishedGated(t)
    <3>1. [thr[t] EXCEPT !.pc = "finished", !.whole = FALSE] \in ThreadType
      BY <2>t DEF ThreadType
    <3>2. Ending(t)'
      <4> DEFINE r == [thr[t] EXCEPT !.pc = "finished", !.whole = FALSE]
      <4>1. r.pc = "finished"
        BY <2>t DEF ThreadType
      <4>2. Goes(t, r)
        BY <2>5 DEF handlePollingFinishedGated
      <4> HIDE DEF r
      <4>3. thr'[t] = r
        BY <2>t, <4>2 DEF Goes
      <4> QED
        BY <4>1, <4>3 DEF Ending
    <3>3. UNCHANGED <<pollVars, sleeping, toAck, slept>>
      BY <2>5 DEF handlePollingFinishedGated, pmVars
    <3> QED
      BY <1>0, <1>00, <3>2, <3>3 DEF pollVars
  <2>6. CASE handlePollingFinished(t)
    BY <1>0, <1>00, <2>6 DEF handlePollingFinished
  <2>7. CASE acknowledgeSystemSleepWake(t)
    <3>1. UNCHANGED <<pollVars, sleeping, slept>> /\ ~toAck' /\ ~Ending(t)
      BY <2>7 DEF acknowledgeSystemSleepWake, Acknowledged, Ending
    <3>2. timer \in BOOLEAN /\ toAck \in BOOLEAN
      BY DEF TypeOK
    <3>3. ~timer' => ~timer \/ toAck
      BY <2>7, <3>2 DEF acknowledgeSystemSleepWake, Acknowledged
    <3> QED
      BY <1>0, <1>00, <2>1, <3>1, <3>3 DEF Ending, pollVars
  <2> QED
    BY <1>2, <2>2, <2>3, <2>4, <2>5, <2>6, <2>7 DEF PollStep
<1>3. ASSUME NEW t \in Threads, NEW type \in Paths \cup {kUseLastPath},
             pollBatteryState(t, type), thr[t].pc \in {"idle", "poll"}
      PROVE  Watched'
  <2>1. /\ \A u \in Threads : u # t => thr'[u] = thr[u]
        /\ UNCHANGED <<pollingNow, cancelPolling, timer, toAck, sleeping, slept>>
    BY <1>3, RequestThread DEF readVars, pmVars
  <2> QED
    BY <1>0, <1>00, <1>3, <2>1 DEF Ending
<1>4. CASE Completes
  <2>1. /\ ~Ending(Gate) /\ \A u \in Threads : u # Gate => thr'[u] = thr[u]
        /\ UNCHANGED <<pollVars, timer, toAck, sleeping, slept>>
    BY <1>4, CompletesThread DEF readVars, pmVars, GateFree, Ending
  <2> QED
    BY <1>0, <1>00, <2>1 DEF Ending, pollVars
<1>5. CASE Quiet
  <2>1. UNCHANGED <<thr, pollVars, timer>>
    BY <1>5, QuietFact DEF readVars
  <2>2. CASE setPowerState
    <3>1. PICK down \in BOOLEAN : handleSystemSleepWake(down)
      BY <2>2 DEF setPowerState
    <3>2. /\ toAck' = (down /\ pollingNow) /\ sleeping' = down
          /\ slept' = (slept \/ toAck') /\ slept \in BOOLEAN /\ pollingNow \in BOOLEAN
      BY <3>1 DEF handleSystemSleepWake, TypeOK
    <3>3. A'
      BY <2>1, <3>2 DEF pollVars
    <3>4. B'
      BY <1>0, <2>1, <3>2 DEF pollVars, Ending
    <3> QED
      BY <1>00, <3>3, <3>4
  <2>3. CASE ~setPowerState
    <3>1. UNCHANGED <<toAck, sleeping, slept>>
      BY <1>5, <2>3 DEF Quiet, LosesTransaction, smbusExternalTransaction,
         smbusExternalTransactionCompletion, vars, pmVars
    <3> QED
      BY <1>0, <1>00, <2>1, <3>1 DEF pollVars, Ending
  <2> QED
    BY <2>2, <2>3
<1>6. CASE incompleteReadTimeOut
  <2>1. Ending(Gate)'
    <3> DEFINE r == Finishing(Idle, FALSE)
    <3>1. r \in ThreadType /\ r.pc = "finish"
      BY IdleFact, FinishingFact
    <3>2. Goes(Gate, [r EXCEPT !.timeout = TRUE])
      BY <1>6 DEF incompleteReadTimeOut
    <3> HIDE DEF r
    <3>3. [r EXCEPT !.timeout = TRUE].pc = "finish"
      BY <3>1 DEF ThreadType
    <3>4. thr'[Gate] = [r EXCEPT !.timeout = TRUE]
      BY <1>1, <3>2, HalvesFact DEF Goes
    <3> QED
      BY <3>3, <3>4 DEF Ending
  <2> QED
    BY <1>0, <1>00, <1>1, <1>6, <2>1 DEF incompleteReadTimeOut, pollVars, pmVars
<1>7. CASE handleBatteryRemoved
  <2>1. pollingNow \in BOOLEAN /\ cancelPolling \in BOOLEAN
    BY DEF TypeOK
  <2> QED
    BY <1>0, <1>00, <1>7, <2>1 DEF handleBatteryRemoved
<1>8. CASE handleBatteryInserted \/ ExclusiveStart \/ clientClose
  <2>1. /\ ~Ending(Gate) /\ \A u \in Threads : u # Gate => thr'[u] = thr[u]
    BY <1>8, OutsideThread DEF GateFree, Ending, message
  <2>2. UNCHANGED <<pollingNow, cancelPolling, timer, sleeping, toAck, slept>>
    BY <1>8 DEF handleBatteryInserted, ExclusiveStart, clientClose, requestExclusiveSMBusAccess,
       pollVars, readVars, pmVars
  <2> QED
    BY <1>0, <1>00, <2>1, <2>2 DEF Ending
<1> QED
  BY <1>1, <1>2, <1>3, <1>4, <1>5, <1>6, <1>7, <1>8, NextCases DEF message

\* Clients are no commands.
LEMMA ClientsFact == Commands \cap Clients = {}
BY BatteryAssumption DEF BatteryAssumption, Commands

\* What is asked of the clients.
OneExclusive == Plain = {} /\ (\A x, y \in Clients : x = y)

\* A command of the poll that is sent takes the transaction back from a client.
LEMMA InitiateBuffer ==
  ASSUME TypeOK, NEW t \in Threads, initiateNextTransaction(t)
  PROVE  buffer' \notin Clients \/ UNCHANGED <<buffer, onBus, behind, fouled>>
<1> DEFINE rest == Rest(thr[t].cs)
           next == CHOOSE i \in rest : \A j \in rest : i <= j
<1>1. CASE rest = {}
  BY <1>1 DEF initiateNextTransaction, busVars
<1>2. CASE rest # {}
  <2>1. next \in Commands
    BY <1>2, LeastFact DEF Rest
  <2>2. buffer' = next \/ UNCHANGED <<buffer, onBus, behind, fouled>>
    BY <1>2 DEF initiateNextTransaction, busVars
  <2> HIDE DEF next
  <2> QED
    BY <2>1, <2>2, ClientsFact
<1> QED
  BY <1>1, <1>2

LEMMA ClientStep ==
  ASSUME TypeOK, ClientBehind, [Next]_vars
  PROVE  ClientBehind'
<1> SUFFICES ASSUME OneExclusive, ~fouled', onBus', buffer' \in Clients
             PROVE  (exclusive /\ asleep # {} /\ extBus \subseteq behind)'
  BY DEF ClientBehind, OneExclusive
<1>1. thr[Gate].type \in Paths \cup {kUseLastPath} /\ onBus \in BOOLEAN
  BY ThreadFact DEF TypeOK, Threads
<1>2. ~fouled /\ onBus /\ buffer \in Clients =>
        exclusive /\ asleep # {} /\ extBus \subseteq behind
  BY DEF ClientBehind, OneExclusive
<1>3. CASE UNCHANGED <<busVars, extVars, exclusive>>
  BY <1>2, <1>3 DEF busVars, extVars
<1>4. ASSUME NEW t \in Threads, PollStep(t)
      PROVE  (exclusive /\ asleep # {} /\ extBus \subseteq behind)'
  <2>1. UNCHANGED <<extBus, asleep, exclusive>>
    BY <1>4 DEF PollStep, transactionCompletion, transactionCompletionGated,
       initiateNextTransaction, handlePollingFinishedGated, handlePollingFinished,
       acknowledgeSystemSleepWake, mgrVars, extVars
  <2>2. CASE initiateNextTransaction(t)
    BY <1>2, <2>1, <2>2, InitiateBuffer
  <2>3. CASE ~initiateNextTransaction(t)
    <3>1. UNCHANGED <<busVars, extVars>>
      BY <1>4, <2>3 DEF PollStep, transactionCompletion, transactionCompletionGated,
         handlePollingFinishedGated, handlePollingFinished, acknowledgeSystemSleepWake
    <3> QED
      BY <1>3, <2>1, <3>1
  <2> QED
    BY <2>2, <2>3
<1>5. ASSUME NEW t \in Threads, NEW type \in Paths \cup {kUseLastPath}, pollBatteryState(t, type)
      PROVE  (exclusive /\ asleep # {} /\ extBus \subseteq behind)'
  BY <1>3, <1>5, RequestThread DEF mgrVars
<1>6. CASE Completes
  <2>1. onBus /\ isTransactionAllowed /\ UNCHANGED buffer
    BY <1>6, CompletesThread
  <2>2. UNCHANGED extVars
    BY <1>6 DEF Completes, smbusCompletion
  <2> QED
    BY <1>2, <2>1, <2>2 DEF isTransactionAllowed, extVars
<1>7. CASE LosesTransaction
  BY <1>7 DEF LosesTransaction
<1>8. ASSUME NEW x \in Clients, smbusExternalTransaction(x)
      PROVE  (exclusive /\ asleep # {} /\ extBus \subseteq behind)'
  <2>1. exclusive = (x \notin Plain) /\ UNCHANGED exclusive /\ UNCHANGED onBus
    BY <1>8 DEF smbusExternalTransaction, MayTransact, mgrVars
  <2>2. exclusive'
    BY <2>1 DEF OneExclusive
  <2>3. \/ asleep' = asleep \cup {x} /\ extBus' = extBus \cup {x} /\ behind' = behind \cup {x}
        \/ fouled' = (fouled \/ onBus)
    BY <1>8, <2>1 DEF smbusExternalTransaction
  <2>4. extBus \subseteq Clients
    BY DEF TypeOK
  <2>5. ~(fouled' = (fouled \/ onBus))
    BY <2>1
  <2> QED
    BY <2>2, <2>3, <2>4, <2>5 DEF OneExclusive
<1>9. ASSUME NEW x \in Clients, smbusExternalTransactionCompletion(x)
      PROVE  (exclusive /\ asleep # {} /\ extBus \subseteq behind)'
  <2>1. x \in extBus \ behind /\ UNCHANGED <<busVars, fouled>>
    BY <1>9 DEF smbusExternalTransactionCompletion
  <2> QED
    BY <1>2, <2>1 DEF busVars
<1>10. CASE setPowerState
  BY <1>3, <1>10 DEF setPowerState, handleSystemSleepWake, mgrVars
<1>11. CASE incompleteReadTimeOut
  BY <1>3, <1>11 DEF incompleteReadTimeOut, mgrVars
<1>12. CASE message
  BY <1>3, <1>12 DEF message, handleBatteryRemoved, handleBatteryInserted
<1>13. CASE ExclusiveStart
  <2>1. exclusive' /\ UNCHANGED <<busVars, extVars>>
    BY <1>13 DEF ExclusiveStart, requestExclusiveSMBusAccess
  <2> QED
    BY <1>2, <2>1 DEF busVars, extVars
<1>14. CASE clientClose
  <2>1. asleep \subseteq Plain /\ UNCHANGED <<busVars, fouled>>
    BY <1>14 DEF clientClose, requestExclusiveSMBusAccess, extVars
  <2> QED
    BY <1>2, <2>1 DEF busVars, OneExclusive
<1>15. CASE UNCHANGED vars
  BY <1>3, <1>15 DEF vars, mgrVars
<1> QED
  BY <1>1, <1>4, <1>5, <1>6, <1>7, <1>8, <1>9, <1>10, <1>11, <1>12, <1>13, <1>14, <1>15,
     NextCases DEF Quiet

LEMMA ForeignStep ==
  ASSUME TypeOK, ReadsAllowed, ClientBehind, NoForeignData, [Next]_vars
  PROVE  NoForeignData'
<1> DEFINE reads == thr[Gate].pc = "gated" /\ thr[Gate].ok /\ thr[Gate].cs # Restart
<1> SUFFICES ASSUME OneExclusive, ~fouled', reads'
             PROVE  buffer' \notin Clients
  BY DEF NoForeignData, OneExclusive
<1>1. Gate \in Threads /\ thr[Gate].type \in Paths \cup {kUseLastPath}
  BY ThreadFact DEF Threads
<1>2. reads /\ ~fouled => buffer \notin Clients
  BY DEF NoForeignData, OneExclusive
<1>3. CASE buffer' = buffer /\ fouled' = fouled /\ thr'[Gate] = thr[Gate]
  BY <1>2, <1>3
<1>4. ASSUME NEW t \in Threads, PollStep(t)
      PROVE  buffer' \notin Clients
  <2>1. t # Gate
    BY <1>4, PollThread DEF ReadsAllowed
  <2>2. thr'[Gate] = thr[Gate]
    BY <1>1, <1>4, <2>1, PollThread
  <2>3. buffer' \notin Clients \/ UNCHANGED <<buffer, fouled>>
    BY <1>4, InitiateBuffer DEF PollStep, transactionCompletion, transactionCompletionGated,
       handlePollingFinishedGated, handlePollingFinished, acknowledgeSystemSleepWake, busVars,
       extVars
  <2> QED
    BY <1>3, <2>2, <2>3
<1>5. ASSUME NEW t \in Threads, NEW type \in Paths \cup {kUseLastPath}, pollBatteryState(t, type)
      PROVE  buffer' \notin Clients
  <2>1. /\ thr'[t].cs = Restart /\ \A u \in Threads : u # t => thr'[u] = thr[u]
        /\ UNCHANGED <<busVars, extVars>>
    BY <1>5, RequestThread
  <2> QED
    BY <1>1, <1>3, <2>1 DEF busVars, extVars
<1>6. CASE Completes
  <2>1. /\ onBus /\ UNCHANGED buffer
        /\ thr'[Gate].pc = "gated" /\ thr'[Gate].ok => isTransactionAllowed
    BY <1>6, CompletesThread
  <2>2. UNCHANGED extVars
    BY <1>6 DEF Completes, smbusCompletion
  <2> QED
    BY <2>1, <2>2 DEF ClientBehind, OneExclusive, isTransactionAllowed, extVars
<1>7. CASE LosesTransaction \/ setPowerState \/ UNCHANGED vars
  BY <1>3, <1>7 DEF LosesTransaction, setPowerState, handleSystemSleepWake, vars, busVars, extVars
<1>8. ASSUME NEW x \in Clients, smbusExternalTransaction(x)
      PROVE  buffer' \notin Clients
  BY <1>8 DEF smbusExternalTransaction, GateFree
<1>9. ASSUME NEW x \in Clients, smbusExternalTransactionCompletion(x)
      PROVE  buffer' \notin Clients
  BY <1>3, <1>9 DEF smbusExternalTransactionCompletion, busVars
<1>10. CASE incompleteReadTimeOut \/ message \/ ExclusiveStart \/ clientClose
  BY <1>10, OutsideThread
<1> QED
  BY <1>1, <1>4, <1>5, <1>6, <1>7, <1>8, <1>9, <1>10, NextCases DEF Quiet

-----------------------------------------------------------------------------
(* The theorems.                                                            *)

LEMMA IndInit == Init => IndInv
<1> SUFFICES ASSUME Init PROVE IndInv
  OBVIOUS
<1>1. TypeOK /\ ReadsAllowed
  BY TypeInit, ReadsInit
<1>2. NoGhostBattery /\ Watched
  BY DEF Init, NoGhostBattery, Watched
<1>3. ClientBehind
  BY TableFact, ClientsFact DEF Init, ClientBehind
<1>4. NoForeignData
  BY IdleFact DEF Init, NoForeignData, Threads
<1> QED
  BY <1>1, <1>2, <1>3, <1>4 DEF IndInv

\* The inductive invariant holds in every reachable state.
THEOREM Invariance == Spec => []IndInv
<1>1. IndInv /\ [Next]_vars => IndInv'
  BY TypeStep, ReadsStep, GhostStep, WatchedStep, ClientStep, ForeignStep DEF IndInv
<1> QED
  BY IndInit, <1>1, PTL DEF Spec

\* Every variable keeps its type; in particular no command fails and is repeated more
\* than kRetryAttempts times in a row, the countdown and the retries of a read do not
\* go below zero and the number of a command never leaves the table
\* (requiresRetryGetMicroSec, initiateNextTransaction).
THEOREM TypeCorrect == Spec => []TypeOK
<1>1. IndInv => TypeOK
  BY DEF IndInv
<1> QED
  BY Invariance, <1>1, PTL

\* Of a removed battery nothing is published, however many threads poll and whatever
\* completions were on the way (handleBatteryRemoved, isTransactionAllowed).
THEOREM RemovedIsGone == Spec => []NoGhostBattery
<1>1. IndInv => NoGhostBattery
  BY DEF IndInv
<1> QED
  BY Invariance, <1>1, PTL

\* A poll that neither a removal nor a sleep disturbed never waits with nobody to end
\* it (fBatteryReadAllTimer).
THEOREM PollWatched == Spec => []PollIsWatched
<1>1. IndInv => PollIsWatched
  BY DEF IndInv, Watched, PollIsWatched
<1> QED
  BY Invariance, <1>1, PTL

\* What a single exclusive client reads is never published as a register of the
\* battery, for any table of commands, unless a request of that client failed after it
\* had filled fTransaction while a transaction of the poll was outstanding
\* (smbusExternalTransaction, smbusCompletion).
THEOREM ForeignDataKept == Spec => []NoForeignData
<1>1. IndInv => NoForeignData
  BY DEF IndInv
<1> QED
  BY Invariance, <1>1, PTL
=============================================================================
