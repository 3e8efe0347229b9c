---------------------------- MODULE SmartBattery ----------------------------
(***************************************************************************)
(* The polls of the smart battery, AppleSmartBatteryManager/ (the build    *)
(* for SMBus, TARGET_OS_OSX_X86): AppleSmartBattery reads a table of       *)
(* commands one by one through AppleSmartBatteryManager and SmbusHandler,  *)
(* whose completions run inside the gate of the work loop, while user      *)
(* clients and alarms ask for polls from threads of their own, power       *)
(* management announces sleep, a timer watches over the whole read, and a  *)
(* user client may take the bus for itself.                                *)
(*                                                                         *)
(* thr[Gate] is whoever runs inside the gate; the other threads are inside *)
(* it for the length of one action.  The poll control lock makes each of   *)
(* its critical sections one step.                                         *)
(***************************************************************************)
EXTENDS Integers, Sequences, FiniteSets

CONSTANTS
  Callers,       \* threads that ask for polls
  Clients,       \* threads in an external transaction
  Plain,         \* those that do not ask for exclusive access
  Gate,          \* the thread inside the gate
  Table,         \* the commands of a poll, without those that a machine skips
                 \* altogether: sequence of [kind, path, sif, op]
  RetryAttempts, \* kRetryAttempts
  MaxFailures,   \* failed transactions in a row a poll survives
  Countdown,     \* kInitialPollCountdown
  ReadRetryMax,  \* kIncompleteReadRetryMax
  Requests       \* the polls callers ask for

kUseLastPath == 0
kBoot == 1
kFull == 2
kUserVis == 4
Paths == {kBoot, kFull, kUserVis}
Kinds == {"state", "status", "word", "capacity", "serial"}

ASSUME BatteryAssumption ==
  /\ Gate \notin Callers \cup Clients /\ Callers \cap Clients = {}
  /\ Plain \subseteq Clients
  /\ \A x \in Clients : x \notin 1..Len(Table)  \* a request is no command
  /\ Table \in Seq([kind : Kinds, path : Paths, sif : BOOLEAN,
                     op : {"read", "extended", "dictionary"}])
  /\ Len(Table) > 0 /\ Table[1].path = kUserVis
  /\ RetryAttempts \in Nat \ {0} /\ MaxFailures \in Nat
  /\ Countdown \in Nat /\ ReadRetryMax \in Nat
  /\ Requests \subseteq Paths \cup {kUseLastPath}

Restart == 0                  \* kTransactionRestart, the entry before the table
Finish == Len(Table) + 1      \* kFinishPolling, the one after it
Commands == 1..Len(Table)
Threads == Callers \cup {Gate}

VARIABLES
  pollingNow, cancelPolling, rebootPolling, machinePath, \* _pollCtrlLock's
  timer,         \* fBatteryReadAllTimer is armed
  sleeping,      \* fSystemSleeping
  toAck,         \* fPowerServiceToAck
  txnFailures, countdown, readRetries,
  present,       \* fBatteryPresent, published as BatteryInstalled
  charge,        \* whether a capacity other than zero is published
  serial,        \* whether the serial number is published
  exclusive,     \* fExclusiveUserClient
  inaccessible,  \* fInacessible
  ref,           \* fAsbmReference, the command a completion is passed on with
  stage,         \* fOpType: the first half of an extended read, or the read
  attempts,      \* fRetryAttempts
  buffer,        \* what fTransaction holds: a command, or a client's request
  onBus,         \* external: the transaction with fCmdCount is outstanding; the
                 \* completions of earlier ones are dropped by their count
  extBus,        \* external: outstanding external transactions
  behind,        \* external: those queued behind the current poll
  asleep,        \* clients that sleep in smbusExternalTransaction
  thr,           \* where each thread is
  slept,         \* history: the system went to sleep during this poll
  fouled         \* history: a client's request was not accepted while the
                 \* transaction of the poll was outstanding
pollVars == <<pollingNow, cancelPolling, rebootPolling, machinePath>>
readVars == <<timer, txnFailures, countdown, readRetries>>
dataVars == <<present, charge, serial>>
pmVars == <<sleeping, toAck, slept>>
busVars == <<ref, stage, attempts, buffer, onBus, behind>>
extVars == <<extBus, asleep, fouled>>
mgrVars == <<exclusive, inaccessible>>
vars == <<pollVars, readVars, dataVars, pmVars, busVars, extVars, mgrVars, thr>>

Idle == [pc |-> "idle", cs |-> Restart, ok |-> TRUE, type |-> kUseLastPath,
         whole |-> FALSE, timeout |-> FALSE]
At(pc) == [Idle EXCEPT !.pc = pc]
Polling(type) == [At("poll") EXCEPT !.type = type]
Completing(cs, ok) == [At("complete") EXCEPT !.cs = cs, !.ok = ok]
Gated(cs, ok) == [At("gated") EXCEPT !.cs = cs, !.ok = ok]
Finishing(r, whole) == [r EXCEPT !.pc = "finish", !.whole = whole,
                        !.cs = Restart, !.ok = TRUE, !.type = kUseLastPath]

\* transactionCompletion reads cancelPolling before it enters the gate, where
\* only another thread's removal could change it in between.
Entering(t, cs, ok) ==
  IF t # Gate THEN Completing(cs, ok)
  ELSE IF cancelPolling THEN Finishing(Idle, FALSE) ELSE Gated(cs, ok)

\* A thread may work inside the gate when no other one is there.
InGate(t) == t = Gate \/ thr[Gate].pc = "idle"
GateFree == thr[Gate].pc = "idle"
Goes(t, r) == thr' = [thr EXCEPT ![t] = r]

-----------------------------------------------------------------------------
(* SmbusHandler.                                                            *)

\* Mutant: completions are delivered while a client has the bus.
AllowedWithClient == ~inaccessible

\* Mutant: a poll does not check that the battery is there.
AllowedWithoutBattery == ~exclusive

\* isTransactionAllowed; the manager's own fSystemSleeping is never set.
isTransactionAllowed == ~exclusive /\ ~inaccessible

\* A transaction is submitted under the next fCmdCount, or the controller
\* refuses it; either way the one before it is not waited for any more.  The bus
\* carries one transaction at a time, in the order of submission.
Submitted(accepted) == onBus' = accepted /\ behind' = {}

\* Mutant: one attempt too many.
RetryOnce(result, cmd) ==
  CASE result = "again" /\ attempts <= RetryAttempts -> attempts + 1
    [] result = "zero" /\ cmd \in Commands /\ Table[cmd].kind = "capacity" -> 1
    [] OTHER -> 0

\* requiresRetryGetMicroSec: how many attempts are then counted, 0 for none.
\* A capacity of zero is read again; the status of that read is good, so the
\* attempts before it are forgotten.
requiresRetryGetMicroSec(result, cmd) ==
  CASE result = "again" /\ attempts < RetryAttempts -> attempts + 1
    [] result = "zero" /\ cmd \in Commands /\ Table[cmd].kind = "capacity" -> 1
    [] OTHER -> 0

\* The transaction in fTransaction is submitted once more; when that fails
\* the command has failed.
Resubmitted(counted) ==
  \E accepted \in BOOLEAN :
    /\ Submitted(accepted)
    /\ attempts' = IF accepted THEN counted ELSE 0
    /\ Goes(Gate, IF accepted THEN Idle ELSE Entering(Gate, ref, FALSE))

\* The handler passes the result on to the completion of the battery.
PassedOn(ok) ==
  /\ onBus' = FALSE
  /\ behind' = {}
  /\ Goes(Gate, Entering(Gate, ref, ok))

\* smbusCompletion of the current transaction: a good word, a zero, an error
\* worth a retry or one that is not.
smbusCompletion(result) ==
  LET retry == requiresRetryGetMicroSec(result, buffer)
      good == result \in {"good", "zero"}
  IN /\ GateFree /\ onBus /\ extBus \subseteq behind
     /\ \/ /\ ~isTransactionAllowed
           /\ PassedOn(FALSE)
           /\ UNCHANGED <<stage, attempts>>
        \/ /\ isTransactionAllowed /\ retry > 0
           /\ Resubmitted(retry)
           /\ UNCHANGED stage
        \/ /\ isTransactionAllowed /\ retry = 0 /\ good /\ stage = "write"
           /\ stage' = "read"
           /\ Resubmitted(0)
        \/ /\ isTransactionAllowed /\ retry = 0 /\ ~(good /\ stage = "write")
           /\ PassedOn(good)
           /\ attempts' = 0
           /\ UNCHANGED stage
     /\ UNCHANGED <<pollVars, readVars, dataVars, pmVars, extVars, mgrVars, ref,
                    buffer>>

\* The embedded controller loses a transaction.
LosesTransaction ==
  /\ onBus
  /\ onBus' = FALSE
  /\ behind' = {}
  /\ UNCHANGED <<pollVars, readVars, dataVars, pmVars, extVars, mgrVars, ref,
                 stage, attempts, buffer, thr>>

\* externalMethod: who may use the bus.
MayTransact(x) == exclusive = (x \notin Plain)

\* smbusExternalTransaction: a client fills the same fTransaction; then its request is
\* submitted, and it sleeps, which opens the gate, or the type is invalid or the
\* controller refuses, and it leaves at once.
smbusExternalTransaction(x) ==
  /\ GateFree /\ MayTransact(x) /\ x \notin asleep
  /\ buffer' = x
  /\ \/ /\ extBus' = extBus \cup {x}
        /\ behind' = IF onBus THEN behind \cup {x} ELSE behind
        /\ asleep' = asleep \cup {x}
        /\ UNCHANGED fouled
     \/ /\ fouled' = (fouled \/ onBus)
        /\ UNCHANGED <<extBus, behind, asleep>>
  /\ UNCHANGED <<pollVars, readVars, dataVars, pmVars, mgrVars, ref, stage,
                 attempts, onBus, thr>>

\* smbusExternalTransactionCompletion wakes everyone who sleeps on fTransaction;
\* a client that tries again is one that calls again.
smbusExternalTransactionCompletion(x) ==
  /\ GateFree /\ x \in extBus \ behind
  /\ extBus' = extBus \ {x}
  /\ asleep' = {}
  /\ UNCHANGED <<pollVars, readVars, dataVars, pmVars, mgrVars, busVars, fouled,
                 thr>>

-----------------------------------------------------------------------------
(* AppleSmartBattery: the poll.                                             *)

\* The path of the poll after a request: a smaller number reads more, and
\* early polls, and those without a serial number, read everything.
PathFor(type) ==
  IF countdown > 0 \/ ~serial THEN kBoot
  ELSE IF (pollingNow /\ machinePath <= type) \/ type = kUseLastPath
       THEN machinePath ELSE type

\* pollBatteryState: either starts the machine or leaves a note for the one
\* that runs.
pollBatteryState(t, type) ==
  /\ IF exclusive
     THEN Goes(t, Idle) /\ UNCHANGED pollVars
     ELSE /\ machinePath' = PathFor(type)
          /\ rebootPolling' = (rebootPolling \/ pollingNow)
          /\ Goes(t, IF pollingNow THEN Idle ELSE Entering(t, Restart, TRUE))
          /\ UNCHANGED <<pollingNow, cancelPolling>>
  /\ UNCHANGED <<readVars, dataVars, pmVars, busVars, extVars, mgrVars>>

\* A handler inside the gate polls before it leaves.
PollFromGate == thr[Gate].pc = "poll" /\ pollBatteryState(Gate, thr[Gate].type)

\* transactionCompletion: a cancelled poll ends here.
transactionCompletion(t) ==
  /\ thr[t].pc = "complete"
  /\ Goes(t, IF cancelPolling THEN Finishing(thr[t], FALSE)
             ELSE Gated(thr[t].cs, thr[t].ok))
  /\ UNCHANGED <<pollVars, readVars, dataVars, pmVars, busVars, extVars, mgrVars>>

\* clearBatteryStateGated.
Cleared == present' = FALSE /\ charge' = FALSE

\* Mutant: the watchdog is not armed anew.
RestartedUnwatched ==
  /\ rebootPolling' = FALSE /\ cancelPolling' = FALSE /\ pollingNow' = TRUE
  /\ txnFailures' = 0 /\ slept' = FALSE
  /\ UNCHANGED timer

\* transactionCompletionGated, kTransactionRestart.
Restarted ==
  /\ rebootPolling' = FALSE /\ cancelPolling' = FALSE /\ pollingNow' = TRUE
  /\ txnFailures' = 0 /\ slept' = FALSE
  /\ timer' = TRUE

\* What a successful read of a command changes: whether a battery is there, in
\* the state of the manager, or said to be there, after a permanent failure;
PresentAfter(cmd) ==
  CASE Table[cmd].kind = "state" -> BOOLEAN
    [] Table[cmd].kind = "status" -> {present, TRUE}
    [] OTHER -> {present}
\* the capacity, which SmbusHandler does not deliver as zero;
ChargeAfter(cmd) == charge \/ Table[cmd].kind = "capacity"
\* and what is merely published.
handleSetItAndForgetIt(cmd) == serial \/ Table[cmd].kind = "serial"

Applied(cmd) ==
  /\ present' \in PresentAfter(cmd)
  /\ charge' = ChargeAfter(cmd)
  /\ serial' = handleSetItAndForgetIt(cmd)

\* transactionCompletionGated.  The note to restart is noticed by the commands
\* that are not merely published ("set it and forget it").
transactionCompletionGated(t) ==
  LET cs == thr[t].cs
      goOn == Goes(t, [thr[t] EXCEPT !.pc = "next", !.ok = TRUE])
      abort == Goes(t, Finishing(thr[t], FALSE))
      restart == Goes(t, [thr[t] EXCEPT !.pc = "next", !.cs = Restart])
      read == thr[t].ok /\ cs # Restart
  IN /\ thr[t].pc = "gated" /\ InGate(t)
     /\ \/ /\ sleeping
           /\ abort
           /\ UNCHANGED <<pollVars, txnFailures, timer, dataVars, slept>>
        \/ /\ ~sleeping /\ cs = Restart
           /\ Restarted /\ restart
           /\ UNCHANGED <<machinePath, dataVars>>
        \/ /\ ~sleeping /\ ~thr[t].ok
           /\ txnFailures' = IF txnFailures > MaxFailures THEN txnFailures  \* saturates
                             ELSE txnFailures + 1
           /\ IF txnFailures' > MaxFailures THEN abort ELSE goOn
           /\ UNCHANGED <<pollVars, timer, dataVars, slept>>
        \/ /\ ~sleeping /\ read /\ ~Table[cs].sif /\ rebootPolling
           /\ Restarted /\ restart
           /\ UNCHANGED <<machinePath, dataVars>>
        \/ /\ ~sleeping /\ read /\ (Table[cs].sif \/ ~rebootPolling)
           /\ txnFailures' = 0
           /\ \/ Applied(cs) /\ goOn /\ (Table[cs].kind = "status" => present')
              \/ /\ Table[cs].kind = "status" /\ ~present
                 /\ Cleared /\ abort /\ UNCHANGED serial
           /\ UNCHANGED <<pollVars, timer, slept>>
     /\ UNCHANGED <<countdown, readRetries, sleeping, toAck, busVars, extVars,
                    mgrVars>>

\* The commands that are left on the path after one.
Rest(cmd) == {i \in Commands : i > cmd /\ Table[i].path >= machinePath}

\* initiateNextTransaction, performSmbusTransactionGated and performTransaction.
\* The manager refuses the reads of a dictionary, which the table has all the same;
\* for the others the reference is replaced even when the handler then refuses.
\* Nobody looks at a refusal: the poll then waits for its timer.
initiateNextTransaction(t) ==
  LET rest == Rest(thr[t].cs)
      next == CHOOSE i \in rest : \A j \in rest : i <= j
  IN /\ thr[t].pc = "next"
     /\ \/ /\ rest = {}
           /\ Goes(t, Finishing(thr[t], TRUE))
           /\ UNCHANGED <<busVars, fouled>>
        \/ /\ rest # {} /\ InGate(t) /\ Table[next].op = "dictionary"
           /\ Goes(t, Idle)
           /\ UNCHANGED <<busVars, fouled>>
        \/ /\ rest # {} /\ InGate(t) /\ Table[next].op # "dictionary"
           /\ ref' = next
           /\ Goes(t, Idle)
           /\ IF isTransactionAllowed
              THEN /\ buffer' = next /\ fouled' = FALSE
                   /\ stage' = IF Table[next].op = "extended" THEN "write" ELSE "read"
                   /\ attempts' = 0
                   /\ \E accepted \in BOOLEAN : Submitted(accepted)
              ELSE UNCHANGED <<buffer, stage, attempts, onBus, behind, fouled>>
     /\ UNCHANGED <<pollVars, readVars, dataVars, pmVars, extBus, asleep, mgrVars>>

\* handlePollingFinishedGated: the timer of an aborted poll is armed again.
handlePollingFinishedGated(t) ==
  /\ thr[t].pc = "finish" /\ InGate(t)
  /\ timer' = ~thr[t].whole
  /\ countdown' = IF thr[t].whole /\ countdown > 0 THEN countdown - 1 ELSE countdown
  /\ Goes(t, [thr[t] EXCEPT !.pc = "finished", !.whole = FALSE])
  /\ UNCHANGED <<pollVars, txnFailures, readRetries, dataVars, pmVars, busVars,
                 extVars, mgrVars>>

\* handlePollingFinished, under the poll control lock.
handlePollingFinished(t) ==
  /\ thr[t].pc = "finished"
  /\ pollingNow' = FALSE /\ slept' = FALSE
  /\ Goes(t, [thr[t] EXCEPT !.pc = "ack"])
  /\ UNCHANGED <<cancelPolling, rebootPolling, machinePath, readVars, dataVars,
                 sleeping, toAck, busVars, extVars, mgrVars>>

\* acknowledgeSystemSleepWakeGated.
Acknowledged == toAck' = FALSE /\ timer' = (timer /\ ~toAck)

\* acknowledgeSystemSleepWake; incompleteReadTimeOut then polls again, a few
\* times in the life of the driver.
acknowledgeSystemSleepWake(t) ==
  LET again == thr[t].timeout /\ ~sleeping /\ readRetries > 0
  IN /\ thr[t].pc = "ack" /\ InGate(t)
     /\ Acknowledged
     /\ readRetries' = IF again THEN readRetries - 1 ELSE readRetries
     /\ Goes(t, IF again THEN Polling(kUseLastPath) ELSE Idle)
     /\ UNCHANGED <<pollVars, txnFailures, countdown, dataVars, sleeping, slept,
                    busVars, extVars, mgrVars>>

\* incompleteReadTimeOut.
incompleteReadTimeOut ==
  /\ GateFree /\ timer
  /\ timer' = FALSE
  /\ Goes(Gate, [Finishing(Idle, FALSE) EXCEPT !.timeout = TRUE])
  /\ UNCHANGED <<pollVars, txnFailures, countdown, readRetries, dataVars, pmVars,
                 busVars, extVars, mgrVars>>

-----------------------------------------------------------------------------
(* What reaches the driver from outside.                                    *)

\* A user client's requestPoll, or an alarm of the battery manager.
requestPoll(c, type) == thr[c].pc = "idle" /\ pollBatteryState(c, type)

\* handleSystemSleepWakeGated.
handleSystemSleepWake(down) ==
  /\ GateFree /\ sleeping # down
  /\ sleeping' = down
  /\ toAck' = (down /\ pollingNow)
  /\ slept' = (slept \/ toAck')
  /\ UNCHANGED <<pollVars, readVars, dataVars, busVars, extVars, mgrVars, thr>>

\* message, handleBatteryRemoved of the manager and of the battery.
handleBatteryRemoved ==
  /\ GateFree /\ ~inaccessible
  /\ inaccessible' = TRUE
  /\ cancelPolling' = (cancelPolling \/ pollingNow)
  /\ Cleared
  /\ toAck' = FALSE /\ timer' = FALSE
  /\ UNCHANGED <<pollingNow, rebootPolling, machinePath, txnFailures, countdown,
                 readRetries, serial, sleeping, slept, exclusive, busVars,
                 extVars, thr>>

\* message, handleBatteryInserted of the manager and of the battery.
handleBatteryInserted ==
  /\ GateFree /\ inaccessible
  /\ inaccessible' = FALSE
  /\ Cleared
  /\ countdown' = Countdown
  /\ rebootPolling' = TRUE
  /\ Goes(Gate, Polling(kBoot))
  /\ UNCHANGED <<pollingNow, cancelPolling, machinePath, timer, txnFailures,
                 readRetries, serial, pmVars, exclusive, busVars, extVars>>

\* requestExclusiveSMBusAccessGated; the client closes outside its calls.
requestExclusiveSMBusAccess(request) ==
  /\ GateFree /\ exclusive # request
  /\ request \/ asleep \subseteq Plain
  /\ exclusive' = request
  /\ Goes(Gate, IF request THEN Idle ELSE Polling(kFull))
  /\ UNCHANGED <<pollVars, readVars, dataVars, pmVars, busVars, extVars,
                 inaccessible>>

\* message: an alarm of the battery manager about the battery.
message == handleBatteryRemoved \/ handleBatteryInserted

setPowerState == \E down \in BOOLEAN : handleSystemSleepWake(down)

\* The user client with exclusive access starts, and closes.
ExclusiveStart == requestExclusiveSMBusAccess(TRUE)
clientClose == requestExclusiveSMBusAccess(FALSE)

-----------------------------------------------------------------------------
\* The state AppleSmartBattery::start leaves: the boot poll has begun, and its
\* first command is out if the manager and the controller took it.
Init ==
  /\ pollingNow = TRUE /\ cancelPolling = FALSE /\ rebootPolling = FALSE
  /\ machinePath = kBoot
  /\ timer = TRUE /\ sleeping = FALSE /\ toAck = FALSE /\ slept = FALSE
  /\ txnFailures = 0 /\ countdown = Countdown /\ readRetries = ReadRetryMax
  /\ present = FALSE /\ charge = FALSE /\ serial = FALSE
  /\ exclusive = FALSE /\ inaccessible = FALSE
  /\ ref = 1 /\ buffer = 1 /\ attempts = 0
  /\ stage = IF Table[1].op = "extended" THEN "write" ELSE "read"
  /\ onBus \in {FALSE, Table[1].op # "dictionary"}
  /\ extBus = {} /\ behind = {} /\ asleep = {} /\ fouled = FALSE
  /\ thr = [t \in Threads |-> Idle]

PollStep(t) ==
  \/ transactionCompletion(t)
  \/ transactionCompletionGated(t)
  \/ initiateNextTransaction(t)
  \/ handlePollingFinishedGated(t)
  \/ handlePollingFinished(t)
  \/ acknowledgeSystemSleepWake(t)

Completes == \E result \in {"good", "zero", "again", "fatal"} : smbusCompletion(result)

Next ==
  \/ \E t \in Threads : PollStep(t)
  \/ PollFromGate
  \/ Completes
  \/ LosesTransaction
  \/ \E x \in Clients :
       smbusExternalTransaction(x) \/ smbusExternalTransactionCompletion(x)
  \/ incompleteReadTimeOut
  \/ \E c \in Callers, type \in Requests : requestPoll(c, type)
  \/ setPowerState
  \/ message
  \/ ExclusiveStart
  \/ clientClose

Spec == Init /\ [][Next]_vars

-----------------------------------------------------------------------------
\* Every variable holds values of the C++ variable it models; in particular
\* fRetryAttempts, which indexes the table of delays, stays within it while a command
\* is repeated (requiresRetryGetMicroSec).  That bounds the failures in a row and no
\* more: a capacity of zero sets it back, and may be read any number of times.
TypeOK ==
  /\ {pollingNow, cancelPolling, rebootPolling, timer, sleeping, toAck, slept, present,
      charge, serial, exclusive, inaccessible, fouled} \subseteq BOOLEAN
  /\ machinePath \in Paths
  /\ txnFailures \in 0..MaxFailures + 1
  /\ countdown \in 0..Countdown /\ readRetries \in 0..ReadRetryMax
  /\ ref \in Commands /\ stage \in {"write", "read"}
  /\ attempts \in 0..RetryAttempts /\ buffer \in Commands \cup Clients
  /\ onBus \in BOOLEAN /\ behind \subseteq extBus /\ extBus \subseteq Clients
  /\ asleep \subseteq Clients
  /\ thr \in [Threads ->
       [pc : {"idle", "poll", "complete", "gated", "next", "finish", "finished",
              "ack"},
        cs : Commands \cup {Restart}, ok : BOOLEAN,
        type : Paths \cup {kUseLastPath}, whole : BOOLEAN, timeout : BOOLEAN]]

\* What is published as a battery register was never read for a client, although both
\* use fTransaction and the client gets the bus while a poll is under way
\* (smbusCompletion, smbusExternalTransaction).  Three things break that: clients that
\* are not exclusive, a second thread of the exclusive one, and a request that fails
\* after it has filled fTransaction, when the transaction of the poll is outstanding.
NoForeignData ==
  Plain = {} /\ (\A x, y \in Clients : x = y) /\ ~fouled =>
  LET r == thr[Gate]
  IN r.pc = "gated" /\ r.ok /\ r.cs # Restart => buffer \notin Clients

\* No battery, no data: from the notification that the battery was removed to
\* the next insertion nothing of it is published, whatever reads were on the
\* way (handleBatteryRemoved).
NoGhostBattery == inaccessible => ~present /\ ~charge

\* A poll that neither a removal nor a sleep disturbed never waits with nobody
\* to end it: its watchdog is armed, or a thread is on its way
\* (fBatteryReadAllTimer).
PollIsWatched ==
  pollingNow /\ ~cancelPolling /\ ~slept /\ (\A t \in Threads : thr[t].pc = "idle")
    => timer
=============================================================================
