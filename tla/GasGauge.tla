------------------------------ MODULE GasGauge ------------------------------
(***************************************************************************)
(* Updating the firmware of the gas gauge,                                 *)
(* AppleSmartBatteryManager/AppleGasGaugeUpdate.cpp.  A call of the update *)
(* service is a script of exchanges with the SMC: put data into the key    *)
(* BFUD, a command into BFUC, sleep until the SMC notifies or ten seconds  *)
(* are over, look at the status of the last notification, then read BFUD   *)
(* or poll the status of the updater in the gauge.                         *)
(*                                                                         *)
(* A call holds the command gate except while it sleeps; notifications     *)
(* come through a thread call that keeps one of them, and may be lost or   *)
(* late.  The SMC and the gauge are modelled from how they are used.       *)
(***************************************************************************)
EXTENDS Integers, Sequences, FiniteSets

CONSTANTS
  Clients,       \* user clients of the service
  Whats,         \* the calls they make
  Bytes,         \* length of what they send
  MaxRetries,    \* polls after the first, max_retries
  TwoStage,      \* does the gauge support updates in two stages?
  MaxFaults      \* bound: failures of the SMC, the bus, the gauge; lost notifications

Images == {"firmware", "config", "dnvd"}
Signed == {"certificate", "manifest"}
Sent == Images \cup Signed \cup {"digest"}

ASSUME GasGaugeAssumption ==
  /\ Whats \subseteq Sent \cup {"info", "start", "commit"}
  /\ Bytes \in Nat \ {0} /\ MaxRetries \in Nat /\ MaxFaults \in Nat
  /\ TwoStage \in BOOLEAN

VARIABLES
  call,          \* the call of each client and how far it is
  ggTwoStageUpdate,
  received,      \* _receivedNotificationStatus
  slot,          \* the notification the thread call is going to handle
  bfud, bfuc,    \* the keys: data, and the command the SMC has not carried out
  gauge,         \* the updater in the gauge
  faults,        \* how many failures there were
  late           \* history: has an answer come after the time for it was over?
vars == <<call, ggTwoStageUpdate, received, slot, bfud, bfuc, gauge, faults, late>>

Value(k, v) == [k |-> k, v |-> v]
None == Value("none", 0)
NoNotice == [op |-> "none", i2c |-> FALSE, error |-> FALSE]
Idle == [what |-> "none", i |-> 0, at |-> "idle", polling |-> FALSE, retry |-> 0,
         read |-> {}, result |-> "none"]

-----------------------------------------------------------------------------
(* What a call does: exchanges with an operation, data that goes with it, and *)
(* either the states of the updater to wait for or the data to read.         *)

Exchange(op, data, expect) == [op |-> op, data |-> data, expect |-> expect]
Ready == {"ready"}
Reads(op) == <<Exchange(op, None, {})>>

_initUpdateGated == <<Exchange("startUpdate", None, Ready)>>
_getBatteryIdGated == Reads("uid")
_getChallengeDataGated == Reads("nonce")
_startUpdateGated == _initUpdateGated \o _getBatteryIdGated \o _getChallengeDataGated
_commitImageGated == <<Exchange("commit", None, {"success"})>>
_getInfoGated == Reads("info") \o Reads("info2")

_startImageGated(type) == <<Exchange("startImage", Value(type, 0), Ready)>>
_startCryptoGated == <<Exchange("startCrypto", Value("types", 0), Ready)>>
_writeDataLengthGated(op, length, expect) ==
  <<Exchange(op, Value("length", length % 65536), expect)>>
_writeDataSignatureGated ==
  <<Exchange("sign1", Value("signature", 1), Ready),
    Exchange("sign2", Value("signature", 2), Ready)>>

\* Blocks of 32 bytes, the last one filled up.
Blocks == (Bytes + 31) \div 32
_writeDataDataGated(op) == [i \in 1..Blocks |-> Exchange(op, Value("block", i), Ready)]

\* The state in which the updater must be at first, and after an image.
FirstStates(type) == IF type \in Images THEN {"ready", "success", "reset"} ELSE Ready
FinalState(type, two) ==
  IF two THEN "ready" ELSE IF type = "dnvd" THEN "success" ELSE "reset"

\* _writeDataGated, with the operations _writeImage and the others choose.
_writeDataGated(type) ==
  <<Exchange("status", None, FirstStates(type))>> \o
  IF type \in Images
  THEN _startImageGated(type) \o _writeDataDataGated("data")
         \o _writeDataLengthGated("done", Blocks, {FinalState(type, ggTwoStageUpdate)})
  ELSE _writeDataLengthGated("length", Bytes, Ready) \o _writeDataDataGated("data")
         \o IF type = "digest" THEN _startCryptoGated ELSE _writeDataSignatureGated

\* externalMethod, _sendData.
Script(what) ==
  CASE what = "info" -> _getInfoGated
    [] what = "start" -> _startUpdateGated
    [] what = "commit" -> _commitImageGated
    [] OTHER -> _writeDataGated(what)

-----------------------------------------------------------------------------
(* Steps of a call, each up to the next sleep or the return.                *)

\* Mutant: a gauge that does not acknowledge goes unnoticed.
OperationOnly(op) ==
  IF received.op # op THEN "mismatch" ELSE IF received.error THEN "updater" ELSE "none"

\* What is wrong with the last notification; its operation comes first.
_checkOperationStatus(op) ==
  IF received.op # op THEN "mismatch"
  ELSE IF received.i2c THEN "i2c"
  ELSE IF received.error THEN "updater" ELSE "none"

Fails(n) == faults + n <= MaxFaults /\ faults' = faults + n

Return(c, r, why) ==
  /\ call' = [call EXCEPT ![c] =
       [Idle EXCEPT !.what = r.what, !.read = r.read,
                    !.result = IF why = "none" THEN "success" ELSE "failed"]]
  /\ UNCHANGED <<bfud, bfuc>>

\* _smcWriteKey, for the data if there are any and for the command: five retries
\* may be in vain.
Write(c, r, op, data, ok) ==
  \/ /\ ok
     /\ call' = [call EXCEPT ![c] = [r EXCEPT !.at = "sleep"]]
     /\ bfud' = IF data = None THEN bfud ELSE data
     /\ bfuc' = op
     /\ UNCHANGED faults
  \/ ~ok /\ Fails(1) /\ Return(c, r, "write")

Poll(c, r, ok) == Write(c, [r EXCEPT !.polling = TRUE], "status", None, ok)

\* The exchange at place i, or success after the last; the first of a transfer only
\* polls.
Go(c, r, i, ok) ==
  LET s == Script(r.what)
      e == s[i]
      n == [r EXCEPT !.i = i, !.polling = FALSE, !.retry = 0]
  IN IF i > Len(s) THEN ok /\ Return(c, r, "none") /\ UNCHANGED faults
     ELSE IF e.op = "status" THEN Poll(c, n, ok)
     ELSE Write(c, n, e.op, e.data, ok)

Call(c, what, ok) ==
  /\ call[c].at = "idle"
  /\ Go(c, [Idle EXCEPT !.what = what], 1, ok)
  /\ UNCHANGED <<ggTwoStageUpdate, received, slot, gauge, late>>

\* After the sleep for a command, woken or not; readable says whether BFUD can be
\* read, if that is what comes next.
Answered(c, readable, ok) ==
  LET r == call[c]
      e == Script(r.what)[r.i]
      why == _checkOperationStatus(e.op)
  IN /\ r.at \in {"woken", "timeout"} /\ ~r.polling
     /\ \/ why # "none" /\ readable /\ ok /\ Return(c, r, why) /\ UNCHANGED faults
        \/ why = "none" /\ e.expect # {} /\ readable /\ Poll(c, r, ok)
        \/ /\ why = "none" /\ e.expect = {} /\ readable
           /\ Go(c, [r EXCEPT !.read = @ \cup {bfud.k}], r.i + 1, ok)
        \/ /\ why = "none" /\ e.expect = {} /\ ~readable /\ ok
           /\ Fails(1) /\ Return(c, r, "read")
     /\ ggTwoStageUpdate' = IF why = "none" /\ e.op = "info2" /\ readable
                            THEN TwoStage ELSE ggTwoStageUpdate
     /\ UNCHANGED <<received, slot, gauge, late>>

\* Mutant: a poll without a good answer does not count.
RetryUncounted(r, good) == [r EXCEPT !.retry = IF good THEN @ + 1 ELSE @]

\* The condition of the loop, retry++ < max_retries.
MayPoll(retry) == retry < MaxRetries
Retried(r, good) == [r EXCEPT !.retry = @ + 1]

\* _pollUpdaterStatus, after a sleep: without a good answer, or with a busy updater,
\* it polls again while it may, and then the updater counts as busy.
_pollUpdaterStatus(c, readable, ok) ==
  LET r == call[c]
      expect == Script(r.what)[r.i].expect
      good == r.at = "woken" /\ _checkOperationStatus("status") = "none"
      status == IF good THEN bfud.k ELSE "busy"
  IN /\ r.at \in {"woken", "timeout"} /\ r.polling
     /\ \/ /\ good /\ ~readable /\ ok /\ Fails(1) /\ Return(c, r, "read")
        \/ /\ readable /\ status = "busy" /\ MayPoll(r.retry)
           /\ Poll(c, Retried(r, good), ok)
        \/ /\ readable /\ status = "busy" /\ ~MayPoll(r.retry)
           /\ ok /\ Return(c, r, "status") /\ UNCHANGED faults
        \/ /\ readable /\ status # "busy"
           /\ IF status \in expect THEN Go(c, r, r.i + 1, ok)
              ELSE ok /\ Return(c, r, "status") /\ UNCHANGED faults
     /\ UNCHANGED <<ggTwoStageUpdate, received, slot, gauge, late>>

Resume(c) ==
  \E readable, ok \in BOOLEAN : Answered(c, readable, ok) \/ _pollUpdaterStatus(c, readable, ok)

\* SMC_RESP_TIMEOUT is over: the answer is lost, or on its way.
Timeout(c) ==
  /\ call[c].at = "sleep"
  /\ call' = [call EXCEPT ![c].at = "timeout"]
  /\ late' = (late \/ bfuc # "none" \/ slot # NoNotice)
  /\ UNCHANGED <<ggTwoStageUpdate, received, slot, bfud, bfuc, gauge, faults>>

\* _smcGgFwUpdNotifierHandlerThreadGated: the status is kept and whoever sleeps is
\* woken.
Notified ==
  /\ slot # NoNotice
  /\ slot' = NoNotice
  /\ received' = slot
  /\ call' = [c \in Clients |-> IF call[c].at = "sleep"
                                THEN [call[c] EXCEPT !.at = "woken"] ELSE call[c]]
  /\ UNCHANGED <<ggTwoStageUpdate, bfud, bfuc, gauge, faults, late>>

-----------------------------------------------------------------------------
(* The SMC and the gauge.                                                   *)

\* _smcGgFwUpdNotifierHandler: a thread call that has not run takes the newer
\* notification; and one may not come at all.
Post(n, lost) ==
  IF lost THEN Fails(1) /\ UNCHANGED slot
  ELSE slot' = n /\ UNCHANGED faults

Works(state) == [gauge EXCEPT !.busy = TRUE, !.state = state]

\* The command is carried out.
Carry(op, type) ==
  CASE op = "startUpdate" -> [Works("ready") EXCEPT !.got = <<>>, !.kind = "none"]
    [] op = "startImage" -> [Works("ready") EXCEPT !.got = <<>>, !.kind = bfud.k]
    [] op = "length" -> [Works("ready") EXCEPT !.got = <<>>, !.kind = "data"]
    [] op = "data" -> [Works("ready") EXCEPT !.got = Append(@, bfud)]
    [] op = "done" -> Works(IF bfud.v = Len(gauge.got) THEN FinalState(type, TwoStage)
                            ELSE "error")
    [] op = "commit" -> Works("success")
    [] op \in {"sign1", "sign2", "startCrypto"} -> Works("ready")
    [] OTHER -> gauge

Execute(lost) ==
  /\ bfuc # "none"
  /\ bfuc' = "none"
  /\ gauge' = Carry(bfuc, gauge.kind)
  /\ bfud' = IF bfuc = "status" THEN Value(IF gauge.busy THEN "busy" ELSE gauge.state, 0)
             ELSE IF bfuc \in {"info", "info2", "uid", "nonce"} THEN Value(bfuc, 0)
             ELSE bfud
  /\ Post([op |-> bfuc, i2c |-> FALSE, error |-> gauge.state = "error"], lost)
  /\ UNCHANGED <<call, ggTwoStageUpdate, received, late>>

\* The gauge does not acknowledge.
Nack ==
  /\ bfuc # "none"
  /\ bfuc' = "none"
  /\ slot' = [op |-> bfuc, i2c |-> TRUE, error |-> FALSE]
  /\ Fails(1)
  /\ UNCHANGED <<call, ggTwoStageUpdate, received, bfud, gauge, late>>

GaugeDone(ok) ==
  /\ gauge.busy
  /\ gauge' = [gauge EXCEPT !.busy = FALSE, !.state = IF ok THEN @ ELSE "error"]
  /\ IF ok THEN UNCHANGED faults ELSE Fails(1)
  /\ UNCHANGED <<call, ggTwoStageUpdate, received, slot, bfud, bfuc, late>>

-----------------------------------------------------------------------------
Init ==
  /\ call = [c \in Clients |-> Idle]
  /\ ggTwoStageUpdate = FALSE
  /\ received = NoNotice /\ slot = NoNotice
  /\ bfud = None /\ bfuc = "none"
  /\ gauge = [state |-> "ready", busy |-> FALSE, kind |-> "none", got |-> <<>>]
  /\ faults = 0 /\ late = FALSE

Next ==
  \/ \E c \in Clients : \/ \E what \in Whats, ok \in BOOLEAN : Call(c, what, ok)
                        \/ Resume(c)
                        \/ Timeout(c)
  \/ Notified
  \/ \E lost \in BOOLEAN : Execute(lost)
  \/ Nack
  \/ \E ok \in BOOLEAN : GaugeDone(ok)

Spec == Init /\ [][Next]_vars

\* A thread that is awake runs, and none sleeps beyond its deadline.
FairSpec == Spec /\ \A c \in Clients : WF_vars(Resume(c)) /\ WF_vars(Timeout(c))
-----------------------------------------------------------------------------
Ops == {"none", "status", "startUpdate", "uid", "nonce", "info", "info2", "startImage", "length",
        "data", "done", "startCrypto", "sign1", "sign2", "commit"}
States == {"ready", "success", "reset", "error"}
Kinds == Images \cup States \cup
         {"none", "busy", "uid", "nonce", "info", "info2", "length", "block", "types", "signature"}
Notices == [op : Ops, i2c : BOOLEAN, error : BOOLEAN]

\* The types of the variables; a call never polls more often than max_retries.
TypeOK ==
  /\ \A c \in Clients :
       /\ call[c].what \in Whats \cup {"none"} /\ call[c].at \in {"idle", "sleep", "woken", "timeout"}
       /\ call[c].retry \in 0..MaxRetries
       /\ call[c].at # "idle" => call[c].i \in DOMAIN Script(call[c].what)
       /\ call[c].result \in {"none", "success", "failed"}
  /\ ggTwoStageUpdate \in BOOLEAN
  /\ received \in Notices /\ slot \in Notices
  /\ bfud \in [k : Kinds, v : Nat] /\ bfuc \in Ops
  /\ gauge.busy \in BOOLEAN /\ gauge.state \in States
  /\ faults \in 0..MaxFaults /\ late \in BOOLEAN

Transferred == [i \in 1..Blocks |-> Value("block", i)]

\* As long as no answer comes after its ten seconds, a call that reports success has
\* done what it was for, whatever was lost, refused or failed: the gauge holds every
\* block once and in order and is in the state that was asked for, and what was read is
\* the answer to the call's own operations.  It rests on the poll after each command,
\* which leaves the status of another operation for a command whose notification is
\* lost (_checkOperationStatus, _pollUpdaterStatus).
SuccessIsReal ==
  \A c \in Clients : ~late /\ call[c].at = "idle" /\ call[c].result = "success" =>
    CASE call[c].what = "start" -> call[c].read = {"uid", "nonce"}
      [] call[c].what = "info" -> call[c].read = {"info", "info2"}
      [] call[c].what = "commit" -> gauge.state = "success" /\ ~gauge.busy
      [] OTHER -> /\ gauge.got = Transferred /\ ~gauge.busy
                  /\ call[c].what \in Images =>
                       /\ gauge.kind = call[c].what
                       /\ gauge.state = FinalState(call[c].what, TwoStage)

\* A call returns: there is an end to polling a gauge that is busy, silent or does not
\* acknowledge (_pollUpdaterStatus).
CallReturns == \A c \in Clients : (call[c].at # "idle") ~> (call[c].at = "idle")
=============================================================================
