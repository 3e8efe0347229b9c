------------------------- MODULE AsyncClientsProofs -------------------------
(***************************************************************************)
(* Proofs about AsyncClients, for any set of clients and any bounds.  The  *)
(* inductive invariant adds to the properties how the two rounds use their *)
(* tokens: a round is open exactly while somebody is pending, its token is *)
(* the last one given out, and a token that was not given out yet is       *)
(* carried by no message.                                                  *)
(***************************************************************************)
EXTENDS AsyncClients, TLAPS

\* The sleep check: how token, pending set and blocker count belong together.
CheckRound ==
  /\ ackToken <= asked
  /\ ackToken = NoToken <=> pending = {}
  /\ \A p \in Pids, t \in SleepTokens : t > asked => check[p][t] = "none"
  /\ ackToken # NoToken =>
       (blockers > 0 <=> \E p \in Pids : check[p][ackToken] = "gotYes")

\* The activity update: a message of the open round that was not read yet has a
\* reference to return.  The handler relies on it: it does not look the sender up.
UpdateRound ==
  /\ lastToken = requests /\ requests <= MaxUpdate
  /\ updToken # NoToken => updToken = lastToken
  /\ updToken = NoToken <=> updPending = {}
  /\ \A p \in Pids, t \in UpdateTokens : t > lastToken => update[p][t] = "none"
  /\ updToken # NoToken => \A p \in Pids :
       update[p][updToken] \in {"asked", "data", "over", "error"} => p \in updPending

IndInv == /\ TypeOK /\ RetainBalanced /\ AnsweredOnce /\ DeadHoldNothing
          /\ CheckRound /\ UpdateRound

-----------------------------------------------------------------------------
(* ProcessInfo.                                                             *)

InfoOK(info) == info \in InfoType /\ (info.retain = 0 => info = NoInfo)

\* The fields that handlers set leave the count alone.
LEMMA FieldsFact ==
  ASSUME NEW info \in InfoType
  PROVE  /\ info.retain \in Nat
         /\ [info EXCEPT !.remote = TRUE] \in InfoType
         /\ [info EXCEPT !.remote = TRUE].retain = info.retain
         /\ [info EXCEPT !.suspended = ~@] \in InfoType
         /\ [info EXCEPT !.suspended = ~@].retain = info.retain
         /\ [info EXCEPT !.exited = TRUE, !.remote = FALSE] \in InfoType
         /\ [info EXCEPT !.exited = TRUE, !.remote = FALSE].retain = info.retain
BY DEF InfoType

\* Taking a reference adds one, to an entry that exists or is made.
LEMMA RetainFact ==
  ASSUME ProcTypeOK, NEW p \in Pids
  PROVE  InfoOK(processInfoRetain(p)) /\ processInfoRetain(p).retain = proc[p].retain + 1
<1>1. proc[p] \in InfoType
  BY DEF ProcTypeOK
<1>2. proc[p].retain \in Nat
  BY <1>1 DEF InfoType
<1>3. CASE Known(p)
  <2> DEFINE i == [proc[p] EXCEPT !.retain = @ + 1]
  <2>1. i \in InfoType /\ i.retain = proc[p].retain + 1
    BY <1>1, <1>2 DEF InfoType
  <2> QED
    BY <1>2, <1>3, <2>1 DEF InfoOK, processInfoRetain
<1>4. CASE ~Known(p)
  <2>1. NewInfo \in InfoType /\ NewInfo.retain = 1
    BY DEF NewInfo, NoInfo, InfoType
  <2> QED
    BY <1>2, <1>4, <2>1 DEF InfoOK, processInfoRetain, Known
<1> QED
  BY <1>3, <1>4

\* Returning n references takes n away, and never goes below zero.
LEMMA ReleaseFact ==
  ASSUME NEW info \in InfoType, NEW n \in Nat
  PROVE  /\ InfoOK(processInfoRelease(info, n))
         /\ processInfoRelease(info, n).retain =
              IF info.retain <= n THEN 0 ELSE info.retain - n
BY DEF InfoOK, InfoType, processInfoRelease, NoInfo

\* The loop of a round that starts.
LEMMA RetainAllFact ==
  ASSUME ProcTypeOK, NEW S \in SUBSET Pids
  PROVE  /\ RetainAll(S) \in [Pids -> InfoType]
         /\ \A p \in Pids : InfoOK(RetainAll(S)[p])
         /\ \A p \in Pids : RetainAll(S)[p].retain = proc[p].retain + One(p \in S)
BY RetainFact DEF ProcTypeOK, RetainAll, InfoOK, One, InfoType

\* The loop of a round that ends: of those it waited for, one reference each.
LEMMA ReleaseAllFact ==
  ASSUME ProcTypeOK, NEW S \in SUBSET Pids, \A p \in S : proc[p].retain > 0
  PROVE  /\ ReleaseAll(S) \in [Pids -> InfoType]
         /\ \A p \in Pids : InfoOK(ReleaseAll(S)[p])
         /\ \A p \in Pids : ReleaseAll(S)[p].retain = proc[p].retain - One(p \in S)
<1>1. ASSUME NEW p \in Pids, p \in S
      PROVE  /\ InfoOK(processInfoRelease(proc[p], 1))
             /\ processInfoRelease(proc[p], 1).retain = proc[p].retain - 1
  BY <1>1, ReleaseFact DEF ProcTypeOK, InfoType
<1>2. ASSUME NEW p \in Pids
      PROVE  InfoOK(proc[p]) /\ proc[p].retain \in Nat
  BY DEF ProcTypeOK, InfoType, InfoOK
<1> QED
  BY <1>1, <1>2 DEF ReleaseAll, One, InfoOK

-----------------------------------------------------------------------------
\* The empty process table, and no round.
LEMMA InitInv == Init => IndInv
<1> SUFFICES ASSUME Init PROVE IndInv
  OBVIOUS
<1> USE BoundsAssumption, NoTokenReuse DEF BoundsAssumption, NoTokenReuse
<1>1. ProcTypeOK
  <2>1. NoInfo \in InfoType
    BY DEF NoInfo, InfoType
  <2> QED
    BY <2>1 DEF Init, ProcTypeOK
<1>2. SleepTypeOK
  <2>1. [allowed |-> 0, cancelled |-> 0] \in [allowed : Nat, cancelled : Nat]
    OBVIOUS
  <2>2. verdict \in [0..MaxSleep -> [allowed : Nat, cancelled : Nat]]
    BY <2>1 DEF Init
  <2>3. check \in [Pids -> [SleepTokens -> CheckStatus]]
    BY DEF Init, CheckStatus
  <2>4. asked \in 0..MaxSleep /\ ackToken \in 0..MaxSleep /\ blockers \in Nat
    BY DEF Init, NoToken
  <2>5. sleepTimer \in BOOLEAN /\ pending \subseteq Pids
    BY DEF Init
  <2> QED
    BY <2>2, <2>3, <2>4, <2>5 DEF SleepTypeOK
<1>3. UpdateTypeOK
  <2>1. NoReport \in [count : Nat, token : 0..UInt32Max, actives : SUBSET Pids,
                      timedOut : SUBSET Pids, overflow : BOOLEAN]
    BY DEF NoReport, NoToken
  <2>2. update \in [Pids -> [UpdateTokens -> UpdateStatus]]
    BY DEF Init, UpdateStatus
  <2>3. updToken \in 0..UInt32Max /\ lastToken \in 0..UInt32Max /\ requests \in Nat
    BY DEF Init, NoToken
  <2>4. updActives \in BOOLEAN /\ overflow \in BOOLEAN /\ updTimer \in BOOLEAN
    BY DEF Init
  <2>5. updPending \subseteq Pids /\ actives \subseteq Pids /\ report = NoReport
    BY DEF Init
  <2> QED
    BY <2>1, <2>2, <2>3, <2>4, <2>5 DEF UpdateTypeOK
<1>4. RetainBalanced /\ AnsweredOnce /\ DeadHoldNothing
  BY DEF Init, RetainBalanced, AnsweredOnce, DeadHoldNothing, NoInfo, NoToken, One
<1>5. CheckRound /\ UpdateRound
  BY DEF Init, CheckRound, UpdateRound, NoToken
<1> QED
  BY <1>1, <1>2, <1>3, <1>4, <1>5 DEF IndInv, TypeOK

-----------------------------------------------------------------------------
(* The process table: these handlers touch no round.                        *)

\* What is left to show of a step that touches no round.
LEMMA ProcStep ==
  ASSUME IndInv, UNCHANGED <<sleepVars, updateVars>>,
         ProcTypeOK', RetainBalanced', DeadHoldNothing'
  PROVE  IndInv'
<1>1. SleepTypeOK' /\ UpdateTypeOK'
  BY DEF IndInv, TypeOK, SleepTypeOK, UpdateTypeOK, sleepVars, updateVars
<1>2. AnsweredOnce'
  BY DEF IndInv, AnsweredOnce, sleepVars, One
<1>3. CheckRound' /\ UpdateRound'
  BY DEF IndInv, CheckRound, UpdateRound, sleepVars, updateVars
<1> QED
  BY <1>1, <1>2, <1>3 DEF IndInv, TypeOK

\* What a step does to the entry of one process.
LEMMA OneEntry ==
  ASSUME ProcTypeOK, RetainBalanced, NEW p \in Pids, NEW info, InfoOK(info),
         proc' = [proc EXCEPT ![p] = info],
         NEW n \in Nat, held' = [held EXCEPT ![p] = n],
         NEW k \in Nat, leaked' = [leaked EXCEPT ![p] = k],
         info.retain - proc[p].retain = (n - held[p]) + (k - leaked[p]),
         alive' \subseteq Pids, exitEvent' \in [Pids -> {"none", "exit", "late"}],
         UNCHANGED <<pending, updPending>>
  PROVE  ProcTypeOK' /\ RetainBalanced'
<1>1. ProcTypeOK'
  BY DEF ProcTypeOK, InfoOK
<1>2. ASSUME NEW q \in Pids
      PROVE  /\ proc[q].retain \in Nat /\ held[q] \in Nat /\ leaked[q] \in Nat
             /\ proc'[q].retain \in Nat
  BY <1>1 DEF ProcTypeOK, InfoType
<1>3. ASSUME NEW q \in Pids
      PROVE  proc'[q].retain =
               held'[q] + leaked'[q] + One(q \in pending') + One(q \in updPending')
  <2>1. proc[q].retain = held[q] + leaked[q] + One(q \in pending) + One(q \in updPending)
    BY DEF RetainBalanced
  <2>2. One(q \in pending) \in Nat /\ One(q \in updPending) \in Nat
    BY DEF One
  <2>3. CASE q = p
    BY <1>2, <2>1, <2>2, <2>3 DEF ProcTypeOK
  <2>4. CASE q # p
    BY <2>1, <2>4 DEF ProcTypeOK
  <2> QED
    BY <2>3, <2>4
<1> QED
  BY <1>1, <1>3 DEF RetainBalanced

\* The reference the connection takes is counted as one never returned.
LEMMA InitialConnectionInv ==
  ASSUME IndInv, NEW p \in Pids, asyncAssertionInitialConnection(p)
  PROVE  IndInv'
<1> DEFINE old == processInfoRetain(p)
           new == [old EXCEPT !.remote = TRUE]
<1>1. ProcTypeOK /\ RetainBalanced /\ DeadHoldNothing
  BY DEF IndInv, TypeOK
<1>2. InfoOK(old) /\ old.retain = proc[p].retain + 1 /\ proc[p].retain \in Nat
  BY <1>1, RetainFact DEF ProcTypeOK, InfoType
<1>3. InfoOK(new) /\ new.retain = proc[p].retain + 1
  <2>1. old \in InfoType
    BY <1>2 DEF InfoOK
  <2>2. new \in InfoType /\ new.retain = old.retain
    <3> HIDE DEF old
    <3> QED
      BY <2>1, FieldsFact
  <2> HIDE DEF new
  <2> QED
    BY <1>2, <2>2 DEF InfoOK
<1>4. held' = [held EXCEPT ![p] = held[p]] /\ held[p] \in Nat /\ leaked[p] \in Nat
  BY <1>1 DEF asyncAssertionInitialConnection, ProcTypeOK
<1>5. leaked' = [leaked EXCEPT ![p] = leaked[p] + 1] /\ proc' = [proc EXCEPT ![p] = new]
  BY DEF asyncAssertionInitialConnection
<1>6. UNCHANGED <<sleepVars, updateVars, alive, exitEvent, held, pending, updPending>>
  BY DEF asyncAssertionInitialConnection, sleepVars, updateVars
<1>7. ProcTypeOK' /\ RetainBalanced'
  <2>1. alive' \subseteq Pids /\ exitEvent' \in [Pids -> {"none", "exit", "late"}]
    BY <1>1, <1>6 DEF ProcTypeOK
  <2>2. leaked[p] + 1 \in Nat
    BY <1>4
  <2>3. new.retain - proc[p].retain = (held[p] - held[p]) + ((leaked[p] + 1) - leaked[p])
    BY <1>2, <1>3, <1>4
  <2> HIDE DEF new
  <2> QED
    BY <1>1, <1>3, <1>4, <1>5, <1>6, <2>1, <2>2, <2>3, OneEntry
<1>8. DeadHoldNothing'
  BY <1>1, <1>6 DEF DeadHoldNothing
<1> QED
  BY <1>6, <1>7, <1>8, ProcStep

\* The reference goes to the new assertion, or nowhere when it is refused.
LEMMA CreateInv ==
  ASSUME IndInv, NEW p \in Pids, asyncAssertionCreate(p)
  PROVE  IndInv'
<1> DEFINE new == IF Known(p) THEN processInfoRetain(p) ELSE [NewInfo EXCEPT !.remote = TRUE]
           n == IF proc[p].suspended THEN held[p] ELSE held[p] + 1
           k == IF proc[p].suspended THEN leaked[p] + 1 ELSE leaked[p]
<1>1. ProcTypeOK /\ RetainBalanced /\ DeadHoldNothing
  BY DEF IndInv, TypeOK
<1>2. /\ proc[p].retain \in Nat /\ held[p] \in Nat /\ leaked[p] \in Nat
      /\ DOMAIN held = Pids /\ DOMAIN leaked = Pids
  BY <1>1 DEF ProcTypeOK, InfoType
<1>3. InfoOK(new) /\ new.retain = proc[p].retain + 1
  <2>1. CASE Known(p)
    BY <1>1, <2>1, RetainFact
  <2>2. CASE ~Known(p)
    <3>1. proc[p].retain = 0
      BY <1>2, <2>2 DEF Known
    <3>2. NewInfo \in InfoType /\ NewInfo.retain = 1
      BY DEF NewInfo, NoInfo, InfoType
    <3>3. [NewInfo EXCEPT !.remote = TRUE] \in InfoType
      BY <3>2, FieldsFact
    <3>4. [NewInfo EXCEPT !.remote = TRUE].retain = 1
      BY <3>2, FieldsFact
    <3> QED
      BY <2>2, <3>1, <3>3, <3>4 DEF InfoOK
  <2> QED
    BY <2>1, <2>2
<1>4. proc' = [proc EXCEPT ![p] = new]
  BY DEF asyncAssertionCreate
<1>5. held' = [held EXCEPT ![p] = n] /\ leaked' = [leaked EXCEPT ![p] = k]
  BY <1>1 DEF asyncAssertionCreate, ProcTypeOK
<1>6. UNCHANGED <<sleepVars, updateVars, alive, exitEvent, pending, updPending>>
  BY DEF asyncAssertionCreate, sleepVars, updateVars
<1>7. ProcTypeOK' /\ RetainBalanced'
  <2>1. alive' \subseteq Pids /\ exitEvent' \in [Pids -> {"none", "exit", "late"}]
    BY <1>1, <1>6 DEF ProcTypeOK
  <2>2. n \in Nat /\ k \in Nat /\ (n - held[p]) + (k - leaked[p]) = 1
    BY <1>2
  <2>3. new.retain - proc[p].retain = (n - held[p]) + (k - leaked[p])
    <3> HIDE DEF new, n, k
    <3> QED
      BY <1>2, <1>3, <2>2
  <2> HIDE DEF new, n, k
  <2> QED
    BY <1>1, <1>3, <1>4, <1>5, <1>6, <2>1, <2>2, <2>3, OneEntry
<1>8. DeadHoldNothing'
  BY <1>1, <1>2, <1>5, <1>6 DEF DeadHoldNothing, asyncAssertionCreate, Talks
<1> QED
  BY <1>6, <1>7, <1>8, ProcStep

\* A released assertion returns its reference.
LEMMA ReleaseInv ==
  ASSUME IndInv, NEW p \in Pids, asyncAssertionRelease(p)
  PROVE  IndInv'
<1> DEFINE new == processInfoRelease(proc[p], 1)
<1>1. ProcTypeOK /\ RetainBalanced /\ DeadHoldNothing
  BY DEF IndInv, TypeOK
<1>2. /\ proc[p] \in InfoType /\ proc[p].retain \in Nat
      /\ held[p] \in Nat /\ leaked[p] \in Nat /\ held[p] > 0
  BY <1>1 DEF ProcTypeOK, InfoType, asyncAssertionRelease
<1>3. proc[p].retain > 0
  BY <1>1, <1>2 DEF RetainBalanced, One
<1>4. InfoOK(new) /\ new.retain = proc[p].retain - 1
  BY <1>2, <1>3, ReleaseFact
<1>5. /\ proc' = [proc EXCEPT ![p] = new]
      /\ held' = [held EXCEPT ![p] = held[p] - 1]
      /\ leaked' = [leaked EXCEPT ![p] = leaked[p]]
  BY <1>1 DEF asyncAssertionRelease, ProcTypeOK
<1>6. UNCHANGED <<sleepVars, updateVars, alive, exitEvent, pending, updPending>>
  BY DEF asyncAssertionRelease, sleepVars, updateVars
<1>7. ProcTypeOK' /\ RetainBalanced'
  <2>1. alive' \subseteq Pids /\ exitEvent' \in [Pids -> {"none", "exit", "late"}]
    BY <1>1, <1>6 DEF ProcTypeOK
  <2>2. held[p] - 1 \in Nat
    BY <1>2
  <2>3. new.retain - proc[p].retain = ((held[p] - 1) - held[p]) + (leaked[p] - leaked[p])
    <3> HIDE DEF new
    <3> QED
      BY <1>2, <1>4
  <2> HIDE DEF new
  <2> QED
    BY <1>1, <1>2, <1>4, <1>5, <1>6, <2>1, <2>2, <2>3, OneEntry
<1>8. DeadHoldNothing'
  BY <1>1, <1>2, <1>5, <1>6 DEF DeadHoldNothing, ProcTypeOK
<1> QED
  BY <1>6, <1>7, <1>8, ProcStep

\* Suspending a process takes no reference.
LEMMA SetStateInv ==
  ASSUME IndInv, NEW p \in Pids, processSetAssertionState(p)
  PROVE  IndInv'
<1> DEFINE new == [proc[p] EXCEPT !.suspended = ~@]
<1>1. ProcTypeOK /\ RetainBalanced /\ DeadHoldNothing
  BY DEF IndInv, TypeOK
<1>2. /\ proc[p] \in InfoType /\ proc[p].retain \in Nat
      /\ held[p] \in Nat /\ leaked[p] \in Nat /\ proc[p].retain > 0
  BY <1>1 DEF ProcTypeOK, InfoType, processSetAssertionState, Known
<1>3. new \in InfoType /\ new.retain = proc[p].retain
  BY <1>2, FieldsFact
<1>4. proc' = [proc EXCEPT ![p] = new]
  BY <1>1 DEF processSetAssertionState, ProcTypeOK
<1>5. UNCHANGED <<sleepVars, updateVars, alive, exitEvent, held, leaked, pending, updPending>>
  BY DEF processSetAssertionState, sleepVars, updateVars
<1>6. ProcTypeOK' /\ RetainBalanced'
  <2>1. alive' \subseteq Pids /\ exitEvent' \in [Pids -> {"none", "exit", "late"}]
    BY <1>1, <1>5 DEF ProcTypeOK
  <2>2. /\ held' = [held EXCEPT ![p] = held[p]]
        /\ leaked' = [leaked EXCEPT ![p] = leaked[p]]
    BY <1>1, <1>5 DEF ProcTypeOK
  <2> HIDE DEF new
  <2>3. InfoOK(new)
    BY <1>2, <1>3 DEF InfoOK
  <2>4. new.retain - proc[p].retain = (held[p] - held[p]) + (leaked[p] - leaked[p])
    BY <1>2, <1>3
  <2>5. UNCHANGED <<pending, updPending>>
    BY <1>5
  <2> QED
    BY <1>1, <1>2, <1>4, <2>1, <2>2, <2>3, <2>4, <2>5, OneEntry
<1>7. DeadHoldNothing'
  BY <1>1, <1>5 DEF DeadHoldNothing
<1> QED
  BY <1>5, <1>6, <1>7, ProcStep

\* A process without an entry holds nothing, so its exit may go unnoticed.
LEMMA ExitsInv ==
  ASSUME IndInv, NEW p \in Pids, ProcessExits(p)
  PROVE  IndInv'
<1> USE DEF ProcessExits
<1>1. ProcTypeOK' /\ RetainBalanced'
  BY DEF IndInv, TypeOK, ProcTypeOK, RetainBalanced, One
<1>2. DeadHoldNothing'
  <2>1. ASSUME NEW q \in Pids, q \notin alive', exitEvent'[q] = "none"
        PROVE  held'[q] = 0
    <3>1. exitEvent \in [Pids -> {"none", "exit", "late"}] /\ held[q] \in Nat
          /\ leaked[q] \in Nat /\ proc[q].retain \in Nat
      BY DEF IndInv, TypeOK, ProcTypeOK, InfoType
    <3>2. CASE q # p
      BY <2>1, <3>1, <3>2 DEF IndInv, DeadHoldNothing
    <3>3. CASE q = p
      <4>1. ~Known(p)
        BY <2>1, <3>1, <3>3
      <4>2. proc[q].retain = held[q] + leaked[q] + One(q \in pending) + One(q \in updPending)
        BY DEF IndInv, RetainBalanced
      <4>3. One(q \in pending) \in Nat /\ One(q \in updPending) \in Nat
        BY DEF One
      <4> QED
        BY <3>1, <3>3, <4>1, <4>2, <4>3 DEF Known
    <3> QED
      BY <3>2, <3>3
  <2> QED
    BY <2>1 DEF DeadHoldNothing
<1>3. SleepTypeOK' /\ UpdateTypeOK'
  <2>1. check' \in [Pids -> [SleepTokens -> CheckStatus]]
    BY DEF IndInv, TypeOK, SleepTypeOK, CheckStatus
  <2>2. update' \in [Pids -> [UpdateTokens -> UpdateStatus]]
    BY DEF IndInv, TypeOK, UpdateTypeOK, UpdateStatus
  <2> QED
    BY <2>1, <2>2 DEF IndInv, TypeOK, SleepTypeOK, UpdateTypeOK
<1>4. AnsweredOnce'
  BY DEF IndInv, AnsweredOnce, One
<1>5. CheckRound'
  <2>1. \A q \in Pids, t \in SleepTokens :
          /\ check[q][t] = "none" => check'[q][t] = "none"
          /\ check'[q][t] = "gotYes" <=> check[q][t] = "gotYes"
    BY DEF IndInv, TypeOK, SleepTypeOK
  <2>2. ackToken # NoToken => ackToken \in SleepTokens
    BY BoundsAssumption DEF IndInv, TypeOK, SleepTypeOK, SleepTokens, NoToken, BoundsAssumption
  <2> QED
    BY <2>1, <2>2 DEF IndInv, CheckRound
<1>6. UpdateRound'
  <2>1. \A q \in Pids, t \in UpdateTokens :
          /\ update[q][t] = "none" => update'[q][t] = "none"
          /\ update'[q][t] \in {"asked", "data", "over", "error"}
               => update[q][t] \in {"asked", "data", "over", "error"}
    BY DEF IndInv, TypeOK, UpdateTypeOK
  <2>2. updToken # NoToken => updToken \in UpdateTokens
    BY BoundsAssumption DEF IndInv, TypeOK, UpdateTypeOK, UpdateTokens, NoToken, BoundsAssumption
  <2> QED
    BY <2>1, <2>2 DEF IndInv, UpdateRound
<1> QED
  BY <1>1, <1>2, <1>3, <1>4, <1>5, <1>6 DEF IndInv, TypeOK

\* All assertions of the dead process go, each with its reference.
LEMMA ExitHandlerInv ==
  ASSUME IndInv, NEW p \in Pids, HandleProcessExit(p)
  PROVE  IndInv'
<1> DEFINE dead == [proc[p] EXCEPT !.exited = TRUE, !.remote = FALSE]
           new == processInfoRelease(dead, held[p])
<1>1. ProcTypeOK /\ RetainBalanced /\ DeadHoldNothing
  BY DEF IndInv, TypeOK
<1>2. /\ proc[p] \in InfoType /\ proc[p].retain \in Nat
      /\ held[p] \in Nat /\ leaked[p] \in Nat /\ proc[p].retain >= held[p]
  BY <1>1 DEF ProcTypeOK, InfoType, RetainBalanced, One
<1>3. dead \in InfoType /\ dead.retain = proc[p].retain
  BY <1>2, FieldsFact
<1>4. InfoOK(new) /\ new.retain = proc[p].retain - held[p]
  <2> HIDE DEF dead
  <2> QED
    BY <1>2, <1>3, ReleaseFact
<1>5. /\ proc' = [proc EXCEPT ![p] = new]
      /\ held' = [held EXCEPT ![p] = 0]
      /\ leaked' = [leaked EXCEPT ![p] = leaked[p]]
  BY <1>1 DEF HandleProcessExit, ProcTypeOK
<1>6. UNCHANGED <<sleepVars, updateVars, alive, pending, updPending>>
  BY DEF HandleProcessExit, sleepVars, updateVars
<1>7. ProcTypeOK' /\ RetainBalanced'
  <2>1. alive' \subseteq Pids /\ exitEvent' \in [Pids -> {"none", "exit", "late"}]
    BY <1>1, <1>6 DEF ProcTypeOK, HandleProcessExit
  <2>2. new.retain - proc[p].retain = (0 - held[p]) + (leaked[p] - leaked[p])
    <3> HIDE DEF new
    <3> QED
      BY <1>2, <1>4
  <2> HIDE DEF new
  <2> QED
    BY <1>1, <1>2, <1>4, <1>5, <1>6, <2>1, <2>2, OneEntry
<1>8. DeadHoldNothing'
  BY <1>1, <1>5, <1>6 DEF DeadHoldNothing, ProcTypeOK, HandleProcessExit
<1> QED
  BY <1>6, <1>7, <1>8, ProcStep

-----------------------------------------------------------------------------
(* The sleep check.  A handler of it leaves the other round alone, and takes *)
(* and returns references as the pending set grows and shrinks.              *)

\* What is left to show of a step of the sleep check: one reference per pending
\* process.
LEMMA SleepStep ==
  ASSUME IndInv, UNCHANGED <<alive, exitEvent, held, leaked, updateVars>>,
         proc' \in [Pids -> InfoType], \A p \in Pids : InfoOK(proc'[p]),
         \A p \in Pids : proc'[p].retain =
                           (proc[p].retain + One(p \in pending')) - One(p \in pending),
         SleepTypeOK', AnsweredOnce', CheckRound'
  PROVE  IndInv'
<1>1. ProcTypeOK' /\ DeadHoldNothing'
  BY DEF IndInv, TypeOK, ProcTypeOK, DeadHoldNothing, InfoOK
<1>2. UpdateTypeOK' /\ UpdateRound' /\ updPending' = updPending
  BY DEF IndInv, TypeOK, UpdateTypeOK, UpdateRound, updateVars
<1>3. RetainBalanced'
  <2> SUFFICES ASSUME NEW p \in Pids
               PROVE  proc'[p].retain =
                        held'[p] + leaked'[p] + One(p \in pending') + One(p \in updPending')
    BY DEF RetainBalanced
  <2>1. proc[p].retain \in Nat /\ held[p] \in Nat /\ leaked[p] \in Nat
    BY DEF IndInv, TypeOK, ProcTypeOK, InfoType
  <2>2. /\ One(p \in pending) \in Nat /\ One(p \in updPending) \in Nat
        /\ One(p \in pending') \in Nat
    BY DEF One
  <2>3. proc[p].retain = held[p] + leaked[p] + One(p \in pending) + One(p \in updPending)
    BY DEF IndInv, RetainBalanced
  <2> QED
    BY <1>2, <2>1, <2>2, <2>3
<1> QED
  BY <1>1, <1>2, <1>3 DEF IndInv, TypeOK

\* Whoever is waited for has an entry: the round itself holds a reference.
LEMMA PendingKnown ==
  ASSUME IndInv
  PROVE  /\ \A p \in pending : proc[p].retain > 0
         /\ \A p \in updPending : proc[p].retain > 0
<1> SUFFICES ASSUME NEW p \in Pids
             PROVE  p \in pending \/ p \in updPending => proc[p].retain > 0
  BY DEF IndInv, TypeOK, SleepTypeOK, UpdateTypeOK
<1>1. held[p] \in Nat /\ leaked[p] \in Nat
  BY DEF IndInv, TypeOK, ProcTypeOK
<1>2. proc[p].retain = held[p] + leaked[p] + One(p \in pending) + One(p \in updPending)
  BY DEF IndInv, RetainBalanced
<1> QED
  BY <1>1, <1>2 DEF One

\* Answering the kernel about t adds one to the answers about t.
LEMMA ResponseFact ==
  ASSUME SleepTypeOK, NEW t \in 0..MaxSleep, NEW allow \in BOOLEAN,
         sendSleepNotificationResponse(t, allow)
  PROVE  /\ verdict' \in [0..MaxSleep -> [allowed : Nat, cancelled : Nat]]
         /\ \A u \in 0..MaxSleep : u # t => verdict'[u] = verdict[u]
         /\ verdict'[t].allowed = verdict[t].allowed + One(allow)
         /\ verdict'[t].cancelled = verdict[t].cancelled + One(~allow)
<1>1. verdict[t] \in [allowed : Nat, cancelled : Nat]
  BY DEF SleepTypeOK
<1> DEFINE yes == [verdict[t] EXCEPT !.allowed = @ + 1]
           no  == [verdict[t] EXCEPT !.cancelled = @ + 1]
<1>2. /\ yes \in [allowed : Nat, cancelled : Nat]
      /\ yes.allowed = verdict[t].allowed + 1 /\ yes.cancelled = verdict[t].cancelled
  BY <1>1
<1>3. /\ no \in [allowed : Nat, cancelled : Nat]
      /\ no.allowed = verdict[t].allowed /\ no.cancelled = verdict[t].cancelled + 1
  BY <1>1
<1>4. verdict' = [verdict EXCEPT ![t] = IF allow THEN yes ELSE no]
  BY DEF sendSleepNotificationResponse, SleepTypeOK
<1>5. verdict[t].allowed \in Nat /\ verdict[t].cancelled \in Nat
  BY <1>1
<1> HIDE DEF yes, no
<1> QED
  BY <1>2, <1>3, <1>4, <1>5 DEF SleepTypeOK, One

\* A round that closes answers its own token, which had no answer yet.
LEMMA CloseFact ==
  ASSUME IndInv, ackToken # NoToken, NEW count \in Nat, CloseCheck(count), asked' = asked
  PROVE  /\ verdict' \in [0..MaxSleep -> [allowed : Nat, cancelled : Nat]]
         /\ AnsweredOnce'
<1>1. SleepTypeOK /\ ackToken \in 0..MaxSleep /\ asked \in 0..MaxSleep /\ ackToken <= asked
  BY DEF IndInv, TypeOK, SleepTypeOK, CheckRound
<1>2. /\ verdict' \in [0..MaxSleep -> [allowed : Nat, cancelled : Nat]]
      /\ \A u \in 0..MaxSleep : u # ackToken => verdict'[u] = verdict[u]
      /\ verdict'[ackToken].allowed = verdict[ackToken].allowed + One(count = 0)
      /\ verdict'[ackToken].cancelled = verdict[ackToken].cancelled + One(~(count = 0))
  BY <1>1, ResponseFact DEF CloseCheck
<1>3. ASSUME NEW t \in 0..MaxSleep
      PROVE  verdict'[t].allowed + verdict'[t].cancelled =
               One(t # NoToken /\ t <= asked' /\ t # ackToken')
  <2>1. verdict[t].allowed + verdict[t].cancelled = One(t # NoToken /\ t <= asked /\ t # ackToken)
    BY DEF IndInv, AnsweredOnce
  <2>2. verdict[t].allowed \in Nat /\ verdict[t].cancelled \in Nat
    BY <1>1 DEF SleepTypeOK
  <2>3. ackToken' = NoToken
    BY DEF CloseCheck
  <2>4. CASE t = ackToken
    <3>1. One(count = 0) + One(~(count = 0)) = 1 /\ One(count = 0) \in Nat
          /\ One(~(count = 0)) \in Nat
      BY DEF One
    <3>2. verdict[t].allowed + verdict[t].cancelled = 0
      BY <2>1, <2>4 DEF One
    <3>3. One(t # NoToken /\ t <= asked' /\ t # ackToken') = 1
      BY <1>1, <2>3, <2>4 DEF One
    <3>4. verdict[t].allowed = 0 /\ verdict[t].cancelled = 0
      BY <2>2, <3>2
    <3>5. verdict'[t].allowed = One(count = 0) /\ verdict'[t].cancelled = One(~(count = 0))
      BY <1>2, <2>4, <3>1, <3>4
    <3> QED
      BY <3>1, <3>3, <3>5
  <2>5. CASE t # ackToken
    BY <1>2, <2>1, <2>3, <2>5 DEF One
  <2> QED
    BY <2>4, <2>5
<1> QED
  BY <1>2, <1>3 DEF AnsweredOnce

\* The check that is allowed at once is a new one, and so is the round's.
LEMMA StartCheckInv ==
  ASSUME IndInv, checkForAsyncAssertions
  PROVE  IndInv'
<1> USE BoundsAssumption DEF BoundsAssumption
<1>1. /\ ProcTypeOK /\ SleepTypeOK /\ AnsweredOnce /\ CheckRound
      /\ asked \in 0..MaxSleep /\ asked' = asked + 1 /\ asked + 1 \in SleepTokens
      /\ asked + 1 \in 0..MaxSleep /\ ackToken \in 0..MaxSleep /\ ackToken <= asked
  BY DEF IndInv, TypeOK, SleepTypeOK, CheckRound, checkForAsyncAssertions, SleepTokens
<1>2. UNCHANGED <<alive, exitEvent, held, leaked, updateVars>>
  BY DEF checkForAsyncAssertions
<1>3. ASSUME NEW t \in 0..MaxSleep
      PROVE  /\ verdict[t].allowed \in Nat /\ verdict[t].cancelled \in Nat
             /\ verdict[t].allowed + verdict[t].cancelled =
                  One(t # NoToken /\ t <= asked /\ t # ackToken)
  BY <1>1 DEF SleepTypeOK, AnsweredOnce
<1>4. ASSUME sendSleepNotificationResponse(asked + 1, TRUE), ackToken' = ackToken
      PROVE  /\ verdict' \in [0..MaxSleep -> [allowed : Nat, cancelled : Nat]]
             /\ AnsweredOnce'
  <2> DEFINE n == asked + 1
  <2>1. /\ verdict' \in [0..MaxSleep -> [allowed : Nat, cancelled : Nat]]
        /\ \A u \in 0..MaxSleep : u # n => verdict'[u] = verdict[u]
        /\ verdict'[n].allowed = verdict[n].allowed + 1
        /\ verdict'[n].cancelled = verdict[n].cancelled
    <3>1. n \in 0..MaxSleep /\ sendSleepNotificationResponse(n, TRUE)
      BY <1>1, <1>4
    <3> HIDE DEF n
    <3> DEFINE v == [verdict[n] EXCEPT !.allowed = @ + 1]
    <3>2. verdict[n] \in [allowed : Nat, cancelled : Nat]
      BY <1>1, <3>1 DEF SleepTypeOK
    <3>3. /\ v \in [allowed : Nat, cancelled : Nat]
          /\ v.allowed = verdict[n].allowed + 1 /\ v.cancelled = verdict[n].cancelled
      BY <3>2
    <3>4. verdict' = [verdict EXCEPT ![n] = v]
      BY <1>1, <3>1 DEF sendSleepNotificationResponse, SleepTypeOK
    <3> HIDE DEF v
    <3> QED
      BY <1>1, <3>1, <3>3, <3>4 DEF SleepTypeOK
  <2>2. ASSUME NEW t \in 0..MaxSleep
        PROVE  verdict'[t].allowed + verdict'[t].cancelled =
                 One(t # NoToken /\ t <= asked' /\ t # ackToken')
    <3>1. CASE t = asked + 1
      <4>2. One(t # NoToken /\ t <= asked /\ t # ackToken) = 0
        BY <1>1, <3>1 DEF One
      <4>3. One(t # NoToken /\ t <= asked' /\ t # ackToken') = 1
        BY <1>1, <1>4, <3>1 DEF One, NoToken
      <4>4. verdict[t].allowed = 0 /\ verdict[t].cancelled = 0
        BY <1>3, <4>2
      <4>5. verdict'[t].allowed = 1 /\ verdict'[t].cancelled = 0
        BY <2>1, <3>1, <4>4
      <4> QED
        BY <4>3, <4>5
    <3>2. CASE t # asked + 1
      <4>1. t <= asked' <=> t <= asked
        BY <1>1, <3>2
      <4> QED
        BY <1>3, <1>4, <2>1, <3>2, <4>1 DEF One
    <3> QED
      BY <3>1, <3>2
  <2> QED
    BY <2>1, <2>2 DEF AnsweredOnce
<1>5. CASE ackToken # NoToken \/ pending # {}
  <2>1. /\ sendSleepNotificationResponse(asked + 1, TRUE)
        /\ UNCHANGED <<proc, ackToken, pending, blockers, sleepTimer, check>>
    BY <1>5 DEF checkForAsyncAssertions
  <2>2. AnsweredOnce' /\ SleepTypeOK'
    BY <1>1, <1>4, <2>1 DEF SleepTypeOK
  <2>3. CheckRound'
    BY <1>1, <2>1 DEF CheckRound, SleepTokens
  <2>4. /\ proc' \in [Pids -> InfoType]
        /\ \A p \in Pids : InfoOK(proc'[p])
        /\ \A p \in Pids : proc[p].retain \in Nat
    BY <1>1, <2>1 DEF ProcTypeOK, InfoOK, InfoType
  <2>5. ASSUME NEW p \in Pids
        PROVE  proc'[p].retain = (proc[p].retain + One(p \in pending')) - One(p \in pending)
    BY <2>1, <2>4 DEF One
  <2> QED
    BY <1>2, <2>2, <2>3, <2>4, <2>5, SleepStep
<1>6. CASE ackToken = NoToken /\ pending = {}
  <2> DEFINE R == Reachable
  <2>1. R \in SUBSET Pids
    BY DEF Reachable
  <2>2. /\ proc' = RetainAll(R) /\ pending' = R /\ blockers' = 0 /\ sleepTimer' = TRUE
        /\ check' = [p \in Pids |-> [t \in SleepTokens |->
             IF t = asked + 1 /\ p \in R THEN Sent(p)
             ELSE IF check[p][t] \in {"gotYes", "gotNo"} THEN "none"
             ELSE check[p][t]]]
    BY <1>6 DEF checkForAsyncAssertions
  <2>3. /\ ackToken' = IF R = {} THEN NoToken ELSE asked + 1
        /\ R = {} => sendSleepNotificationResponse(asked + 1, TRUE)
        /\ R # {} => verdict' = verdict
    BY <1>6 DEF checkForAsyncAssertions
  <2> HIDE DEF R
  <2>4. check' \in [Pids -> [SleepTokens -> CheckStatus]]
    BY <1>1, <2>2 DEF SleepTypeOK, CheckStatus, Sent
  <2>5. AnsweredOnce' /\ verdict' \in [0..MaxSleep -> [allowed : Nat, cancelled : Nat]]
    <3>1. CASE R = {}
      BY <1>4, <1>6, <2>3, <3>1
    <3>2. CASE R # {}
      <4>1. ackToken' = asked + 1 /\ verdict' = verdict
        BY <2>3, <3>2
      <4>2. ASSUME NEW t \in 0..MaxSleep
            PROVE  verdict'[t].allowed + verdict'[t].cancelled =
                     One(t # NoToken /\ t <= asked' /\ t # ackToken')
        BY <1>1, <1>3, <1>6, <4>1 DEF One
      <4> QED
        BY <1>1, <4>1, <4>2 DEF AnsweredOnce, SleepTypeOK
    <3> QED
      BY <3>1, <3>2
  <2>6. SleepTypeOK'
    <3>1. ackToken' \in 0..MaxSleep /\ asked' \in 0..MaxSleep /\ blockers' \in Nat
      BY <1>1, <2>2, <2>3 DEF NoToken
    <3>2. sleepTimer' \in BOOLEAN /\ pending' \subseteq Pids
      BY <2>1, <2>2
    <3> QED
      BY <2>4, <2>5, <3>1, <3>2 DEF SleepTypeOK
  <2>7. CheckRound'
    <3>1. ASSUME NEW p \in Pids, NEW t \in SleepTokens, t > asked
          PROVE  check'[p][t] # "gotYes" /\ (t > asked + 1 => check'[p][t] = "none")
      BY <1>1, <2>2, <3>1 DEF CheckRound, Sent, SleepTokens
    <3>2. ackToken' <= asked' /\ (ackToken' = NoToken <=> pending' = {})
      BY <1>1, <2>2, <2>3 DEF NoToken
    <3>3. \A p \in Pids, t \in SleepTokens : t > asked' => check'[p][t] = "none"
      BY <1>1, <3>1 DEF SleepTokens
    <3>4. ackToken' # NoToken => \A p \in Pids : check'[p][ackToken'] # "gotYes"
      BY <1>1, <2>3, <3>1
    <3>5. ~(blockers' > 0)
      BY <2>2
    <3> QED
      BY <3>2, <3>3, <3>4, <3>5 DEF CheckRound
  <2>8. /\ proc' \in [Pids -> InfoType]
        /\ \A p \in Pids : InfoOK(proc'[p])
        /\ \A p \in Pids : proc'[p].retain = proc[p].retain + One(p \in R)
        /\ \A p \in Pids : proc[p].retain \in Nat
    BY <1>1, <2>1, <2>2, RetainAllFact DEF ProcTypeOK, InfoType
  <2>9. ASSUME NEW p \in Pids
        PROVE  proc'[p].retain = (proc[p].retain + One(p \in pending')) - One(p \in pending)
    BY <1>6, <2>2, <2>8 DEF One
  <2> QED
    BY <1>2, <2>5, <2>6, <2>7, <2>8, <2>9, SleepStep
<1> QED
  BY <1>5, <1>6

\* An answer under way changes no round.
LEMMA ClientAnswersCheckInv ==
  ASSUME IndInv, NEW p \in Pids, NEW t \in SleepTokens, ClientAnswersCheck(p, t)
  PROVE  IndInv'
<1>1. ProcTypeOK /\ SleepTypeOK /\ CheckRound /\ AnsweredOnce
  BY DEF IndInv, TypeOK
<1>2. UNCHANGED <<procVars, alive, exitEvent, proc, held, leaked, ackToken, pending,
                  blockers, sleepTimer, asked, verdict, updateVars>>
  BY DEF ClientAnswersCheck, procVars
<1>3. PICK a \in {"yes", "no"} : check' = [check EXCEPT ![p][t] = a]
  BY DEF ClientAnswersCheck
<1>4. SleepTypeOK'
  <2>1. check' \in [Pids -> [SleepTokens -> CheckStatus]]
    BY <1>1, <1>3 DEF SleepTypeOK, CheckStatus
  <2> QED
    BY <1>1, <1>2, <2>1 DEF SleepTypeOK
<1>5. CheckRound'
  <2>1. check[p][t] = "asked"
    BY DEF ClientAnswersCheck
  <2>2. \A q \in Pids, u \in SleepTokens :
          /\ check[q][u] = "none" => check'[q][u] = "none"
          /\ check'[q][u] = "gotYes" <=> check[q][u] = "gotYes"
    BY <1>1, <1>3, <2>1 DEF SleepTypeOK
  <2>3. ackToken # NoToken => ackToken \in SleepTokens
    BY <1>1, BoundsAssumption DEF SleepTypeOK, SleepTokens, NoToken, BoundsAssumption
  <2> QED
    BY <1>1, <1>2, <2>2, <2>3 DEF CheckRound
<1>6. AnsweredOnce'
  BY <1>1, <1>2 DEF AnsweredOnce, One
<1>7. /\ proc' \in [Pids -> InfoType]
      /\ \A q \in Pids : InfoOK(proc'[q])
      /\ \A q \in Pids : proc[q].retain \in Nat
  BY <1>1, <1>2 DEF ProcTypeOK, InfoOK, InfoType
<1>8. ASSUME NEW q \in Pids
      PROVE  proc'[q].retain = (proc[q].retain + One(q \in pending')) - One(q \in pending)
  BY <1>2, <1>7 DEF One
<1> QED
  BY <1>2, <1>4, <1>5, <1>6, <1>7, <1>8, SleepStep

\* A reply that counts is one of the open round: its token is not zero, so it is
\* no error object, and its sender is pending.
LEMMA CountsFact ==
  ASSUME IndInv, NEW p \in Pids, NEW t \in SleepTokens, CountsAsReply(p, t)
  PROVE  p \in pending /\ ackToken # NoToken /\ t = ackToken /\ check[p][t] # "error"
BY DEF IndInv, CheckRound, CountsAsReply, ReplyToken

\* A reply that counts returns one reference, and the last one closes the round.
LEMMA CheckReplyInv ==
  ASSUME IndInv, NEW p \in Pids, NEW t \in SleepTokens, processAssertionCheckResp(p, t)
  PROVE  IndInv'
<1> DEFINE yes == check[p][t] = "yes"
           count == blockers + (IF yes THEN 1 ELSE 0)
<1>1. /\ ProcTypeOK /\ SleepTypeOK /\ AnsweredOnce /\ CheckRound
      /\ check[p][t] \in {"yes", "no", "error"}
  BY DEF IndInv, TypeOK, processAssertionCheckResp
<1>2. UNCHANGED <<alive, exitEvent, held, leaked, sleepTimer, asked, updateVars>>
  BY DEF processAssertionCheckResp
<1>3. ackToken # NoToken => ackToken \in SleepTokens
  BY <1>1, BoundsAssumption DEF SleepTypeOK, SleepTokens, NoToken, BoundsAssumption
<1>4. CASE ~CountsAsReply(p, t)
  <2>1. /\ check' = [check EXCEPT ![p][t] = "none"]
        /\ UNCHANGED <<proc, ackToken, pending, blockers, verdict>>
    BY <1>4 DEF processAssertionCheckResp
  <2>2. SleepTypeOK'
    <3>1. check' \in [Pids -> [SleepTokens -> CheckStatus]]
      BY <1>1, <2>1 DEF SleepTypeOK, CheckStatus
    <3> QED
      BY <1>1, <1>2, <2>1, <3>1 DEF SleepTypeOK
  <2>3. CheckRound'
    <3>1. \A q \in Pids, u \in SleepTokens :
            /\ check[q][u] = "none" => check'[q][u] = "none"
            /\ check'[q][u] = "gotYes" <=> check[q][u] = "gotYes"
      BY <1>1, <2>1 DEF SleepTypeOK
    <3> QED
      BY <1>1, <1>2, <1>3, <2>1, <3>1 DEF CheckRound
  <2>4. AnsweredOnce'
    BY <1>1, <1>2, <2>1 DEF AnsweredOnce, One
  <2>5. /\ proc' \in [Pids -> InfoType]
        /\ \A q \in Pids : InfoOK(proc'[q])
        /\ \A q \in Pids : proc[q].retain \in Nat
    BY <1>1, <2>1 DEF ProcTypeOK, InfoOK, InfoType
  <2>6. ASSUME NEW q \in Pids
        PROVE  proc'[q].retain = (proc[q].retain + One(q \in pending')) - One(q \in pending)
    BY <2>1, <2>5 DEF One
  <2> QED
    BY <1>2, <2>2, <2>3, <2>4, <2>5, <2>6, SleepStep
<1>5. CASE CountsAsReply(p, t)
  <2>1. p \in pending /\ ackToken # NoToken /\ t = ackToken /\ check[p][t] # "error"
    BY <1>5, CountsFact
  <2>2. /\ check' = [check EXCEPT ![p][t] = IF yes THEN "gotYes" ELSE "gotNo"]
        /\ pending' = pending \ {p} /\ proc' = ReleaseAll({p})
    BY <1>5 DEF processAssertionCheckResp
  <2>3. check' \in [Pids -> [SleepTokens -> CheckStatus]] /\ count \in Nat
    BY <1>1, <2>2 DEF SleepTypeOK, CheckStatus
  <2>4. /\ AnsweredOnce' /\ verdict' \in [0..MaxSleep -> [allowed : Nat, cancelled : Nat]]
        /\ \/ ackToken' = NoToken /\ pending' = {} /\ blockers' = 0
           \/ ackToken' = ackToken /\ pending' # {} /\ blockers' = count
    <3>1. CASE pending \ {p} = {}
      <4>1. CloseCheck(count)
        BY <1>5, <3>1 DEF processAssertionCheckResp
      <4> HIDE DEF count
      <4>2. AnsweredOnce' /\ verdict' \in [0..MaxSleep -> [allowed : Nat, cancelled : Nat]]
        BY <1>2, <2>1, <2>3, <4>1, CloseFact
      <4>3. ackToken' = NoToken /\ blockers' = 0
        BY <4>1 DEF CloseCheck
      <4> QED
        BY <2>2, <3>1, <4>2, <4>3
    <3>2. CASE pending \ {p} # {}
      <4>1. blockers' = count /\ UNCHANGED <<ackToken, verdict>>
        BY <1>5, <3>2 DEF processAssertionCheckResp
      <4>2. AnsweredOnce'
        BY <1>1, <1>2, <4>1 DEF AnsweredOnce, One
      <4> QED
        BY <1>1, <2>2, <3>2, <4>1, <4>2 DEF SleepTypeOK
    <3> QED
      BY <3>1, <3>2
  <2>5. SleepTypeOK'
    <3>1. ackToken' \in 0..MaxSleep
      <4>1. ackToken \in 0..MaxSleep
        BY <1>1 DEF SleepTypeOK
      <4>2. NoToken \in 0..MaxSleep
        BY BoundsAssumption DEF NoToken, BoundsAssumption
      <4>3. ackToken' = NoToken \/ ackToken' = ackToken
        BY <2>4
      <4> QED
        BY <4>1, <4>2, <4>3
    <3>2. blockers' \in Nat
      BY <2>3, <2>4
    <3> QED
      BY <1>1, <1>2, <2>2, <2>3, <2>4, <3>1, <3>2 DEF SleepTypeOK
  <2>6. CheckRound'
    <3>1. ASSUME NEW q \in Pids, NEW u \in SleepTokens, u > asked'
          PROVE  check'[q][u] = "none"
      <4>1. u > asked /\ ackToken <= asked /\ check[q][u] = "none"
        BY <1>1, <1>2, <3>1 DEF CheckRound
      <4>2. u # t
        BY <2>1, <4>1, <1>1 DEF SleepTypeOK, SleepTokens
      <4> QED
        BY <1>1, <2>2, <4>1, <4>2 DEF SleepTypeOK
    <3>2. CASE ackToken' = NoToken
      <4>1. pending' = {} /\ NoToken <= asked'
        BY <1>1, <1>2, <2>1, <2>4, <3>2 DEF SleepTypeOK, NoToken
      <4> QED
        BY <3>1, <3>2, <4>1 DEF CheckRound
    <3>3. CASE ackToken' # NoToken
      <4>1. ackToken' = ackToken /\ pending' # {} /\ blockers' = count /\ ackToken' <= asked'
        BY <1>1, <1>2, <2>4, <3>3 DEF CheckRound
      <4>2. blockers > 0 <=> \E q \in Pids : check[q][ackToken] = "gotYes"
        BY <1>1, <2>1 DEF CheckRound
      <4>3. \A q \in Pids : q # p => check'[q][ackToken] = check[q][ackToken]
        BY <1>1, <2>1, <2>2 DEF SleepTypeOK
      <4>4. check'[p][ackToken] = IF yes THEN "gotYes" ELSE "gotNo"
        BY <1>1, <2>1, <2>2 DEF SleepTypeOK
      <4>5. check[p][ackToken] # "gotYes"
        BY <1>1, <2>1
      <4>6. count > 0 <=> (blockers > 0 \/ yes)
        BY <1>1 DEF SleepTypeOK
      <4>7. blockers' > 0 <=> \E q \in Pids : check'[q][ackToken'] = "gotYes"
        <5> HIDE DEF count, yes
        <5>1. blockers' > 0 <=> (yes \/ \E q \in Pids : check[q][ackToken] = "gotYes")
          BY <4>1, <4>2, <4>6
        <5>2. (\E q \in Pids : check'[q][ackToken] = "gotYes") <=>
              (yes \/ \E q \in Pids : check[q][ackToken] = "gotYes")
          BY <4>3, <4>4, <4>5
        <5> QED
          BY <4>1, <5>1, <5>2
      <4> QED
        BY <3>1, <3>3, <4>1, <4>7 DEF CheckRound
    <3> QED
      BY <3>2, <3>3
  <2>7. /\ proc' \in [Pids -> InfoType]
        /\ \A q \in Pids : InfoOK(proc'[q])
        /\ \A q \in Pids : proc'[q].retain = proc[q].retain - One(q \in {p})
        /\ \A q \in Pids : proc[q].retain \in Nat
    <3>1. {p} \in SUBSET Pids /\ \A q \in {p} : proc[q].retain > 0
      BY <2>1, PendingKnown
    <3> QED
      BY <1>1, <2>2, <3>1, ReleaseAllFact DEF ProcTypeOK, InfoType
  <2>8. ASSUME NEW q \in Pids
        PROVE  proc'[q].retain = (proc[q].retain + One(q \in pending')) - One(q \in pending)
    <3>1. proc[q].retain \in Nat /\ proc'[q].retain = proc[q].retain - One(q \in {p})
      BY <2>7
    <3>2. CASE q = p
      BY <2>1, <2>2, <3>1, <3>2 DEF One
    <3>3. CASE q # p
      BY <2>2, <3>1, <3>3 DEF One
    <3> QED
      BY <3>2, <3>3
  <2> QED
    BY <1>2, <2>4, <2>5, <2>6, <2>7, <2>8, SleepStep
<1> QED
  BY <1>4, <1>5

\* The timer returns the references of all that did not answer.
LEMMA CheckTimerInv ==
  ASSUME IndInv, CheckTimer
  PROVE  IndInv'
<1>1. ProcTypeOK /\ SleepTypeOK /\ AnsweredOnce /\ CheckRound
  BY DEF IndInv, TypeOK
<1>2. /\ UNCHANGED <<alive, exitEvent, held, leaked, asked, check, updateVars>>
      /\ sleepTimer' = FALSE
  BY DEF CheckTimer
<1>3. \A q \in Pids : proc[q].retain \in Nat
  BY <1>1 DEF ProcTypeOK, InfoType
<1>4. CASE pending = {}
  <2>1. UNCHANGED <<proc, ackToken, pending, blockers, verdict>>
    BY <1>4 DEF CheckTimer
  <2>2. SleepTypeOK' /\ AnsweredOnce' /\ CheckRound'
    BY <1>1, <1>2, <2>1 DEF SleepTypeOK, AnsweredOnce, CheckRound, One
  <2>3. proc' \in [Pids -> InfoType] /\ \A q \in Pids : InfoOK(proc'[q])
    BY <1>1, <2>1 DEF ProcTypeOK, InfoOK
  <2>4. ASSUME NEW q \in Pids
        PROVE  proc'[q].retain = (proc[q].retain + One(q \in pending')) - One(q \in pending)
    BY <1>3, <2>1 DEF One
  <2> QED
    BY <1>2, <2>2, <2>3, <2>4, SleepStep
<1>5. CASE pending # {}
  <2>1. proc' = ReleaseAll(pending) /\ pending' = {} /\ CloseCheck(blockers)
    BY <1>5 DEF CheckTimer
  <2>2. ackToken # NoToken /\ blockers \in Nat
    BY <1>1, <1>5 DEF CheckRound, SleepTypeOK
  <2>3. ackToken' = NoToken /\ blockers' = 0
    BY <2>1 DEF CloseCheck
  <2>4. AnsweredOnce' /\ verdict' \in [0..MaxSleep -> [allowed : Nat, cancelled : Nat]]
    BY <1>2, <2>1, <2>2, CloseFact
  <2>5. SleepTypeOK'
    <3>1. ackToken' \in 0..MaxSleep /\ blockers' \in Nat
      BY <2>3, BoundsAssumption DEF NoToken, BoundsAssumption
    <3> QED
      BY <1>1, <1>2, <2>1, <2>4, <3>1 DEF SleepTypeOK
  <2>6. CheckRound'
    BY <1>1, <1>2, <2>1, <2>3 DEF CheckRound, SleepTypeOK, NoToken
  <2>7. /\ proc' \in [Pids -> InfoType]
        /\ \A q \in Pids : InfoOK(proc'[q])
        /\ \A q \in Pids : proc'[q].retain = proc[q].retain - One(q \in pending)
    <3>1. pending \in SUBSET Pids /\ \A q \in pending : proc[q].retain > 0
      BY <1>1, PendingKnown DEF SleepTypeOK
    <3> QED
      BY <1>1, <2>1, <3>1, ReleaseAllFact
  <2>8. ASSUME NEW q \in Pids
        PROVE  proc'[q].retain = (proc[q].retain + One(q \in pending')) - One(q \in pending)
    BY <1>3, <2>1, <2>7 DEF One
  <2> QED
    BY <1>2, <2>4, <2>5, <2>6, <2>7, <2>8, SleepStep
<1> QED
  BY <1>4, <1>5

-----------------------------------------------------------------------------
(* The activity update, along the same lines.                               *)

\* What is left to show of a step of the activity update.
LEMMA UpdateStep ==
  ASSUME IndInv, UNCHANGED <<alive, exitEvent, held, leaked, sleepVars>>,
         proc' \in [Pids -> InfoType], \A p \in Pids : InfoOK(proc'[p]),
         \A p \in Pids : proc'[p].retain =
                           (proc[p].retain + One(p \in updPending')) - One(p \in updPending),
         UpdateTypeOK', UpdateRound'
  PROVE  IndInv'
<1>1. ProcTypeOK' /\ DeadHoldNothing'
  BY DEF IndInv, TypeOK, ProcTypeOK, DeadHoldNothing, InfoOK
<1>2. SleepTypeOK' /\ CheckRound' /\ pending' = pending
  BY DEF IndInv, TypeOK, SleepTypeOK, CheckRound, sleepVars
<1>3. AnsweredOnce'
  BY DEF IndInv, AnsweredOnce, sleepVars, One
<1>4. RetainBalanced'
  <2> SUFFICES ASSUME NEW p \in Pids
               PROVE  proc'[p].retain =
                        held'[p] + leaked'[p] + One(p \in pending') + One(p \in updPending')
    BY DEF RetainBalanced
  <2>1. proc[p].retain \in Nat /\ held[p] \in Nat /\ leaked[p] \in Nat
    BY DEF IndInv, TypeOK, ProcTypeOK, InfoType
  <2>2. /\ One(p \in pending) \in Nat /\ One(p \in updPending) \in Nat
        /\ One(p \in updPending') \in Nat
    BY DEF One
  <2>3. proc[p].retain = held[p] + leaked[p] + One(p \in pending) + One(p \in updPending)
    BY DEF IndInv, RetainBalanced
  <2> QED
    BY <1>2, <2>1, <2>2, <2>3
<1> QED
  BY <1>1, <1>2, <1>3, <1>4 DEF IndInv, TypeOK

ReportType == [count : Nat, token : 0..UInt32Max, actives : SUBSET Pids,
               timedOut : SUBSET Pids, overflow : BOOLEAN]

\* A report is made of processes and flags.
LEMMA SendReportFact ==
  ASSUME UpdateTypeOK, NEW t \in 0..UInt32Max, NEW only \in BOOLEAN,
         NEW data \in SUBSET Pids, NEW late \in SUBSET Pids, NEW over \in BOOLEAN,
         SendReport(t, only, data, late, over)
  PROVE  report' \in ReportType
<1>1. report.count + 1 \in Nat
  BY DEF UpdateTypeOK
<1>2. (IF only THEN data ELSE {}) \in SUBSET Pids /\ (IF only THEN {} ELSE late) \in SUBSET Pids
  OBVIOUS
<1>3. (~only /\ over) \in BOOLEAN
  OBVIOUS
<1> QED
  BY <1>1, <1>2, <1>3 DEF SendReport, ReportType

\* No round is open, so nobody is pending; the token is fresh, so no old message
\* carries it.
LEMMA StartUpdateInv ==
  ASSUME IndInv, NEW only \in BOOLEAN, checkForAssertionActivityUpdates(only)
  PROVE  IndInv'
<1> DEFINE t == generateAssertionActivityUpdateToken
           R == Reachable
<1>1. /\ ProcTypeOK /\ UpdateTypeOK /\ UpdateRound /\ updToken = NoToken /\ updPending = {}
      /\ requests < MaxUpdate /\ requests \in Nat /\ lastToken = requests
  BY DEF IndInv, TypeOK, UpdateRound, UpdateTypeOK, checkForAssertionActivityUpdates
<1>2. t = lastToken + 1 /\ t \in UpdateTokens /\ t \in 0..UInt32Max /\ t # NoToken
  BY <1>1, BoundsAssumption, NoTokenReuse
     DEF generateAssertionActivityUpdateToken, UpdateTokens, NoToken, BoundsAssumption,
         NoTokenReuse
<1>3. R \in SUBSET Pids
  BY DEF Reachable
<1>4. /\ requests' = requests + 1 /\ lastToken' = t /\ overflow' = FALSE
      /\ updActives' = only /\ actives' = IF only THEN {} ELSE actives
      /\ proc' = RetainAll(R) /\ updPending' = updPending \cup R
      /\ update' = [p \in Pids |-> [u \in UpdateTokens |->
           IF u = t /\ p \in R THEN Sent(p)
           ELSE IF update[p][u] \in {"gotData", "gotOver", "gotError"} THEN "none"
           ELSE update[p][u]]]
      /\ UNCHANGED <<alive, exitEvent, held, leaked, sleepVars>>
  BY DEF checkForAssertionActivityUpdates
<1>5. \/ /\ R = {} /\ updToken' = updToken /\ updTimer' = updTimer
         /\ SendReport(t, only, {}, {}, FALSE)
      \/ R # {} /\ updToken' = t /\ updTimer' = TRUE /\ report' = report
  BY <1>1 DEF checkForAssertionActivityUpdates
<1> HIDE DEF t, R
<1>6. report' \in ReportType
  <2>1. CASE R = {}
    BY <1>1, <1>2, <1>5, <2>1, SendReportFact
  <2>2. CASE R # {}
    BY <1>1, <1>5, <2>2 DEF UpdateTypeOK, ReportType
  <2> QED
    BY <2>1, <2>2
<1>7. UpdateTypeOK'
  <2>1. update' \in [Pids -> [UpdateTokens -> UpdateStatus]]
    BY <1>1, <1>4 DEF UpdateTypeOK, UpdateStatus, Sent
  <2>2. updToken' \in 0..UInt32Max /\ lastToken' \in 0..UInt32Max /\ requests' \in Nat
    <3>1. updToken' = updToken \/ updToken' = t
      BY <1>5
    <3>2. updToken \in 0..UInt32Max
      BY <1>1 DEF UpdateTypeOK
    <3> QED
      BY <1>1, <1>2, <1>4, <3>1, <3>2
  <2>3. updPending' \subseteq Pids /\ actives' \subseteq Pids
    BY <1>1, <1>3, <1>4 DEF UpdateTypeOK
  <2>4. updActives' \in BOOLEAN /\ overflow' \in BOOLEAN /\ updTimer' \in BOOLEAN
    BY <1>1, <1>4, <1>5 DEF UpdateTypeOK
  <2> QED
    BY <1>6, <2>1, <2>2, <2>3, <2>4 DEF UpdateTypeOK, ReportType
<1>8. UpdateRound'
  <2>1. lastToken' = requests' /\ requests' <= MaxUpdate
    BY <1>1, <1>2, <1>4, BoundsAssumption DEF BoundsAssumption
  <2>2. (updToken' # NoToken => updToken' = lastToken') /\ (updToken' = NoToken <=> updPending' = {})
    BY <1>1, <1>2, <1>4, <1>5
  <2>3. \A p \in Pids, u \in UpdateTokens : u > lastToken' => update'[p][u] = "none"
    BY <1>1, <1>2, <1>4 DEF UpdateRound, UpdateTokens
  <2>4. \A p \in Pids : update'[p][t] \in {"asked", "data", "over", "error"} => p \in updPending'
    BY <1>1, <1>2, <1>4 DEF UpdateRound, UpdateTokens
  <2>5. updToken' # NoToken => updToken' = t
    BY <1>1, <1>5
  <2> QED
    BY <2>1, <2>2, <2>3, <2>4, <2>5 DEF UpdateRound
<1>9. /\ proc' \in [Pids -> InfoType]
      /\ \A p \in Pids : InfoOK(proc'[p])
      /\ \A p \in Pids : proc'[p].retain = proc[p].retain + One(p \in R)
      /\ \A p \in Pids : proc[p].retain \in Nat
  BY <1>1, <1>3, <1>4, RetainAllFact DEF ProcTypeOK, InfoType
<1>10. ASSUME NEW p \in Pids
       PROVE  proc'[p].retain = (proc[p].retain + One(p \in updPending')) - One(p \in updPending)
  BY <1>1, <1>4, <1>9 DEF One
<1> QED
  BY <1>4, <1>7, <1>8, <1>9, <1>10, UpdateStep

\* An update under way changes no round.
LEMMA ClientAnswersUpdateInv ==
  ASSUME IndInv, NEW p \in Pids, NEW t \in UpdateTokens, ClientAnswersUpdate(p, t)
  PROVE  IndInv'
<1>1. ProcTypeOK /\ UpdateTypeOK /\ UpdateRound /\ update[p][t] = "asked"
  BY DEF IndInv, TypeOK, ClientAnswersUpdate
<1>2. UNCHANGED <<alive, exitEvent, proc, held, leaked, sleepVars, updToken, lastToken, updPending,
                  updActives, overflow, actives, updTimer, requests, report>>
  BY DEF ClientAnswersUpdate, procVars
<1>3. PICK a \in {"data", "over"} : update' = [update EXCEPT ![p][t] = a]
  BY DEF ClientAnswersUpdate
<1>4. UpdateTypeOK'
  <2>1. update' \in [Pids -> [UpdateTokens -> UpdateStatus]]
    BY <1>1, <1>3 DEF UpdateTypeOK, UpdateStatus
  <2> QED
    BY <1>1, <1>2, <2>1 DEF UpdateTypeOK
<1>5. UpdateRound'
  <2>1. \A q \in Pids, u \in UpdateTokens :
          /\ update[q][u] = "none" => update'[q][u] = "none"
          /\ update'[q][u] \in {"asked", "data", "over", "error"}
               => update[q][u] \in {"asked", "data", "over", "error"}
    BY <1>1, <1>3 DEF UpdateTypeOK
  <2>2. updToken # NoToken => updToken \in UpdateTokens
    BY <1>1, BoundsAssumption DEF UpdateTypeOK, UpdateTokens, NoToken, BoundsAssumption
  <2> QED
    BY <1>1, <1>2, <2>1, <2>2 DEF UpdateRound
<1>6. /\ proc' \in [Pids -> InfoType]
      /\ \A q \in Pids : InfoOK(proc'[q])
      /\ \A q \in Pids : proc[q].retain \in Nat
  BY <1>1, <1>2 DEF ProcTypeOK, InfoOK, InfoType
<1>7. ASSUME NEW q \in Pids
      PROVE  proc'[q].retain = (proc[q].retain + One(q \in updPending')) - One(q \in updPending)
  BY <1>2, <1>6 DEF One
<1>8. UNCHANGED <<alive, exitEvent, held, leaked, sleepVars>>
  BY <1>2
<1> QED
  BY <1>4, <1>5, <1>6, <1>7, <1>8, UpdateStep

\* The sender of a reply that counts is pending, although the code does not look.
LEMMA UpdateReplyInv ==
  ASSUME IndInv, NEW p \in Pids, NEW t \in UpdateTokens,
         processAssertionActivityUpdateResp(p, t)
  PROVE  IndInv'
<1> DEFINE s == update[p][t]
           counts == s # "error" /\ t = updToken /\ Known(p)
           data == IF updActives THEN actives \cup {p} ELSE actives
           over == overflow \/ s = "over"
<1>1. /\ ProcTypeOK /\ UpdateTypeOK /\ UpdateRound /\ s \in {"data", "over", "error"}
      /\ t # NoToken /\ t \in 0..UInt32Max
  BY BoundsAssumption
     DEF IndInv, TypeOK, processAssertionActivityUpdateResp, UpdateTokens, NoToken,
         BoundsAssumption
<1>2. UNCHANGED <<alive, exitEvent, held, leaked, sleepVars, lastToken, updActives, updTimer,
                  requests>>
  BY DEF processAssertionActivityUpdateResp
<1>3. updToken # NoToken => updToken \in UpdateTokens
  BY <1>1, BoundsAssumption DEF UpdateTypeOK, UpdateTokens, NoToken, BoundsAssumption
<1>4. CASE ~counts
  <2>1. PICK a \in {"gotError", "none"} : update' = [update EXCEPT ![p][t] = a]
    BY <1>4 DEF processAssertionActivityUpdateResp
  <2>2. UNCHANGED <<proc, updToken, updPending, overflow, actives, report>>
    BY <1>4 DEF processAssertionActivityUpdateResp
  <2>3. UpdateTypeOK'
    <3>1. update' \in [Pids -> [UpdateTokens -> UpdateStatus]]
      BY <1>1, <2>1 DEF UpdateTypeOK, UpdateStatus
    <3> QED
      BY <1>1, <1>2, <2>2, <3>1 DEF UpdateTypeOK
  <2>4. UpdateRound'
    <3>1. \A q \in Pids, u \in UpdateTokens :
            /\ q # p \/ u # t => update'[q][u] = update[q][u]
            /\ update'[q][u] \in {"asked", "data", "over", "error"}
                 => update[q][u] \in {"asked", "data", "over", "error"}
      BY <1>1, <2>1 DEF UpdateTypeOK
    <3>2. ~(t > lastToken)
      BY <1>1 DEF UpdateRound
    <3>3. updToken' = NoToken <=> updPending' = {}
      BY <1>1, <2>2 DEF UpdateRound
    <3>4. \A q \in Pids, u \in UpdateTokens : u > lastToken' => update'[q][u] = "none"
      BY <1>1, <1>2, <3>1, <3>2 DEF UpdateRound
    <3>5. ASSUME NEW q \in Pids, updToken' # NoToken,
                 update'[q][updToken'] \in {"asked", "data", "over", "error"}
          PROVE  q \in updPending'
      <4>1. updToken' = updToken /\ updToken \in UpdateTokens
        BY <1>3, <2>2, <3>5
      <4>2. update[q][updToken] \in {"asked", "data", "over", "error"}
        BY <3>1, <3>5, <4>1
      <4> QED
        BY <1>1, <2>2, <3>5, <4>1, <4>2 DEF UpdateRound
    <3>6. lastToken' = requests' /\ requests' <= MaxUpdate
          /\ (updToken' # NoToken => updToken' = lastToken')
      BY <1>1, <1>2, <2>2 DEF UpdateRound
    <3> QED
      BY <3>3, <3>4, <3>5, <3>6 DEF UpdateRound
  <2>5. /\ proc' \in [Pids -> InfoType]
        /\ \A q \in Pids : InfoOK(proc'[q])
        /\ \A q \in Pids : proc[q].retain \in Nat
    BY <1>1, <2>2 DEF ProcTypeOK, InfoOK, InfoType
  <2>6. ASSUME NEW q \in Pids
        PROVE  proc'[q].retain = (proc[q].retain + One(q \in updPending')) - One(q \in updPending)
    BY <2>2, <2>5 DEF One
  <2> QED
    BY <1>2, <2>3, <2>4, <2>5, <2>6, UpdateStep
<1>5. CASE counts
  <2>1. t = updToken /\ p \in updPending
    BY <1>1, <1>5 DEF UpdateRound
  <2>2. /\ actives' = data /\ overflow' = over
        /\ updPending' = updPending \ {p} /\ proc' = ReleaseAll({p})
    BY <1>5 DEF processAssertionActivityUpdateResp
  <2>3. PICK a \in {"gotOver", "gotData"} : update' = [update EXCEPT ![p][t] = a]
    BY <1>5 DEF processAssertionActivityUpdateResp
  <2>4. data \in SUBSET Pids /\ over \in BOOLEAN
    BY <1>1 DEF UpdateTypeOK
  <2>5. /\ report' \in ReportType
        /\ updToken' = IF updPending \ {p} = {} THEN NoToken ELSE updToken
    <3>1. CASE updPending \ {p} = {}
      <4>1. SendReport(t, updActives, data, {}, over) /\ updToken' = NoToken
        BY <1>5, <3>1 DEF processAssertionActivityUpdateResp
      <4>2. updActives \in BOOLEAN
        BY <1>1 DEF UpdateTypeOK
      <4> HIDE DEF data, over
      <4>3. report' \in ReportType
        BY <1>1, <2>4, <4>1, <4>2, SendReportFact
      <4> QED
        BY <3>1, <4>1, <4>3
    <3>2. CASE updPending \ {p} # {}
      <4>1. UNCHANGED <<updToken, report>>
        BY <1>5, <3>2 DEF processAssertionActivityUpdateResp
      <4> QED
        BY <1>1, <3>2, <4>1 DEF UpdateTypeOK, ReportType
    <3> QED
      BY <3>1, <3>2
  <2> HIDE DEF data, over
  <2>6. UpdateTypeOK'
    <3>1. update' \in [Pids -> [UpdateTokens -> UpdateStatus]]
      BY <1>1, <2>3 DEF UpdateTypeOK, UpdateStatus
    <3>2. updToken' \in 0..UInt32Max
      BY <1>1, <2>5, BoundsAssumption DEF UpdateTypeOK, NoToken, BoundsAssumption
    <3> QED
      BY <1>1, <1>2, <2>2, <2>4, <2>5, <3>1, <3>2 DEF UpdateTypeOK, ReportType
  <2>7. UpdateRound'
    <3>1. \A q \in Pids, u \in UpdateTokens :
            q # p \/ u # t => update'[q][u] = update[q][u]
      BY <1>1, <2>3 DEF UpdateTypeOK
    <3>2. update'[p][t] \notin {"asked", "data", "over", "error"}
      BY <1>1, <2>3 DEF UpdateTypeOK
    <3>3. ~(t > lastToken)
      BY <1>1 DEF UpdateRound
    <3>4. updToken' = NoToken <=> updPending' = {}
      BY <1>1, <2>1, <2>2, <2>5
    <3>5. \A q \in Pids, u \in UpdateTokens : u > lastToken' => update'[q][u] = "none"
      BY <1>1, <1>2, <3>1, <3>3 DEF UpdateRound
    <3>6. ASSUME NEW q \in Pids, updToken' # NoToken,
                 update'[q][updToken'] \in {"asked", "data", "over", "error"}
          PROVE  q \in updPending'
      <4>1. updToken' = t
        BY <2>1, <2>5, <3>6
      <4>2. q # p /\ update[q][t] \in {"asked", "data", "over", "error"}
        BY <3>1, <3>2, <3>6, <4>1
      <4> QED
        BY <1>1, <2>1, <2>2, <4>2 DEF UpdateRound
    <3>7. lastToken' = requests' /\ requests' <= MaxUpdate
          /\ (updToken' # NoToken => updToken' = lastToken')
      BY <1>1, <1>2, <2>5 DEF UpdateRound
    <3> QED
      BY <3>4, <3>5, <3>6, <3>7 DEF UpdateRound
  <2>8. /\ proc' \in [Pids -> InfoType]
        /\ \A q \in Pids : InfoOK(proc'[q])
        /\ \A q \in Pids : proc'[q].retain = proc[q].retain - One(q \in {p})
        /\ \A q \in Pids : proc[q].retain \in Nat
    <3>1. {p} \in SUBSET Pids /\ \A q \in {p} : proc[q].retain > 0
      BY <2>1, PendingKnown
    <3> QED
      BY <1>1, <2>2, <3>1, ReleaseAllFact DEF ProcTypeOK, InfoType
  <2>9. ASSUME NEW q \in Pids
        PROVE  proc'[q].retain = (proc[q].retain + One(q \in updPending')) - One(q \in updPending)
    <3>1. proc[q].retain \in Nat /\ proc'[q].retain = proc[q].retain - One(q \in {p})
      BY <2>8
    <3>2. CASE q = p
      BY <2>1, <2>2, <3>1, <3>2 DEF One
    <3>3. CASE q # p
      BY <2>2, <3>1, <3>3 DEF One
    <3> QED
      BY <3>2, <3>3
  <2> QED
    BY <1>2, <2>6, <2>7, <2>8, <2>9, UpdateStep
<1> QED
  BY <1>4, <1>5

\* The timer returns the references of all that did not answer.
LEMMA UpdateTimerInv ==
  ASSUME IndInv, UpdateTimer
  PROVE  IndInv'
<1>1. ProcTypeOK /\ UpdateTypeOK /\ UpdateRound
  BY DEF IndInv, TypeOK
<1>2. /\ UNCHANGED <<alive, exitEvent, held, leaked, sleepVars, lastToken, updActives, overflow,
                     actives, update, requests>>
      /\ updTimer' = FALSE
  BY DEF UpdateTimer
<1>3. \A q \in Pids : proc[q].retain \in Nat
  BY <1>1 DEF ProcTypeOK, InfoType
<1>4. CASE updPending = {}
  <2>1. UNCHANGED <<proc, updToken, updPending, report>>
    BY <1>4 DEF UpdateTimer
  <2>2. UpdateTypeOK' /\ UpdateRound'
    BY <1>1, <1>2, <2>1 DEF UpdateTypeOK, UpdateRound
  <2>3. proc' \in [Pids -> InfoType] /\ \A q \in Pids : InfoOK(proc'[q])
    BY <1>1, <2>1 DEF ProcTypeOK, InfoOK
  <2>4. ASSUME NEW q \in Pids
        PROVE  proc'[q].retain = (proc[q].retain + One(q \in updPending')) - One(q \in updPending)
    BY <1>3, <2>1 DEF One
  <2> QED
    BY <1>2, <2>2, <2>3, <2>4, UpdateStep
<1>5. CASE updPending # {}
  <2>1. /\ proc' = ReleaseAll(updPending) /\ updPending' = {} /\ updToken' = NoToken
        /\ SendReport(updToken, updActives, actives, updPending, overflow)
    BY <1>5 DEF UpdateTimer
  <2>2. report' \in ReportType
    BY <1>1, <2>1, SendReportFact DEF UpdateTypeOK
  <2>3. UpdateTypeOK'
    <3>1. updToken' \in 0..UInt32Max
      BY <2>1, BoundsAssumption DEF NoToken, BoundsAssumption
    <3> QED
      BY <1>1, <1>2, <2>1, <2>2, <3>1 DEF UpdateTypeOK, ReportType
  <2>4. UpdateRound'
    BY <1>1, <1>2, <2>1 DEF UpdateRound
  <2>5. /\ proc' \in [Pids -> InfoType]
        /\ \A q \in Pids : InfoOK(proc'[q])
        /\ \A q \in Pids : proc'[q].retain = proc[q].retain - One(q \in updPending)
    <3>1. updPending \in SUBSET Pids /\ \A q \in updPending : proc[q].retain > 0
      BY <1>1, PendingKnown DEF UpdateTypeOK
    <3> QED
      BY <1>1, <2>1, <3>1, ReleaseAllFact
  <2>6. ASSUME NEW q \in Pids
        PROVE  proc'[q].retain = (proc[q].retain + One(q \in updPending')) - One(q \in updPending)
    BY <1>3, <2>1, <2>5 DEF One
  <2> QED
    BY <1>2, <2>3, <2>4, <2>5, <2>6, UpdateStep
<1> QED
  BY <1>4, <1>5

-----------------------------------------------------------------------------
(* The theorems.                                                            *)

\* Every handler, external step and stutter keeps the invariant.
LEMMA NextInv == IndInv /\ [Next]_vars => IndInv'
<1> SUFFICES ASSUME IndInv, [Next]_vars PROVE IndInv'
  OBVIOUS
<1>1. CASE ProcessNext
  BY <1>1, InitialConnectionInv, CreateInv, ReleaseInv, SetStateInv, ExitsInv, ExitHandlerInv
     DEF ProcessNext
<1>2. CASE SleepNext
  BY <1>2, StartCheckInv, CheckTimerInv, ClientAnswersCheckInv, CheckReplyInv DEF SleepNext
<1>3. CASE UpdateNext
  BY <1>3, StartUpdateInv, UpdateTimerInv, ClientAnswersUpdateInv, UpdateReplyInv DEF UpdateNext
<1>4. CASE UNCHANGED vars
  <2>1. UNCHANGED <<procVars, sleepVars, updateVars>>
    BY <1>4 DEF vars
  <2>2. ProcTypeOK' /\ SleepTypeOK' /\ UpdateTypeOK'
    BY <2>1 DEF IndInv, TypeOK, ProcTypeOK, SleepTypeOK, UpdateTypeOK, procVars, sleepVars,
                updateVars
  <2>3. RetainBalanced' /\ AnsweredOnce' /\ DeadHoldNothing'
    BY <2>1 DEF IndInv, RetainBalanced, AnsweredOnce, DeadHoldNothing, procVars, sleepVars,
                updateVars, One
  <2>4. CheckRound' /\ UpdateRound'
    BY <2>1 DEF IndInv, CheckRound, UpdateRound, sleepVars, updateVars
  <2> QED
    BY <2>2, <2>3, <2>4 DEF IndInv, TypeOK
<1> QED
  BY <1>1, <1>2, <1>3, <1>4 DEF Next

\* The invariant that the theorems below are read off from.
LEMMA Invariance == Spec => []IndInv
BY InitInv, NextInv, PTL DEF Spec

\* Type correctness of the process table and of the globals of both rounds.
THEOREM TypeCorrect == Spec => []TypeOK
<1>1. IndInv => TypeOK
  BY DEF IndInv
<1> QED
  BY <1>1, Invariance, PTL

\* processInfoRetain and processInfoRelease balance for any number of clients: no
\* reply, timer, exit or release ever returns a reference that was returned before.
THEOREM ReferencesBalance == Spec => []RetainBalanced
<1>1. IndInv => RetainBalanced
  BY DEF IndInv
<1> QED
  BY <1>1, Invariance, PTL

\* Each sleep check gets one answer by sendSleepNotificationResponse, and no second
\* one, in whatever order replies, errors, exits and the timer come.
THEOREM AnsweredExactlyOnce == Spec => []AnsweredOnce
<1>1. IndInv => AnsweredOnce
  BY DEF IndInv
<1> QED
  BY <1>1, Invariance, PTL

\* After both runs of HandleProcessExit nothing is left of a dead process.
THEOREM DeadProcessesHoldNothing == Spec => []DeadHoldNothing
<1>1. IndInv => DeadHoldNothing
  BY DEF IndInv
<1> QED
  BY <1>1, Invariance, PTL

-----------------------------------------------------------------------------
(* The answer to the kernel.                                                *)

\* A round that closes answers by its count, and only its own token.
LEMMA CloseVerdict ==
  ASSUME IndInv, ackToken # NoToken, NEW count \in Nat, CloseCheck(count),
         count > 0 <=> \E p \in Pids : check'[p][ackToken] = "gotYes"
  PROVE  \A t \in SleepTokens : HonoursReplies(t)
<1>1. SleepTypeOK /\ ackToken \in 0..MaxSleep
  BY DEF IndInv, TypeOK, SleepTypeOK
<1>2. /\ \A u \in 0..MaxSleep : u # ackToken => verdict'[u] = verdict[u]
      /\ verdict'[ackToken].allowed = verdict[ackToken].allowed + One(count = 0)
      /\ verdict'[ackToken].cancelled = verdict[ackToken].cancelled + One(~(count = 0))
  BY <1>1, ResponseFact DEF CloseCheck
<1> SUFFICES ASSUME NEW t \in SleepTokens PROVE HonoursReplies(t)
  OBVIOUS
<1>3. CASE t = ackToken
  <2>1. verdict[t].allowed \in Nat /\ verdict[t].cancelled \in Nat
    BY <1>1, <1>3 DEF SleepTypeOK
  <2>2. /\ verdict'[t].allowed # verdict[t].allowed => count = 0
        /\ verdict'[t].cancelled # verdict[t].cancelled => count > 0
    BY <1>2, <1>3, <2>1 DEF One
  <2> QED
    BY <1>3, <2>2 DEF HonoursReplies
<1>4. CASE t # ackToken
  BY <1>2, <1>4 DEF HonoursReplies, SleepTokens
<1> QED
  BY <1>3, <1>4

\* A check that is allowed at once is new: no reply carries its token.
LEMMA StartVerdict ==
  ASSUME IndInv, checkForAsyncAssertions
  PROVE  \A t \in SleepTokens : HonoursReplies(t)
<1>1. /\ SleepTypeOK /\ CheckRound /\ asked \in 0..MaxSleep /\ asked + 1 \in SleepTokens
      /\ asked + 1 \in 0..MaxSleep
  BY BoundsAssumption
     DEF IndInv, TypeOK, SleepTypeOK, checkForAsyncAssertions, SleepTokens, BoundsAssumption
<1>2. CASE UNCHANGED verdict
  BY <1>2 DEF HonoursReplies
<1>3. CASE sendSleepNotificationResponse(asked + 1, TRUE)
  <2>1. /\ \A u \in 0..MaxSleep : u # asked + 1 => verdict'[u] = verdict[u]
        /\ verdict'[asked + 1].cancelled = verdict[asked + 1].cancelled + One(~TRUE)
    BY <1>1, <1>3, ResponseFact
  <2>2. verdict[asked + 1].cancelled \in Nat
    BY <1>1 DEF SleepTypeOK
  <2>3. verdict'[asked + 1].cancelled = verdict[asked + 1].cancelled
    BY <2>1, <2>2 DEF One
  <2>4. \A p \in Pids : check[p][asked + 1] = "none"
    <3>1. asked + 1 > asked
      BY <1>1
    <3> QED
      BY <1>1, <3>1 DEF CheckRound
  <2>5. \A p \in Pids : check'[p][asked + 1] \in {"none", "asked", "error"}
    <3>1. CASE check' = check
      BY <2>4, <3>1
    <3>2. CASE check' # check
      <4>1. check' = [p \in Pids |-> [t \in SleepTokens |->
              IF t = asked + 1 /\ p \in Reachable THEN Sent(p)
              ELSE IF check[p][t] \in {"gotYes", "gotNo"} THEN "none"
              ELSE check[p][t]]]
        BY <3>2 DEF checkForAsyncAssertions
      <4> QED
        BY <1>1, <2>4, <4>1 DEF Sent
    <3> QED
      BY <3>1, <3>2
  <2>6. ASSUME NEW t \in SleepTokens PROVE HonoursReplies(t)
    <3>1. CASE t = asked + 1
      BY <2>3, <2>5, <3>1 DEF HonoursReplies
    <3>2. CASE t # asked + 1
      BY <2>1, <3>2 DEF HonoursReplies, SleepTokens
    <3> QED
      BY <3>1, <3>2
  <2> QED
    BY <2>6
<1> QED
  BY <1>2, <1>3 DEF checkForAsyncAssertions

\* The last reply is counted before the round closes on the count.
LEMMA ReplyVerdict ==
  ASSUME IndInv, NEW p \in Pids, NEW t \in SleepTokens, processAssertionCheckResp(p, t)
  PROVE  \A u \in SleepTokens : HonoursReplies(u)
<1> DEFINE yes == check[p][t] = "yes"
           count == blockers + (IF yes THEN 1 ELSE 0)
<1>1. SleepTypeOK /\ CheckRound /\ check[p][t] \in {"yes", "no", "error"}
  BY DEF IndInv, TypeOK, processAssertionCheckResp
<1>2. CASE UNCHANGED verdict
  BY <1>2 DEF HonoursReplies
<1>3. CASE CountsAsReply(p, t) /\ CloseCheck(count)
            /\ check' = [check EXCEPT ![p][t] = IF yes THEN "gotYes" ELSE "gotNo"]
  <2>1. ackToken # NoToken /\ t = ackToken
    BY <1>3, CountsFact
  <2>2. blockers > 0 <=> \E q \in Pids : check[q][ackToken] = "gotYes"
    BY <1>1, <2>1 DEF CheckRound
  <2>3. \A q \in Pids : q # p => check'[q][ackToken] = check[q][ackToken]
    BY <1>1, <1>3, <2>1 DEF SleepTypeOK
  <2>4. /\ check'[p][ackToken] = IF yes THEN "gotYes" ELSE "gotNo"
        /\ check[p][ackToken] # "gotYes"
    BY <1>1, <1>3, <2>1 DEF SleepTypeOK
  <2>5. count \in Nat /\ (count > 0 <=> (blockers > 0 \/ yes))
    BY <1>1 DEF SleepTypeOK
  <2>6. CloseCheck(count)
    BY <1>3
  <2> HIDE DEF yes, count
  <2>7. count > 0 <=> \E q \in Pids : check'[q][ackToken] = "gotYes"
    BY <2>2, <2>3, <2>4, <2>5
  <2> QED
    BY <2>1, <2>5, <2>6, <2>7, CloseVerdict
<1> QED
  BY <1>2, <1>3 DEF processAssertionCheckResp

\* The timer closes the round on the replies read so far.
LEMMA TimerVerdict ==
  ASSUME IndInv, CheckTimer
  PROVE  \A t \in SleepTokens : HonoursReplies(t)
<1>1. CASE UNCHANGED verdict
  BY <1>1 DEF HonoursReplies
<1>2. CASE pending # {} /\ CloseCheck(blockers)
  <2>1. ackToken # NoToken /\ blockers \in Nat /\ check' = check
    BY <1>2 DEF IndInv, TypeOK, SleepTypeOK, CheckRound, CheckTimer
  <2>2. blockers > 0 <=> \E p \in Pids : check'[p][ackToken] = "gotYes"
    BY <2>1 DEF IndInv, CheckRound
  <2> QED
    BY <1>2, <2>1, <2>2, CloseVerdict
<1> QED
  BY <1>1, <1>2 DEF CheckTimer

\* sendSleepNotificationResponse cancels sleep exactly when a reply of the round that
\* was read in time reported a blocker, for any number of clients and checks.
THEOREM VerdictCorrect == Spec => VerdictHonoursReplies
<1>1. IndInv /\ [Next]_vars => [\A t \in SleepTokens : HonoursReplies(t)]_vars
  <2> SUFFICES ASSUME IndInv, Next PROVE \A t \in SleepTokens : HonoursReplies(t)
    OBVIOUS
  <2>1. CASE UNCHANGED verdict
    BY <2>1 DEF HonoursReplies
  <2>2. CASE SleepNext
    <3>1. CASE \E p \in Pids, t \in SleepTokens : ClientAnswersCheck(p, t)
      BY <2>1, <3>1 DEF ClientAnswersCheck
    <3> QED
      BY <2>2, <3>1, StartVerdict, TimerVerdict, ReplyVerdict DEF SleepNext
  <2>3. ProcessNext => UNCHANGED verdict
    BY DEF ProcessNext, asyncAssertionInitialConnection, asyncAssertionCreate,
           asyncAssertionRelease, processSetAssertionState, ProcessExits, HandleProcessExit,
           sleepVars
  <2>4. UpdateNext => UNCHANGED verdict
    BY DEF UpdateNext, checkForAssertionActivityUpdates, ClientAnswersUpdate,
           processAssertionActivityUpdateResp, UpdateTimer, sleepVars
  <2> QED
    BY <2>1, <2>2, <2>3, <2>4 DEF Next
<1> QED
  BY <1>1, Invariance, PTL DEF Spec, VerdictHonoursReplies

-----------------------------------------------------------------------------
(* The report of an activity update.                                        *)

\* Messages of the round that were not read as an answer, and those that were.
Open(s) == s \in {"asked", "data", "over", "error", "gotError"}
Read(s) == s \in {"gotData", "gotOver"}
Got(m, t) == {p \in Pids : Read(m[p][t])}

\* All accepted requests but that of the open round are reported; the round waits for
\* those it asked and has not heard, and has collected what the others said.
ReportRound ==
  /\ requests = report.count + One(updToken # NoToken)
  /\ updToken # NoToken =>
       /\ \A p \in Pids : p \in updPending <=> Open(update[p][updToken])
       /\ updActives => actives = Got(update, updToken)
       /\ overflow <=> \E p \in Pids : update[p][updToken] = "gotOver"

\* What ReportComplete says of a step that reports.
Complete ==
  LET t == report'.token
      got == {p \in Pids : update'[p][t] \in {"gotData", "gotOver"}}
      sent == {p \in Pids : update[p][t] # "none"}
  IN /\ report'.count = requests'
     /\ updActives' => report'.actives = got
     /\ ~updActives' => /\ report'.timedOut = sent \ got
                        /\ report'.overflow = \E p \in sent : update'[p][t] = "gotOver"

\* Messages move, but the round reads none of them.
LEMMA RoundMoves ==
  ASSUME ReportRound,
         UNCHANGED <<updToken, updPending, updActives, overflow, actives, requests, report>>,
         updToken # NoToken => \A p \in Pids :
           /\ Open(update'[p][updToken]) <=> Open(update[p][updToken])
           /\ Read(update'[p][updToken]) <=> Read(update[p][updToken])
           /\ update'[p][updToken] = "gotOver" <=> update[p][updToken] = "gotOver"
  PROVE  ReportRound'
<1>1. requests' = report'.count + One(updToken' # NoToken)
  BY DEF ReportRound, One
<1>2. ASSUME updToken # NoToken
      PROVE  /\ \A p \in Pids : p \in updPending' <=> Open(update'[p][updToken])
             /\ updActives' => actives' = Got(update', updToken)
             /\ overflow' <=> \E p \in Pids : update'[p][updToken] = "gotOver"
  <2>1. Got(update', updToken) = Got(update, updToken)
    BY <1>2 DEF Got
  <2> QED
    BY <1>2, <2>1 DEF ReportRound
<1> QED
  BY <1>1, <1>2 DEF ReportRound

\* The report of a round accounts for all it asked.
LEMMA ReportFact ==
  ASSUME UpdateTypeOK, NEW t \in 0..UInt32Max, NEW only \in BOOLEAN,
         NEW data, NEW late, NEW over \in BOOLEAN,
         SendReport(t, only, data, late, over),
         updActives' = only, requests' = report.count + 1,
         only => data = Got(update', t),
         late = {p \in Pids : update[p][t] # "none"} \ Got(update', t),
         \A p \in Pids : update'[p][t] = "gotOver" => update[p][t] # "none",
         over <=> \E p \in Pids : update'[p][t] = "gotOver"
  PROVE  Complete
<1>1. /\ report'.count = report.count + 1 /\ report'.token = t
      /\ report'.actives = (IF only THEN data ELSE {})
      /\ report'.timedOut = (IF only THEN {} ELSE late)
      /\ report'.overflow = (~only /\ over)
  BY DEF SendReport
<1>2. Got(update', t) = {p \in Pids : update'[p][t] \in {"gotData", "gotOver"}}
  BY DEF Got, Read
<1>3. CASE only
  BY <1>1, <1>2, <1>3 DEF Complete
<1>4. CASE ~only
  <2> DEFINE sent == {p \in Pids : update[p][t] # "none"}
  <2>1. (\E p \in sent : update'[p][t] = "gotOver") <=> over
    OBVIOUS
  <2>2. report'.timedOut = sent \ {p \in Pids : update'[p][t] \in {"gotData", "gotOver"}}
    BY <1>1, <1>2, <1>4
  <2>3. report'.overflow = \E p \in sent : update'[p][t] = "gotOver"
    BY <1>1, <1>4, <2>1
  <2> QED
    BY <1>1, <1>4, <2>2, <2>3 DEF Complete
<1> QED
  BY <1>3, <1>4

LEMMA OpenTokenFact ==
  ASSUME IndInv
  PROVE  /\ updToken # NoToken => updToken \in UpdateTokens
         /\ \A p \in Pids, t \in UpdateTokens : update[p][t] \in UpdateStatus
         /\ update \in [Pids -> [UpdateTokens -> UpdateStatus]]
BY BoundsAssumption DEF IndInv, TypeOK, UpdateTypeOK, UpdateTokens, NoToken, BoundsAssumption

LEMMA ExitsReport ==
  ASSUME IndInv, ReportRound, NEW p \in Pids, ProcessExits(p)
  PROVE  ReportRound'
<1>1. /\ UNCHANGED <<updToken, updPending, updActives, overflow, actives, requests, report>>
      /\ update' = [update EXCEPT ![p] = [t \in UpdateTokens |->
                      IF update[p][t] = "asked" THEN "error" ELSE update[p][t]]]
  BY DEF ProcessExits
<1>2. ASSUME updToken # NoToken, NEW q \in Pids
      PROVE  /\ Open(update'[q][updToken]) <=> Open(update[q][updToken])
             /\ Read(update'[q][updToken]) <=> Read(update[q][updToken])
             /\ update'[q][updToken] = "gotOver" <=> update[q][updToken] = "gotOver"
  <2>1. updToken \in UpdateTokens /\ update \in [Pids -> [UpdateTokens -> UpdateStatus]]
    BY <1>2, OpenTokenFact
  <2>2. CASE q = p
    BY <1>1, <2>1, <2>2 DEF Open, Read
  <2>3. CASE q # p
    BY <1>1, <2>1, <2>3
  <2> QED
    BY <2>2, <2>3
<1> QED
  BY <1>1, <1>2, RoundMoves

LEMMA AnswersReport ==
  ASSUME IndInv, ReportRound, NEW p \in Pids, NEW t \in UpdateTokens, ClientAnswersUpdate(p, t)
  PROVE  ReportRound'
<1>1. /\ UNCHANGED <<updToken, updPending, updActives, overflow, actives, requests, report>>
      /\ update[p][t] = "asked"
  BY DEF ClientAnswersUpdate
<1>2. PICK a \in {"data", "over"} : update' = [update EXCEPT ![p][t] = a]
  BY DEF ClientAnswersUpdate
<1>3. update \in [Pids -> [UpdateTokens -> UpdateStatus]]
  BY OpenTokenFact
<1>4. ASSUME NEW q \in Pids, NEW u \in UpdateTokens
      PROVE  /\ Open(update'[q][u]) <=> Open(update[q][u])
             /\ Read(update'[q][u]) <=> Read(update[q][u])
             /\ update'[q][u] = "gotOver" <=> update[q][u] = "gotOver"
  <2>1. CASE q = p /\ u = t
    BY <1>1, <1>2, <1>3, <2>1 DEF Open, Read
  <2>2. CASE ~(q = p /\ u = t)
    BY <1>2, <1>3, <2>2
  <2> QED
    BY <2>1, <2>2
<1> QED
  BY <1>1, <1>4, OpenTokenFact, RoundMoves

\* A round starts, and reports at once if there is nobody to ask.
LEMMA StartReport ==
  ASSUME IndInv, ReportRound, NEW only \in BOOLEAN, checkForAssertionActivityUpdates(only)
  PROVE  ReportRound' /\ (report' = report \/ Complete)
<1> DEFINE t == generateAssertionActivityUpdateToken
<1>1. /\ UpdateTypeOK /\ UpdateRound /\ updToken = NoToken /\ updPending = {}
      /\ requests' = requests + 1 /\ overflow' = FALSE /\ updActives' = only
      /\ actives' = (IF only THEN {} ELSE actives)
      /\ updPending' = updPending \cup Reachable
      /\ update' = [p \in Pids |-> [u \in UpdateTokens |->
           IF u = t /\ p \in Reachable THEN Sent(p)
           ELSE IF update[p][u] \in {"gotData", "gotOver", "gotError"} THEN "none"
           ELSE update[p][u]]]
  BY DEF IndInv, TypeOK, UpdateRound, checkForAssertionActivityUpdates
<1>2. t = lastToken + 1 /\ t \in UpdateTokens /\ t # NoToken /\ t \in 0..UInt32Max
  <2>1. lastToken = requests /\ requests < MaxUpdate /\ MaxUpdate <= UInt32Max
        /\ requests \in Nat /\ UInt32Max \in Nat /\ MaxUpdate \in Nat
    BY <1>1, BoundsAssumption, NoTokenReuse
       DEF UpdateRound, UpdateTypeOK, checkForAssertionActivityUpdates, BoundsAssumption,
           NoTokenReuse
  <2>2. t = lastToken + 1
    BY <2>1 DEF generateAssertionActivityUpdateToken
  <2> HIDE DEF t
  <2> QED
    BY <2>1, <2>2 DEF UpdateTokens, NoToken
<1>3. \A p \in Pids : update[p][t] = "none"
  <2>1. t > lastToken
    BY <1>1, <1>2 DEF UpdateTypeOK
  <2> HIDE DEF t
  <2> QED
    BY <1>1, <1>2, <2>1 DEF UpdateRound
<1> HIDE DEF t
<1>4. \A p \in Pids : update'[p][t] = IF p \in Reachable THEN Sent(p) ELSE "none"
  BY <1>1, <1>2, <1>3
<1>5. \A p \in Pids : Sent(p) \in {"asked", "error"}
  BY DEF Sent
<1>6. /\ requests = report.count /\ report.count \in Nat
  BY <1>1 DEF ReportRound, One, UpdateTypeOK
<1>7. /\ \A p \in Pids : p \in Reachable <=> Open(update'[p][t])
      /\ Got(update', t) = {} /\ \A p \in Pids : update'[p][t] # "gotOver"
  BY <1>4, <1>5 DEF Open, Read, Got
<1>8. CASE Reachable = {}
  <2>1. SendReport(t, only, {}, {}, FALSE) /\ updToken' = updToken
    BY <1>1, <1>8 DEF checkForAssertionActivityUpdates, t
  <2>2. report'.count = report.count + 1
    BY <2>1 DEF SendReport
  <2>3. ReportRound'
    BY <1>1, <1>6, <2>1, <2>2 DEF ReportRound, One
  <2>4. {p \in Pids : update[p][t] # "none"} = {}
    BY <1>3
  <2>5. /\ only => {} = Got(update', t)
        /\ {} = {p \in Pids : update[p][t] # "none"} \ Got(update', t)
        /\ \A p \in Pids : update'[p][t] = "gotOver" => update[p][t] # "none"
        /\ FALSE <=> \E p \in Pids : update'[p][t] = "gotOver"
    BY <1>7, <2>4
  <2>6. Complete
    BY <1>1, <1>2, <1>6, <2>1, <2>5, ReportFact
  <2> QED
    BY <2>3, <2>6
<1>9. CASE Reachable # {}
  <2>1. updToken' = t /\ report' = report
    BY <1>1, <1>9 DEF checkForAssertionActivityUpdates, t
  <2>2. updPending' = Reachable
    BY <1>1
  <2>3. Reachable \subseteq Pids
    BY DEF Reachable
  <2>4. requests' = report'.count + One(updToken' # NoToken)
    BY <1>1, <1>2, <1>6, <2>1 DEF One
  <2>5. updActives' => actives' = Got(update', updToken')
    BY <1>1, <1>7, <2>1
  <2> QED
    BY <1>1, <1>7, <2>1, <2>2, <2>4, <2>5 DEF ReportRound
<1> QED
  BY <1>8, <1>9

\* A reply that counts is in the report, and the last one makes it.
LEMMA ReplyReport ==
  ASSUME IndInv, ReportRound, NEW p \in Pids, NEW t \in UpdateTokens,
         processAssertionActivityUpdateResp(p, t)
  PROVE  ReportRound' /\ (report' = report \/ Complete)
<1> DEFINE s == update[p][t]
           counts == s # "error" /\ t = updToken /\ Known(p)
           data == IF updActives THEN actives \cup {p} ELSE actives
           over == overflow \/ s = "over"
<1>1. /\ UpdateTypeOK /\ s \in {"data", "over", "error"}
      /\ update \in [Pids -> [UpdateTokens -> UpdateStatus]]
      /\ t # NoToken /\ t \in 0..UInt32Max
      /\ requests' = requests /\ updActives' = updActives /\ updActives \in BOOLEAN
      /\ overflow \in BOOLEAN
  BY OpenTokenFact, BoundsAssumption
     DEF IndInv, TypeOK, UpdateTypeOK, processAssertionActivityUpdateResp, UpdateTokens, NoToken,
         BoundsAssumption
<1>2. CASE ~counts
  <2>1. UNCHANGED <<updToken, updPending, updActives, overflow, actives, requests, report>>
    BY <1>2 DEF processAssertionActivityUpdateResp
  <2>2. update' = [update EXCEPT ![p][t] = IF t = updToken THEN "gotError" ELSE "none"]
    BY <1>2 DEF processAssertionActivityUpdateResp
  <2>3. ASSUME updToken # NoToken, NEW q \in Pids
        PROVE  /\ Open(update'[q][updToken]) <=> Open(update[q][updToken])
               /\ Read(update'[q][updToken]) <=> Read(update[q][updToken])
               /\ update'[q][updToken] = "gotOver" <=> update[q][updToken] = "gotOver"
    <3>1. updToken \in UpdateTokens
      BY <2>3, OpenTokenFact
    <3>2. CASE q = p /\ updToken = t
      <4>1. update'[q][updToken] = "gotError"
        BY <1>1, <2>2, <3>2
      <4> QED
        BY <1>1, <3>2, <4>1 DEF Open, Read
    <3>3. CASE ~(q = p /\ updToken = t)
      BY <1>1, <2>2, <3>1, <3>3
    <3> QED
      BY <3>2, <3>3
  <2> QED
    BY <2>1, <2>3, RoundMoves
<1>3. CASE counts
  <2>1. t = updToken /\ updToken # NoToken
    BY <1>1, <1>3
  <2>2. /\ update' = [update EXCEPT ![p][t] = IF s = "over" THEN "gotOver" ELSE "gotData"]
        /\ actives' = data /\ overflow' = over /\ updPending' = updPending \ {p}
    BY <1>3 DEF processAssertionActivityUpdateResp
  <2>3. /\ \A q \in Pids : q # p => update'[q][t] = update[q][t]
        /\ update'[p][t] = IF s = "over" THEN "gotOver" ELSE "gotData"
    BY <1>1, <2>2
  <2>4. /\ \A q \in Pids : q \in updPending <=> Open(update[q][t])
        /\ updActives => actives = Got(update, t)
        /\ overflow <=> \E q \in Pids : update[q][t] = "gotOver"
        /\ requests = report.count + 1
    BY <2>1 DEF ReportRound, One
  <2>5. Read(update'[p][t]) /\ ~Open(update'[p][t]) /\ Open(s) /\ ~Read(s)
    BY <1>1, <2>3 DEF Open, Read
  <2>6. \A q \in Pids : q \in updPending \ {p} <=> Open(update'[q][t])
    BY <2>3, <2>4, <2>5
  <2>7. updActives => data = Got(update', t)
    BY <2>3, <2>4, <2>5 DEF Got
  <2>8. over <=> \E q \in Pids : update'[q][t] = "gotOver"
    <3>1. update'[p][t] = "gotOver" <=> s = "over"
      BY <2>3
    <3>2. s # "gotOver"
      BY <1>1
    <3> QED
      BY <2>3, <2>4, <3>1, <3>2
  <2>9. over \in BOOLEAN
    OBVIOUS
  <2>10. CASE updPending \ {p} = {}
    <3>1. SendReport(t, updActives, data, {}, over) /\ updToken' = NoToken
      BY <1>3, <2>10 DEF processAssertionActivityUpdateResp
    <3> HIDE DEF data, over
    <3>2. report'.count = report.count + 1
      BY <3>1 DEF SendReport
    <3>3. ReportRound'
      <4>1. report.count \in Nat
        BY <1>1 DEF UpdateTypeOK
      <4> QED
        BY <1>1, <2>4, <3>1, <3>2, <4>1 DEF ReportRound, One
    <3>4. \A q \in Pids : update[q][t] # "none" => Read(update'[q][t])
      <4> SUFFICES ASSUME NEW q \in Pids, update[q][t] # "none", ~Read(update'[q][t])
                   PROVE  FALSE
        OBVIOUS
      <4>1. q # p /\ update'[q][t] = update[q][t]
        BY <2>3, <2>5
      <4>2. update[q][t] \in UpdateStatus
        BY <1>1
      <4>3. Open(update'[q][t])
        BY <4>1, <4>2 DEF Open, Read, UpdateStatus
      <4> QED
        BY <2>6, <2>10, <4>3
    <3>5. {} = {q \in Pids : update[q][t] # "none"} \ Got(update', t)
      BY <3>4 DEF Got
    <3>6. \A q \in Pids : update'[q][t] = "gotOver" => update[q][t] # "none"
      BY <1>1, <2>3
    <3>7. Complete
      BY <1>1, <2>4, <2>7, <2>8, <2>9, <3>1, <3>5, <3>6, ReportFact
    <3> QED
      BY <3>3, <3>7
  <2>11. CASE updPending \ {p} # {}
    <3>1. updToken' = updToken /\ report' = report
      BY <1>3, <2>11 DEF processAssertionActivityUpdateResp
    <3> HIDE DEF data, over
    <3> QED
      BY <1>1, <2>1, <2>2, <2>4, <2>6, <2>7, <2>8, <3>1 DEF ReportRound, One
  <2> QED
    BY <2>10, <2>11
<1> QED
  BY <1>2, <1>3

\* The timer names those that did not answer.
LEMMA TimerReport ==
  ASSUME IndInv, ReportRound, UpdateTimer
  PROVE  ReportRound' /\ (report' = report \/ Complete)
<1>1. /\ UpdateTypeOK /\ UpdateRound /\ update \in [Pids -> [UpdateTokens -> UpdateStatus]]
      /\ UNCHANGED <<updActives, overflow, actives, update, requests>>
      /\ report.count \in Nat
  BY OpenTokenFact DEF IndInv, TypeOK, UpdateTypeOK, UpdateTimer
<1>2. CASE updPending = {}
  <2>1. UNCHANGED <<updToken, updPending, report>>
    BY <1>2 DEF UpdateTimer
  <2> QED
    BY <1>1, <2>1, RoundMoves
<1>3. CASE updPending # {}
  <2>1. /\ updToken' = NoToken
        /\ SendReport(updToken, updActives, actives, updPending, overflow)
    BY <1>3 DEF UpdateTimer
  <2>2. updToken # NoToken /\ updToken \in UpdateTokens
    BY <1>1, <1>3, OpenTokenFact DEF UpdateRound
  <2>3. /\ \A q \in Pids : q \in updPending <=> Open(update[q][updToken])
        /\ updActives => actives = Got(update, updToken)
        /\ overflow <=> \E q \in Pids : update[q][updToken] = "gotOver"
        /\ requests = report.count + 1
    BY <2>2 DEF ReportRound, One
  <2>4. report'.count = report.count + 1
    BY <2>1 DEF SendReport
  <2>5. ReportRound'
    BY <1>1, <2>1, <2>3, <2>4 DEF ReportRound, One
  <2>6. ASSUME NEW q \in Pids
        PROVE  Open(update[q][updToken])
                 <=> update[q][updToken] # "none" /\ ~Read(update[q][updToken])
    <3>1. update[q][updToken] \in UpdateStatus
      BY <1>1, <2>2
    <3> QED
      BY <3>1 DEF Open, Read, UpdateStatus
  <2>7. updPending = {q \in Pids : update[q][updToken] # "none"} \ Got(update', updToken)
    <3>1. updPending \subseteq Pids
      BY <1>1 DEF UpdateTypeOK
    <3> QED
      BY <1>1, <2>3, <2>6, <3>1 DEF Got
  <2>8. Complete
    <3>1. updToken \in 0..UInt32Max /\ updActives \in BOOLEAN /\ overflow \in BOOLEAN
      BY <1>1 DEF UpdateTypeOK
    <3>2. updActives' = updActives /\ requests' = report.count + 1
      BY <1>1, <2>3
    <3>3. updActives => actives = Got(update', updToken)
      BY <1>1, <2>3
    <3>4. /\ \A q \in Pids : update'[q][updToken] = "gotOver" => update[q][updToken] # "none"
          /\ overflow <=> \E q \in Pids : update'[q][updToken] = "gotOver"
      BY <1>1, <2>3
    <3> QED
      BY <1>1, <2>1, <2>7, <3>1, <3>2, <3>3, <3>4, ReportFact
  <2> QED
    BY <2>5, <2>8
<1> QED
  BY <1>2, <1>3

LEMMA ReportStep ==
  ASSUME IndInv, ReportRound, [Next]_vars
  PROVE  ReportRound' /\ (report' = report \/ Complete)
<1>1. CASE UNCHANGED updateVars
  BY <1>1, RoundMoves DEF updateVars
<1>2. CASE ProcessNext
  <2>1. CASE \E p \in Pids : ProcessExits(p)
    BY <2>1, ExitsReport DEF ProcessExits
  <2>2. CASE ~\E p \in Pids : ProcessExits(p)
    <3>1. UNCHANGED updateVars
      BY <1>2, <2>2
         DEF ProcessNext, asyncAssertionInitialConnection, asyncAssertionCreate,
             asyncAssertionRelease, processSetAssertionState, HandleProcessExit
    <3> QED
      BY <1>1, <3>1
  <2> QED
    BY <2>1, <2>2
<1>3. CASE SleepNext
  <2>1. UNCHANGED updateVars
    BY <1>3
       DEF SleepNext, checkForAsyncAssertions, CheckTimer, ClientAnswersCheck,
           processAssertionCheckResp
  <2> QED
    BY <1>1, <2>1
<1>4. CASE UpdateNext
  <2>1. ASSUME NEW p \in Pids, NEW t \in UpdateTokens, ClientAnswersUpdate(p, t)
        PROVE  ReportRound' /\ report' = report
    BY <2>1, AnswersReport DEF ClientAnswersUpdate
  <2> QED
    BY <1>4, <2>1, StartReport, TimerReport, ReplyReport DEF UpdateNext
<1>5. CASE UNCHANGED vars
  BY <1>1, <1>5 DEF vars
<1> QED
  BY <1>2, <1>3, <1>4, <1>5 DEF Next

\* Every accepted activity request is reported exactly once, and its report accounts
\* for every client that was asked (processAssertionActivityUpdateResp and the timer of
\* checkForAssertionActivityUpdates), for any number of clients and requests.
THEOREM ReportIsComplete == Spec => ReportComplete
<1> DEFINE body ==
      \/ report' = report
      \/ LET t == report'.token
             got == {p \in Pids : update'[p][t] \in {"gotData", "gotOver"}}
             sent == {p \in Pids : update[p][t] # "none"}
         IN /\ report'.count = requests'
            /\ updActives' => report'.actives = got
            /\ ~updActives' =>
                 /\ report'.timedOut = sent \ got
                 /\ report'.overflow = \E p \in sent : update'[p][t] = "gotOver"
<1>1. Init => ReportRound
  BY DEF Init, ReportRound, NoReport, One
<1>2. IndInv /\ ReportRound /\ [Next]_vars => ReportRound'
  BY ReportStep
<1>3. IndInv /\ ReportRound /\ [Next]_vars => [body]_vars
  BY ReportStep DEF Complete
<1>4. ReportComplete <=> [][body]_vars
  BY DEF ReportComplete
<1> HIDE DEF body
<1> QED
  BY <1>1, <1>2, <1>3, <1>4, Invariance, PTL DEF Spec
=============================================================================
