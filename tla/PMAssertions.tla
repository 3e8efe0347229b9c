---------------------------- MODULE PMAssertions ----------------------------
(***************************************************************************)
(* The assertion table of powerd, pmconfigd/PMAssertions.c: processes      *)
(* create, change, retain and release assertions; each assertion sits in   *)
(* one of four lists of its type; and the handlers of the types turn the   *)
(* lists into what the kernel is told: the driver assertion bits for       *)
(* demand and display sleep, and the override of the idle sleep setting.   *)
(*                                                                         *)
(* Every handler runs on powerd's main queue, so an action is a whole      *)
(* handler.  Two things move on their own: time, and the power source,     *)
(* which the battery queue changes at once while the evaluation it asks    *)
(* for waits its turn on the main queue.                                   *)
(***************************************************************************)
EXTENDS Integers, FiniteSets

CONSTANTS
  Ids,        \* slots of gAssertionsArray
  Pids,       \* client processes
  NoPid,      \* the zero pid
  Types,      \* the assertion types of this instance
  Durations,  \* timeouts a client asks for; 0 is none
  MaxTime,    \* bound: the clock stops here
  MaxRefs,    \* bound: retain count of one assertion
  MaxDisabled,\* bound: types that root has disabled at once
  Ops         \* the optional requests this instance makes

AllTypes == {"PreventIdle", "DeclareSystemActivity", "PreventSleep",
             "SRPreventSleep", "SoftwareUpdate", "PreventDisplaySleep",
             "IntPreventDisplaySleep", "DeclareUserActivity", "NetworkAccess"}
AllOps == {"suspend",           \* a third process suspends and resumes clients
           "onBehalf",          \* assertions name a causing process
           "limited",           \* clients change AppliesToLimitedPower
           "limitedInactive",   \* ... also while the assertion is on no active list
           "bothWays",          \* the level and timeout keys of one request change the
                                \* level there and back: off, and on by the deadline
           "releaseSuspended",  \* a suspended assertion may be released
           "setSuspended",      \* ... and one whose suspended process is forgotten set
           "power",             \* the power source changes
           "flicker"}           \* ... again before the change was evaluated

ASSUME ConstantsAssumption ==
  /\ IsFiniteSet(Ids)
  /\ NoPid \notin Pids
  /\ Types \subseteq AllTypes
  /\ Durations \subseteq Nat
  /\ MaxTime \in Nat /\ MaxRefs \in Nat \ {0} /\ MaxDisabled \in Nat
  /\ Ops \subseteq AllOps

NotValidOnBatt == {"PreventSleep", "SRPreventSleep"}
Effects == {"PrevIdleSlp", "PrevDemandSlp", "PrevDisplaySlp"}
NoEffect == "NoEffect"
Powers == {"AC", "Batt"}

VARIABLES
  asrt,      \* gAssertionsArray and the lists: each slot's assertion
  count,     \* validOnBattCount of each type
  effect,    \* effectIdx of each type
  disabled,  \* types with a positive disableCnt
  level,     \* aggregate_assertions: the types that are raised
  raised,    \* effects the kernel was told of: kerAssertionBits, and the
             \* kPMPreventIdleSleep override for PrevIdleSlp
  timer,     \* when the dispatch timer of each type fires; 0 is never
  kick,      \* a handleAssertionTimeout block of the type is queued
  suspended, \* processes with isSuspended
  now,       \* getMonotonicTime
  power,     \* _getPowerSource, kept by the battery queue
  prevPower, \* prevPwrSrc of evaluateForPSChange
  evalQueued \* an evaluateForPSChange block is queued

tables == <<asrt, count, suspended>>
config == <<effect, disabled>>
kernel == <<level, raised>>
timers == <<timer, kick>>
powers == <<power, prevPower, evalQueued>>
vars == <<tables, config, kernel, timers, now, powers>>

Free == [list |-> "free", type |-> "none", pid |-> NoPid, cause |-> NoPid,
         behalf |-> NoPid, refs |-> 0, on |-> FALSE, limited |-> FALSE, batt |-> FALSE,
         dur |-> 0, timeout |-> 0, left |-> 0, drop |-> FALSE]

-----------------------------------------------------------------------------
(* What is active, and what the handlers make of it.                        *)

Used == {i \in Ids : asrt[i].list # "free"}
IsActive(a) == a.list \in {"active", "timed"}

\* typeActive of checkForActives: on battery a type that is not valid there is
\* active only through its counter.
TypeActive(T, as, ct) ==
  IF T \in NotValidOnBatt /\ power = "Batt"
    THEN ct[T] > 0
    ELSE \E i \in Ids : as[i].type = T /\ IsActive(as[i])

\* checkForActives over the types linked to an effect.
EffectActive(E, as, ct, linked) ==
  \E T \in Types : linked[T] = E /\ TypeActive(T, as, ct)

\* The handlers of the types S, called for the operation op: setKernelAssertions
\* for the demand and display effects, modifySettings for the idle effect.  The
\* first compares with the bit it last sent, the second with the level of the
\* type it is called for.  "linked" differs from "eff" while a type is moved
\* between effects.  Calling the handlers of several types one after the other
\* ends in the state this gives at once: the last call sees all of the lists.
LevelAfter(lv, S, as, ct, eff, linked) ==
  [T \in Types |-> IF T \in S /\ eff[T] # NoEffect
                     THEN linked[T] = eff[T] /\ TypeActive(T, as, ct)
                     ELSE lv[T]]
setKernelAssertions(was, op, active) ==
  CASE op = "Raise"   -> was \/ active
    [] op = "Release" -> was /\ active
    [] op = "Eval"    -> active
modifySettingsEager(was, lvs, op, active) ==  \* mutant: a release does not look for others
  \/ active /\ op # "Release" /\ FALSE \in lvs
  \/ was /\ ~(op # "Raise" /\ TRUE \in lvs)
modifySettings(was, lvs, op, active) ==
  \/ active /\ op # "Release" /\ FALSE \in lvs
  \/ was /\ ~(~active /\ op # "Raise" /\ TRUE \in lvs)
RaisedAfter(ra, lv, S, op, as, ct, eff, linked) ==
  {E \in Effects :
     LET mine == {T \in S \cap Types : eff[T] = E}
         active == EffectActive(E, as, ct, linked)
     IN IF mine = {} THEN E \in ra
        ELSE IF E = "PrevIdleSlp"
          THEN modifySettings(E \in ra, {lv[T] : T \in mine}, op, active)
          ELSE setKernelAssertions(E \in ra, op, active)}

CallHandlers(S, op, as, ct) ==
  /\ level' = LevelAfter(level, S, as, ct, effect, effect)
  /\ raised' = RaisedAfter(raised, level, S, op, as, ct, effect, effect)

-----------------------------------------------------------------------------
(* The lists.  activeTimed is sorted by timeout, so its head is the minimum. *)

Timed(T, as) == {i \in Ids : as[i].type = T /\ as[i].list = "timed"}
Heads(T, as) == {i \in Timed(T, as) :
                   \A j \in Timed(T, as) : as[i].timeout <= as[j].timeout}
HeadTime(T, as) == LET i == CHOOSE i \in Heads(T, as) : TRUE IN as[i].timeout

\* Mutant: the timer is set only for the first timed assertion of the type.
MustArmFirst(T, was, as) == Timed(T, as) # {} /\ Timed(T, was) = {}

\* resetAssertionTimer and updateAssertionTimer: called when the head of the
\* list changes; a head that is due already is handled by a queued block.
MustArm(T, was, as) ==
  /\ Timed(T, as) # {}
  /\ Timed(T, was) = {} \/ HeadTime(T, as) # HeadTime(T, was)
ArmTimers(was, as, tm, kk) ==
  /\ timer' = [T \in Types |-> IF MustArm(T, was, as) /\ HeadTime(T, as) > now
                                 THEN HeadTime(T, as) ELSE tm[T]]
  /\ kick' = [T \in Types |-> kk[T] \/ (MustArm(T, was, as) /\ HeadTime(T, as) <= now)]

\* insertActiveAssertion and insertTimedAssertion count an assertion that is
\* valid on battery; every removal but one from the inactive list decrements a
\* positive count, the removal of a suspended assertion too (releaseAssertion).
Counted(a) == a.type \in NotValidOnBatt /\ a.batt /\ IsActive(a)
CountInAll(as, S) ==   \* mutant: counted whether valid on battery or not
  [T \in Types |-> count[T] + Cardinality({i \in S : as[i].type = T /\ IsActive(as[i])})]
CountIn(as, S) ==
  [T \in Types |-> count[T] + Cardinality({i \in S : as[i].type = T /\ Counted(as[i])})]
CountOut(S) ==
  [T \in Types |->
     LET n == Cardinality({i \in S : /\ asrt[i].type = T /\ asrt[i].batt
                                     /\ asrt[i].list # "inactive"})
     IN IF n > count[T] THEN 0 ELSE count[T] - n]

\* raiseAssertion: the state bit and the causing process from the properties, unless
\* the level is off, and the choice of the list.
Raise(a) ==
  LET b == [a EXCEPT !.batt = @ \/ (a.type \in NotValidOnBatt /\ a.limited),
                     !.cause = a.behalf] IN
  IF ~a.on THEN [a EXCEPT !.list = "inactive"]
  ELSE IF a.dur # 0 THEN [b EXCEPT !.list = "timed", !.timeout = now + a.dur]
  ELSE [b EXCEPT !.list = "active"]

\* A ProcessInfo goes with the last assertion of its process, isSuspended too.
StillKnown(as) == {p \in suspended : \E i \in Ids : as[i].pid = p}

-----------------------------------------------------------------------------
(* Requests of the clients.                                                 *)

\* doCreate: a suspended process is refused, and so is one that finds no slot.
doCreate(i, p) ==
  /\ asrt[i].list = "free"
  /\ p \notin suspended
  /\ \E T \in Types, on, limited, drop \in BOOLEAN, d \in Durations,
        q \in (IF "onBehalf" \in Ops THEN Pids \ {p} ELSE {}) \cup {NoPid} :
       LET a == Raise([Free EXCEPT !.type = T, !.pid = p, !.behalf = q, !.refs = 1,
                         !.on = on, !.limited = limited, !.dur = d, !.drop = drop])
           as == [asrt EXCEPT ![i] = a]
           ct == CountIn(as, {i})
       IN /\ limited => T \in NotValidOnBatt  \* elsewhere the key has no effect
          /\ drop => d # 0                     \* nor has the action without a timeout
          /\ asrt' = as
          /\ count' = ct
          /\ IF IsActive(a) THEN CallHandlers({T}, "Raise", as, ct)
                            ELSE UNCHANGED kernel
          /\ ArmTimers(asrt, as, timer, kick)
  /\ UNCHANGED <<suspended, config, now, powers>>

doRetain(i) ==
  /\ asrt[i].list # "free" /\ asrt[i].refs < MaxRefs
  /\ asrt' = [asrt EXCEPT ![i] = [@ EXCEPT !.refs = asrt[i].refs + 1]]
  /\ UNCHANGED <<count, suspended, config, kernel, timers, now, powers>>

MayRelease(S) == "releaseSuspended" \in Ops \/ \A i \in S : asrt[i].list # "suspended"

\* doRelease; the last reference takes the assertion off its list.
doRelease(i) ==
  /\ asrt[i].list # "free"
  /\ IF asrt[i].refs > 1
       THEN /\ asrt' = [asrt EXCEPT ![i] = [@ EXCEPT !.refs = asrt[i].refs - 1]]
            /\ UNCHANGED <<count, suspended, kernel, timers>>
       ELSE LET as == [asrt EXCEPT ![i] = Free]
                ct == CountOut({i})
            IN /\ MayRelease({i})
               /\ asrt' = as
               /\ count' = ct
               /\ suspended' = StillKnown(as)
               /\ CallHandlers({asrt[i].type}, "Release", as, ct)
               /\ ArmTimers(asrt, as, timer, kick)
  /\ UNCHANGED <<config, now, powers>>

\* HandleProcessExit: everything the process holds, then every handler.  The pid
\* stands for another process from then on.
HandleProcessExit(p) ==
  LET gone == {i \in Used : asrt[i].pid = p}
      as == [i \in Ids |-> IF i \in gone THEN Free ELSE asrt[i]]
      ct == CountOut(gone)
  IN
  /\ gone # {} /\ MayRelease(gone)
  /\ asrt' = as
  /\ count' = ct
  /\ suspended' = suspended \ {p}
  /\ CallHandlers(Types, "Release", as, ct)
  /\ ArmTimers(asrt, as, timer, kick)
  /\ UNCHANGED <<config, now, powers>>

(* doSetProperties: the keys of the request change the state bits and the properties
   one after the other, in the order of the dictionary; what has changed is acted on
   once.                                                                         *)

Keep == -1   \* the request has no timeout key
PropertyRequests ==
  {r \in [level : {"on", "off", "keep"}, timeout : Durations \cup {Keep},
          limited : {"yes", "no", "keep"}, levelFirst : BOOLEAN] :
     /\ r.levelFirst \/ (r.level = "off" /\ r.timeout # Keep)  \* else no difference
     /\ r.limited = "keep" \/ "limited" \in Ops}

\* forwardPropertiesToAssertion, the bits of the level and the timeout key.
forwardLevel(bits, lv) ==
  IF lv = "on" /\ "Inactive" \in bits THEN (bits \ {"Inactive"}) \cup {"ModLevel"}
  ELSE IF lv = "off" /\ "Inactive" \notin bits THEN bits \cup {"Inactive", "ModLevel"}
  ELSE bits
forwardTimeout(bits, timeout) ==
  IF timeout = Keep THEN bits
  ELSE IF "Inactive" \in bits THEN (bits \ {"Inactive"}) \cup {"ModLevel"}
  ELSE bits \cup {"ModTimer"}
Forwarded(i, r) ==
  LET bits == IF asrt[i].list = "inactive" THEN {"Inactive"} ELSE {}
  IN IF r.levelFirst THEN forwardTimeout(forwardLevel(bits, r.level), r.timeout)
     ELSE forwardLevel(forwardTimeout(bits, r.timeout), r.level)

\* forwardPropertiesToAssertion, what the keys store; the key of limited power sets
\* the bit and the count at once, whatever list the assertion is on.
WithProperties(a, r) ==
  LET isLimited == r.limited # "keep" /\ a.type \in NotValidOnBatt IN
  [a EXCEPT !.on = IF r.level = "keep" THEN @ ELSE r.level = "on",
            !.dur = IF r.timeout = Keep THEN @ ELSE r.timeout,
            !.timeout = IF r.timeout = Keep THEN @
                        ELSE IF r.timeout = 0 THEN 0 ELSE now + r.timeout,
            !.limited = IF isLimited THEN r.limited = "yes" ELSE @,
            !.batt = IF isLimited THEN r.limited = "yes" ELSE @]
CountLimited(a, b) ==
  IF b.batt /\ ~a.batt THEN count[a.type] + 1
  ELSE IF ~b.batt /\ a.batt /\ count[a.type] > 0 THEN count[a.type] - 1
  ELSE count[a.type]

\* One assertion leaves an active list, or joins one.
OneLess(a, n) == IF a.batt /\ n > 0 THEN n - 1 ELSE n
OneMore(a, n) == IF Counted(a) THEN n + 1 ELSE n

Becomes(i, c, n) ==
  /\ asrt' = [asrt EXCEPT ![i] = c]
  /\ count' = [count EXCEPT ![c.type] = n]

\* kAssertionModLevel, to the inactive list; from whatever list it is on.
turnOff(i, b, n) ==
  /\ Becomes(i, [b EXCEPT !.list = "inactive"], OneLess(b, n))
  /\ CallHandlers({b.type}, "Release", asrt', count')
  /\ ArmTimers(asrt, asrt', timer, kick)

\* kAssertionModLevel, from the inactive list: it is taken off without being counted
\* out, and without a look at the timer.
turnOn(i, b, n) ==
  LET c == Raise(b) IN
  /\ Becomes(i, c, OneMore(c, n))
  /\ IF IsActive(c) THEN CallHandlers({b.type}, "Raise", asrt', count')
                    ELSE UNCHANGED kernel
  /\ ArmTimers([asrt EXCEPT ![i] = Free], asrt', timer, kick)

\* kAssertionModTimer: off its list and back.  The handler is called once more for a
\* changed limited-power bit, which finds nothing new.
moveDeadline(i, b, n) ==
  LET c == [b EXCEPT !.list = IF b.timeout # 0 THEN "timed" ELSE "active"] IN
  /\ Becomes(i, c, OneMore(c, OneLess(b, n)))
  /\ CallHandlers({b.type}, "Eval", asrt', count')
  /\ ArmTimers(asrt, asrt', timer, kick)

\* kAssertionModPowerConstraint alone, which an inactive assertion does not tell the
\* handler; or no change of state at all.
changePower(i, b, n) ==
  /\ Becomes(i, b, n)
  /\ IF b.batt # asrt[i].batt /\ b.list # "inactive"
       THEN CallHandlers({b.type}, IF b.batt THEN "Raise" ELSE "Release", asrt', count')
       ELSE UNCHANGED kernel
  /\ UNCHANGED timers

\* Mutant: the requests of a suspended process are not refused.
MaySetAlways(i) == asrt[i].list # "free"

\* doSetProperties refuses a suspended owner or causing process.
MaySet(i) == /\ asrt[i].list # "free"
             /\ asrt[i].pid \notin suspended /\ asrt[i].cause \notin suspended

\* An assertion stays on the suspended list when the process it was suspended with
\* goes with an assertion of its own that another one's resuming woke.
Forgotten(i) == /\ asrt[i].list = "suspended"
                /\ asrt[i].pid \notin suspended /\ asrt[i].cause \notin suspended

\* What the instance leaves out; the state was changed twice if its bit is as before.
Allowed(i, b, bits) ==
  /\ "setSuspended" \in Ops \/ bits = {} \/ ~Forgotten(i)
  /\ "limitedInactive" \in Ops \/ IsActive(asrt[i]) \/ b.batt = asrt[i].batt
  /\ "bothWays" \in Ops \/ "ModLevel" \notin bits
       \/ ("Inactive" \in bits <=> asrt[i].list # "inactive")

doSetProperties(i, r) ==
  LET bits == Forwarded(i, r)
      b == WithProperties(asrt[i], r)
      n == CountLimited(asrt[i], b)
  IN
  /\ MaySet(i) /\ Allowed(i, b, bits)
  /\ IF "ModLevel" \in bits
       THEN IF "Inactive" \in bits THEN turnOff(i, b, n) ELSE turnOn(i, b, n)
       ELSE IF "ModTimer" \in bits THEN moveDeadline(i, b, n) ELSE changePower(i, b, n)
  /\ UNCHANGED <<suspended, config, now, powers>>

-----------------------------------------------------------------------------
(* Timeouts.                                                                *)

\* What has reached its deadline; mutant: what is past it.
DueLate(T) == {i \in Timed(T, asrt) : asrt[i].timeout < now}
Due(T) == {i \in Timed(T, asrt) : asrt[i].timeout <= now}

\* handleAssertionTimeout: what is due leaves the timed list, for good or to the
\* inactive list.
ExpireDue(T, tm, kk) ==
  LET due == Due(T)
      as == [i \in Ids |-> IF i \notin due THEN asrt[i]
                           ELSE IF asrt[i].drop THEN Free
                           ELSE [asrt[i] EXCEPT !.list = "inactive"]]
      ct == CountOut(due)
  IN
  /\ asrt' = as
  /\ count' = ct
  /\ suspended' = StillKnown(as)
  /\ IF due # {} THEN CallHandlers({T}, "Release", as, ct) ELSE UNCHANGED kernel
  /\ ArmTimers(asrt, as, tm, kk)
  /\ UNCHANGED <<config, now, powers>>

handleAssertionTimeout(T) ==
  \/ timer[T] # 0 /\ timer[T] <= now /\ ExpireDue(T, [timer EXCEPT ![T] = 0], kick)
  \/ kick[T] /\ ExpireDue(T, timer, [kick EXCEPT ![T] = FALSE])

Tick ==
  /\ now < MaxTime
  /\ now' = now + 1
  /\ UNCHANGED <<tables, config, kernel, timers, powers>>

-----------------------------------------------------------------------------
(* Suspending a process.                                                    *)

Belongs(i, p) == asrt[i].pid = p \/ asrt[i].cause = p

\* handleAssertionSuspend: the time a timed assertion had left is kept in its
\* properties, and releaseAssertion forgets whether it was inactive.
handleAssertionSuspend(p) ==
  LET S == {i \in Used : Belongs(i, p) /\ asrt[i].list # "suspended"}
      as == [i \in Ids |-> IF i \notin S THEN asrt[i]
               ELSE [asrt[i] EXCEPT !.list = "suspended",
                       !.left = IF asrt[i].timeout > now
                                  THEN asrt[i].timeout - now ELSE @]]
      ct == CountOut(S)
  IN
  /\ "suspend" \in Ops
  /\ p \notin suspended /\ \E i \in Ids : asrt[i].pid = p
  /\ asrt' = as
  /\ count' = ct
  /\ suspended' = suspended \cup {p}
  /\ CallHandlers(Types, "Eval", as, ct)
  /\ ArmTimers(asrt, as, timer, kick)
  /\ UNCHANGED <<config, now, powers>>

resumeAssertion(a) ==
  IF ~a.on THEN [a EXCEPT !.list = "inactive"]
  ELSE IF a.left # 0
    THEN [a EXCEPT !.list = "timed", !.timeout = now + a.left, !.left = 0]
  ELSE [a EXCEPT !.list = "active"]

handleAssertionResume(p) ==
  LET S == {i \in Used : Belongs(i, p) /\ asrt[i].list = "suspended"}
      as == [i \in Ids |-> IF i \in S THEN resumeAssertion(asrt[i]) ELSE asrt[i]]
      ct == CountIn(as, S)
  IN
  /\ p \in suspended
  /\ asrt' = as
  /\ count' = ct
  /\ suspended' = suspended \ {p}
  /\ CallHandlers(Types, "Eval", as, ct)
  /\ ArmTimers(asrt, as, timer, kick)
  /\ UNCHANGED <<config, now, powers>>

-----------------------------------------------------------------------------
(* The effect of a type: the power source and the disable count decide.     *)

ConfiguredEffect(T) ==
  CASE T \in {"PreventIdle", "DeclareSystemActivity"} -> "PrevIdleSlp"
    [] T \in {"PreventSleep", "SRPreventSleep", "SoftwareUpdate"} -> "PrevDemandSlp"
    [] T \in {"PreventDisplaySleep", "IntPreventDisplaySleep",
              "DeclareUserActivity"} -> "PrevDisplaySlp"
    [] T = "NetworkAccess" -> IF power = "AC" THEN "PrevDemandSlp" ELSE "PrevIdleSlp"
NewEffectAlways(T, off) == ConfiguredEffect(T)   \* mutant: disableCnt is not read
NewEffect(T, off) == IF T \in off THEN NoEffect ELSE ConfiguredEffect(T)

\* configAssertionType: a type that changes its effect is taken out of the old
\* one, the old handler evaluates what is left there, and the new handler
\* evaluates the effect it joins.
configAssertionType(S, off, lv, ra) ==
  LET moving == {T \in S \cap Types : NewEffect(T, off) # effect[T]}
      out == [T \in Types |-> IF T \in moving THEN NoEffect ELSE effect[T]]
      eff == [T \in Types |-> IF T \in moving THEN NewEffect(T, off) ELSE effect[T]]
      lv1 == LevelAfter(lv, moving, asrt, count, effect, out)
      ra1 == RaisedAfter(ra, lv, moving, "Eval", asrt, count, effect, out)
  IN
  /\ effect' = eff
  /\ level' = LevelAfter(lv1, moving, asrt, count, eff, eff)
  /\ raised' = RaisedAfter(ra1, lv1, moving, "Eval", asrt, count, eff, eff)

\* A second disable, and the enable that takes it back, move no type.
disableAssertionType(T) ==
  /\ T \notin disabled /\ Cardinality(disabled) < MaxDisabled
  /\ disabled' = disabled \cup {T}
  /\ configAssertionType({T}, disabled', level, raised)
  /\ UNCHANGED <<tables, timers, now, powers>>

enableAssertionType(T) ==
  /\ T \in disabled
  /\ disabled' = disabled \ {T}
  /\ configAssertionType({T}, disabled', level, raised)
  /\ UNCHANGED <<tables, timers, now, powers>>

\* The battery queue: a new power source, and a block for the main queue.
PowerChange ==
  /\ IF evalQueued THEN "flicker" \in Ops ELSE "power" \in Ops
  /\ power' \in Powers \ {power}
  /\ evalQueued' = TRUE
  /\ UNCHANGED <<tables, config, kernel, timers, now, prevPower>>

\* InternalEvaluateAssertions' block: nothing to do unless the source differs
\* from the one evaluated last.
evaluateForPSChange ==
  /\ evalQueued
  /\ evalQueued' = FALSE
  /\ prevPower' = power
  /\ IF power = prevPower
       THEN UNCHANGED <<effect, kernel>>
       ELSE configAssertionType({"NetworkAccess"}, disabled,
              LevelAfter(level, Types, asrt, count, effect, effect),
              RaisedAfter(raised, level, Types, "Eval", asrt, count, effect, effect))
  /\ UNCHANGED <<tables, disabled, timers, now, power>>

-----------------------------------------------------------------------------
Init ==
  /\ asrt = [i \in Ids |-> Free]
  /\ count = [T \in Types |-> 0]
  /\ suspended = {} /\ disabled = {}
  /\ power \in Powers /\ prevPower = power /\ evalQueued = FALSE
  /\ effect = [T \in Types |-> NewEffect(T, {})]
  /\ level = [T \in Types |-> FALSE]
  /\ raised = {}
  /\ timer = [T \in Types |-> 0]
  /\ kick = [T \in Types |-> FALSE]
  /\ now = 1

Request ==
  \E i \in Ids : \/ \E p \in Pids : doCreate(i, p)
                 \/ doRetain(i)
                 \/ doRelease(i)
                 \/ \E r \in PropertyRequests : doSetProperties(i, r)

ProcessEvent ==
  \E p \in Pids : \/ HandleProcessExit(p)
                  \/ handleAssertionSuspend(p)
                  \/ handleAssertionResume(p)

Timeout == \E T \in Types : handleAssertionTimeout(T)

Environment ==
  \/ Tick
  \/ \E T \in Types : disableAssertionType(T) \/ enableAssertionType(T)
  \/ PowerChange
  \/ evaluateForPSChange

Next == Request \/ ProcessEvent \/ Timeout \/ Environment

\* Dispatch timers that are due and blocks that are queued are run.
Fairness ==
  /\ \A T \in Types : WF_vars(handleAssertionTimeout(T))
  /\ WF_vars(evaluateForPSChange)
Spec == Init /\ [][Next]_vars /\ Fairness

-----------------------------------------------------------------------------
Lists == {"free", "active", "timed", "inactive", "suspended"}
AssertionType ==
  [list : Lists, type : Types \cup {"none"}, pid : Pids \cup {NoPid},
   cause : Pids \cup {NoPid}, behalf : Pids \cup {NoPid}, refs : 0..MaxRefs, on : BOOLEAN,
   limited : BOOLEAN, batt : BOOLEAN, dur : Nat, timeout : Nat, left : Nat,
   drop : BOOLEAN]

\* Every variable holds values of the C variable it models, and a slot is in use
\* exactly when its assertion has a type, an owner and a reference; the types
\* without an effect are the disabled ones.
TypeOK ==
  /\ asrt \in [Ids -> AssertionType]
  /\ \A i \in Ids : /\ asrt[i].list = "free" <=> asrt[i].type = "none"
                    /\ asrt[i].list = "free" <=> asrt[i].pid = NoPid
                    /\ asrt[i].list = "free" <=> asrt[i].refs = 0
  /\ count \in [Types -> Nat]
  /\ effect \in [Types -> Effects \cup {NoEffect}]
  /\ disabled \subseteq Types
  /\ \A T \in Types : effect[T] = NoEffect <=> T \in disabled
  /\ level \in [Types -> BOOLEAN]
  /\ raised \subseteq Effects
  /\ timer \in [Types -> Nat]
  /\ kick \in [Types -> BOOLEAN]
  /\ suspended \subseteq Pids
  /\ now \in Nat
  /\ power \in Powers /\ prevPower \in Powers
  /\ evalQueued \in BOOLEAN

\* The assertions that ask for an effect on this power source.
Wants(i, E) ==
  LET a == asrt[i] IN
  /\ IsActive(a) /\ a.type \notin disabled
  /\ ConfiguredEffect(a.type) = E
  /\ power = "AC" \/ a.type \notin NotValidOnBatt \/ a.batt

\* With no evaluation outstanding, the kernel has been told of an effect exactly
\* when some active assertion of an enabled type asks for it on the present power
\* source, and the aggregate level of a type says whether one of its own does.
\* The handlers are incremental: each compares with what the previous one left,
\* and a type can leave one effect for another while assertions of it are active.
KernelToldRight ==
  ~evalQueued =>
    /\ raised = {E \in Effects : \E i \in Ids : Wants(i, E)}
    /\ \A T \in Types : level[T] = \E i \in Ids : \E E \in Effects :
                                      asrt[i].type = T /\ Wants(i, E)

\* validOnBattCount is the number of active assertions that apply on battery,
\* through every insertion, removal, change of the property, timeout and suspend.
CountExact ==
  \A T \in Types : count[T] = Cardinality({i \in Ids : asrt[i].type = T /\ Counted(asrt[i])})

\* A type with timed assertions has its one dispatch timer set to the earliest of
\* them, or a block queued that will handle it: no insertion, release, suspend or
\* change of a deadline leaves a later head without a timer.
TimerArmed ==
  \A T \in Types : Timed(T, asrt) # {} =>
    \/ timer[T] = HeadTime(T, asrt)
    \/ kick[T] /\ HeadTime(T, asrt) <= now

\* While a process is suspended none of the assertions it took for itself is on a
\* list that counts: not after a request of its own, a timeout, the resuming of
\* another process, or its own exit and return.
SuspendedStaySilent ==
  \A i \in Used : asrt[i].pid \in suspended /\ asrt[i].cause = NoPid
                   => asrt[i].list = "suspended"

\* An assertion that reaches its deadline leaves the timed list, or is given a
\* later deadline, whatever else the clients do.
DeadlinesAreKept ==
  \A i \in Ids : asrt[i].list = "timed" /\ asrt[i].timeout <= now
                   ~> asrt[i].list # "timed" \/ asrt[i].timeout > now

=============================================================================
