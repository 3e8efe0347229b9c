----------------------------- MODULE SystemLoad -----------------------------
(***************************************************************************)
(* User activity levels and the system load advisory,                      *)
(* pmconfigd/SystemLoad.c.  powerd derives from HID activity, "user is     *)
(* active" assertions, the display and a few other inputs whether a user   *)
(* is there, publishes it as a set of levels, tells every registered       *)
(* client according to the client's own idle timeout, and publishes how    *)
(* good a time it is for work.                                             *)
(*                                                                         *)
(* Handlers run on the main queue.  What HID has to say comes through a    *)
(* queue of its own (sysloadQ) and from there to the main queue; changes   *)
(* of audio and camera assertions and of batteries are queued as well, and *)
(* two timers ask for another evaluation.                                  *)
(***************************************************************************)
EXTENDS Integers, Sequences, FiniteSets

CONSTANTS
  Clients,       \* registrations for user activity: entries of the client list
  Timeouts,      \* idle timeouts they ask for
  MinTimeout,    \* kMinIdleTimeout
  Default,       \* kIOPMDefaultUserActivityTimeout
  Kinds,         \* kinds of assertions the levels depend on
  Readings,      \* what the batteries may report: sequences of batteries
  CpuStates,     \* what the CPU power status may be
  Pressures,     \* thermal pressure levels the platform publishes
  MaxTime,       \* bound: the last tick of the clock
  MaxQueue,      \* bound: blocks waiting on a queue
  MaxChanges     \* bound: changes of clients, settings, load and assertions

NoDate == 0
Forever == MaxTime + Default + 1     \* UINT32_MAX seconds, no timeout is longer

ASSUME SystemLoadAssumption ==
  /\ Timeouts \subseteq 1..Forever /\ MinTimeout <= Forever
  /\ {MinTimeout, Default, MaxTime, MaxQueue} \subseteq Nat \ {0}
  /\ MaxChanges \in Nat
  /\ Kinds \subseteq {"display", "audio", "camera", "network", "tickless"}
  /\ Readings \subseteq Seq([ac : BOOLEAN, current : Nat, max : Nat])
  /\ CpuStates \subseteq [thermal : BOOLEAN, constrained : BOOLEAN, plimit : BOOLEAN]
  /\ Pressures \subseteq {"nominal", "moderate", "heavy"}

VARIABLES
  now,           \* monotonic time in ticks, seconds in the code
  g,             \* the globals of powerd, gUserActive first
  hid,           \* the HID system: is it active, since when not, its threshold
  sysloadQ,      \* blocks on the queue of HID callbacks
  mainQ,         \* blocks other queues have sent to the main queue
  changes        \* how many changes there were
vars == <<now, g, hid, sysloadQ, mainQ, changes>>

-----------------------------------------------------------------------------
(* Activity levels.                                                         *)

Smaller(a, b) == IF a < b THEN a ELSE b

\* Mutant: HID activity counts on a notification wake too.
InactiveAnyway(u) ==
  Smaller(IF u.hidActive THEN 0 ELSE now - u.lastHid,
          IF u.assertionValid THEN now - u.lastAssertion ELSE Forever)

\* HID counts only while the root domain says that the system is active.
getUserInactiveDuration(u) ==
  Smaller(IF ~u.rootDomain THEN Forever
          ELSE IF u.hidActive THEN 0 ELSE now - u.lastHid,
          IF u.assertionValid THEN now - u.lastAssertion ELSE Forever)

\* The levels of a user who does nothing.
PassiveLevels(u) ==
  LET with == {"passive", "withDisplay"}
  IN IF ~u.displayOff /\ ~u.notification
     THEN IF u.asserted \cap {"audio", "display", "camera"} # {} THEN with
          ELSE IF u.displaySleep THEN {} ELSE {"absentWithDisplay"}
     ELSE IF "camera" \in u.asserted THEN with
     ELSE IF "audio" \in u.asserted /\ u.wake = "full" THEN {"passive", "withoutDisplay"}
     ELSE {}

\* The levels everybody can read.
Levels(u) ==
  (IF (~u.displayOff /\ u.userActive) \/ u.oneness THEN {"active"} ELSE PassiveLevels(u))
    \cup (IF "network" \in u.asserted THEN {"remote"} ELSE {})
    \cup (IF "tickless" \in u.asserted THEN {"notification"} ELSE {})

\* The levels a client is told, by its own timeout.
ClientLevels(u, timeout) ==
  IF ~u.displayOff /\ getUserInactiveDuration(u) < timeout
  THEN (u.posted \ {"passive", "withDisplay", "withoutDisplay"}) \cup {"active"}
  ELSE PassiveLevels(u)

updateUserActivityLevels(u) ==
  LET v == [u EXCEPT !.posted = Levels(u), !.unsaid = FALSE]
  IN [v EXCEPT !.clients = [i \in DOMAIN u.clients |->
        [u.clients[i] EXCEPT !.posted = ClientLevels(v, u.clients[i].timeout)]]]

\* Mutant: only the default timeout is waited for.
NoIdleTimeout(u) == 0

\* The timeout of the client that is told next, once there is inactivity.
nextIdleTimeout(u) ==
  LET t == getUserInactiveDuration(u)
      more == {i \in DOMAIN u.clients : t # 0 /\ t < u.clients[i].timeout}
  IN IF more = {} THEN 0 ELSE u.clients[CHOOSE i \in more : \A j \in more : i <= j].timeout

\* Mutant: the levels are told before the new state is known.
EvaluateLate(u) ==
  LET t == getUserInactiveDuration(u)
      active == ~u.displayOff /\ t < Default
      w == [updateUserActivityLevels(u) EXCEPT !.userActive = active]
      waits == {nextIdleTimeout(w), IF active THEN Default ELSE 0} \ {0}
  IN [w EXCEPT !.hidTimer =
        IF waits = {} THEN NoDate
        ELSE now - t + (CHOOSE x \in waits : \A y \in waits : x <= y)]

\* evaluateHidIdleNotification, updateUserActivityState: decide, tell, and ask for
\* the next evaluation.
evaluateHidIdleNotification(u) ==
  LET t == getUserInactiveDuration(u)
      active == ~u.displayOff /\ t < Default
      w == updateUserActivityLevels([u EXCEPT !.userActive = active])
      waits == {nextIdleTimeout(w), IF active THEN Default ELSE 0} \ {0}
  IN [w EXCEPT !.hidTimer =
        IF waits = {} THEN NoDate
        ELSE now - t + (CHOOSE x \in waits : \A y \in waits : x <= y)]

\* setAssertionIdleNotificationTimer.
AssertionTimer(u) ==
  IF u.lastAssertion # 0 /\ u.idleTimeout > now - u.lastAssertion
  THEN [u EXCEPT !.assertionTimer = u.lastAssertion + u.idleTimeout]
  ELSE u

SystemLoadUserActiveAssertions(u, active) ==
  evaluateHidIdleNotification(
    IF active THEN [AssertionTimer([u EXCEPT !.lastAssertion = now])
                      EXCEPT !.assertionValid = TRUE]
    ELSE u)

-----------------------------------------------------------------------------
(* The system load advisory: 3 is great, 2 is OK, 1 is bad.                 *)

BatteryLevel(u) == IF u.battery.ac THEN 3 ELSE IF u.battery.low THEN 1 ELSE 2

PowerLevel(u) ==
  IF u.pressure = "none"
  THEN IF u.cpu.constrained \/ u.cpu.thermal THEN 1 ELSE IF u.cpu.plimit THEN 2 ELSE 3
  ELSE CASE u.pressure = "nominal" -> 3 [] u.pressure = "moderate" -> 2 [] OTHER -> 1

UserLevel(u) ==
  IF ~u.loggedIn THEN 3
  ELSE IF u.displayOff /\ (~u.dwbt \/ u.wake = "bt") THEN 3 ELSE 2

minOfThree(a, b, c) == Smaller(a, Smaller(b, c))
Load(u) == [user |-> UserLevel(u), battery |-> BatteryLevel(u), power |-> PowerLevel(u),
            combined |-> minOfThree(UserLevel(u), BatteryLevel(u), PowerLevel(u))]
shareTheSystemLoad(u) == [u EXCEPT !.load = Load(u), !.unshared = FALSE]

-----------------------------------------------------------------------------
(* Handlers on the main queue.                                              *)

Stay == UNCHANGED <<now, hid, sysloadQ, mainQ>>

\* userActiveHandleRootDomainActivity.  An activity ends what a dark wake was for
\* (cancelPowerNapStates) and counts as an assertion.
RootDomain(u, active) ==
  IF active = u.rootDomain THEN u
  ELSE IF ~active THEN [u EXCEPT !.rootDomain = FALSE]
  ELSE LET v == [u EXCEPT !.notification = FALSE, !.rootDomain = TRUE,
                          !.wake = IF @ = "bt" THEN "dark" ELSE @]
       IN SystemLoadUserActiveAssertions(shareTheSystemLoad(v), TRUE)

\* Mutant: the load is not looked at.
DisplayUnshared(off) ==
  LET d == [g EXCEPT !.displayOff = off, !.assertionValid = @ /\ ~off]
      r == IF off THEN RootDomain(d, FALSE)
           ELSE IF ~d.notification THEN RootDomain(d, TRUE) ELSE d
  IN g.displayOff # off /\ g' = evaluateHidIdleNotification(r) /\ Stay

\* A display that goes off ends activity; one that comes on is activity unless it is
\* for a notification.
SystemLoadDisplayPowerStateHasChanged(off) ==
  LET d == [g EXCEPT !.displayOff = off, !.assertionValid = @ /\ ~off]
      r == IF off THEN RootDomain(d, FALSE)
           ELSE IF ~d.notification THEN RootDomain(d, TRUE) ELSE d
  IN /\ g.displayOff # off
     /\ g' = evaluateHidIdleNotification(shareTheSystemLoad(r))
     /\ Stay

\* sendActivityTickle, for a "user is active" assertion.
sendActivityTickle ==
  LET u == SystemLoadUserActiveAssertions(g, TRUE)
  IN /\ g' = IF ~u.displayOff /\ ~u.rootDomain THEN RootDomain(u, TRUE) ELSE u
     /\ Stay

\* kIOMessageSystemWillSleep.
userActiveHandleSleep ==
  /\ g.rootDomain
  /\ g' = [g EXCEPT !.rootDomain = FALSE]
  /\ Stay

\* A notification that finds nobody is remembered, until the last one is gone.
displayWakeHandler(u, on) ==
  LET asleep == u.displayOff \/ u.wake # "full"
  IN [u EXCEPT !.notification = on /\ (@ \/ (~u.assertionValid /\ asleep))]

\* updateAggregates when the first assertion of a kind appears or the last goes.
AssertionsChanged(k, on) ==
  LET a == [g EXCEPT !.asserted = IF on THEN @ \cup {k} ELSE @ \ {k}]
  IN /\ k \in {"display", "network", "tickless"}
     /\ (k \in g.asserted) # on
     /\ g' = updateUserActivityLevels(IF k = "tickless" THEN displayWakeHandler(a, on)
                                      ELSE a)
     /\ Stay

\* The same for "user is active" assertions, which the levels do not depend on.
userActiveHandlePowerAssertionsChanged == g' = updateUserActivityLevels(g) /\ Stay

\* handleProcAssertions' resource counts: the levels follow in a block.
ResourcesChanged(k, on) ==
  /\ k \in {"audio", "camera"}
  /\ (k \in g.asserted) # on
  /\ Len(mainQ) < MaxQueue
  /\ g' = [g EXCEPT !.asserted = IF on THEN @ \cup {k} ELSE @ \ {k}]
  /\ mainQ' = Append(mainQ, [what |-> "assertions"])
  /\ UNCHANGED <<now, hid, sysloadQ>>

SystemLoadOnenessStateHasChanged(on) ==
  /\ g.oneness # on
  /\ g' = evaluateHidIdleNotification([g EXCEPT !.oneness = on])
  /\ Stay

\* SystemLoadPrefsHaveChanged: the load is shared, the levels stay.
SystemLoadPrefsHaveChanged(sleep, dwbt) ==
  /\ g.displaySleep # sleep \/ g.dwbt # dwbt
  /\ g' = shareTheSystemLoad([g EXCEPT !.displaySleep = sleep, !.dwbt = dwbt, !.unsaid = TRUE])
  /\ Stay

\* A wake of another kind, SystemLoadSystemPowerStateHasChanged.
PowerStateHasChanged(wake) ==
  /\ g.wake # wake
  /\ g' = shareTheSystemLoad([g EXCEPT !.wake = wake, !.unsaid = TRUE])
  /\ Stay

SystemLoadUserStateHasChanged(in) ==
  /\ g.loggedIn # in
  /\ g' = shareTheSystemLoad([g EXCEPT !.loggedIn = in])
  /\ Stay

\* SystemLoadCPUPowerHasChanged: where the status cannot be read only the thermal
\* warning is known, and nothing is shared.
SystemLoadCPUPowerHasChanged(c, readable) ==
  /\ g' = IF readable THEN shareTheSystemLoad([g EXCEPT !.cpu = c])
          ELSE [g EXCEPT !.cpu = [c EXCEPT !.constrained = FALSE, !.plimit = FALSE],
                         !.unshared = TRUE]
  /\ Stay

ThermalPressure(p) ==
  /\ g' = shareTheSystemLoad([g EXCEPT !.pressure = p])
  /\ Stay

Total(seq, f(_)) ==
  LET sum[i \in 0..Len(seq)] == IF i = 0 THEN 0 ELSE sum[i - 1] + f(seq[i])
  IN sum[Len(seq)]

\* SystemLoadBatteriesHaveChanged, on the queue of the batteries: below forty per
\* cent of what they hold together is low; no battery is external power.
SystemLoadBatteriesHaveChanged(b) ==
  LET current(x) == x.current
      max(x) == x.max
      all == Total(b, max)
      state == [ac |-> b = <<>> \/ \E i \in DOMAIN b : b[i].ac,
                low |-> all # 0 /\ 40 > (100 * Total(b, current)) \div all]
  IN /\ Len(mainQ) < MaxQueue
     /\ mainQ' = Append(mainQ, [what |-> "battery", state |-> state])
     /\ UNCHANGED <<now, g, hid, sysloadQ>>

\* The blocks sent to the main queue.
RunBlock ==
  LET m == Head(mainQ)
  IN /\ mainQ # <<>>
     /\ mainQ' = Tail(mainQ)
     /\ \/ /\ m.what = "assertions"
           /\ g' = updateUserActivityLevels(g)
        \/ /\ m.what = "battery"
           /\ g' = shareTheSystemLoad([g EXCEPT !.battery = m.state])
        \/ /\ m.what = "hid"
           /\ g' = evaluateHidIdleNotification(
                     [g EXCEPT !.hidActive = m.active, !.lastHid = m.ts])
     /\ UNCHANGED <<now, hid, sysloadQ>>

\* The two timers, once they are due.
HidIdleEval ==
  /\ g.hidTimer # NoDate /\ g.hidTimer <= now
  /\ g' = evaluateHidIdleNotification([g EXCEPT !.hidTimer = NoDate])
  /\ Stay
AssertionEval ==
  /\ g.assertionTimer # NoDate /\ g.assertionTimer <= now
  /\ g' = SystemLoadUserActiveAssertions([g EXCEPT !.assertionTimer = NoDate], FALSE)
  /\ Stay

-----------------------------------------------------------------------------
(* Clients.                                                                 *)

Ids(u) == {u.clients[i].id : i \in DOMAIN u.clients}

\* A client leaves the list.
Without(u, c) ==
  LET q == u.clients
      i == CHOOSE i \in DOMAIN q : q[i].id = c /\ \A j \in 1..i - 1 : q[j].id # c
  IN [u EXCEPT !.clients = SubSeq(q, 1, i - 1) \o SubSeq(q, i + 1, Len(q))]

\* A client is put before the first one with a longer timeout.
Place(q, timeout) ==
  CHOOSE k \in 0..Len(q) : /\ \A i \in 1..k : q[i].timeout <= timeout
                           /\ k < Len(q) => q[k + 1].timeout > timeout

\* Mutant: clients are kept in the order they came.
insertClientLast(u, c, t) ==
  LET timeout == IF t < MinTimeout THEN MinTimeout ELSE t
      v == IF timeout < u.idleTimeout
           THEN AssertionTimer([u EXCEPT !.idleTimeout = timeout]) ELSE u
  IN evaluateHidIdleNotification(
       [v EXCEPT !.clients = Append(@, [id |-> c, timeout |-> timeout, posted |-> {}])])

\* insertClient: shorter timeouts come first, and the shortest ever asked for is the
\* one HID and the timer of the assertions go by.
insertClient(u, c, t) ==
  LET timeout == IF t < MinTimeout THEN MinTimeout ELSE t
      v == IF timeout < u.idleTimeout
           THEN AssertionTimer([u EXCEPT !.idleTimeout = timeout]) ELSE u
      q == v.clients
      k == Place(q, timeout)
      new == [id |-> c, timeout |-> timeout, posted |-> {}]
  IN evaluateHidIdleNotification(
       [v EXCEPT !.clients = SubSeq(q, 1, k) \o <<new>> \o SubSeq(q, k + 1, Len(q))])

ToldThreshold ==
  /\ g'.idleTimeout # g.idleTimeout => Len(sysloadQ) < MaxQueue
  /\ sysloadQ' = IF g'.idleTimeout = g.idleTimeout THEN sysloadQ
                 ELSE Append(sysloadQ, "threshold")
  /\ UNCHANGED <<now, hid, mainQ>>

\* A connection that registers twice, which nobody prevents, has two entries, and these
\* handlers take its first one; here they may take either.
registerUserActivityClient(c, t) ==
  c \notin Ids(g) /\ g' = insertClient(g, c, t) /\ ToldThreshold
updateUserActivityTimeout(c, t) ==
  c \in Ids(g) /\ g' = insertClient(Without(g, c), c, t) /\ ToldThreshold
deRegisterUserActivityClient(c) ==
  c \in Ids(g) /\ g' = Without(g, c) /\ Stay

-----------------------------------------------------------------------------
(* HID and its queue.                                                       *)

\* The user does something.
HidEvent ==
  /\ hid.active \/ Len(sysloadQ) < MaxQueue
  /\ hid' = [hid EXCEPT !.active = TRUE, !.last = now]
  /\ sysloadQ' = IF hid.active THEN sysloadQ ELSE Append(sysloadQ, "callback")
  /\ UNCHANGED <<now, g, mainQ>>

\* Nothing has happened for the time that was asked for.
HidIdle ==
  /\ hid.active /\ now - hid.last >= hid.threshold
  /\ Len(sysloadQ) < MaxQueue
  /\ hid' = [hid EXCEPT !.active = FALSE]
  /\ sysloadQ' = Append(sysloadQ, "callback")
  /\ UNCHANGED <<now, g, mainQ>>

\* The properties of HID are read and written here, when it is the block's turn.
RunSysload ==
  /\ sysloadQ # <<>>
  /\ sysloadQ' = Tail(sysloadQ)
  /\ \/ /\ Head(sysloadQ) = "threshold"
        /\ hid' = [hid EXCEPT !.threshold = g.idleTimeout]
        /\ UNCHANGED mainQ
     \/ /\ Head(sysloadQ) = "callback" /\ Len(mainQ) < MaxQueue
        /\ mainQ' = Append(mainQ, [what |-> "hid", active |-> hid.active,
                                   ts |-> IF hid.active THEN now ELSE hid.last])
        /\ UNCHANGED hid
  /\ UNCHANGED <<now, g>>

\* The first block: the client of HID is made, told the threshold, and called back.
registerForHidActivity ==
  /\ hid = [active |-> TRUE, last |-> 1, threshold |-> Default]
  /\ sysloadQ = <<"callback">>

Tick == now < MaxTime /\ now' = now + 1 /\ UNCHANGED <<g, hid, sysloadQ, mainQ>>

-----------------------------------------------------------------------------
\* The globals once everything was read.
Globals(off) ==
  [userActive |-> TRUE, rootDomain |-> TRUE, posted |-> {"active"},
   hidActive |-> TRUE, lastHid |-> 1, assertionValid |-> FALSE, lastAssertion |-> 0,
   idleTimeout |-> Default, clients |-> <<>>,
   hidTimer |-> 1 + Default, assertionTimer |-> NoDate,
   displayOff |-> off, notification |-> FALSE, wake |-> "full", asserted |-> {},
   oneness |-> FALSE, displaySleep |-> TRUE, dwbt |-> FALSE,
   loggedIn |-> FALSE, battery |-> [ac |-> TRUE, low |-> FALSE],
   cpu |-> [thermal |-> FALSE, constrained |-> FALSE, plimit |-> FALSE],
   pressure |-> "none",
   load |-> [user |-> 3, battery |-> 3, power |-> 3, combined |-> 3],
   unsaid |-> off, unshared |-> off]

\* SystemLoad_prime: the root domain is told active first, then the rest is read;
\* a display that is off by then is noticed later.
Init ==
  /\ now = 1
  /\ registerForHidActivity
  /\ mainQ = <<>> /\ changes = 0
  /\ \E off \in BOOLEAN : g = Globals(off)

Inputs ==
  \/ \E on \in BOOLEAN : \/ SystemLoadOnenessStateHasChanged(on)
                         \/ SystemLoadUserStateHasChanged(on)
                         \/ \E k \in Kinds : AssertionsChanged(k, on) \/ ResourcesChanged(k, on)
                         \/ \E d \in BOOLEAN : SystemLoadPrefsHaveChanged(on, d)
  \/ \E w \in {"full", "dark", "bt"} : PowerStateHasChanged(w)
  \/ \E c \in CpuStates, r \in BOOLEAN : SystemLoadCPUPowerHasChanged(c, r)
  \/ \E p \in Pressures : ThermalPressure(p)
  \/ \E b \in Readings : SystemLoadBatteriesHaveChanged(b)
  \/ \E c \in Clients : \/ deRegisterUserActivityClient(c)
                        \/ \E t \in Timeouts : \/ registerUserActivityClient(c, t)
                                               \/ updateUserActivityTimeout(c, t)

Steps ==
  \/ \E off \in BOOLEAN : SystemLoadDisplayPowerStateHasChanged(off)
  \/ sendActivityTickle
  \/ userActiveHandlePowerAssertionsChanged
  \/ userActiveHandleSleep
  \/ RunBlock
  \/ HidIdleEval
  \/ AssertionEval
  \/ HidEvent
  \/ HidIdle
  \/ RunSysload
  \/ Tick

Next ==
  \/ Inputs /\ changes < MaxChanges /\ changes' = changes + 1
  \/ Steps /\ UNCHANGED changes

Spec == Init /\ [][Next]_vars
-----------------------------------------------------------------------------
LevelSet == SUBSET {"active", "passive", "withDisplay", "withoutDisplay",
                    "absentWithDisplay", "remote", "notification"}
Advice == 1..3

\* Types, with the list of clients by timeout and no timeout below the one HID and
\* the assertions' timer go by (insertClient).
TypeOK ==
  /\ now \in 1..MaxTime /\ changes \in 0..MaxChanges
  /\ hid.active \in BOOLEAN /\ hid.last \in 1..now /\ hid.threshold \in Nat \ {0}
  /\ Len(sysloadQ) <= MaxQueue /\ Len(mainQ) <= MaxQueue
  /\ g.posted \in LevelSet
  /\ \A i \in DOMAIN g.clients :
       /\ g.clients[i].posted \in LevelSet
       /\ g.clients[i].timeout >= g.idleTimeout
       /\ \A j \in 1..i - 1 : /\ g.clients[j].id # g.clients[i].id
                              /\ g.clients[j].timeout <= g.clients[i].timeout
  /\ g.asserted \subseteq Kinds
  /\ {g.hidTimer, g.assertionTimer, g.lastHid, g.lastAssertion} \subseteq Nat
  /\ g.load \in [user : Advice, battery : Advice, power : Advice, combined : Advice]

Pending(what) == \E i \in DOMAIN mainQ : mainQ[i].what = what
Queued(b) == \E i \in DOMAIN sysloadQ : sysloadQ[i] = b
Deadline(t) ==
  (CHOOSE m \in {now, g.lastHid + t, IF g.assertionValid THEN g.lastAssertion + t ELSE 0} :
     /\ m >= now /\ m >= g.lastHid + t
     /\ g.assertionValid => m >= g.lastAssertion + t)

\* A client that believes the user active will be told when its timeout is over: HID
\* is going to report in time, has reported, or a timer is armed that is due no
\* later than the timeout after the last activity (evaluateHidIdleNotification,
\* setAssertionIdleNotificationTimer, insertClient).
TimeoutIsTold ==
  \A i \in DOMAIN g.clients : "active" \in g.clients[i].posted =>
    \/ Queued("callback") \/ Pending("hid")
    \/ /\ g.hidActive /\ hid.active
       /\ hid.threshold <= g.clients[i].timeout \/ Queued("threshold")
    \/ \E d \in {g.hidTimer, g.assertionTimer} \ {NoDate} :
         d <= Deadline(g.clients[i].timeout)

\* No client is told both that the user is active and that the user is absent; those
\* with a timeout above the default one are, when the default one is over
\* (updateUserActivityLevels).
NotAbsentWhileActive ==
  \A i \in DOMAIN g.clients :
    g.clients[i].timeout <= Default =>
      ~({"active", "absentWithDisplay"} \subseteq g.clients[i].posted)

\* What is published follows from the inputs as they are, whichever handler changed
\* them (shareTheSystemLoad, updateUserActivityLevels); the exceptions are a CPU
\* status that cannot be read, changed settings and a wake of another kind.
PublishedIsCurrent ==
  /\ ~g.unshared => g.load = Load(g)
  /\ ~g.unsaid /\ ~Pending("assertions") => g.posted = Levels(g)

\* Nobody is newly told that the user is active while the display is off, or on for a
\* notification only: the root domain or an assertion since must say so
\* (SystemLoadDisplayPowerStateHasChanged, getUserInactiveDuration).
NotificationIsNotActivity ==
  [][LET told == ("active" \in g'.posted /\ "active" \notin g.posted)
                   \/ \E i \in DOMAIN g'.clients, j \in DOMAIN g.clients :
                        /\ g'.clients[i].id = g.clients[j].id
                        /\ "active" \in g'.clients[i].posted
                        /\ "active" \notin g.clients[j].posted
     IN told /\ ~g'.oneness => ~g'.displayOff /\ (g'.rootDomain \/ g'.assertionValid)]_vars
=============================================================================
