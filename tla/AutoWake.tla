------------------------------ MODULE AutoWake ------------------------------
(***************************************************************************)
(* Scheduled power events, pmconfigd/AutoWakeScheduler.c and               *)
(* RepeatingAutoWake.c.  Each behaviour (sleep, wake, power on...) has an  *)
(* array of events in memory, sorted by date and saved to the preferences  *)
(* on every change, the event chosen next, and a timer for it; the events  *)
(* of "wakeorpoweron" belong to two behaviours, and there is one repeating *)
(* event to turn the system on and one to turn it off.                     *)
(*                                                                         *)
(* All handlers run on the main queue.  What interleaves is requests,      *)
(* timers, the messages of a transition to sleep, changes of the clock,    *)
(* restarts of powerd, and the passing of time between any two of them.    *)
(***************************************************************************)
EXTENDS Integers, Sequences, FiniteSets

CONSTANTS
  Behaviors,     \* the behaviours of the instance
  Apps,          \* names of applications that schedule events
  Leeway,        \* the leeway each of them asks for
  Wanted,        \* the events they ask for
  Repeats,       \* the repeating events that may be set
  DayLength,     \* ticks in a day
  Week,          \* days in a week, seven
  MaxEntries,    \* kIOPMMaxScheduledEntries
  MinSleep,      \* MIN_SLEEP_DURATION
  Calendars,     \* the times the calendar may be set to
  MaxTime,       \* bound: the last tick of the clock
  MaxFailures    \* bound: kinds of failing saves since powerd started

Order == <<"sleep", "shutdown", "restart", "wake", "poweron", "wakeorpoweron">>
Pos(b) == CHOOSE i \in DOMAIN Order : Order[i] = b
Off == {"sleep", "shutdown", "restart"}
On == {"wake", "poweron"}
Repeating == "Repeating"      \* kIOPMRepeatingAppName
NoDate == 0
NoEvent == [type |-> "none", date |-> NoDate, app |-> "none"]
NoRepeat == [type |-> "none", minute |-> 0, days |-> {}]

ASSUME AutoWakeAssumption ==
  /\ Behaviors \subseteq {Order[i] : i \in DOMAIN Order}
  /\ On \cup {"wakeorpoweron"} \subseteq Behaviors
  /\ Repeating \notin Apps /\ Leeway \in [Apps -> Nat]
  /\ Wanted \subseteq [type : Behaviors, date : Nat \ {0}, app : Apps]
  /\ {DayLength, Week, MaxEntries, MaxTime} \subseteq Nat \ {0}
  /\ {MinSleep, MaxFailures} \subseteq Nat /\ Calendars \subseteq 1..MaxTime
  /\ \A r \in Repeats : /\ r.type \in Behaviors
                        /\ r.minute \in 0..DayLength - 1 /\ r.days \subseteq 0..Week - 1

Events(b) == {e \in Wanted : e.type = b}
Timed == Behaviors \ {"wakeorpoweron"}   \* those schedulePowerEvent is called for

VARIABLES
  now,           \* the calendar
  beh,           \* the PowerEventBehavior of each type
  activeEventCnt,
  repeat,        \* repeatingPowerOff and repeatingPowerOn
  hw,            \* the power on date the hardware was given
  disk,          \* the arrays in the preferences
  diskRepeat,    \* the repeating events there
  calendar,      \* a change of the calendar was not yet handled
  phase,         \* how far the system is on its way to sleep
  purge,         \* wakePurgeAllowed and purgePrevent_ts
  rtc,           \* the wake alarm the system sleeps with
  due,           \* history: wake requests this powerd saw come due between a question
                 \* asked outside dark wake and the last call
  failed         \* history: which handlers failed half way since powerd started
mem == <<beh, activeEventCnt, repeat, hw>>
saved == <<disk, diskRepeat>>
pm == <<phase, purge, rtc, due>>
vars == <<now, mem, saved, calendar, pm, failed>>

\* What a handler works on, until it is committed.
Now == [beh |-> beh, cnt |-> activeEventCnt, repeat |-> repeat, hw |-> hw]
Commit(s) ==
  /\ beh' = s.beh
  /\ activeEventCnt' = s.cnt
  /\ repeat' = s.repeat
  /\ hw' = s.hw

-----------------------------------------------------------------------------
(* Repeating events.                                                        *)

\* Whether the event is later today: its minute must be a later one.
upcomingToday(r, today, t) == today - 1 \in r.days /\ r.minute > t % DayLength

\* Mutant: today counts as the first day to look at.
daysUntilToday(r, today, t) ==
  IF r.days = {} THEN -1
  ELSE IF upcomingToday(r, today, t) THEN 0
  ELSE CHOOSE d \in 0..Week - 1 :
         /\ (today - 1 + d) % Week \in r.days
         /\ \A k \in 0..d - 1 : (today - 1 + k) % Week \notin r.days

\* Days count from one, the bits of the mask from zero: the search for the next
\* day of the mask begins at tomorrow's bit.  Nobody refuses a mask without days,
\* which yields yesterday.
daysUntil(r, today, t) ==
  LET check == CHOOSE c \in 0..Week - 1 :
                 /\ (today + c) % Week \in r.days
                 /\ \A k \in 0..c - 1 : (today + k) % Week \notin r.days
      days == (((today + check) % Week) + 1 - today + Week) % Week
  IN IF r.days = {} THEN -1
     ELSE IF upcomingToday(r, today, t) THEN 0
     ELSE IF days = 0 THEN Week ELSE days

\* The date of the next occurrence after t.
RepeatDate(r, t) ==
  LET today == t \div DayLength
  IN (today + daysUntil(r, (today % Week) + 1, t)) * DayLength + r.minute

\* The repeating event of its kind, if it concerns the behaviour.
RepeatOf(s, b) ==
  {r \in {IF b \in Off THEN s.repeat.off ELSE s.repeat.on} :
     r # NoRepeat /\ (r.type = b \/ (r.type = "wakeorpoweron" /\ b \in On))}

\* Its next occurrence.
copyNextRepeatingEvent(s, b) ==
  {[type |-> r.type, date |-> RepeatDate(r, now), app |-> Repeating] : r \in RepeatOf(s, b)}

-----------------------------------------------------------------------------
(* The arrays and the choice of the next event.                             *)

Elements(q) == {q[i] : i \in DOMAIN q}

copyMergedEventArray(s, b) ==
  Elements(s.beh[b].queue)
    \cup (IF b \in On THEN Elements(s.beh["wakeorpoweron"].queue) ELSE {})

Earliest(E, at(_)) == CHOOSE e \in E : \A f \in E : at(e) <= at(f)
DateOf(e) == e.date

\* An event is chosen from its date on, a repeating one if it is no later.
copyEarliestUpcoming(s, b) ==
  LET own == {e \in copyMergedEventArray(s, b) : e.date >= now}
      again == copyNextRepeatingEvent(s, b)
      both == own \cup again
      first == Earliest(both, DateOf)
  IN IF both = {} THEN NoEvent
     ELSE IF \E e \in again : e.date = first.date THEN CHOOSE e \in again : TRUE
     ELSE first

\* Mutant: the chosen event is replaced, its timer is not.
ScheduledOnce(s, b) ==
  LET next == copyEarliestUpcoming(s, b)
  IN IF next = NoEvent THEN [s.beh[b] EXCEPT !.timer = NoDate]
     ELSE [s.beh[b] EXCEPT !.current = next,
             !.timer = IF @ # NoDate THEN @
                       ELSE IF next.date > now THEN next.date ELSE NoDate,
             !.edge = next.date = now]

\* schedulePowerEvent: nothing upcoming leaves the chosen event as it was, and one
\* that is due within the millisecond, or was yesterday, is chosen and gets no timer.
Scheduled(s, b) ==
  LET next == copyEarliestUpcoming(s, b)
  IN IF next = NoEvent THEN [s.beh[b] EXCEPT !.timer = NoDate, !.edge = FALSE]
     ELSE [s.beh[b] EXCEPT !.current = next,
             !.timer = IF next.date > now THEN next.date ELSE NoDate,
             !.edge = next.date = now]

\* poweronScheduleCallout: the hardware is told, of no date too.
poweronScheduleCallout(s) == copyEarliestUpcoming(s, "poweron").date

\* schedulePowerEvent for some behaviours; they do not depend on each other.
schedulePowerEvents(s, S) ==
  [s EXCEPT !.beh = [b \in Behaviors |-> IF b \in S THEN Scheduled(s, b) ELSE s.beh[b]],
            !.hw = IF "poweron" \in S THEN poweronScheduleCallout(s) ELSE s.hw]

\* Mutant: only the wake behaviour is told of an event for both.
ConcernedOnce(type) == IF type = "wakeorpoweron" THEN {"wake"} ELSE {type} \cap Timed

\* schedulePowerEventType: the behaviours an event of a type is scheduled for.
schedulePowerEventType(type) ==
  IF type = "wakeorpoweron" THEN On ELSE {type} \cap Timed

\* How many events at the front of an array are before a date.
Before(q, t) ==
  CHOOSE k \in 0..Len(q) : /\ \A i \in 1..k : q[i].date < t
                           /\ k < Len(q) => q[k + 1].date >= t

\* Past events go from the front, up to the first that is not past.
Purged(q, t) == SubSeq(q, Before(q, t) + 1, Len(q))

\* The behaviours' values added up.
Sum(f) ==
  LET of(b) == IF b \in Behaviors THEN f[b] ELSE 0
  IN of("sleep") + of("shutdown") + of("restart")
       + of("wake") + of("poweron") + of("wakeorpoweron")

\* purgePastEvents, unless the wake requests are to be kept.
purgePastEvents(s, S, allowed) ==
  LET P == IF allowed THEN S ELSE S \ {"wake"}
      gone == [b \in Behaviors |-> IF b \in P THEN Before(s.beh[b].queue, now) ELSE 0]
  IN [s EXCEPT !.beh = [b \in Behaviors |->
                          IF b \in P
                          THEN [s.beh[b] EXCEPT !.queue = Purged(s.beh[b].queue, now)]
                          ELSE s.beh[b]],
               !.cnt = s.cnt - Sum(gone)]

\* An event is put behind those with the same date.
Inserted(q, e) ==
  LET k == Before(q, e.date + 1)
  IN SubSeq(q, 1, k) \o <<e>> \o SubSeq(q, k + 1, Len(q))

addEvent(s, b, e) ==
  LET p == IF s.beh[b].made THEN purgePastEvents(s, {b}, purge.allowed) ELSE s
      new == [p.beh[b] EXCEPT !.queue = Inserted(p.beh[b].queue, e), !.made = TRUE]
  IN [p EXCEPT !.beh = [p.beh EXCEPT ![b] = new], !.cnt = p.cnt + 1]

Same(e, f) == e.date = f.date /\ e.app = f.app
Found(s, b, e) == \E f \in Elements(s.beh[b].queue) : Same(e, f)

\* The first event with the same date and name.
First(q, e) ==
  CHOOSE i \in DOMAIN q : Same(q[i], e) /\ \A j \in 1..i - 1 : ~Same(q[j], e)
Removed(q, i) == SubSeq(q, 1, i - 1) \o SubSeq(q, i + 1, Len(q))

\* Where it was the chosen one there is none until the caller schedules the next.
Unset(s, b, i) ==
  [x \in Behaviors |->
     [s.beh[x] EXCEPT
        !.queue = IF x = b THEN Removed(s.beh[b].queue, i) ELSE s.beh[x].queue,
        !.current = IF s.beh[x].current = s.beh[b].queue[i] THEN NoEvent
                    ELSE s.beh[x].current]]

\* Mutant: the count is left to the caller.
removeEventUncounted(s, b, e) ==
  [s EXCEPT !.beh = Unset(s, b, First(s.beh[b].queue, e))]

removeEvent(s, b, e) ==
  [s EXCEPT !.beh = Unset(s, b, First(s.beh[b].queue, e)), !.cnt = s.cnt - 1]

-----------------------------------------------------------------------------
(* Requests.  A handler whose save fails says so in failed.                 *)

Runs == phase # "asleep"
Saves(ok, what) ==
  /\ ok \/ Cardinality(failed \cup {what}) <= MaxFailures
  /\ failed' = IF ok THEN failed ELSE failed \cup {what}

\* Mutant: a request that could not be saved is kept.
ScheduleUnsaved(b, e, ok) ==
  LET s == addEvent(Now, b, e)
  IN /\ Runs /\ activeEventCnt < MaxEntries
     /\ Commit(schedulePowerEvents(s, schedulePowerEventType(b)))
     /\ disk' = IF ok THEN [disk EXCEPT ![b] = s.beh[b].queue] ELSE disk
     /\ Saves(ok, "schedule")
     /\ UNCHANGED <<now, diskRepeat, calendar, pm>>

\* _io_pm_schedule_power_event, kIOPMScheduleEvent.
ScheduleEvent(b, e, ok) ==
  LET s == addEvent(Now, b, e)
  IN /\ Runs /\ activeEventCnt < MaxEntries
     /\ \/ /\ ok
           /\ Commit(schedulePowerEvents(s, schedulePowerEventType(b)))
           /\ disk' = [disk EXCEPT ![b] = s.beh[b].queue]
        \/ /\ ~ok
           /\ Commit(removeEvent(s, b, e))
           /\ UNCHANGED disk
     /\ Saves(ok, "schedule")
     /\ UNCHANGED <<now, diskRepeat, calendar, pm>>

\* _io_pm_schedule_power_event, kIOPMCancelScheduledEvent; a failing save is
\* ignored.
CancelEvent(b, e, ok) ==
  LET s == removeEvent(Now, b, e)
  IN /\ Runs /\ activeEventCnt < MaxEntries
     /\ Found(Now, b, e)
     /\ Commit(schedulePowerEvents(s, schedulePowerEventType(b)))
     /\ disk' = IF ok THEN [disk EXCEPT ![b] = s.beh[b].queue] ELSE disk
     /\ due' = {d \in due : d \in Elements(s.beh["wake"].queue)}
     /\ Saves(ok, "cancel")
     /\ UNCHANGED <<now, diskRepeat, calendar, phase, purge, rtc>>

\* Arrays are emptied; one that cannot be saved stays there.
Emptied(s, S, bad) ==
  [s EXCEPT !.beh = [b \in Behaviors |->
     IF b \notin S THEN s.beh[b]
     ELSE [s.beh[b] EXCEPT !.queue = <<>>, !.made = (b = bad), !.current = NoEvent]]]

\* removeAllEvents: the arrays there are, in order, up to the one that cannot be
\* saved ("none" for success), which is left empty.
removeAllEvents(bad) ==
  LET arrays == {b \in Behaviors : beh[b].made}
      reached == {b \in arrays : bad = "none" \/ Pos(b) <= Pos(bad)}
      done == reached \ {bad}
      own == schedulePowerEvents(Emptied(Now, reached \cap Timed, bad), done \cap Timed)
      both == Emptied(own, reached \ Timed, bad)
      all == IF "wakeorpoweron" \in done THEN schedulePowerEvents(both, On) ELSE both
  IN /\ Runs /\ activeEventCnt < MaxEntries
     /\ bad \in arrays \cup {"none"}
     /\ Commit(IF bad = "none" THEN [all EXCEPT !.cnt = 0] ELSE all)
     /\ disk' = [b \in Behaviors |-> IF b \in done THEN <<>> ELSE disk[b]]
     /\ Saves(bad = "none", "all")
     /\ due' = IF "wake" \in reached THEN {} ELSE due
     /\ UNCHANGED <<now, diskRepeat, calendar, phase, purge, rtc>>

updateRepeatEventsOnDisk(ok) ==
  /\ diskRepeat' = IF ok THEN repeat' ELSE diskRepeat
  /\ Saves(ok, "repeat")

\* The repeating events are replaced; the types that were and the types that are set
\* are scheduled, after the save.
Replace(new, ok) ==
  LET s == [Now EXCEPT !.repeat = new]
      types == {r.type : r \in {repeat.off, repeat.on, new.off, new.on}}
  IN /\ Runs
     /\ Commit(IF ok THEN schedulePowerEvents(s, UNION {schedulePowerEventType(t) : t \in types})
               ELSE s)
     /\ updateRepeatEventsOnDisk(ok)
     /\ UNCHANGED <<now, disk, calendar, pm>>

\* _io_pm_schedule_repeat_event; an event that is not given is removed.
ScheduleRepeat(off, on, ok) == Replace([off |-> off, on |-> on], ok)

\* _io_pm_cancel_repeat_events.
CancelRepeats(ok) == Replace([off |-> NoRepeat, on |-> NoRepeat], ok)

-----------------------------------------------------------------------------
(* Timers, the calendar and restarts.                                       *)

\* An array that was saved empty is not made.
NewBehavior(q) == [queue |-> q, made |-> q # <<>>, current |-> NoEvent,
                   timer |-> NoDate, edge |-> FALSE]

\* AutoWake_prime: memory is what the preferences say, without what is past.  Repeating
\* events are among them in preferences of older versions only, and removed there.
\* A question about sleep that was open is answered without this powerd.
AutoWake_prime ==
  LET s == [beh |-> [b \in Behaviors |-> NewBehavior(disk[b])],
            cnt |-> Sum([b \in Behaviors |-> Len(disk[b])]),
            repeat |-> diskRepeat, hw |-> hw]
  IN /\ Commit(schedulePowerEvents(purgePastEvents(s, Behaviors, TRUE), Timed))
     /\ purge' = [allowed |-> TRUE, since |-> NoDate]
     /\ failed' = {}
     /\ calendar' = FALSE
     /\ phase' = "awake" /\ due' = {}
     /\ UNCHANGED <<now, saved, rtc>>

\* powerd is started again.
Restart == phase = "awake" /\ AutoWake_prime

\* The behaviours whose callouts read the event they are called with.
ReadTheEvent == {"sleep", "wake"}

\* handleTimerExpiration: without the chosen event a callout that reads it crashes.
handleTimerExpiration(b) ==
  /\ Runs
  /\ beh[b].timer # NoDate /\ beh[b].timer < now
  /\ IF beh[b].current = NoEvent /\ b \in ReadTheEvent
     THEN AutoWake_prime
     ELSE /\ Commit(schedulePowerEvents(
                    [Now EXCEPT !.beh =
                       [beh EXCEPT ![b] = [beh[b] EXCEPT !.current = NoEvent]]], {b}))
          /\ UNCHANGED <<now, saved, calendar, pm, failed>>

\* The calendar is set, and powerd is told of it later.
SetCalendar(t) ==
  /\ phase = "awake" /\ ~calendar /\ t # now
  /\ now' = t
  /\ calendar' = TRUE
  /\ UNCHANGED <<mem, saved, pm, failed>>
AutoWakeCalendarChange ==
  /\ Runs /\ calendar
  /\ calendar' = FALSE
  /\ Commit(schedulePowerEvents(Now, Timed))
  /\ UNCHANGED <<now, saved, pm, failed>>

-----------------------------------------------------------------------------
(* Sleep and wake.                                                          *)

\* When the system is woken for an event.
getWakeScheduleTime(e) == e.date + (IF e.app \in Apps THEN Leeway[e.app] ELSE 0)

\* Mutant: repeating events do not wake the system.
EarliestOnce(s, b) ==
  LET own == {e \in copyMergedEventArray(s, b) : getWakeScheduleTime(e) >= now}
  IN IF own = {} THEN NoDate ELSE getWakeScheduleTime(Earliest(own, getWakeScheduleTime))

\* copyEarliestEvent, copyEarliestRequestAutoWakeEvent: the earliest time of all.
copyEarliestEvent(s, b) ==
  LET all == {e \in copyMergedEventArray(s, b) : getWakeScheduleTime(e) >= now}
               \cup copyNextRepeatingEvent(s, b)
  IN IF all = {} THEN NoDate ELSE getWakeScheduleTime(Earliest(all, getWakeScheduleTime))

\* checkPendingWakeReqs: the first event of the wake array whose time is not below
\* the bounds decides.
Pending(s, lower, upper) ==
  LET q == s.beh["wake"].queue
      at(i) == getWakeScheduleTime(q[i])
  IN \E i \in DOMAIN q : /\ at(i) >= lower /\ at(i) <= upper
                         /\ \A j \in 1..i - 1 : at(j) < lower

\* handleCanSleepMsg for idle sleep.  A busy terminal refuses at once.  Otherwise
\* CHECK_UPCOMING and PREVENT_PURGING, but in dark wake nothing is looked at; what
\* wake it is depends on nothing here.
handleCanSleepMsg(tty, dark) ==
  LET s == purgePastEvents(Now, {"wake"}, purge.allowed)
  IN /\ phase = "awake"
     /\ \/ /\ tty \/ dark
           /\ phase' = IF tty THEN "cancelled" ELSE "asked"
           /\ UNCHANGED <<mem, purge>>
        \/ /\ ~tty /\ ~dark
           /\ Commit(s)
           /\ purge' = [allowed |-> FALSE, since |-> now]
           /\ phase' = IF MinSleep > 0 /\ Pending(s, now, now + MinSleep)
                       THEN "cancelled" ELSE "asked"
     /\ due' = {}
     /\ UNCHANGED <<now, saved, calendar, rtc, failed>>

AllowPurging == purge' = [allowed |-> TRUE, since |-> NoDate]

\* Mutant: what came due since the question is not looked at.
LastCallUpcoming ==
  /\ phase = "asked"
  /\ phase' = IF Pending(Now, now, now + MinSleep) THEN "cancelled" ELSE "allowed"
  /\ AllowPurging
  /\ Commit(purgePastEvents(Now, {"wake"}, TRUE))
  /\ UNCHANGED <<now, saved, calendar, rtc, due, failed>>

\* handleLastCallMsg: CHECK_UPCOMING, CHECK_EXPIRED and ALLOW_PURGING.
handleLastCallMsg ==
  LET lower == IF purge.since # NoDate THEN purge.since ELSE now
  IN /\ phase = "asked"
     /\ phase' = IF Pending(Now, lower, now + MinSleep) THEN "cancelled" ELSE "allowed"
     /\ AllowPurging
     /\ Commit(purgePastEvents(Now, {"wake"}, TRUE))
     /\ UNCHANGED <<now, saved, calendar, rtc, due, failed>>

\* kIOMessageSystemWillNotSleep, also when another check or another client of the
\* kernel refuses.
WillNotSleep ==
  /\ phase \in {"asked", "allowed", "cancelled"}
  /\ phase' = "awake"
  /\ AllowPurging
  /\ due' = {}
  /\ Commit(purgePastEvents(Now, {"wake"}, TRUE))
  /\ UNCHANGED <<now, saved, calendar, rtc, failed>>

\* validScheduledDate: an alarm in the past is none.
Valid(t) == IF t < now THEN NoDate ELSE t

\* AutoWakeCapabilitiesNotification on the way to sleep, idle or forced; the sleep
\* notification then takes the earliest request as the alarm.
SystemWillSleep ==
  /\ phase \in {"awake", "allowed"}
  /\ phase' = "asleep"
  /\ Commit(schedulePowerEvents(Now, {"wake"}))
  /\ rtc' = Valid(copyEarliestEvent(Now, "wake"))
  /\ UNCHANGED <<now, saved, calendar, purge, due, failed>>

\* And after it; purging was allowed when the system began to power on, by the handler
\* of kIOMessageSystemWillPowerOn in pmconfigd.m.
SystemDidWake ==
  /\ phase = "asleep"
  /\ phase' = "awake"
  /\ rtc' = NoDate /\ due' = {}
  /\ AllowPurging
  /\ Commit(schedulePowerEvents(purgePastEvents(Now, Behaviors, TRUE), Timed))
  /\ UNCHANGED <<now, saved, calendar, failed>>

\* Time passes; asleep, only until the alarm.
Tick ==
  /\ now < MaxTime
  /\ phase = "asleep" /\ rtc # NoDate => now < rtc
  /\ now' = now + 1
  /\ due' = IF phase # "asked" \/ purge.allowed THEN due
            ELSE due \cup {e \in Elements(beh["wake"].queue) : getWakeScheduleTime(e) = now}
  /\ UNCHANGED <<mem, saved, calendar, phase, purge, rtc, failed>>

-----------------------------------------------------------------------------
Init ==
  /\ now = 1
  /\ beh = [b \in Behaviors |-> NewBehavior(<<>>)]
  /\ activeEventCnt = 0
  /\ repeat = [off |-> NoRepeat, on |-> NoRepeat]
  /\ hw = NoDate
  /\ disk = [b \in Behaviors |-> <<>>]
  /\ diskRepeat = repeat
  /\ calendar = FALSE
  /\ phase = "awake" /\ purge = [allowed |-> TRUE, since |-> NoDate]
  /\ rtc = NoDate /\ due = {} /\ failed = {}

RepeatsFor(S) == {NoRepeat} \cup {r \in Repeats : r.type \in S}

Request ==
  \/ \E b \in Behaviors, ok \in BOOLEAN : \E e \in Events(b) :
       ScheduleEvent(b, e, ok) \/ CancelEvent(b, e, ok)
  \/ \E bad \in Behaviors \cup {"none"} : removeAllEvents(bad)
  \/ \E off \in RepeatsFor(Off), on \in RepeatsFor(On \cup {"wakeorpoweron"}),
        ok \in BOOLEAN : ScheduleRepeat(off, on, ok)
  \/ \E ok \in BOOLEAN : CancelRepeats(ok)

Next ==
  \/ Request
  \/ Restart
  \/ \E b \in Timed : handleTimerExpiration(b)
  \/ \E t \in Calendars : SetCalendar(t)
  \/ AutoWakeCalendarChange
  \/ \E tty, dark \in BOOLEAN : handleCanSleepMsg(tty, dark)
  \/ handleLastCallMsg
  \/ WillNotSleep
  \/ SystemWillSleep
  \/ SystemDidWake
  \/ Tick

Spec == Init /\ [][Next]_vars
-----------------------------------------------------------------------------
Sorted(q) == \A i, j \in DOMAIN q : i < j => q[i].date <= q[j].date
Arrays(b) == {q \in Seq(Events(b)) : Sorted(q)}
EventSet == [type : Behaviors \cup {"none"}, date : Int, app : Apps \cup {Repeating, "none"}]
BehaviorSet == [queue : Seq(Wanted), made : BOOLEAN, current : EventSet,
                timer : Nat, edge : BOOLEAN]
RepeatSet == [off : RepeatsFor(Off), on : RepeatsFor(On \cup {"wakeorpoweron"})]

\* Every variable holds values of the C variable it models; the arrays, in memory and
\* in the preferences, are sorted by date, and activeEventCnt is never below zero.
TypeOK ==
  /\ now \in 1..MaxTime
  /\ beh \in [Behaviors -> BehaviorSet]
  /\ \A b \in Behaviors : /\ beh[b].queue \in Arrays(b) /\ disk[b] \in Arrays(b)
                          /\ beh[b].made \/ beh[b].queue = <<>>
  /\ disk \in [Behaviors -> Seq(Wanted)]
  /\ activeEventCnt \in Nat
  /\ repeat \in RepeatSet /\ diskRepeat \in RepeatSet
  /\ hw \in Int /\ rtc \in Nat /\ calendar \in BOOLEAN
  /\ phase \in {"awake", "asked", "allowed", "cancelled", "asleep"}
  /\ purge \in [allowed : BOOLEAN, since : 0..MaxTime]
  /\ failed \subseteq {"schedule", "cancel", "all", "repeat"}

\* The events still to come of a behaviour.
Future(b) == {e \in copyMergedEventArray(Now, b) : e.date > now}
               \cup copyNextRepeatingEvent(Now, b)
Settled == phase # "asleep" /\ ~calendar /\ "repeat" \notin failed

\* The repeating event of a behaviour, if there is one, is set for some day.
HasDays(b) == \A r \in RepeatOf(Now, b) : r.days # {}

\* activeEventCnt, which decides whether requests are accepted, is the number of
\* events in the arrays, however they were purged, cancelled, refused or read
\* back; only a removal of all events that fails half way leaves it wrong.
CountExact ==
  "all" \notin failed => activeEventCnt = Sum([b \in Behaviors |-> Len(beh[b].queue)])

\* Every event powerd still knows of is in the preferences, so that a restart
\* forgets none, whichever saves have failed (updateToDisk).
Durable ==
  \A b \in Behaviors : \A e \in Elements(beh[b].queue) : e \in Elements(disk[b])

\* No event is overslept: the timer of a behaviour is armed for a date no later
\* than its earliest event to come, its own, shared or repeating
\* (schedulePowerEvent).  The event chosen within a millisecond of its date is one
\* exception: it has no timer and neither have those after it.  A repeating event
\* without days is the other: its date is yesterday's, so that it is always chosen,
\* and no timer is set for any event as long as it is there.  The hardware turns the
\* machine on for the earliest as well (poweronScheduleCallout).
EarliestIsArmed ==
  \A b \in Timed : Settled /\ HasDays(b) /\ ~beh[b].edge =>
    \A e \in Future(b) :
      /\ beh[b].timer # NoDate /\ beh[b].timer <= e.date
      /\ b = "poweron" => hw # NoDate /\ hw <= e.date

\* What was cancelled does not happen: a timer or a power on date still ahead
\* belongs to an event that is still scheduled (removeEvent).
CancelledStaysQuiet ==
  Settled /\ "all" \notin failed =>
    /\ \A b \in Timed : beh[b].timer > now =>
         \E e \in Future(b) : e.date = beh[b].timer
    /\ hw > now => \E e \in Future("poweron") : e.date = hw

\* The date computed for a repeating event that has days is its next occurrence
\* (daysUntil).
RepeatIsNext ==
  \A r \in {x \in Repeats : x.days # {}} :
    LET on(t) == t % DayLength = r.minute /\ (t \div DayLength) % Week \in r.days
        next == RepeatDate(r, now)
    IN /\ next > now /\ on(next)
       /\ \A t \in (now + 1)..(next - 1) : ~on(t)

\* A wake request that comes due between a question asked outside dark wake and the
\* last call cancels the sleep (checkPendingWakeReqs with CHECK_EXPIRED, purging
\* prevented).  A question asked in dark wake prevents no purging, and what comes due
\* after it is slept through.  The array is in the order of the dates: where the
\* applications ask for different leeways, a request that is due is hidden by an
\* earlier one with a long leeway.
NotSleptThrough ==
  (\A x, y \in Apps : Leeway[x] = Leeway[y]) =>
    (phase \in {"allowed", "asleep"} => due = {})

\* Asleep, the alarm is no later than any request to wake the system, its leeway
\* included (copyEarliestEvent); a repeating event without days leaves no alarm at
\* all, since its date is past.
AlarmIsEarliest ==
  phase = "asleep" /\ HasDays("wake") =>
    \A e \in Future("wake") : rtc # NoDate /\ rtc <= getWakeScheduleTime(e)

\* What the comment in removeEvent says: "Caller will take care of re-scheduling the
\* next event", so that no timer is left without one.
CallerReschedules ==
  \A b \in Timed : beh[b].timer # NoDate => beh[b].current # NoEvent
=============================================================================
