# PowerManagement in TLA+

Specifications of parts of `powerd` (`src/pmconfigd`), the power management
daemon: its assertions, the questions it asks its clients before sleep, the
sleep notifications it sends on behalf of the kernel, scheduled power events,
user activity and the system load advisory; and of the smart battery driver
(`src/AppleSmartBatteryManager`): its polls and the firmware update of the gas
gauge. The modules are written from the code; `PROJECT.json` maps every
definition to the lines it models.

To check one: `tlc -config MCSleepCheck.cfg MCAsyncClients`; to check the
proofs: `tlapm AsyncClientsProofs.tla`, and so for each of the modules named
`...Proofs`.

## 1. The system and its parts

| Part | State | Operations | Hard behaviour | What makes it correct |
|---|---|---|---|---|
| Async assertion clients (`PMAssertions.c`, `PMAssertionLog.c`) | `gProcessDict` of reference-counted `ProcessInfo`; `gPendingResponses`, `gPendingAckToken`, `gSleepBlockers`; `gPendingLoggingResponses`, `gActivityUpdateToken` | first connection, create, release, suspend, exit; sleep check, its replies and timer; activity update, its replies and timer | late and failed XPC replies, timers against replies, exits in a round, messages of dead processes | one right answer per check, one complete report per request, balanced references, nothing left of the dead |
| Assertion table (`PMAssertions.c/.h`) | `gAssertionsArray`, four lists per type, `validOnBattCount`, `effectIdx`, aggregate levels, kernel bits, one timer per type | create, retain, release, set properties, timeout, suspend and resume, exit, disable and enable a type, power source change | incremental handlers, one timer for many deadlines, the power source changes on another queue | the kernel is told what the active assertions ask for; every deadline is acted on; suspended processes have no effect |
| App Sleep (`PMAssertions.c`) | `assert_cnt`, `aggTypes`, `disableAS_pend`, `enableAS_pend`, queued blocks | count in, count out, notify from a block or from a reply | a block and a reply carry the same news | a process is told the truth in the end |
| PM connections (`PMConnection.m`) | `gConnections`, `gLastResponseWrangler`, responses, generation count, capability bits | create, schedule, acknowledge, release, dead name; sleep and wake notifications; 28 s timeout | overlapping notifications, late and repeated acknowledgements, deaths in a wait | one `IOAllowPowerChange` per notification, no dangling wrangler, the earliest live request becomes the alarm |
| Auto wake (`AutoWakeScheduler.c`, `RepeatingAutoWake.c`) | per behaviour a sorted array, the chosen event and a timer; `activeEventCnt`; two repeating events; the preferences; purge prevention | schedule, cancel, cancel all, repeat, timer, calendar change, can-sleep and last call, sleep, wake, restart | events shared by two behaviours, failing saves, time that passes between question and sleep, day arithmetic | every event to come is armed, saved and counted, nothing cancelled happens, the alarm is the earliest |
| System load (`SystemLoad.c`) | `gUserActive` with the clients by timeout, two timers, the flags the advisory is computed from | HID callback, display, root domain, assertions, prefs, batteries, CPU, clients | two queues, timers against activity, notification wakes | clients are told in time; what is published is current |
| Power settings (`PMSettings.m`) | profiles, overrides | override, drop, activate | overrides across source changes | what is sent is the profile with the overrides |
| UPS shutdown (`UPSLowPower.c`), `ioupsd` | UPS state, thresholds, pending shutdown | power source change, shutdown, recovery | shutdown racing the return of power | no shutdown on AC |
| TTY keep-awake, external media, HID and system events | an assertion and a timer or a count | poll, mount, unmount | repeated events | assertion held exactly while needed |
| Batteries (`BatteryTimeRemaining.m`, charging, calibration, gauging managers) | power sources, estimates, warnings | publish, warn | stale estimates, ids of dead publishers | published state matches the sources |
| Smart battery driver (`AppleSmartBattery.cpp`, `AppleSmartBatteryManager.cpp`, `SmbusHandler.cpp`) | the polling flags under a lock, the poll's path and watchdog, `fTransaction` with its retries, exclusive access | poll, complete, retry, time out, sleep, remove, insert, external transaction | threads outside the gate, one buffer for two users, removal in a poll, lost and refused transactions | polls are watched; what is published was read for the battery that is there |
| Gas gauge update (`AppleGasGaugeUpdate.cpp`) | the last notification, the keys of the SMC, the call under way | info, start, images, certificate, manifest, digest, commit | lost and late notifications, a busy gauge, NACKs | success is real; calls return |
| Battery authentication (`AppleBatteryAuth.cpp`) | a dictionary and the last notification | start, exchange, read | as the update | not modelled |
| Power mode clients and services (`LowPowerMode`, `PM*Service.m`, predictors) | cached state, registrations | connect, update, interrupt | reconnects | clients see the last state |
| Tools (`pmset`, `pmtool`, `caffeinate`, `swd`, `migrateenergyprefs`), `common`, `PrivateLib.m` | little | parsing and printing | none | not modelled |

How they interact. The kernel calls powerd with sleep and wake messages. A *can
sleep* message goes to `checkForAsyncAssertions`, which asks the XPC clients; a
*will sleep* message goes to `PMConnectionPowerCallBack`, which asks the PM
connections. Client requests arrive over MIG and XPC. The assertion handlers call
the kernel and `PMSettings`. The battery queue changes the power source and asks
the main queue to re-evaluate assertions. The acknowledgement of PM connections
carries the wake dates the auto wake scheduler arbitrates.

Concurrency. Nearly all of powerd runs on one serial dispatch queue
(`_getPMMainQueue`), so an action of a model is one handler from entry to return.
What interleaves is handlers: requests, replies, timers, process exits, kernel
messages, blocks queued earlier. The power source is the exception modelled here:
it changes on the battery queue between any two handlers; and the HID callbacks of
the system load have a queue of their own. The battery driver runs on several
threads: a work loop with a gate, threads of user clients, and a lock.

The full list of hazards, each at its line, is in `PROJECT.json`.

## 2. Modules

| Module | Models | Composition |
|---|---|---|
| `AsyncClients` | the process table and both scatter/gather rounds | one process table shared by two rounds |
| `AsyncClientsProofs` | theorems about `AsyncClients` | extends it |
| `PMAssertions` | the assertion table and the kernel aggregation | |
| `PMAssertionsProofs` | theorems about `PMAssertions` | extends it |
| `AppSleep` | App Sleep notifications of one process | |
| `AppSleepProofs` | theorems about `AppSleep` | extends it |
| `SleepBarrier` | abstract: what a sleep notification promises | |
| `PMConnection` | the PM connections | implements `SleepBarrier` |
| `PMConnectionProofs` | theorems about `PMConnection`, and the safety part of the refinement | extends it |
| `AutoWake` | scheduled and repeating power events | with the can-sleep, last-call and will-sleep handlers of `PMConnection.m` |
| `AutoWakeProofs` | theorems about `AutoWake`, and the day arithmetic | extends it |
| `SystemLoad` | user activity levels and the advisory | main queue, HID queue and HID |
| `SystemLoadProofs` | theorems about `SystemLoad` | extends it |
| `SmartBattery` | the polls of the smart battery | battery, manager, SMBus handler and user clients in one |
| `SmartBatteryProofs` | theorems about `SmartBattery` | extends it |
| `GasGauge` | the firmware update of the gas gauge | the service, the SMC and the gauge |
| `GasGaugeProofs` | theorems about `GasGauge` | extends it |
| `MC*` | constants and symmetry for TLC | extend the above |

### AsyncClients

`proc[p]` is the `ProcessInfo` of a pid; `retain = 0` means the dictionary has no
entry. `check[p][t]` and `update[p][t]` are the one message, with its reply, that a
round with token `t` sends to `p`: none, asked, answered or failed. A reply that was
read in its own round is remembered as `got...` until the next round starts; that
is history, read only by properties. `held` is the number of the process's
assertions. `leaked` counts references that no code path returns: the one
`asyncAssertionInitialConnection` takes, and the one of a create that is refused
because the process is suspended; both are in the code.

A client may exit at any time. Its outstanding replies become XPC errors, and
messages it had sent may still be read until the second exit handler, sixty
seconds later (`Talks`). An error object has no token; the sleep check reads zero
from it, the activity update refuses it by type; the model keeps the difference.
The activity update does not look the sender up in the pending set, and neither
does the model.

Clients of the two rounds share references, so the rounds are in one module; the
runs explore one kind of round at a time, and the proof covers both together. That
rounds end is a property of each kind of its own: `EveryRoundEnds` in the run of the
sleep check, `EveryRequestIsReported` in the run of the activity update.

### PMAssertions

A slot of `asrt` is an assertion with its list, owner, causing process, retain
count, level, timeouts and battery bits. `level` is the aggregate of each type,
`raised` the effects the kernel was told of. Types are grouped by effect; nine
types and three effects are modelled, those whose handlers are
`setKernelAssertions` and `modifySettings`. Handlers are incremental in the code
and in the model: they compare with what the previous call left.

A request to set properties is a whole dictionary (`PropertyRequests`): it may name a
level, a timeout and the limited-power property at once. As in `doSetProperties` the
keys are applied first, and what follows depends on the modification bits they leave
together.

`Ops` selects the optional requests of an instance. In five situations TLC finds that
the code leaves a count, a level or a timer wrong, and `power_source` leaves them out:

- a suspended assertion is released: it is counted out twice;
- a suspended assertion is given a level or a deadline (its process has to be
  forgotten and come back for that): it is put on another list without being
  counted in;
- the limited-power property of an inactive assertion changes: it is counted although
  it is on no active list;
- one request changes the level there and back: its level key turns an active assertion
  off (`PMAssertions.c:4825`) and its timeout key turns it on again (4847). The
  modification bit of the level stays set, so the assertion is taken from its list and
  raised once more, without being counted out and without the handler; the head of the
  timed list may go in this way too, without its timer being moved, so `timeouts` leaves
  the request out as well;
- the power source changes back before the first change was evaluated.

The last contradicts a comment and is the run `flicker`; no comment or test speaks of the
others. What the runs show, and what the theorems say of any number of assertions, is
about histories of the modelled requests without these five. Another fact has no run: an
assertion whose timeout has passed becomes active without a deadline when its process is
suspended and resumed.

### AppSleep

One process. `assert_cnt` keeps its width: it saturates at `UCharMax` on the way
up and wraps on the way down. Blocks wait in `queue` in order, with requests
handled between them; a request over MIG returns what is pending in its reply.
`answered` is history: so far every change was a request with a reply and nobody
was suspended. `ToldTheTruth` is about such histories, because resuming a process
makes its assertions active again without counting them in, and the process stays
told that App Sleep is enabled. A suspension may queue several blocks, one for each
assertion whose release changes what the process should be told. With more assertions of a
type than the byte can count a process is told the wrong thing even if every change is
answered; the instance stays below that (section 4).

### PMConnection and SleepBarrier

`wrangler` is `gLastResponseWrangler` with one response per notified connection;
`round = 0` is NULL. A message token is a pair of generation and position in the
array of interested connections. A connection remembers the round it waits in, so
that a dangling `responseHandler` is a visible state. Wake dates are one class of
date; the alarm is what the completion passes on.

`SleepBarrier` says: each notification is acknowledged once, after every client
that was told has answered or is gone or the wait was given up, and there is one
wait at a time. The refinement maps the acknowledged rounds and the responses that
are still open. Interested connections without an enabled port are counted
when the wait begins and skipped when messages are sent; with only such
connections powerd waits 28 seconds for nobody, which `SleepBarrier` allows.

### AutoWake

`beh[b]` is a `PowerEventBehavior`: `queue`, whether the array exists (`made`), the
chosen event `current`, the date of its `timer`, and `edge`, which says that the
chosen event was due when it was chosen and therefore has no timer. A request is one
step with its purge, its save and the choice that follows; a save may fail, and
`failed` remembers in which kind of handler. The save of a request to schedule is
undone, that of a request to cancel is ignored, and cancelling everything stops
at the array that cannot be saved: the properties say which of them they rest on.
Dates and the clock are ticks, a day has `DayLength` of them and a week `Week` days;
the day arithmetic is that of the code. `disk` is read back by `AutoWake_prime`,
after a restart or after the crash of a callout that reads a NULL event.

A repeating event may be set for no day: `is_valid_repeating_dictionary`
(`RepeatingAutoWake.c:66-96`) looks at the types of the values only. Then `daysUntil`
answers -1, the event is dated yesterday, it is chosen before every other
(`AutoWakeScheduler.c:885-901`), and as long as it is there no timer, power-on date or
alarm is set for the other events of its behaviour. The model and the instance
have such events, and TLC shows each of this; `EarliestIsArmed`, `RepeatIsNext` and
`AlarmIsEarliest` are about repeating events with a day (`HasDays`). Other values that
are not validated are assumed away (`AutoWakeAssumption`): a mask whose only bits are
above the seventh, for which the loop of `daysUntil` does not end, and minutes beyond
the day.

`phase` follows the kernel's messages as far as they ask the scheduler. The question
whether the system can sleep is refused for an active terminal, and in dark wake it
neither looks at the requests nor prevents purging (`PMConnection.m:1903-1907`): both
are inputs of `handleCanSleepMsg`. A request that comes due after a question asked in
dark wake may be purged unseen and slept through. Purging is allowed again by the last
call, and when the sleep was given up or the system woke (`pmconfigd.m:424-433`). `due` is
history: the wake requests that came due after a question asked outside dark wake, which
is what `NotSleptThrough` is about. `checkPendingWakeReqs`
walks the array, which is in the order of the dates, and stops at the first event
whose date less its leeway is still ahead (`AutoWakeScheduler.c:1436-1450`). Where
applications ask for different leeways that order is not the order of the wake times:
a request with a short leeway behind one with a long leeway is not seen when it comes
due, and the system sleeps. TLC shows it with leeways of 3 and 0; `NotSleptThrough`
is therefore about equal leeways, which is also what its proof needs.

### SystemLoad

A client of the model is a registration: an entry of the list of clients. A connection
that registers twice has two, and the handlers may take either.

`g` holds the globals of the file; a handler is a function on it, so that nested
calls (`RootDomain` calls `SystemLoadUserActiveAssertions`, which evaluates) compose
as they do in C. HID is external: it is active, or has been idle for the threshold
powerd asked for. Its callbacks run on `sysloadQ`, read the state of HID *when they
run*, and send a block to the main queue. `unsaid` and `unshared` mark the three
handlers that change an input without publishing: settings, the kind of wake, an
unreadable CPU status; and the start, before the display is heard of.

### SmartBattery

The build for SMBus. `thr[Gate]` is whoever is inside the gate; `Callers` are
threads that ask for polls from outside, and each critical section of the poll
control lock is a step. `Table` abstracts the table of commands to one entry for
each way in which a command is treated: the state and status registers, a capacity,
the serial number (published as it is read, in two halves). `buffer` says for whom
`fTransaction` was filled. The embedded controller is external: it completes with a
good word, a zero, an error worth a retry or another error, loses transactions and
refuses them.

`Plain` clients transact without exclusive access. `externalMethod` allows that
while a poll is under way, and then the data of the client can be published as a
register; `NoForeignData` is about instances without them, and with a single client
thread: with two, TLC finds one in `fTransaction` when the read of the poll that the
other waited for completes. There is a third exception. A request of an invalid type, or
whose submission is refused, returns from `smbusExternalTransaction` without sleeping
(`SmbusHandler.cpp:471-472`, `521-523`), but after it has filled `fTransaction`
(416-435). The client may then give up its exclusive access while the read of the poll is
outstanding, and its completion is taken for the poll's. `fouled` is history: this
happened and the poll has not filled the buffer again. Without that condition
TLC finds `NoForeignData` violated in six steps. `PollIsWatched` leaves
out polls that a removal or a sleep disturbed: the flag a removal sets is cleared
only by the restart it prevents.

A transaction that *fails* is repeated at most `kRetryAttempts` times in a row. A capacity
that reads zero is repeated without bound: every successful completion resets the
count before the zero asks for another attempt (`SmbusHandler.cpp:90-97`, `108-116`,
`143-144`), although the comment at 99-101 speaks of trying too many times.
`PollIsWatched` holds all the same, because the watchdog ends such a poll.

Two facts about the table. The table for x86 begins with a command of the kind
`kASBMSMCReadDictionary` (`AppleSmartBattery.cpp:535`), which `performTransaction` refuses
before the gate (`AppleSmartBatteryManager.cpp:264-266`); `initiateNextTransaction` does
not look at the refusal, so a poll ends at such an entry until the watchdog comes. The
instance has one as its last entry and for the longest path only, so that the others are
reached. And `_batteryCellCount` is read (710, 858) but assigned nowhere in the
repository; taken literally, every command without `supportDesktops` is skipped. The model is
of a machine with cells.

### GasGauge

A call is its `Script`, a sequence of exchanges computed from the kind of call; a
step of a client reaches from one sleep to the next. `slot` is the thread call, which
keeps one notification; `received` is `_receivedNotificationStatus`, which nobody
resets. A call that was not woken looks at it all the same, and only the poll of the
updater's status after each command, which leaves another operation in it, keeps a
lost notification from counting as success. An answer that comes after its ten
seconds can: `late` is history and `SuccessIsReal` is about runs without it. The
gate is open while a call sleeps (`commandSleep`), so the calls of two clients mix and
`SuccessIsReal` fails; the instance has one client.

## 3. Runs

| Run | Shows | Bounds |
|---|---|---|
| `sleep_check` | one answer per check, decided by its own replies; balanced references; dead processes hold nothing; every check ends | 2 clients, 2 checks, 1 assertion each: a reply can be one check late, which is the only distance the code can see |
| `activity_update` | reports are complete and happen once, and every request gets one | 2 clients, 2 updates, 1 leaked reference each, which is how a client gets an entry |
| `power_source` | the kernel is told right; the battery count is exact; suspended processes have no effect | 2 assertions, 2 processes, 3 types of which two can share an effect, both power sources; without the five situations of section 2 |
| `timeouts` | the timer is set for the earliest deadline and deadlines are kept | 2 assertions of one type, durations 1 and 2, clock to 3: deadlines coincide, cross and move; without a request that changes the level there and back |
| `app_sleep` | the byte and the pending flags are sound; a process whose changes are answered is told the truth | 3 assertions of 2 types, 4 blocks waiting |
| `sleep_barrier` | one acknowledgement, no dangling handler, answers count, the alarm is the earliest live request; implements `SleepBarrier` | 2 connections, 3 sleeps, 2 dates, no wrap of the generation |
| `smart_battery` | data are the battery's own, nothing is published of a removed one, a poll is watched | 1 caller beside the gate, 1 exclusive client, 5 commands, 1 retry: two polls, a client and a removal can overlap |
| `gas_gauge` | success is real, calls return | 1 client, 4 kinds of call, 2 blocks, 1 retry, 1 failure of any kind |
| `auto_wake` | count, durability, timers, alarm, day arithmetic, no request slept through | a wake and a shared request of 1 application, 2 repeating events, one of them set for no day, 2 entries, days of 2 ticks, weeks of 3 days, 4 ticks, 1 kind of failing save |
| `system_load` | clients are told in time, levels and advisory are current | 2 clients, timeouts below and above the default one, 2 changes of inputs with any number of displays, tickles, HID events and timers, 1 block on each queue |
| `flicker` | violated: the power source flips back before it was evaluated | 1 process, 1 type |
| `auto_wake_failed` | violated: a failed save leaves a timer without an event | as `auto_wake`, 3 ticks |

The bounds of time, requests, references and rounds are named constants in the
guards. Where they end every behaviour the config turns deadlock checking off;
the other instances never stop and are checked for deadlock.
Interchangeable clients, assertions and processes are declared symmetric where no
liveness property is checked.

Fairness. Only powerd's own progress is assumed: an armed dispatch timer fires and
a queued block runs (`WF` on the timer handlers and on the queued evaluation). No
client is ever obliged to answer, to release or to exit, and the kernel is not
obliged to ask again. In `GasGauge` a thread that is awake runs and
`commandSleep` ends at its deadline (`WF` on `Resume` and `Timeout`); the SMC and the
gauge are not obliged to do anything. With this, `EveryRoundEnds`,
`EveryRequestIsReported`, `DeadlinesAreKept`, `CallReturns` and the liveness part of
`SleepBarrier` hold.

## 4. What is proved

Eight modules hold proofs, for any sets of clients, processes, assertions, events and
commands and for any value of the bounds. The bounds of TLC occur in guards only, so a
theorem says that they hide nothing. In each module the invariant was checked by TLC
before it was proved; below, why the properties need it.

| Module | Theorem | Property it settles |
|---|---|---|
| `AsyncClientsProofs` | `TypeCorrect`, `ReferencesBalance`, `AnsweredExactlyOnce`, `DeadProcessesHoldNothing` | the invariants of `sleep_check` |
| | `VerdictCorrect` | action property of `sleep_check`: a check is answered by its own replies |
| | `ReportIsComplete` | action property of `activity_update`: a report accounts for every client that was asked |
| `PMConnectionProofs` | `TypeCorrect` | `TypeOK`, which the other theorems rest on; no run checks it |
| | `KernelAnsweredOnce`, `NoDanglingHandler`, `WaitIsAnswerable` | the invariants of `sleep_barrier` |
| | `BarrierSafety` | the safety part of `ImplementsBarrier`: initial states map to initial states and steps to steps of `SleepBarrier` or stutters |
| | `AlarmIsEarliestRequest` | action property `AlarmHonoursRequests` |
| `PMAssertionsProofs` | `TypeCorrect`, `HeadIsWatched`, `SuspendedAreSilent`, `CountsAreExact`, `KernelIsToldRight` | the invariants of `power_source` and `timeouts` |
| `SmartBatteryProofs` | `TypeCorrect`, `RemovedIsGone`, `PollWatched`, `ForeignDataKept` | the invariants of `smart_battery` |
| `AutoWakeProofs` | `TypeCorrect`, `CountIsExact`, `NothingIsForgotten`, `NothingIsOverslept`, `CancelledIsQuiet`, `RepeatingIsNext`, `DueIsNotSleptThrough`, `AlarmIsInTime` | the invariants of `auto_wake` |
| `SystemLoadProofs` | `TypeCorrect`, `ClientsAreTold`, `LevelsAgree`, `PublishedFollows` | the invariants of `system_load` |
| | `ActivityIsReal` | action property `NotificationIsNotActivity` |
| `AppSleepProofs` | `TypeCorrect`, `NothingPendsForever`, `TruthIsTold` | the invariants of `app_sleep` |
| `GasGaugeProofs` | `TypeCorrect`, `SuccessMeansDone` | `SuccessIsReal`, the invariant of `gas_gauge` |

### AsyncClientsProofs

The properties alone are not inductive, for two reasons. An answer to the kernel is
only known to be the first if the open round's token is the one that has no answer
yet, and a reply only counts if the round is open; so `CheckRound` says that a token is
set exactly while somebody is pending, that a token not yet given out is carried by no
message, and that the blocker count is positive exactly when a reply of this round said
so. And the activity update does not look its sender up; it may return a reference only
because a message of the open round that was not read yet belongs to a pending process,
which is what `UpdateRound` adds. One lemma per action, and lemmas about
`processInfoRetain` and `processInfoRelease`. `ReportIsComplete` needs `ReportRound`
besides: while an update is open, the pending set is the set of those whose message was
not read, and what has been collected is what was read, so that the timer and the last
reply see the same remainder.

Assumption: `NoTokenReuse`, fewer updates than the token generator has values, so that a
token does not come round while a reply with it is under way. Without it a reply 2^32
updates late would count.

### PMConnectionProofs

`IndInv` ties the three places together that C keeps consistent by hand. A connection's
`handler` names the current round and has a token in it; a response that is connected is
waited in by its connection; one that has a token and no reply is still connected, so
that somebody can answer it (`LinksOK`); and every token was sent to the client whose
response holds it and to no response twice (`TokensOK`), which makes
`_io_pm_connection_acknowledge_event` find that response. `RoundIsCurrent` says that a
wrangler is the one of the last notification, which is why an acknowledgement is the
first. The refinement maps a step of each handler under this invariant. The generation may
wrap in all of these.

`AlarmIsEarliestRequest` assumes `MaxSleep <= MaxGen`: no more sleeps than the sixteen bit
generation counts. After a wrap a client may answer with an old token and its date would
be taken for the new notification. `RequestsKept` is the extra invariant: a connected
response holds what its client last asked for.

### PMAssertionsProofs

The handlers are incremental, so the invariant (`KernelInv`) says what holds *between*
two of them: with no evaluation outstanding every level, every effect and every bit of
the kernel is what the definition over the table says; while the power source has changed
and the evaluation is queued, only the types that are not valid on battery, the effect
they share and the effect of the network access type may be behind. It rests on
`CountExact`, which rests on the lists. Each request is described by what it moves in
(`In`), out (`Out`) or sets in place (`Limited`) and for which types it calls the
handlers; the handlers are then proved right once, for any such step. `HeadIsWatched`
follows one type through `ArmTimers` and `ExpireDue` and needs that a finite set of
deadlines has a smallest.

`CountsAreExact` assumes that `Ops` contains none of the first four situations of section 2,
`KernelIsToldRight` none of the five, `HeadIsWatched` only that no request changes the level
there and back. `TypeCorrect` and `SuspendedAreSilent` need no such assumption: they hold
for requests with any combination of keys. A request with several keys is proved along
the ways `doSetProperties` leaves (`turnOff`, `turnOn`, `moveDeadline`, `changePower`).

### SmartBatteryProofs

`NoGhostBattery` is kept because no thread inside the gate holds a command it read while
that was allowed, once it no longer is (`ReadsAllowed`). `Watched` follows the end of a poll
through the threads. `ForeignDataKept` is about one exclusive client: while a read of the
poll is outstanding and the client has taken `fTransaction`, the client sleeps in its
exclusive access and what it asks comes later on the bus (`ClientBehind`); unless its
request failed and it does not sleep, which is the exception `fouled` of the property.

### AutoWakeProofs

A handler is a function on a *state of work*, so each operation (`Inserted`, `Removed`,
`Purged`, the choice of an event, the save, its undoing) has a lemma about arrays sorted by
date, and each action one about the work as a whole. `IndInv` has seven parts: `Rest`
and `Good` are types, sorted arrays, and arrays that were not made are empty; `CountOk`
says by how much `activeEventCnt` may exceed the arrays (only after a failed removal of
everything); `DurableAt`; `TimersOk`, that a behaviour with an event to come has it or an
earlier one armed and that a timer ahead has its event; `SleepAt`, that what came due after
the question is still in the array of wake requests with a date between the question and
now, because purging is prevented if the question was asked outside dark wake; `AlarmAt`.
While a calendar change or a failed save leaves the choice unsettled, or a repeating event
without a day is chosen before every other, `TimersOk` asks for less. `RepeatingIsNext` is
arithmetic on `daysUntil` with division and remainder, for any length of the day and of
the week and any mask with a day.

### SystemLoadProofs

A handler is a function on the globals, so the invariant is first about the globals and
the clock (`Whole`) and then about the queues. `Good` says that the clients stay sorted by
timeout and that no date lies ahead. `Sound` is what a handler has to restore however it
is left: the decision is not behind the activity (`Active`), every client that was told
of activity is watched by HID or by a timer due by its timeout (`Watched`), and the levels
of clients and of the published value agree with the decision (`Told`, `Shown`). An
assertion of this very moment needs its own timer, which is why `Watched` distinguishes
the two sources of activity. For the queues: what they carry of HID is of the past
(`Dated`), the last word of HID on its way is the one it stands by (`Heard`), and a
threshold powerd asked for has been set or is on its way. The levels are what
`updateUserActivityLevels` would post unless a block that evaluates waits (`Says`).

### AppSleepProofs

`NothingPendsForever` needs only that a pending flag has its block in the queue, in any
order and however often the `ProcessInfo` was freed in between. `TruthIsTold` needs in
addition that `assert_cnt` is the number of active assertions of the type while every
change is answered (`Counted`) and that what the process was told, or is about to be told
by a reply, is what the counts say. A suspension folds `schedEnableAppSleep` over the
assertions of the process; the fold of the community modules is a recursive function whose
equations are not to be had by citing its definition, so `FoldExists` shows that the
function exists, by a smallest counterexample over the size of the set.

Assumption of `TruthIsTold`: `Cardinality(Ids) <= UCharMax`, the process has no more
assertions than the byte can count. With `UCharMax = 2` and three assertions TLC finds
the process told the wrong thing: the count saturates on the way up and each release counts
down. In the code the byte holds 255.

### GasGaugeProofs

The proof first computes the script of each call by position, for any number of blocks
(`AtFact`). `OnTrack` then relates an exchange in progress to the gauge: before its
command is carried out the gauge holds what the earlier exchanges wrote (`Holds`), after it
what this one writes too (`After`), whether or not its notification arrived; a status in
BFUD that is not "busy" is that of the gauge (`Seen`). That the poll after a command finds
the right status rests on one command being under way at a time, by a client that sleeps.

`TypeCorrect` holds for any clients; `SuccessMeansDone` assumes a single one, because
`commandSleep` opens the gate and a second client may send its command while the first
sleeps: with two clients TLC finds `SuccessIsReal` violated without any failure.

### Only model-checked

- Liveness: `EveryRoundEnds`, `EveryRequestIsReported`, `DeadlinesAreKept`, `CallReturns`
  and the liveness half of `ImplementsBarrier`. Fairness and ENABLED are out of the
  prover's reach.
- `flicker` and `auto_wake_failed` are counterexamples.

No module that a proof uses has a recursive operator. `SystemLoad` adds up
the batteries with a recursive function, of whose value nothing has to be proved;
`AppSleep` folds, and `FoldExists` supplies what is needed of the fold.

## 5. What is not modelled

- Logging, statistics, entitlement checks, exception reporting and XPC encoding.
- Assertion types whose handlers differ (push service, background task, external
  media, disk, reserve power and the charging types), global and automatic
  timeouts, lid and silent-running modifiers, the display and user activity
  side effects of `DeclareUserActivity`, and a change of the causing process of an
  assertion that exists.
- In `PMConnection`: the kinds of wake date and the policy that picks between them,
  Power Nap, and the sleep/wake UUID.
- In `SmartBattery`: inflow and charge inhibit, overridden capacities, reporting, the
  build for the SMC, skipping commands by the number of cells, and the wait for the
  embedded controller in `handleExclusiveAccess`. In `SystemLoad`: the session activity,
  the Domino flag and adaptive display sleep. In `AutoWake`: the assertions and requests
  the callouts make, entitlements.
- Reuse of a pid by another process, and memory exhaustion.
- The parts of section 1 without a module. Settings, services, the battery managers,
  the UPS daemon and the tools are Objective-C around frameworks that are not in the
  repository, with little state of their own that handlers could disturb; TTY and
  external media hold one assertion each, which `PMAssertions` covers; battery
  authentication repeats the exchanges of `GasGauge` around cryptographic payloads.

## 6. Plan

Every invariant and every action property of a passing run is a theorem, under the
conditions of section 4. What is left:

- the theorem `TruthIsTold` for counts beyond the width of the byte, which needs a weaker
  statement of what a process is told once the byte has saturated;
- a theorem about two clients of `GasGauge`, which needs a weaker property than
  `SuccessIsReal` (section 2);
- parts without a module, in this order: power settings with their overrides, the UPS
  shutdown, the TTY keep-awake timer;
- liveness stays with TLC.
