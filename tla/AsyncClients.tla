---------------------------- MODULE AsyncClients ----------------------------
(***************************************************************************)
(* Clients of powerd that keep their assertions on their own side (the     *)
(* "async" assertions of pmconfigd/PMAssertions.c) have to be asked before *)
(* the system sleeps, and again whenever powerlog copies the assertion     *)
(* activity.  Both are scatter/gather rounds over XPC, identified by a     *)
(* token, closed by the last reply or by a five second timer.  The rounds  *)
(* hold references on the ProcessInfo entries of gProcessDict, which       *)
(* processes join, leave by exiting, and are suspended in while a round    *)
(* is under way.                                                           *)
(*                                                                         *)
(* powerd runs every handler on one serial queue: an action is a handler.  *)
(* The kernel, the client processes and the XPC transport are external.    *)
(***************************************************************************)
EXTENDS Integers

CONSTANTS
  Pids,        \* the client processes
  MaxSleep,    \* bound: sleep checks the kernel sends
  MaxUpdate,   \* bound: activity updates that are requested
  UInt32Max,   \* largest activity token before the generator wraps
  MaxHeld,     \* bound: assertions one process holds at powerd
  MaxLeak      \* bound: references one process takes and never returns

ASSUME BoundsAssumption ==
  /\ MaxSleep \in Nat /\ MaxUpdate \in Nat /\ UInt32Max \in Nat \ {0}
  /\ MaxHeld \in Nat /\ MaxLeak \in Nat

\* A token of the activity update does not come round again while a reply that
\* carries it may still be under way: 2^32 updates would have to pass.
ASSUME NoTokenReuse == MaxUpdate <= UInt32Max

NoToken == 0
SleepTokens == 1..MaxSleep
UpdateTokens == 1..UInt32Max

VARIABLES
  alive,       \* external: processes that have not exited
  exitEvent,   \* dispatch events a dead process still owes powerd
  proc,        \* gProcessDict: the ProcessInfo of each pid
  held,        \* assertions of a process in gAssertionsArray
  leaked,      \* history: references that no release will ever match
  ackToken,    \* gPendingAckToken
  pending,     \* gPendingResponses
  blockers,    \* gSleepBlockers
  sleepTimer,  \* the timer of checkForAsyncAssertions is armed
  asked,       \* external: sleep checks the kernel has sent
  verdict,     \* what IOAllowPowerChange / IOCancelPowerChange were told
  check,       \* one check message and its reply, per process and token
  updToken,    \* gActivityUpdateToken
  lastToken,   \* static lastToken of the token generator
  updPending,  \* gPendingLoggingResponses
  updActives,  \* gActivityUpdateActivesOnly
  overflow,    \* gActivityUpdateClientOverflow
  actives,     \* pids with an entry in gAsyncActiveAssertions
  updTimer,    \* the timer of checkForAssertionActivityUpdates is armed
  update,      \* one update message and its reply, per process and token
  requests,    \* activity requests that were accepted
  report       \* the replies sent to requesters: how many, and the last one

procVars   == <<alive, exitEvent, proc, held, leaked>>
sleepVars  == <<ackToken, pending, blockers, sleepTimer, asked, verdict, check>>
updateVars == <<updToken, lastToken, updPending, updActives, overflow, actives,
                updTimer, update, requests, report>>
vars == <<procVars, sleepVars, updateVars>>

\* A message is asked, then answered or failed; "got" is history: an answer
\* that was read in its round, remembered until the next round starts.
CheckStatus  == {"none", "asked", "yes", "no", "error", "gotYes", "gotNo"}
UpdateStatus == {"none", "asked", "data", "over", "error",
                 "gotData", "gotOver", "gotError"}
NoReport == [count |-> 0, token |-> NoToken, actives |-> {}, timedOut |-> {},
             overflow |-> FALSE]

-----------------------------------------------------------------------------
(* ProcessInfo: a reference-counted entry; retain = 0 is "not in the dict". *)

NoInfo  == [retain |-> 0, remote |-> FALSE, exited |-> FALSE, suspended |-> FALSE]
NewInfo == [NoInfo EXCEPT !.retain = 1]
Known(p) == proc[p].retain > 0

\* processInfoRetain, or processInfoCreate when the pid is unknown; the latter
\* fails when proc_name cannot find the process.
CanRetain(p) == Known(p) \/ p \in alive
processInfoRetain(p) ==
  IF Known(p) THEN [proc[p] EXCEPT !.retain = @ + 1] ELSE NewInfo

\* Mutant: the test for the last reference is off by one.
processInfoReleaseLate(info, n) ==
  IF info.retain < n THEN NoInfo ELSE [info EXCEPT !.retain = @ - n]

\* n calls of processInfoRelease: the last reference frees the entry, and
\* cancels the XPC connection with it; releasing an unknown pid does nothing.
processInfoRelease(info, n) ==
  IF info.retain <= n THEN NoInfo ELSE [info EXCEPT !.retain = @ - n]

\* External: messages of a process are read while it lives, and for less than
\* the sixty seconds after its exit that powerd allows for them.
Talks(p) == p \in alive \/ exitEvent[p] # "none"

\* Who is asked in a round.
Reachable == {p \in Pids : /\ Known(p)
                           /\ proc[p].remote
                           /\ ~proc[p].exited
                           /\ ~proc[p].suspended}
Sent(p) == IF p \in alive THEN "asked" ELSE "error"
RetainAll(S) == [p \in Pids |-> IF p \in S THEN processInfoRetain(p) ELSE proc[p]]
ReleaseAll(S) ==
  [p \in Pids |-> IF p \in S THEN processInfoRelease(proc[p], 1) ELSE proc[p]]

-----------------------------------------------------------------------------
(* The process table.                                                       *)

asyncAssertionInitialConnection(p) ==
  /\ CanRetain(p) /\ Talks(p) /\ leaked[p] < MaxLeak
  /\ proc' = [proc EXCEPT ![p] = [processInfoRetain(p) EXCEPT !.remote = TRUE]]
  /\ leaked' = [leaked EXCEPT ![p] = @ + 1]
  /\ UNCHANGED <<alive, exitEvent, held, sleepVars, updateVars>>

\* asyncAssertionCreate and the ProcessInfo side of doCreate.  The connection
\* is recorded only when the entry is new; a suspended process is refused
\* after the reference was taken.
asyncAssertionCreate(p) ==
  /\ CanRetain(p) /\ Talks(p)
  /\ proc' = [proc EXCEPT ![p] = IF Known(p) THEN processInfoRetain(p)
                                 ELSE [NewInfo EXCEPT !.remote = TRUE]]
  /\ IF proc[p].suspended
       THEN /\ leaked[p] < MaxLeak
            /\ leaked' = [leaked EXCEPT ![p] = @ + 1]
            /\ UNCHANGED held
       ELSE /\ held[p] < MaxHeld
            /\ held' = [held EXCEPT ![p] = @ + 1]
            /\ UNCHANGED leaked
  /\ UNCHANGED <<alive, exitEvent, sleepVars, updateVars>>

asyncAssertionRelease(p) ==
  /\ held[p] > 0 /\ Talks(p)
  /\ held' = [held EXCEPT ![p] = @ - 1]
  /\ proc' = [proc EXCEPT ![p] = processInfoRelease(@, 1)]
  /\ UNCHANGED <<alive, exitEvent, leaked, sleepVars, updateVars>>

\* isSuspended, set and cleared by an entitled third process.
processSetAssertionState(p) ==
  /\ Known(p)
  /\ proc' = [proc EXCEPT ![p].suspended = ~@]
  /\ UNCHANGED <<alive, exitEvent, held, leaked, sleepVars, updateVars>>

\* External: the process exits.  Its outstanding replies become XPC errors, and
\* the DISPATCH_PROC_EXIT source of its ProcessInfo, if it has one, fires.
ProcessExits(p) ==
  /\ p \in alive
  /\ alive' = alive \ {p}
  /\ exitEvent' = [exitEvent EXCEPT ![p] = IF Known(p) THEN "exit" ELSE @]
  /\ check' = [check EXCEPT ![p] = [t \in SleepTokens |->
                 IF check[p][t] = "asked" THEN "error" ELSE check[p][t]]]
  /\ update' = [update EXCEPT ![p] = [t \in UpdateTokens |->
                 IF update[p][t] = "asked" THEN "error" ELSE update[p][t]]]
  /\ UNCHANGED <<proc, held, leaked, ackToken, pending, blockers, sleepTimer,
                 asked, verdict, updToken, lastToken, updPending, updActives,
                 overflow, actives, updTimer, requests, report>>

\* Mutant: the block that runs later does not release assertions.
HandleProcessExitOnce(p) ==
  /\ exitEvent[p] = "late" \/ (exitEvent[p] = "exit" /\ Known(p))
  /\ exitEvent' = [exitEvent EXCEPT ![p] = IF @ = "exit" THEN "late" ELSE "none"]
  /\ LET n == IF exitEvent[p] = "exit" THEN held[p] ELSE 0 IN
     /\ proc' = [proc EXCEPT ![p] =
          processInfoRelease([@ EXCEPT !.exited = TRUE, !.remote = FALSE], n)]
     /\ held' = [held EXCEPT ![p] = @ - n]
  /\ UNCHANGED <<alive, leaked, sleepVars, updateVars>>

\* The event handler of the process source, and the block it queues for sixty
\* seconds later; freeing the ProcessInfo frees the source, not the block.
HandleProcessExit(p) ==
  /\ exitEvent[p] = "late" \/ (exitEvent[p] = "exit" /\ Known(p))
  /\ exitEvent' = [exitEvent EXCEPT ![p] = IF @ = "exit" THEN "late" ELSE "none"]
  /\ proc' = [proc EXCEPT ![p] =
       processInfoRelease([@ EXCEPT !.exited = TRUE, !.remote = FALSE], held[p])]
  /\ held' = [held EXCEPT ![p] = 0]
  /\ UNCHANGED <<alive, leaked, sleepVars, updateVars>>

-----------------------------------------------------------------------------
(* The sleep check.                                                         *)

\* sendSleepNotificationResponse: IOAllowPowerChange or IOCancelPowerChange.
sendSleepNotificationResponse(t, allow) ==
  verdict' = IF allow THEN [verdict EXCEPT ![t].allowed = @ + 1]
                      ELSE [verdict EXCEPT ![t].cancelled = @ + 1]

\* What closes a round: the answer, and the two globals cleared.
CloseCheck(count) ==
  /\ sendSleepNotificationResponse(ackToken, count = 0)
  /\ ackToken' = NoToken
  /\ blockers' = 0

\* The kernel's kIOMessageCanSystemSleep, handled by checkForAsyncAssertions.
\* A check that arrives during another one is allowed at once, without asking.
checkForAsyncAssertions ==
  /\ asked < MaxSleep
  /\ asked' = asked + 1
  /\ \/ /\ ackToken # NoToken \/ pending # {}
        /\ sendSleepNotificationResponse(asked + 1, TRUE)
        /\ UNCHANGED <<proc, ackToken, pending, blockers, sleepTimer, check>>
     \/ /\ ackToken = NoToken /\ pending = {}
        /\ proc' = RetainAll(Reachable)
        /\ pending' = Reachable
        /\ check' = [p \in Pids |-> [t \in SleepTokens |->
             IF t = asked + 1 /\ p \in Reachable THEN Sent(p)
             ELSE IF check[p][t] \in {"gotYes", "gotNo"} THEN "none"
             ELSE check[p][t]]]
        /\ blockers' = 0
        /\ sleepTimer' = TRUE
        /\ IF Reachable = {}
             THEN /\ sendSleepNotificationResponse(asked + 1, TRUE)
                  /\ ackToken' = NoToken
             ELSE /\ ackToken' = asked + 1
                  /\ UNCHANGED verdict
  /\ UNCHANGED <<alive, exitEvent, held, leaked, updateVars>>

\* External: a client answers that it holds, or does not hold, sleep blockers.
ClientAnswersCheck(p, t) ==
  /\ p \in alive /\ check[p][t] = "asked"
  /\ \E answer \in {"yes", "no"} : check' = [check EXCEPT ![p][t] = answer]
  /\ UNCHANGED <<procVars, ackToken, pending, blockers, sleepTimer, asked,
                 verdict, updateVars>>

\* Mutants: the token is not compared; the sender is not looked up in the pending set.
ReplyTokenIgnored(p, t) == ackToken
CountsAsReplyOfAnyone(p, t) ==
  /\ (IF check[p][t] = "error" THEN NoToken ELSE t) = ackToken
  /\ Known(p)

\* An error object carries no token: xpc_dictionary_get_uint64 reads zero.
ReplyToken(p, t) == IF check[p][t] = "error" THEN NoToken ELSE t
CountsAsReply(p, t) ==
  /\ ReplyToken(p, t) = ackToken
  /\ Known(p)
  /\ p \in pending

processAssertionCheckResp(p, t) ==
  LET yes == check[p][t] = "yes"
      count == blockers + (IF yes THEN 1 ELSE 0)
  IN
  /\ check[p][t] \in {"yes", "no", "error"}
  /\ \/ /\ ~CountsAsReply(p, t)
        /\ check' = [check EXCEPT ![p][t] = "none"]
        /\ UNCHANGED <<proc, ackToken, pending, blockers, verdict>>
     \/ /\ CountsAsReply(p, t)
        /\ check' = [check EXCEPT ![p][t] = IF yes THEN "gotYes" ELSE "gotNo"]
        /\ pending' = pending \ {p}
        /\ proc' = ReleaseAll({p})
        /\ IF pending \ {p} = {}
             THEN CloseCheck(count)
             ELSE blockers' = count /\ UNCHANGED <<ackToken, verdict>>
  /\ UNCHANGED <<alive, exitEvent, held, leaked, sleepTimer, asked, updateVars>>

\* Mutant: the handler gives up on the pending replies without closing the round.
CheckTimerIdle ==
  /\ sleepTimer
  /\ sleepTimer' = FALSE
  /\ UNCHANGED <<procVars, ackToken, pending, blockers, asked, verdict, check, updateVars>>

\* The event handler of the five second timer.
CheckTimer ==
  /\ sleepTimer
  /\ sleepTimer' = FALSE
  /\ \/ /\ pending = {}
        /\ UNCHANGED <<proc, ackToken, pending, blockers, verdict>>
     \/ /\ pending # {}
        /\ proc' = ReleaseAll(pending)
        /\ pending' = {}
        /\ CloseCheck(blockers)
  /\ UNCHANGED <<alive, exitEvent, held, leaked, asked, check, updateVars>>

-----------------------------------------------------------------------------
(* The activity update.                                                     *)

generateAssertionActivityUpdateToken ==
  (IF lastToken = UInt32Max THEN 0 ELSE lastToken) + 1

\* Mutant: the pending set is cleared before the report is made.
SendReportLate(t, onlyActives, data, late, over) ==
  report' = [count    |-> report.count + 1,
             token    |-> t,
             actives  |-> IF onlyActives THEN data ELSE {},
             timedOut |-> {},
             overflow |-> ~onlyActives /\ over]

\* _sendAssertionActivityUpdate and _sendActiveAssertions: the requester gets
\* the entries of the live clients, or the log and who did not answer.
SendReport(t, onlyActives, data, late, over) ==
  report' = [count    |-> report.count + 1,
             token    |-> t,
             actives  |-> IF onlyActives THEN data ELSE {},
             timedOut |-> IF onlyActives THEN {} ELSE late,
             overflow |-> ~onlyActives /\ over]

\* copyAssertionActivityUpdate (onlyActives = FALSE) and copyActiveAssertions;
\* a request during an update is refused as busy and changes nothing.
checkForAssertionActivityUpdates(onlyActives) ==
  LET t == generateAssertionActivityUpdateToken IN
  /\ updToken = NoToken
  /\ requests < MaxUpdate
  /\ requests' = requests + 1
  /\ lastToken' = t
  /\ overflow' = FALSE
  /\ updActives' = onlyActives
  /\ actives' = IF onlyActives THEN {} ELSE actives
  /\ proc' = RetainAll(Reachable)
  /\ updPending' = updPending \cup Reachable
  /\ update' = [p \in Pids |-> [u \in UpdateTokens |->
       IF u = t /\ p \in Reachable THEN Sent(p)
       ELSE IF update[p][u] \in {"gotData", "gotOver", "gotError"} THEN "none"
       ELSE update[p][u]]]
  /\ IF updPending \cup Reachable = {}
       THEN /\ SendReport(t, onlyActives, {}, {}, FALSE)
            /\ UNCHANGED <<updToken, updTimer>>
       ELSE /\ updToken' = t
            /\ updTimer' = TRUE
            /\ UNCHANGED report
  /\ UNCHANGED <<alive, exitEvent, held, leaked, sleepVars>>

ClientAnswersUpdate(p, t) ==
  /\ p \in alive /\ update[p][t] = "asked"
  /\ \E answer \in {"data", "over"} : update' = [update EXCEPT ![p][t] = answer]
  /\ UNCHANGED <<procVars, sleepVars, updToken, lastToken, updPending, updActives,
                 overflow, actives, updTimer, requests, report>>

\* Unlike the sleep check, an error object is refused by its type, and the
\* sender is not looked up in the set of processes that were asked.
processAssertionActivityUpdateResp(p, t) ==
  LET s == update[p][t]
      data == IF updActives THEN actives \cup {p} ELSE actives
      over == overflow \/ s = "over"
  IN
  /\ s \in {"data", "over", "error"}
  /\ \/ /\ s = "error" \/ t # updToken \/ ~Known(p)
        /\ update' = [update EXCEPT ![p][t] =
                         IF t = updToken THEN "gotError" ELSE "none"]
        /\ UNCHANGED <<proc, updToken, updPending, overflow, actives, report>>
     \/ /\ s # "error" /\ t = updToken /\ Known(p)
        /\ update' = [update EXCEPT ![p][t] =
                         IF s = "over" THEN "gotOver" ELSE "gotData"]
        /\ actives' = data
        /\ overflow' = over
        /\ updPending' = updPending \ {p}
        /\ proc' = ReleaseAll({p})
        /\ IF updPending \ {p} = {}
             THEN /\ SendReport(t, updActives, data, {}, over)
                  /\ updToken' = NoToken
             ELSE UNCHANGED <<updToken, report>>
  /\ UNCHANGED <<alive, exitEvent, held, leaked, sleepVars, lastToken, updActives,
                 updTimer, requests>>

\* Mutant: the handler gives up on the pending replies without a report.
UpdateTimerIdle ==
  /\ updTimer
  /\ updTimer' = FALSE
  /\ UNCHANGED <<procVars, sleepVars, updToken, lastToken, updPending, updActives,
                 overflow, actives, update, requests, report>>

\* The event handler of the timer of activity updates.
UpdateTimer ==
  /\ updTimer
  /\ updTimer' = FALSE
  /\ \/ /\ updPending = {}
        /\ UNCHANGED <<proc, updToken, updPending, report>>
     \/ /\ updPending # {}
        /\ proc' = ReleaseAll(updPending)
        /\ SendReport(updToken, updActives, actives, updPending, overflow)
        /\ updToken' = NoToken
        /\ updPending' = {}
  /\ UNCHANGED <<alive, exitEvent, held, leaked, sleepVars, lastToken, updActives,
                 overflow, actives, update, requests>>

-----------------------------------------------------------------------------
Init ==
  /\ alive = Pids
  /\ exitEvent = [p \in Pids |-> "none"]
  /\ proc = [p \in Pids |-> NoInfo]
  /\ held = [p \in Pids |-> 0]
  /\ leaked = [p \in Pids |-> 0]
  /\ ackToken = NoToken /\ pending = {} /\ blockers = 0 /\ sleepTimer = FALSE
  /\ asked = 0
  /\ verdict = [t \in 0..MaxSleep |-> [allowed |-> 0, cancelled |-> 0]]
  /\ check = [p \in Pids |-> [t \in SleepTokens |-> "none"]]
  /\ updToken = NoToken /\ lastToken = 0 /\ updPending = {} /\ updActives = FALSE
  /\ overflow = FALSE /\ actives = {} /\ updTimer = FALSE
  /\ update = [p \in Pids |-> [t \in UpdateTokens |-> "none"]]
  /\ requests = 0
  /\ report = NoReport

ProcessNext ==
  \E p \in Pids : \/ asyncAssertionInitialConnection(p)
                  \/ asyncAssertionCreate(p)
                  \/ asyncAssertionRelease(p)
                  \/ processSetAssertionState(p)
                  \/ ProcessExits(p)
                  \/ HandleProcessExit(p)

SleepNext ==
  \/ checkForAsyncAssertions
  \/ CheckTimer
  \/ \E p \in Pids, t \in SleepTokens : \/ ClientAnswersCheck(p, t)
                                        \/ processAssertionCheckResp(p, t)

UpdateNext ==
  \/ \E onlyActives \in BOOLEAN : checkForAssertionActivityUpdates(onlyActives)
  \/ UpdateTimer
  \/ \E p \in Pids, t \in UpdateTokens : \/ ClientAnswersUpdate(p, t)
                                         \/ processAssertionActivityUpdateResp(p, t)

Next == ProcessNext \/ SleepNext \/ UpdateNext

\* An armed dispatch timer fires; no client is obliged to do anything.
Fairness == WF_vars(CheckTimer) /\ WF_vars(UpdateTimer)
Spec == Init /\ [][Next]_vars /\ Fairness

-----------------------------------------------------------------------------
InfoType == [retain : Nat, remote : BOOLEAN, exited : BOOLEAN, suspended : BOOLEAN]

ProcTypeOK ==
  /\ alive \subseteq Pids
  /\ exitEvent \in [Pids -> {"none", "exit", "late"}]
  /\ proc \in [Pids -> InfoType]
  /\ \A p \in Pids : proc[p].retain = 0 => proc[p] = NoInfo
  /\ held \in [Pids -> Nat]
  /\ leaked \in [Pids -> Nat]
SleepTypeOK ==
  /\ asked \in 0..MaxSleep
  /\ ackToken \in 0..MaxSleep
  /\ pending \subseteq Pids
  /\ blockers \in Nat
  /\ sleepTimer \in BOOLEAN
  /\ verdict \in [0..MaxSleep -> [allowed : Nat, cancelled : Nat]]
  /\ check \in [Pids -> [SleepTokens -> CheckStatus]]
UpdateTypeOK ==
  /\ updToken \in 0..UInt32Max
  /\ lastToken \in 0..UInt32Max
  /\ updPending \subseteq Pids
  /\ updActives \in BOOLEAN
  /\ overflow \in BOOLEAN
  /\ actives \subseteq Pids
  /\ updTimer \in BOOLEAN
  /\ update \in [Pids -> [UpdateTokens -> UpdateStatus]]
  /\ requests \in Nat
  /\ report \in [count : Nat, token : 0..UInt32Max, actives : SUBSET Pids,
                 timedOut : SUBSET Pids, overflow : BOOLEAN]

\* Every variable holds values of the C variable it models, and nothing is kept of
\* a ProcessInfo whose last reference is gone.
TypeOK == ProcTypeOK /\ SleepTypeOK /\ UpdateTypeOK

One(b) == IF b THEN 1 ELSE 0

\* A ProcessInfo has exactly one reference per assertion, per round that waits
\* for the process, and per reference powerd never gives back: whatever order
\* replies, timers, exits and releases come in, a round never touches an entry
\* that processInfoRelease freed, and no path releases a reference twice.
RetainBalanced ==
  \A p \in Pids : proc[p].retain =
    held[p] + leaked[p] + One(p \in pending) + One(p \in updPending)

\* Each kIOMessageCanSystemSleep is acknowledged exactly once: not before it is
\* decided, never again by a late reply, by an XPC error or by the timer, and
\* no acknowledgement carries the null token.
AnsweredOnce ==
  \A t \in 0..MaxSleep : verdict[t].allowed + verdict[t].cancelled =
    One(t # NoToken /\ t <= asked /\ t # ackToken)

\* What a step may answer about t, given the replies read by its end.
HonoursReplies(t) ==
  LET blocked == \E p \in Pids : check'[p][t] = "gotYes" IN
  /\ verdict'[t].allowed # verdict[t].allowed => ~blocked
  /\ verdict'[t].cancelled # verdict[t].cancelled => blocked

\* The answer is decided by the replies to this very check that were read
\* before it: sleep is cancelled only if one of them reported a blocker and
\* allowed only if none did; what belongs to an earlier check never counts.
VerdictHonoursReplies == [][\A t \in SleepTokens : HonoursReplies(t)]_vars

\* Every accepted activity request is reported exactly once, and the report
\* accounts for every client that was asked in its round: those that answered
\* in time are in it, the others are named as timed out, and overflow is
\* reported iff a client of this round said so.
ReportComplete ==
  [][\/ report' = report
     \/ LET t == report'.token
            got == {p \in Pids : update'[p][t] \in {"gotData", "gotOver"}}
            sent == {p \in Pids : update[p][t] # "none"}
        IN /\ report'.count = requests'
           /\ updActives' => report'.actives = got
           /\ ~updActives' =>
                /\ report'.timedOut = sent \ got
                /\ report'.overflow = \E p \in sent : update'[p][t] = "gotOver"]_vars

\* Once both exit handlers of a dead process ran, powerd holds none of its
\* assertions, the ones it created after the exit event included.
DeadHoldNothing ==
  \A p \in Pids \ alive : exitEvent[p] = "none" => held[p] = 0

\* The kernel gets its answer even when no client ever replies and when all of them
\* exit or are suspended in the round (the timer of checkForAsyncAssertions).
EveryRoundEnds ==
  \A t \in SleepTokens : asked = t ~> verdict[t].allowed + verdict[t].cancelled = 1

\* Likewise an accepted activity request gets its report, although one timer, armed
\* anew, serves all requests (checkForAssertionActivityUpdates).
EveryRequestIsReported ==
  \A n \in 1..MaxUpdate : requests = n ~> report.count >= n

=============================================================================
