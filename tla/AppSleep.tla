------------------------------ MODULE AppSleep ------------------------------
(***************************************************************************)
(* App Sleep and assertions, pmconfigd/PMAssertions.c: while a process has *)
(* active assertions of certain types it must not be put to App Sleep.     *)
(* powerd counts them in the ProcessInfo and tells the process of the      *)
(* first one and of the last one, either in the reply to the request that  *)
(* made the difference or from a block it queues behind that request.      *)
(*                                                                         *)
(* One process; handlers run one at a time on the main queue, and the      *)
(* queued blocks run in order, with other handlers between them.           *)
(***************************************************************************)
EXTENDS Integers, Sequences, FiniteSets, FiniteSetsExt

CONSTANTS
  Ids,       \* assertions of the process
  Types,     \* types with kAssertionTypePreventAppSleep
  UCharMax,  \* largest value of assert_cnt
  MaxQueue   \* bound: blocks of the process that wait on the main queue

ASSUME ConstantsAssumption ==
  IsFiniteSet(Ids) /\ UCharMax \in Nat \ {0} /\ MaxQueue \in Nat

VARIABLES
  list,     \* where each assertion is
  type,     \* and of which type
  info,     \* the ProcessInfo fields that concern App Sleep
  queue,    \* disableAppSleep ("D") and enableAppSleep ("E") blocks
  stays,    \* a reference that is never released keeps the ProcessInfo
  told,     \* the process was last told that App Sleep is disabled
  answered  \* history: every change so far was a request with a reply
vars == <<list, type, info, queue, stays, told, answered>>

NewInfo == [cnt |-> [T \in Types |-> 0], agg |-> {}, disableAS |-> FALSE,
            enableAS |-> FALSE, suspended |-> FALSE]
Known == stays \/ queue # <<>> \/ \E i \in Ids : list[i] # "free"

\* What a handler computes before it is committed.
Now == [info |-> info, queue |-> queue, told |-> told]

schedDisableAppSleep(s, T) ==
  IF s.info.cnt[T] = UCharMax THEN s
  ELSE LET counted == [s EXCEPT !.info.cnt[T] = @ + 1, !.info.agg = @ \cup {T}] IN
       IF s.info.agg # {} THEN counted
       ELSE [counted EXCEPT !.info.disableAS = TRUE, !.queue = Append(@, "D")]

schedEnableAppSleepSigned(s, T) ==   \* mutant: the count is not a byte
  [s EXCEPT !.info.cnt[T] = @ - 1, !.info.agg = @ \ {T}]
schedEnableAppSleep(s, T) ==
  LET n == (s.info.cnt[T] - 1) % (UCharMax + 1)
      counted == [s EXCEPT !.info.cnt[T] = n,
                           !.info.agg = IF n = 0 THEN @ \ {T} ELSE @]
  IN IF n # 0 \/ counted.info.agg # {} THEN counted
     ELSE [counted EXCEPT !.info.enableAS = TRUE, !.queue = Append(@, "E")]

disableAppSleepAgain(s) ==   \* mutant: the flag stays set
  IF s.info.disableAS THEN [s EXCEPT !.told = TRUE] ELSE s
disableAppSleep(s) ==
  IF s.info.disableAS THEN [s EXCEPT !.info.disableAS = FALSE, !.told = TRUE] ELSE s
enableAppSleep(s) ==
  IF s.info.enableAS THEN [s EXCEPT !.info.enableAS = FALSE, !.told = FALSE] ELSE s

\* Mutant: the two are reported in the wrong order.
updateAppSleepStatesSwapped(s) == disableAppSleep(enableAppSleep(s))

\* updateAppSleepStates: the reply to a MIG request carries what is pending.
updateAppSleepStates(s) == enableAppSleep(disableAppSleep(s))

Commit(s, lists) ==
  /\ list' = lists
  /\ queue' = s.queue
  /\ told' = s.told
  /\ info' = IF stays \/ s.queue # <<>> \/ \E i \in Ids : lists[i] # "free"
               THEN s.info ELSE NewInfo
  /\ UNCHANGED stays

Room == Len(queue) < MaxQueue
\* A change by a MIG request has an answer; one over XPC or by a timeout has none.
Reply(s, how) == IF how = "mig" THEN updateAppSleepStates(s) ELSE s

-----------------------------------------------------------------------------
\* doCreate reports a ProcessInfo to the MIG handler only when it is new, so only
\* then does the reply carry the disable.
doCreate(i, T, how) ==
  LET s == schedDisableAppSleep(Now, T) IN
  /\ list[i] = "free" /\ ~info.suspended /\ Room
  /\ type' = [type EXCEPT ![i] = T]
  /\ Commit(IF how = "mig" /\ ~Known THEN disableAppSleep(s) ELSE s,
            [list EXCEPT ![i] = "active"])

\* A release, or a timeout that releases; a suspended assertion goes the way of
\* an active one.
doRelease(i, how) ==
  /\ list[i] # "free" /\ Room
  /\ Commit(Reply(IF list[i] = "inactive" THEN Now
                  ELSE schedEnableAppSleep(Now, type[i]), how),
            [list EXCEPT ![i] = "free"])
  /\ UNCHANGED type

\* The level key, or a timeout that turns the assertion off.
doSetLevel(i, how) ==
  /\ ~info.suspended /\ Room
  /\ \/ /\ list[i] = "active"
        /\ Commit(Reply(schedEnableAppSleep(Now, type[i]), how),
                  [list EXCEPT ![i] = "inactive"])
     \/ /\ list[i] = "inactive"
        /\ Commit(Reply(schedDisableAppSleep(Now, type[i]), how),
                  [list EXCEPT ![i] = "active"])
  /\ UNCHANGED type

\* Suspending updates the counts of each active assertion, resuming does not, and
\* the level property decides which of them are active again.
handleAssertionSuspend ==
  LET active == {i \in Ids : list[i] = "active"}
      s == FoldSet(LAMBDA i, r : schedEnableAppSleep(r, type[i]), Now, active)
  IN
  /\ ~info.suspended /\ Room
  /\ \E i \in Ids : list[i] # "free"
  /\ Commit([s EXCEPT !.info.suspended = TRUE],
            [i \in Ids |-> IF list[i] = "free" THEN "free" ELSE "suspended"])
  /\ UNCHANGED type
handleAssertionResume ==
  /\ info.suspended
  /\ \E on \in SUBSET {i \in Ids : list[i] = "suspended"} :
       Commit([Now EXCEPT !.info.suspended = FALSE],
              [i \in Ids |-> IF list[i] # "suspended" THEN list[i]
                             ELSE IF i \in on THEN "active" ELSE "inactive"])
  /\ UNCHANGED type

\* The next block: it acts if its message is still pending, and returns the
\* reference on the ProcessInfo it was queued with.
RunBlock ==
  /\ queue # <<>>
  /\ LET s == IF Head(queue) = "D" THEN disableAppSleep(Now) ELSE enableAppSleep(Now)
     IN Commit([s EXCEPT !.queue = Tail(@)], list)
  /\ UNCHANGED type

Init ==
  /\ list = [i \in Ids |-> "free"]
  /\ type \in [Ids -> Types] /\ \A i, j \in Ids : type[i] = type[j]
  /\ info = NewInfo
  /\ queue = <<>>
  /\ stays \in BOOLEAN
  /\ told = FALSE
  /\ answered = TRUE

Request(how) ==
  \E i \in Ids : \/ \E T \in Types : doCreate(i, T, how)
                 \/ doRelease(i, how)
                 \/ doSetLevel(i, how)

Next == \/ \E how \in {"mig", "none"} :
              Request(how) /\ answered' = (answered /\ how = "mig")
        \/ (handleAssertionSuspend \/ handleAssertionResume) /\ answered' = FALSE
        \/ RunBlock /\ UNCHANGED answered
Spec == Init /\ [][Next]_vars

-----------------------------------------------------------------------------
\* Every variable holds values of the C variable it models; assert_cnt is a byte, and
\* a suspension queues at most one block per assertion.
TypeOK ==
  /\ list \in [Ids -> {"free", "active", "inactive", "suspended"}]
  /\ type \in [Ids -> Types]
  /\ info \in [cnt : [Types -> 0..UCharMax], agg : SUBSET Types,
               disableAS : BOOLEAN, enableAS : BOOLEAN, suspended : BOOLEAN]
  /\ queue \in Seq({"D", "E"}) /\ Len(queue) <= MaxQueue + Cardinality(Ids)
  /\ stays \in BOOLEAN /\ told \in BOOLEAN /\ answered \in BOOLEAN

\* A notification that is still to be sent has a block that will send it: a reply
\* that carried it, a block that found nothing to do, or a ProcessInfo that was
\* freed and made anew never leaves disableAS_pend or enableAS_pend set for good.
PendingHasBlock ==
  /\ info.disableAS => \E n \in DOMAIN queue : queue[n] = "D"
  /\ info.enableAS => \E n \in DOMAIN queue : queue[n] = "E"

\* Once no block is waiting, a process that nobody suspends, whose requests come over
\* MIG and whose assertions do not time out has been told that App Sleep is disabled
\* exactly when it holds an active assertion that prevents it ("App is holding power
\* assertion", "App has released its last power assertion").  Blocks alone do not
\* suffice: of three changes without a reply the third finds its flag consumed.  Nor
\* does it hold with more assertions of a type than assert_cnt can count.
ToldTheTruth ==
  answered /\ queue = <<>> => (told <=> \E i \in Ids : list[i] = "active")
=============================================================================
