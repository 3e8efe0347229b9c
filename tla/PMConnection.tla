---------------------------- MODULE PMConnection ----------------------------
(***************************************************************************)
(* IOPMConnection, pmconfigd/PMConnection.m: clients register an interest  *)
(* in power capabilities; when the kernel announces that the CPU is about  *)
(* to go, powerd messages the interested ones, gathers their answers in a  *)
(* PMResponseWrangler, and lets the kernel go on when all have answered,   *)
(* have died, or 28 seconds are over.  The answers carry requests to be    *)
(* woken, of which the earliest is programmed.                             *)
(*                                                                         *)
(* Handlers run one at a time on powerd's main queue.                      *)
(***************************************************************************)
EXTENDS Integers, FiniteSets

CONSTANTS
  MaxConn,   \* bound: connections that are ever created; ids only grow
  MaxSleep,  \* bound: sleep notifications
  MaxGen,    \* largest generation count before it wraps to one
  Dates      \* wake dates that clients request

ASSUME ConnAssumption ==
  /\ MaxConn \in Nat /\ MaxSleep \in Nat /\ MaxGen \in Nat \ {0}
  /\ Dates \subseteq Nat \ {0}

Conns == 1..MaxConn
Bits == {"CPU", "AV"}      \* the capabilities that separate the power states
SleepStateBits == {}
NoDate == 0
NoToken == <<0, 0>>

VARIABLES
  conn,       \* gConnections
  alive,      \* external: the processes behind the connections
  received,   \* external: message tokens a client was sent
  capBits,    \* gCurrentCapabilityBits
  generation, \* gWranglerGenerationCount
  wrangler,   \* gLastResponseWrangler; round = 0 is NULL
  sleeps,     \* sleep notifications of the kernel so far
  allowed,    \* how often IOAllowPowerChange was called for each of them
  alarm,      \* what PMScheduleWakeEventChooseBest was last given
  asked       \* history: the wake date each client last asked for in this round
vars == <<conn, alive, received, capBits, generation, wrangler, sleeps, allowed,
          alarm, asked>>

NoConn == [open |-> FALSE, interests |-> {}, port |-> FALSE, enable |-> FALSE,
           handler |-> 0]
NewConn(I) == [open |-> TRUE, interests |-> I, port |-> FALSE, enable |-> FALSE,
               handler |-> 0]
NoResponse == [token |-> NoToken, replied |-> FALSE, connected |-> FALSE,
               date |-> NoDate]
NewResponse(token) == [token |-> token, replied |-> FALSE, connected |-> TRUE,
                       date |-> NoDate]
NoWrangler == [round |-> 0, resp |-> [c \in Conns |-> NoResponse]]

Responses(w) == {c \in Conns : w.resp[c].token # NoToken}
Waiting(w) == {c \in Responses(w) : ~w.resp[c].replied}

-----------------------------------------------------------------------------
(* Completion.                                                              *)

\* Mutant: the requests of dead clients are honoured too.
RequestsOfAll(w) == {w.resp[c].date : c \in Responses(w)} \ {NoDate}

\* checkResponses_ScheduleWakeEvents: the earliest date that a client still
\* connected asked for.
Requests(w) == {w.resp[c].date : c \in {d \in Responses(w) : w.resp[d].connected}}
                 \ {NoDate}
Earliest(S) == IF S = {} THEN NoDate ELSE CHOOSE d \in S : \A e \in S : d <= e

\* Mutants: the wrangler is not freed; it is freed under the connections' feet.
cleanupNothing(w, conns) == wrangler' = w /\ conn' = conns
cleanupOnlyWrangler(w, conns) == wrangler' = NoWrangler /\ conn' = conns

\* The wrangler is freed, and no connection refers to it any more.
cleanupResponseWrangler(w, conns) ==
  /\ wrangler' = NoWrangler
  /\ conn' = [c \in Conns |-> IF conns[c].handler = w.round
                                THEN [conns[c] EXCEPT !.handler = 0] ELSE conns[c]]

\* Once nobody is waited for, the alarm is set and the kernel is told.
checkResponses(w, conns) ==
  IF Waiting(w) # {}
    THEN /\ wrangler' = w
         /\ conn' = conns
         /\ UNCHANGED <<allowed, alarm>>
    ELSE /\ alarm' = Earliest(Requests(w))
         /\ allowed' = [allowed EXCEPT ![w.round] = @ + 1]
         /\ cleanupResponseWrangler(w, conns)

\* Mutant: the tardy clients are not marked.
cleanNoResponses(w) == w

\* cleanClientResponses: whoever has not answered counts as having done so.
cleanClientResponses(w) ==
  [w EXCEPT !.resp = [c \in Conns |-> [w.resp[c] EXCEPT !.replied = c \in Responses(w)]]]

-----------------------------------------------------------------------------
(* Requests of the clients.                                                 *)

_io_pm_connection_create(c) ==
  /\ alive[c] /\ ~conn[c].open
  /\ \A d \in Conns : d < c => conn[d].open \/ ~alive[d]
  /\ \E I \in SUBSET Bits : conn' = [conn EXCEPT ![c] = NewConn(I)]
  /\ UNCHANGED <<alive, received, capBits, generation, wrangler, sleeps, allowed, alarm,
                 asked>>

_io_pm_connection_schedule_notification(c) ==
  /\ conn[c].open /\ alive[c]
  /\ \E disable \in BOOLEAN :
       conn' = [conn EXCEPT ![c].enable = ~disable, ![c].port = @ \/ ~disable]
  /\ UNCHANGED <<alive, received, capBits, generation, wrangler, sleeps, allowed, alarm,
                 asked>>

\* The token is looked up among the responses of the wrangler the connection is
\* waiting in; one of an earlier generation is not found.
Outstanding(c, token) ==
  {d \in Conns : /\ conn[c].open /\ conn[c].handler # 0
                 /\ wrangler.resp[d].token = token
                 /\ wrangler.resp[d].connected}

\* The active wrangler with the response of d replaced.
Marked(d, response) == [wrangler EXCEPT !.resp[d] = response]

Answered(response, date) ==
  [response EXCEPT !.replied = TRUE, !.date = IF date = NoDate THEN @ ELSE date]

_io_pm_connection_acknowledge_event(c, token, date) ==
  /\ alive[c] /\ token \in received[c]
  /\ \E d \in Outstanding(c, token) :
       checkResponses(Marked(d, Answered(wrangler.resp[d], date)), conn)
  /\ asked' = [asked EXCEPT ![c] = IF date = NoDate THEN @ ELSE date]
  /\ UNCHANGED <<alive, received, capBits, generation, sleeps>>

\* cleanupConnection: the response of the connection counts as answered, without
\* its wake request.
Abandoned(response) ==
  [response EXCEPT !.replied = @ \/ response.token # NoToken, !.connected = FALSE]

cleanupConnection(c) ==
  LET w == Marked(c, Abandoned(wrangler.resp[c]))
      gone == [conn EXCEPT ![c] = NoConn]
  IN
  /\ IF conn[c].handler # 0 THEN checkResponses(w, gone)
     ELSE conn' = gone /\ UNCHANGED <<wrangler, allowed, alarm>>
  /\ UNCHANGED <<received, capBits, generation, sleeps, asked>>

\* A released connection is not used again: its id is not given out twice.
_io_pm_connection_release(c) ==
  /\ conn[c].open /\ alive[c]
  /\ alive' = [alive EXCEPT ![c] = FALSE]
  /\ cleanupConnection(c)

\* External: the process exits; powerd hears of it if it watches the process.
ProcessExits(c) ==
  /\ conn[c].open /\ alive[c]
  /\ alive' = [alive EXCEPT ![c] = FALSE]
  /\ UNCHANGED <<conn, received, capBits, generation, wrangler, sleeps, allowed, alarm,
                 asked>>

PMConnectionHandleDeadName(c) ==
  /\ conn[c].open /\ ~alive[c] /\ conn[c].port
  /\ cleanupConnection(c)
  /\ UNCHANGED alive

-----------------------------------------------------------------------------
(* Notifications of the kernel.                                             *)

nextGeneration == IF generation = MaxGen THEN 1 ELSE generation + 1
Interested(bits) == {c \in Conns : conn[c].open /\ conn[c].interests \cap bits # {}}
\* Mutant: the token does not tell clients apart.
PositionFirst(c, S) == 1
Position(c, S) == Cardinality({d \in S : d <= c})

\* PMConnectionPowerCallBack for SYSTEM_WILL_SLEEP_TO_S0, with the call of
\* connectionFireNotification.  A wrangler that is still active is completed as
\* though everybody had answered it.
SystemWillSleep ==
  LET affected == (capBits \ SleepStateBits) \cup (SleepStateBits \ capBits)
      interested == Interested(affected)
      told == {c \in interested : conn[c].port /\ conn[c].enable}
      token(c) == <<nextGeneration, Position(c, interested)>>
      now == sleeps + 1
      old == wrangler.round
      freed == [c \in Conns |-> IF conn[c].handler = old
                                  THEN [conn[c] EXCEPT !.handler = 0] ELSE conn[c]]
      before == IF old = 0 THEN allowed ELSE [allowed EXCEPT ![old] = @ + 1]
  IN
  /\ "CPU" \in capBits   \* the kernel announces the loss of what there is
  /\ sleeps < MaxSleep
  /\ sleeps' = now
  /\ generation' = nextGeneration
  /\ capBits' = SleepStateBits
  /\ IF interested = {}
       THEN /\ wrangler' = NoWrangler
            /\ conn' = freed
            /\ allowed' = [before EXCEPT ![now] = @ + 1]
            /\ alarm' = NoDate
            /\ UNCHANGED received
       ELSE /\ wrangler' = [round |-> now,
                            resp |-> [c \in Conns |-> IF c \in told
                               THEN NewResponse(token(c)) ELSE NoResponse]]
            /\ conn' = [c \in Conns |-> IF c \in told
                           THEN [conn[c] EXCEPT !.handler = now] ELSE freed[c]]
            /\ received' = [c \in Conns |-> IF c \in told
                              THEN received[c] \cup {token(c)} ELSE received[c]]
            /\ allowed' = before
            /\ alarm' = IF old = 0 THEN alarm
                        ELSE Earliest(Requests(cleanClientResponses(wrangler)))
  /\ asked' = [c \in Conns |-> NoDate]
  /\ UNCHANGED alive

\* The event handler of awaitingResponsesTimeout; completing cancels the timer.
ResponseTimer ==
  /\ wrangler.round # 0
  /\ checkResponses(cleanClientResponses(wrangler), conn)
  /\ UNCHANGED <<alive, received, capBits, generation, sleeps, asked>>

\* SYSTEM_DID_WAKE to full or dark wake, and SYSTEM_WILL_SLEEP_TO_S0DARK: the
\* messages they send expect no answer and carry the zero token.
CapabilityChange(bits) ==
  /\ capBits # bits
  /\ capBits' = bits
  /\ UNCHANGED <<conn, alive, received, generation, wrangler, sleeps, allowed, alarm,
                 asked>>

-----------------------------------------------------------------------------
Init ==
  /\ conn = [c \in Conns |-> NoConn]
  /\ alive = [c \in Conns |-> TRUE]
  /\ received = [c \in Conns |-> {}]
  /\ capBits = Bits
  /\ generation = 0
  /\ wrangler = NoWrangler
  /\ sleeps = 0
  /\ allowed = [n \in 1..MaxSleep |-> 0]
  /\ alarm = NoDate
  /\ asked = [c \in Conns |-> NoDate]

ClientNext ==
  \E c \in Conns :
    \/ _io_pm_connection_create(c)
    \/ _io_pm_connection_schedule_notification(c)
    \/ \E token \in received[c], date \in Dates \cup {NoDate} :
         _io_pm_connection_acknowledge_event(c, token, date)
    \/ _io_pm_connection_release(c)
    \/ ProcessExits(c)
    \/ PMConnectionHandleDeadName(c)

Next ==
  \/ ClientNext
  \/ SystemWillSleep
  \/ ResponseTimer
  \/ \E bits \in {Bits, {"CPU"}} : CapabilityChange(bits)

\* The armed timer fires; clients and the kernel owe nothing.
Spec == Init /\ [][Next]_vars /\ WF_vars(ResponseTimer)

-----------------------------------------------------------------------------
Tokens == (1..MaxGen) \X (1..MaxConn)

\* Every variable holds values of the C variable it models.
TypeOK ==
  /\ conn \in [Conns -> [open : BOOLEAN, interests : SUBSET Bits, port : BOOLEAN,
                         enable : BOOLEAN, handler : 0..MaxSleep]]
  /\ alive \in [Conns -> BOOLEAN]
  /\ received \in [Conns -> SUBSET Tokens]   \* never the zero token
  /\ capBits \subseteq Bits
  /\ generation \in 0..MaxGen
  /\ wrangler \in [round : 0..MaxSleep,
                   resp : [Conns -> [token : Tokens \cup {NoToken}, replied : BOOLEAN,
                                     connected : BOOLEAN, date : Nat]]]
  /\ sleeps \in 0..MaxSleep
  /\ allowed \in [1..MaxSleep -> Nat]
  /\ alarm \in Nat
  /\ asked \in [Conns -> Nat]

\* Each sleep notification is acknowledged to the kernel exactly once, unless the
\* wrangler of this very notification still waits: not by a late or repeated
\* answer, not by a death after the timeout, not twice when it is superseded.
AllowedOnce ==
  \A n \in 1..MaxSleep :
    allowed[n] = IF n <= sleeps /\ n # wrangler.round THEN 1 ELSE 0

\* A responseHandler never points to a wrangler that was freed, and the connection
\* of a response that still counts exists and points back.
HandlersValid ==
  \A c \in Conns :
    /\ conn[c].handler # 0 => /\ conn[c].handler = wrangler.round
                              /\ wrangler.resp[c].token # NoToken
    /\ wrangler.resp[c].connected => conn[c].handler = wrangler.round

\* While powerd waits, a client that was told and is neither dead nor released can
\* still end its part of the wait: its token is the one the lookup will find.
AnswerWouldCount ==
  \A c \in Waiting(wrangler) :
    /\ wrangler.resp[c].token \in received[c]
    /\ Outstanding(c, wrangler.resp[c].token) = {c}

\* When a round ends and the kernel goes to sleep, the alarm is the earliest wake
\* date that a client asked for in this round, the last answer and answers given
\* twice included, leaving out the clients that died or left meanwhile.
AlarmHonoursRequests ==
  [][sleeps' = sleeps /\ allowed' # allowed =>
       alarm' = Earliest({asked'[c] : c \in {d \in Conns : conn'[d].open}} \ {NoDate})]_vars

\* The implementation of the barrier.
Barrier == INSTANCE SleepBarrier WITH
  Clients <- Conns,
  sent <- sleeps,
  acked <- {n \in 1..MaxSleep : allowed[n] > 0},
  waiting <- Waiting(wrangler)

\* powerd keeps the promise of SleepBarrier: whatever clients do, the kernel gets
\* one acknowledgement per notification, not before every client that was told has
\* answered or is gone, or the wait is given up; and it gets it.
ImplementsBarrier == Barrier!BarrierSpec
=============================================================================
