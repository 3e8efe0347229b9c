------------------------- MODULE PMConnectionProofs -------------------------
(***************************************************************************)
(* Proofs about PMConnection, for any number of connections, sleeps,       *)
(* generations and dates.  The inductive invariant says how a wrangler,    *)
(* the connections that wait in it and the tokens their clients were sent  *)
(* belong together.                                                        *)
(***************************************************************************)
EXTENDS PMConnection, FiniteSetTheorems, WellFoundedInduction, TLAPS

ConnType == [open : BOOLEAN, interests : SUBSET Bits, port : BOOLEAN,
             enable : BOOLEAN, handler : 0..MaxSleep]
ResponseType == [token : Tokens \cup {NoToken}, replied : BOOLEAN,
                 connected : BOOLEAN, date : Nat]
WranglerType == [round : 0..MaxSleep, resp : [Conns -> ResponseType]]

\* The wrangler is the one of the last notification, or there is none.
RoundIsCurrent ==
  /\ wrangler.round \in {0, sleeps}
  /\ wrangler.round = 0 => wrangler = NoWrangler

\* A response of wrangler w and the connection c that waits in it.
Linked(w, conns, c) ==
  /\ conns[c].handler # 0 => /\ conns[c].open
                             /\ conns[c].handler = w.round
                             /\ w.resp[c].token # NoToken
  /\ w.resp[c].connected => conns[c].handler = w.round
  /\ w.resp[c].token # NoToken /\ ~w.resp[c].replied => w.resp[c].connected

\* The tokens of wrangler w: sent to their clients, one for each.
TokensOK(w, sent) ==
  \A c \in Conns :
    w.resp[c].token # NoToken =>
      /\ w.resp[c].token \in sent[c]
      /\ \A d \in Conns : w.resp[d].token = w.resp[c].token => d = c

LinksOK(w, conns) == \A c \in Conns : Linked(w, conns, c)

\* While the generation count has not wrapped, an answer is for the client's own
\* response, and a response that counts holds what its client last asked for.
RequestsKept ==
  /\ generation = sleeps
  /\ \A c \in Conns : \A token \in received[c] : token[1] <= generation
  /\ \A c, d \in Conns : wrangler.resp[d].token \in received[c] => d = c
  /\ wrangler.round # 0 => \A c \in Conns :
       /\ wrangler.resp[c].connected => wrangler.resp[c].date = asked[c]
       /\ (conn[c].open \/ alive[c]) /\ ~wrangler.resp[c].connected => asked[c] = NoDate

IndInv == /\ TypeOK /\ RoundIsCurrent /\ AllowedOnce
          /\ LinksOK(wrangler, conn) /\ TokensOK(wrangler, received)

-----------------------------------------------------------------------------
(* Operators of the model.                                                  *)

\* A set of dates has an earliest one.
LEMMA EarliestFact ==
  ASSUME NEW S \in SUBSET Nat
  PROVE  /\ Earliest(S) \in Nat
         /\ S # {} => Earliest(S) \in S /\ \A e \in S : Earliest(S) <= e
<1>1. CASE S = {}
  BY <1>1 DEF Earliest, NoDate
<1>2. CASE S # {}
  <2>1. \E x \in S : \A y \in S : ~(<<y, x>> \in OpToRel(<, Nat))
    BY <1>2, NatLessThanWellFounded, WFMin
  <2>2. PICK x \in S : \A y \in S : ~(<<y, x>> \in OpToRel(<, Nat))
    BY <2>1
  <2>3. ASSUME NEW y \in S PROVE x <= y
    <3>1. x \in Nat /\ y \in Nat
      OBVIOUS
    <3>2. ~(y < x)
      BY <2>2, <3>1 DEF OpToRel
    <3> QED
      BY <3>1, <3>2
  <2> QED
    BY <1>2, <2>3 DEF Earliest
<1> QED
  BY <1>1, <1>2

\* The positions that tokens carry: within bounds, and different for different
\* connections.
LEMMA PositionFact ==
  ASSUME NEW S \in SUBSET Conns, NEW c \in S
  PROVE  /\ Position(c, S) \in 1..MaxConn
         /\ \A d \in S : d # c => Position(d, S) # Position(c, S)
<1> USE ConnAssumption DEF ConnAssumption
<1> DEFINE upTo(x) == {d \in S : d <= x}
<1>1. IsFiniteSet(Conns) /\ Cardinality(Conns) = MaxConn
  BY FS_Interval DEF Conns
<1>2. IsFiniteSet(S) /\ Cardinality(S) \in Nat /\ Cardinality(S) <= MaxConn
  BY <1>1, FS_Subset, FS_CardinalityType
<1>3. ASSUME NEW x \in S
      PROVE  /\ IsFiniteSet(upTo(x)) /\ Cardinality(upTo(x)) \in Nat
             /\ Cardinality(upTo(x)) <= Cardinality(S)
  <2>1. upTo(x) \in SUBSET S
    OBVIOUS
  <2> QED
    BY <1>2, <2>1, FS_Subset, FS_CardinalityType
<1>4. ASSUME NEW x \in S, NEW y \in S, x < y
      PROVE  Cardinality(upTo(x)) # Cardinality(upTo(y))
  <2>1. ASSUME NEW d \in S, d <= x PROVE d <= y
    BY <1>4, <2>1 DEF Conns
  <2>2. y \in upTo(y) /\ y \notin upTo(x)
    BY <1>4 DEF Conns
  <2>3. upTo(x) # upTo(y) /\ upTo(x) \in SUBSET upTo(y)
    BY <2>1, <2>2
  <2> HIDE DEF upTo
  <2> QED
    BY <1>3, <2>3, FS_Subset
<1>5. Position(c, S) \in 1..MaxConn
  <2>1. c \in upTo(c)
    BY DEF Conns
  <2>2. Cardinality(upTo(c)) # 0
    BY <1>3, <2>1, FS_EmptySet
  <2> QED
    BY <1>2, <1>3, <2>2 DEF Position
<1>6. ASSUME NEW d \in S, d # c
      PROVE  Position(d, S) # Position(c, S)
  <2>1. d < c \/ c < d
    BY <1>6 DEF Conns
  <2> QED
    BY <1>4, <2>1 DEF Position
<1> QED
  BY <1>5, <1>6

-----------------------------------------------------------------------------
(* Completion.                                                              *)

\* A free slot and an empty wrangler.
LEMMA EmptyFact ==
  /\ NoConn \in ConnType /\ NoConn.handler = 0 /\ ~NoConn.open
  /\ NoResponse \in ResponseType /\ NoResponse.token = NoToken
  /\ ~NoResponse.connected /\ ~NoResponse.replied /\ NoResponse.date = NoDate
  /\ NoWrangler \in WranglerType /\ NoWrangler.round = 0
  /\ \A c \in Conns : NoWrangler.resp[c] = NoResponse
BY ConnAssumption DEF ConnAssumption, NoConn, ConnType, NoResponse, ResponseType, NoDate,
   NoWrangler, WranglerType

\* The type invariant, in the names used here.
LEMMA TypeFact ==
  ASSUME TypeOK
  PROVE  /\ conn \in [Conns -> ConnType] /\ wrangler \in WranglerType
         /\ \A c \in Conns : conn[c] \in ConnType /\ wrangler.resp[c] \in ResponseType
BY DEF TypeOK, ConnType, ResponseType, WranglerType

\* checkResponses, called for the active wrangler with some responses marked.
LEMMA CompletionFact ==
  ASSUME IndInv, NEW w \in WranglerType, NEW conns \in [Conns -> ConnType],
         w.round = wrangler.round, w.round # 0, LinksOK(w, conns),
         \A c \in Conns : w.resp[c].token = wrangler.resp[c].token,
         checkResponses(w, conns), UNCHANGED <<received, sleeps>>
  PROVE  /\ wrangler' \in WranglerType /\ conn' \in [Conns -> ConnType]
         /\ allowed' \in [1..MaxSleep -> Nat] /\ alarm' \in Nat
         /\ RoundIsCurrent' /\ AllowedOnce'
         /\ LinksOK(wrangler, conn)' /\ TokensOK(wrangler, received)'
<1> USE ConnAssumption DEF ConnAssumption
<1>1. /\ allowed \in [1..MaxSleep -> Nat] /\ alarm \in Nat /\ sleeps \in 0..MaxSleep
      /\ RoundIsCurrent /\ AllowedOnce /\ TokensOK(wrangler, received)
  BY DEF IndInv, TypeOK
<1>2. w.round = sleeps /\ sleeps \in 1..MaxSleep
  BY <1>1 DEF RoundIsCurrent
<1>3. CASE Waiting(w) # {}
  <2>1. wrangler' = w /\ conn' = conns /\ UNCHANGED <<allowed, alarm>>
    BY <1>3 DEF checkResponses
  <2>2. TokensOK(w, received)
    BY <1>1 DEF TokensOK
  <2>3. RoundIsCurrent'
    BY <1>2, <2>1 DEF RoundIsCurrent
  <2>4. AllowedOnce'
    BY <1>1, <2>1 DEF AllowedOnce
  <2> QED
    BY <1>1, <2>1, <2>2, <2>3, <2>4 DEF LinksOK, Linked, TokensOK
<1>4. CASE Waiting(w) = {}
  <2>1. /\ alarm' = Earliest(Requests(w))
        /\ allowed' = [allowed EXCEPT ![w.round] = @ + 1]
        /\ wrangler' = NoWrangler
        /\ conn' = [c \in Conns |-> IF conns[c].handler = w.round
                                      THEN [conns[c] EXCEPT !.handler = 0] ELSE conns[c]]
    BY <1>4 DEF checkResponses, cleanupResponseWrangler
  <2>2. alarm' \in Nat
    <3>1. Requests(w) \in SUBSET Nat
      BY DEF Requests, WranglerType, ResponseType, Responses
    <3> QED
      BY <2>1, <3>1, EarliestFact
  <2>3. allowed' \in [1..MaxSleep -> Nat]
    BY <1>1, <1>2, <2>1
  <2>4. AllowedOnce'
    <3>1. allowed[sleeps] = 0
      BY <1>1, <1>2 DEF AllowedOnce
    <3> SUFFICES ASSUME NEW n \in 1..MaxSleep
                 PROVE  allowed'[n] = IF n <= sleeps /\ n # 0 THEN 1 ELSE 0
      BY <2>1, EmptyFact DEF AllowedOnce
    <3>2. allowed'[n] = IF n = sleeps THEN allowed[n] + 1 ELSE allowed[n]
      BY <1>1, <1>2, <2>1
    <3>3. allowed[n] = IF n <= sleeps /\ n # sleeps THEN 1 ELSE 0
      BY <1>1, <1>2 DEF AllowedOnce
    <3> QED
      BY <1>2, <3>1, <3>2, <3>3
  <2>5. ASSUME NEW c \in Conns
        PROVE  conn'[c] \in ConnType /\ conn'[c].handler = 0
    <3>1. conns[c].handler \in {0, w.round}
      BY DEF LinksOK, Linked
    <3>2. conns[c] \in ConnType
      OBVIOUS
    <3> QED
      BY <1>2, <2>1, <3>1, <3>2 DEF ConnType
  <2>6. conn' \in [Conns -> ConnType]
    BY <2>1, <2>5
  <2>7. RoundIsCurrent'
    BY <2>1, EmptyFact DEF RoundIsCurrent
  <2>8. LinksOK(wrangler, conn)'
    BY <2>1, <2>5, EmptyFact DEF LinksOK, Linked
  <2>9. TokensOK(wrangler, received)'
    BY <2>1, EmptyFact DEF TokensOK
  <2> QED
    BY <2>1, <2>2, <2>3, <2>4, <2>6, <2>7, <2>8, <2>9, EmptyFact
<1> QED
  BY <1>3, <1>4

-----------------------------------------------------------------------------
(* The actions.                                                             *)

\* Nothing is registered, and there is no wrangler.
LEMMA InitInv == Init => IndInv
<1> SUFFICES ASSUME Init PROVE IndInv
  OBVIOUS
<1> USE ConnAssumption DEF ConnAssumption
<1>1. /\ conn \in [Conns -> ConnType] /\ wrangler \in WranglerType
      /\ \A c \in Conns : conn[c].handler = 0
  BY EmptyFact DEF Init
<1>2. TypeOK
  BY <1>1 DEF Init, TypeOK, ConnType, WranglerType, ResponseType, NoDate, Bits
<1>3. RoundIsCurrent /\ LinksOK(wrangler, conn) /\ TokensOK(wrangler, received)
  BY <1>1, EmptyFact DEF Init, RoundIsCurrent, LinksOK, Linked, TokensOK
<1>4. AllowedOnce
  BY DEF Init, AllowedOnce
<1> QED
  BY <1>2, <1>3, <1>4 DEF IndInv

\* A step that touches neither wrangler nor a connection's part in it.
LEMMA BystanderInv ==
  ASSUME IndInv, conn' \in [Conns -> ConnType], alive' \in [Conns -> BOOLEAN],
         capBits' \subseteq Bits,
         \A c \in Conns : /\ conn'[c].handler = conn[c].handler
                          /\ conn[c].handler # 0 => conn'[c].open,
         UNCHANGED <<received, generation, wrangler, sleeps, allowed, alarm, asked>>
  PROVE  IndInv'
<1>1. TypeOK'
  BY DEF IndInv, TypeOK, ConnType
<1>2. LinksOK(wrangler, conn)'
  BY DEF IndInv, LinksOK, Linked
<1>3. RoundIsCurrent' /\ AllowedOnce' /\ TokensOK(wrangler, received)'
  BY DEF IndInv, RoundIsCurrent, AllowedOnce, TokensOK
<1> QED
  BY <1>1, <1>2, <1>3 DEF IndInv

\* A new connection has no handler.
LEMMA CreateInv ==
  ASSUME IndInv, NEW c \in Conns, _io_pm_connection_create(c)
  PROVE  IndInv'
<1>1. PICK I \in SUBSET Bits : conn' = [conn EXCEPT ![c] = NewConn(I)]
  BY DEF _io_pm_connection_create
<1>2. NewConn(I) \in ConnType /\ NewConn(I).handler = 0
  BY ConnAssumption DEF ConnAssumption, NewConn, ConnType
<1>3. conn \in [Conns -> ConnType] /\ conn[c].handler = 0
  BY TypeFact DEF IndInv, LinksOK, Linked, _io_pm_connection_create
<1>4. conn' \in [Conns -> ConnType]
  BY <1>1, <1>2, <1>3
<1>5. ASSUME NEW d \in Conns
      PROVE  /\ conn'[d].handler = conn[d].handler
             /\ conn[d].handler # 0 => conn'[d].open
  BY <1>1, <1>2, <1>3 DEF IndInv, LinksOK, Linked
<1>6. alive \in [Conns -> BOOLEAN] /\ capBits \subseteq Bits
  BY DEF IndInv, TypeOK
<1>7. UNCHANGED <<alive, received, capBits, generation, wrangler, sleeps, allowed, alarm,
                  asked>>
  BY DEF _io_pm_connection_create
<1> QED
  BY <1>4, <1>5, <1>6, <1>7, BystanderInv

\* Enabling and disabling touch the port and the flag only.
LEMMA ScheduleInv ==
  ASSUME IndInv, NEW c \in Conns, _io_pm_connection_schedule_notification(c)
  PROVE  IndInv'
<1>1. PICK disable \in BOOLEAN :
        conn' = [conn EXCEPT ![c].enable = ~disable, ![c].port = @ \/ ~disable]
  BY DEF _io_pm_connection_schedule_notification
<1>2. conn \in [Conns -> ConnType]
  BY TypeFact DEF IndInv
<1>3. ASSUME NEW d \in Conns
      PROVE  /\ conn'[d] \in ConnType /\ conn'[d].handler = conn[d].handler
             /\ conn[d].handler # 0 => conn'[d].open
  <2>1. conn[d].handler # 0 => conn[d].open
    BY DEF IndInv, LinksOK, Linked
  <2>2. conn[d] \in ConnType
    BY <1>2
  <2> QED
    BY <1>1, <1>2, <2>1, <2>2 DEF ConnType
<1>4. conn' \in [Conns -> ConnType]
  BY <1>1, <1>2, <1>3
<1>5. alive \in [Conns -> BOOLEAN] /\ capBits \subseteq Bits
  BY DEF IndInv, TypeOK
<1>6. UNCHANGED <<alive, received, capBits, generation, wrangler, sleeps, allowed, alarm,
                  asked>>
  BY DEF _io_pm_connection_schedule_notification
<1> QED
  BY <1>3, <1>4, <1>5, <1>6, BystanderInv

\* What is left of the invariant after a call of checkResponses.
LEMMA CompletionInv ==
  ASSUME IndInv, NEW w \in WranglerType, NEW conns \in [Conns -> ConnType],
         w.round = wrangler.round, w.round # 0, LinksOK(w, conns),
         \A c \in Conns : w.resp[c].token = wrangler.resp[c].token,
         checkResponses(w, conns),
         alive' \in [Conns -> BOOLEAN], asked' \in [Conns -> Nat],
         UNCHANGED <<received, capBits, generation, sleeps>>
  PROVE  IndInv'
<1>1. /\ wrangler' \in WranglerType /\ conn' \in [Conns -> ConnType]
      /\ allowed' \in [1..MaxSleep -> Nat] /\ alarm' \in Nat
      /\ RoundIsCurrent' /\ AllowedOnce'
      /\ LinksOK(wrangler, conn)' /\ TokensOK(wrangler, received)'
  BY CompletionFact
<1>2. TypeOK'
  BY <1>1 DEF IndInv, TypeOK, WranglerType, ResponseType, ConnType
<1> QED
  BY <1>1, <1>2 DEF IndInv

\* The fields that handlers set in a response.
LEMMA ResponseFact ==
  ASSUME NEW r \in ResponseType, NEW date \in Nat
  PROVE  /\ Answered(r, date) \in ResponseType /\ Answered(r, date).token = r.token
         /\ Answered(r, date).replied /\ Answered(r, date).connected = r.connected
         /\ Answered(r, date).date = IF date = NoDate THEN r.date ELSE date
         /\ Abandoned(r) \in ResponseType /\ Abandoned(r).token = r.token
         /\ r.token # NoToken => Abandoned(r).replied
         /\ ~Abandoned(r).connected
<1>1. Answered(r, date) \in ResponseType
  BY DEF ResponseType, Answered
<1>2. Abandoned(r) \in ResponseType
  BY DEF ResponseType, Abandoned
<1> QED
  BY <1>1, <1>2 DEF ResponseType, Answered, Abandoned

\* One response is replaced, and the others stay as they are.
LEMMA MarkedFact ==
  ASSUME wrangler \in WranglerType, NEW d \in Conns, NEW r \in ResponseType
  PROVE  /\ Marked(d, r) \in WranglerType /\ Marked(d, r).round = wrangler.round
         /\ \A e \in Conns :
              Marked(d, r).resp[e] = IF e = d THEN r ELSE wrangler.resp[e]
BY DEF Marked, WranglerType

\* The wrangler after an answer that is found, and after a connection goes; the
\* connections that are left.
AfterAnswer(d, date) == Marked(d, Answered(wrangler.resp[d], date))
AfterCleanup(c) == Marked(c, Abandoned(wrangler.resp[c]))
Left(c) == [conn EXCEPT ![c] = NoConn]

\* An answer marks the response of its token, and no other.
LEMMA AckFact ==
  ASSUME IndInv, NEW c \in Conns, NEW token, NEW date \in Nat,
         NEW d \in Outstanding(c, token)
  PROVE  /\ d \in Conns /\ AfterAnswer(d, date) \in WranglerType
         /\ AfterAnswer(d, date).round = wrangler.round /\ wrangler.round # 0
         /\ LinksOK(AfterAnswer(d, date), conn)
         /\ \A e \in Conns :
              /\ AfterAnswer(d, date).resp[e].token = wrangler.resp[e].token
              /\ AfterAnswer(d, date).resp[e].connected <=> wrangler.resp[e].connected
              /\ e # d => AfterAnswer(d, date).resp[e] = wrangler.resp[e]
         /\ AfterAnswer(d, date).resp[d].replied
         /\ AfterAnswer(d, date).resp[d].date =
              IF date = NoDate THEN wrangler.resp[d].date ELSE date
<1>1. d \in Conns /\ conn[c].handler # 0
  BY DEF Outstanding
<1>2. /\ wrangler \in WranglerType /\ wrangler.round # 0
      /\ wrangler.resp[d] \in ResponseType
  BY <1>1, TypeFact DEF IndInv, LinksOK, Linked
<1> DEFINE r == Answered(wrangler.resp[d], date)
<1>3. /\ r \in ResponseType /\ r.token = wrangler.resp[d].token /\ r.replied
      /\ r.connected = wrangler.resp[d].connected
      /\ r.date = IF date = NoDate THEN wrangler.resp[d].date ELSE date
  BY <1>2, ResponseFact
<1> HIDE DEF r
<1>4. /\ AfterAnswer(d, date) \in WranglerType /\ AfterAnswer(d, date).round = wrangler.round
      /\ \A e \in Conns : AfterAnswer(d, date).resp[e] = IF e = d THEN r ELSE wrangler.resp[e]
  BY <1>1, <1>2, <1>3, MarkedFact DEF r, AfterAnswer
<1>5. LinksOK(AfterAnswer(d, date), conn)
  BY <1>3, <1>4 DEF IndInv, LinksOK, Linked
<1> QED
  BY <1>1, <1>2, <1>3, <1>4, <1>5

\* The wrangler and the connections after a connection that waits is cleaned up.
LEMMA AbandonFact ==
  ASSUME IndInv, NEW c \in Conns, conn[c].handler # 0
  PROVE  /\ AfterCleanup(c) \in WranglerType /\ Left(c) \in [Conns -> ConnType]
         /\ AfterCleanup(c).round = wrangler.round /\ wrangler.round # 0
         /\ LinksOK(AfterCleanup(c), Left(c))
         /\ \A e \in Conns :
              /\ AfterCleanup(c).resp[e].token = wrangler.resp[e].token
              /\ e # c => AfterCleanup(c).resp[e] = wrangler.resp[e]
         /\ AfterCleanup(c).resp[c].replied /\ ~AfterCleanup(c).resp[c].connected
<1>1. /\ wrangler \in WranglerType /\ conn \in [Conns -> ConnType]
      /\ wrangler.resp[c] \in ResponseType
  BY TypeFact DEF IndInv
<1>2. Left(c) \in [Conns -> ConnType] /\ Left(c)[c].handler = 0
  BY <1>1, EmptyFact DEF Left
<1>3. wrangler.round # 0 /\ wrangler.resp[c].token # NoToken
  BY DEF IndInv, LinksOK, Linked
<1> DEFINE r == Abandoned(wrangler.resp[c])
<1>4. /\ r \in ResponseType /\ r.token = wrangler.resp[c].token
      /\ r.replied /\ ~r.connected
  BY <1>1, <1>3, ResponseFact
<1> HIDE DEF r
<1>5. /\ AfterCleanup(c) \in WranglerType /\ AfterCleanup(c).round = wrangler.round
      /\ \A e \in Conns : AfterCleanup(c).resp[e] = IF e = c THEN r ELSE wrangler.resp[e]
  BY <1>1, <1>4, MarkedFact DEF r, AfterCleanup
<1>6. LinksOK(AfterCleanup(c), Left(c))
  <2> SUFFICES ASSUME NEW e \in Conns PROVE Linked(AfterCleanup(c), Left(c), e)
    BY DEF LinksOK
  <2>1. CASE e = c
    BY <1>2, <1>4, <1>5, <2>1 DEF Linked
  <2>2. CASE e # c
    BY <1>1, <1>5, <2>2 DEF IndInv, LinksOK, Linked, Left
  <2> QED
    BY <2>1, <2>2
<1> QED
  BY <1>2, <1>3, <1>4, <1>5, <1>6

\* An answer, on time, late or repeated.
LEMMA AckInv ==
  ASSUME IndInv, NEW c \in Conns, NEW token, NEW date \in Dates \cup {NoDate},
         _io_pm_connection_acknowledge_event(c, token, date)
  PROVE  IndInv'
<1>1. date \in Nat
  BY ConnAssumption DEF ConnAssumption, NoDate
<1>2. PICK d \in Outstanding(c, token) :
        checkResponses(Marked(d, Answered(wrangler.resp[d], date)), conn)
  BY DEF _io_pm_connection_acknowledge_event
<1> DEFINE w == AfterAnswer(d, date)
<1>3. /\ w \in WranglerType /\ w.round = wrangler.round /\ w.round # 0
      /\ LinksOK(w, conn)
      /\ \A e \in Conns : w.resp[e].token = wrangler.resp[e].token
  BY <1>1, AckFact
<1>4. checkResponses(w, conn)
  BY <1>2 DEF AfterAnswer
<1> HIDE DEF w
<1>5. /\ alive' \in [Conns -> BOOLEAN]
      /\ UNCHANGED <<received, capBits, generation, sleeps>>
  BY DEF IndInv, TypeOK, _io_pm_connection_acknowledge_event
<1>6. asked' \in [Conns -> Nat]
  BY <1>1 DEF IndInv, TypeOK, _io_pm_connection_acknowledge_event
<1>7. conn \in [Conns -> ConnType]
  BY TypeFact DEF IndInv
<1> QED
  BY <1>3, <1>4, <1>5, <1>6, <1>7, CompletionInv

\* A connection that goes: its response counts as answered.
LEMMA CleanupInv ==
  ASSUME IndInv, NEW c \in Conns, cleanupConnection(c), alive' \in [Conns -> BOOLEAN]
  PROVE  IndInv'
<1> DEFINE gone == Left(c)
<1>1. /\ UNCHANGED <<received, capBits, generation, sleeps, asked>>
      /\ asked' \in [Conns -> Nat]
  BY DEF cleanupConnection, IndInv, TypeOK
<1>2. CASE conn[c].handler # 0
  <2> DEFINE w == AfterCleanup(c)
  <2>1. /\ w \in WranglerType /\ gone \in [Conns -> ConnType]
        /\ w.round = wrangler.round /\ w.round # 0 /\ LinksOK(w, gone)
        /\ \A e \in Conns : w.resp[e].token = wrangler.resp[e].token
    BY <1>2, AbandonFact
  <2>2. checkResponses(w, gone)
    BY <1>2 DEF cleanupConnection, AfterCleanup, Left
  <2> HIDE DEF w, gone
  <2> QED
    BY <1>1, <2>1, <2>2, CompletionInv
<1>3. CASE conn[c].handler = 0
  <2>1. conn' = gone /\ UNCHANGED <<wrangler, allowed, alarm>>
    BY <1>3 DEF cleanupConnection, Left
  <2>2. conn' \in [Conns -> ConnType]
    BY <2>1, TypeFact, EmptyFact DEF Left, IndInv
  <2>3. ASSUME NEW e \in Conns
        PROVE  /\ conn'[e].handler = conn[e].handler
               /\ conn[e].handler # 0 => conn'[e].open
    BY <1>3, <2>1, TypeFact, EmptyFact DEF Left, IndInv, LinksOK, Linked
  <2>4. capBits \subseteq Bits
    BY DEF IndInv, TypeOK
  <2> QED
    BY <1>1, <2>1, <2>2, <2>3, <2>4, BystanderInv
<1> QED
  BY <1>2, <1>3

\* A client that leaves, one that dies, and one whose death is heard of.
LEMMA LeaveInv ==
  ASSUME IndInv, NEW c \in Conns,
         \/ _io_pm_connection_release(c)
         \/ ProcessExits(c)
         \/ PMConnectionHandleDeadName(c)
  PROVE  IndInv'
<1>1. alive \in [Conns -> BOOLEAN] /\ capBits \subseteq Bits /\ conn \in [Conns -> ConnType]
  BY TypeFact DEF IndInv, TypeOK
<1>2. CASE _io_pm_connection_release(c)
  <2>1. cleanupConnection(c) /\ alive' \in [Conns -> BOOLEAN]
    BY <1>1, <1>2 DEF _io_pm_connection_release
  <2> QED
    BY <2>1, CleanupInv
<1>3. CASE PMConnectionHandleDeadName(c)
  <2>1. cleanupConnection(c) /\ alive' \in [Conns -> BOOLEAN]
    BY <1>1, <1>3 DEF PMConnectionHandleDeadName
  <2> QED
    BY <2>1, CleanupInv
<1>4. CASE ProcessExits(c)
  <2>1. alive' \in [Conns -> BOOLEAN]
    BY <1>1, <1>4 DEF ProcessExits
  <2>2. UNCHANGED <<conn, received, capBits, generation, wrangler, sleeps, allowed, alarm,
                    asked>>
    BY <1>4 DEF ProcessExits
  <2>3. \A e \in Conns : conn[e].handler # 0 => conn[e].open
    BY DEF IndInv, LinksOK, Linked
  <2> QED
    BY <1>1, <2>1, <2>2, <2>3, BystanderInv
<1> QED
  BY <1>2, <1>3, <1>4

\* A change of capabilities that nobody has to answer.
LEMMA CapabilityInv ==
  ASSUME IndInv, NEW bits \in SUBSET Bits, CapabilityChange(bits)
  PROVE  IndInv'
<1>1. alive \in [Conns -> BOOLEAN] /\ conn \in [Conns -> ConnType]
  BY TypeFact DEF IndInv, TypeOK
<1>2. /\ capBits' \subseteq Bits
      /\ UNCHANGED <<conn, alive, received, generation, wrangler, sleeps, allowed, alarm,
                     asked>>
  BY DEF CapabilityChange
<1>3. \A e \in Conns : conn[e].handler # 0 => conn[e].open
  BY DEF IndInv, LinksOK, Linked
<1> QED
  BY <1>1, <1>2, <1>3, BystanderInv

\* Giving up: all responses count as answered.
LEMMA CleanResponsesFact ==
  ASSUME wrangler \in WranglerType, LinksOK(wrangler, conn), NEW w,
         w = cleanClientResponses(wrangler)
  PROVE  /\ w \in WranglerType /\ w.round = wrangler.round /\ LinksOK(w, conn)
         /\ Waiting(w) = {}
         /\ \A c \in Conns : /\ w.resp[c].token = wrangler.resp[c].token
                              /\ w.resp[c].date = wrangler.resp[c].date
                              /\ w.resp[c].connected = wrangler.resp[c].connected
<1> DEFINE mark(c) == [wrangler.resp[c] EXCEPT !.replied = c \in Responses(wrangler)]
<1>1. ASSUME NEW c \in Conns
      PROVE  /\ mark(c) \in ResponseType /\ mark(c).token = wrangler.resp[c].token
             /\ mark(c).date = wrangler.resp[c].date
             /\ mark(c).connected = wrangler.resp[c].connected
             /\ mark(c).replied = (c \in Responses(wrangler))
  <2>1. wrangler.resp[c] \in ResponseType
    BY DEF WranglerType
  <2>2. (c \in Responses(wrangler)) \in BOOLEAN
    OBVIOUS
  <2> DEFINE b == c \in Responses(wrangler)
  <2> HIDE DEF b
  <2> QED
    BY <2>1, <2>2 DEF ResponseType, b
<1>2. w = [wrangler EXCEPT !.resp = [c \in Conns |-> mark(c)]]
  BY DEF cleanClientResponses
<1> HIDE DEF mark
<1>3. /\ w \in WranglerType /\ w.round = wrangler.round
      /\ \A c \in Conns : w.resp[c] = mark(c)
  <2> DEFINE r == [c \in Conns |-> mark(c)]
  <2>1. r \in [Conns -> ResponseType] /\ \A c \in Conns : r[c] = mark(c)
    BY <1>1
  <2>2. w = [wrangler EXCEPT !.resp = r]
    BY <1>2
  <2> HIDE DEF r
  <2>3. w \in WranglerType /\ w.round = wrangler.round /\ w.resp = r
    BY <2>1, <2>2 DEF WranglerType
  <2> QED
    BY <2>1, <2>3
<1>4. LinksOK(w, conn)
  BY <1>1, <1>3 DEF LinksOK, Linked, Responses
<1>5. Waiting(w) = {}
  BY <1>1, <1>3 DEF Waiting, Responses
<1> QED
  BY <1>1, <1>3, <1>4, <1>5

\* The timer of the active wrangler.
LEMMA TimerInv ==
  ASSUME IndInv, ResponseTimer
  PROVE  IndInv'
<1> DEFINE w == cleanClientResponses(wrangler)
<1>1. wrangler \in WranglerType /\ conn \in [Conns -> ConnType] /\ LinksOK(wrangler, conn)
  BY TypeFact DEF IndInv
<1>2. checkResponses(w, conn) /\ wrangler.round # 0
  BY DEF ResponseTimer
<1>3. /\ alive' \in [Conns -> BOOLEAN] /\ asked' \in [Conns -> Nat]
      /\ UNCHANGED <<received, capBits, generation, sleeps>>
  BY DEF ResponseTimer, IndInv, TypeOK
<1> HIDE DEF w
<1>4. w = cleanClientResponses(wrangler)
  BY DEF w
<1>5. /\ w \in WranglerType /\ w.round = wrangler.round /\ LinksOK(w, conn)
      /\ \A c \in Conns : w.resp[c].token = wrangler.resp[c].token
  BY <1>1, <1>4, CleanResponsesFact
<1> QED
  BY <1>1, <1>2, <1>3, <1>5, CompletionInv

\* The kernel announces a sleep: an active wrangler is completed, and the clients
\* that can be told wait in a new one.
LEMMA SleepInv ==
  ASSUME IndInv, SystemWillSleep
  PROVE  IndInv'
<1> USE ConnAssumption DEF ConnAssumption
<1> DEFINE interested == Interested((capBits \ SleepStateBits) \cup (SleepStateBits \ capBits))
           told == {c \in interested : conn[c].port /\ conn[c].enable}
           token(c) == <<nextGeneration, Position(c, interested)>>
           now == sleeps + 1
           old == wrangler.round
           freed == [c \in Conns |-> IF conn[c].handler = old
                                       THEN [conn[c] EXCEPT !.handler = 0] ELSE conn[c]]
           before == IF old = 0 THEN allowed ELSE [allowed EXCEPT ![old] = @ + 1]
           resp(c) == IF c \in told
                        THEN NewResponse(token(c)) ELSE NoResponse
<1>1. /\ sleeps \in 0..MaxSleep /\ sleeps < MaxSleep /\ sleeps' = now
      /\ generation' = nextGeneration /\ capBits' = SleepStateBits
      /\ asked' = [c \in Conns |-> NoDate] /\ alive' = alive
  BY DEF SystemWillSleep, IndInv, TypeOK
<1>2. /\ wrangler \in WranglerType /\ conn \in [Conns -> ConnType]
      /\ received \in [Conns -> SUBSET Tokens] /\ allowed \in [1..MaxSleep -> Nat]
      /\ alarm \in Nat /\ generation \in 0..MaxGen /\ alive \in [Conns -> BOOLEAN]
  BY TypeFact DEF IndInv, TypeOK
<1>3. nextGeneration \in 1..MaxGen
  BY <1>2 DEF nextGeneration
<1>4. interested \in SUBSET Conns /\ \A c \in interested : conn[c].open
  BY DEF Interested
<1>5. ASSUME NEW c \in told
      PROVE  /\ c \in Conns /\ conn[c].open
             /\ token(c) \in Tokens /\ token(c) # NoToken
             /\ \A d \in told : token(d) = token(c) => d = c
  <2>1. Position(c, interested) \in 1..MaxConn
    BY <1>4, PositionFact
  <2>2. \A d \in told : d # c => Position(d, interested) # Position(c, interested)
    BY <1>4, PositionFact
  <2> HIDE DEF interested
  <2>3. token(c) \in Tokens /\ token(c) # NoToken
    BY <1>3, <2>1 DEF Tokens, NoToken
  <2> QED
    BY <1>4, <2>2, <2>3
<1>6. ASSUME NEW c \in Conns
      PROVE  /\ freed[c] \in ConnType /\ freed[c].handler = 0
             /\ freed[c].open = conn[c].open
  <2>1. conn[c].handler \in {0, old} /\ conn[c] \in ConnType
    BY <1>2 DEF IndInv, LinksOK, Linked
  <2> QED
    BY <2>1 DEF ConnType
<1>7. /\ before \in [1..MaxSleep -> Nat]
      /\ \A n \in 1..MaxSleep : before[n] = IF n <= sleeps THEN 1 ELSE 0
  <2>1. old \in {0, sleeps} /\ old \in 0..MaxSleep
    BY <1>2 DEF IndInv, RoundIsCurrent, WranglerType
  <2>2. \A n \in 1..MaxSleep : allowed[n] = IF n <= sleeps /\ n # old THEN 1 ELSE 0
    BY DEF IndInv, AllowedOnce
  <2> QED
    BY <1>1, <1>2, <2>1, <2>2
<1>8. generation' \in 0..MaxGen /\ capBits' \subseteq Bits /\ sleeps' \in 0..MaxSleep
      /\ asked' \in [Conns -> Nat] /\ alive' \in [Conns -> BOOLEAN]
  BY <1>1, <1>2, <1>3 DEF SleepStateBits, NoDate
<1> HIDE DEF before, freed
<1>9. CASE interested = {}
  <2>1. /\ wrangler' = NoWrangler /\ conn' = freed
        /\ allowed' = [before EXCEPT ![now] = @ + 1]
        /\ alarm' = NoDate /\ received' = received
    BY <1>9 DEF SystemWillSleep, before, freed
  <2>2. allowed' \in [1..MaxSleep -> Nat] /\ AllowedOnce'
    BY <1>1, <1>7, <2>1, EmptyFact DEF AllowedOnce
  <2>3. conn' \in [Conns -> ConnType]
    BY <1>6, <2>1 DEF freed
  <2>4. TypeOK'
    BY <1>2, <1>8, <2>1, <2>2, <2>3, EmptyFact
       DEF TypeOK, ConnType, WranglerType, ResponseType, NoDate
  <2>5. RoundIsCurrent' /\ LinksOK(wrangler, conn)' /\ TokensOK(wrangler, received)'
    BY <1>6, <2>1, EmptyFact DEF RoundIsCurrent, LinksOK, Linked, TokensOK
  <2> QED
    BY <2>2, <2>4, <2>5 DEF IndInv
<1>10. CASE interested # {}
  <2>1. /\ wrangler' = [round |-> now, resp |-> [c \in Conns |-> resp(c)]]
        /\ conn' = [c \in Conns |-> IF c \in told
                      THEN [conn[c] EXCEPT !.handler = now] ELSE freed[c]]
        /\ received' = [c \in Conns |-> IF c \in told
                          THEN received[c] \cup {token(c)} ELSE received[c]]
        /\ allowed' = before
        /\ alarm' = IF old = 0 THEN alarm
                    ELSE Earliest(Requests(cleanClientResponses(wrangler)))
    BY <1>10 DEF SystemWillSleep, before, freed
  <2>2. ASSUME NEW c \in Conns
        PROVE  /\ resp(c) \in ResponseType
               /\ resp(c).token = IF c \in told THEN token(c) ELSE NoToken
               /\ resp(c).connected <=> c \in told
    <3>1. ASSUME NEW t \in Tokens
          PROVE  /\ NewResponse(t) \in ResponseType /\ NewResponse(t).token = t
                 /\ NewResponse(t).connected
      BY DEF NewResponse, ResponseType, NoDate
    <3>2. c \in told => token(c) \in Tokens
      BY <1>5
    <3> HIDE DEF told, token
    <3>3. CASE c \in told
      BY <3>1, <3>2, <3>3
    <3>4. CASE c \notin told
      BY <3>4, EmptyFact
    <3> QED
      BY <3>3, <3>4
  <2>3. ASSUME NEW c \in Conns
        PROVE  /\ conn'[c] \in ConnType
               /\ conn'[c].handler = IF c \in told THEN now ELSE 0
               /\ conn'[c].open = conn[c].open
    <3>1. CASE c \in told
      <4>1. conn'[c] = [conn[c] EXCEPT !.handler = now]
        BY <2>1, <3>1
      <4>2. conn[c] \in ConnType
        BY <1>2
      <4> QED
        BY <1>1, <3>1, <4>1, <4>2 DEF ConnType
    <3>2. CASE c \notin told
      BY <1>6, <2>1, <3>2
    <3> QED
      BY <3>1, <3>2
  <2> HIDE DEF resp
  <2>4. ASSUME NEW c \in Conns PROVE wrangler'.resp[c] = resp(c)
    BY <2>1
  <2>5. wrangler' \in WranglerType /\ wrangler'.round = now
    <3>1. [c \in Conns |-> resp(c)] \in [Conns -> ResponseType]
      BY <2>2
    <3>2. now \in 0..MaxSleep
      BY <1>1
    <3> HIDE DEF now
    <3> QED
      BY <2>1, <3>1, <3>2 DEF WranglerType
  <2>6. conn' \in [Conns -> ConnType]
    BY <2>1, <2>3
  <2>7. received' \in [Conns -> SUBSET Tokens]
    <3>1. ASSUME NEW c \in told PROVE token(c) \in Tokens
      BY <1>5, <3>1
    <3> HIDE DEF told, token
    <3> QED
      BY <1>2, <2>1, <3>1
  <2>8. alarm' \in Nat
    <3> DEFINE w == cleanClientResponses(wrangler)
    <3> HIDE DEF w
    <3>1. w = cleanClientResponses(wrangler)
      BY DEF w
    <3>2. w \in WranglerType
      BY <1>2, <3>1, CleanResponsesFact DEF IndInv
    <3>3. Requests(w) \in SUBSET Nat
      BY <3>2 DEF Requests, WranglerType, ResponseType, Responses
    <3> QED
      BY <1>2, <2>1, <3>3, EarliestFact DEF w
  <2>9. TypeOK'
    BY <1>7, <1>8, <2>1, <2>5, <2>6, <2>7, <2>8
       DEF TypeOK, ConnType, WranglerType, ResponseType
  <2>10. RoundIsCurrent' /\ AllowedOnce'
    <3>1. wrangler'.round = sleeps' /\ sleeps' = sleeps + 1
      BY <1>1, <2>5
    <3>2. RoundIsCurrent'
      BY <1>1, <3>1 DEF RoundIsCurrent
    <3>3. allowed' = before
      BY <2>1
    <3>4. AllowedOnce'
      BY <1>1, <1>7, <3>1, <3>3 DEF AllowedOnce
    <3> QED
      BY <3>2, <3>4
  <2>11. LinksOK(wrangler, conn)'
    <3> SUFFICES ASSUME NEW c \in Conns PROVE Linked(wrangler, conn, c)'
      BY DEF LinksOK
    <3>1. c \in told => conn'[c].open /\ token(c) # NoToken
      BY <1>5, <2>3
    <3> HIDE DEF told, token
    <3> QED
      BY <1>1, <2>2, <2>3, <2>4, <2>5, <3>1 DEF Linked
  <2>12. TokensOK(wrangler, received)'
    <3> SUFFICES ASSUME NEW c \in Conns, resp(c).token # NoToken
                 PROVE  /\ resp(c).token \in received'[c]
                        /\ \A d \in Conns : resp(d).token = resp(c).token => d = c
      BY <2>4 DEF TokensOK
    <3>1. c \in told /\ resp(c).token = token(c)
      BY <2>2
    <3>2. resp(c).token \in received'[c]
      BY <2>1, <3>1
    <3>3. ASSUME NEW d \in Conns, resp(d).token = resp(c).token PROVE d = c
      BY <1>5, <2>2, <3>1, <3>3
    <3> QED
      BY <3>2, <3>3
  <2> QED
    BY <2>9, <2>10, <2>11, <2>12 DEF IndInv
<1> QED
  BY <1>9, <1>10

-----------------------------------------------------------------------------
\* Every step of powerd, its clients and the kernel keeps the invariant.
LEMMA NextInv == IndInv /\ [Next]_vars => IndInv'
<1> SUFFICES ASSUME IndInv, [Next]_vars PROVE IndInv'
  OBVIOUS
<1>1. CASE UNCHANGED vars
  BY <1>1 DEF vars, IndInv, TypeOK, RoundIsCurrent, AllowedOnce, LinksOK, Linked, TokensOK
<1>2. ASSUME NEW c \in Conns, _io_pm_connection_create(c) PROVE IndInv'
  BY <1>2, CreateInv
<1>3. ASSUME NEW c \in Conns, _io_pm_connection_schedule_notification(c) PROVE IndInv'
  BY <1>3, ScheduleInv
<1>4. ASSUME NEW c \in Conns, NEW token \in received[c], NEW date \in Dates \cup {NoDate},
             _io_pm_connection_acknowledge_event(c, token, date)
      PROVE  IndInv'
  BY <1>4, AckInv
<1>5. ASSUME NEW c \in Conns,
             \/ _io_pm_connection_release(c)
             \/ ProcessExits(c)
             \/ PMConnectionHandleDeadName(c)
      PROVE  IndInv'
  BY <1>5, LeaveInv
<1>6. CASE SystemWillSleep
  BY <1>6, SleepInv
<1>7. CASE ResponseTimer
  BY <1>7, TimerInv
<1>8. ASSUME NEW bits \in {Bits, {"CPU"}}, CapabilityChange(bits) PROVE IndInv'
  <2>1. bits \in SUBSET Bits
    BY DEF Bits
  <2> QED
    BY <1>8, <2>1, CapabilityInv
<1> QED
  BY <1>1, <1>2, <1>3, <1>4, <1>5, <1>6, <1>7, <1>8 DEF Next, ClientNext

\* The inductive invariant holds in every reachable state.
THEOREM Invariance == Spec => []IndInv
BY InitInv, NextInv, PTL DEF Spec

\* Every variable holds values of the C variable it models, whatever the number of
\* clients, sleeps and generations.
THEOREM TypeCorrect == Spec => []TypeOK
<1>1. IndInv => TypeOK
  BY DEF IndInv
<1> QED
  BY <1>1, Invariance, PTL

\* checkResponses and PMConnectionPowerCallBack call IOAllowPowerChange once for each
\* notification: never again for a late, repeated or superseded answer.
THEOREM KernelAnsweredOnce == Spec => []AllowedOnce
<1>1. IndInv => AllowedOnce
  BY DEF IndInv
<1> QED
  BY <1>1, Invariance, PTL

\* cleanupResponseWrangler leaves no connection with a responseHandler that was
\* freed, and a response that counts has its connection.
THEOREM NoDanglingHandler == Spec => []HandlersValid
<1>1. IndInv => HandlersValid
  BY DEF IndInv, LinksOK, Linked, HandlersValid
<1> QED
  BY <1>1, Invariance, PTL

\* Whoever powerd waits for holds the token that _io_pm_connection_acknowledge_event
\* will find, and it finds that response only; a wrapped generation changes nothing.
THEOREM WaitIsAnswerable == Spec => []AnswerWouldCount
<1>1. IndInv => AnswerWouldCount
  <2> SUFFICES ASSUME IndInv, NEW c \in Waiting(wrangler)
               PROVE  /\ wrangler.resp[c].token \in received[c]
                      /\ Outstanding(c, wrangler.resp[c].token) = {c}
    BY DEF AnswerWouldCount
  <2>1. /\ c \in Conns /\ wrangler.resp[c].token # NoToken
        /\ wrangler.resp[c].connected
    BY DEF Waiting, Responses, IndInv, LinksOK, Linked
  <2>2. wrangler.round # 0
    BY <2>1, EmptyFact DEF IndInv, RoundIsCurrent
  <2>3. conn[c].handler # 0 /\ conn[c].open
    BY <2>1, <2>2 DEF IndInv, LinksOK, Linked
  <2>4. /\ wrangler.resp[c].token \in received[c]
        /\ \A d \in Conns : wrangler.resp[d].token = wrangler.resp[c].token => d = c
    BY <2>1 DEF IndInv, TokensOK
  <2> QED
    BY <2>1, <2>3, <2>4 DEF Outstanding
<1> QED
  BY <1>1, Invariance, PTL

-----------------------------------------------------------------------------
(* The barrier.                                                             *)

Acked == {n \in 1..MaxSleep : allowed[n] > 0}

\* The notifications that were acknowledged: all, or all but the last.
LEMMA AckedFact ==
  ASSUME IndInv
  PROVE  /\ sleeps \in 0..MaxSleep
         /\ wrangler.round = 0 => Acked = 1..sleeps /\ Waiting(wrangler) = {}
         /\ wrangler.round # 0 => /\ sleeps # 0 /\ sleeps \notin Acked
                                  /\ Acked = 1..(sleeps - 1)
<1> USE ConnAssumption DEF ConnAssumption
<1>1. sleeps \in 0..MaxSleep /\ wrangler.round \in {0, sleeps}
  BY DEF IndInv, TypeOK, RoundIsCurrent
<1>2. \A n \in 1..MaxSleep : allowed[n] = IF n <= sleeps /\ n # wrangler.round THEN 1 ELSE 0
  BY DEF IndInv, AllowedOnce
<1>3. CASE wrangler.round = 0
  <2>1. Waiting(wrangler) = {}
    BY <1>3, EmptyFact DEF IndInv, RoundIsCurrent, Waiting, Responses
  <2>2. ASSUME NEW n PROVE n \in Acked <=> n \in 1..sleeps
    BY <1>1, <1>2, <1>3 DEF Acked
  <2> QED
    BY <1>1, <1>3, <2>1, <2>2
<1>4. CASE wrangler.round # 0
  <2>1. ASSUME NEW n PROVE n \in Acked <=> n \in 1..(sleeps - 1)
    BY <1>1, <1>2, <1>4 DEF Acked
  <2>2. Acked = 1..(sleeps - 1)
    BY <2>1
  <2>3. sleeps \notin 1..(sleeps - 1)
    BY <1>1
  <2> QED
    BY <1>1, <1>4, <2>2, <2>3
<1> QED
  BY <1>3, <1>4

\* One more response of the active wrangler counts as answered.
Settled(w, d) ==
  /\ w.resp[d].replied
  /\ \A e \in Conns : /\ w.resp[e].token = wrangler.resp[e].token
                      /\ e # d => w.resp[e] = wrangler.resp[e]

\* Then nobody but its client is no longer waited for.
LEMMA WaitingFact ==
  ASSUME NEW w, NEW d \in Conns, Settled(w, d)
  PROVE  Waiting(w) = Waiting(wrangler) \ {d}
<1>1. ASSUME NEW e \in Conns PROVE e \in Waiting(w) <=> e \in Waiting(wrangler) \ {d}
  <2>1. CASE e = d
    BY <2>1 DEF Waiting, Responses, Settled
  <2>2. CASE e # d
    <3>1. w.resp[e] = wrangler.resp[e]
      BY <2>2 DEF Settled
    <3> QED
      BY <2>2, <3>1 DEF Waiting, Responses
  <2> QED
    BY <2>1, <2>2
<1>2. Waiting(w) \subseteq Conns /\ Waiting(wrangler) \subseteq Conns
  BY DEF Waiting, Responses
<1> QED
  BY <1>1, <1>2

\* A call of checkResponses is an answer, a retreat from the wait or nothing.
LEMMA CompletionStep ==
  ASSUME IndInv, IndInv', NEW w, NEW conns, NEW d,
         w.round = wrangler.round, w.round # 0,
         Waiting(w) \in {{}, Waiting(wrangler), Waiting(wrangler) \ {d}},
         checkResponses(w, conns), UNCHANGED sleeps
  PROVE  [Barrier!BarrierNext]_(Barrier!barrier)
<1>1. /\ sleeps # 0 /\ sleeps \notin Acked /\ Acked = 1..(sleeps - 1)
      /\ sleeps \in 0..MaxSleep
  BY AckedFact
<1>2. CASE Waiting(w) # {}
  <2>1. wrangler' = w /\ UNCHANGED <<allowed, alarm>>
    BY <1>2 DEF checkResponses
  <2>2. Waiting(wrangler)' = Waiting(w) /\ Acked' = Acked
    BY <2>1 DEF Waiting, Responses, Acked
  <2>3. CASE Waiting(w) = Waiting(wrangler)
    BY <2>2, <2>3 DEF Barrier!barrier, Acked
  <2>4. CASE Waiting(w) = Waiting(wrangler) \ {d} /\ d \in Waiting(wrangler)
    <3>1. Waiting(wrangler) # {d}
      BY <1>2, <2>4
    <3>2. Barrier!Leave
      BY <1>1, <2>2, <2>4, <3>1 DEF Barrier!Leave, Acked
    <3> QED
      BY <3>2 DEF Barrier!BarrierNext
  <2> QED
    BY <1>2, <2>3, <2>4
<1>3. CASE Waiting(w) = {}
  <2>1. wrangler' = NoWrangler
    BY <1>3 DEF checkResponses, cleanupResponseWrangler
  <2>2. Acked' = 1..sleeps' /\ Waiting(wrangler)' = {}
    <3>1. wrangler'.round = 0
      BY <2>1, EmptyFact
    <3>2. (wrangler.round = 0 => Acked = 1..sleeps /\ Waiting(wrangler) = {})'
      BY AckedFact, PTL
    <3> QED
      BY <3>1, <3>2
  <2>3. Barrier!GiveUp
    BY <1>1, <2>2 DEF Barrier!GiveUp, Acked
  <2> QED
    BY <2>3 DEF Barrier!BarrierNext
<1> QED
  BY <1>2, <1>3

\* Every step of powerd is a step of the barrier or none.
LEMMA BarrierStep ==
  ASSUME IndInv, IndInv', [Next]_vars
  PROVE  [Barrier!BarrierNext]_(Barrier!barrier)
<1>1. ASSUME UNCHANGED <<wrangler, sleeps, allowed>>
      PROVE  [Barrier!BarrierNext]_(Barrier!barrier)
  BY <1>1 DEF Barrier!barrier, Waiting, Responses
<1>2. CASE UNCHANGED vars
  BY <1>1, <1>2 DEF vars
<1>3. ASSUME NEW c \in Conns,
             \/ _io_pm_connection_create(c)
             \/ _io_pm_connection_schedule_notification(c)
             \/ ProcessExits(c)
      PROVE  [Barrier!BarrierNext]_(Barrier!barrier)
  BY <1>1, <1>3 DEF _io_pm_connection_create, _io_pm_connection_schedule_notification,
     ProcessExits
<1>4. ASSUME NEW c \in Conns, NEW token \in received[c], NEW date \in Dates \cup {NoDate},
             _io_pm_connection_acknowledge_event(c, token, date)
      PROVE  [Barrier!BarrierNext]_(Barrier!barrier)
  <2>1. date \in Nat
    BY ConnAssumption DEF ConnAssumption, NoDate
  <2>2. PICK d \in Outstanding(c, token) : checkResponses(AfterAnswer(d, date), conn)
    BY <1>4 DEF _io_pm_connection_acknowledge_event, AfterAnswer
  <2> DEFINE w == AfterAnswer(d, date)
  <2>3. /\ d \in Conns /\ w.round = wrangler.round /\ w.round # 0
        /\ Settled(w, d)
    BY <2>1, AckFact DEF Settled
  <2>4. checkResponses(w, conn) /\ UNCHANGED sleeps
    BY <1>4, <2>2 DEF _io_pm_connection_acknowledge_event
  <2> HIDE DEF w
  <2>5. Waiting(w) = Waiting(wrangler) \ {d}
    BY <2>3, WaitingFact
  <2> QED
    BY <2>3, <2>4, <2>5, CompletionStep
<1>5. ASSUME NEW c \in Conns, cleanupConnection(c)
      PROVE  [Barrier!BarrierNext]_(Barrier!barrier)
  <2>1. CASE conn[c].handler = 0
    BY <1>1, <1>5, <2>1 DEF cleanupConnection
  <2>2. CASE conn[c].handler # 0
    <3> DEFINE w == AfterCleanup(c)
    <3>1. /\ w.round = wrangler.round /\ w.round # 0
          /\ Settled(w, c)
      BY <2>2, AbandonFact DEF Settled
    <3>2. checkResponses(w, Left(c)) /\ UNCHANGED sleeps
      BY <1>5, <2>2 DEF cleanupConnection, AfterCleanup, Left
    <3> HIDE DEF w
    <3>3. Waiting(w) = Waiting(wrangler) \ {c}
      BY <3>1, WaitingFact
    <3> QED
      BY <3>1, <3>2, <3>3, CompletionStep
  <2> QED
    BY <2>1, <2>2
<1>6. ASSUME NEW c \in Conns, _io_pm_connection_release(c) \/ PMConnectionHandleDeadName(c)
      PROVE  [Barrier!BarrierNext]_(Barrier!barrier)
  BY <1>5, <1>6 DEF _io_pm_connection_release, PMConnectionHandleDeadName
<1>7. CASE ResponseTimer
  <2> DEFINE w == cleanClientResponses(wrangler)
  <2>1. w.round = wrangler.round /\ Waiting(w) = {}
    BY TypeFact, CleanResponsesFact DEF IndInv
  <2>2. checkResponses(w, conn) /\ UNCHANGED sleeps /\ wrangler.round # 0
    BY <1>7 DEF ResponseTimer
  <2> HIDE DEF w
  <2> QED
    BY <2>1, <2>2, CompletionStep
<1>8. CASE SystemWillSleep
  <2>1. /\ sleeps < MaxSleep /\ sleeps' = sleeps + 1
        /\ wrangler'.round = sleeps' \/ wrangler' = NoWrangler
    BY <1>8 DEF SystemWillSleep
  <2>2. Waiting(wrangler)' \in SUBSET Conns
    BY DEF Waiting, Responses
  <2>3. /\ (wrangler.round = 0 => Acked = 1..sleeps /\ Waiting(wrangler) = {})'
        /\ (wrangler.round # 0 => /\ sleeps # 0 /\ sleeps \notin Acked
                                  /\ Acked = 1..(sleeps - 1))'
    BY AckedFact, PTL
  <2>4. sleeps \in Nat
    BY ConnAssumption DEF ConnAssumption, IndInv, TypeOK
  <2>5. Acked' = 1..sleeps \/ (Acked' = 1..(sleeps + 1) /\ Waiting(wrangler)' = {})
    BY <2>1, <2>3, <2>4
  <2>6. Barrier!Announce
    BY <2>1, <2>2, <2>5 DEF Barrier!Announce, Acked
  <2> QED
    BY <2>6 DEF Barrier!BarrierNext
<1>9. ASSUME NEW bits \in {Bits, {"CPU"}}, CapabilityChange(bits)
      PROVE  [Barrier!BarrierNext]_(Barrier!barrier)
  BY <1>1, <1>9 DEF CapabilityChange
<1> QED
  BY <1>2, <1>3, <1>4, <1>6, <1>7, <1>8, <1>9 DEF Next, ClientNext

\* The safety part of ImplementsBarrier: powerd acknowledges a notification to the
\* kernel once, not before every client that was told has answered or is gone or the
\* wait is given up, and waits for one notification at a time.
THEOREM BarrierSafety ==
  Spec => Barrier!BarrierInit /\ [][Barrier!BarrierNext]_(Barrier!barrier)
<1>1. Init => Barrier!BarrierInit
  <2> SUFFICES ASSUME Init PROVE Barrier!BarrierInit
    OBVIOUS
  <2>1. Waiting(wrangler) = {}
    BY EmptyFact DEF Init, Waiting, Responses
  <2> QED
    BY <2>1 DEF Init, Barrier!BarrierInit
<1>2. IndInv /\ IndInv' /\ [Next]_vars => [Barrier!BarrierNext]_(Barrier!barrier)
  BY BarrierStep
<1> QED
  BY <1>1, <1>2, Invariance, PTL DEF Spec

-----------------------------------------------------------------------------
(* The alarm.                                                               *)

\* A step that takes no part in a round.
LEMMA BystanderKept ==
  ASSUME RequestsKept,
         \A c \in Conns : conn'[c].open \/ alive'[c] => conn[c].open \/ alive[c],
         UNCHANGED <<received, generation, wrangler, sleeps, asked>>
  PROVE  RequestsKept'
BY DEF RequestsKept

\* What wrangler w holds is what its clients, of conns and alive', last asked for.
HoldsRequests(w, conns) ==
  \A c \in Conns :
    /\ w.resp[c].connected => w.resp[c].date = asked'[c]
    /\ (conns[c].open \/ alive'[c]) /\ ~w.resp[c].connected => asked'[c] = NoDate

\* Then the wake event that checkResponses_ScheduleWakeEvents chooses is theirs.
LEMMA RequestsFact ==
  ASSUME NEW w \in WranglerType, NEW conns \in [Conns -> ConnType], w.round # 0,
         LinksOK(w, conns), HoldsRequests(w, conns)
  PROVE  Requests(w) = {asked'[c] : c \in {d \in Conns : conns[d].open}} \ {NoDate}
<1>1. ASSUME NEW c \in Conns, w.resp[c].connected
      PROVE  c \in Responses(w) /\ conns[c].open /\ w.resp[c].date = asked'[c]
  BY <1>1 DEF LinksOK, Linked, Responses, HoldsRequests
<1>2. ASSUME NEW c \in Conns, conns[c].open, asked'[c] # NoDate
      PROVE  w.resp[c].connected
  BY <1>2 DEF HoldsRequests
<1>3. Responses(w) \subseteq Conns
  BY DEF Responses
<1>4. ASSUME NEW x \in Requests(w)
      PROVE  x \in {asked'[c] : c \in {d \in Conns : conns[d].open}} \ {NoDate}
  BY <1>1, <1>3 DEF Requests
<1>5. ASSUME NEW x \in {asked'[c] : c \in {d \in Conns : conns[d].open}} \ {NoDate}
      PROVE  x \in Requests(w)
  <2>1. PICK c \in Conns : conns[c].open /\ x = asked'[c] /\ x # NoDate
    OBVIOUS
  <2>2. w.resp[c].connected
    BY <1>2, <2>1
  <2> QED
    BY <1>1, <2>1, <2>2 DEF Requests
<1> QED
  BY <1>4, <1>5

\* The alarm of a step that ends a round is the earliest request of those who are left.
AlarmRight ==
  sleeps' = sleeps /\ allowed' # allowed =>
    alarm' = Earliest({asked'[c] : c \in {d \in Conns : conn'[d].open}} \ {NoDate})

\* checkResponses for a wrangler that holds the requests.
LEMMA CompletionKept ==
  ASSUME IndInv, RequestsKept, NEW w \in WranglerType, NEW conns \in [Conns -> ConnType],
         w.round = wrangler.round, w.round # 0, LinksOK(w, conns),
         \A c \in Conns : w.resp[c].token = wrangler.resp[c].token,
         HoldsRequests(w, conns), checkResponses(w, conns),
         UNCHANGED <<received, generation, sleeps>>
  PROVE  RequestsKept' /\ AlarmRight
<1>1. CASE Waiting(w) # {}
  <2>1. wrangler' = w /\ conn' = conns /\ UNCHANGED <<allowed, alarm>>
    BY <1>1 DEF checkResponses
  <2> QED
    BY <2>1 DEF RequestsKept, HoldsRequests, AlarmRight
<1>2. CASE Waiting(w) = {}
  <2>1. /\ alarm' = Earliest(Requests(w)) /\ wrangler' = NoWrangler
        /\ conn' = [c \in Conns |-> IF conns[c].handler = w.round
                                      THEN [conns[c] EXCEPT !.handler = 0] ELSE conns[c]]
    BY <1>2 DEF checkResponses, cleanupResponseWrangler
  <2>2. ASSUME NEW c \in Conns PROVE conn'[c].open <=> conns[c].open
    <3>1. conns[c] \in ConnType
      OBVIOUS
    <3> QED
      BY <2>1, <3>1 DEF ConnType
  <2>3. {d \in Conns : conn'[d].open} = {d \in Conns : conns[d].open}
    BY <2>2
  <2>4. AlarmRight
    BY <2>1, <2>3, RequestsFact DEF AlarmRight
  <2>5. ASSUME NEW c \in Conns, NEW d \in Conns
        PROVE  wrangler'.resp[d].token \notin received[c]
    <3>1. wrangler'.resp[d].token = NoToken
      BY <2>1, EmptyFact
    <3>2. received[c] \subseteq Tokens
      BY DEF IndInv, TypeOK
    <3>3. NoToken \notin Tokens
      BY ConnAssumption DEF ConnAssumption, Tokens, NoToken
    <3> QED
      BY <3>1, <3>2, <3>3
  <2>6. RequestsKept'
    BY <2>1, <2>5, EmptyFact DEF RequestsKept
  <2> QED
    BY <2>4, <2>6
<1> QED
  BY <1>1, <1>2

\* An answer is for the client's own response while no generation repeats.
LEMMA AckKept ==
  ASSUME IndInv, RequestsKept, NEW c \in Conns, NEW token \in received[c],
         NEW date \in Dates \cup {NoDate},
         _io_pm_connection_acknowledge_event(c, token, date)
  PROVE  RequestsKept' /\ AlarmRight
<1>1. date \in Nat /\ asked \in [Conns -> Nat] /\ conn \in [Conns -> ConnType]
  BY ConnAssumption, TypeFact DEF ConnAssumption, NoDate, IndInv, TypeOK
<1>2. PICK d \in Outstanding(c, token) : checkResponses(AfterAnswer(d, date), conn)
  BY DEF _io_pm_connection_acknowledge_event, AfterAnswer
<1>3. d = c /\ wrangler.resp[c].connected
  BY DEF Outstanding, RequestsKept
<1> DEFINE w == AfterAnswer(c, date)
<1>4. /\ w \in WranglerType /\ w.round = wrangler.round /\ w.round # 0
      /\ LinksOK(w, conn) /\ checkResponses(w, conn)
      /\ \A e \in Conns : w.resp[e].token = wrangler.resp[e].token
      /\ \A e \in Conns : w.resp[e].connected <=> wrangler.resp[e].connected
      /\ \A e \in Conns : e # c => w.resp[e] = wrangler.resp[e]
      /\ w.resp[c].date = IF date = NoDate THEN wrangler.resp[c].date ELSE date
  BY <1>1, <1>2, <1>3, AckFact
<1> HIDE DEF w
<1>5. /\ asked' = [asked EXCEPT ![c] = IF date = NoDate THEN @ ELSE date]
      /\ UNCHANGED <<alive, received, generation, sleeps>>
  BY DEF _io_pm_connection_acknowledge_event
<1>6. HoldsRequests(w, conn)
  <2> SUFFICES ASSUME NEW e \in Conns
               PROVE  /\ w.resp[e].connected => w.resp[e].date = asked'[e]
                      /\ (conn[e].open \/ alive'[e]) /\ ~w.resp[e].connected
                            => asked'[e] = NoDate
    BY DEF HoldsRequests
  <2>1. /\ wrangler.resp[e].connected => wrangler.resp[e].date = asked[e]
        /\ (conn[e].open \/ alive[e]) /\ ~wrangler.resp[e].connected => asked[e] = NoDate
    BY <1>4 DEF RequestsKept
  <2>2. CASE e = c
    BY <1>1, <1>3, <1>4, <1>5, <2>1, <2>2
  <2>3. CASE e # c
    BY <1>1, <1>4, <1>5, <2>1, <2>3
  <2> QED
    BY <2>2, <2>3
<1> QED
  BY <1>1, <1>4, <1>5, <1>6, CompletionKept

\* The requests of a client that is gone do not count any more.
LEMMA CleanupKept ==
  ASSUME IndInv, RequestsKept, NEW c \in Conns, cleanupConnection(c), ~alive'[c],
         \A e \in Conns : alive'[e] => alive[e]
  PROVE  RequestsKept' /\ AlarmRight
<1>1. UNCHANGED <<received, generation, sleeps, asked>>
  BY DEF cleanupConnection
<1>2. ASSUME NEW e \in Conns PROVE Left(c)[e].open => conn[e].open /\ e # c
  BY TypeFact, EmptyFact DEF IndInv, Left
<1>3. CASE conn[c].handler # 0
  <2> DEFINE w == AfterCleanup(c)
  <2>1. /\ w \in WranglerType /\ Left(c) \in [Conns -> ConnType]
        /\ w.round = wrangler.round /\ w.round # 0 /\ LinksOK(w, Left(c))
        /\ \A e \in Conns : w.resp[e].token = wrangler.resp[e].token
        /\ \A e \in Conns : e # c => w.resp[e] = wrangler.resp[e]
        /\ ~w.resp[c].connected
    BY <1>3, AbandonFact
  <2>2. checkResponses(w, Left(c))
    BY <1>3 DEF cleanupConnection, AfterCleanup, Left
  <2> HIDE DEF w
  <2>3. HoldsRequests(w, Left(c))
    BY <1>1, <1>2, <2>1 DEF HoldsRequests, RequestsKept
  <2> QED
    BY <1>1, <2>1, <2>2, <2>3, CompletionKept
<1>4. CASE conn[c].handler = 0
  <2>1. conn' = Left(c) /\ UNCHANGED <<wrangler, allowed, alarm>>
    BY <1>4 DEF cleanupConnection, Left
  <2>2. \A e \in Conns : conn'[e].open \/ alive'[e] => conn[e].open \/ alive[e]
    BY <1>2, <2>1
  <2> QED
    BY <1>1, <2>1, <2>2, BystanderKept DEF AlarmRight
<1> QED
  BY <1>3, <1>4

\* Giving up keeps the requests of those who have answered.
LEMMA TimerKept ==
  ASSUME IndInv, RequestsKept, ResponseTimer
  PROVE  RequestsKept' /\ AlarmRight
<1> DEFINE w == cleanClientResponses(wrangler)
<1>1. wrangler \in WranglerType /\ conn \in [Conns -> ConnType] /\ LinksOK(wrangler, conn)
  BY TypeFact DEF IndInv
<1>2. checkResponses(w, conn) /\ wrangler.round # 0
  BY DEF ResponseTimer
<1>3. UNCHANGED <<alive, received, generation, sleeps, asked>>
  BY DEF ResponseTimer
<1>4. /\ w \in WranglerType /\ w.round = wrangler.round /\ LinksOK(w, conn)
      /\ \A c \in Conns : /\ w.resp[c].token = wrangler.resp[c].token
                           /\ w.resp[c].date = wrangler.resp[c].date
                           /\ w.resp[c].connected = wrangler.resp[c].connected
  BY <1>1, CleanResponsesFact
<1> HIDE DEF w
<1>5. HoldsRequests(w, conn)
  BY <1>2, <1>3, <1>4 DEF HoldsRequests, RequestsKept
<1> QED
  BY <1>1, <1>2, <1>3, <1>4, <1>5, CompletionKept

\* The tokens of a new round carry its generation, and nothing was asked for in it.
LEMMA SleepFact ==
  ASSUME IndInv, SystemWillSleep, NEW c \in Conns
  PROVE  /\ wrangler'.resp[c].token # NoToken =>
              wrangler'.resp[c].token[1] = nextGeneration
         /\ wrangler'.resp[c].date = NoDate
         /\ received'[c] \subseteq received[c] \cup {wrangler'.resp[c].token}
<1> DEFINE interested == Interested((capBits \ SleepStateBits) \cup (SleepStateBits \ capBits))
           told == {d \in interested : conn[d].port /\ conn[d].enable}
           token(d) == <<nextGeneration, Position(d, interested)>>
           resp(d) == IF d \in told THEN NewResponse(token(d)) ELSE NoResponse
<1>1. received \in [Conns -> SUBSET Tokens]
  BY DEF IndInv, TypeOK
<1>2. CASE interested = {}
  <2>1. wrangler' = NoWrangler /\ received' = received
    BY <1>2 DEF SystemWillSleep
  <2> QED
    BY <2>1, EmptyFact
<1>3. CASE interested # {}
  <2>1. /\ wrangler' = [round |-> sleeps + 1, resp |-> [d \in Conns |-> resp(d)]]
        /\ received' = [d \in Conns |-> IF d \in told
                          THEN received[d] \cup {token(d)} ELSE received[d]]
    BY <1>3 DEF SystemWillSleep
  <2>2. token(c)[1] = nextGeneration
    OBVIOUS
  <2> HIDE DEF resp, told, token
  <2>3. wrangler'.resp[c] = resp(c)
    BY <2>1
  <2>4. CASE c \in told
    <3>1. resp(c).token = token(c) /\ resp(c).date = NoDate
      BY <2>4 DEF resp, NewResponse
    <3>2. received'[c] = received[c] \cup {token(c)}
      BY <2>1, <2>4
    <3> QED
      BY <2>2, <2>3, <3>1, <3>2
  <2>5. CASE c \notin told
    <3>1. resp(c).token = NoToken /\ resp(c).date = NoDate
      BY <2>5, EmptyFact DEF resp
    <3>2. received'[c] = received[c]
      BY <2>1, <2>5
    <3> QED
      BY <2>3, <3>1, <3>2
  <2> QED
    BY <2>4, <2>5
<1> QED
  BY <1>2, <1>3

\* A new round starts with new tokens, as long as the count has not wrapped.
LEMMA SleepKept ==
  ASSUME MaxSleep <= MaxGen, IndInv, IndInv', RequestsKept, SystemWillSleep
  PROVE  RequestsKept' /\ AlarmRight
<1> USE ConnAssumption DEF ConnAssumption
<1>1. /\ sleeps \in 0..MaxSleep /\ sleeps < MaxSleep /\ sleeps' = sleeps + 1
      /\ generation = sleeps /\ generation' = nextGeneration
      /\ asked' = [c \in Conns |-> NoDate]
  BY DEF SystemWillSleep, IndInv, TypeOK, RequestsKept
<1>2. generation' = generation + 1 /\ nextGeneration = generation + 1
  BY <1>1 DEF nextGeneration
<1>3. /\ received \in [Conns -> SUBSET Tokens] /\ received' \in [Conns -> SUBSET Tokens]
      /\ TokensOK(wrangler, received)'
  BY DEF IndInv, TypeOK
<1>4. ASSUME NEW c \in Conns, NEW token \in received'[c]
      PROVE  /\ token[1] <= generation'
             /\ token[1] = generation' => token = wrangler'.resp[c].token
  <2>1. token \in Tokens /\ token # NoToken /\ token[1] \in Nat
    BY <1>3 DEF Tokens, NoToken
  <2>2. CASE token \in received[c]
    <3>1. token[1] <= generation
      BY <2>2 DEF RequestsKept
    <3> QED
      BY <1>1, <1>2, <2>1, <3>1
  <2>3. CASE token = wrangler'.resp[c].token
    <3>1. token[1] = nextGeneration
      BY <2>1, <2>3, SleepFact
    <3> QED
      BY <1>1, <1>2, <2>3, <3>1
  <2> QED
    BY <1>4, <2>2, <2>3, SleepFact
<1>5. ASSUME NEW c \in Conns, NEW d \in Conns, wrangler'.resp[d].token \in received'[c]
      PROVE  d = c
  <2>1. wrangler'.resp[d].token # NoToken
    BY <1>3, <1>5 DEF Tokens, NoToken
  <2>2. wrangler'.resp[d].token[1] = generation'
    BY <1>1, <2>1, SleepFact
  <2>3. wrangler'.resp[d].token = wrangler'.resp[c].token
    BY <1>4, <1>5, <2>2
  <2> QED
    BY <1>3, <2>1, <2>3 DEF TokensOK
<1>6. RequestsKept'
  BY <1>1, <1>2, <1>4, <1>5, SleepFact DEF RequestsKept
<1>7. AlarmRight
  BY <1>1 DEF AlarmRight
<1> QED
  BY <1>6, <1>7

\* The second invariant, and the alarm, through every step.
LEMMA NextKept ==
  ASSUME MaxSleep <= MaxGen, IndInv, IndInv', RequestsKept, [Next]_vars
  PROVE  RequestsKept' /\ [AlarmRight]_vars
<1>1. CASE UNCHANGED vars
  BY <1>1 DEF vars, RequestsKept
<1>2. ASSUME NEW c \in Conns, _io_pm_connection_create(c)
      PROVE  RequestsKept' /\ AlarmRight
  <2>1. \A e \in Conns : conn'[e].open \/ alive'[e] => conn[e].open \/ alive[e]
    BY <1>2, TypeFact DEF _io_pm_connection_create, IndInv
  <2> QED
    BY <1>2, <2>1, BystanderKept DEF _io_pm_connection_create, AlarmRight
<1>3. ASSUME NEW c \in Conns, _io_pm_connection_schedule_notification(c)
      PROVE  RequestsKept' /\ AlarmRight
  <2>1. PICK disable \in BOOLEAN :
          conn' = [conn EXCEPT ![c].enable = ~disable, ![c].port = @ \/ ~disable]
    BY <1>3 DEF _io_pm_connection_schedule_notification
  <2>2. ASSUME NEW e \in Conns PROVE conn'[e].open <=> conn[e].open
    <3>1. conn[e] \in ConnType /\ conn \in [Conns -> ConnType]
      BY TypeFact DEF IndInv
    <3> QED
      BY <2>1, <3>1 DEF ConnType
  <2>3. UNCHANGED <<alive, received, generation, wrangler, sleeps, allowed, asked>>
    BY <1>3 DEF _io_pm_connection_schedule_notification
  <2> QED
    BY <2>2, <2>3, BystanderKept DEF AlarmRight
<1>4. ASSUME NEW c \in Conns, NEW token \in received[c], NEW date \in Dates \cup {NoDate},
             _io_pm_connection_acknowledge_event(c, token, date)
      PROVE  RequestsKept' /\ AlarmRight
  BY <1>4, AckKept
<1>5. ASSUME NEW c \in Conns, _io_pm_connection_release(c)
      PROVE  RequestsKept' /\ AlarmRight
  <2>1. cleanupConnection(c) /\ ~alive'[c] /\ \A e \in Conns : alive'[e] => alive[e]
    BY <1>5 DEF _io_pm_connection_release, IndInv, TypeOK
  <2> QED
    BY <2>1, CleanupKept
<1>6. ASSUME NEW c \in Conns, PMConnectionHandleDeadName(c)
      PROVE  RequestsKept' /\ AlarmRight
  <2>1. cleanupConnection(c) /\ ~alive'[c] /\ \A e \in Conns : alive'[e] => alive[e]
    BY <1>6 DEF PMConnectionHandleDeadName
  <2> QED
    BY <2>1, CleanupKept
<1>7. ASSUME NEW c \in Conns, ProcessExits(c)
      PROVE  RequestsKept' /\ AlarmRight
  <2>1. \A e \in Conns : alive'[e] => alive[e]
    BY <1>7 DEF ProcessExits, IndInv, TypeOK
  <2> QED
    BY <1>7, <2>1, BystanderKept DEF ProcessExits, AlarmRight
<1>8. CASE SystemWillSleep
  BY <1>8, SleepKept
<1>9. CASE ResponseTimer
  BY <1>9, TimerKept
<1>10. ASSUME NEW bits \in {Bits, {"CPU"}}, CapabilityChange(bits)
       PROVE  RequestsKept' /\ AlarmRight
  BY <1>10, BystanderKept DEF CapabilityChange, AlarmRight
<1> QED
  BY <1>1, <1>2, <1>3, <1>4, <1>5, <1>6, <1>7, <1>8, <1>9, <1>10 DEF Next, ClientNext

\* As long as the sixteen bit generation has not wrapped, the kernel goes to sleep
\* with the alarm at the earliest wake date that a client still registered asked for
\* in its last answer: checkResponses_ScheduleWakeEvents loses and invents none.
THEOREM AlarmIsEarliestRequest ==
  ASSUME MaxSleep <= MaxGen
  PROVE  Spec => AlarmHonoursRequests
<1>1. Init => RequestsKept
  <2> SUFFICES ASSUME Init PROVE RequestsKept
    OBVIOUS
  <2> QED
    BY EmptyFact DEF Init, RequestsKept
<1>2. IndInv /\ IndInv' /\ RequestsKept /\ [Next]_vars => RequestsKept'
  BY NextKept
<1>3. IndInv /\ IndInv' /\ RequestsKept /\ [Next]_vars =>
        [sleeps' = sleeps /\ allowed' # allowed =>
           alarm' = Earliest({asked'[c] : c \in {d \in Conns : conn'[d].open}}
                               \ {NoDate})]_vars
  BY NextKept DEF AlarmRight
<1> QED
  BY <1>1, <1>2, <1>3, Invariance, PTL DEF Spec, AlarmHonoursRequests
=============================================================================
