-------------------------- MODULE SystemLoadProofs --------------------------
(***************************************************************************)
(* Proofs about SystemLoad, for any clients and timeouts, any inputs and   *)
(* queues of any length.                                                   *)
(***************************************************************************)
EXTENDS SystemLoad, SequenceTheorems, WellFoundedInduction, TLAPS

ClientSet == [id : Clients, timeout : 1..Forever, posted : LevelSet]
LoadSet == [user : Advice, battery : Advice, power : Advice, combined : Advice]
CpuSet == [thermal : BOOLEAN, constrained : BOOLEAN, plimit : BOOLEAN]
BatterySet == [ac : BOOLEAN, low : BOOLEAN]
Wakes == {"full", "dark", "bt"}
PressureSet == {"none", "nominal", "moderate", "heavy"}

\* The globals of the file.
GlobalSet ==
  [userActive : BOOLEAN, rootDomain : BOOLEAN, posted : LevelSet, hidActive : BOOLEAN,
   lastHid : Nat, assertionValid : BOOLEAN, lastAssertion : Nat, idleTimeout : Nat \ {0},
   clients : Seq(ClientSet), hidTimer : Nat, assertionTimer : Nat, displayOff : BOOLEAN,
   notification : BOOLEAN, wake : Wakes, asserted : SUBSET Kinds, oneness : BOOLEAN,
   displaySleep : BOOLEAN, dwbt : BOOLEAN, loggedIn : BOOLEAN, battery : BatterySet,
   cpu : CpuSet, pressure : PressureSet, load : LoadSet, unsaid : BOOLEAN, unshared : BOOLEAN]

\* The clients are in the order of their timeouts, none twice, none below the timeout
\* that HID and the timer of the assertions go by.
Listed(q, idle) ==
  \A i \in 1..Len(q) :
    /\ q[i].timeout >= idle
    /\ \A j \in 1..i - 1 : q[j].id # q[i].id /\ q[j].timeout <= q[i].timeout

\* The time without activity, written without the clock.
DurAt(u, t) ==
  Smaller(IF ~u.rootDomain THEN Forever ELSE IF u.hidActive THEN 0 ELSE t - u.lastHid,
          IF u.assertionValid THEN t - u.lastAssertion ELSE Forever)

\* Activity is in the past; HID that is idle has been so for a while; and an assertion
\* of this very moment has its timer.
Past(u, t) ==
  /\ u.lastHid <= t /\ u.lastAssertion <= t
  /\ ~u.hidActive => u.lastHid < t
Fresh(u, t) ==
  u.assertionValid /\ u.lastAssertion = t =>
    u.assertionTimer > t /\ u.assertionTimer <= t + u.idleTimeout
Good(u, t) ==
  /\ u \in GlobalSet /\ Listed(u.clients, u.idleTimeout)
  /\ Past(u, t) /\ Fresh(u, t)

\* Without HID, whoever is told of activity, or would be, has a timer that is due by
\* the end of the timeout.
DueFor(u, d, timeout) ==
  /\ d # NoDate
  /\ d <= u.lastHid + timeout \/ (u.assertionValid /\ d <= u.lastAssertion + timeout)
Watched(u, t) ==
  ~u.hidActive =>
    \A i \in 1..Len(u.clients) :
      "active" \in u.clients[i].posted \/ (~u.displayOff /\ DurAt(u, t) < u.clients[i].timeout) =>
        DueFor(u, u.hidTimer, u.clients[i].timeout) \/ DueFor(u, u.assertionTimer, u.clients[i].timeout)

\* The decision about activity is never behind.
Active(u, t) == ~u.displayOff /\ DurAt(u, t) < Default => u.userActive
Told(u) ==
  \A i \in 1..Len(u.clients) :
    u.clients[i].timeout <= Default =>
      ~("active" \in u.clients[i].posted /\ "absentWithDisplay" \in u.clients[i].posted)
Shown(u) == (~u.displayOff /\ u.userActive) \/ u.oneness => "active" \in u.posted
Sound(u, t) == Active(u, t) /\ Watched(u, t) /\ Told(u) /\ Shown(u)

Shared(u) == ~u.unshared => u.load = Load(u)

\* Activity is news only if the root domain or an assertion says so.
Awake(u) == ~u.displayOff /\ (u.rootDomain \/ u.assertionValid)
Honest(u, r) ==
  ~r.oneness =>
    /\ "active" \in r.posted /\ "active" \notin u.posted => Awake(r)
    /\ \A i \in 1..Len(r.clients), j \in 1..Len(u.clients) :
         /\ r.clients[i].id = u.clients[j].id
         /\ "active" \in r.clients[i].posted
         /\ "active" \notin u.clients[j].posted
         => Awake(r)

LEMMA ConstantsType ==
  /\ Default \in Nat \ {0} /\ MaxTime \in Nat \ {0} /\ MinTimeout \in Nat \ {0}
  /\ MaxQueue \in Nat \ {0} /\ MaxChanges \in Nat
  /\ Forever \in Nat \ {0} /\ Default < Forever /\ MinTimeout <= Forever
  /\ \A t \in Timeouts : t \in Nat \ {0} /\ t <= Forever
  BY SystemLoadAssumption DEF Forever

LEMMA DurFact ==
  ASSUME NEW u \in GlobalSet, NEW t \in Nat, t <= MaxTime, Past(u, t)
  PROVE  /\ DurAt(u, t) \in Nat /\ DurAt(u, t) <= Forever
         /\ DurAt(u, t) < Forever =>
              \/ u.rootDomain /\ u.hidActive /\ DurAt(u, t) = 0
              \/ u.rootDomain /\ ~u.hidActive /\ DurAt(u, t) = t - u.lastHid
              \/ u.assertionValid /\ DurAt(u, t) = t - u.lastAssertion
<1>1. /\ u.lastHid \in Nat /\ u.lastAssertion \in Nat /\ Forever \in Nat
      /\ u.rootDomain \in BOOLEAN /\ u.hidActive \in BOOLEAN /\ u.assertionValid \in BOOLEAN
  BY ConstantsType DEF GlobalSet
<1>2. u.lastHid <= t /\ u.lastAssertion <= t
  BY DEF Past
<1> DEFINE a == IF ~u.rootDomain THEN Forever ELSE IF u.hidActive THEN 0 ELSE t - u.lastHid
           b == IF u.assertionValid THEN t - u.lastAssertion ELSE Forever
<1>3. /\ a \in Nat
      /\ a = Forever \/ (u.rootDomain /\ u.hidActive /\ a = 0)
           \/ (u.rootDomain /\ ~u.hidActive /\ a = t - u.lastHid)
  BY <1>1, <1>2
<1>4. b \in Nat /\ (b = Forever \/ (u.assertionValid /\ b = t - u.lastAssertion))
  BY <1>1, <1>2
<1>5. DurAt(u, t) = IF a < b THEN a ELSE b
  BY DEF DurAt, Smaller
<1>6. t < Forever
  BY ConstantsType DEF Forever
<1>7. a <= Forever /\ b <= Forever
  BY <1>1, <1>2, <1>6
<1> HIDE DEF a, b
<1>8. DurAt(u, t) = a \/ DurAt(u, t) = b
  BY <1>5
<1> QED BY <1>1, <1>3, <1>4, <1>7, <1>8

\* A function on 1..n is a sequence.
LEMMA SeqFun ==
  ASSUME NEW S, NEW n \in Nat, NEW f \in [1..n -> S]
  PROVE  f \in Seq(S) /\ Len(f) = n /\ DOMAIN f = 1..n
<1>1. f \in Seq(S) /\ DOMAIN f = 1..n
  BY SeqDef
<1> QED BY <1>1, LenProperties

LEMMA ListType ==
  ASSUME NEW q \in Seq(ClientSet)
  PROVE  /\ Len(q) \in Nat /\ DOMAIN q = 1..Len(q)
         /\ \A i \in 1..Len(q) : /\ q[i] \in ClientSet /\ q[i].posted \in LevelSet
                                 /\ q[i].timeout \in Nat \ {0} /\ q[i].timeout <= Forever
<1>1. Len(q) \in Nat /\ DOMAIN q = 1..Len(q)
  BY LenProperties
<1>2. ASSUME NEW i \in 1..Len(q)
      PROVE  /\ q[i] \in ClientSet /\ q[i].posted \in LevelSet
             /\ q[i].timeout \in Nat \ {0} /\ q[i].timeout <= Forever
  <2>1. q[i] \in ClientSet
    BY ElementOfSeq
  <2>2. q[i].timeout \in 1..Forever /\ q[i].posted \in LevelSet
    BY <2>1 DEF ClientSet
  <2> QED BY <2>1, <2>2, ConstantsType
<1> QED BY <1>1, <1>2

LEMMA UniqueIds ==
  ASSUME NEW q \in Seq(ClientSet), NEW idle, Listed(q, idle)
  PROVE  \A i, j \in 1..Len(q) : q[i].id = q[j].id => i = j
<1> SUFFICES ASSUME NEW i \in 1..Len(q), NEW j \in 1..Len(q), q[i].id = q[j].id, i # j
             PROVE  FALSE
  OBVIOUS
<1>1. Len(q) \in Nat
  BY LenProperties
<1>2. CASE i < j
  <2>1. i \in 1..j - 1
    BY <1>1, <1>2
  <2> QED BY <2>1 DEF Listed
<1>3. CASE j < i
  <2>1. j \in 1..i - 1
    BY <1>1, <1>3
  <2> QED BY <2>1 DEF Listed
<1> QED BY <1>1, <1>2, <1>3

-----------------------------------------------------------------------------
(* Telling the levels.                                                      *)

\* What neither a decision nor the telling of the levels changes.
Kept(u, v) ==
  /\ v.rootDomain = u.rootDomain /\ v.hidActive = u.hidActive /\ v.lastHid = u.lastHid
  /\ v.assertionValid = u.assertionValid /\ v.lastAssertion = u.lastAssertion
  /\ v.idleTimeout = u.idleTimeout /\ v.assertionTimer = u.assertionTimer
  /\ v.displayOff = u.displayOff /\ v.notification = u.notification /\ v.wake = u.wake
  /\ v.asserted = u.asserted /\ v.oneness = u.oneness /\ v.displaySleep = u.displaySleep
  /\ v.dwbt = u.dwbt /\ v.loggedIn = u.loggedIn /\ v.battery = u.battery /\ v.cpu = u.cpu
  /\ v.pressure = u.pressure /\ v.load = u.load /\ v.unshared = u.unshared

\* The same clients, by their connections and timeouts.
SameList(p, q) ==
  /\ Len(q) = Len(p)
  /\ \A i \in 1..Len(p) : q[i].id = p[i].id /\ q[i].timeout = p[i].timeout

LEMMA KeptFact ==
  ASSUME NEW u, NEW v, Kept(u, v)
  PROVE  /\ \A t : DurAt(v, t) = DurAt(u, t)
         /\ getUserInactiveDuration(v) = getUserInactiveDuration(u)
         /\ PassiveLevels(v) = PassiveLevels(u) /\ Load(v) = Load(u)
         /\ Awake(v) <=> Awake(u)
         /\ \A t : Past(v, t) <=> Past(u, t)
         /\ \A t : Fresh(v, t) <=> Fresh(u, t)
<1>1. \A t : DurAt(v, t) = DurAt(u, t)
  BY DEF Kept, DurAt
<1>2. getUserInactiveDuration(v) = getUserInactiveDuration(u)
  BY DEF Kept, getUserInactiveDuration
<1>3. PassiveLevels(v) = PassiveLevels(u)
  BY DEF Kept, PassiveLevels
<1>4. Load(v) = Load(u)
  <2>1. UserLevel(v) = UserLevel(u) /\ BatteryLevel(v) = BatteryLevel(u)
    BY DEF Kept, UserLevel, BatteryLevel
  <2>2. PowerLevel(v) = PowerLevel(u)
    BY DEF Kept, PowerLevel
  <2> QED BY <2>1, <2>2 DEF Load
<1>5. Awake(v) <=> Awake(u)
  BY DEF Kept, Awake
<1>6. \A t : Past(v, t) <=> Past(u, t)
  BY DEF Kept, Past
<1>7. \A t : Fresh(v, t) <=> Fresh(u, t)
  BY DEF Kept, Fresh
<1> QED BY <1>1, <1>2, <1>3, <1>4, <1>5, <1>6, <1>7

LEMMA DurNow == \A u : getUserInactiveDuration(u) = DurAt(u, now)
BY DEF getUserInactiveDuration, DurAt

LEMMA PassiveFact ==
  ASSUME NEW u
  PROVE  PassiveLevels(u) \in LevelSet /\ "active" \notin PassiveLevels(u)
<1>1. PassiveLevels(u) \in {{"passive", "withDisplay"}, {}, {"absentWithDisplay"},
                            {"passive", "withoutDisplay"}}
  BY DEF PassiveLevels
<1> QED BY <1>1 DEF LevelSet

LEMMA LevelsFact ==
  ASSUME NEW u
  PROVE  /\ Levels(u) \in LevelSet
         /\ "active" \in Levels(u) <=> (~u.displayOff /\ u.userActive) \/ u.oneness
         /\ "active" \in Levels(u) => "absentWithDisplay" \notin Levels(u)
<1> DEFINE a == (~u.displayOff /\ u.userActive) \/ u.oneness
           p == IF a THEN {"active"} ELSE PassiveLevels(u)
           r == IF "network" \in u.asserted THEN {"remote"} ELSE {}
           n == IF "tickless" \in u.asserted THEN {"notification"} ELSE {}
<1>1. Levels(u) = (p \cup r) \cup n
  BY DEF Levels
<1>2. r \in {{}, {"remote"}} /\ n \in {{}, {"notification"}}
  OBVIOUS
<1>3. CASE a
  <2>1. p = {"active"}
    BY <1>3
  <2> HIDE DEF p, r, n, a
  <2>2. Levels(u) \in LevelSet /\ "active" \in Levels(u) /\ "absentWithDisplay" \notin Levels(u)
    BY <1>1, <1>2, <2>1 DEF LevelSet
  <2> QED BY <1>3, <2>2 DEF a
<1>4. CASE ~a
  <2>1. p = PassiveLevels(u)
    BY <1>4
  <2> HIDE DEF p, r, n, a
  <2>2. Levels(u) \in LevelSet /\ "active" \notin Levels(u)
    BY <1>1, <1>2, <2>1, PassiveFact DEF LevelSet
  <2> QED BY <1>4, <2>2 DEF a
<1> QED BY <1>3, <1>4

\* The levels of a client: active exactly if the client's timeout is not over.
LEMMA ClientFact ==
  ASSUME NEW u, u.posted \in LevelSet, NEW timeout
  PROVE  /\ ClientLevels(u, timeout) \in LevelSet
         /\ "active" \in ClientLevels(u, timeout) <=> ~u.displayOff /\ DurAt(u, now) < timeout
         /\ "active" \in ClientLevels(u, timeout) /\ "absentWithDisplay" \in ClientLevels(u, timeout)
              => "absentWithDisplay" \in u.posted
<1> DEFINE on == ~u.displayOff /\ DurAt(u, now) < timeout
           c == ClientLevels(u, timeout)
<1>1. c = IF on THEN (u.posted \ {"passive", "withDisplay", "withoutDisplay"}) \cup {"active"}
          ELSE PassiveLevels(u)
  BY DurNow DEF ClientLevels
<1> HIDE DEF on, c
<1>2. CASE on
  <2>1. c = (u.posted \ {"passive", "withDisplay", "withoutDisplay"}) \cup {"active"}
    BY <1>1, <1>2
  <2>2. c \in LevelSet /\ "active" \in c /\ ("absentWithDisplay" \in c => "absentWithDisplay" \in u.posted)
    BY <2>1 DEF LevelSet
  <2> QED BY <1>2, <2>2 DEF on, c
<1>3. CASE ~on
  <2>1. c = PassiveLevels(u)
    BY <1>1, <1>3
  <2>2. c \in LevelSet /\ "active" \notin c
    BY <2>1, PassiveFact
  <2> QED BY <1>3, <2>2 DEF on, c
<1> QED BY <1>2, <1>3

\* What the telling does to the globals.
UpdatedTo(u, w) ==
  /\ w \in GlobalSet /\ Kept(u, w) /\ SameList(u.clients, w.clients)
  /\ w.userActive = u.userActive /\ w.hidTimer = u.hidTimer
  /\ w.posted = Levels(u) /\ w.unsaid = FALSE
  /\ \A i \in 1..Len(w.clients) :
       /\ "active" \in w.clients[i].posted
            <=> ~w.displayOff /\ DurAt(w, now) < w.clients[i].timeout
       /\ "active" \in w.clients[i].posted /\ "absentWithDisplay" \in w.clients[i].posted
            => "absentWithDisplay" \in w.posted

LEMMA UpdateFact ==
  ASSUME NEW u \in GlobalSet
  PROVE  UpdatedTo(u, updateUserActivityLevels(u))
<1> DEFINE v == [u EXCEPT !.posted = Levels(u), !.unsaid = FALSE]
           n == Len(u.clients)
           at(i) == [u.clients[i] EXCEPT !.posted = ClientLevels(v, u.clients[i].timeout)]
           q == [i \in 1..n |-> at(i)]
           w == updateUserActivityLevels(u)
<1>1. u.clients \in Seq(ClientSet) /\ n \in Nat /\ DOMAIN u.clients = 1..n
  <2>1. u.clients \in Seq(ClientSet)
    BY DEF GlobalSet
  <2> QED BY <2>1, LenProperties
<1>2. /\ v \in GlobalSet /\ v.posted = Levels(u) /\ v.unsaid = FALSE /\ Kept(u, v)
      /\ v.userActive = u.userActive /\ v.hidTimer = u.hidTimer
  BY LevelsFact DEF GlobalSet, Kept
<1>3. v.posted \in LevelSet
  BY <1>2, LevelsFact
<1>4. w = [v EXCEPT !.clients = q]
  BY <1>1 DEF updateUserActivityLevels
<1> HIDE DEF v, w
<1>5. ASSUME NEW i \in 1..n
      PROVE  /\ at(i) \in ClientSet /\ at(i).id = u.clients[i].id
             /\ at(i).timeout = u.clients[i].timeout
             /\ at(i).posted = ClientLevels(v, u.clients[i].timeout)
  <2>1. u.clients[i] \in ClientSet
    BY <1>1, ElementOfSeq
  <2>2. ClientLevels(v, u.clients[i].timeout) \in LevelSet
    BY <1>3, ClientFact
  <2> QED BY <2>1, <2>2 DEF ClientSet
<1> HIDE DEF at
<1>6. q \in [1..n -> ClientSet] /\ \A i \in 1..n : q[i] = at(i)
  BY <1>5
<1> HIDE DEF q
<1>7. q \in Seq(ClientSet) /\ Len(q) = n
  BY <1>1, <1>6, SeqFun
<1>8. /\ w \in GlobalSet /\ Kept(v, w) /\ w.clients = q
      /\ w.userActive = v.userActive /\ w.hidTimer = v.hidTimer
      /\ w.posted = v.posted /\ w.unsaid = v.unsaid
  BY <1>2, <1>4, <1>7 DEF GlobalSet, Kept
<1>9. Kept(u, w)
  BY <1>2, <1>8 DEF Kept
<1>10. w.displayOff = v.displayOff /\ DurAt(w, now) = DurAt(v, now)
  BY <1>8, KeptFact DEF Kept
<1>11. SameList(u.clients, w.clients)
  BY <1>5, <1>6, <1>7, <1>8 DEF SameList
<1>12. ASSUME NEW i \in 1..Len(w.clients)
       PROVE  /\ "active" \in w.clients[i].posted
                   <=> ~w.displayOff /\ DurAt(w, now) < w.clients[i].timeout
              /\ "active" \in w.clients[i].posted /\ "absentWithDisplay" \in w.clients[i].posted
                   => "absentWithDisplay" \in w.posted
  <2>1. /\ i \in 1..n /\ w.clients[i].timeout = u.clients[i].timeout
        /\ w.clients[i].posted = ClientLevels(v, u.clients[i].timeout)
    BY <1>5, <1>6, <1>7, <1>8
  <2> QED BY <1>3, <1>8, <1>10, <2>1, ClientFact
<1>13. w.posted = Levels(u) /\ w.unsaid = FALSE /\ w.userActive = u.userActive
       /\ w.hidTimer = u.hidTimer
  BY <1>2, <1>8
<1> QED BY <1>8, <1>9, <1>11, <1>12, <1>13 DEF UpdatedTo, w

LEMMA SameListed ==
  ASSUME NEW p \in Seq(ClientSet), NEW q \in Seq(ClientSet), SameList(p, q), NEW idle,
         Listed(p, idle)
  PROVE  Listed(q, idle)
<1>1. Len(p) \in Nat /\ Len(q) = Len(p)
      /\ \A i \in 1..Len(p) : q[i].id = p[i].id /\ q[i].timeout = p[i].timeout
  BY LenProperties DEF SameList
<1> QED BY <1>1 DEF Listed

LEMMA KeptGood ==
  ASSUME NEW u, NEW w \in GlobalSet, NEW t, Good(u, t), Kept(u, w), SameList(u.clients, w.clients)
  PROVE  Good(w, t) /\ (Shared(u) => Shared(w))
<1>1. u.clients \in Seq(ClientSet) /\ w.clients \in Seq(ClientSet)
  BY DEF Good, GlobalSet
<1>2. w.idleTimeout = u.idleTimeout /\ w.unshared = u.unshared /\ w.load = u.load
  BY DEF Kept
<1>3. Listed(w.clients, w.idleTimeout)
  BY <1>1, <1>2, SameListed DEF Good
<1>4. Past(w, t) /\ Fresh(w, t) /\ Load(w) = Load(u)
  BY KeptFact DEF Good
<1> QED BY <1>2, <1>3, <1>4 DEF Good, Shared

LEMMA SameLevels ==
  ASSUME NEW u, NEW w, Kept(u, w), w.userActive = u.userActive
  PROVE  Levels(w) = Levels(u)
<1>1. PassiveLevels(w) = PassiveLevels(u)
  BY KeptFact
<1> QED BY <1>1 DEF Kept, Levels

\* Whoever is told of activity can see it.
Frank(r) ==
  ~r.oneness =>
    /\ "active" \in r.posted => Awake(r)
    /\ \A i \in 1..Len(r.clients) : "active" \in r.clients[i].posted => Awake(r)

LEMMA FrankHonest == \A u, r : Frank(r) => Honest(u, r)
BY DEF Frank, Honest

\* Activity, by any timeout, is seen.
LEMMA DurAwake ==
  ASSUME NEW u \in GlobalSet, now \in Nat, now <= MaxTime, Past(u, now), ~u.displayOff,
         NEW timeout \in Nat, timeout <= Forever, DurAt(u, now) < timeout
  PROVE  Awake(u)
<1>1. DurAt(u, now) \in Nat /\ Forever \in Nat
  BY DurFact, ConstantsType
<1>2. DurAt(u, now) < Forever
  BY <1>1
<1> QED BY <1>2, DurFact DEF Awake

\* Telling the levels keeps what is sound: nobody new is told of activity but for a
\* reason, and only as long as a timer watches.
LEMMA UpdateFine ==
  ASSUME NEW u, now \in Nat, now <= MaxTime, Good(u, now), Sound(u, now)
  PROVE  LET w == updateUserActivityLevels(u)
         IN /\ Good(w, now) /\ Sound(w, now) /\ Honest(u, w) /\ (Shared(u) => Shared(w))
            /\ w.posted = Levels(w) /\ Kept(u, w) /\ w.unsaid = FALSE
<1> DEFINE w == updateUserActivityLevels(u)
<1>1. u \in GlobalSet
  BY DEF Good
<1>2. UpdatedTo(u, w)
  BY <1>1, UpdateFact
<1> HIDE DEF w
<1>3. /\ w \in GlobalSet /\ Kept(u, w) /\ SameList(u.clients, w.clients)
      /\ w.userActive = u.userActive /\ w.hidTimer = u.hidTimer
      /\ w.posted = Levels(u) /\ w.unsaid = FALSE
      /\ \A i \in 1..Len(w.clients) :
           /\ "active" \in w.clients[i].posted
                <=> ~w.displayOff /\ DurAt(w, now) < w.clients[i].timeout
           /\ "active" \in w.clients[i].posted /\ "absentWithDisplay" \in w.clients[i].posted
                => "absentWithDisplay" \in w.posted
  BY <1>2 DEF UpdatedTo
<1>4. Good(w, now) /\ (Shared(u) => Shared(w)) /\ Past(w, now)
  BY <1>3, KeptGood DEF Good
<1>5. w.posted = Levels(w)
  BY <1>3, SameLevels
<1>6. DurAt(w, now) = DurAt(u, now) /\ w.displayOff = u.displayOff /\ w.oneness = u.oneness
  BY <1>3, KeptFact DEF Kept
<1>7. Active(w, now)
  BY <1>3, <1>6 DEF Sound, Active
<1>8. Shown(w)
  BY <1>3, LevelsFact, <1>6 DEF Shown
<1>9. /\ w.clients \in Seq(ClientSet) /\ Len(w.clients) \in Nat
      /\ \A i \in 1..Len(w.clients) : w.clients[i].timeout \in Nat /\ w.clients[i].timeout <= Forever
  <2>1. w.clients \in Seq(ClientSet)
    BY <1>3 DEF GlobalSet
  <2> QED BY <2>1, ListType
<1>10. Told(w)
  <2> SUFFICES ASSUME NEW i \in 1..Len(w.clients), w.clients[i].timeout <= Default,
                      "active" \in w.clients[i].posted,
                      "absentWithDisplay" \in w.clients[i].posted
               PROVE  FALSE
    BY DEF Told
  <2>1. ~w.displayOff /\ DurAt(w, now) < w.clients[i].timeout /\ "absentWithDisplay" \in w.posted
    BY <1>3
  <2>2. DurAt(w, now) \in Nat
    BY <1>3, <1>4, DurFact
  <2>3. DurAt(w, now) < Default
    BY <1>9, <2>1, <2>2, ConstantsType
  <2>4. w.userActive
    BY <1>7, <2>1, <2>3 DEF Active
  <2>5. "active" \in Levels(w) /\ "absentWithDisplay" \in Levels(w)
    BY <1>5, <2>1, <2>4, LevelsFact
  <2> QED BY <2>5, LevelsFact
<1>11. Watched(w, now)
  <2> SUFFICES ASSUME ~w.hidActive, NEW i \in 1..Len(w.clients),
                      "active" \in w.clients[i].posted
                        \/ (~w.displayOff /\ DurAt(w, now) < w.clients[i].timeout)
               PROVE  DueFor(w, w.hidTimer, w.clients[i].timeout)
                        \/ DueFor(w, w.assertionTimer, w.clients[i].timeout)
    BY DEF Watched
  <2>1. ~w.displayOff /\ DurAt(w, now) < w.clients[i].timeout
    BY <1>3
  <2>2. i \in 1..Len(u.clients) /\ u.clients[i].timeout = w.clients[i].timeout
    BY <1>3 DEF SameList
  <2>3. ~u.hidActive /\ u.assertionTimer = w.assertionTimer
    BY <1>3 DEF Kept
  <2>4. DueFor(u, u.hidTimer, u.clients[i].timeout)
          \/ DueFor(u, u.assertionTimer, u.clients[i].timeout)
    BY <1>6, <2>1, <2>2, <2>3 DEF Sound, Watched
  <2> QED BY <1>3, <2>2, <2>4 DEF DueFor, Kept
<1>12. Honest(u, w)
  <2>1. ASSUME ~w.oneness, "active" \in w.posted, "active" \notin u.posted PROVE FALSE
    <3>1. ~u.displayOff /\ u.userActive
      BY <1>3, <1>6, <2>1, LevelsFact
    <3> QED BY <2>1, <3>1 DEF Sound, Shown
  <2>2. ASSUME NEW i \in 1..Len(w.clients), "active" \in w.clients[i].posted PROVE Awake(w)
    <3>1. ~w.displayOff /\ DurAt(w, now) < w.clients[i].timeout
      BY <1>3, <2>2
    <3> QED BY <1>3, <1>4, <1>9, <3>1, DurAwake
  <2> QED BY <2>1, <2>2 DEF Honest
<1> QED BY <1>3, <1>4, <1>5, <1>7, <1>8, <1>10, <1>11, <1>12 DEF Sound, w

-----------------------------------------------------------------------------
(* The decision about activity.                                             *)

\* A set of numbers has a smallest one.
LEMMA MinFact ==
  ASSUME NEW S \in SUBSET Nat, S # {}
  PROVE  \E m \in S : \A y \in S : m <= y
<1>1. PICK m \in S : \A y \in S : ~(<<y, m>> \in OpToRel(<, Nat))
  BY NatLessThanWellFounded, WFMin
<1>2. ASSUME NEW y \in S PROVE m <= y
  <2>1. m \in Nat /\ y \in Nat
    OBVIOUS
  <2>2. ~(y < m)
    BY <1>1, <2>1 DEF OpToRel
  <2> QED BY <2>1, <2>2
<1> QED BY <1>2

\* nextIdleTimeout is no later than the timeout of anybody who will be told.
LEMMA NextFact ==
  ASSUME NEW u \in GlobalSet, NEW idle, Listed(u.clients, idle),
         DurAt(u, now) \in Nat
  PROVE  /\ nextIdleTimeout(u) = 0
              \/ (nextIdleTimeout(u) \in Nat /\ DurAt(u, now) < nextIdleTimeout(u)
                    /\ nextIdleTimeout(u) <= Forever)
         /\ \A i \in 1..Len(u.clients) :
              DurAt(u, now) # 0 /\ DurAt(u, now) < u.clients[i].timeout =>
                nextIdleTimeout(u) # 0 /\ nextIdleTimeout(u) <= u.clients[i].timeout
<1> DEFINE t == DurAt(u, now)
           q == u.clients
           more == {i \in 1..Len(q) : t # 0 /\ t < q[i].timeout}
<1>1. /\ q \in Seq(ClientSet) /\ Len(q) \in Nat /\ DOMAIN q = 1..Len(q)
      /\ \A i \in 1..Len(q) : q[i].timeout \in Nat \ {0} /\ q[i].timeout <= Forever
  <2>1. q \in Seq(ClientSet)
    BY DEF GlobalSet
  <2> QED BY <2>1, ListType
<1>2. nextIdleTimeout(u) = IF more = {} THEN 0
                           ELSE q[CHOOSE i \in more : \A j \in more : i <= j].timeout
  <2> DEFINE some == {i \in DOMAIN u.clients : getUserInactiveDuration(u) # 0
                          /\ getUserInactiveDuration(u) < u.clients[i].timeout}
  <2>1. some = more
    BY <1>1, DurNow
  <2>2. nextIdleTimeout(u) = IF some = {} THEN 0
                             ELSE q[CHOOSE i \in some : \A j \in some : i <= j].timeout
    BY DEF nextIdleTimeout
  <2> HIDE DEF some, more
  <2> QED BY <2>1, <2>2
<1>3. CASE more = {}
  <2>1. nextIdleTimeout(u) = 0
    BY <1>2, <1>3
  <2>2. ASSUME NEW i \in 1..Len(q), t # 0, t < q[i].timeout PROVE FALSE
    BY <1>3, <2>2
  <2> QED BY <2>1, <2>2
<1>4. CASE more # {}
  <2>1. more \in SUBSET Nat
    BY <1>1
  <2>2. \E m \in more : \A y \in more : m <= y
    BY <1>4, <2>1, MinFact
  <2>3. PICK m \in more : (\A y \in more : m <= y) /\ nextIdleTimeout(u) = q[m].timeout
    BY <1>2, <1>4, <2>2
  <2>4. m \in 1..Len(q) /\ t < q[m].timeout
    OBVIOUS
  <2>5. ASSUME NEW i \in 1..Len(q), t # 0, t < q[i].timeout
        PROVE  q[m].timeout <= q[i].timeout
    <3>1. i \in more /\ m <= i
      BY <2>3, <2>5
    <3>2. CASE m = i
      BY <1>1, <3>2
    <3>3. CASE m # i
      <4>1. m \in 1..i - 1
        BY <1>1, <2>4, <3>1, <3>3
      <4> QED BY <4>1 DEF Listed
    <3> QED BY <3>2, <3>3
  <2> QED BY <1>1, <2>3, <2>4, <2>5
<1> QED BY <1>3, <1>4

\* What an evaluation leaves: everything sound, everything published.
Evaluated(u, r) ==
  /\ Good(r, now) /\ Sound(r, now) /\ Frank(r) /\ (Shared(u) => Shared(r))
  /\ Kept(u, r) /\ SameList(u.clients, r.clients) /\ r.posted = Levels(r) /\ r.unsaid = FALSE

LEMMA EvalFine ==
  ASSUME NEW u, now \in Nat, now <= MaxTime, Good(u, now)
  PROVE  Evaluated(u, evaluateHidIdleNotification(u))
<1> DEFINE t == getUserInactiveDuration(u)
           active == ~u.displayOff /\ t < Default
           v == [u EXCEPT !.userActive = active]
           w == updateUserActivityLevels(v)
           waits == {nextIdleTimeout(w), IF active THEN Default ELSE 0} \ {0}
           first == CHOOSE x \in waits : \A y \in waits : x <= y
           due == IF waits = {} THEN NoDate ELSE now - t + first
           r == evaluateHidIdleNotification(u)
<1>1. r = [w EXCEPT !.hidTimer = due]
  BY DEF evaluateHidIdleNotification
<1>0. t = DurAt(u, now)
  BY DurNow
<1> HIDE DEF r, t
<1>2. /\ u \in GlobalSet /\ Listed(u.clients, u.idleTimeout)
      /\ Past(u, now) /\ Fresh(u, now)
  BY DEF Good
<1>3. /\ t \in Nat /\ t <= Forever
      /\ t < Forever => \/ u.rootDomain /\ u.hidActive /\ t = 0
                        \/ u.rootDomain /\ ~u.hidActive /\ t = now - u.lastHid
                        \/ u.assertionValid /\ t = now - u.lastAssertion
  BY <1>0, <1>2, DurFact
<1>4. active \in BOOLEAN
  OBVIOUS
<1> HIDE DEF active
<1>5. v \in GlobalSet /\ Kept(u, v) /\ v.userActive = active /\ v.clients = u.clients
  BY <1>2, <1>4 DEF GlobalSet, Kept
<1> HIDE DEF v
<1>6. UpdatedTo(v, w)
  BY <1>5, UpdateFact
<1> HIDE DEF w
<1>7. /\ w \in GlobalSet /\ Kept(v, w) /\ SameList(u.clients, w.clients)
      /\ w.userActive = active
      /\ w.posted = Levels(v) /\ w.unsaid = FALSE
      /\ \A i \in 1..Len(w.clients) :
           /\ "active" \in w.clients[i].posted
                <=> ~w.displayOff /\ DurAt(w, now) < w.clients[i].timeout
           /\ "active" \in w.clients[i].posted /\ "absentWithDisplay" \in w.clients[i].posted
                => "absentWithDisplay" \in w.posted
  BY <1>5, <1>6 DEF UpdatedTo
<1>8. Kept(u, w)
  BY <1>5, <1>7 DEF Kept
<1>9. DurAt(w, now) = t /\ w.displayOff = u.displayOff /\ w.idleTimeout = u.idleTimeout
  BY <1>0, <1>8, KeptFact DEF Kept
<1>10. u.clients \in Seq(ClientSet) /\ w.clients \in Seq(ClientSet)
  BY <1>2, <1>7 DEF GlobalSet
<1>11. Listed(w.clients, w.idleTimeout)
  BY <1>2, <1>7, <1>9, <1>10, SameListed
<1>12. /\ nextIdleTimeout(w) = 0
           \/ (nextIdleTimeout(w) \in Nat /\ t < nextIdleTimeout(w) /\ nextIdleTimeout(w) <= Forever)
       /\ \A i \in 1..Len(w.clients) :
            t # 0 /\ t < w.clients[i].timeout =>
              nextIdleTimeout(w) # 0 /\ nextIdleTimeout(w) <= w.clients[i].timeout
  BY <1>3, <1>7, <1>9, <1>11, NextFact
<1>13. /\ waits \in SUBSET Nat
       /\ \A x \in waits : x # 0 /\ t < x /\ x <= Forever
       /\ waits # {} => first \in waits /\ \A y \in waits : first <= y
  <2>1. active => t < Default
    BY DEF active
  <2>2. /\ waits \in SUBSET Nat
        /\ \A x \in waits : x # 0 /\ t < x /\ x <= Forever
    BY <1>3, <1>12, <2>1, ConstantsType
  <2>3. waits # {} => \E x \in waits : \A y \in waits : x <= y
    BY <2>2, MinFact
  <2> HIDE DEF waits
  <2> QED BY <2>2, <2>3
<1> DEFINE next == nextIdleTimeout(w)
<1>14. next # 0 => next \in waits
  OBVIOUS
<1> HIDE DEF waits, first, next
<1>15. /\ due \in Nat
       /\ waits # {} => due # 0 /\ due = (now - t) + first /\ first \in Nat /\ t < Forever
  <2>1. CASE waits = {}
    BY <2>1 DEF NoDate
  <2>2. CASE waits # {}
    <3>1. first \in waits /\ first \in Nat /\ first # 0 /\ t < first /\ first <= Forever
      BY <1>13, <2>2
    <3>2. t < Forever
      BY <1>3, <3>1, ConstantsType
    <3>3. t <= now
      <4>1. u.lastHid \in Nat /\ u.lastAssertion \in Nat
        BY <1>2 DEF GlobalSet
      <4> QED BY <1>3, <3>2, <4>1
    <3> QED BY <1>3, <2>2, <3>1, <3>2, <3>3
  <2> QED BY <2>1, <2>2
<1> HIDE DEF due
<1>16. /\ r \in GlobalSet /\ Kept(w, r) /\ r.clients = w.clients /\ r.hidTimer = due
       /\ r.userActive = active /\ r.posted = w.posted /\ r.unsaid = FALSE
  BY <1>1, <1>7, <1>15 DEF GlobalSet, Kept
<1>17. Kept(u, r) /\ SameList(u.clients, r.clients)
  BY <1>7, <1>8, <1>16 DEF Kept
<1>18. Good(r, now) /\ (Shared(u) => Shared(r)) /\ Past(r, now)
  BY <1>16, <1>17, KeptGood DEF Good
<1>19. r.posted = Levels(r)
  <2>1. Levels(w) = Levels(v) /\ Levels(r) = Levels(w)
    BY <1>5, <1>7, <1>16, SameLevels
  <2> QED BY <1>7, <1>16, <2>1
<1>20. DurAt(r, now) = t /\ r.displayOff = u.displayOff /\ r.hidActive = u.hidActive
       /\ r.lastHid = u.lastHid /\ r.lastAssertion = u.lastAssertion
       /\ r.assertionValid = u.assertionValid /\ r.assertionTimer = u.assertionTimer
       /\ r.idleTimeout = u.idleTimeout /\ r.oneness = u.oneness
  BY <1>0, <1>17, KeptFact DEF Kept
<1>21. r.userActive <=> ~r.displayOff /\ t < Default
  BY <1>16, <1>20 DEF active
<1>22. Active(r, now) /\ Shown(r)
  <2>1. Active(r, now)
    BY <1>20, <1>21 DEF Active
  <2> QED BY <1>19, <2>1, LevelsFact DEF Shown
<1>23. \A i \in 1..Len(r.clients) :
         /\ "active" \in r.clients[i].posted <=> ~r.displayOff /\ t < r.clients[i].timeout
         /\ "active" \in r.clients[i].posted /\ "absentWithDisplay" \in r.clients[i].posted
                => "absentWithDisplay" \in r.posted
  BY <1>7, <1>9, <1>16, <1>20
<1>24. \A i \in 1..Len(r.clients) :
         r.clients[i].timeout \in Nat \ {0} /\ r.clients[i].timeout <= Forever
  BY <1>10, <1>16, ListType
<1>25. Told(r)
  <2> SUFFICES ASSUME NEW i \in 1..Len(r.clients), r.clients[i].timeout <= Default,
                      "active" \in r.clients[i].posted,
                      "absentWithDisplay" \in r.clients[i].posted
               PROVE  FALSE
    BY DEF Told
  <2>1. ~r.displayOff /\ t < r.clients[i].timeout /\ "absentWithDisplay" \in r.posted
    BY <1>23
  <2>2. t < Default
    BY <1>3, <1>24, <2>1, ConstantsType
  <2>3. "active" \in Levels(r) /\ "absentWithDisplay" \in Levels(r)
    BY <1>19, <1>21, <2>1, <2>2, LevelsFact
  <2> QED BY <2>3, LevelsFact
<1>26. Watched(r, now)
  <2> SUFFICES ASSUME ~r.hidActive, NEW i \in 1..Len(r.clients),
                      "active" \in r.clients[i].posted
                        \/ (~r.displayOff /\ DurAt(r, now) < r.clients[i].timeout)
               PROVE  DueFor(r, r.hidTimer, r.clients[i].timeout)
                        \/ DueFor(r, r.assertionTimer, r.clients[i].timeout)
    BY DEF Watched
  <2> DEFINE m == r.clients[i].timeout
  <2>1. t < m /\ m \in Nat \ {0} /\ m <= Forever
    BY <1>20, <1>23, <1>24
  <2>2. u.lastHid \in Nat /\ u.lastAssertion \in Nat /\ u.lastHid < now /\ u.lastAssertion <= now
    BY <1>2, <1>20 DEF GlobalSet, Past
  <2>3. \/ t = now - u.lastHid
        \/ u.assertionValid /\ t = now - u.lastAssertion
    BY <1>3, <1>20, <2>1, ConstantsType
  <2>4. CASE t = 0
    <3>1. u.assertionValid /\ u.lastAssertion = now
      BY <2>2, <2>3, <2>4
    <3>2. u.assertionTimer > now /\ u.assertionTimer <= now + u.idleTimeout
      BY <1>2, <3>1 DEF Fresh
    <3>3. u.idleTimeout <= m
      BY <1>11, <1>16, <1>20, <1>9 DEF Listed
    <3>4. u.idleTimeout \in Nat /\ u.assertionTimer \in Nat
      BY <1>2 DEF GlobalSet
    <3>5. u.assertionTimer # 0 /\ u.assertionTimer <= u.lastAssertion + m
      BY <2>1, <2>2, <3>1, <3>2, <3>3, <3>4
    <3> QED BY <1>20, <3>1, <3>5 DEF DueFor, NoDate
  <2>5. CASE t # 0
    <3>1. next # 0 /\ next <= m /\ next \in waits
      BY <1>12, <1>14, <1>16, <2>1, <2>5 DEF next
    <3>2. first <= next /\ first \in Nat /\ next \in Nat
      BY <1>13, <1>15, <3>1
    <3>3. due # 0 /\ due = (now - t) + first
      BY <1>15, <3>1
    <3>4. due <= (now - t) + m
      BY <1>3, <2>1, <3>1, <3>2, <3>3
    <3>5. due <= u.lastHid + m \/ (u.assertionValid /\ due <= u.lastAssertion + m)
      BY <2>1, <2>2, <2>3, <3>4
    <3> QED BY <1>16, <1>20, <3>3, <3>5 DEF DueFor, NoDate
  <2> QED BY <2>4, <2>5
<1>27. Frank(r)
  <2>1. ASSUME ~r.oneness, "active" \in r.posted PROVE Awake(r)
    <3>1. ~r.displayOff /\ t < Default
      BY <1>19, <1>21, <2>1, LevelsFact
    <3> QED BY <1>16, <1>18, <1>20, <3>1, DurAwake, ConstantsType
  <2>2. ASSUME NEW i \in 1..Len(r.clients), "active" \in r.clients[i].posted PROVE Awake(r)
    <3>1. ~r.displayOff /\ t < r.clients[i].timeout
      BY <1>23, <2>2
    <3> QED BY <1>16, <1>18, <1>20, <1>24, <3>1, DurAwake
  <2> QED BY <2>1, <2>2 DEF Frank
<1> QED BY <1>16, <1>17, <1>18, <1>19, <1>22, <1>25, <1>26, <1>27 DEF Evaluated, Sound, r

-----------------------------------------------------------------------------
(* The parts of the handlers.                                               *)

\* A change of what is asked or published, not of activity and its clients.
SameCore(u, w) ==
  /\ w.userActive = u.userActive /\ w.rootDomain = u.rootDomain /\ w.posted = u.posted
  /\ w.hidActive = u.hidActive /\ w.lastHid = u.lastHid
  /\ w.assertionValid = u.assertionValid /\ w.lastAssertion = u.lastAssertion
  /\ w.idleTimeout = u.idleTimeout /\ w.clients = u.clients
  /\ w.hidTimer = u.hidTimer /\ w.assertionTimer = u.assertionTimer
  /\ w.displayOff = u.displayOff /\ w.oneness = u.oneness

LEMMA CoreFrame ==
  ASSUME NEW u, NEW w \in GlobalSet, NEW t, SameCore(u, w)
  PROVE  /\ Good(u, t) => Good(w, t)
         /\ Sound(u, t) => Sound(w, t)
         /\ Good(u, t) => Honest(u, w)
<1>1. Past(w, t) <=> Past(u, t)
  BY DEF SameCore, Past
<1>2. Fresh(w, t) <=> Fresh(u, t)
  BY DEF SameCore, Fresh
<1>3. DurAt(w, t) = DurAt(u, t)
  BY DEF SameCore, DurAt
<1>4. Good(u, t) => Good(w, t)
  BY <1>1, <1>2 DEF SameCore, Good
<1>5. Active(u, t) => Active(w, t)
  BY <1>3 DEF SameCore, Active
<1>6. Told(u) => Told(w)
  BY DEF SameCore, Told
<1>7. Shown(u) => Shown(w)
  BY DEF SameCore, Shown
<1>8. Watched(u, t) => Watched(w, t)
  BY <1>3 DEF SameCore, Watched, DueFor
<1>9. ASSUME Good(u, t) PROVE Honest(u, w)
  <2>1. \A i, j \in 1..Len(u.clients) : u.clients[i].id = u.clients[j].id => i = j
    BY <1>9, UniqueIds DEF Good, GlobalSet
  <2> QED BY <2>1 DEF SameCore, Honest
<1> QED BY <1>4, <1>5, <1>6, <1>7, <1>8, <1>9 DEF Sound

\* Inputs change; activity that is known does not get later.
LEMMA InputGood ==
  ASSUME NEW u, NEW w \in GlobalSet, NEW t, Good(u, t),
         w.clients = u.clients, w.idleTimeout = u.idleTimeout, w.lastHid = u.lastHid,
         w.hidActive = u.hidActive, w.lastAssertion = u.lastAssertion,
         w.assertionTimer = u.assertionTimer, w.assertionValid => u.assertionValid
  PROVE  Good(w, t)
<1>1. Past(w, t)
  BY DEF Good, Past
<1>2. Fresh(w, t)
  BY DEF Good, Fresh
<1> QED BY <1>1, <1>2 DEF Good

LEMMA LoadFact ==
  ASSUME NEW u
  PROVE  Load(u) \in LoadSet
<1>1. /\ UserLevel(u) \in Advice /\ BatteryLevel(u) \in Advice
      /\ PowerLevel(u) \in Advice
  <2>1. UserLevel(u) \in Advice /\ BatteryLevel(u) \in Advice
    BY DEF UserLevel, BatteryLevel, Advice
  <2>2. PowerLevel(u) \in Advice
    BY DEF PowerLevel, Advice
  <2> QED BY <2>1, <2>2
<1>2. minOfThree(UserLevel(u), BatteryLevel(u), PowerLevel(u)) \in Advice
  BY <1>1 DEF minOfThree, Smaller, Advice
<1> QED BY <1>1, <1>2 DEF Load, LoadSet

\* The advisory is shared, and nothing else changes.
LEMMA ShareFact ==
  ASSUME NEW u \in GlobalSet
  PROVE  LET w == shareTheSystemLoad(u)
         IN /\ w \in GlobalSet /\ SameCore(u, w) /\ Shared(w)
            /\ w.unsaid = u.unsaid /\ w.notification = u.notification /\ w.wake = u.wake
            /\ w.asserted = u.asserted /\ w.displaySleep = u.displaySleep
            /\ w.rootDomain = u.rootDomain
<1> DEFINE w == shareTheSystemLoad(u)
           l == Load(u)
<1>1. l \in LoadSet
  BY LoadFact
<1>2. w = [u EXCEPT !.load = l, !.unshared = FALSE]
  BY DEF shareTheSystemLoad
<1> HIDE DEF l, w
<1>3. /\ w \in GlobalSet /\ SameCore(u, w) /\ w.load = l
      /\ w.unsaid = u.unsaid /\ w.notification = u.notification /\ w.wake = u.wake
      /\ w.asserted = u.asserted /\ w.displaySleep = u.displaySleep
      /\ w.loggedIn = u.loggedIn /\ w.dwbt = u.dwbt /\ w.battery = u.battery
      /\ w.cpu = u.cpu /\ w.pressure = u.pressure /\ w.displayOff = u.displayOff
  BY <1>1, <1>2 DEF GlobalSet, SameCore
<1>4. UserLevel(w) = UserLevel(u)
  BY <1>3 DEF UserLevel
<1>5. BatteryLevel(w) = BatteryLevel(u)
  BY <1>3 DEF BatteryLevel
<1>6. PowerLevel(w) = PowerLevel(u)
  BY <1>3 DEF PowerLevel
<1>7. Load(w) = Load(u)
  BY <1>4, <1>5, <1>6 DEF Load
<1>8. Shared(w)
  BY <1>3, <1>7 DEF Shared, l
<1> QED BY <1>3, <1>8 DEF SameCore, w

\* What a handler that evaluates leaves.
Fine(u, r) ==
  /\ Good(r, now) /\ Sound(r, now) /\ Frank(r) /\ r.posted = Levels(r) /\ r.unsaid = FALSE
  /\ Shared(u) => Shared(r)
  /\ r.hidActive = u.hidActive

LEMMA EvaluatedFine ==
  ASSUME NEW u, now \in Nat, now <= MaxTime, Good(u, now)
  PROVE  /\ Fine(u, evaluateHidIdleNotification(u))
         /\ Kept(u, evaluateHidIdleNotification(u))
<1>1. Evaluated(u, evaluateHidIdleNotification(u))
  BY EvalFine
<1> QED BY <1>1 DEF Evaluated, Fine, Kept

\* setAssertionIdleNotificationTimer.
LEMMA AssertionTimerFact ==
  ASSUME NEW u \in GlobalSet, now \in Nat, u.lastAssertion <= now
  PROVE  LET w == AssertionTimer(u)
         IN /\ w \in GlobalSet
            /\ w.assertionTimer = u.assertionTimer
                 \/ (u.lastAssertion # 0 /\ w.assertionTimer = u.lastAssertion + u.idleTimeout)
            /\ u.lastAssertion # 0 /\ u.lastAssertion = now =>
                 w.assertionTimer = u.lastAssertion + u.idleTimeout
            /\ w = [u EXCEPT !.assertionTimer = w.assertionTimer]
<1> DEFINE w == AssertionTimer(u)
           x == u.lastAssertion + u.idleTimeout
<1>1. /\ u.lastAssertion \in Nat /\ u.idleTimeout \in Nat \ {0} /\ u.assertionTimer \in Nat
      /\ x \in Nat
  BY DEF GlobalSet
<1>2. CASE u.lastAssertion # 0 /\ u.idleTimeout > now - u.lastAssertion
  <2>1. w = [u EXCEPT !.assertionTimer = x]
    BY <1>2 DEF AssertionTimer
  <2> HIDE DEF w, x
  <2>2. w \in GlobalSet /\ w.assertionTimer = x
    BY <1>1, <2>1 DEF GlobalSet
  <2> QED BY <1>2, <2>1, <2>2 DEF x, w
<1>3. CASE ~(u.lastAssertion # 0 /\ u.idleTimeout > now - u.lastAssertion)
  <2>1. w = u
    BY <1>3 DEF AssertionTimer
  <2>2. u = [u EXCEPT !.assertionTimer = u.assertionTimer]
    BY DEF GlobalSet
  <2>3. ~(u.lastAssertion # 0 /\ u.lastAssertion = now)
    BY <1>1, <1>3
  <2> QED BY <2>1, <2>2, <2>3
<1> QED BY <1>2, <1>3

\* An assertion is activity of this moment, with a timer.
LEMMA AssertFine ==
  ASSUME NEW u, now \in Nat \ {0}, now <= MaxTime, Good(u, now)
  PROVE  LET r == SystemLoadUserActiveAssertions(u, TRUE)
         IN Fine(u, r) /\ r.idleTimeout = u.idleTimeout
<1> DEFINE x == [u EXCEPT !.lastAssertion = now]
           y == AssertionTimer(x)
           z == [y EXCEPT !.assertionValid = TRUE]
           r == SystemLoadUserActiveAssertions(u, TRUE)
<1>1. /\ u \in GlobalSet /\ Listed(u.clients, u.idleTimeout) /\ Past(u, now)
      /\ u.idleTimeout \in Nat \ {0}
  BY DEF Good, GlobalSet
<1>2. /\ x \in GlobalSet /\ x.lastAssertion = now /\ x.idleTimeout = u.idleTimeout
      /\ x.clients = u.clients /\ x.lastHid = u.lastHid /\ x.hidActive = u.hidActive
      /\ Kept([u EXCEPT !.lastAssertion = now], x)
  BY <1>1 DEF GlobalSet, Kept
<1>3. x.unshared = u.unshared /\ x.load = u.load /\ Load(x) = Load(u)
  <2>1. UserLevel(x) = UserLevel(u)
    BY <1>1 DEF UserLevel, GlobalSet
  <2>2. BatteryLevel(x) = BatteryLevel(u)
    BY <1>1 DEF BatteryLevel, GlobalSet
  <2>3. PowerLevel(x) = PowerLevel(u)
    BY <1>1 DEF PowerLevel, GlobalSet
  <2> QED BY <1>1, <2>1, <2>2, <2>3 DEF Load, GlobalSet
<1> HIDE DEF x
<1>4. /\ y \in GlobalSet /\ y.assertionTimer = now + u.idleTimeout
      /\ y = [x EXCEPT !.assertionTimer = y.assertionTimer]
  BY <1>2, AssertionTimerFact
<1> HIDE DEF y
<1>5. /\ z \in GlobalSet /\ z.assertionTimer = now + u.idleTimeout /\ z.assertionValid = TRUE
      /\ z = [x EXCEPT !.assertionTimer = y.assertionTimer, !.assertionValid = TRUE]
  BY <1>2, <1>4 DEF GlobalSet
<1>6. r = evaluateHidIdleNotification(z)
  BY DEF SystemLoadUserActiveAssertions, x, y
<1> HIDE DEF z, r
<1>7. /\ z.lastAssertion = now /\ z.idleTimeout = u.idleTimeout /\ z.clients = u.clients
      /\ z.lastHid = u.lastHid /\ z.hidActive = u.hidActive
      /\ z.unshared = x.unshared /\ z.load = x.load
      /\ z.loggedIn = x.loggedIn /\ z.dwbt = x.dwbt /\ z.battery = x.battery
      /\ z.cpu = x.cpu /\ z.pressure = x.pressure /\ z.displayOff = x.displayOff
      /\ z.wake = x.wake
  BY <1>2, <1>5 DEF GlobalSet
<1>8. Load(z) = Load(x)
  <2>1. UserLevel(z) = UserLevel(x)
    BY <1>7 DEF UserLevel
  <2>2. BatteryLevel(z) = BatteryLevel(x)
    BY <1>7 DEF BatteryLevel
  <2>3. PowerLevel(z) = PowerLevel(x)
    BY <1>7 DEF PowerLevel
  <2> QED BY <2>1, <2>2, <2>3 DEF Load
<1>9. Shared(u) => Shared(z)
  BY <1>3, <1>7, <1>8 DEF Shared
<1>10. Good(z, now)
  <2>1. Past(z, now)
    BY <1>1, <1>7 DEF Past
  <2>2. Fresh(z, now)
    BY <1>1, <1>5, <1>7 DEF Fresh
  <2> QED BY <1>1, <1>5, <1>7, <2>1, <2>2 DEF Good
<1>11. Fine(z, r) /\ Kept(z, r)
  BY <1>6, <1>10, EvaluatedFine
<1> QED BY <1>7, <1>9, <1>11 DEF Fine, Kept, r

LEMMA RootFine ==
  ASSUME NEW u, now \in Nat \ {0}, now <= MaxTime, Good(u, now), NEW a \in BOOLEAN
  PROVE  LET r == RootDomain(u, a)
         IN /\ Good(r, now) /\ r.idleTimeout = u.idleTimeout /\ r.hidActive = u.hidActive
            /\ a /\ ~u.rootDomain => Fine(u, r)
<1> DEFINE r == RootDomain(u, a)
<1>1. u \in GlobalSet
  BY DEF Good
<1>2. CASE a = u.rootDomain
  BY <1>2 DEF RootDomain
<1>3. CASE a # u.rootDomain /\ ~a
  <2>1. r = [u EXCEPT !.rootDomain = FALSE]
    BY <1>3 DEF RootDomain
  <2> HIDE DEF r
  <2>2. /\ r \in GlobalSet /\ r.clients = u.clients /\ r.idleTimeout = u.idleTimeout
        /\ r.lastHid = u.lastHid /\ r.hidActive = u.hidActive
        /\ r.lastAssertion = u.lastAssertion /\ r.assertionTimer = u.assertionTimer
        /\ r.assertionValid = u.assertionValid
    BY <1>1, <2>1 DEF GlobalSet
  <2>3. Good(r, now)
    BY <2>2, InputGood
  <2> QED BY <1>3, <2>2, <2>3 DEF r
<1>4. CASE a # u.rootDomain /\ a
  <2> DEFINE v == [u EXCEPT !.notification = FALSE, !.rootDomain = TRUE,
                            !.wake = IF u.wake = "bt" THEN "dark" ELSE u.wake]
             w == shareTheSystemLoad(v)
  <2>1. r = SystemLoadUserActiveAssertions(w, TRUE)
    BY <1>4 DEF RootDomain
  <2> HIDE DEF r
  <2>2. /\ v \in GlobalSet /\ v.clients = u.clients /\ v.idleTimeout = u.idleTimeout
        /\ v.lastHid = u.lastHid /\ v.hidActive = u.hidActive
        /\ v.lastAssertion = u.lastAssertion /\ v.assertionTimer = u.assertionTimer
        /\ v.assertionValid = u.assertionValid
    BY <1>1 DEF GlobalSet, Wakes
  <2>3. Good(v, now)
    BY <2>2, InputGood
  <2> HIDE DEF v
  <2>4. w \in GlobalSet /\ SameCore(v, w) /\ Shared(w)
    BY <2>2, ShareFact
  <2>5. Good(w, now)
    BY <2>3, <2>4, CoreFrame
  <2> HIDE DEF w
  <2>6. Fine(w, r) /\ r.idleTimeout = w.idleTimeout
    BY <2>1, <2>5, AssertFine
  <2>7. w.idleTimeout = u.idleTimeout /\ w.hidActive = u.hidActive
    BY <2>2, <2>4 DEF SameCore
  <2>8. Fine(u, r)
    BY <2>4, <2>6, <2>7 DEF Fine
  <2> QED BY <2>6, <2>7, <2>8 DEF Fine, r
<1> QED BY <1>2, <1>3, <1>4

-----------------------------------------------------------------------------
(* The list of the clients.                                                 *)

\* The list p is q without its entry i.
Cut(q, i, p) ==
  /\ Len(p) = Len(q) - 1
  /\ \A j \in 1..i - 1 : p[j] = q[j]
  /\ \A j \in i..Len(q) - 1 : p[j] = q[j + 1]

LEMMA CutFact ==
  ASSUME NEW q \in Seq(ClientSet), NEW i \in 1..Len(q)
  PROVE  LET p == SubSeq(q, 1, i - 1) \o SubSeq(q, i + 1, Len(q))
         IN p \in Seq(ClientSet) /\ Cut(q, i, p)
<1> DEFINE a == SubSeq(q, 1, i - 1)
           b == SubSeq(q, i + 1, Len(q))
           p == a \o b
           n == Len(q)
<1>1. n \in Nat
  BY LenProperties
<1>2. /\ a \in Seq(ClientSet) /\ Len(a) = i - 1 /\ \A j \in 1..i - 1 : a[j] = q[j]
  BY <1>1
<1>3. b \in Seq(ClientSet) /\ Len(b) = n - i /\ \A j \in 1..n - i : b[j] = q[i + j]
  BY <1>1
<1> HIDE DEF a, b
<1>4. /\ p \in Seq(ClientSet) /\ Len(p) = Len(a) + Len(b)
      /\ \A j \in 1..Len(a) : p[j] = a[j]
      /\ \A j \in 1..Len(b) : p[Len(a) + j] = b[j]
  <2>1. a \in Seq(ClientSet) /\ b \in Seq(ClientSet)
    BY <1>2, <1>3
  <2> QED BY <2>1
<1> HIDE DEF p
<1>5. Len(p) = n - 1 /\ \A j \in 1..i - 1 : p[j] = q[j]
  BY <1>1, <1>2, <1>3, <1>4
<1>6. ASSUME NEW j \in i..n - 1 PROVE p[j] = q[j + 1]
  <2>1. PICK k \in 1..n - i : (i - 1) + k = j /\ i + k = j + 1
    <3>1. j - (i - 1) \in 1..n - i /\ (i - 1) + (j - (i - 1)) = j /\ i + (j - (i - 1)) = j + 1
      BY <1>1
    <3> QED BY <3>1
  <2>2. p[(i - 1) + k] = b[k]
    BY <1>2, <1>3, <1>4
  <2>3. b[k] = q[i + k]
    BY <1>3
  <2> QED BY <2>1, <2>2, <2>3
<1> QED BY <1>4, <1>5, <1>6 DEF Cut, p, a, b

\* Every entry of what is left was one before, in the same order.
LEMMA CutEntry ==
  ASSUME NEW q \in Seq(ClientSet), NEW i \in 1..Len(q), NEW p \in Seq(ClientSet), Cut(q, i, p)
  PROVE  \A j \in 1..Len(p) : \E k \in 1..Len(q) :
           k # i /\ p[j] = q[k] /\ k = (IF j < i THEN j ELSE j + 1)
<1> TAKE j \in 1..Len(p)
<1>1. Len(q) \in Nat /\ Len(p) = Len(q) - 1
  BY LenProperties DEF Cut
<1>2. CASE j < i
  <2>1. j \in 1..i - 1 /\ j \in 1..Len(q)
    BY <1>1, <1>2
  <2> QED BY <1>2, <2>1 DEF Cut
<1>3. CASE j >= i
  <2>1. j \in i..Len(q) - 1 /\ j + 1 \in 1..Len(q) /\ j + 1 # i /\ ~(j < i)
    BY <1>1, <1>3
  <2> QED BY <2>1 DEF Cut
<1> QED BY <1>1, <1>2, <1>3

LEMMA CutListed ==
  ASSUME NEW q \in Seq(ClientSet), NEW i \in 1..Len(q), NEW p \in Seq(ClientSet), Cut(q, i, p),
         NEW idle, Listed(q, idle)
  PROVE  Listed(p, idle) /\ \A j \in 1..Len(p) : p[j].id # q[i].id
<1>1. ASSUME NEW j \in 1..Len(p), NEW k \in 1..j - 1
      PROVE  p[k].id # p[j].id /\ p[k].timeout <= p[j].timeout
  <2>1. k \in 1..Len(p) /\ k < j
    <3>1. Len(p) \in Nat
      BY LenProperties
    <3> QED BY <3>1
  <2>2. PICK x \in 1..Len(q) : p[j] = q[x] /\ x = (IF j < i THEN j ELSE j + 1)
    BY CutEntry
  <2>3. PICK y \in 1..Len(q) : p[k] = q[y] /\ y = (IF k < i THEN k ELSE k + 1)
    BY <2>1, CutEntry
  <2>4. y \in 1..x - 1
    BY <2>1, <2>2, <2>3
  <2> QED BY <2>2, <2>3, <2>4 DEF Listed
<1>2. ASSUME NEW j \in 1..Len(p) PROVE p[j].timeout >= idle /\ p[j].id # q[i].id
  <2>1. PICK x \in 1..Len(q) : x # i /\ p[j] = q[x]
    BY CutEntry
  <2> QED BY <2>1, UniqueIds DEF Listed
<1> QED BY <1>1, <1>2 DEF Listed

\* A client leaves.
LEMMA WithoutFact ==
  ASSUME NEW u \in GlobalSet, Listed(u.clients, u.idleTimeout), NEW c \in Ids(u)
  PROVE  LET w == Without(u, c)
         IN /\ w \in GlobalSet /\ Listed(w.clients, w.idleTimeout) /\ c \notin Ids(w)
            /\ \E p \in Seq(ClientSet), i \in 1..Len(u.clients) :
                 w = [u EXCEPT !.clients = p] /\ Cut(u.clients, i, p)
<1> DEFINE q == u.clients
           first(i) == q[i].id = c /\ \A j \in 1..i - 1 : q[j].id # c
           n == CHOOSE i \in DOMAIN q : first(i)
           p == SubSeq(q, 1, n - 1) \o SubSeq(q, n + 1, Len(q))
           w == Without(u, c)
<1>1. q \in Seq(ClientSet) /\ Len(q) \in Nat /\ DOMAIN q = 1..Len(q)
  <2>1. q \in Seq(ClientSet)
    BY DEF GlobalSet
  <2> QED BY <2>1, LenProperties
<1>2. \E i \in DOMAIN q : first(i)
  <2>1. PICK i \in DOMAIN q : q[i].id = c
    BY DEF Ids
  <2>2. \A j \in 1..i - 1 : q[j].id # c
    BY <1>1, <2>1 DEF Listed
  <2> QED BY <2>1, <2>2
<1>3. n \in 1..Len(q) /\ q[n].id = c
  BY <1>1, <1>2
<1>4. w = [u EXCEPT !.clients = p]
  BY DEF Without
<1> HIDE DEF n, w
<1>5. p \in Seq(ClientSet) /\ Cut(q, n, p)
  BY <1>1, <1>3, CutFact
<1> HIDE DEF p
<1>6. w \in GlobalSet /\ w.clients = p /\ w.idleTimeout = u.idleTimeout
  BY <1>4, <1>5 DEF GlobalSet
<1>7. Listed(p, u.idleTimeout) /\ \A j \in 1..Len(p) : p[j].id # c
  BY <1>1, <1>3, <1>5, CutListed
<1>8. c \notin Ids(w)
  <2>1. DOMAIN p = 1..Len(p)
    BY <1>5, LenProperties
  <2> QED BY <1>6, <1>7, <2>1 DEF Ids
<1> QED BY <1>3, <1>4, <1>5, <1>6, <1>7, <1>8 DEF w

\* The place of a new client exists.
LEMMA PlaceFact ==
  ASSUME NEW q \in Seq(ClientSet), NEW idle, Listed(q, idle), NEW timeout \in Nat
  PROVE  /\ Place(q, timeout) \in 0..Len(q)
         /\ \A i \in 1..Len(q) : IF i <= Place(q, timeout) THEN q[i].timeout <= timeout
                                 ELSE q[i].timeout > timeout
<1> DEFINE n == Len(q)
           longer == {i \in 1..n : q[i].timeout > timeout}
           right(k) == /\ \A i \in 1..k : q[i].timeout <= timeout
                       /\ k < n => q[k + 1].timeout > timeout
<1>1. n \in Nat /\ \A i \in 1..n : q[i].timeout \in Nat
  BY ListType
<1>2. \E k \in 0..n : right(k)
  <2>1. CASE longer = {}
    <3>1. \A i \in 1..n : q[i].timeout <= timeout
      BY <1>1, <2>1
    <3>2. n \in 0..n /\ right(n)
      BY <1>1, <3>1
    <3> QED BY <3>2
  <2>2. CASE longer # {}
    <3>1. longer \in SUBSET Nat
      BY <1>1
    <3>2. PICK m \in longer : \A y \in longer : m <= y
      BY <2>2, <3>1, MinFact
    <3>3. m \in 1..n /\ q[m].timeout > timeout
      OBVIOUS
    <3>4. ASSUME NEW i \in 1..m - 1 PROVE q[i].timeout <= timeout
      <4>1. i \in 1..n /\ ~(m <= i)
        BY <1>1, <3>3
      <4>2. i \notin longer
        BY <3>2, <4>1
      <4> QED BY <1>1, <4>1, <4>2
    <3>5. m - 1 \in 0..n /\ right(m - 1)
      BY <1>1, <3>3, <3>4
    <3> QED BY <3>5
  <2> QED BY <2>1, <2>2
<1> DEFINE k == Place(q, timeout)
<1>3. k \in 0..n /\ right(k)
  BY <1>2 DEF Place
<1> HIDE DEF k
<1>4. ASSUME NEW i \in 1..n
      PROVE  IF i <= k THEN q[i].timeout <= timeout ELSE q[i].timeout > timeout
  <2>1. CASE i <= k
    BY <1>1, <1>3, <2>1
  <2>2. CASE i = k + 1
    BY <1>1, <1>3, <2>2
  <2>3. CASE i > k + 1
    <3>1. k + 1 \in 1..i - 1 /\ k < n /\ k + 1 \in 1..n
      BY <1>1, <1>3, <2>3
    <3>2. q[k + 1].timeout <= q[i].timeout /\ q[k + 1].timeout > timeout
      BY <1>3, <3>1 DEF Listed
    <3> QED BY <1>1, <1>3, <2>3, <3>1, <3>2
  <2> QED BY <1>1, <1>3, <2>1, <2>2, <2>3
<1> QED BY <1>3, <1>4 DEF k

\* The list p is q with the entry e behind the first k.
Put(q, k, e, p) ==
  /\ Len(p) = Len(q) + 1 /\ p[k + 1] = e
  /\ \A i \in 1..k : p[i] = q[i]
  /\ \A i \in k + 2..Len(q) + 1 : p[i] = q[i - 1]

LEMMA PutFact ==
  ASSUME NEW q \in Seq(ClientSet), NEW k \in 0..Len(q), NEW e \in ClientSet
  PROVE  LET p == SubSeq(q, 1, k) \o <<e>> \o SubSeq(q, k + 1, Len(q))
         IN p \in Seq(ClientSet) /\ Put(q, k, e, p)
<1> DEFINE a == SubSeq(q, 1, k)
           o == <<e>>
           b == SubSeq(q, k + 1, Len(q))
           c == a \o o
           p == c \o b
           n == Len(q)
<1>1. n \in Nat
  BY LenProperties
<1>2. a \in Seq(ClientSet) /\ Len(a) = k /\ \A j \in 1..k : a[j] = q[j]
  BY <1>1
<1>3. b \in Seq(ClientSet) /\ Len(b) = n - k /\ \A j \in 1..n - k : b[j] = q[k + j]
  BY <1>1
<1>4. o \in Seq(ClientSet) /\ Len(o) = 1 /\ o[1] = e
  OBVIOUS
<1> HIDE DEF a, b, o
<1>5. /\ c \in Seq(ClientSet) /\ Len(c) = Len(a) + Len(o)
      /\ \A j \in 1..Len(a) : c[j] = a[j]
      /\ \A j \in 1..Len(o) : c[Len(a) + j] = o[j]
  <2>1. a \in Seq(ClientSet) /\ o \in Seq(ClientSet)
    BY <1>2, <1>4
  <2> QED BY <2>1
<1> HIDE DEF c
<1>6. Len(c) = k + 1 /\ c[k + 1] = e /\ \A j \in 1..k : c[j] = q[j]
  <2>1. Len(c) = k + 1 /\ \A j \in 1..k : c[j] = q[j]
    BY <1>1, <1>2, <1>4, <1>5
  <2>2. 1 \in 1..Len(o) /\ Len(a) + 1 = k + 1
    BY <1>2, <1>4
  <2> QED BY <1>4, <1>5, <2>1, <2>2
<1>7. /\ p \in Seq(ClientSet) /\ Len(p) = Len(c) + Len(b)
      /\ \A j \in 1..Len(c) : p[j] = c[j]
      /\ \A j \in 1..Len(b) : p[Len(c) + j] = b[j]
  <2>1. c \in Seq(ClientSet) /\ b \in Seq(ClientSet)
    BY <1>3, <1>5
  <2> QED BY <2>1
<1> HIDE DEF p
<1>8. Len(p) = n + 1 /\ p[k + 1] = e /\ \A j \in 1..k : p[j] = q[j]
  BY <1>1, <1>3, <1>6, <1>7
<1>9. ASSUME NEW i \in k + 2..n + 1 PROVE p[i] = q[i - 1]
  <2>1. PICK j \in 1..n - k : (k + 1) + j = i /\ k + j = i - 1
    <3>1. i - (k + 1) \in 1..n - k /\ (k + 1) + (i - (k + 1)) = i /\ k + (i - (k + 1)) = i - 1
      BY <1>1
    <3> QED BY <3>1
  <2>2. p[(k + 1) + j] = b[j]
    BY <1>3, <1>6, <1>7
  <2>3. b[j] = q[k + j]
    BY <1>3
  <2> QED BY <2>1, <2>2, <2>3
<1> QED BY <1>7, <1>8, <1>9 DEF Put, p, c, a, b, o

LEMMA PutListed ==
  ASSUME NEW q \in Seq(ClientSet), NEW k \in 0..Len(q), NEW e \in ClientSet,
         NEW p \in Seq(ClientSet), Put(q, k, e, p),
         NEW idle \in Nat, NEW low \in Nat, Listed(q, idle), low <= idle, low <= e.timeout,
         \A i \in 1..Len(q) : q[i].id # e.id,
         \A i \in 1..Len(q) : IF i <= k THEN q[i].timeout <= e.timeout
                              ELSE q[i].timeout > e.timeout
  PROVE  Listed(p, low)
<1>1. /\ Len(q) \in Nat /\ Len(p) = Len(q) + 1
      /\ \A i \in 1..Len(q) : q[i].timeout \in Nat
  BY ListType DEF Put
<1>2. e.timeout \in Nat
  BY ConstantsType DEF ClientSet
<1>3. ASSUME NEW i \in 1..Len(p)
      PROVE  \/ i = k + 1 /\ p[i] = e
             \/ i <= k /\ i \in 1..Len(q) /\ p[i] = q[i]
             \/ i > k + 1 /\ i - 1 \in 1..Len(q) /\ p[i] = q[i - 1]
  <2>1. i <= k \/ i = k + 1 \/ i > k + 1
    BY <1>1
  <2>2. CASE i <= k
    <3>1. i \in 1..k /\ i \in 1..Len(q)
      BY <1>1, <2>2
    <3> QED BY <2>2, <3>1 DEF Put
  <2>3. CASE i = k + 1
    BY <2>3 DEF Put
  <2>4. CASE i > k + 1
    <3>1. i \in k + 2..Len(q) + 1 /\ i - 1 \in 1..Len(q)
      BY <1>1, <2>4
    <3> QED BY <2>4, <3>1 DEF Put
  <2> QED BY <2>1, <2>2, <2>3, <2>4
<1>4. ASSUME NEW i \in 1..Len(p) PROVE p[i].timeout >= low
  <2>1. \A j \in 1..Len(q) : q[j].timeout >= low
    BY <1>1 DEF Listed
  <2> QED BY <1>2, <1>3, <2>1
<1>5. ASSUME NEW i \in 1..Len(p), NEW j \in 1..i - 1
      PROVE  p[j].id # p[i].id /\ p[j].timeout <= p[i].timeout
  <2>1. j \in 1..Len(p) /\ j < i
    BY <1>1
  <2>2. \A x \in 1..Len(q) : \A y \in 1..x - 1 : q[y].id # q[x].id /\ q[y].timeout <= q[x].timeout
    BY DEF Listed
  <2>3. CASE i = k + 1
    <3>1. j <= k /\ j \in 1..Len(q) /\ p[j] = q[j] /\ p[i] = e
      BY <1>3, <2>1, <2>3
    <3> QED BY <3>1
  <2>4. CASE i <= k
    <3>1. i \in 1..Len(q) /\ p[i] = q[i] /\ p[j] = q[j]
      BY <1>3, <2>1, <2>4
    <3> QED BY <2>2, <3>1
  <2>5. CASE i > k + 1
    <3>1. i - 1 \in 1..Len(q) /\ p[i] = q[i - 1] /\ ~(i - 1 <= k)
      BY <1>3, <2>5
    <3>2. CASE j = k + 1
      <4>1. p[j] = e
        BY <1>3, <2>1, <3>2
      <4>2. q[i - 1].timeout > e.timeout
        BY <3>1
      <4> QED BY <1>1, <1>2, <3>1, <4>1, <4>2
    <3>3. CASE j <= k
      <4>1. j \in 1..(i - 1) - 1 /\ p[j] = q[j]
        BY <1>3, <2>1, <2>5, <3>3
      <4> QED BY <2>2, <3>1, <4>1
    <3>4. CASE j > k + 1
      <4>1. j - 1 \in 1..(i - 1) - 1 /\ p[j] = q[j - 1]
        BY <1>3, <2>1, <2>5, <3>4
      <4> QED BY <2>2, <3>1, <4>1
    <3> QED BY <2>1, <3>2, <3>3, <3>4
  <2> QED BY <1>1, <2>3, <2>4, <2>5
<1> QED BY <1>4, <1>5 DEF Listed

\* A client that leaves disturbs nobody.
LEMMA WithoutFine ==
  ASSUME NEW u, NEW t, Good(u, t), NEW c \in Ids(u)
  PROVE  LET w == Without(u, c)
         IN /\ Good(w, t) /\ (Sound(u, t) => Sound(w, t)) /\ Honest(u, w)
            /\ c \notin Ids(w) /\ Kept(u, w) /\ (Shared(u) => Shared(w))
            /\ w.posted = u.posted /\ w.unsaid = u.unsaid /\ w.userActive = u.userActive
<1> DEFINE w == Without(u, c)
           q == u.clients
<1>1. u \in GlobalSet /\ Listed(q, u.idleTimeout) /\ q \in Seq(ClientSet)
  BY DEF Good, GlobalSet
<1>2. /\ w \in GlobalSet /\ Listed(w.clients, w.idleTimeout) /\ c \notin Ids(w)
      /\ \E p \in Seq(ClientSet), i \in 1..Len(q) : w = [u EXCEPT !.clients = p] /\ Cut(q, i, p)
  BY <1>1, WithoutFact
<1> HIDE DEF w
<1>3. PICK p \in Seq(ClientSet), i \in 1..Len(q) : w = [u EXCEPT !.clients = p] /\ Cut(q, i, p)
  BY <1>2
<1>4. /\ w.clients = p /\ Kept(u, w) /\ w.posted = u.posted /\ w.unsaid = u.unsaid
      /\ w.userActive = u.userActive /\ w.hidTimer = u.hidTimer
  BY <1>1, <1>3 DEF GlobalSet, Kept
<1>5. \A j \in 1..Len(p) : \E k \in 1..Len(q) : p[j] = q[k]
  BY <1>1, <1>3, CutEntry
<1>6. /\ DurAt(w, t) = DurAt(u, t) /\ (Past(w, t) <=> Past(u, t))
      /\ (Fresh(w, t) <=> Fresh(u, t)) /\ Load(w) = Load(u)
  BY <1>4, KeptFact
<1>7. Good(w, t)
  BY <1>2, <1>6 DEF Good
<1>8. Shared(u) => Shared(w)
  BY <1>4, <1>6 DEF Shared, Kept
<1>9. ASSUME Sound(u, t) PROVE Sound(w, t)
  <2>1. Active(w, t)
    BY <1>4, <1>6, <1>9 DEF Sound, Active, Kept
  <2>2. Shown(w)
    BY <1>4, <1>9 DEF Sound, Shown, Kept
  <2>3. Told(w)
    BY <1>4, <1>5, <1>9 DEF Sound, Told
  <2>4. Watched(w, t)
    <3> SUFFICES ASSUME ~w.hidActive, NEW j \in 1..Len(w.clients),
                        "active" \in w.clients[j].posted
                          \/ (~w.displayOff /\ DurAt(w, t) < w.clients[j].timeout)
                 PROVE  DueFor(w, w.hidTimer, w.clients[j].timeout)
                          \/ DueFor(w, w.assertionTimer, w.clients[j].timeout)
      BY DEF Watched
    <3>1. PICK k \in 1..Len(q) : p[j] = q[k]
      BY <1>4, <1>5
    <3>2. /\ ~u.hidActive /\ w.displayOff = u.displayOff /\ w.clients[j] = q[k]
          /\ w.lastHid = u.lastHid /\ w.lastAssertion = u.lastAssertion
          /\ w.assertionValid = u.assertionValid /\ w.assertionTimer = u.assertionTimer
      BY <1>4, <3>1 DEF Kept
    <3>3. DueFor(u, u.hidTimer, q[k].timeout) \/ DueFor(u, u.assertionTimer, q[k].timeout)
      BY <1>6, <1>9, <3>2 DEF Sound, Watched
    <3> QED BY <1>4, <3>2, <3>3 DEF DueFor
  <2> QED BY <2>1, <2>2, <2>3, <2>4 DEF Sound
<1>10. Honest(u, w)
  <2>1. ASSUME NEW j \in 1..Len(w.clients), NEW k \in 1..Len(u.clients),
               w.clients[j].id = u.clients[k].id
        PROVE  w.clients[j] = u.clients[k]
    <3>1. PICK x \in 1..Len(q) : p[j] = q[x]
      BY <1>4, <1>5
    <3>2. x = k
      BY <1>1, <1>4, <2>1, <3>1, UniqueIds
    <3> QED BY <1>4, <3>1, <3>2
  <2> QED BY <1>4, <2>1 DEF Honest
<1> QED BY <1>2, <1>4, <1>7, <1>8, <1>9, <1>10 DEF w

\* A client comes, or comes back with another timeout.
LEMMA InsertFine ==
  ASSUME NEW u, now \in Nat \ {0}, now <= MaxTime, Good(u, now),
         NEW c \in Clients, c \notin Ids(u), NEW t \in Timeouts
  PROVE  Fine(u, insertClient(u, c, t))
<1> DEFINE timeout == IF t < MinTimeout THEN MinTimeout ELSE t
           lower == timeout < u.idleTimeout
           x == [u EXCEPT !.idleTimeout = timeout]
           v == IF lower THEN AssertionTimer(x) ELSE u
           k == Place(v.clients, timeout)
           new == [id |-> c, timeout |-> timeout, posted |-> {}]
           p == SubSeq(v.clients, 1, k) \o <<new>> \o SubSeq(v.clients, k + 1, Len(v.clients))
           z == [v EXCEPT !.clients = p]
           r == insertClient(u, c, t)
<1>1. /\ u \in GlobalSet /\ Listed(u.clients, u.idleTimeout) /\ Past(u, now) /\ Fresh(u, now)
      /\ u.clients \in Seq(ClientSet) /\ u.idleTimeout \in Nat \ {0}
      /\ u.lastAssertion \in Nat /\ u.lastAssertion <= now
  BY DEF Good, GlobalSet, Past
<1>2. timeout \in Nat \ {0} /\ timeout <= Forever
  BY ConstantsType
<1>3. r = evaluateHidIdleNotification(z)
  BY DEF insertClient
<1> HIDE DEF r, timeout
<1>4. /\ x \in GlobalSet /\ x.lastAssertion = u.lastAssertion /\ x.idleTimeout = timeout
      /\ x.assertionTimer = u.assertionTimer
  BY <1>1, <1>2 DEF GlobalSet
<1>5. /\ v \in GlobalSet /\ v.idleTimeout = (IF lower THEN timeout ELSE u.idleTimeout)
      /\ \E d \in Nat : /\ v = [u EXCEPT !.idleTimeout = v.idleTimeout, !.assertionTimer = d]
                        /\ v.assertionTimer = d
                        /\ d = u.assertionTimer
                             \/ (u.lastAssertion # 0 /\ d = u.lastAssertion + v.idleTimeout)
                        /\ lower /\ u.lastAssertion = now => d = u.lastAssertion + v.idleTimeout
  <2>1. CASE lower
    <3> DEFINE y == AssertionTimer(x)
    <3>1. /\ y \in GlobalSet
          /\ y.assertionTimer = x.assertionTimer
               \/ (x.lastAssertion # 0 /\ y.assertionTimer = x.lastAssertion + x.idleTimeout)
          /\ x.lastAssertion # 0 /\ x.lastAssertion = now =>
               y.assertionTimer = x.lastAssertion + x.idleTimeout
          /\ y = [x EXCEPT !.assertionTimer = y.assertionTimer]
      BY <1>1, <1>4, AssertionTimerFact
    <3> HIDE DEF y
    <3>2. y.assertionTimer \in Nat /\ y.idleTimeout = timeout
      BY <1>1, <1>2, <3>1 DEF GlobalSet
    <3>3. y = [u EXCEPT !.idleTimeout = timeout, !.assertionTimer = y.assertionTimer]
      BY <3>1
    <3>4. v = y
      BY <2>1 DEF y
    <3> HIDE DEF v, x
    <3> QED BY <1>4, <2>1, <3>1, <3>2, <3>3, <3>4
  <2>2. CASE ~lower
    <3>1. v = u /\ u.assertionTimer \in Nat
      BY <1>1, <2>2 DEF GlobalSet
    <3>2. u = [u EXCEPT !.idleTimeout = u.idleTimeout, !.assertionTimer = u.assertionTimer]
      BY <1>1 DEF GlobalSet
    <3> HIDE DEF v, x
    <3> QED BY <1>1, <2>2, <3>1, <3>2
  <2> QED BY <2>1, <2>2
<1> HIDE DEF v, x
<1>6. PICK d \in Nat :
        /\ v = [u EXCEPT !.idleTimeout = v.idleTimeout, !.assertionTimer = d]
        /\ v.assertionTimer = d
        /\ d = u.assertionTimer \/ (u.lastAssertion # 0 /\ d = u.lastAssertion + v.idleTimeout)
        /\ lower /\ u.lastAssertion = now => d = u.lastAssertion + v.idleTimeout
  BY <1>5
<1>7. v.clients = u.clients
  BY <1>1, <1>6 DEF GlobalSet
<1>8. /\ k \in 0..Len(u.clients)
      /\ \A i \in 1..Len(u.clients) : IF i <= k THEN u.clients[i].timeout <= timeout
                                      ELSE u.clients[i].timeout > timeout
  BY <1>1, <1>2, <1>7, PlaceFact
<1> HIDE DEF k
<1>9. new \in ClientSet /\ new.timeout = timeout /\ new.id = c
  BY <1>2, ConstantsType DEF ClientSet, LevelSet
<1> HIDE DEF new
<1>10. p \in Seq(ClientSet) /\ Put(u.clients, k, new, p)
  BY <1>1, <1>7, <1>8, <1>9, PutFact
<1> HIDE DEF p
<1>11. \A i \in 1..Len(u.clients) : u.clients[i].id # c
  <2>1. DOMAIN u.clients = 1..Len(u.clients)
    BY <1>1, LenProperties
  <2> QED BY <2>1 DEF Ids
<1>12. v.idleTimeout \in Nat \ {0} /\ v.idleTimeout <= u.idleTimeout /\ v.idleTimeout <= timeout
  BY <1>1, <1>2, <1>5
<1>13. Listed(p, v.idleTimeout)
  BY <1>1, <1>8, <1>9, <1>10, <1>11, <1>12, PutListed
<1>14. /\ z \in GlobalSet /\ z.clients = p /\ z.idleTimeout = v.idleTimeout
       /\ z.assertionTimer = d
  BY <1>5, <1>6, <1>10 DEF GlobalSet
<1> HIDE DEF z
<1>15. z = [u EXCEPT !.idleTimeout = v.idleTimeout, !.assertionTimer = d, !.clients = p]
  BY <1>6 DEF z
<1>16. /\ z.lastHid = u.lastHid /\ z.lastAssertion = u.lastAssertion
       /\ z.hidActive = u.hidActive /\ z.assertionValid = u.assertionValid
       /\ z.unshared = u.unshared /\ z.load = u.load
       /\ z.loggedIn = u.loggedIn /\ z.dwbt = u.dwbt /\ z.battery = u.battery
       /\ z.cpu = u.cpu /\ z.pressure = u.pressure /\ z.displayOff = u.displayOff
       /\ z.wake = u.wake
  BY <1>1, <1>15 DEF GlobalSet
<1>17. Load(z) = Load(u)
  <2>1. UserLevel(z) = UserLevel(u)
    BY <1>16 DEF UserLevel
  <2>2. BatteryLevel(z) = BatteryLevel(u)
    BY <1>16 DEF BatteryLevel
  <2>3. PowerLevel(z) = PowerLevel(u)
    BY <1>16 DEF PowerLevel
  <2> QED BY <2>1, <2>2, <2>3 DEF Load
<1>18. Fresh(z, now)
  <2> SUFFICES ASSUME z.assertionValid, z.lastAssertion = now
               PROVE  z.assertionTimer > now /\ z.assertionTimer <= now + z.idleTimeout
    BY DEF Fresh
  <2>1. u.assertionValid /\ u.lastAssertion = now /\ z.assertionTimer = d
    BY <1>14, <1>16
  <2>2. u.assertionTimer > now /\ u.assertionTimer <= now + u.idleTimeout /\ u.assertionTimer \in Nat
    BY <1>1, <2>1 DEF Fresh, GlobalSet
  <2>3. CASE lower
    <3>1. d = now + v.idleTimeout
      BY <1>6, <2>1, <2>3
    <3> QED BY <1>12, <1>14, <3>1
  <2>4. CASE ~lower
    <3>1. v.idleTimeout = u.idleTimeout
      BY <1>5, <2>4
    <3>2. d = u.assertionTimer \/ d = now + u.idleTimeout
      BY <1>6, <2>1, <3>1
    <3> QED BY <1>1, <1>14, <2>2, <3>1, <3>2
  <2> QED BY <2>3, <2>4
<1>19. Past(z, now)
  BY <1>1, <1>16 DEF Past
<1>20. Good(z, now)
  BY <1>13, <1>14, <1>18, <1>19 DEF Good
<1>21. Fine(z, r)
  BY <1>3, <1>20, EvaluatedFine
<1> QED BY <1>16, <1>17, <1>21 DEF Fine, Shared, r

-----------------------------------------------------------------------------
(* The invariant.                                                           *)

BlockSet == [what : {"assertions"}] \cup [what : {"battery"}, state : BatterySet]
              \cup [what : {"hid"}, active : BOOLEAN, ts : Nat]
HidSet == [active : BOOLEAN, last : Nat \ {0}, threshold : Nat \ {0}]

Rest ==
  /\ now \in 1..MaxTime /\ changes \in 0..MaxChanges
  /\ hid \in HidSet /\ hid.last <= now
  /\ sysloadQ \in Seq({"threshold", "callback"}) /\ Len(sysloadQ) <= MaxQueue
  /\ mainQ \in Seq(BlockSet) /\ Len(mainQ) <= MaxQueue

\* The globals by themselves, and what they publish.
Whole(u, t) == Good(u, t) /\ Sound(u, t) /\ Shared(u)
Says(u) == ~u.unsaid => u.posted = Levels(u)

Has(s, b) == \E i \in 1..Len(s) : s[i] = b
Waits(q, what) == \E i \in 1..Len(q) : q[i].what = what
LastHid(q, i) == q[i].what = "hid" /\ \A j \in i + 1..Len(q) : q[j].what # "hid"

\* What the queues carry of HID is of the past, and with no callback to come the last
\* word of HID is the one it still stands by: a is what powerd has heard.
Dated(q, t) ==
  \A i \in 1..Len(q) :
    q[i].what = "hid" => q[i].ts <= t /\ (~q[i].active => q[i].ts < t)
Heard(s, q, a, h) ==
  ~Has(s, "callback") =>
    /\ ~Waits(q, "hid") => a = h.active
    /\ \A i \in 1..Len(q) : LastHid(q, i) => q[i].active = h.active

IndInv ==
  /\ Rest /\ Whole(g, now)
  /\ ~Waits(mainQ, "assertions") => Says(g)
  /\ ~hid.active => hid.last < now
  /\ Dated(mainQ, now)
  /\ Heard(sysloadQ, mainQ, g.hidActive, hid)
  /\ hid.threshold = g.idleTimeout \/ Has(sysloadQ, "threshold")

LEMMA QueueFact ==
  ASSUME Rest
  PROVE  /\ DOMAIN sysloadQ = 1..Len(sysloadQ) /\ DOMAIN mainQ = 1..Len(mainQ)
         /\ Len(sysloadQ) \in Nat /\ Len(mainQ) \in Nat
         /\ \A b : Queued(b) <=> Has(sysloadQ, b)
         /\ \A what : Pending(what) <=> Waits(mainQ, what)
<1>1. /\ DOMAIN sysloadQ = 1..Len(sysloadQ) /\ DOMAIN mainQ = 1..Len(mainQ)
      /\ Len(sysloadQ) \in Nat /\ Len(mainQ) \in Nat
  BY LenProperties DEF Rest
<1> QED BY <1>1 DEF Queued, Has, Pending, Waits

LEMMA NowFact ==
  ASSUME Rest
  PROVE  now \in Nat \ {0} /\ now <= MaxTime /\ now \in Nat
BY ConstantsType DEF Rest

\* A handler that leaves the queues alone.
Handled ==
  /\ Whole(g', now) /\ Honest(g, g') /\ (Says(g) => Says(g'))
  /\ g'.idleTimeout = g.idleTimeout /\ g'.hidActive = g.hidActive

LEMMA HandledStep ==
  ASSUME IndInv, Handled, Stay, changes' \in 0..MaxChanges
  PROVE  IndInv' /\ Honest(g, g')
<1>1. now' = now /\ hid' = hid /\ sysloadQ' = sysloadQ /\ mainQ' = mainQ
  BY DEF Stay
<1>2. Rest'
  BY <1>1 DEF IndInv, Rest
<1>3. Whole(g', now') /\ Honest(g, g')
  BY <1>1 DEF Handled
<1>4. ~Waits(mainQ', "assertions") => Says(g')
  BY <1>1 DEF IndInv, Handled
<1>5. Heard(sysloadQ', mainQ', g'.hidActive, hid')
  BY <1>1 DEF IndInv, Handled
<1>6. /\ ~hid'.active => hid'.last < now'
      /\ Dated(mainQ', now')
      /\ hid'.threshold = g'.idleTimeout \/ Has(sysloadQ', "threshold")
  BY <1>1 DEF IndInv, Handled
<1> QED BY <1>2, <1>3, <1>4, <1>5, <1>6 DEF IndInv

LEMMA FineHandled ==
  ASSUME NEW u, NEW r, Fine(u, r), Shared(u), g' = r, r.idleTimeout = g.idleTimeout,
         u.hidActive = g.hidActive
  PROVE  Handled
BY FrankHonest DEF Fine, Handled, Whole, Says

\* Nothing the advisory depends on has changed.
LEMMA SameLoad ==
  ASSUME NEW u, NEW w, w.loggedIn = u.loggedIn, w.displayOff = u.displayOff, w.dwbt = u.dwbt,
         w.wake = u.wake, w.battery = u.battery, w.cpu = u.cpu, w.pressure = u.pressure,
         w.load = u.load, w.unshared = u.unshared
  PROVE  Load(w) = Load(u) /\ (Shared(u) => Shared(w))
<1>1. UserLevel(w) = UserLevel(u)
  BY DEF UserLevel
<1>2. BatteryLevel(w) = BatteryLevel(u)
  BY DEF BatteryLevel
<1>3. PowerLevel(w) = PowerLevel(u)
  BY DEF PowerLevel
<1>4. Load(w) = Load(u)
  BY <1>1, <1>2, <1>3 DEF Load
<1> QED BY <1>4 DEF Shared

\* Nothing the levels depend on has.
LEMMA SameSaid ==
  ASSUME NEW u, NEW w, w.posted = u.posted, w.unsaid = u.unsaid, w.displayOff = u.displayOff,
         w.userActive = u.userActive, w.oneness = u.oneness, w.asserted = u.asserted,
         w.notification = u.notification, w.displaySleep = u.displaySleep, w.wake = u.wake
  PROVE  Says(u) => Says(w)
<1>1. PassiveLevels(w) = PassiveLevels(u)
  BY DEF PassiveLevels
<1>2. Levels(w) = Levels(u)
  BY <1>1 DEF Levels
<1> QED BY <1>2 DEF Says

-----------------------------------------------------------------------------
(* The handlers.                                                            *)

LEMMA DisplayStep ==
  ASSUME IndInv, NEW off \in BOOLEAN, SystemLoadDisplayPowerStateHasChanged(off)
  PROVE  Handled
<1> DEFINE d == [g EXCEPT !.displayOff = off, !.assertionValid = g.assertionValid /\ ~off]
           r == IF off THEN RootDomain(d, FALSE)
                ELSE IF ~d.notification THEN RootDomain(d, TRUE) ELSE d
           s == shareTheSystemLoad(r)
<1>1. now \in Nat \ {0} /\ now <= MaxTime /\ now \in Nat /\ Good(g, now) /\ g \in GlobalSet
  BY NowFact DEF IndInv, Whole, Good
<1>2. g' = evaluateHidIdleNotification(s)
  BY DEF SystemLoadDisplayPowerStateHasChanged
<1>3. /\ d \in GlobalSet /\ d.clients = g.clients /\ d.idleTimeout = g.idleTimeout
      /\ d.lastHid = g.lastHid /\ d.hidActive = g.hidActive
      /\ d.lastAssertion = g.lastAssertion /\ d.assertionTimer = g.assertionTimer
      /\ (d.assertionValid => g.assertionValid)
  BY <1>1 DEF GlobalSet
<1>4. Good(d, now)
  BY <1>1, <1>3, InputGood
<1> HIDE DEF d
<1>5. Good(r, now) /\ r.idleTimeout = d.idleTimeout /\ r.hidActive = d.hidActive
  BY <1>1, <1>4, RootFine
<1> HIDE DEF r
<1>6. s \in GlobalSet /\ SameCore(r, s) /\ Shared(s)
  BY <1>5, ShareFact DEF Good
<1>7. Good(s, now) /\ s.idleTimeout = g.idleTimeout /\ s.hidActive = g.hidActive
  BY <1>3, <1>5, <1>6, CoreFrame DEF SameCore
<1> HIDE DEF s
<1>8. Fine(s, g') /\ Kept(s, g')
  BY <1>1, <1>2, <1>7, EvaluatedFine
<1> QED BY <1>6, <1>7, <1>8, FineHandled DEF Kept

LEMMA TickleStep ==
  ASSUME IndInv, sendActivityTickle
  PROVE  Handled
<1> DEFINE u == SystemLoadUserActiveAssertions(g, TRUE)
<1>1. now \in Nat \ {0} /\ now <= MaxTime /\ Good(g, now) /\ Shared(g)
  BY NowFact DEF IndInv, Whole
<1>2. g' = IF ~u.displayOff /\ ~u.rootDomain THEN RootDomain(u, TRUE) ELSE u
  BY DEF sendActivityTickle
<1>3. Fine(g, u) /\ u.idleTimeout = g.idleTimeout
  BY <1>1, AssertFine
<1> HIDE DEF u
<1>4. Good(u, now) /\ Shared(u) /\ u.hidActive = g.hidActive
  BY <1>1, <1>3 DEF Fine
<1>5. CASE ~u.displayOff /\ ~u.rootDomain
  <2>1. Fine(u, g') /\ g'.idleTimeout = u.idleTimeout
    BY <1>1, <1>2, <1>4, <1>5, RootFine
  <2> QED BY <1>3, <1>4, <2>1, FineHandled
<1>6. CASE ~(~u.displayOff /\ ~u.rootDomain)
  <2>1. g' = u
    BY <1>2, <1>6
  <2> QED BY <1>1, <1>3, <2>1, FineHandled
<1> QED BY <1>5, <1>6

\* The levels are told after a change of what they depend on but activity.
LEMMA TellStep ==
  ASSUME IndInv, NEW x \in GlobalSet, SameCore(g, x), Shared(x),
         g' = updateUserActivityLevels(x)
  PROVE  Handled
<1>1. now \in Nat /\ now <= MaxTime /\ Good(g, now) /\ Sound(g, now)
  BY NowFact DEF IndInv, Whole
<1>2. Good(x, now) /\ Sound(x, now)
  BY <1>1, CoreFrame
<1>3. /\ Good(g', now) /\ Sound(g', now) /\ Honest(x, g') /\ Shared(g')
      /\ g'.posted = Levels(g') /\ Kept(x, g')
  BY <1>1, <1>2, UpdateFine
<1>4. Honest(g, g')
  BY <1>3 DEF Honest, SameCore
<1> QED BY <1>3, <1>4 DEF Handled, Whole, Says, Kept, SameCore

LEMMA AssertionsStep ==
  ASSUME IndInv, NEW k, NEW on \in BOOLEAN, k \in Kinds, AssertionsChanged(k, on)
  PROVE  Handled
<1> DEFINE as == IF on THEN g.asserted \cup {k} ELSE g.asserted \ {k}
           a == [g EXCEPT !.asserted = as]
           x == IF k = "tickless" THEN displayWakeHandler(a, on) ELSE a
<1>1. g \in GlobalSet /\ Shared(g) /\ as \in SUBSET Kinds
  BY DEF IndInv, Whole, Good, GlobalSet
<1>2. g' = updateUserActivityLevels(x)
  BY DEF AssertionsChanged
<1> HIDE DEF as
<1>3. /\ a \in GlobalSet /\ SameCore(g, a) /\ a.loggedIn = g.loggedIn /\ a.dwbt = g.dwbt
      /\ a.wake = g.wake /\ a.battery = g.battery /\ a.cpu = g.cpu
      /\ a.pressure = g.pressure /\ a.load = g.load /\ a.unshared = g.unshared
  BY <1>1 DEF GlobalSet, SameCore
<1>4. Shared(a)
  BY <1>1, <1>3, SameLoad DEF SameCore
<1> HIDE DEF a
<1>5. x \in GlobalSet /\ SameCore(g, x) /\ Shared(x)
  <2>1. CASE k = "tickless"
    <3> DEFINE n == on /\ (a.notification
                            \/ (~a.assertionValid /\ (a.displayOff \/ a.wake # "full")))
               y == displayWakeHandler(a, on)
    <3>1. n \in BOOLEAN
      BY <1>3 DEF GlobalSet
    <3>2. y = [a EXCEPT !.notification = n]
      BY DEF displayWakeHandler
    <3> HIDE DEF n, y
    <3>3. /\ y \in GlobalSet /\ SameCore(a, y) /\ y.loggedIn = a.loggedIn /\ y.dwbt = a.dwbt
          /\ y.wake = a.wake /\ y.battery = a.battery /\ y.cpu = a.cpu
          /\ y.pressure = a.pressure /\ y.load = a.load /\ y.unshared = a.unshared
      BY <1>3, <3>1, <3>2 DEF GlobalSet, SameCore
    <3>4. Shared(y)
      BY <1>4, <3>3, SameLoad DEF SameCore
    <3>5. SameCore(g, y)
      BY <1>3, <3>3 DEF SameCore
    <3> QED BY <2>1, <3>3, <3>4, <3>5 DEF y
  <2>2. CASE k # "tickless"
    BY <1>3, <1>4, <2>2
  <2> QED BY <2>1, <2>2
<1> HIDE DEF x
<1> QED BY <1>2, <1>5, TellStep

LEMMA UserAssertionsStep ==
  ASSUME IndInv, userActiveHandlePowerAssertionsChanged
  PROVE  Handled
<1>1. g \in GlobalSet /\ Shared(g)
  BY DEF IndInv, Whole, Good
<1>2. SameCore(g, g)
  BY DEF SameCore
<1> QED BY <1>1, <1>2, TellStep DEF userActiveHandlePowerAssertionsChanged

\* An evaluation after a change of inputs.
LEMMA EvaluateStep ==
  ASSUME IndInv, NEW x, Good(x, now), Shared(x), x.idleTimeout = g.idleTimeout,
         x.hidActive = g.hidActive, g' = evaluateHidIdleNotification(x)
  PROVE  Handled
<1>1. now \in Nat /\ now <= MaxTime
  BY NowFact DEF IndInv
<1>2. Fine(x, g') /\ Kept(x, g')
  BY <1>1, EvaluatedFine
<1> QED BY <1>2, FineHandled DEF Kept

LEMMA OnenessStep ==
  ASSUME IndInv, NEW on \in BOOLEAN, SystemLoadOnenessStateHasChanged(on)
  PROVE  Handled
<1> DEFINE x == [g EXCEPT !.oneness = on]
<1>1. g \in GlobalSet /\ Shared(g) /\ Good(g, now)
  BY DEF IndInv, Whole, Good
<1>2. g' = evaluateHidIdleNotification(x)
  BY DEF SystemLoadOnenessStateHasChanged
<1>3. /\ x \in GlobalSet /\ x.clients = g.clients /\ x.idleTimeout = g.idleTimeout
      /\ x.lastHid = g.lastHid /\ x.hidActive = g.hidActive
      /\ x.lastAssertion = g.lastAssertion /\ x.assertionTimer = g.assertionTimer
      /\ x.assertionValid = g.assertionValid
      /\ x.loggedIn = g.loggedIn /\ x.displayOff = g.displayOff /\ x.dwbt = g.dwbt
      /\ x.wake = g.wake /\ x.battery = g.battery /\ x.cpu = g.cpu
      /\ x.pressure = g.pressure /\ x.load = g.load /\ x.unshared = g.unshared
  BY <1>1 DEF GlobalSet
<1> HIDE DEF x
<1>4. Good(x, now) /\ Shared(x)
  BY <1>1, <1>3, InputGood, SameLoad
<1> QED BY <1>2, <1>3, <1>4, EvaluateStep

\* The two timers: an assertion of this moment has its own, which is not due.
LEMMA HidTimerStep ==
  ASSUME IndInv, HidIdleEval
  PROVE  Handled
<1> DEFINE x == [g EXCEPT !.hidTimer = NoDate]
<1>1. g \in GlobalSet /\ Shared(g) /\ Good(g, now)
  BY DEF IndInv, Whole, Good
<1>2. g' = evaluateHidIdleNotification(x)
  BY DEF HidIdleEval
<1>3. /\ x \in GlobalSet /\ x.clients = g.clients /\ x.idleTimeout = g.idleTimeout
      /\ x.lastHid = g.lastHid /\ x.hidActive = g.hidActive
      /\ x.lastAssertion = g.lastAssertion /\ x.assertionTimer = g.assertionTimer
      /\ x.assertionValid = g.assertionValid
      /\ x.loggedIn = g.loggedIn /\ x.displayOff = g.displayOff /\ x.dwbt = g.dwbt
      /\ x.wake = g.wake /\ x.battery = g.battery /\ x.cpu = g.cpu
      /\ x.pressure = g.pressure /\ x.load = g.load /\ x.unshared = g.unshared
  BY <1>1 DEF GlobalSet, NoDate
<1> HIDE DEF x
<1>4. Good(x, now) /\ Shared(x)
  BY <1>1, <1>3, InputGood, SameLoad
<1> QED BY <1>2, <1>3, <1>4, EvaluateStep

LEMMA AssertionTimerStep ==
  ASSUME IndInv, AssertionEval
  PROVE  Handled
<1> DEFINE x == [g EXCEPT !.assertionTimer = NoDate]
<1>1. g \in GlobalSet /\ Shared(g) /\ Good(g, now) /\ now \in Nat
  BY NowFact DEF IndInv, Whole, Good
<1>2. g' = evaluateHidIdleNotification(x) /\ g.assertionTimer <= now
  BY DEF AssertionEval, SystemLoadUserActiveAssertions
<1>3. /\ x \in GlobalSet /\ x.clients = g.clients /\ x.idleTimeout = g.idleTimeout
      /\ x.lastHid = g.lastHid /\ x.hidActive = g.hidActive
      /\ x.lastAssertion = g.lastAssertion /\ x.assertionValid = g.assertionValid
      /\ x.loggedIn = g.loggedIn /\ x.displayOff = g.displayOff /\ x.dwbt = g.dwbt
      /\ x.wake = g.wake /\ x.battery = g.battery /\ x.cpu = g.cpu
      /\ x.pressure = g.pressure /\ x.load = g.load /\ x.unshared = g.unshared
  BY <1>1 DEF GlobalSet, NoDate
<1> HIDE DEF x
<1>4. Fresh(x, now)
  <2>1. ~(g.assertionValid /\ g.lastAssertion = now)
    <3>1. g.assertionTimer \in Nat
      BY <1>1 DEF GlobalSet
    <3> QED BY <1>1, <1>2, <3>1 DEF Good, Fresh
  <2> QED BY <1>3, <2>1 DEF Fresh
<1>5. Past(x, now)
  BY <1>1, <1>3 DEF Good, Past
<1>6. Good(x, now) /\ Shared(x)
  BY <1>1, <1>3, <1>4, <1>5, SameLoad DEF Good
<1> QED BY <1>2, <1>3, <1>6, EvaluateStep

LEMMA SleepStep ==
  ASSUME IndInv, userActiveHandleSleep
  PROVE  Handled
<1>1. /\ g \in GlobalSet /\ Shared(g) /\ Good(g, now) /\ Sound(g, now)
      /\ now \in Nat /\ now <= MaxTime
  BY NowFact DEF IndInv, Whole, Good
<1>2. g' = [g EXCEPT !.rootDomain = FALSE]
  BY DEF userActiveHandleSleep
<1>3. /\ g' \in GlobalSet /\ g'.clients = g.clients /\ g'.idleTimeout = g.idleTimeout
      /\ g'.lastHid = g.lastHid /\ g'.hidActive = g.hidActive
      /\ g'.lastAssertion = g.lastAssertion /\ g'.assertionTimer = g.assertionTimer
      /\ g'.hidTimer = g.hidTimer /\ g'.assertionValid = g.assertionValid
      /\ g'.loggedIn = g.loggedIn /\ g'.displayOff = g.displayOff /\ g'.dwbt = g.dwbt
      /\ g'.wake = g.wake /\ g'.battery = g.battery /\ g'.cpu = g.cpu
      /\ g'.pressure = g.pressure /\ g'.load = g.load /\ g'.unshared = g.unshared
      /\ g'.posted = g.posted /\ g'.unsaid = g.unsaid /\ g'.userActive = g.userActive
      /\ g'.oneness = g.oneness /\ g'.asserted = g.asserted
      /\ g'.notification = g.notification /\ g'.displaySleep = g.displaySleep
      /\ g'.rootDomain = FALSE
  BY <1>1, <1>2 DEF GlobalSet
<1> DEFINE h == g'
<1> HIDE DEF h
<1>4. Good(h, now) /\ Shared(h)
  <2>1. Good(g', now)
    BY <1>1, <1>3, InputGood
  <2>2. Shared(g')
    BY <1>1, <1>3, SameLoad
  <2> QED BY <2>1, <2>2 DEF h
<1>5. Says(g) => Says(g')
  BY <1>3, SameSaid
<1>6. DurAt(h, now) \in Nat /\ DurAt(g, now) \in Nat /\ DurAt(g, now) <= DurAt(h, now)
  <2>1. DurAt(g, now) \in Nat /\ DurAt(g, now) <= Forever
    BY <1>1, DurFact DEF Good
  <2>2. h \in GlobalSet /\ Past(h, now)
    BY <1>4 DEF Good
  <2>3. DurAt(h, now) \in Nat /\ DurAt(h, now) <= Forever
        /\ (DurAt(h, now) < Forever =>
              \/ h.rootDomain /\ h.hidActive /\ DurAt(h, now) = 0
              \/ h.rootDomain /\ ~h.hidActive /\ DurAt(h, now) = now - h.lastHid
              \/ h.assertionValid /\ DurAt(h, now) = now - h.lastAssertion)
    BY <1>1, <2>2, DurFact
  <2>4. CASE DurAt(h, now) = Forever
    BY <2>1, <2>4, ConstantsType
  <2>5. CASE DurAt(h, now) # Forever
    <3>1. g.assertionValid /\ DurAt(h, now) = now - g.lastAssertion
      BY <1>3, <2>3, <2>5, ConstantsType DEF h
    <3>2. /\ g.lastHid \in Nat /\ g.lastAssertion \in Nat /\ Forever \in Nat
      BY <1>1, ConstantsType DEF GlobalSet
    <3>3. DurAt(g, now) <= now - g.lastAssertion
      BY <1>1, <3>1, <3>2 DEF DurAt, Smaller, Good, Past
    <3> QED BY <2>1, <2>3, <3>1, <3>3
  <2> QED BY <2>1, <2>3, <2>4, <2>5
<1>7. h.clients = g.clients /\ Len(g.clients) \in Nat
      /\ \A i \in 1..Len(g.clients) : g.clients[i].timeout \in Nat
  <2>1. g.clients \in Seq(ClientSet)
    BY <1>1 DEF GlobalSet
  <2> QED BY <1>3, <2>1, ListType DEF h
<1>8. Active(h, now)
  <2>1. Active(g, now) /\ h.displayOff = g.displayOff /\ h.userActive = g.userActive
    BY <1>1, <1>3 DEF Sound, h
  <2> QED BY <1>6, <2>1, ConstantsType DEF Active
<1>9. Watched(h, now)
  <2> SUFFICES ASSUME ~h.hidActive, NEW i \in 1..Len(h.clients),
                      "active" \in h.clients[i].posted
                        \/ (~h.displayOff /\ DurAt(h, now) < h.clients[i].timeout)
               PROVE  DueFor(h, h.hidTimer, h.clients[i].timeout)
                        \/ DueFor(h, h.assertionTimer, h.clients[i].timeout)
    BY DEF Watched
  <2>1. /\ ~g.hidActive /\ h.displayOff = g.displayOff /\ h.hidTimer = g.hidTimer
        /\ h.assertionTimer = g.assertionTimer /\ h.lastHid = g.lastHid
        /\ h.lastAssertion = g.lastAssertion /\ h.assertionValid = g.assertionValid
    BY <1>3 DEF h
  <2>2. "active" \in g.clients[i].posted
          \/ (~g.displayOff /\ DurAt(g, now) < g.clients[i].timeout)
    BY <1>6, <1>7, <2>1
  <2>3. DueFor(g, g.hidTimer, g.clients[i].timeout)
          \/ DueFor(g, g.assertionTimer, g.clients[i].timeout)
    BY <1>1, <1>7, <2>1, <2>2 DEF Sound, Watched
  <2> QED BY <1>7, <2>1, <2>3 DEF DueFor
<1>10. Told(h) /\ Shown(h)
  BY <1>1, <1>3 DEF Sound, Told, Shown, h
<1>11. Honest(g, h)
  <2>1. \A i, j \in 1..Len(g.clients) : g.clients[i].id = g.clients[j].id => i = j
    BY <1>1, UniqueIds DEF Good, GlobalSet
  <2> QED BY <1>3, <2>1 DEF Honest, h
<1>12. Whole(h, now)
  BY <1>4, <1>8, <1>9, <1>10 DEF Whole, Sound
<1> QED BY <1>3, <1>5, <1>11, <1>12 DEF Handled, h

\* Inputs of the advisory.
LEMMA ShareStep ==
  ASSUME IndInv, NEW x \in GlobalSet, SameCore(g, x), Says(g) => Says(x),
         g' = shareTheSystemLoad(x)
  PROVE  Handled
<1>1. /\ g' \in GlobalSet /\ SameCore(x, g') /\ Shared(g')
      /\ g'.unsaid = x.unsaid /\ g'.notification = x.notification /\ g'.wake = x.wake
      /\ g'.asserted = x.asserted /\ g'.displaySleep = x.displaySleep
  BY ShareFact
<1>2. SameCore(g, g')
  BY <1>1 DEF SameCore
<1>3. Good(g', now) /\ Sound(g', now) /\ Honest(g, g')
  BY <1>1, <1>2, CoreFrame DEF IndInv, Whole
<1>4. Says(x) => Says(g')
  BY <1>1, SameSaid DEF SameCore
<1> QED BY <1>1, <1>2, <1>3, <1>4 DEF Handled, Whole, SameCore

LEMMA InputsShared ==
  ASSUME IndInv
  PROVE  /\ \A s, d \in BOOLEAN : SystemLoadPrefsHaveChanged(s, d) => Handled
         /\ \A w \in Wakes : PowerStateHasChanged(w) => Handled
         /\ \A in \in BOOLEAN : SystemLoadUserStateHasChanged(in) => Handled
         /\ \A p \in Pressures : ThermalPressure(p) => Handled
<1>1. g \in GlobalSet
  BY DEF IndInv, Whole, Good
<1>2. ASSUME NEW s \in BOOLEAN, NEW d \in BOOLEAN, SystemLoadPrefsHaveChanged(s, d)
      PROVE  Handled
  <2> DEFINE x == [g EXCEPT !.displaySleep = s, !.dwbt = d, !.unsaid = TRUE]
  <2>1. x \in GlobalSet /\ SameCore(g, x) /\ x.unsaid = TRUE
    BY <1>1 DEF GlobalSet, SameCore
  <2>2. g' = shareTheSystemLoad(x)
    BY <1>2 DEF SystemLoadPrefsHaveChanged
  <2> HIDE DEF x
  <2> QED BY <2>1, <2>2, ShareStep DEF Says
<1>3. ASSUME NEW w \in Wakes, PowerStateHasChanged(w)
      PROVE  Handled
  <2> DEFINE x == [g EXCEPT !.wake = w, !.unsaid = TRUE]
  <2>1. x \in GlobalSet /\ SameCore(g, x) /\ x.unsaid = TRUE
    BY <1>1 DEF GlobalSet, SameCore
  <2>2. g' = shareTheSystemLoad(x)
    BY <1>3 DEF PowerStateHasChanged
  <2> HIDE DEF x
  <2> QED BY <2>1, <2>2, ShareStep DEF Says
<1>4. ASSUME NEW in \in BOOLEAN, SystemLoadUserStateHasChanged(in)
      PROVE  Handled
  <2> DEFINE x == [g EXCEPT !.loggedIn = in]
  <2>1. /\ x \in GlobalSet /\ SameCore(g, x) /\ x.unsaid = g.unsaid
        /\ x.asserted = g.asserted /\ x.notification = g.notification
        /\ x.displaySleep = g.displaySleep /\ x.wake = g.wake
    BY <1>1 DEF GlobalSet, SameCore
  <2>2. g' = shareTheSystemLoad(x)
    BY <1>4 DEF SystemLoadUserStateHasChanged
  <2> HIDE DEF x
  <2>3. Says(g) => Says(x)
    BY <2>1, SameSaid DEF SameCore
  <2> QED BY <2>1, <2>2, <2>3, ShareStep
<1>5. ASSUME NEW p \in Pressures, ThermalPressure(p)
      PROVE  Handled
  <2> DEFINE x == [g EXCEPT !.pressure = p]
  <2>0. p \in PressureSet
    BY SystemLoadAssumption DEF PressureSet
  <2>1. /\ x \in GlobalSet /\ SameCore(g, x) /\ x.unsaid = g.unsaid
        /\ x.asserted = g.asserted /\ x.notification = g.notification
        /\ x.displaySleep = g.displaySleep /\ x.wake = g.wake
    BY <1>1, <2>0 DEF GlobalSet, SameCore
  <2>2. g' = shareTheSystemLoad(x)
    BY <1>5 DEF ThermalPressure
  <2> HIDE DEF x
  <2>3. Says(g) => Says(x)
    BY <2>1, SameSaid DEF SameCore
  <2> QED BY <2>1, <2>2, <2>3, ShareStep
<1> QED BY <1>2, <1>3, <1>4, <1>5

LEMMA CpuStep ==
  ASSUME IndInv, NEW c \in CpuStates, NEW readable \in BOOLEAN,
         SystemLoadCPUPowerHasChanged(c, readable)
  PROVE  Handled
<1> DEFINE f == [c EXCEPT !.constrained = FALSE, !.plimit = FALSE]
           x == [g EXCEPT !.cpu = c]
           y == [g EXCEPT !.cpu = f, !.unshared = TRUE]
<1>1. g \in GlobalSet /\ c \in CpuSet /\ f \in CpuSet
  <2>1. c \in CpuSet
    BY SystemLoadAssumption DEF CpuSet
  <2>2. f \in CpuSet
    BY <2>1 DEF CpuSet
  <2> QED BY <2>1, <2>2 DEF IndInv, Whole, Good
<1>2. g' = IF readable THEN shareTheSystemLoad(x) ELSE y
  BY DEF SystemLoadCPUPowerHasChanged
<1> HIDE DEF f
<1>3. /\ x \in GlobalSet /\ SameCore(g, x) /\ x.unsaid = g.unsaid
      /\ x.asserted = g.asserted /\ x.notification = g.notification
      /\ x.displaySleep = g.displaySleep /\ x.wake = g.wake
  BY <1>1 DEF GlobalSet, SameCore
<1>4. /\ y \in GlobalSet /\ SameCore(g, y) /\ y.unsaid = g.unsaid /\ y.unshared = TRUE
      /\ y.asserted = g.asserted /\ y.notification = g.notification
      /\ y.displaySleep = g.displaySleep /\ y.wake = g.wake
  BY <1>1 DEF GlobalSet, SameCore
<1> HIDE DEF x, y
<1>5. CASE readable
  <2>1. Says(g) => Says(x)
    BY <1>3, SameSaid DEF SameCore
  <2> QED BY <1>2, <1>3, <1>5, <2>1, ShareStep
<1>6. CASE ~readable
  <2>1. g' = y
    BY <1>2, <1>6
  <2>2. Says(g) => Says(y)
    BY <1>4, SameSaid DEF SameCore
  <2>3. Good(y, now) /\ Sound(y, now) /\ Honest(g, y)
    BY <1>4, CoreFrame DEF IndInv, Whole
  <2>4. Shared(y)
    BY <1>4 DEF Shared
  <2> QED BY <1>4, <2>1, <2>2, <2>3, <2>4 DEF Handled, Whole, SameCore
<1> QED BY <1>5, <1>6

LEMMA LeaveStep ==
  ASSUME IndInv, NEW c, deRegisterUserActivityClient(c)
  PROVE  Handled
<1>1. c \in Ids(g) /\ g' = Without(g, c)
  BY DEF deRegisterUserActivityClient
<1>2. /\ Good(g', now) /\ Sound(g', now) /\ Honest(g, g') /\ Kept(g, g') /\ Shared(g')
      /\ g'.posted = g.posted /\ g'.unsaid = g.unsaid /\ g'.userActive = g.userActive
  BY <1>1, WithoutFine DEF IndInv, Whole
<1>3. Says(g) => Says(g')
  BY <1>2, SameSaid DEF Kept
<1> QED BY <1>2, <1>3 DEF Handled, Whole, Kept

-----------------------------------------------------------------------------
(* The queues.                                                              *)

Added(q, e, p) ==
  /\ Len(p) = Len(q) + 1 /\ p[Len(q) + 1] = e
  /\ \A i \in 1..Len(q) : p[i] = q[i]
Shifted(q, p) ==
  /\ Len(q) = Len(p) + 1
  /\ \A i \in 1..Len(p) : p[i] = q[i + 1]

LEMMA AddFact ==
  ASSUME NEW S, NEW q \in Seq(S), NEW e \in S
  PROVE  Append(q, e) \in Seq(S) /\ Len(q) \in Nat /\ Added(q, e, Append(q, e))
BY AppendProperties, LenProperties DEF Added

LEMMA ShiftFact ==
  ASSUME NEW S, NEW q \in Seq(S), q # <<>>
  PROVE  /\ Tail(q) \in Seq(S) /\ Len(Tail(q)) \in Nat /\ Shifted(q, Tail(q))
         /\ Head(q) \in S /\ Head(q) = q[1]
<1>1. /\ Tail(q) \in Seq(S) /\ Head(q) \in S /\ Len(Tail(q)) = Len(q) - 1
      /\ \A i \in 1..Len(Tail(q)) : Tail(q)[i] = q[i + 1]
  BY HeadTailProperties
<1>2. Len(q) \in Nat /\ Len(Tail(q)) \in Nat
  BY <1>1, LenProperties
<1>3. Shifted(q, Tail(q))
  BY <1>1, <1>2 DEF Shifted
<1>4. Head(q) = q[1]
  OBVIOUS
<1> QED BY <1>1, <1>2, <1>3, <1>4

LEMMA AddedFact ==
  ASSUME NEW q, NEW e, NEW p, Len(q) \in Nat, Added(q, e, p)
  PROVE  /\ \A b : Has(p, b) <=> Has(q, b) \/ e = b
         /\ \A what : Waits(p, what) <=> Waits(q, what) \/ e.what = what
<1>1. /\ Len(p) = Len(q) + 1 /\ p[Len(q) + 1] = e
      /\ \A i \in 1..Len(q) : p[i] = q[i]
  BY DEF Added
<1>2. \A i \in 1..Len(p) : i \in 1..Len(q) \/ i = Len(q) + 1
  BY <1>1
<1>3. Len(q) + 1 \in 1..Len(p) /\ \A i \in 1..Len(q) : i \in 1..Len(p)
  BY <1>1
<1>4. ASSUME NEW b PROVE Has(p, b) <=> Has(q, b) \/ e = b
  BY <1>1, <1>2, <1>3 DEF Has
<1>5. ASSUME NEW what PROVE Waits(p, what) <=> Waits(q, what) \/ e.what = what
  BY <1>1, <1>2, <1>3 DEF Waits
<1> QED BY <1>4, <1>5

LEMMA ShiftedFact ==
  ASSUME NEW q, NEW p, Len(p) \in Nat, Shifted(q, p)
  PROVE  /\ \A b : Has(q, b) <=> q[1] = b \/ Has(p, b)
         /\ \A what : Waits(q, what) <=> q[1].what = what \/ Waits(p, what)
<1>1. Len(q) = Len(p) + 1 /\ \A i \in 1..Len(p) : p[i] = q[i + 1]
  BY DEF Shifted
<1>2. 1 \in 1..Len(q) /\ \A i \in 1..Len(p) : i + 1 \in 1..Len(q)
  BY <1>1
<1>3. \A i \in 1..Len(q) : i = 1 \/ (i - 1 \in 1..Len(p) /\ p[i - 1] = q[i])
  <2> SUFFICES ASSUME NEW i \in 1..Len(q), i # 1
               PROVE  i - 1 \in 1..Len(p) /\ p[i - 1] = q[i]
    OBVIOUS
  <2>1. i - 1 \in 1..Len(p) /\ (i - 1) + 1 = i
    BY <1>1
  <2> QED BY <1>1, <2>1
<1>4. ASSUME NEW b PROVE Has(q, b) <=> q[1] = b \/ Has(p, b)
  BY <1>1, <1>2, <1>3 DEF Has
<1>5. ASSUME NEW what PROVE Waits(q, what) <=> q[1].what = what \/ Waits(p, what)
  BY <1>1, <1>2, <1>3 DEF Waits
<1> QED BY <1>4, <1>5

\* The last block from HID.
LEMMA LastAdded ==
  ASSUME NEW q, NEW e, NEW p, Len(q) \in Nat, Added(q, e, p),
         NEW i \in 1..Len(p), LastHid(p, i)
  PROVE  IF e.what = "hid" THEN p[i] = e
         ELSE i \in 1..Len(q) /\ LastHid(q, i) /\ p[i] = q[i]
<1>1. /\ Len(p) = Len(q) + 1 /\ p[Len(q) + 1] = e
      /\ \A j \in 1..Len(q) : p[j] = q[j]
  BY DEF Added
<1>2. p[i].what = "hid" /\ \A j \in i + 1..Len(p) : p[j].what # "hid"
  BY DEF LastHid
<1>3. CASE i = Len(q) + 1
  BY <1>1, <1>2, <1>3
<1>4. CASE i # Len(q) + 1
  <2>1. i \in 1..Len(q) /\ Len(q) + 1 \in i + 1..Len(p)
    BY <1>1, <1>4
  <2>2. e.what # "hid" /\ p[i] = q[i]
    BY <1>1, <1>2, <2>1
  <2>3. \A j \in i + 1..Len(q) : j \in i + 1..Len(p) /\ p[j] = q[j]
    BY <1>1, <2>1
  <2> QED BY <1>2, <2>1, <2>2, <2>3 DEF LastHid
<1> QED BY <1>3, <1>4

LEMMA LastShifted ==
  ASSUME NEW q, NEW p, Len(p) \in Nat, Shifted(q, p)
  PROVE  /\ \A i \in 1..Len(p) :
              LastHid(p, i) => i + 1 \in 1..Len(q) /\ LastHid(q, i + 1) /\ p[i] = q[i + 1]
         /\ q[1].what = "hid" /\ ~Waits(p, "hid") => 1 \in 1..Len(q) /\ LastHid(q, 1)
<1>1. Len(q) = Len(p) + 1 /\ \A i \in 1..Len(p) : p[i] = q[i + 1]
  BY DEF Shifted
<1>2. \A j \in 2..Len(q) : j - 1 \in 1..Len(p) /\ p[j - 1] = q[j]
  <2> SUFFICES ASSUME NEW j \in 2..Len(q)
               PROVE  j - 1 \in 1..Len(p) /\ p[j - 1] = q[j]
    OBVIOUS
  <2>1. j - 1 \in 1..Len(p) /\ (j - 1) + 1 = j
    BY <1>1
  <2> QED BY <1>1, <2>1
<1>3. ASSUME NEW i \in 1..Len(p), LastHid(p, i)
      PROVE  i + 1 \in 1..Len(q) /\ LastHid(q, i + 1) /\ p[i] = q[i + 1]
  <2>1. p[i].what = "hid" /\ \A j \in i + 1..Len(p) : p[j].what # "hid"
    BY <1>3 DEF LastHid
  <2>2. ASSUME NEW j \in (i + 1) + 1..Len(q)
        PROVE  q[j].what # "hid"
    <3>1. j \in 2..Len(q) /\ j - 1 \in i + 1..Len(p)
      BY <1>1
    <3> QED BY <1>2, <2>1, <3>1
  <2> QED BY <1>1, <2>1, <2>2 DEF LastHid
<1>4. ASSUME q[1].what = "hid", ~Waits(p, "hid")
      PROVE  1 \in 1..Len(q) /\ LastHid(q, 1)
  <2>1. \A j \in 1 + 1..Len(q) : q[j].what # "hid"
    BY <1>2, <1>4 DEF Waits
  <2> QED BY <1>1, <1>4, <2>1 DEF LastHid
<1> QED BY <1>3, <1>4

LEMMA OtherAdded ==
  ASSUME NEW s, NEW q, NEW a, NEW h, NEW t, Heard(s, q, a, h), Dated(q, t),
         NEW e, NEW p, Len(q) \in Nat, Added(q, e, p), e.what # "hid"
  PROVE  Heard(s, p, a, h) /\ Dated(p, t)
<1>1. Heard(s, p, a, h)
  <2> SUFFICES ASSUME ~Has(s, "callback")
               PROVE  /\ ~Waits(p, "hid") => a = h.active
                      /\ \A i \in 1..Len(p) : LastHid(p, i) => p[i].active = h.active
    BY DEF Heard
  <2>1. ~Waits(p, "hid") => a = h.active
    BY AddedFact DEF Heard
  <2>2. ASSUME NEW i \in 1..Len(p), LastHid(p, i)
        PROVE  p[i].active = h.active
    <3>1. i \in 1..Len(q) /\ LastHid(q, i) /\ p[i] = q[i]
      BY <2>2, LastAdded
    <3> QED BY <3>1 DEF Heard
  <2> QED BY <2>1, <2>2
<1>2. ASSUME NEW i \in 1..Len(p), p[i].what = "hid"
      PROVE  p[i].ts <= t /\ (~p[i].active => p[i].ts < t)
  <2>1. i \in 1..Len(q) /\ p[i] = q[i]
    BY <1>2 DEF Added
  <2> QED BY <1>2, <2>1 DEF Dated
<1> QED BY <1>1, <1>2 DEF Dated

LEMMA ResourcesStep ==
  ASSUME IndInv, NEW k \in Kinds, NEW on \in BOOLEAN, ResourcesChanged(k, on),
         changes' \in 0..MaxChanges
  PROVE  IndInv' /\ Honest(g, g')
<1> DEFINE as == IF on THEN g.asserted \cup {k} ELSE g.asserted \ {k}
           e == [what |-> "assertions"]
<1>1. /\ now' = now /\ hid' = hid /\ sysloadQ' = sysloadQ /\ mainQ' = Append(mainQ, e)
      /\ g' = [g EXCEPT !.asserted = as] /\ Len(mainQ) < MaxQueue
  BY DEF ResourcesChanged
<1>2. g \in GlobalSet /\ as \in SUBSET Kinds /\ Shared(g)
  BY DEF IndInv, Whole, Good, GlobalSet
<1> HIDE DEF as
<1>3. /\ g' \in GlobalSet /\ SameCore(g, g') /\ g'.loggedIn = g.loggedIn /\ g'.dwbt = g.dwbt
      /\ g'.wake = g.wake /\ g'.battery = g.battery /\ g'.cpu = g.cpu
      /\ g'.pressure = g.pressure /\ g'.load = g.load /\ g'.unshared = g.unshared
  BY <1>1, <1>2 DEF GlobalSet, SameCore
<1>4. Shared(g')
  BY <1>2, <1>3, SameLoad DEF SameCore
<1>5. Good(g', now) /\ Sound(g', now) /\ Honest(g, g')
  BY <1>3, CoreFrame DEF IndInv, Whole
<1>6. e \in BlockSet /\ e.what = "assertions"
  BY DEF BlockSet
<1> HIDE DEF e
<1>7. mainQ' \in Seq(BlockSet) /\ Len(mainQ) \in Nat /\ Added(mainQ, e, mainQ')
  BY <1>1, <1>6, AddFact DEF IndInv, Rest
<1>8. Len(mainQ') <= MaxQueue
  BY <1>1, <1>7, ConstantsType DEF Added
<1>9. Rest'
  BY <1>1, <1>7, <1>8 DEF IndInv, Rest
<1>10. Waits(mainQ', "assertions")
  BY <1>6, <1>7, AddedFact
<1>11. Heard(sysloadQ, mainQ', g.hidActive, hid) /\ Dated(mainQ', now)
  BY <1>6, <1>7, OtherAdded DEF IndInv
<1>12. Heard(sysloadQ', mainQ', g'.hidActive, hid') /\ Dated(mainQ', now')
  BY <1>1, <1>3, <1>11 DEF SameCore
<1>13. /\ ~hid'.active => hid'.last < now'
       /\ hid'.threshold = g'.idleTimeout \/ Has(sysloadQ', "threshold")
  BY <1>1, <1>3 DEF IndInv, SameCore
<1>14. Whole(g', now')
  BY <1>1, <1>4, <1>5 DEF Whole
<1> QED BY <1>5, <1>9, <1>10, <1>12, <1>13, <1>14 DEF IndInv

LEMMA BatteriesStep ==
  ASSUME IndInv, NEW b \in Readings, SystemLoadBatteriesHaveChanged(b),
         changes' \in 0..MaxChanges
  PROVE  IndInv' /\ Honest(g, g')
<1> DEFINE max(x) == x.max
           current(x) == x.current
           all == Total(b, max)
           state == [ac |-> b = <<>> \/ \E i \in DOMAIN b : b[i].ac,
                     low |-> all # 0 /\ 40 > (100 * Total(b, current)) \div all]
           e == [what |-> "battery", state |-> state]
<1>1. /\ now' = now /\ hid' = hid /\ sysloadQ' = sysloadQ /\ mainQ' = Append(mainQ, e)
      /\ g' = g /\ Len(mainQ) < MaxQueue
  BY DEF SystemLoadBatteriesHaveChanged
<1>2. state \in BatterySet
  <2> HIDE DEF all
  <2>1. (b = <<>> \/ \E i \in DOMAIN b : b[i].ac) \in BOOLEAN
    OBVIOUS
  <2>2. (all # 0 /\ 40 > (100 * Total(b, current)) \div all) \in BOOLEAN
    OBVIOUS
  <2> QED BY <2>1, <2>2 DEF BatterySet
<1> HIDE DEF state
<1>3. e \in BlockSet /\ e.what = "battery"
  BY <1>2 DEF BlockSet
<1> HIDE DEF e
<1>4. mainQ' \in Seq(BlockSet) /\ Len(mainQ) \in Nat /\ Added(mainQ, e, mainQ')
  BY <1>1, <1>3, AddFact DEF IndInv, Rest
<1>5. Len(mainQ') <= MaxQueue
  BY <1>1, <1>4, ConstantsType DEF Added
<1>6. Rest'
  BY <1>1, <1>4, <1>5 DEF IndInv, Rest
<1>7. Waits(mainQ', "assertions") <=> Waits(mainQ, "assertions")
  BY <1>3, <1>4, AddedFact
<1>8. Heard(sysloadQ, mainQ', g.hidActive, hid) /\ Dated(mainQ', now)
  BY <1>3, <1>4, OtherAdded DEF IndInv
<1>9. IndInv'
  BY <1>1, <1>6, <1>7, <1>8 DEF IndInv
<1>10. Honest(g, g')
  <2>1. \A i, j \in 1..Len(g.clients) : g.clients[i].id = g.clients[j].id => i = j
    BY UniqueIds DEF IndInv, Whole, Good, GlobalSet
  <2> QED BY <1>1, <2>1 DEF Honest
<1> QED BY <1>9, <1>10

LEMMA BlockFrame ==
  ASSUME IndInv, mainQ # <<>>, mainQ' = Tail(mainQ), UNCHANGED <<now, hid, sysloadQ>>,
         changes' \in 0..MaxChanges, Whole(g', now), g'.idleTimeout = g.idleTimeout,
         Says(g) \/ Head(mainQ).what = "assertions" => Says(g'),
         g'.hidActive = IF Head(mainQ).what = "hid" THEN Head(mainQ).active ELSE g.hidActive
  PROVE  IndInv'
<1>1. now' = now /\ hid' = hid /\ sysloadQ' = sysloadQ
  OBVIOUS
<1>2. /\ mainQ' \in Seq(BlockSet) /\ Len(mainQ') \in Nat /\ Shifted(mainQ, mainQ')
      /\ Head(mainQ) = mainQ[1]
  BY ShiftFact DEF IndInv, Rest
<1>3. Len(mainQ) \in Nat /\ Len(mainQ) <= MaxQueue
  BY LenProperties DEF IndInv, Rest
<1>4. Len(mainQ') <= MaxQueue
  BY <1>2, <1>3, ConstantsType DEF Shifted
<1>5. Rest'
  BY <1>1, <1>2, <1>4 DEF IndInv, Rest
<1>6. ~Waits(mainQ', "assertions") => Says(g')
  BY <1>2, ShiftedFact DEF IndInv
<1>7. Dated(mainQ', now)
  <2>1. \A i \in 1..Len(mainQ') : i + 1 \in 1..Len(mainQ) /\ mainQ'[i] = mainQ[i + 1]
    BY <1>2 DEF Shifted
  <2> QED BY <2>1 DEF IndInv, Dated
<1>8. Heard(sysloadQ, mainQ', g'.hidActive, hid)
  <2> SUFFICES ASSUME ~Has(sysloadQ, "callback")
               PROVE  /\ ~Waits(mainQ', "hid") => g'.hidActive = hid.active
                      /\ \A i \in 1..Len(mainQ') :
                           LastHid(mainQ', i) => mainQ'[i].active = hid.active
    BY DEF Heard
  <2>1. /\ ~Waits(mainQ, "hid") => g.hidActive = hid.active
        /\ \A i \in 1..Len(mainQ) : LastHid(mainQ, i) => mainQ[i].active = hid.active
    BY DEF IndInv, Heard
  <2>2. ASSUME NEW i \in 1..Len(mainQ'), LastHid(mainQ', i)
        PROVE  mainQ'[i].active = hid.active
    <3>1. i + 1 \in 1..Len(mainQ) /\ LastHid(mainQ, i + 1) /\ mainQ'[i] = mainQ[i + 1]
      BY <1>2, <2>2, LastShifted
    <3>2. mainQ[i + 1].active = hid.active
      BY <2>1, <3>1
    <3> QED BY <3>1, <3>2
  <2>3. ASSUME ~Waits(mainQ', "hid")
        PROVE  g'.hidActive = hid.active
    <3>1. CASE Head(mainQ).what = "hid"
      <4>1. 1 \in 1..Len(mainQ) /\ LastHid(mainQ, 1)
        BY <1>2, <2>3, <3>1, LastShifted
      <4> QED BY <1>2, <2>1, <3>1, <4>1
    <3>2. CASE Head(mainQ).what # "hid"
      <4>1. ~Waits(mainQ, "hid")
        BY <1>2, <2>3, <3>2, ShiftedFact
      <4> QED BY <2>1, <3>2, <4>1
    <3> QED BY <3>1, <3>2
  <2> QED BY <2>2, <2>3
<1>9. /\ ~hid'.active => hid'.last < now'
      /\ hid'.threshold = g'.idleTimeout \/ Has(sysloadQ', "threshold")
  BY <1>1 DEF IndInv
<1>10. Whole(g', now') /\ Dated(mainQ', now') /\ Heard(sysloadQ', mainQ', g'.hidActive, hid')
  BY <1>1, <1>7, <1>8
<1> QED BY <1>5, <1>6, <1>9, <1>10 DEF IndInv

LEMMA BlockStep ==
  ASSUME IndInv, RunBlock, changes' \in 0..MaxChanges
  PROVE  IndInv' /\ Honest(g, g')
<1> DEFINE m == Head(mainQ)
<1>1. mainQ # <<>> /\ mainQ' = Tail(mainQ) /\ UNCHANGED <<now, hid, sysloadQ>>
  BY DEF RunBlock
<1>2. m \in BlockSet /\ m = mainQ[1] /\ 1 \in 1..Len(mainQ)
  BY <1>1, ShiftFact DEF IndInv, Rest, Shifted
<1>3. /\ now \in Nat /\ now <= MaxTime /\ g \in GlobalSet /\ Good(g, now) /\ Sound(g, now)
      /\ Shared(g)
  BY NowFact DEF IndInv, Whole, Good
<1> HIDE DEF m
<1>4. CASE m.what = "assertions" /\ g' = updateUserActivityLevels(g)
  <2>1. /\ Good(g', now) /\ Sound(g', now) /\ Honest(g, g') /\ Shared(g')
        /\ g'.posted = Levels(g') /\ Kept(g, g')
    BY <1>3, <1>4, UpdateFine
  <2>2. Whole(g', now) /\ Says(g')
    BY <2>1 DEF Whole, Says
  <2>3. Head(mainQ).what # "hid"
    BY <1>4 DEF m
  <2>4. g'.hidActive = g.hidActive /\ g'.idleTimeout = g.idleTimeout
    BY <2>1 DEF Kept
  <2>5. IndInv'
    BY <1>1, <2>2, <2>3, <2>4, BlockFrame
  <2> QED BY <2>1, <2>5
<1>5. CASE m.what = "battery" /\ g' = shareTheSystemLoad([g EXCEPT !.battery = m.state])
  <2> DEFINE x == [g EXCEPT !.battery = m.state]
  <2>1. m.state \in BatterySet
    BY <1>2, <1>5 DEF BlockSet
  <2>2. /\ x \in GlobalSet /\ SameCore(g, x) /\ x.unsaid = g.unsaid
        /\ x.asserted = g.asserted /\ x.notification = g.notification
        /\ x.displaySleep = g.displaySleep /\ x.wake = g.wake
    BY <1>3, <2>1 DEF GlobalSet, SameCore
  <2>3. g' = shareTheSystemLoad(x)
    BY <1>5
  <2> HIDE DEF x
  <2>4. Says(g) => Says(x)
    BY <2>2, SameSaid DEF SameCore
  <2>5. Handled
    BY <2>2, <2>3, <2>4, ShareStep
  <2>6. Head(mainQ).what # "hid" /\ Head(mainQ).what # "assertions"
    BY <1>5 DEF m
  <2>7. /\ Whole(g', now) /\ Honest(g, g') /\ g'.idleTimeout = g.idleTimeout
        /\ (Says(g) => Says(g')) /\ g'.hidActive = g.hidActive
    BY <2>5 DEF Handled
  <2>8. IndInv'
    BY <1>1, <2>6, <2>7, BlockFrame
  <2> QED BY <2>7, <2>8
<1>6. CASE /\ m.what = "hid"
           /\ g' = evaluateHidIdleNotification([g EXCEPT !.hidActive = m.active, !.lastHid = m.ts])
  <2> DEFINE x == [g EXCEPT !.hidActive = m.active, !.lastHid = m.ts]
  <2>1. m.active \in BOOLEAN /\ m.ts \in Nat
    BY <1>2, <1>6 DEF BlockSet
  <2>2. m.ts <= now /\ (~m.active => m.ts < now)
    BY <1>2, <1>6 DEF IndInv, Dated
  <2>3. /\ x \in GlobalSet /\ x.clients = g.clients /\ x.idleTimeout = g.idleTimeout
        /\ x.lastHid = m.ts /\ x.hidActive = m.active
        /\ x.lastAssertion = g.lastAssertion /\ x.assertionTimer = g.assertionTimer
        /\ x.assertionValid = g.assertionValid
        /\ x.loggedIn = g.loggedIn /\ x.displayOff = g.displayOff /\ x.dwbt = g.dwbt
        /\ x.wake = g.wake /\ x.battery = g.battery /\ x.cpu = g.cpu
        /\ x.pressure = g.pressure /\ x.load = g.load /\ x.unshared = g.unshared
    BY <1>3, <2>1 DEF GlobalSet
  <2>4. g' = evaluateHidIdleNotification(x)
    BY <1>6
  <2> HIDE DEF x
  <2>5. Past(x, now) /\ Fresh(x, now)
    BY <1>3, <2>2, <2>3 DEF Good, Past, Fresh
  <2>6. Good(x, now) /\ Shared(x)
    BY <1>3, <2>3, <2>5, SameLoad DEF Good
  <2>7. Fine(x, g') /\ Kept(x, g')
    BY <1>3, <2>4, <2>6, EvaluatedFine
  <2>8. /\ Whole(g', now) /\ Honest(g, g') /\ Says(g') /\ g'.idleTimeout = g.idleTimeout
        /\ g'.hidActive = m.active
    BY <2>3, <2>6, <2>7, FrankHonest DEF Fine, Kept, Whole, Says
  <2>9. IndInv'
    BY <1>1, <1>6, <2>8, BlockFrame DEF m
  <2> QED BY <2>8, <2>9
<1>7. \/ m.what = "assertions" /\ g' = updateUserActivityLevels(g)
      \/ m.what = "battery" /\ g' = shareTheSystemLoad([g EXCEPT !.battery = m.state])
      \/ m.what = "hid"
           /\ g' = evaluateHidIdleNotification([g EXCEPT !.hidActive = m.active, !.lastHid = m.ts])
  BY DEF RunBlock, m
<1> QED BY <1>4, <1>5, <1>6, <1>7

\* A client comes, or comes back with another timeout.
LEMMA ComeStep ==
  ASSUME IndInv, NEW u, Good(u, now), Shared(u), u.hidActive = g.hidActive,
         NEW c \in Clients, c \notin Ids(u), NEW t \in Timeouts,
         g' = insertClient(u, c, t), ToldThreshold, changes' \in 0..MaxChanges
  PROVE  IndInv' /\ Honest(g, g')
<1>1. /\ now' = now /\ hid' = hid /\ mainQ' = mainQ
      /\ g'.idleTimeout # g.idleTimeout => Len(sysloadQ) < MaxQueue
      /\ sysloadQ' = IF g'.idleTimeout = g.idleTimeout THEN sysloadQ
                     ELSE Append(sysloadQ, "threshold")
  BY DEF ToldThreshold
<1>2. now \in Nat \ {0} /\ now <= MaxTime
  BY NowFact DEF IndInv
<1>3. Fine(u, g')
  BY <1>2, InsertFine
<1>4. Whole(g', now') /\ Honest(g, g') /\ Says(g') /\ g'.hidActive = g.hidActive
  BY <1>1, <1>3, FrankHonest DEF Fine, Whole, Says
<1>5. /\ sysloadQ' \in Seq({"threshold", "callback"}) /\ Len(sysloadQ') <= MaxQueue
      /\ Has(sysloadQ', "callback") <=> Has(sysloadQ, "callback")
      /\ hid.threshold = g'.idleTimeout \/ Has(sysloadQ', "threshold")
  <2>1. CASE g'.idleTimeout = g.idleTimeout
    BY <1>1, <2>1 DEF IndInv, Rest
  <2>2. CASE g'.idleTimeout # g.idleTimeout
    <3>1. sysloadQ' = Append(sysloadQ, "threshold") /\ Len(sysloadQ) < MaxQueue
      BY <1>1, <2>2
    <3>2. /\ sysloadQ' \in Seq({"threshold", "callback"}) /\ Len(sysloadQ) \in Nat
          /\ Added(sysloadQ, "threshold", sysloadQ')
      BY <3>1, AddFact DEF IndInv, Rest
    <3>3. Len(sysloadQ') <= MaxQueue
      BY <3>1, <3>2, ConstantsType DEF Added
    <3>4. \A b : Has(sysloadQ', b) <=> Has(sysloadQ, b) \/ "threshold" = b
      BY <3>2, AddedFact
    <3> QED BY <3>2, <3>3, <3>4
  <2> QED BY <2>1, <2>2
<1>6. Rest'
  BY <1>1, <1>5 DEF IndInv, Rest
<1>7. Heard(sysloadQ', mainQ', g'.hidActive, hid')
  BY <1>1, <1>4, <1>5 DEF IndInv, Heard
<1>8. /\ ~hid'.active => hid'.last < now'
      /\ hid'.threshold = g'.idleTimeout \/ Has(sysloadQ', "threshold")
      /\ Dated(mainQ', now')
  BY <1>1, <1>5 DEF IndInv
<1> QED BY <1>4, <1>6, <1>7, <1>8 DEF IndInv

LEMMA RegisterStep ==
  ASSUME IndInv, NEW c \in Clients, NEW t \in Timeouts,
         registerUserActivityClient(c, t) \/ updateUserActivityTimeout(c, t),
         changes' \in 0..MaxChanges
  PROVE  IndInv' /\ Honest(g, g')
<1>1. Good(g, now) /\ Shared(g)
  BY DEF IndInv, Whole
<1>2. CASE registerUserActivityClient(c, t)
  BY <1>1, <1>2, ComeStep DEF registerUserActivityClient
<1>3. CASE updateUserActivityTimeout(c, t)
  <2> DEFINE u == Without(g, c)
  <2>1. c \in Ids(g) /\ g' = insertClient(u, c, t) /\ ToldThreshold
    BY <1>3 DEF updateUserActivityTimeout
  <2>2. Good(u, now) /\ Shared(u) /\ c \notin Ids(u) /\ Kept(g, u)
    BY <1>1, <2>1, WithoutFine
  <2> HIDE DEF u
  <2>3. u.hidActive = g.hidActive
    BY <2>2 DEF Kept
  <2> QED BY <2>1, <2>2, <2>3, ComeStep
<1> QED BY <1>2, <1>3

\* HID and its queue leave the globals alone.
LEMMA SameHonest ==
  ASSUME IndInv, g' = g
  PROVE  Honest(g, g')
<1>1. \A i, j \in 1..Len(g.clients) : g.clients[i].id = g.clients[j].id => i = j
  BY UniqueIds DEF IndInv, Whole, Good, GlobalSet
<1> QED BY <1>1 DEF Honest

LEMMA CallbackAdded ==
  ASSUME IndInv, sysloadQ' = Append(sysloadQ, "callback"), Len(sysloadQ) < MaxQueue
  PROVE  /\ sysloadQ' \in Seq({"threshold", "callback"}) /\ Len(sysloadQ') <= MaxQueue
         /\ Has(sysloadQ', "callback")
         /\ Has(sysloadQ, "threshold") => Has(sysloadQ', "threshold")
<1>1. /\ sysloadQ' \in Seq({"threshold", "callback"}) /\ Len(sysloadQ) \in Nat
      /\ Added(sysloadQ, "callback", sysloadQ')
  BY AddFact DEF IndInv, Rest
<1>2. Len(sysloadQ') <= MaxQueue
  BY <1>1, ConstantsType DEF Added
<1>3. \A b : Has(sysloadQ', b) <=> Has(sysloadQ, b) \/ "callback" = b
  BY <1>1, AddedFact
<1> QED BY <1>1, <1>2, <1>3

LEMMA EventStep ==
  ASSUME IndInv, HidEvent, changes' \in 0..MaxChanges
  PROVE  IndInv' /\ Honest(g, g')
<1>1. /\ now' = now /\ g' = g /\ mainQ' = mainQ
      /\ hid' = [hid EXCEPT !.active = TRUE, !.last = now]
      /\ sysloadQ' = IF hid.active THEN sysloadQ ELSE Append(sysloadQ, "callback")
      /\ hid.active \/ Len(sysloadQ) < MaxQueue
  BY DEF HidEvent
<1>2. hid \in HidSet /\ now \in Nat \ {0}
  BY NowFact DEF IndInv, Rest
<1>3. /\ hid' \in HidSet /\ hid'.last = now /\ hid'.active = TRUE
      /\ hid'.threshold = hid.threshold
  BY <1>1, <1>2 DEF HidSet
<1>4. /\ sysloadQ' \in Seq({"threshold", "callback"}) /\ Len(sysloadQ') <= MaxQueue
      /\ Has(sysloadQ, "threshold") => Has(sysloadQ', "threshold")
      /\ Heard(sysloadQ', mainQ', g'.hidActive, hid')
  <2>1. CASE hid.active
    <3>1. sysloadQ' = sysloadQ /\ hid'.active = hid.active
      BY <1>1, <1>2, <1>3, <2>1 DEF HidSet
    <3>2. Heard(sysloadQ', mainQ', g'.hidActive, hid')
      BY <1>1, <3>1 DEF IndInv, Heard
    <3> QED BY <3>1, <3>2 DEF IndInv, Rest
  <2>2. CASE ~hid.active
    <3>1. /\ sysloadQ' \in Seq({"threshold", "callback"}) /\ Len(sysloadQ') <= MaxQueue
          /\ Has(sysloadQ', "callback")
          /\ Has(sysloadQ, "threshold") => Has(sysloadQ', "threshold")
      BY <1>1, <2>2, CallbackAdded
    <3> QED BY <3>1 DEF Heard
  <2> QED BY <2>1, <2>2
<1>5. Rest'
  BY <1>1, <1>2, <1>3, <1>4 DEF IndInv, Rest
<1>6. hid'.threshold = g'.idleTimeout \/ Has(sysloadQ', "threshold")
  BY <1>1, <1>3, <1>4 DEF IndInv
<1>7. Whole(g', now') /\ Dated(mainQ', now') /\ (~Waits(mainQ', "assertions") => Says(g'))
  BY <1>1 DEF IndInv
<1>8. IndInv'
  BY <1>3, <1>4, <1>5, <1>6, <1>7 DEF IndInv
<1> QED BY <1>1, <1>8, SameHonest

LEMMA IdleStep ==
  ASSUME IndInv, HidIdle, changes' \in 0..MaxChanges
  PROVE  IndInv' /\ Honest(g, g')
<1>1. /\ now' = now /\ g' = g /\ mainQ' = mainQ
      /\ hid' = [hid EXCEPT !.active = FALSE] /\ now - hid.last >= hid.threshold
      /\ sysloadQ' = Append(sysloadQ, "callback") /\ Len(sysloadQ) < MaxQueue
  BY DEF HidIdle
<1>2. hid \in HidSet /\ now \in Nat \ {0}
  BY NowFact DEF IndInv, Rest
<1>3. /\ hid' \in HidSet /\ hid'.last = hid.last /\ hid'.threshold = hid.threshold
      /\ hid'.last < now
  <2>1. hid' \in HidSet /\ hid'.last = hid.last /\ hid'.threshold = hid.threshold
    BY <1>1, <1>2 DEF HidSet
  <2>2. hid.last \in Nat /\ hid.threshold \in Nat \ {0}
    BY <1>2 DEF HidSet
  <2>3. hid.last < now
    BY <1>1, <1>2, <2>2
  <2> QED BY <2>1, <2>3
<1>4. /\ sysloadQ' \in Seq({"threshold", "callback"}) /\ Len(sysloadQ') <= MaxQueue
      /\ Has(sysloadQ', "callback")
      /\ Has(sysloadQ, "threshold") => Has(sysloadQ', "threshold")
  BY <1>1, CallbackAdded
<1>5. Rest'
  BY <1>1, <1>2, <1>3, <1>4 DEF IndInv, Rest
<1>6. /\ hid'.threshold = g'.idleTimeout \/ Has(sysloadQ', "threshold")
      /\ Heard(sysloadQ', mainQ', g'.hidActive, hid')
  BY <1>1, <1>3, <1>4 DEF IndInv, Heard
<1>7. Whole(g', now') /\ Dated(mainQ', now') /\ (~Waits(mainQ', "assertions") => Says(g'))
  BY <1>1 DEF IndInv
<1>8. IndInv'
  BY <1>1, <1>3, <1>5, <1>6, <1>7 DEF IndInv
<1> QED BY <1>1, <1>8, SameHonest

LEMMA SysloadStep ==
  ASSUME IndInv, RunSysload, changes' \in 0..MaxChanges
  PROVE  IndInv' /\ Honest(g, g')
<1>1. sysloadQ # <<>> /\ sysloadQ' = Tail(sysloadQ) /\ now' = now /\ g' = g
  BY DEF RunSysload
<1>2. /\ sysloadQ' \in Seq({"threshold", "callback"}) /\ Len(sysloadQ') \in Nat
      /\ Shifted(sysloadQ, sysloadQ') /\ Head(sysloadQ) = sysloadQ[1]
  BY <1>1, ShiftFact DEF IndInv, Rest
<1>3. Len(sysloadQ) \in Nat /\ Len(sysloadQ) <= MaxQueue
  BY LenProperties DEF IndInv, Rest
<1>4. Len(sysloadQ') <= MaxQueue
  BY <1>2, <1>3, ConstantsType DEF Shifted
<1>5. \A b : Has(sysloadQ, b) <=> Head(sysloadQ) = b \/ Has(sysloadQ', b)
  BY <1>2, ShiftedFact
<1>6. /\ hid \in HidSet /\ hid.last <= now /\ now \in Nat \ {0} /\ Whole(g, now)
      /\ g.idleTimeout \in Nat \ {0}
  BY NowFact DEF IndInv, Rest, Whole, Good, GlobalSet
<1>7. CASE /\ Head(sysloadQ) = "threshold"
           /\ hid' = [hid EXCEPT !.threshold = g.idleTimeout] /\ mainQ' = mainQ
  <2>1. /\ hid' \in HidSet /\ hid'.last = hid.last /\ hid'.active = hid.active
        /\ hid'.threshold = g.idleTimeout
    BY <1>6, <1>7 DEF HidSet
  <2>2. Rest'
    BY <1>1, <1>2, <1>4, <1>6, <1>7, <2>1 DEF IndInv, Rest
  <2>3. Has(sysloadQ, "callback") <=> Has(sysloadQ', "callback")
    BY <1>5, <1>7
  <2>4. Heard(sysloadQ', mainQ', g'.hidActive, hid')
    BY <1>1, <1>7, <2>1, <2>3 DEF IndInv, Heard
  <2>5. /\ ~hid'.active => hid'.last < now'
        /\ Whole(g', now') /\ Dated(mainQ', now') /\ (~Waits(mainQ', "assertions") => Says(g'))
    BY <1>1, <1>7, <2>1 DEF IndInv
  <2>6. IndInv'
    BY <1>1, <2>1, <2>2, <2>4, <2>5 DEF IndInv
  <2> QED BY <1>1, <2>6, SameHonest
<1>8. CASE /\ Head(sysloadQ) = "callback" /\ Len(mainQ) < MaxQueue /\ hid' = hid
           /\ mainQ' = Append(mainQ, [what |-> "hid", active |-> hid.active,
                                      ts |-> IF hid.active THEN now ELSE hid.last])
  <2> DEFINE e == [what |-> "hid", active |-> hid.active,
                   ts |-> IF hid.active THEN now ELSE hid.last]
  <2>1. /\ e \in BlockSet /\ e.what = "hid" /\ e.active = hid.active
        /\ e.ts = IF hid.active THEN now ELSE hid.last
    BY <1>6 DEF BlockSet, HidSet
  <2>2. mainQ' = Append(mainQ, e)
    BY <1>8
  <2> HIDE DEF e
  <2>3. mainQ' \in Seq(BlockSet) /\ Len(mainQ) \in Nat /\ Added(mainQ, e, mainQ')
    BY <2>1, <2>2, AddFact DEF IndInv, Rest
  <2>4. Len(mainQ') <= MaxQueue
    BY <1>8, <2>3, ConstantsType DEF Added
  <2>5. Rest'
    BY <1>1, <1>2, <1>4, <1>8, <2>3, <2>4 DEF IndInv, Rest
  <2>6. \A what : Waits(mainQ', what) <=> Waits(mainQ, what) \/ e.what = what
    BY <2>3, AddedFact
  <2>7. ~Waits(mainQ', "assertions") => Says(g')
    BY <1>1, <2>6 DEF IndInv
  <2>8. Heard(sysloadQ', mainQ', g'.hidActive, hid')
    <3>1. Waits(mainQ', "hid")
      BY <2>1, <2>6
    <3>2. ASSUME NEW i \in 1..Len(mainQ'), LastHid(mainQ', i)
          PROVE  mainQ'[i] = e
      BY <2>1, <2>3, <3>2, LastAdded
    <3> QED BY <1>8, <2>1, <3>1, <3>2 DEF Heard
  <2>9. Dated(mainQ', now)
    <3>1. e.ts <= now /\ (~e.active => e.ts < now)
      BY <1>6, <2>1 DEF IndInv, HidSet
    <3>2. \A i \in 1..Len(mainQ') : mainQ'[i] = e \/ (i \in 1..Len(mainQ) /\ mainQ'[i] = mainQ[i])
      <4> SUFFICES ASSUME NEW i \in 1..Len(mainQ'), i # Len(mainQ) + 1
                   PROVE  i \in 1..Len(mainQ) /\ mainQ'[i] = mainQ[i]
        BY <2>3 DEF Added
      <4>1. i \in 1..Len(mainQ)
        BY <2>3 DEF Added
      <4> QED BY <2>3, <4>1 DEF Added
    <3> QED BY <3>1, <3>2 DEF IndInv, Dated
  <2>10. Has(sysloadQ, "threshold") <=> Has(sysloadQ', "threshold")
    BY <1>5, <1>8
  <2>11. /\ ~hid'.active => hid'.last < now'
         /\ hid'.threshold = g'.idleTimeout \/ Has(sysloadQ', "threshold")
         /\ Whole(g', now')
    BY <1>1, <1>8, <2>10 DEF IndInv
  <2>12. IndInv'
    BY <1>1, <2>5, <2>7, <2>8, <2>9, <2>11 DEF IndInv
  <2> QED BY <1>1, <2>12, SameHonest
<1> QED BY <1>7, <1>8 DEF RunSysload

\* Time passes, and the time without activity grows with it.
LEMMA DurGrows ==
  ASSUME NEW u \in GlobalSet, NEW t \in Nat, t + 1 <= MaxTime, Past(u, t)
  PROVE  /\ DurAt(u, t) \in Nat /\ DurAt(u, t + 1) \in Nat
         /\ DurAt(u, t) <= DurAt(u, t + 1)
<1>1. Past(u, t + 1) /\ t <= MaxTime
  BY ConstantsType DEF Past, GlobalSet
<1>2. DurAt(u, t) \in Nat /\ DurAt(u, t + 1) \in Nat
  BY <1>1, ConstantsType, DurFact
<1>3. /\ u.lastHid \in Nat /\ u.lastAssertion \in Nat /\ Forever \in Nat
  BY ConstantsType DEF GlobalSet
<1> DEFINE a(s) == IF ~u.rootDomain THEN Forever ELSE IF u.hidActive THEN 0 ELSE s - u.lastHid
           b(s) == IF u.assertionValid THEN s - u.lastAssertion ELSE Forever
<1>4. a(t) <= a(t + 1) /\ b(t) <= b(t + 1) /\ {a(t), a(t + 1), b(t), b(t + 1)} \subseteq Int
  BY <1>3
<1>5. /\ DurAt(u, t) = IF a(t) < b(t) THEN a(t) ELSE b(t)
      /\ DurAt(u, t + 1) = IF a(t + 1) < b(t + 1) THEN a(t + 1) ELSE b(t + 1)
  BY DEF DurAt, Smaller
<1> HIDE DEF a, b
<1> QED BY <1>2, <1>4, <1>5

LEMMA TickStep ==
  ASSUME IndInv, Tick, changes' \in 0..MaxChanges
  PROVE  IndInv' /\ Honest(g, g')
<1>1. /\ now < MaxTime /\ now' = now + 1 /\ g' = g /\ hid' = hid /\ sysloadQ' = sysloadQ
      /\ mainQ' = mainQ
  BY DEF Tick
<1>2. /\ now \in Nat \ {0} /\ g \in GlobalSet /\ Good(g, now) /\ Sound(g, now) /\ Shared(g)
      /\ Past(g, now) /\ MaxTime \in Nat
  BY NowFact, ConstantsType DEF IndInv, Whole, Good
<1>3. /\ g.lastHid \in Nat /\ g.lastAssertion \in Nat /\ g.clients \in Seq(ClientSet)
  BY <1>2 DEF GlobalSet
<1>4. /\ DurAt(g, now) \in Nat /\ DurAt(g, now + 1) \in Nat
      /\ DurAt(g, now) <= DurAt(g, now + 1)
  BY <1>1, <1>2, DurGrows
<1>5. Past(g, now + 1) /\ Fresh(g, now + 1)
  BY <1>2, <1>3 DEF Past, Fresh
<1>6. Active(g, now + 1)
  BY <1>2, <1>4, ConstantsType DEF Sound, Active
<1>7. Watched(g, now + 1)
  <2>1. \A i \in 1..Len(g.clients) : g.clients[i].timeout \in Nat
    BY <1>3, ListType
  <2>2. \A i \in 1..Len(g.clients) :
          DurAt(g, now + 1) < g.clients[i].timeout => DurAt(g, now) < g.clients[i].timeout
    BY <1>4, <2>1
  <2> QED BY <1>2, <2>2 DEF Sound, Watched
<1>8. Whole(g, now + 1)
  BY <1>2, <1>5, <1>6, <1>7 DEF Whole, Good, Sound
<1>9. Rest'
  <2>1. hid.last \in Nat /\ hid.last <= now
    BY DEF IndInv, Rest, HidSet
  <2>2. now' \in 1..MaxTime /\ hid.last <= now'
    BY <1>1, <1>2, <2>1
  <2> QED BY <1>1, <2>2 DEF IndInv, Rest
<1>10. Dated(mainQ, now + 1)
  <2> SUFFICES ASSUME NEW i \in 1..Len(mainQ), mainQ[i].what = "hid"
               PROVE  mainQ[i].ts <= now + 1 /\ (~mainQ[i].active => mainQ[i].ts < now + 1)
    BY DEF Dated
  <2>1. mainQ[i] \in BlockSet
    BY ElementOfSeq DEF IndInv, Rest
  <2>2. mainQ[i].ts \in Nat
    BY <2>1 DEF BlockSet
  <2>3. mainQ[i].ts <= now
    BY DEF IndInv, Dated
  <2> QED BY <1>2, <2>2, <2>3
<1>11. ~hid.active => hid.last < now + 1
  BY <1>2 DEF IndInv, Rest, HidSet
<1>12. Whole(g', now') /\ Dated(mainQ', now') /\ (~hid'.active => hid'.last < now')
  BY <1>1, <1>8, <1>10, <1>11
<1>13. /\ ~Waits(mainQ', "assertions") => Says(g')
       /\ Heard(sysloadQ', mainQ', g'.hidActive, hid')
       /\ hid'.threshold = g'.idleTimeout \/ Has(sysloadQ', "threshold")
  BY <1>1 DEF IndInv
<1>14. IndInv'
  BY <1>9, <1>12, <1>13 DEF IndInv
<1> QED BY <1>1, <1>14, SameHonest

-----------------------------------------------------------------------------
(* The invariant holds at first and in every step.                          *)

LEMMA InitInv ==
  ASSUME Init
  PROVE  IndInv
<1>1. PICK off \in BOOLEAN : g = Globals(off)
  BY DEF Init
<1>2. /\ now = 1 /\ mainQ = <<>> /\ changes = 0 /\ sysloadQ = <<"callback">>
      /\ hid = [active |-> TRUE, last |-> 1, threshold |-> Default]
  BY DEF Init, registerForHidActivity
<1>3. Default \in Nat \ {0} /\ MaxTime \in Nat \ {0} /\ MaxQueue \in Nat \ {0}
      /\ MaxChanges \in Nat
  BY ConstantsType
<1>4. g \in GlobalSet
  <2>1. [user |-> 3, battery |-> 3, power |-> 3, combined |-> 3] \in LoadSet
    BY DEF LoadSet, Advice
  <2>2. {"active"} \in LevelSet /\ <<>> \in Seq(ClientSet) /\ {} \in SUBSET Kinds
    BY EmptySeq DEF LevelSet
  <2>3. [thermal |-> FALSE, constrained |-> FALSE, plimit |-> FALSE] \in CpuSet
        /\ [ac |-> TRUE, low |-> FALSE] \in BatterySet
    BY DEF CpuSet, BatterySet
  <2>4. "full" \in Wakes /\ "none" \in PressureSet
    BY DEF Wakes, PressureSet
  <2> QED BY <1>1, <1>3, <2>1, <2>2, <2>3, <2>4 DEF Globals, GlobalSet, NoDate
<1>5. /\ g.clients = <<>> /\ g.hidActive = TRUE /\ g.lastHid = 1 /\ g.lastAssertion = 0
      /\ g.assertionValid = FALSE /\ g.userActive = TRUE /\ g.posted = {"active"}
      /\ g.unsaid = off /\ g.unshared = off /\ g.idleTimeout = Default /\ g.displayOff = off
      /\ g.asserted = {} /\ g.oneness = FALSE /\ g.loggedIn = FALSE /\ g.pressure = "none"
      /\ g.battery = [ac |-> TRUE, low |-> FALSE]
      /\ g.cpu = [thermal |-> FALSE, constrained |-> FALSE, plimit |-> FALSE]
      /\ g.load = [user |-> 3, battery |-> 3, power |-> 3, combined |-> 3]
  BY <1>1 DEF Globals
<1>6. Len(g.clients) = 0 /\ Len(mainQ) = 0
  BY <1>2, <1>5
<1>7. Good(g, now)
  BY <1>2, <1>4, <1>5, <1>6 DEF Good, Listed, Past, Fresh
<1>8. Sound(g, now)
  BY <1>5, <1>6 DEF Sound, Active, Watched, Told, Shown
<1>9. Load(g) = g.load
  <2>1. UserLevel(g) = 3
    BY <1>5 DEF UserLevel
  <2>2. BatteryLevel(g) = 3
    BY <1>5 DEF BatteryLevel
  <2>3. PowerLevel(g) = 3
    BY <1>5 DEF PowerLevel
  <2> QED BY <1>5, <2>1, <2>2, <2>3 DEF Load, minOfThree, Smaller
<1>10. Shared(g)
  BY <1>9 DEF Shared
<1>11. Says(g)
  <2> SUFFICES ASSUME off = FALSE
               PROVE  g.posted = Levels(g)
    BY <1>5 DEF Says
  <2>1. (~g.displayOff /\ g.userActive) \/ g.oneness
    BY <1>5
  <2> QED BY <1>5, <2>1 DEF Levels
<1>12. Rest
  <2>1. sysloadQ \in Seq({"threshold", "callback"}) /\ Len(sysloadQ) = 1
    BY <1>2
  <2>2. mainQ \in Seq(BlockSet)
    BY <1>2, EmptySeq
  <2>3. hid \in HidSet /\ hid.last <= now
    BY <1>2, <1>3 DEF HidSet
  <2>4. now \in 1..MaxTime /\ changes \in 0..MaxChanges
    BY <1>2, <1>3
  <2> QED BY <1>3, <1>6, <2>1, <2>2, <2>3, <2>4 DEF Rest
<1>13. Dated(mainQ, now) /\ ~Waits(mainQ, "assertions")
  BY <1>6 DEF Dated, Waits
<1>14. Has(sysloadQ, "callback")
  BY <1>2 DEF Has
<1>15. Heard(sysloadQ, mainQ, g.hidActive, hid)
  BY <1>14 DEF Heard
<1>16. hid.threshold = g.idleTimeout /\ hid.active = TRUE
  BY <1>2, <1>5
<1> QED BY <1>7, <1>8, <1>10, <1>11, <1>12, <1>13, <1>15, <1>16 DEF IndInv, Whole

LEMMA InputStep ==
  ASSUME IndInv, Inputs, changes' \in 0..MaxChanges
  PROVE  IndInv' /\ Honest(g, g')
<1>1. ASSUME NEW on \in BOOLEAN, SystemLoadOnenessStateHasChanged(on)
      PROVE  IndInv' /\ Honest(g, g')
  BY <1>1, OnenessStep, HandledStep DEF SystemLoadOnenessStateHasChanged
<1>2. ASSUME NEW on \in BOOLEAN, SystemLoadUserStateHasChanged(on)
      PROVE  IndInv' /\ Honest(g, g')
  BY <1>2, InputsShared, HandledStep DEF SystemLoadUserStateHasChanged
<1>3. ASSUME NEW on \in BOOLEAN, NEW k \in Kinds, AssertionsChanged(k, on)
      PROVE  IndInv' /\ Honest(g, g')
  BY <1>3, AssertionsStep, HandledStep DEF AssertionsChanged
<1>4. ASSUME NEW on \in BOOLEAN, NEW k \in Kinds, ResourcesChanged(k, on)
      PROVE  IndInv' /\ Honest(g, g')
  BY <1>4, ResourcesStep
<1>5. ASSUME NEW on \in BOOLEAN, NEW d \in BOOLEAN, SystemLoadPrefsHaveChanged(on, d)
      PROVE  IndInv' /\ Honest(g, g')
  BY <1>5, InputsShared, HandledStep DEF SystemLoadPrefsHaveChanged
<1>6. ASSUME NEW w \in {"full", "dark", "bt"}, PowerStateHasChanged(w)
      PROVE  IndInv' /\ Honest(g, g')
  BY <1>6, InputsShared, HandledStep DEF PowerStateHasChanged, Wakes
<1>7. ASSUME NEW c \in CpuStates, NEW r \in BOOLEAN, SystemLoadCPUPowerHasChanged(c, r)
      PROVE  IndInv' /\ Honest(g, g')
  BY <1>7, CpuStep, HandledStep DEF SystemLoadCPUPowerHasChanged
<1>8. ASSUME NEW p \in Pressures, ThermalPressure(p)
      PROVE  IndInv' /\ Honest(g, g')
  BY <1>8, InputsShared, HandledStep DEF ThermalPressure
<1>9. ASSUME NEW b \in Readings, SystemLoadBatteriesHaveChanged(b)
      PROVE  IndInv' /\ Honest(g, g')
  BY <1>9, BatteriesStep
<1>10. ASSUME NEW c \in Clients, deRegisterUserActivityClient(c)
       PROVE  IndInv' /\ Honest(g, g')
  BY <1>10, LeaveStep, HandledStep DEF deRegisterUserActivityClient
<1>11. ASSUME NEW c \in Clients, NEW t \in Timeouts,
              registerUserActivityClient(c, t) \/ updateUserActivityTimeout(c, t)
       PROVE  IndInv' /\ Honest(g, g')
  BY <1>11, RegisterStep
<1> QED BY <1>1, <1>2, <1>3, <1>4, <1>5, <1>6, <1>7, <1>8, <1>9, <1>10, <1>11 DEF Inputs

LEMMA StepsStep ==
  ASSUME IndInv, Steps, changes' \in 0..MaxChanges
  PROVE  IndInv' /\ Honest(g, g')
<1>1. ASSUME NEW off \in BOOLEAN, SystemLoadDisplayPowerStateHasChanged(off)
      PROVE  IndInv' /\ Honest(g, g')
  BY <1>1, DisplayStep, HandledStep DEF SystemLoadDisplayPowerStateHasChanged
<1>2. CASE sendActivityTickle
  BY <1>2, TickleStep, HandledStep DEF sendActivityTickle
<1>3. CASE userActiveHandlePowerAssertionsChanged
  BY <1>3, UserAssertionsStep, HandledStep DEF userActiveHandlePowerAssertionsChanged
<1>4. CASE userActiveHandleSleep
  BY <1>4, SleepStep, HandledStep DEF userActiveHandleSleep
<1>5. CASE RunBlock
  BY <1>5, BlockStep
<1>6. CASE HidIdleEval
  BY <1>6, HidTimerStep, HandledStep DEF HidIdleEval
<1>7. CASE AssertionEval
  BY <1>7, AssertionTimerStep, HandledStep DEF AssertionEval
<1>8. CASE HidEvent
  BY <1>8, EventStep
<1>9. CASE HidIdle
  BY <1>9, IdleStep
<1>10. CASE RunSysload
  BY <1>10, SysloadStep
<1>11. CASE Tick
  BY <1>11, TickStep
<1> QED BY <1>1, <1>2, <1>3, <1>4, <1>5, <1>6, <1>7, <1>8, <1>9, <1>10, <1>11 DEF Steps

LEMMA NextInv ==
  ASSUME IndInv, [Next]_vars
  PROVE  IndInv' /\ Honest(g, g')
<1>1. changes \in 0..MaxChanges /\ MaxChanges \in Nat
  BY ConstantsType DEF IndInv, Rest
<1>2. CASE Inputs /\ changes < MaxChanges /\ changes' = changes + 1
  <2>1. changes' \in 0..MaxChanges
    BY <1>1, <1>2
  <2> QED BY <1>2, <2>1, InputStep
<1>3. CASE Steps /\ UNCHANGED changes
  BY <1>1, <1>3, StepsStep
<1>4. CASE UNCHANGED vars
  <2>1. IndInv'
    BY <1>4 DEF vars, IndInv, Rest
  <2>2. g' = g
    BY <1>4 DEF vars
  <2> QED BY <2>1, <2>2, SameHonest
<1> QED BY <1>2, <1>3, <1>4 DEF Next

LEMMA Invariance == Spec => []IndInv
<1>1. Init => IndInv
  BY InitInv
<1>2. IndInv /\ [Next]_vars => IndInv'
  BY NextInv
<1> QED BY <1>1, <1>2, PTL DEF Spec

-----------------------------------------------------------------------------
(* What it says of the properties.                                          *)

LEMMA GlobalsType ==
  ASSUME IndInv
  PROVE  /\ g \in GlobalSet /\ g.clients \in Seq(ClientSet)
         /\ DOMAIN g.clients = 1..Len(g.clients) /\ Len(g.clients) \in Nat
         /\ Listed(g.clients, g.idleTimeout)
<1>1. g \in GlobalSet /\ Listed(g.clients, g.idleTimeout)
  BY DEF IndInv, Whole, Good
<1>2. g.clients \in Seq(ClientSet)
  BY <1>1 DEF GlobalSet
<1> QED BY <1>1, <1>2, LenProperties

LEMMA DeadlineFact ==
  ASSUME IndInv, NEW t \in Nat
  PROVE  /\ Deadline(t) \in Nat /\ g.lastHid + t <= Deadline(t)
         /\ g.assertionValid => g.lastAssertion + t <= Deadline(t)
<1>1. /\ g.lastHid \in Nat /\ g.lastAssertion \in Nat /\ g.assertionValid \in BOOLEAN
      /\ now \in Nat
  BY GlobalsType, NowFact DEF GlobalSet, IndInv
<1> DEFINE a == g.lastHid + t
           b == g.lastAssertion + t
           S == {now, a, IF g.assertionValid THEN b ELSE 0}
           Last(m) == m >= now /\ m >= a /\ (g.assertionValid => m >= b)
<1>2. a \in Nat /\ b \in Nat
  BY <1>1
<1>3. Deadline(t) = CHOOSE m \in S : Last(m)
  BY DEF Deadline
<1>4. \E m \in S : Last(m)
  <2> HIDE DEF a, b
  <2>1. CASE g.assertionValid
    <3>1. S = {now, a, b}
      BY <2>1
    <3>2. Last(now) \/ Last(a) \/ Last(b)
      BY <1>1, <1>2
    <3> HIDE DEF S, Last
    <3> QED BY <3>1, <3>2
  <2>2. CASE ~g.assertionValid
    <3>1. Last(now) \/ Last(a)
      BY <1>1, <1>2, <2>2
    <3>2. now \in S /\ a \in S
      OBVIOUS
    <3> HIDE DEF S, Last
    <3> QED BY <3>1, <3>2
  <2> QED BY <2>1, <2>2
<1>5. S \subseteq Nat
  BY <1>1, <1>2
<1> HIDE DEF S
<1>6. Deadline(t) \in S /\ Last(Deadline(t))
  BY <1>3, <1>4
<1> QED BY <1>1, <1>2, <1>5, <1>6

LEMMA InvType ==
  ASSUME IndInv
  PROVE  TypeOK
<1>1. /\ g \in GlobalSet /\ g.clients \in Seq(ClientSet)
      /\ DOMAIN g.clients = 1..Len(g.clients)
      /\ Listed(g.clients, g.idleTimeout) /\ hid \in HidSet /\ hid.last <= now
      /\ now \in Nat
  BY GlobalsType, NowFact DEF IndInv, Rest
<1>2. hid.active \in BOOLEAN /\ hid.last \in 1..now /\ hid.threshold \in Nat \ {0}
  BY <1>1 DEF HidSet
<1>3. /\ g.posted \in LevelSet /\ g.asserted \subseteq Kinds /\ g.load \in LoadSet
      /\ {g.hidTimer, g.assertionTimer, g.lastHid, g.lastAssertion} \subseteq Nat
  BY <1>1 DEF GlobalSet
<1>4. ASSUME NEW i \in DOMAIN g.clients
      PROVE  /\ g.clients[i].posted \in LevelSet
             /\ g.clients[i].timeout >= g.idleTimeout
             /\ \A j \in 1..i - 1 : /\ g.clients[j].id # g.clients[i].id
                                    /\ g.clients[j].timeout <= g.clients[i].timeout
  <2>1. i \in 1..Len(g.clients) /\ g.clients[i].posted \in LevelSet
    BY <1>1, ListType
  <2> QED BY <1>1, <2>1 DEF Listed
<1>5. /\ now \in 1..MaxTime /\ changes \in 0..MaxChanges
      /\ Len(sysloadQ) <= MaxQueue /\ Len(mainQ) <= MaxQueue
  BY DEF IndInv, Rest
<1> QED BY <1>2, <1>3, <1>4, <1>5 DEF TypeOK, LoadSet

LEMMA InvTold ==
  ASSUME IndInv
  PROVE  TimeoutIsTold
<1> SUFFICES ASSUME NEW i \in DOMAIN g.clients, "active" \in g.clients[i].posted,
                    ~Queued("callback"), ~Pending("hid"),
                    ~(/\ g.hidActive /\ hid.active
                      /\ hid.threshold <= g.clients[i].timeout \/ Queued("threshold"))
             PROVE  \E d \in {g.hidTimer, g.assertionTimer} \ {NoDate} :
                      d <= Deadline(g.clients[i].timeout)
  BY DEF TimeoutIsTold
<1> DEFINE timeout == g.clients[i].timeout
<1>1. ~Has(sysloadQ, "callback") /\ ~Waits(mainQ, "hid")
      /\ (Queued("threshold") <=> Has(sysloadQ, "threshold"))
  BY QueueFact DEF IndInv
<1>2. g.hidActive = hid.active
  BY <1>1 DEF IndInv, Heard
<1>3. i \in 1..Len(g.clients) /\ timeout \in Nat /\ g.idleTimeout <= timeout
  <2>1. i \in 1..Len(g.clients) /\ timeout \in Nat
    BY GlobalsType, ListType
  <2>2. timeout >= g.idleTimeout
    BY <2>1, GlobalsType DEF Listed
  <2> QED BY <2>1, <2>2
<1>4. ~g.hidActive
  <2> SUFFICES ASSUME g.hidActive PROVE FALSE
    OBVIOUS
  <2>1. hid.active
    BY <1>2
  <2>2. hid.threshold = g.idleTimeout \/ Queued("threshold")
    BY <1>1 DEF IndInv
  <2> QED BY <1>3, <2>1, <2>2
<1>5. DueFor(g, g.hidTimer, timeout) \/ DueFor(g, g.assertionTimer, timeout)
  BY <1>3, <1>4 DEF IndInv, Whole, Sound, Watched
<1>6. /\ Deadline(timeout) \in Nat /\ g.lastHid + timeout <= Deadline(timeout)
      /\ g.assertionValid => g.lastAssertion + timeout <= Deadline(timeout)
  BY <1>3, DeadlineFact
<1>7. /\ g.lastHid \in Nat /\ g.lastAssertion \in Nat /\ g.hidTimer \in Nat
      /\ g.assertionTimer \in Nat
  BY GlobalsType DEF GlobalSet
<1> HIDE DEF timeout
<1>8. ASSUME NEW d \in Nat, DueFor(g, d, timeout)
      PROVE  d # NoDate /\ d <= Deadline(timeout)
  BY <1>3, <1>6, <1>7, <1>8 DEF DueFor
<1> QED BY <1>5, <1>7, <1>8 DEF timeout

LEMMA InvAbsent ==
  ASSUME IndInv
  PROVE  NotAbsentWhileActive
<1>1. Told(g) /\ DOMAIN g.clients = 1..Len(g.clients)
  BY GlobalsType DEF IndInv, Whole, Sound
<1> QED BY <1>1 DEF Told, NotAbsentWhileActive

LEMMA InvPublished ==
  ASSUME IndInv
  PROVE  PublishedIsCurrent
<1>1. ~Pending("assertions") => Says(g)
  BY QueueFact DEF IndInv
<1> QED BY <1>1 DEF IndInv, Whole, Shared, Says, PublishedIsCurrent

-----------------------------------------------------------------------------
\* In every reachable state the globals of SystemLoad.c and the two queues have their
\* types and bounds, the list of clients is in the order of their timeouts without
\* doubles, and no timeout is below the one HID and the assertions' timer go by.
THEOREM TypeCorrect == Spec => []TypeOK
BY Invariance, InvType, PTL

\* A client that believes the user active is always going to be told when its timeout
\* is over: HID reports in time, has reported, or a timer is due by then
\* (evaluateHidIdleNotification, setAssertionIdleNotificationTimer, insertClient).
THEOREM ClientsAreTold == Spec => []TimeoutIsTold
BY Invariance, InvTold, PTL

\* No client with a timeout up to the default one is told both that the user is
\* active and that the user is absent (updateUserActivityLevels).
THEOREM LevelsAgree == Spec => []NotAbsentWhileActive
BY Invariance, InvAbsent, PTL

\* Whichever handler ran last, what is published follows from the inputs as they are
\* (shareTheSystemLoad, updateUserActivityLevels), the known exceptions apart.
THEOREM PublishedFollows == Spec => []PublishedIsCurrent
BY Invariance, InvPublished, PTL

\* No step newly tells anybody of activity while the display is off, or on for a
\* notification only (SystemLoadDisplayPowerStateHasChanged, getUserInactiveDuration).
THEOREM ActivityIsReal == Spec => NotificationIsNotActivity
<1> DEFINE told == ("active" \in g'.posted /\ "active" \notin g.posted)
                     \/ \E i \in DOMAIN g'.clients, j \in DOMAIN g.clients :
                          /\ g'.clients[i].id = g.clients[j].id
                          /\ "active" \in g'.clients[i].posted
                          /\ "active" \notin g.clients[j].posted
           Real == told /\ ~g'.oneness => ~g'.displayOff /\ (g'.rootDomain \/ g'.assertionValid)
<1>1. IndInv /\ [Next]_vars => [Real]_vars
  <2> SUFFICES ASSUME IndInv, [Next]_vars PROVE Real
    OBVIOUS
  <2>1. IndInv' /\ Honest(g, g')
    BY NextInv
  <2>2. DOMAIN g.clients = 1..Len(g.clients)
    BY GlobalsType
  <2>3. g' \in GlobalSet
    BY <2>1 DEF IndInv, Whole, Good
  <2>4. g'.clients \in Seq(ClientSet)
    BY <2>3 DEF GlobalSet
  <2>5. DOMAIN g'.clients = 1..Len(g'.clients)
    BY <2>4, LenProperties
  <2> QED BY <2>1, <2>2, <2>5 DEF Honest, Awake
<1>2. NotificationIsNotActivity <=> [][Real]_vars
  BY DEF NotificationIsNotActivity
<1> QED BY <1>1, <1>2, Invariance, PTL DEF Spec
=============================================================================
