------------------------- MODULE PMAssertionsProofs -------------------------
(***************************************************************************)
(* Proofs about PMAssertions, for any number of assertions, processes,     *)
(* types, timeouts and references.                                         *)
(***************************************************************************)
EXTENDS PMAssertions, FiniteSetTheorems, WellFoundedInduction, TLAPS

\* A slot of the table, and the table.
SlotOK(a) == /\ a.list = "free" <=> a.type = "none"
             /\ a.list = "free" <=> a.pid = NoPid
             /\ a.list = "free" <=> a.refs = 0
Slots == {a \in AssertionType : SlotOK(a)}
TableOK(as) == as \in [Ids -> Slots]

\* The type invariant without the table.
RestOK ==
  /\ count \in [Types -> Nat]
  /\ effect \in [Types -> Effects \cup {NoEffect}]
  /\ disabled \subseteq Types
  /\ \A T \in Types : effect[T] = NoEffect <=> T \in disabled
  /\ level \in [Types -> BOOLEAN]
  /\ raised \subseteq Effects
  /\ timer \in [Types -> Nat]
  /\ kick \in [Types -> BOOLEAN]
  /\ suspended \subseteq Pids
  /\ now \in Nat
  /\ power \in Powers /\ prevPower \in Powers
  /\ evalQueued \in BOOLEAN

LEMMA HalvesFact == TypeOK <=> TableOK(asrt) /\ RestOK
BY DEF TypeOK, TableOK, RestOK, Slots, SlotOK

LEMMA HalvesNext == (TableOK(asrt) /\ RestOK)' => TypeOK'
BY HalvesFact, PTL

-----------------------------------------------------------------------------
(* Records.                                                                 *)

LEMMA TypesFact == "none" \notin Types /\ NoPid \notin Pids
BY ConstantsAssumption DEF ConstantsAssumption, AllTypes

LEMMA FreeFact ==
  /\ Free \in Slots /\ Free \in AssertionType /\ Free.list = "free" /\ Free.type = "none"
  /\ Free.pid = NoPid /\ Free.cause = NoPid /\ Free.batt = FALSE
BY ConstantsAssumption DEF ConstantsAssumption, Free, Slots, SlotOK, AssertionType, Lists

\* What every change of an assertion in use keeps.
Owned(a, b) == b.type = a.type /\ b.pid = a.pid

\* What most of them keep: raising it may give it a causing process.
Kept(a, b) == b.type = a.type /\ b.pid = a.pid /\ b.cause = a.cause

LEMMA SlotFact ==
  ASSUME NEW as, TableOK(as), NEW i \in Ids
  PROVE  as[i] \in AssertionType /\ SlotOK(as[i]) /\ as[i] \in Slots
BY DEF TableOK, Slots

\* A record with a type, an owner and a reference that is on a list is a slot in use.
LEMMA UsedSlot ==
  ASSUME NEW a \in AssertionType, a.list # "free", a.type # "none", a.pid # NoPid, a.refs # 0
  PROVE  a \in Slots
BY DEF Slots, SlotOK

LEMMA OwnedSlot ==
  ASSUME NEW a \in Slots, a.list # "free", NEW b \in AssertionType, b.list # "free",
         Owned(a, b), b.refs # 0
  PROVE  b \in Slots
BY DEF Slots, SlotOK, Owned

LEMMA KeptSlot ==
  ASSUME NEW a \in Slots, a.list # "free", NEW b \in AssertionType, b.list # "free",
         Kept(a, b), b.refs # 0
  PROVE  b \in Slots
BY OwnedSlot DEF Owned, Kept

\* An assertion is put on another list, with another deadline.
Listed(a, l) == [a EXCEPT !.list = l]
Deadlined(a, l, n) == [a EXCEPT !.list = l, !.timeout = n]
Resumed(a, l, n) == [a EXCEPT !.list = l, !.timeout = n, !.left = 0]

LEMMA ListFact ==
  ASSUME NEW a \in AssertionType, NEW l \in Lists
  PROVE  /\ Listed(a, l) \in AssertionType /\ Kept(a, Listed(a, l))
         /\ Listed(a, l).refs = a.refs /\ Listed(a, l).list = l
BY DEF AssertionType, Kept, Listed

LEMMA DeadlineFact ==
  ASSUME NEW a \in AssertionType, NEW l \in Lists, NEW n \in Nat
  PROVE  /\ Deadlined(a, l, n) \in AssertionType /\ Kept(a, Deadlined(a, l, n))
         /\ Deadlined(a, l, n).refs = a.refs /\ Deadlined(a, l, n).list = l
         /\ Resumed(a, l, n) \in AssertionType /\ Kept(a, Resumed(a, l, n))
         /\ Resumed(a, l, n).refs = a.refs /\ Resumed(a, l, n).list = l
BY DEF AssertionType, Kept, Deadlined, Resumed

\* raiseAssertion chooses a list by the level and the timeout.
LEMMA RaiseFact ==
  ASSUME now \in Nat, NEW a \in AssertionType
  PROVE  /\ Raise(a) \in AssertionType /\ Owned(a, Raise(a)) /\ Raise(a).refs = a.refs
         /\ Raise(a).list \in {"active", "timed", "inactive"}
<1> DEFINE v == a.batt \/ (a.type \in NotValidOnBatt /\ a.limited)
           b == [a EXCEPT !.batt = v, !.cause = a.behalf]
<1>1. v \in BOOLEAN
  BY DEF AssertionType
<1>2. Raise(a) = IF ~a.on THEN [a EXCEPT !.list = "inactive"]
                 ELSE IF a.dur # 0 THEN [b EXCEPT !.list = "timed", !.timeout = now + a.dur]
                 ELSE [b EXCEPT !.list = "active"]
  BY DEF Raise
<1> HIDE DEF v
<1>3. b \in AssertionType /\ Owned(a, b) /\ b.refs = a.refs
  BY <1>1 DEF AssertionType, Owned
<1> HIDE DEF b
<1>4. now + a.dur \in Nat /\ {"inactive", "active", "timed"} \subseteq Lists
  BY DEF AssertionType, Lists
<1>6. CASE ~a.on
  <2>1. Raise(a) = Listed(a, "inactive")
    BY <1>2, <1>6 DEF Listed
  <2> QED
    BY <1>4, <2>1, ListFact DEF Owned, Kept
<1>7. CASE a.on /\ a.dur # 0
  <2>0. "timed" \in Lists
    BY <1>4
  <2>1. PICK n \in Nat : Raise(a) = Deadlined(b, "timed", n)
    BY <1>2, <1>4, <1>7 DEF Deadlined
  <2>2. /\ Deadlined(b, "timed", n) \in AssertionType /\ Kept(b, Deadlined(b, "timed", n))
        /\ Deadlined(b, "timed", n).refs = b.refs /\ Deadlined(b, "timed", n).list = "timed"
    BY <1>3, <2>0, DeadlineFact
  <2> QED
    BY <1>3, <2>1, <2>2 DEF Owned, Kept
<1>8. CASE a.on /\ a.dur = 0
  <2>1. Raise(a) = Listed(b, "active")
    BY <1>2, <1>8 DEF Listed
  <2>2. /\ Listed(b, "active") \in AssertionType /\ Kept(b, Listed(b, "active"))
        /\ Listed(b, "active").refs = b.refs /\ Listed(b, "active").list = "active"
    BY <1>3, <1>4, ListFact
  <2> QED
    BY <1>3, <2>1, <2>2 DEF Owned, Kept
<1> QED
  BY <1>6, <1>7, <1>8

\* resumeAssertion.
LEMMA ResumeFact ==
  ASSUME now \in Nat, NEW a \in AssertionType
  PROVE  /\ resumeAssertion(a) \in AssertionType /\ Kept(a, resumeAssertion(a))
         /\ resumeAssertion(a).refs = a.refs
         /\ resumeAssertion(a).list \in {"active", "timed", "inactive"}
<1>1. now + a.left \in Nat /\ {"inactive", "active", "timed"} \subseteq Lists
  BY DEF AssertionType, Lists
<1>2. CASE ~a.on
  <2>1. resumeAssertion(a) = Listed(a, "inactive")
    BY <1>2 DEF resumeAssertion, Listed
  <2> QED
    BY <1>1, <2>1, ListFact
<1>3. CASE a.on /\ a.left # 0
  <2>1. PICK n \in Nat : resumeAssertion(a) = Resumed(a, "timed", n)
    BY <1>1, <1>3 DEF resumeAssertion, Resumed
  <2>2. "timed" \in Lists
    BY <1>1
  <2> QED
    BY <2>1, <2>2, DeadlineFact
<1>4. CASE a.on /\ a.left = 0
  <2>1. resumeAssertion(a) = Listed(a, "active")
    BY <1>4 DEF resumeAssertion, Listed
  <2> QED
    BY <1>1, <2>1, ListFact
<1> QED
  BY <1>2, <1>3, <1>4

-----------------------------------------------------------------------------
(* The timed list and its head.                                             *)

LEMMA HeadFact ==
  ASSUME NEW as, TableOK(as), NEW T, Timed(T, as) # {}
  PROVE  /\ HeadTime(T, as) \in Nat
         /\ \E i \in Timed(T, as) : HeadTime(T, as) = as[i].timeout
         /\ \A j \in Timed(T, as) : HeadTime(T, as) <= as[j].timeout
<1> DEFINE S == {as[i].timeout : i \in Timed(T, as)}
<1>0. ASSUME NEW i \in Timed(T, as) PROVE as[i].timeout \in Nat
  BY SlotFact DEF Timed, AssertionType
<1>1. S \subseteq Nat /\ S # {}
  BY <1>0
<1>2. \E x \in S : \A y \in S : ~(<<y, x>> \in OpToRel(<, Nat))
  BY <1>1, NatLessThanWellFounded, WFMin
<1>3. PICK x \in S : \A y \in S : ~(<<y, x>> \in OpToRel(<, Nat))
  BY <1>2
<1>4. ASSUME NEW y \in S PROVE x <= y
  <2>1. x \in Nat /\ y \in Nat
    BY <1>1
  <2>2. ~(y < x)
    BY <1>3, <2>1 DEF OpToRel
  <2> QED
    BY <2>1, <2>2
<1>5. \E i \in Timed(T, as) : i \in Heads(T, as)
  BY <1>4 DEF Heads
<1> DEFINE h == CHOOSE i \in Heads(T, as) : TRUE
<1>6. h \in Heads(T, as) /\ HeadTime(T, as) = as[h].timeout
  BY <1>5 DEF HeadTime
<1> HIDE DEF h
<1>7. h \in Timed(T, as) /\ \A j \in Timed(T, as) : as[h].timeout <= as[j].timeout
  BY <1>6 DEF Heads
<1> QED
  BY <1>1, <1>6, <1>7

\* The head is determined by the timeouts on the list.
LEMMA HeadSame ==
  ASSUME NEW as, TableOK(as), NEW bs, TableOK(bs), NEW T,
         Timed(T, as) = Timed(T, bs),
         \A i \in Timed(T, as) : as[i].timeout = bs[i].timeout
  PROVE  Timed(T, as) # {} => HeadTime(T, as) = HeadTime(T, bs)
<1> SUFFICES ASSUME Timed(T, as) # {} PROVE HeadTime(T, as) = HeadTime(T, bs)
  OBVIOUS
<1>1. PICK i \in Timed(T, as) : HeadTime(T, as) = as[i].timeout
  BY HeadFact
<1>2. PICK j \in Timed(T, bs) : HeadTime(T, bs) = bs[j].timeout
  BY HeadFact
<1>3. HeadTime(T, as) <= as[j].timeout /\ HeadTime(T, bs) <= bs[i].timeout
  BY HeadFact
<1>5. as[i].timeout = bs[i].timeout /\ as[j].timeout = bs[j].timeout
  OBVIOUS
<1>4. HeadTime(T, as) \in Nat /\ HeadTime(T, bs) \in Nat
  BY HeadFact
<1> QED
  BY <1>1, <1>2, <1>3, <1>4, <1>5

\* The timers keep their types.
LEMMA ArmType ==
  ASSUME NEW was, NEW as, TableOK(as), NEW tm \in [Types -> Nat],
         NEW kk \in [Types -> BOOLEAN], ArmTimers(was, as, tm, kk)
  PROVE  timer' \in [Types -> Nat] /\ kick' \in [Types -> BOOLEAN]
<1>1. ASSUME NEW T \in Types
      PROVE  (IF MustArm(T, was, as) /\ HeadTime(T, as) > now
                THEN HeadTime(T, as) ELSE tm[T]) \in Nat
  BY HeadFact DEF MustArm
<1>2. ASSUME NEW T \in Types
      PROVE  (kk[T] \/ (MustArm(T, was, as) /\ HeadTime(T, as) <= now)) \in BOOLEAN
  OBVIOUS
<1> QED
  BY <1>1, <1>2 DEF ArmTimers

-----------------------------------------------------------------------------
(* What handlers do to the table.                                           *)

Listable == {"active", "timed", "inactive"}
Changed(i, a) == asrt' = [asrt EXCEPT ![i] = a]

\* The same assertion with another level, or another number of references.
Alike(a, b) == /\ Kept(a, b) /\ b.list = a.list /\ b.batt = a.batt
               /\ b.timeout = a.timeout

LEMMA ChangedFact ==
  ASSUME TypeOK, NEW i \in Ids, NEW a \in Slots, Changed(i, a)
  PROVE  /\ TableOK(asrt') /\ asrt'[i] = a
         /\ \A j \in Ids \ {i} : asrt'[j] = asrt[j]
BY HalvesFact DEF Changed, TableOK

\* The assertion doCreate puts into a slot before it is raised.
New(T, p, q, on, limited, d, drop) ==
  [Free EXCEPT !.type = T, !.pid = p, !.behalf = q, !.refs = 1,
               !.on = on, !.limited = limited, !.dur = d, !.drop = drop]

LEMMA NewFact ==
  ASSUME NEW T \in Types, NEW p \in Pids, NEW q \in Pids \cup {NoPid}, NEW on \in BOOLEAN,
         NEW limited \in BOOLEAN, NEW d \in Nat, NEW drop \in BOOLEAN
  PROVE  /\ New(T, p, q, on, limited, d, drop) \in AssertionType
         /\ New(T, p, q, on, limited, d, drop).type = T
         /\ New(T, p, q, on, limited, d, drop).pid = p
         /\ New(T, p, q, on, limited, d, drop).refs = 1
<1>1. 1 \in 0..MaxRefs
  BY ConstantsAssumption DEF ConstantsAssumption
<1> QED
  BY <1>1, FreeFact DEF New, AssertionType

\* Handlers are called for an assertion that was raised to an active list.
Tell(a) == \/ IsActive(a) /\ CallHandlers({a.type}, "Raise", asrt', count')
           \/ ~IsActive(a) /\ UNCHANGED kernel

LEMMA CreateFact ==
  ASSUME TypeOK, NEW i \in Ids, NEW p \in Pids, doCreate(i, p)
  PROVE  \E a \in Slots :
           /\ Changed(i, a) /\ a.type \in Types /\ a.pid = p /\ a.list \in Listable
           /\ count' = CountIn(asrt', {i}) /\ Tell(a) /\ ArmTimers(asrt, asrt', timer, kick)
<1>1. PICK T \in Types, on, limited, drop \in BOOLEAN, d \in Durations,
           q \in (IF "onBehalf" \in Ops THEN Pids \ {p} ELSE {}) \cup {NoPid} :
        LET a == Raise([Free EXCEPT !.type = T, !.pid = p, !.behalf = q, !.refs = 1,
                          !.on = on, !.limited = limited, !.dur = d, !.drop = drop])
            as == [asrt EXCEPT ![i] = a]
            ct == CountIn(as, {i})
        IN /\ limited => T \in NotValidOnBatt
           /\ drop => d # 0
           /\ asrt' = as
           /\ count' = ct
           /\ IF IsActive(a) THEN CallHandlers({T}, "Raise", as, ct)
                             ELSE UNCHANGED kernel
           /\ ArmTimers(asrt, as, timer, kick)
  BY DEF doCreate
<1> DEFINE n == New(T, p, q, on, limited, d, drop)
           a == Raise(n)
<1>2. n \in AssertionType /\ n.type = T /\ n.pid = p /\ n.refs = 1
  <2>1. d \in Nat /\ q \in Pids \cup {NoPid}
    BY ConstantsAssumption DEF ConstantsAssumption
  <2> QED
    BY <2>1, NewFact
<1> HIDE DEF n
<1>3. /\ a \in AssertionType /\ Owned(n, a) /\ a.refs = n.refs /\ a.list \in Listable
  BY <1>2, RaiseFact DEF TypeOK, Listable
<1>4. a.type = T /\ a.pid = p /\ a.refs = 1
  BY <1>2, <1>3 DEF Owned
<1>5. /\ asrt' = [asrt EXCEPT ![i] = a] /\ count' = CountIn(asrt', {i})
      /\ IF IsActive(a) THEN CallHandlers({T}, "Raise", asrt', count') ELSE UNCHANGED kernel
      /\ ArmTimers(asrt, asrt', timer, kick)
  BY <1>1 DEF n, New
<1> HIDE DEF a
<1>6. a \in Slots
  BY <1>3, <1>4, UsedSlot, TypesFact DEF Listable
<1> QED
  BY <1>3, <1>4, <1>5, <1>6 DEF Changed, Tell

\* One reference more, or less.
Referenced(a, n) == [a EXCEPT !.refs = n]

LEMMA ReferenceFact ==
  ASSUME NEW a \in Slots, NEW n \in 0..MaxRefs, n # 0, a.list # "free"
  PROVE  Referenced(a, n) \in Slots /\ Alike(a, Referenced(a, n))
<1>1. a \in AssertionType /\ SlotOK(a)
  BY DEF Slots
<1>2. /\ Referenced(a, n) \in AssertionType /\ Alike(a, Referenced(a, n))
      /\ Referenced(a, n).refs = n
  BY <1>1 DEF Referenced, AssertionType, Alike, Kept
<1> QED
  BY <1>1, <1>2, KeptSlot DEF Alike

LEMMA RetainFact ==
  ASSUME TypeOK, NEW i \in Ids, doRetain(i) \/ (doRelease(i) /\ asrt[i].refs > 1)
  PROVE  /\ \E a \in Slots : Changed(i, a) /\ Alike(asrt[i], a)
         /\ UNCHANGED <<count, suspended, config, kernel, timers, now, powers>>
<1>1. asrt[i] \in Slots /\ asrt[i] \in AssertionType
  BY HalvesFact, SlotFact
<1>2. asrt[i].refs \in 0..MaxRefs /\ MaxRefs \in Nat
  BY <1>1, ConstantsAssumption DEF AssertionType, ConstantsAssumption
<1>5. asrt \in [Ids -> AssertionType]
  BY DEF TypeOK
<1>3. CASE doRetain(i)
  <2> DEFINE n == asrt[i].refs + 1
  <2>1. n \in 0..MaxRefs /\ n # 0
    BY <1>2, <1>3 DEF doRetain
  <2>3. Changed(i, Referenced(asrt[i], n))
    BY <1>3, <1>5 DEF doRetain, Changed, Referenced
  <2> HIDE DEF n
  <2>2. asrt[i].list # "free"
    BY <1>3 DEF doRetain
  <2> QED
    BY <1>1, <1>3, <2>1, <2>2, <2>3, ReferenceFact DEF doRetain
<1>4. CASE doRelease(i) /\ asrt[i].refs > 1
  <2> DEFINE n == asrt[i].refs - 1
  <2>1. n \in 0..MaxRefs /\ n # 0
    BY <1>2, <1>4 DEF doRelease
  <2>3. Changed(i, Referenced(asrt[i], n))
    BY <1>4, <1>5 DEF doRelease, Changed, Referenced
  <2> HIDE DEF n
  <2>2. asrt[i].list # "free"
    BY <1>4 DEF doRelease
  <2> QED
    BY <1>1, <1>4, <2>1, <2>2, <2>3, ReferenceFact DEF doRelease
<1> QED
  BY <1>3, <1>4

-----------------------------------------------------------------------------
(* The kinds of step the table takes.                                       *)

\* The requests CountExact does without.
Strict == {"limitedInactive", "releaseSuspended", "setSuspended", "bothWays"} \cap Ops = {}

\* Assertions S that counted for nothing are put on lists, those that count then
\* are of the types U, whose handlers are called.
In(S, U, op) ==
  /\ S \subseteq Ids /\ TableOK(asrt')
  /\ \A j \in Ids \ S : Alike(asrt[j], asrt'[j])
  /\ \A j \in S : ~IsActive(asrt[j]) /\ (IsActive(asrt'[j]) => asrt'[j].type \in U)
  /\ count' = CountIn(asrt', S)
  /\ CallHandlers(U, op, asrt', count')
  /\ op \in {"Raise", "Eval"}

\* Assertions S leave their lists, and count for nothing.
Out(S, U, op) ==
  /\ S \subseteq Ids /\ TableOK(asrt')
  /\ \A j \in Ids \ S : Alike(asrt[j], asrt'[j])
  /\ \A j \in S : ~IsActive(asrt'[j]) /\ (IsActive(asrt[j]) => asrt[j].type \in U)
  /\ Strict => \A j \in S : asrt[j].list # "suspended"
  /\ count' = CountOut(S)
  /\ CallHandlers(U, op, asrt', count')
  /\ op \in {"Release", "Eval"}

\* An assertion stays on the lists that count, or goes from one to another; it may start
\* or cease to apply on battery.
Adjusted(i, U, op) ==
  LET n == CountLimited(asrt[i], asrt'[i]) IN
  /\ i \in Ids /\ TableOK(asrt')
  /\ \A j \in Ids \ {i} : Alike(asrt[j], asrt'[j])
  /\ Owned(asrt[i], asrt'[i]) /\ asrt[i].type \in Types
  /\ IsActive(asrt[i]) /\ IsActive(asrt'[i])
  /\ asrt'[i].batt # asrt[i].batt => asrt[i].type \in NotValidOnBatt
  /\ \/ count' = [count EXCEPT ![asrt[i].type] = n]
     \/ count' = [count EXCEPT ![asrt[i].type] = OneMore(asrt'[i], OneLess(asrt'[i], n))]
  /\ U = {asrt[i].type} /\ op \in {"Eval", IF asrt'[i].batt THEN "Raise" ELSE "Release"}
  /\ CallHandlers(U, op, asrt', count')

\* What the other requests do.
Odd == /\ ~Strict /\ TableOK(asrt') /\ count' \in [Types -> Nat]
       /\ \E U, op : CallHandlers(U, op, asrt', count')

TableStep == \/ \E S, U, op : In(S, U, op) \/ Out(S, U, op)
             \/ \E i, U, op : Adjusted(i, U, op)
             \/ Odd

\* To call no handler is to leave what the kernel was told.
LEMMA NoHandlers ==
  ASSUME TypeOK, UNCHANGED kernel, NEW op, NEW as, NEW ct
  PROVE  CallHandlers({}, op, as, ct)
<1>1. level' = LevelAfter(level, {}, as, ct, effect, effect)
  BY DEF TypeOK, kernel, LevelAfter
<1>2. raised' = RaisedAfter(raised, level, {}, op, as, ct, effect, effect)
  BY DEF TypeOK, kernel, RaisedAfter
<1> QED
  BY <1>1, <1>2 DEF CallHandlers

\* A step that leaves every deadline arms no timer.
LEMMA ArmSame ==
  ASSUME TypeOK, TableOK(asrt'), UNCHANGED timers,
         \A j \in Ids : /\ asrt'[j].type = asrt[j].type /\ asrt'[j].list = asrt[j].list
                        /\ asrt'[j].timeout = asrt[j].timeout
  PROVE  ArmTimers(asrt, asrt', timer, kick)
<1>1. ASSUME NEW T \in Types PROVE ~MustArm(T, asrt, asrt')
  <2>1. Timed(T, asrt') = Timed(T, asrt)
    BY DEF Timed
  <2>2. Timed(T, asrt') # {} => HeadTime(T, asrt') = HeadTime(T, asrt)
    BY <2>1, HeadSame, HalvesFact DEF Timed
  <2> QED
    BY <2>1, <2>2 DEF MustArm
<1>2. timer' = [T \in Types |-> timer[T]] /\ kick' = [T \in Types |-> kick[T]]
  BY DEF timers, TypeOK
<1>3. ASSUME NEW T \in Types PROVE (kick[T] \/ (MustArm(T, asrt, asrt') /\ HeadTime(T, asrt') <= now)) = kick[T]
  BY <1>1 DEF TypeOK
<1> QED
  BY <1>1, <1>2, <1>3 DEF ArmTimers

LEMMA RestSame ==
  ASSUME TypeOK, NEW i \in Ids, NEW a \in Slots, Changed(i, a)
  PROVE  /\ TableOK(asrt') /\ asrt'[i] = a
         /\ \A j \in Ids \ {i} : Alike(asrt[j], asrt'[j])
BY ChangedFact DEF Alike, Kept

-----------------------------------------------------------------------------
(* The handlers, as steps of the table.                                     *)

\* A slot that counted for nothing is given an assertion that raiseAssertion listed.
LEMMA RaisedIn ==
  ASSUME TypeOK, NEW i \in Ids, ~IsActive(asrt[i]), NEW a, asrt'[i] = a, TableOK(asrt'),
         \A j \in Ids \ {i} : Alike(asrt[j], asrt'[j]),
         count' = CountIn(asrt', {i}), Tell(a)
  PROVE  \E U : In({i}, U, "Raise")
<1>1. CASE IsActive(a) /\ CallHandlers({a.type}, "Raise", asrt', count')
  <2>1. In({i}, {a.type}, "Raise")
    BY <1>1 DEF In
  <2> QED
    BY <2>1
<1>2. CASE ~IsActive(a) /\ UNCHANGED kernel
  <2>1. CallHandlers({}, "Raise", asrt', count')
    BY <1>2, NoHandlers
  <2>2. In({i}, {}, "Raise")
    BY <1>2, <2>1 DEF In
  <2> QED
    BY <2>2
<1> QED
  BY <1>1, <1>2 DEF Tell

LEMMA CreateStep ==
  ASSUME TypeOK, NEW i \in Ids, NEW p \in Pids, doCreate(i, p)
  PROVE  /\ TableStep /\ ArmTimers(asrt, asrt', timer, kick)
         /\ asrt'[i].pid = p /\ \A j \in Ids \ {i} : Alike(asrt[j], asrt'[j])
<1>1. PICK a \in Slots :
        /\ Changed(i, a) /\ a.type \in Types /\ a.pid = p /\ a.list \in Listable
        /\ count' = CountIn(asrt', {i}) /\ Tell(a) /\ ArmTimers(asrt, asrt', timer, kick)
  BY CreateFact
<1>2. TableOK(asrt') /\ asrt'[i] = a /\ \A j \in Ids \ {i} : Alike(asrt[j], asrt'[j])
  BY <1>1, RestSame
<1>3. ~IsActive(asrt[i])
  BY DEF doCreate, IsActive
<1>4. \E U : In({i}, U, "Raise")
  BY <1>1, <1>2, <1>3, RaisedIn
<1> QED
  BY <1>1, <1>2, <1>4 DEF TableStep

LEMMA RetainStep ==
  ASSUME TypeOK, NEW i \in Ids, doRetain(i) \/ (doRelease(i) /\ asrt[i].refs > 1)
  PROVE  /\ TableStep /\ ArmTimers(asrt, asrt', timer, kick)
         /\ \A j \in Ids : Alike(asrt[j], asrt'[j])
<1>1. PICK a \in Slots : Changed(i, a) /\ Alike(asrt[i], a)
  BY RetainFact
<1>2. UNCHANGED <<count, kernel, timers>>
  BY RetainFact
<1>3. TableOK(asrt') /\ \A j \in Ids : Alike(asrt[j], asrt'[j])
  BY <1>1, RestSame
<1>4. ArmTimers(asrt, asrt', timer, kick)
  BY <1>2, <1>3, ArmSame DEF Alike, Kept
<1>5. count' = CountIn(asrt', {})
  BY <1>2, FS_EmptySet DEF CountIn, TypeOK
<1>6. CallHandlers({}, "Raise", asrt', count')
  BY <1>2, NoHandlers
<1>7. In({}, {}, "Raise")
  BY <1>3, <1>5, <1>6 DEF In
<1> QED
  BY <1>3, <1>4, <1>7 DEF TableStep

LEMMA ReleaseStep ==
  ASSUME TypeOK, NEW i \in Ids, doRelease(i), ~(asrt[i].refs > 1)
  PROVE  /\ TableStep /\ ArmTimers(asrt, asrt', timer, kick)
         /\ asrt'[i] = Free /\ suspended' \subseteq suspended
         /\ \A j \in Ids \ {i} : Alike(asrt[j], asrt'[j])
<1>1. /\ Changed(i, Free) /\ count' = CountOut({i}) /\ suspended' = StillKnown(asrt')
      /\ CallHandlers({asrt[i].type}, "Release", asrt', count')
      /\ ArmTimers(asrt, asrt', timer, kick) /\ MayRelease({i})
  BY DEF doRelease, Changed
<1>2. TableOK(asrt') /\ asrt'[i] = Free /\ \A j \in Ids \ {i} : Alike(asrt[j], asrt'[j])
  BY <1>1, RestSame, FreeFact
<1>3. ~IsActive(asrt'[i])
  BY <1>2, FreeFact DEF IsActive
<1>4. Strict => asrt[i].list # "suspended"
  BY <1>1 DEF Strict, MayRelease
<1>5. Out({i}, {asrt[i].type}, "Release")
  BY <1>1, <1>2, <1>3, <1>4 DEF Out
<1> QED
  BY <1>1, <1>2, <1>5 DEF TableStep, StillKnown

LEMMA TypeOfUsed ==
  ASSUME TypeOK, NEW i \in Ids, asrt[i].list # "free"
  PROVE  asrt[i].type \in Types /\ asrt[i].pid \in Pids /\ asrt[i].refs # 0
BY DEF TypeOK, AssertionType

\* What the keys of a request store.
Stored(a, on, d, t, limited, batt) ==
  [a EXCEPT !.on = on, !.dur = d, !.timeout = t, !.limited = limited, !.batt = batt]

LEMMA StoredFact ==
  ASSUME NEW a \in AssertionType, NEW on \in BOOLEAN, NEW d \in Nat, NEW t \in Nat,
         NEW limited \in BOOLEAN, NEW batt \in BOOLEAN
  PROVE  LET b == Stored(a, on, d, t, limited, batt) IN
         /\ b \in AssertionType /\ Kept(a, b) /\ b.refs = a.refs /\ b.list = a.list
         /\ b.timeout = t /\ b.batt = batt
BY DEF Stored, AssertionType, Kept

LEMMA WithFact ==
  ASSUME now \in Nat, NEW a \in AssertionType, NEW r \in PropertyRequests,
         NEW b, b = WithProperties(a, r)
  PROVE  /\ b \in AssertionType /\ Kept(a, b) /\ b.refs = a.refs /\ b.list = a.list
         /\ b.batt # a.batt => a.type \in NotValidOnBatt
         /\ r.timeout = Keep => b.timeout = a.timeout
<1> DEFINE isLimited == r.limited # "keep" /\ a.type \in NotValidOnBatt
           on == IF r.level = "keep" THEN a.on ELSE r.level = "on"
           d == IF r.timeout = Keep THEN a.dur ELSE r.timeout
           t == IF r.timeout = Keep THEN a.timeout
                ELSE IF r.timeout = 0 THEN 0 ELSE now + r.timeout
           limited == IF isLimited THEN r.limited = "yes" ELSE a.limited
           batt == IF isLimited THEN r.limited = "yes" ELSE a.batt
<1>1. b = Stored(a, on, d, t, limited, batt)
  BY DEF WithProperties, Stored
<1>2. r.timeout = Keep \/ r.timeout \in Nat
  BY ConstantsAssumption DEF ConstantsAssumption, PropertyRequests
<1>3. /\ a.on \in BOOLEAN /\ a.dur \in Nat /\ a.timeout \in Nat /\ a.limited \in BOOLEAN
      /\ a.batt \in BOOLEAN
  BY DEF AssertionType
<1>4. on \in BOOLEAN /\ d \in Nat /\ t \in Nat /\ limited \in BOOLEAN /\ batt \in BOOLEAN
  <2>1. d \in Nat /\ t \in Nat
    BY <1>2, <1>3
  <2>2. on \in BOOLEAN
    BY <1>3, Zenon
  <2>3. limited \in BOOLEAN /\ batt \in BOOLEAN
    BY <1>3, Zenon
  <2> QED
    BY <2>1, <2>2, <2>3
<1>5. /\ batt # a.batt => a.type \in NotValidOnBatt
      /\ r.timeout = Keep => t = a.timeout
  OBVIOUS
<1> HIDE DEF on, d, t, limited, batt
<1>6. /\ b \in AssertionType /\ Kept(a, b) /\ b.refs = a.refs /\ b.list = a.list
      /\ b.timeout = t /\ b.batt = batt
  BY <1>1, <1>4, StoredFact
<1> QED
  BY <1>5, <1>6

\* A deadline is moved, or only the power constraint changes, without a change of level.
LEMMA BitsFact ==
  ASSUME NEW i \in Ids, NEW r \in PropertyRequests, "ModLevel" \notin Forwarded(i, r)
  PROVE  /\ "ModTimer" \in Forwarded(i, r) => asrt[i].list # "inactive"
         /\ "ModTimer" \notin Forwarded(i, r) => r.timeout = Keep
<1> DEFINE bits == IF asrt[i].list = "inactive" THEN {"Inactive"} ELSE {}
<1>1. ASSUME NEW x, "ModLevel" \notin forwardLevel(x, r.level)
      PROVE  "ModLevel" \notin x /\ forwardLevel(x, r.level) = x
  BY <1>1 DEF forwardLevel
<1>2. ASSUME NEW x, "ModLevel" \notin forwardTimeout(x, r.timeout)
      PROVE  /\ "ModLevel" \notin x
             /\ r.timeout = Keep => forwardTimeout(x, r.timeout) = x
             /\ r.timeout # Keep => "Inactive" \notin x /\ "ModTimer" \in forwardTimeout(x, r.timeout)
  BY <1>2 DEF forwardTimeout
<1>3. "ModTimer" \notin bits /\ ("Inactive" \notin bits => asrt[i].list # "inactive")
  OBVIOUS
<1>4. CASE r.levelFirst
  <2>1. Forwarded(i, r) = forwardTimeout(forwardLevel(bits, r.level), r.timeout)
    BY <1>4 DEF Forwarded
  <2> HIDE DEF bits
  <2>2. /\ "ModLevel" \notin forwardLevel(bits, r.level)
        /\ r.timeout = Keep => Forwarded(i, r) = forwardLevel(bits, r.level)
        /\ r.timeout # Keep => /\ "Inactive" \notin forwardLevel(bits, r.level)
                               /\ "ModTimer" \in Forwarded(i, r)
    BY <1>2, <2>1
  <2>3. forwardLevel(bits, r.level) = bits
    BY <1>1, <2>2
  <2> QED
    BY <1>3, <2>2, <2>3
<1>5. CASE ~r.levelFirst
  <2>1. Forwarded(i, r) = forwardLevel(forwardTimeout(bits, r.timeout), r.level)
    BY <1>5 DEF Forwarded
  <2> HIDE DEF bits
  <2>2. /\ "ModLevel" \notin forwardTimeout(bits, r.timeout)
        /\ Forwarded(i, r) = forwardTimeout(bits, r.timeout)
    BY <1>1, <2>1
  <2>3. /\ r.timeout = Keep => forwardTimeout(bits, r.timeout) = bits
        /\ r.timeout # Keep => /\ "Inactive" \notin bits
                               /\ "ModTimer" \in forwardTimeout(bits, r.timeout)
    BY <1>2, <2>2
  <2> QED
    BY <1>3, <2>2, <2>3
<1> QED
  BY <1>4, <1>5

\* An assertion whose properties are set: the assertion with what the keys store, and
\* the count with what the key of limited power does to it.
Asked(i, b, n) ==
  /\ i \in Ids /\ asrt[i] \in Slots /\ asrt[i].list # "free" /\ asrt[i].type \in Types
  /\ asrt[i].refs # 0 /\ b \in AssertionType /\ Kept(asrt[i], b) /\ b.refs = asrt[i].refs
  /\ b.list = asrt[i].list
  /\ b.batt # asrt[i].batt => asrt[i].type \in NotValidOnBatt
  /\ n = CountLimited(asrt[i], b) /\ n \in Nat

LEMMA AskedFact ==
  ASSUME TypeOK, NEW i \in Ids, NEW r \in PropertyRequests, doSetProperties(i, r)
  PROVE  LET b == WithProperties(asrt[i], r) IN
         /\ Asked(i, b, CountLimited(asrt[i], b))
         /\ r.timeout = Keep => b.timeout = asrt[i].timeout
<1> DEFINE b == WithProperties(asrt[i], r)
<1>1. /\ asrt[i] \in Slots /\ asrt[i] \in AssertionType /\ asrt[i].list # "free" /\ now \in Nat
      /\ asrt[i].type \in Types /\ asrt[i].refs # 0
  BY HalvesFact, SlotFact, TypeOfUsed DEF doSetProperties, MaySet, RestOK
<1>2. /\ b \in AssertionType /\ Kept(asrt[i], b) /\ b.refs = asrt[i].refs /\ b.list = asrt[i].list
      /\ b.batt # asrt[i].batt => asrt[i].type \in NotValidOnBatt
      /\ r.timeout = Keep => b.timeout = asrt[i].timeout
  BY <1>1, WithFact
<1> HIDE DEF b
<1>3. count[asrt[i].type] \in Nat
  BY <1>1 DEF TypeOK
<1>4. CountLimited(asrt[i], b) \in Nat
  BY <1>3 DEF CountLimited
<1> QED
  BY <1>1, <1>2, <1>4 DEF Asked, b

\* The assertion and the count of its type are replaced.
LEMMA BecomesFact ==
  ASSUME TypeOK, NEW i \in Ids, NEW b, NEW n, Asked(i, b, n), NEW c \in AssertionType,
         Owned(b, c), c.refs = b.refs, c.list # "free", NEW m \in Nat, Becomes(i, c, m)
  PROVE  /\ TableOK(asrt') /\ asrt'[i] = c /\ Owned(asrt[i], asrt'[i])
         /\ \A j \in Ids \ {i} : Alike(asrt[j], asrt'[j])
         /\ count' \in [Types -> Nat] /\ count' = [count EXCEPT ![asrt[i].type] = m]
<1>1. Owned(asrt[i], c) /\ c.refs # 0 /\ c.type = asrt[i].type /\ c.type \in Types
  BY DEF Asked, Kept, Owned
<1>2. c \in Slots
  BY <1>1, OwnedSlot DEF Asked
<1>3. TableOK(asrt') /\ asrt'[i] = c /\ \A j \in Ids \ {i} : Alike(asrt[j], asrt'[j])
  BY <1>2, RestSame DEF Becomes, Changed
<1>4. count' = [count EXCEPT ![asrt[i].type] = m] /\ count \in [Types -> Nat]
  BY <1>1 DEF Becomes, TypeOK
<1>5. count' \in [Types -> Nat]
  BY <1>1, <1>4
<1> QED
  BY <1>1, <1>3, <1>4, <1>5

\* What the four outcomes of a request have in common.
SetDone(i) ==
  /\ TableStep
  /\ timer' \in [Types -> Nat] /\ kick' \in [Types -> BOOLEAN]
  /\ "bothWays" \notin Ops => ArmTimers(asrt, asrt', timer, kick)
  /\ Owned(asrt[i], asrt'[i]) /\ \A j \in Ids \ {i} : Alike(asrt[j], asrt'[j])

LEMMA CountNat ==
  ASSUME NEW a, NEW n \in Nat
  PROVE  OneLess(a, n) \in Nat /\ OneMore(a, n) \in Nat
BY DEF OneLess, OneMore

LEMMA OffStep ==
  ASSUME TypeOK, NEW i \in Ids, NEW b, NEW n, Asked(i, b, n), turnOff(i, b, n),
         Strict => asrt[i].list # "inactive" /\ asrt[i].list # "suspended"
  PROVE  SetDone(i)
<1> DEFINE c == [b EXCEPT !.list = "inactive"]
           T == asrt[i].type
<1>1. /\ c \in AssertionType /\ Kept(b, c) /\ c.refs = b.refs /\ c.list = "inactive"
  BY ListFact DEF Asked, Listed, Lists
<1>2. /\ Becomes(i, c, OneLess(b, n)) /\ CallHandlers({b.type}, "Release", asrt', count')
      /\ ArmTimers(asrt, asrt', timer, kick)
  BY DEF turnOff
<1> HIDE DEF c
<1>3. OneLess(b, n) \in Nat /\ Owned(b, c) /\ b.type = T
  BY <1>1, CountNat DEF Asked, Owned, Kept
<1>4. /\ TableOK(asrt') /\ asrt'[i] = c /\ Owned(asrt[i], asrt'[i])
      /\ \A j \in Ids \ {i} : Alike(asrt[j], asrt'[j])
      /\ count' \in [Types -> Nat] /\ count' = [count EXCEPT ![T] = OneLess(b, n)]
  BY <1>1, <1>2, <1>3, BecomesFact
<1>5. TableStep
  <2>1. CASE ~Strict
    BY <1>2, <1>4, <2>1 DEF TableStep, Odd
  <2>2. CASE Strict
    <3>1. ASSUME NEW V \in Types PROVE count'[V] = CountOut({i})[V]
      <4> DEFINE S == {j \in {i} : /\ asrt[j].type = V /\ asrt[j].batt
                                   /\ asrt[j].list # "inactive"}
      <4>1. CountOut({i})[V] = IF Cardinality(S) > count[V] THEN 0 ELSE count[V] - Cardinality(S)
        BY DEF CountOut
      <4>2. count[V] \in Nat /\ T \in Types
        BY DEF TypeOK, Asked
      <4>3. count'[V] = IF V = T THEN OneLess(b, n) ELSE count[V]
        BY <1>4, <4>2 DEF TypeOK
      <4>4. CASE V = T /\ asrt[i].batt
        <5>1. S = {i}
          BY <2>2, <4>4
        <5>2. Cardinality(S) = 1
          BY <5>1, FS_Singleton
        <5>3. OneLess(b, n) = IF 1 > count[V] THEN 0 ELSE count[V] - 1
          BY <4>2, <4>4 DEF OneLess, Asked, CountLimited
        <5> QED
          BY <4>1, <4>3, <4>4, <5>2, <5>3
      <4>5. CASE ~(V = T /\ asrt[i].batt)
        <5>1. S = {}
          BY <4>5
        <5>2. Cardinality(S) = 0
          BY <5>1, FS_EmptySet
        <5>3. V = T => OneLess(b, n) = count[V]
          BY <4>2, <4>5 DEF OneLess, Asked, CountLimited
        <5> HIDE DEF S
        <5> QED
          BY <4>1, <4>2, <4>3, <5>2, <5>3
      <4> QED
        BY <4>4, <4>5
    <3>2. count' = CountOut({i})
      BY <1>4, <3>1 DEF CountOut
    <3>3. ~IsActive(asrt'[i])
      BY <1>1, <1>4 DEF IsActive
    <3>4. Out({i}, {T}, "Release")
      BY <1>2, <1>3, <1>4, <2>2, <3>2, <3>3 DEF Out
    <3> QED
      BY <3>4 DEF TableStep
  <2> QED
    BY <2>1, <2>2
<1>6. timer' \in [Types -> Nat] /\ kick' \in [Types -> BOOLEAN]
  BY <1>2, <1>4, ArmType DEF TypeOK
<1> QED
  BY <1>2, <1>4, <1>5, <1>6 DEF SetDone

\* An assertion that was on no timed list is taken off the table before it is raised.
LEMMA ArmRaised ==
  ASSUME TypeOK, TableOK(asrt'), NEW i \in Ids, asrt[i].list # "timed",
         ArmTimers([asrt EXCEPT ![i] = Free], asrt', timer, kick)
  PROVE  ArmTimers(asrt, asrt', timer, kick)
<1> DEFINE was == [asrt EXCEPT ![i] = Free]
<1>1. TableOK(was) /\ TableOK(asrt) /\ asrt \in [Ids -> Slots]
  BY FreeFact, HalvesFact DEF TableOK
<1>2. was[i] = Free /\ \A j \in Ids \ {i} : was[j] = asrt[j]
  BY <1>1
<1> HIDE DEF was
<1>3. ASSUME NEW T \in Types PROVE MustArm(T, was, asrt') <=> MustArm(T, asrt, asrt')
  <2>1. Timed(T, was) = Timed(T, asrt) /\ i \notin Timed(T, was)
    BY <1>2, FreeFact DEF Timed
  <2>2. Timed(T, was) # {} => HeadTime(T, was) = HeadTime(T, asrt)
    BY <1>1, <1>2, <2>1, HeadSame DEF Timed
  <2> QED
    BY <2>1, <2>2 DEF MustArm
<1>4. ArmTimers(was, asrt', timer, kick)
  BY DEF was
<1> QED
  BY <1>3, <1>4 DEF ArmTimers

LEMMA OnStep ==
  ASSUME TypeOK, NEW i \in Ids, NEW b, NEW n, Asked(i, b, n), turnOn(i, b, n),
         "bothWays" \notin Ops => asrt[i].list = "inactive",
         Strict => b.batt = asrt[i].batt
  PROVE  SetDone(i)
<1> DEFINE c == Raise(b)
           T == asrt[i].type
<1>1. /\ c \in AssertionType /\ Owned(b, c) /\ c.refs = b.refs /\ c.list \in Listable
  BY RaiseFact DEF Asked, TypeOK, Listable
<1>2. /\ Becomes(i, c, OneMore(c, n))
      /\ IF IsActive(c) THEN CallHandlers({b.type}, "Raise", asrt', count') ELSE UNCHANGED kernel
      /\ ArmTimers([asrt EXCEPT ![i] = Free], asrt', timer, kick)
  BY DEF turnOn
<1> HIDE DEF c
<1>3. OneMore(c, n) \in Nat /\ b.type = T /\ c.type = T /\ T \in Types
  BY <1>1, CountNat DEF Asked, Owned, Kept
<1>4. /\ TableOK(asrt') /\ asrt'[i] = c /\ Owned(asrt[i], asrt'[i])
      /\ \A j \in Ids \ {i} : Alike(asrt[j], asrt'[j])
      /\ count' \in [Types -> Nat] /\ count' = [count EXCEPT ![T] = OneMore(c, n)]
  BY <1>1, <1>2, <1>3, BecomesFact DEF Listable
<1>5. Tell(c)
  BY <1>2, <1>3 DEF Tell
<1>6. \E U, op : CallHandlers(U, op, asrt', count')
  BY <1>5, NoHandlers DEF Tell
<1>7. TableStep
  <2>1. CASE ~Strict
    BY <1>4, <1>6, <2>1 DEF TableStep, Odd
  <2>2. CASE Strict
    <3>0. asrt[i].list = "inactive" /\ b.batt = asrt[i].batt
      BY <2>2 DEF Strict
    <3>1. ASSUME NEW V \in Types PROVE count'[V] = CountIn(asrt', {i})[V]
      <4> DEFINE S == {j \in {i} : asrt'[j].type = V /\ Counted(asrt'[j])}
      <4>1. CountIn(asrt', {i})[V] = count[V] + Cardinality(S)
        BY DEF CountIn
      <4>2. count[V] \in Nat /\ n = count[T]
        BY <3>0 DEF TypeOK, Asked, CountLimited
      <4>3. count'[V] = IF V = T THEN OneMore(c, n) ELSE count[V]
        BY <1>4, <1>3 DEF TypeOK
      <4>4. CASE V = T /\ Counted(c)
        <5>1. S = {i}
          BY <1>3, <1>4, <4>4
        <5>2. Cardinality(S) = 1
          BY <5>1, FS_Singleton
        <5> QED
          BY <4>1, <4>2, <4>3, <4>4, <5>2 DEF OneMore
      <4>5. CASE ~(V = T /\ Counted(c))
        <5>1. S = {}
          BY <1>3, <1>4, <4>5
        <5>2. Cardinality(S) = 0
          BY <5>1, FS_EmptySet
        <5> HIDE DEF S
        <5> QED
          BY <4>1, <4>2, <4>3, <4>5, <5>2 DEF OneMore
      <4> QED
        BY <4>4, <4>5
    <3>2. count' = CountIn(asrt', {i})
      BY <1>4, <3>1 DEF CountIn
    <3>3. ~IsActive(asrt[i])
      BY <3>0 DEF IsActive
    <3>4. \E U : In({i}, U, "Raise")
      BY <1>4, <1>5, <3>2, <3>3, RaisedIn
    <3> QED
      BY <3>4 DEF TableStep
  <2> QED
    BY <2>1, <2>2
<1>8. timer' \in [Types -> Nat] /\ kick' \in [Types -> BOOLEAN]
  BY <1>2, <1>4, ArmType DEF TypeOK
<1>9. "bothWays" \notin Ops => ArmTimers(asrt, asrt', timer, kick)
  BY <1>2, <1>4, ArmRaised
<1> QED
  BY <1>4, <1>7, <1>8, <1>9 DEF SetDone

\* What is not free, inactive or suspended is on a list that counts.
LEMMA ActiveLists ==
  ASSUME NEW a \in AssertionType, a.list \notin {"free", "inactive", "suspended"}
  PROVE  IsActive(a)
BY DEF AssertionType, Lists, IsActive

LEMMA DeadlineStep ==
  ASSUME TypeOK, NEW i \in Ids, NEW b, NEW n, Asked(i, b, n), moveDeadline(i, b, n),
         asrt[i].list # "inactive", Strict => asrt[i].list # "suspended"
  PROVE  SetDone(i)
<1> DEFINE l == IF b.timeout # 0 THEN "timed" ELSE "active"
           c == [b EXCEPT !.list = l]
           T == asrt[i].type
<1>0. l \in Lists /\ l \in {"active", "timed"}
  BY DEF Lists
<1> HIDE DEF l
<1>1. /\ c \in AssertionType /\ Kept(b, c) /\ c.refs = b.refs /\ c.list = l /\ c.batt = b.batt
  BY <1>0 DEF Asked, AssertionType, Kept
<1>2. /\ Becomes(i, c, OneMore(c, OneLess(b, n)))
      /\ CallHandlers({b.type}, "Eval", asrt', count')
      /\ ArmTimers(asrt, asrt', timer, kick)
  BY DEF moveDeadline, l
<1> HIDE DEF c
<1>3. /\ OneMore(c, OneLess(b, n)) \in Nat /\ Owned(b, c) /\ b.type = T /\ c.type = T
      /\ OneLess(c, n) = OneLess(b, n) /\ CountLimited(asrt[i], c) = n
  BY <1>1, CountNat DEF Asked, Owned, Kept, OneLess, CountLimited
<1>4. /\ TableOK(asrt') /\ asrt'[i] = c /\ Owned(asrt[i], asrt'[i])
      /\ \A j \in Ids \ {i} : Alike(asrt[j], asrt'[j])
      /\ count' \in [Types -> Nat] /\ count' = [count EXCEPT ![T] = OneMore(c, OneLess(b, n))]
  BY <1>0, <1>1, <1>2, <1>3, BecomesFact
<1>5. TableStep
  <2>1. CASE ~Strict
    BY <1>2, <1>4, <2>1 DEF TableStep, Odd
  <2>2. CASE Strict
    <3>1. IsActive(asrt[i])
      BY <2>2, ActiveLists DEF Asked, Slots
    <3>2. IsActive(asrt'[i])
      BY <1>0, <1>1, <1>4 DEF IsActive
    <3>3. asrt'[i].batt # asrt[i].batt => T \in NotValidOnBatt
      BY <1>1, <1>4 DEF Asked
    <3>4. Adjusted(i, {T}, "Eval")
      BY <1>2, <1>3, <1>4, <3>1, <3>2, <3>3 DEF Adjusted, Asked
    <3> QED
      BY <3>4 DEF TableStep
  <2> QED
    BY <2>1, <2>2
<1>6. timer' \in [Types -> Nat] /\ kick' \in [Types -> BOOLEAN]
  BY <1>2, <1>4, ArmType DEF TypeOK
<1> QED
  BY <1>2, <1>4, <1>5, <1>6 DEF SetDone

LEMMA PowerStep ==
  ASSUME TypeOK, NEW i \in Ids, NEW b, NEW n, Asked(i, b, n), changePower(i, b, n),
         b.timeout = asrt[i].timeout, Strict => IsActive(asrt[i]) \/ b.batt = asrt[i].batt
  PROVE  SetDone(i)
<1> DEFINE T == asrt[i].type
<1>1. /\ Becomes(i, b, n) /\ UNCHANGED timers
      /\ IF b.batt # asrt[i].batt /\ b.list # "inactive"
           THEN CallHandlers({T}, IF b.batt THEN "Raise" ELSE "Release", asrt', count')
           ELSE UNCHANGED kernel
  BY DEF changePower, Asked, Kept
<1>2. b \in AssertionType /\ Owned(b, b) /\ b.list # "free" /\ n \in Nat
  BY DEF Asked, Owned
<1>3. /\ TableOK(asrt') /\ asrt'[i] = b /\ Owned(asrt[i], asrt'[i])
      /\ \A j \in Ids \ {i} : Alike(asrt[j], asrt'[j])
      /\ count' \in [Types -> Nat] /\ count' = [count EXCEPT ![T] = n]
  BY <1>1, <1>2, BecomesFact
<1>4. \E U, op : CallHandlers(U, op, asrt', count')
  BY <1>1, NoHandlers
<1>5. TableStep
  <2>1. CASE ~Strict
    BY <1>3, <1>4, <2>1 DEF TableStep, Odd
  <2>2. CASE Strict /\ b.batt # asrt[i].batt
    <3>1. IsActive(asrt[i]) /\ IsActive(asrt'[i]) /\ b.list # "inactive"
      BY <1>3, <2>2 DEF Asked, IsActive
    <3>2. Adjusted(i, {T}, IF b.batt THEN "Raise" ELSE "Release")
      BY <1>1, <1>3, <2>2, <3>1 DEF Adjusted, Asked
    <3> QED
      BY <3>2 DEF TableStep
  <2>3. CASE b.batt = asrt[i].batt
    <3>1. n = count[T] /\ UNCHANGED kernel
      BY <1>1, <2>3 DEF Asked, CountLimited
    <3>2. \A j \in Ids : Alike(asrt[j], asrt'[j])
      BY <1>3, <2>3 DEF Alike, Asked
    <3>6. count' = count /\ count \in [Types -> Nat]
      BY <1>3, <3>1 DEF TypeOK
    <3>3. count' = CountIn(asrt', {})
      BY <3>6, FS_EmptySet DEF CountIn
    <3>4. CallHandlers({}, "Raise", asrt', count')
      BY <3>1, NoHandlers
    <3>5. In({}, {}, "Raise")
      BY <1>3, <3>2, <3>3, <3>4 DEF In
    <3> QED
      BY <3>5 DEF TableStep
  <2> QED
    BY <2>1, <2>2, <2>3
<1>6. \A j \in Ids : /\ asrt'[j].type = asrt[j].type /\ asrt'[j].list = asrt[j].list
                     /\ asrt'[j].timeout = asrt[j].timeout
  BY <1>3 DEF Asked, Kept, Alike
<1>7. ArmTimers(asrt, asrt', timer, kick)
  BY <1>1, <1>3, <1>6, ArmSame
<1>8. timer' \in [Types -> Nat] /\ kick' \in [Types -> BOOLEAN]
  BY <1>1 DEF timers, TypeOK
<1> QED
  BY <1>3, <1>5, <1>7, <1>8 DEF SetDone

LEMMA SetStep ==
  ASSUME TypeOK, NEW i \in Ids, NEW r \in PropertyRequests, doSetProperties(i, r)
  PROVE  /\ SetDone(i) /\ asrt[i].pid \notin suspended
         /\ UNCHANGED <<suspended, config, now, powers>>
<1> DEFINE bits == Forwarded(i, r)
           b == WithProperties(asrt[i], r)
           n == CountLimited(asrt[i], b)
<1>1. Asked(i, b, n) /\ (r.timeout = Keep => b.timeout = asrt[i].timeout)
  BY AskedFact
<1>2. /\ MaySet(i) /\ Allowed(i, b, bits)
      /\ IF "ModLevel" \in bits
           THEN IF "Inactive" \in bits THEN turnOff(i, b, n) ELSE turnOn(i, b, n)
           ELSE IF "ModTimer" \in bits THEN moveDeadline(i, b, n) ELSE changePower(i, b, n)
      /\ UNCHANGED <<suspended, config, now, powers>>
  BY DEF doSetProperties
<1>3. "ModLevel" \notin bits => /\ "ModTimer" \in bits => asrt[i].list # "inactive"
                                /\ "ModTimer" \notin bits => r.timeout = Keep
  BY BitsFact
<1> HIDE DEF b, n, bits
<1>4. asrt[i].pid \notin suspended
  BY <1>2 DEF MaySet
<1>5. Strict /\ bits # {} => asrt[i].list # "suspended"
  BY <1>2 DEF Strict, Allowed, MaySet, Forgotten
<1>6. Strict => IsActive(asrt[i]) \/ b.batt = asrt[i].batt
  BY <1>2 DEF Strict, Allowed
<1>7. "bothWays" \notin Ops /\ "ModLevel" \in bits
        => ("Inactive" \in bits <=> asrt[i].list # "inactive")
  BY <1>2 DEF Allowed
<1>8. Strict => "bothWays" \notin Ops
  BY DEF Strict
<1>9. CASE "ModLevel" \in bits /\ "Inactive" \in bits
  <2>1. turnOff(i, b, n)
    BY <1>2, <1>9
  <2>2. Strict => asrt[i].list # "inactive" /\ asrt[i].list # "suspended"
    BY <1>5, <1>7, <1>8, <1>9
  <2> QED
    BY <1>1, <1>2, <1>4, <2>1, <2>2, OffStep
<1>10. CASE "ModLevel" \in bits /\ "Inactive" \notin bits
  <2>1. turnOn(i, b, n) /\ ("bothWays" \notin Ops => asrt[i].list = "inactive")
    BY <1>2, <1>7, <1>10
  <2>2. Strict => b.batt = asrt[i].batt
    BY <1>6, <1>8, <2>1 DEF IsActive
  <2> QED
    BY <1>1, <1>2, <1>4, <2>1, <2>2, OnStep
<1>11. CASE "ModLevel" \notin bits /\ "ModTimer" \in bits
  <2>1. moveDeadline(i, b, n) /\ asrt[i].list # "inactive"
    BY <1>2, <1>3, <1>11
  <2>2. Strict => asrt[i].list # "suspended"
    BY <1>5, <1>11
  <2> QED
    BY <1>1, <1>2, <1>4, <2>1, <2>2, DeadlineStep
<1>12. CASE "ModLevel" \notin bits /\ "ModTimer" \notin bits
  <2>1. changePower(i, b, n) /\ b.timeout = asrt[i].timeout
    BY <1>1, <1>2, <1>3, <1>12
  <2> QED
    BY <1>1, <1>2, <1>4, <1>6, <2>1, PowerStep
<1> QED
  BY <1>9, <1>10, <1>11, <1>12

\* Some slots are freed or go to the inactive or the suspended list.
LEMMA OutStep ==
  ASSUME TypeOK, NEW S \in SUBSET Ids, NEW as, TableOK(as), asrt' = as,
         \A j \in Ids \ S : as[j] = asrt[j],
         \A j \in S : ~IsActive(as[j]),
         NEW U, \A j \in S : IsActive(asrt[j]) => asrt[j].type \in U,
         Strict => \A j \in S : asrt[j].list # "suspended",
         count' = CountOut(S), NEW op \in {"Release", "Eval"},
         CallHandlers(U, op, as, count')
  PROVE  TableStep /\ \A j \in Ids \ S : Alike(asrt[j], asrt'[j])
<1>1. \A j \in Ids \ S : Alike(asrt[j], asrt'[j])
  BY DEF Alike, Kept
<1>2. Out(S, U, op)
  BY <1>1 DEF Out
<1> QED
  BY <1>1, <1>2 DEF TableStep

LEMMA ExitStep ==
  ASSUME TypeOK, NEW p \in Pids, HandleProcessExit(p)
  PROVE  /\ TableStep /\ ArmTimers(asrt, asrt', timer, kick) /\ suspended' = suspended \ {p}
         /\ \A j \in Ids : asrt'[j] = Free \/ Alike(asrt[j], asrt'[j])
<1> DEFINE gone == {i \in Used : asrt[i].pid = p}
           as == [i \in Ids |-> IF i \in gone THEN Free ELSE asrt[i]]
<1>1. /\ asrt' = as /\ count' = CountOut(gone) /\ MayRelease(gone)
      /\ CallHandlers(Types, "Release", as, count')
      /\ ArmTimers(asrt, asrt', timer, kick) /\ suspended' = suspended \ {p}
  BY DEF HandleProcessExit
<1>2. gone \in SUBSET Ids /\ \A j \in gone : asrt[j].list # "free"
  BY DEF Used
<1>3. \A j \in Ids : as[j] = IF j \in gone THEN Free ELSE asrt[j]
  OBVIOUS
<1>4. TableOK(as)
  BY HalvesFact, FreeFact DEF TableOK
<1>5. Strict => \A j \in gone : asrt[j].list # "suspended"
  BY <1>1 DEF Strict, MayRelease
<1> HIDE DEF gone, as
<1>6. \A j \in gone : ~IsActive(as[j])
  BY <1>2, <1>3, FreeFact DEF IsActive
<1>7. \A j \in gone : asrt[j].type \in Types
  BY <1>2, TypeOfUsed
<1>8. TableStep /\ \A j \in Ids \ gone : Alike(asrt[j], asrt'[j])
  BY <1>1, <1>2, <1>3, <1>4, <1>5, <1>6, <1>7, OutStep
<1> QED
  BY <1>1, <1>2, <1>3, <1>8

LEMMA ExpireStep ==
  ASSUME TypeOK, NEW T \in Types, NEW tm, NEW kk, ExpireDue(T, tm, kk)
  PROVE  /\ TableStep /\ ArmTimers(asrt, asrt', tm, kk) /\ suspended' \subseteq suspended
         /\ \A j \in Ids : \/ asrt'[j] = Free
                           \/ Alike(asrt[j], asrt'[j])
                           \/ /\ Kept(asrt[j], asrt'[j]) /\ asrt'[j].list = "inactive"
                              /\ asrt[j].list = "timed"
         /\ \A j \in Due(T) : ~IsActive(asrt'[j])
         /\ \A j \in Ids \ Due(T) : asrt'[j] = asrt[j]
<1> DEFINE due == Due(T)
           as == [i \in Ids |-> IF i \notin due THEN asrt[i]
                                ELSE IF asrt[i].drop THEN Free
                                ELSE [asrt[i] EXCEPT !.list = "inactive"]]
<1>1. /\ asrt' = as /\ count' = CountOut(due)
      /\ IF due # {} THEN CallHandlers({T}, "Release", as, count') ELSE UNCHANGED kernel
      /\ ArmTimers(asrt, asrt', tm, kk) /\ suspended' = StillKnown(as)
  BY DEF ExpireDue
<1>2. due \in SUBSET Ids /\ \A j \in due : asrt[j].list = "timed" /\ asrt[j].type = T
  BY DEF Due, Timed
<1>3. /\ \A j \in Ids : as[j] = IF j \notin due THEN asrt[j] ELSE IF asrt[j].drop THEN Free
                                ELSE Listed(asrt[j], "inactive")
  BY DEF Listed
<1>4. as = [j \in Ids |-> as[j]]
  OBVIOUS
<1> HIDE DEF due, as
<1>5. ASSUME NEW j \in due
      PROVE  /\ as[j] \in Slots /\ ~IsActive(as[j])
             /\ \/ as[j] = Free
                \/ Kept(asrt[j], as[j]) /\ as[j].list = "inactive" /\ asrt[j].list = "timed"
  <2> DEFINE b == Listed(asrt[j], "inactive")
  <2>1. asrt[j] \in Slots /\ asrt[j] \in AssertionType /\ SlotOK(asrt[j]) /\ j \in Ids
    BY <1>2, HalvesFact, SlotFact
  <2>2. b \in AssertionType /\ Kept(asrt[j], b) /\ b.refs = asrt[j].refs /\ b.list = "inactive"
    BY <2>1, ListFact DEF Lists
  <2> HIDE DEF b
  <2>3. b \in Slots
    BY <1>2, <2>1, <2>2, KeptSlot DEF SlotOK
  <2>4. as[j] = Free \/ as[j] = b
    BY <1>2, <1>3 DEF b
  <2> QED
    BY <1>2, <2>2, <2>3, <2>4, FreeFact DEF IsActive
<1>6. \A j \in Ids \ due : as[j] = asrt[j] /\ as[j] \in Slots
  BY <1>3, HalvesFact, SlotFact
<1>7. TableOK(as)
  BY <1>4, <1>5, <1>6 DEF TableOK
<1>8. \E U \in {{}, {T}} : /\ \A j \in due : IsActive(asrt[j]) => asrt[j].type \in U
                           /\ CallHandlers(U, "Release", as, count')
  <2>1. CASE due # {}
    BY <1>1, <1>2, <2>1
  <2>2. CASE due = {}
    <3>1. CallHandlers({}, "Release", as, count')
      BY <1>1, <2>2, NoHandlers
    <3> QED
      BY <2>2, <3>1
  <2> QED
    BY <2>1, <2>2
<1>9. TableStep /\ \A j \in Ids \ due : Alike(asrt[j], asrt'[j])
  <2>1. PICK U \in {{}, {T}} : /\ \A j \in due : IsActive(asrt[j]) => asrt[j].type \in U
                               /\ CallHandlers(U, "Release", as, count')
    BY <1>8
  <2>2. \A j \in due : asrt[j].list # "suspended"
    BY <1>2
  <2>3. "Release" \in {"Release", "Eval"}
    OBVIOUS
  <2> QED
    BY <1>1, <1>2, <1>5, <1>6, <1>7, <2>1, <2>2, <2>3, OutStep
<1>10. suspended' \subseteq suspended
  BY <1>1 DEF StillKnown
<1>11. \A j \in Ids : \/ asrt'[j] = Free
                      \/ Alike(asrt[j], asrt'[j])
                      \/ Kept(asrt[j], asrt'[j]) /\ asrt'[j].list = "inactive" /\ asrt[j].list = "timed"
  BY <1>1, <1>5, <1>9
<1> QED
  BY <1>1, <1>5, <1>6, <1>9, <1>10, <1>11 DEF due

\* The assertion on the suspended list, with the time it had left.
Shelved(a, n) == [a EXCEPT !.list = "suspended", !.left = n]

LEMMA ShelvedFact ==
  ASSUME NEW a \in AssertionType, NEW n \in Nat
  PROVE  /\ Shelved(a, n) \in AssertionType /\ Kept(a, Shelved(a, n))
         /\ Shelved(a, n).refs = a.refs /\ Shelved(a, n).list = "suspended"
BY DEF Shelved, AssertionType, Lists, Kept

LEMMA SuspendStep ==
  ASSUME TypeOK, NEW p \in Pids, handleAssertionSuspend(p)
  PROVE  /\ TableStep /\ ArmTimers(asrt, asrt', timer, kick) /\ suspended' = suspended \cup {p}
         /\ \A j \in Ids : asrt[j].list # "free" /\ Belongs(j, p) => asrt'[j].list = "suspended"
         /\ \A j \in Ids : \/ Kept(asrt[j], asrt'[j]) /\ asrt'[j].list = "suspended"
                           \/ Alike(asrt[j], asrt'[j])
<1> DEFINE S == {i \in Used : Belongs(i, p) /\ asrt[i].list # "suspended"}
           n(i) == IF asrt[i].timeout > now THEN asrt[i].timeout - now ELSE asrt[i].left
           as == [i \in Ids |-> IF i \notin S THEN asrt[i]
                    ELSE [asrt[i] EXCEPT !.list = "suspended",
                            !.left = IF asrt[i].timeout > now
                                       THEN asrt[i].timeout - now ELSE @]]
<1>1. /\ asrt' = as /\ count' = CountOut(S) /\ suspended' = suspended \cup {p}
      /\ CallHandlers(Types, "Eval", as, count') /\ ArmTimers(asrt, asrt', timer, kick)
  BY DEF handleAssertionSuspend
<1>2. S \in SUBSET Ids /\ \A j \in S : asrt[j].list # "free" /\ asrt[j].list # "suspended"
  BY DEF Used
<1>3. \A j \in Ids : as[j] = IF j \notin S THEN asrt[j] ELSE Shelved(asrt[j], n(j))
  BY DEF Shelved
<1>4. as = [j \in Ids |-> as[j]]
  OBVIOUS
<1>5. \A j \in Ids : asrt[j].list # "free" /\ Belongs(j, p) => j \in S \/ asrt[j].list = "suspended"
  BY DEF Used
<1>6. \A j \in S : n(j) \in Nat
  <2>1. \A j \in S : asrt[j].timeout \in Nat /\ asrt[j].left \in Nat /\ now \in Nat
    BY <1>2 DEF TypeOK, AssertionType
  <2> QED
    BY <2>1
<1> HIDE DEF S, as, n
<1>7. ASSUME NEW j \in S
      PROVE  /\ as[j] \in Slots /\ ~IsActive(as[j])
             /\ Kept(asrt[j], as[j]) /\ as[j].list = "suspended"
  <2>1. asrt[j] \in Slots /\ asrt[j] \in AssertionType /\ SlotOK(asrt[j]) /\ j \in Ids
    BY <1>2, HalvesFact, SlotFact
  <2>2. as[j] = Shelved(asrt[j], n(j)) /\ n(j) \in Nat
    BY <1>2, <1>3, <1>6
  <2>3. /\ as[j] \in AssertionType /\ Kept(asrt[j], as[j]) /\ as[j].refs = asrt[j].refs
        /\ as[j].list = "suspended"
    BY <2>1, <2>2, ShelvedFact
  <2>4. as[j] \in Slots
    BY <1>2, <2>1, <2>3, KeptSlot DEF SlotOK
  <2> QED
    BY <2>3, <2>4 DEF IsActive
<1>8. \A j \in Ids \ S : as[j] = asrt[j] /\ as[j] \in Slots
  BY <1>3, HalvesFact, SlotFact
<1>9. TableOK(as)
  BY <1>4, <1>7, <1>8 DEF TableOK
<1>10. \A j \in S : asrt[j].type \in Types
  BY <1>2, TypeOfUsed
<1>11. TableStep /\ \A j \in Ids \ S : Alike(asrt[j], asrt'[j])
  <2>1. "Eval" \in {"Release", "Eval"}
    OBVIOUS
  <2> QED
    BY <1>1, <1>2, <1>7, <1>8, <1>9, <1>10, <2>1, OutStep
<1>12. \A j \in Ids : asrt[j].list # "free" /\ Belongs(j, p) => asrt'[j].list = "suspended"
  BY <1>1, <1>5, <1>7, <1>8
<1> QED
  BY <1>1, <1>7, <1>11, <1>12

LEMMA ResumeStep ==
  ASSUME TypeOK, NEW p \in Pids, handleAssertionResume(p)
  PROVE  /\ TableStep /\ ArmTimers(asrt, asrt', timer, kick) /\ suspended' = suspended \ {p}
         /\ \A j \in Ids : \/ Kept(asrt[j], asrt'[j]) /\ Belongs(j, p)
                           \/ Alike(asrt[j], asrt'[j])
<1> DEFINE S == {i \in Used : Belongs(i, p) /\ asrt[i].list = "suspended"}
           as == [i \in Ids |-> IF i \in S THEN resumeAssertion(asrt[i]) ELSE asrt[i]]
<1>1. /\ asrt' = as /\ count' = CountIn(as, S) /\ suspended' = suspended \ {p}
      /\ CallHandlers(Types, "Eval", as, count') /\ ArmTimers(asrt, asrt', timer, kick)
  BY DEF handleAssertionResume
<1>2. S \in SUBSET Ids /\ \A j \in S : asrt[j].list = "suspended" /\ Belongs(j, p)
  BY DEF Used
<1>3. \A j \in Ids : as[j] = IF j \in S THEN resumeAssertion(asrt[j]) ELSE asrt[j]
  OBVIOUS
<1>4. as = [j \in Ids |-> as[j]]
  OBVIOUS
<1> HIDE DEF S, as
<1>5. ASSUME NEW j \in S
      PROVE  as[j] \in Slots /\ Kept(asrt[j], as[j]) /\ as[j].type \in Types
  <2>1. asrt[j] \in Slots /\ asrt[j] \in AssertionType /\ SlotOK(asrt[j]) /\ j \in Ids
    BY <1>2, HalvesFact, SlotFact
  <2>2. now \in Nat /\ as[j] = resumeAssertion(asrt[j])
    BY <1>2, <1>3 DEF TypeOK
  <2>3. /\ as[j] \in AssertionType /\ Kept(asrt[j], as[j]) /\ as[j].refs = asrt[j].refs
        /\ as[j].list \in {"active", "timed", "inactive"}
    BY <2>1, <2>2, ResumeFact
  <2>4. as[j] \in Slots
    BY <1>2, <2>1, <2>3, KeptSlot DEF SlotOK
  <2>5. asrt[j].type \in Types
    BY <1>2, <2>1, TypeOfUsed
  <2> QED
    BY <2>3, <2>4, <2>5 DEF Kept
<1>6. \A j \in Ids \ S : as[j] = asrt[j] /\ as[j] \in Slots
  BY <1>3, HalvesFact, SlotFact
<1>7. TableOK(as)
  BY <1>4, <1>5, <1>6 DEF TableOK
<1>8. \A j \in Ids \ S : Alike(asrt[j], asrt'[j])
  BY <1>1, <1>6 DEF Alike, Kept
<1>9. \A j \in S : ~IsActive(asrt[j])
  BY <1>2 DEF IsActive
<1>10. In(S, Types, "Eval")
  BY <1>1, <1>2, <1>5, <1>7, <1>8, <1>9 DEF In
<1> QED
  BY <1>1, <1>2, <1>5, <1>8, <1>10 DEF TableStep

-----------------------------------------------------------------------------
(* Types.                                                                   *)

LEMMA IdsFinite ==
  ASSUME NEW S, S \subseteq Ids
  PROVE  IsFiniteSet(S) /\ Cardinality(S) \in Nat
BY ConstantsAssumption, FS_Subset, FS_CardinalityType DEF ConstantsAssumption

LEMMA CountInType ==
  ASSUME TypeOK, NEW as, NEW S \in SUBSET Ids
  PROVE  CountIn(as, S) \in [Types -> Nat]
<1>1. ASSUME NEW T \in Types
      PROVE  count[T] + Cardinality({i \in S : as[i].type = T /\ Counted(as[i])}) \in Nat
  <2>1. Cardinality({i \in S : as[i].type = T /\ Counted(as[i])}) \in Nat
    BY IdsFinite
  <2>2. count[T] \in Nat
    BY DEF TypeOK
  <2> QED
    BY <2>1, <2>2
<1> QED
  BY <1>1 DEF CountIn

LEMMA CountOutType ==
  ASSUME TypeOK, NEW S \in SUBSET Ids
  PROVE  CountOut(S) \in [Types -> Nat]
<1> DEFINE n(T) == Cardinality({i \in S : /\ asrt[i].type = T /\ asrt[i].batt
                                          /\ asrt[i].list # "inactive"})
<1>1. ASSUME NEW T \in Types
      PROVE  (IF n(T) > count[T] THEN 0 ELSE count[T] - n(T)) \in Nat
  <2>1. n(T) \in Nat
    BY IdsFinite
  <2>2. count[T] \in Nat
    BY DEF TypeOK
  <2> HIDE DEF n
  <2> QED
    BY <2>1, <2>2
<1> QED
  BY <1>1 DEF CountOut

LEMMA LevelType ==
  ASSUME NEW lv \in [Types -> BOOLEAN], NEW S, NEW as, NEW ct, NEW eff, NEW linked
  PROVE  LevelAfter(lv, S, as, ct, eff, linked) \in [Types -> BOOLEAN]
<1>1. ASSUME NEW T \in Types
      PROVE  (IF T \in S /\ eff[T] # NoEffect
                THEN linked[T] = eff[T] /\ TypeActive(T, as, ct) ELSE lv[T]) \in BOOLEAN
  BY DEF TypeActive
<1> QED
  BY <1>1 DEF LevelAfter

LEMMA RaisedType ==
  ASSUME NEW ra, NEW lv, NEW S, NEW op, NEW as, NEW ct, NEW eff, NEW linked
  PROVE  RaisedAfter(ra, lv, S, op, as, ct, eff, linked) \subseteq Effects
BY DEF RaisedAfter

LEMMA HandlersType ==
  ASSUME TypeOK, NEW U, NEW op, CallHandlers(U, op, asrt', count')
  PROVE  level' \in [Types -> BOOLEAN] /\ raised' \subseteq Effects
<1>1. level \in [Types -> BOOLEAN]
  BY DEF TypeOK
<1> QED
  BY <1>1, LevelType, RaisedType DEF CallHandlers

LEMMA TableStepType ==
  ASSUME TypeOK, TableStep
  PROVE  /\ TableOK(asrt') /\ count' \in [Types -> Nat]
         /\ level' \in [Types -> BOOLEAN] /\ raised' \subseteq Effects
<1>1. CASE \E S, U, op : In(S, U, op) \/ Out(S, U, op)
  <2>1. PICK S, U, op : In(S, U, op) \/ Out(S, U, op)
    BY <1>1
  <2>2. /\ S \in SUBSET Ids /\ TableOK(asrt') /\ CallHandlers(U, op, asrt', count')
        /\ count' = CountIn(asrt', S) \/ count' = CountOut(S)
    BY <2>1 DEF In, Out
  <2>3. count' \in [Types -> Nat]
    BY <2>2, CountInType, CountOutType
  <2> QED
    BY <2>2, <2>3, HandlersType
<1>2. CASE Odd
  BY <1>2, HandlersType DEF Odd
<1>3. CASE \E i, U, op : Adjusted(i, U, op)
  <2>1. PICK i, U, op : Adjusted(i, U, op)
    BY <1>3
  <2> DEFINE T == asrt[i].type
             n == CountLimited(asrt[i], asrt'[i])
             m == OneMore(asrt'[i], OneLess(asrt'[i], n))
  <2>2. T \in Types /\ count \in [Types -> Nat] /\ count[T] \in Nat
    BY <2>1 DEF Adjusted, TypeOK
  <2>3. n \in Nat
    BY <2>2 DEF CountLimited
  <2>4. count' = [count EXCEPT ![T] = n] \/ count' = [count EXCEPT ![T] = m]
    BY <2>1 DEF Adjusted
  <2> HIDE DEF n
  <2>5. m \in Nat
    BY <2>3, CountNat
  <2> HIDE DEF T, m
  <2>6. count' \in [Types -> Nat]
    BY <2>2, <2>3, <2>4, <2>5
  <2> QED
    BY <2>1, <2>6, HandlersType DEF Adjusted
<1> QED
  BY <1>1, <1>2, <1>3 DEF TableStep

\* The steps that change the table leave the configuration and the power source.
LEMMA TableRest ==
  ASSUME TypeOK, TableStep, timer' \in [Types -> Nat], kick' \in [Types -> BOOLEAN],
         suspended' \subseteq Pids, UNCHANGED <<config, now, powers>>
  PROVE  TypeOK'
<1>1. /\ TableOK(asrt') /\ count' \in [Types -> Nat]
      /\ level' \in [Types -> BOOLEAN] /\ raised' \subseteq Effects
  BY TableStepType
<1>2. RestOK'
  BY <1>1 DEF RestOK, TypeOK, config, powers
<1> QED
  BY <1>1, <1>2, HalvesNext

LEMMA EffectFact ==
  ASSUME power \in Powers, NEW T \in Types, NEW off
  PROVE  /\ ConfiguredEffect(T) \in Effects /\ ConfiguredEffect(T) # NoEffect
         /\ NewEffect(T, off) \in Effects \cup {NoEffect}
         /\ NewEffect(T, off) = NoEffect <=> T \in off
<1>1. ConfiguredEffect(T) \in Effects /\ ConfiguredEffect(T) # NoEffect
  BY ConstantsAssumption DEF ConstantsAssumption, AllTypes, ConfiguredEffect, Effects, NoEffect, Powers
<1> QED
  BY <1>1 DEF NewEffect

\* A type is disabled or enabled, or the network access type follows the power source.
LEMMA ConfigType ==
  ASSUME TypeOK, NEW S, NEW off \in SUBSET Types, disabled' = off,
         \A T \in Types \ S : T \in off <=> T \in disabled,
         NEW lv \in [Types -> BOOLEAN], NEW ra, configAssertionType(S, off, lv, ra)
  PROVE  /\ effect' \in [Types -> Effects \cup {NoEffect}]
         /\ \A T \in Types : effect'[T] = NoEffect <=> T \in disabled'
         /\ level' \in [Types -> BOOLEAN] /\ raised' \subseteq Effects
<1> DEFINE moving == {T \in S \cap Types : NewEffect(T, off) # effect[T]}
           out == [T \in Types |-> IF T \in moving THEN NoEffect ELSE effect[T]]
           eff == [T \in Types |-> IF T \in moving THEN NewEffect(T, off) ELSE effect[T]]
           lv1 == LevelAfter(lv, moving, asrt, count, effect, out)
           ra1 == RaisedAfter(ra, lv, moving, "Eval", asrt, count, effect, out)
<1>1. /\ effect' = eff
      /\ level' = LevelAfter(lv1, moving, asrt, count, eff, eff)
      /\ raised' = RaisedAfter(ra1, lv1, moving, "Eval", asrt, count, eff, eff)
  BY DEF configAssertionType
<1>2. ASSUME NEW T \in Types
      PROVE  /\ effect[T] \in Effects \cup {NoEffect}
             /\ NewEffect(T, off) \in Effects \cup {NoEffect}
             /\ NewEffect(T, off) = NoEffect <=> T \in off
             /\ effect[T] = NoEffect <=> T \in disabled
  BY EffectFact DEF TypeOK
<1>3. ASSUME NEW T \in Types PROVE T \in S => eff[T] = NewEffect(T, off)
  OBVIOUS
<1>4. ASSUME NEW T \in Types PROVE T \notin S => eff[T] = effect[T]
  OBVIOUS
<1>5. eff = [T \in Types |-> eff[T]]
  OBVIOUS
<1> HIDE DEF moving, out, eff
<1>6. lv1 \in [Types -> BOOLEAN]
  BY LevelType
<1> HIDE DEF lv1, ra1
<1>7. level' \in [Types -> BOOLEAN] /\ raised' \subseteq Effects
  BY <1>1, <1>6, LevelType, RaisedType
<1>8. ASSUME NEW T \in Types
      PROVE  eff[T] \in Effects \cup {NoEffect} /\ (eff[T] = NoEffect <=> T \in disabled')
  <2>1. CASE T \in S
    BY <1>2, <1>3, <2>1
  <2>2. CASE T \notin S
    BY <1>2, <1>4, <2>2
  <2> QED
    BY <2>1, <2>2
<1>9. eff \in [Types -> Effects \cup {NoEffect}]
  BY <1>5, <1>8
<1> QED
  BY <1>1, <1>7, <1>8, <1>9

LEMMA ConfigRest ==
  ASSUME TypeOK, UNCHANGED <<tables, timers, now>>,
         effect' \in [Types -> Effects \cup {NoEffect}], disabled' \subseteq Types,
         \A T \in Types : effect'[T] = NoEffect <=> T \in disabled',
         level' \in [Types -> BOOLEAN], raised' \subseteq Effects,
         power' \in Powers, prevPower' \in Powers, evalQueued' \in BOOLEAN
  PROVE  TypeOK'
<1>1. TableOK(asrt)' /\ RestOK'
  BY HalvesFact DEF TypeOK, RestOK, tables, timers
<1> QED
  BY <1>1, HalvesNext

\* A client's or a process's step arms the timers it has to.
LEMMA RequestArms ==
  ASSUME TypeOK, Request \/ ProcessEvent
  PROVE  /\ TableStep /\ timer' \in [Types -> Nat] /\ kick' \in [Types -> BOOLEAN]
         /\ "bothWays" \notin Ops => ArmTimers(asrt, asrt', timer, kick)
         /\ UNCHANGED <<config, now, powers>> /\ suspended' \subseteq Pids
<1>0. suspended \subseteq Pids /\ timer \in [Types -> Nat] /\ kick \in [Types -> BOOLEAN]
  BY DEF TypeOK
<1>1. ASSUME TableStep, ArmTimers(asrt, asrt', timer, kick)
      PROVE  timer' \in [Types -> Nat] /\ kick' \in [Types -> BOOLEAN]
  BY <1>0, <1>1, TableStepType, ArmType
<1>2. CASE Request
  <2>1. PICK i \in Ids : \/ \E p \in Pids : doCreate(i, p)
                         \/ doRetain(i) \/ doRelease(i)
                         \/ \E r \in PropertyRequests : doSetProperties(i, r)
    BY <1>2 DEF Request
  <2>2. CASE \E p \in Pids : doCreate(i, p)
    <3>1. PICK p \in Pids : doCreate(i, p)
      BY <2>2
    <3>2. suspended' = suspended /\ UNCHANGED <<config, now, powers>>
      BY <3>1 DEF doCreate
    <3>3. TableStep /\ ArmTimers(asrt, asrt', timer, kick)
      BY <3>1, CreateStep
    <3> QED
      BY <1>0, <1>1, <3>2, <3>3
  <2>3. CASE doRetain(i) \/ (doRelease(i) /\ asrt[i].refs > 1)
    <3>1. TableStep /\ ArmTimers(asrt, asrt', timer, kick)
      BY <2>3, RetainStep
    <3> QED
      BY <1>0, <1>1, <2>3, <3>1, RetainFact
  <2>4. CASE doRelease(i) /\ ~(asrt[i].refs > 1)
    <3>1. /\ TableStep /\ ArmTimers(asrt, asrt', timer, kick) /\ suspended' \subseteq suspended
      BY <2>4, ReleaseStep
    <3>2. UNCHANGED <<config, now, powers>>
      BY <2>4 DEF doRelease
    <3> QED
      BY <1>0, <1>1, <3>1, <3>2
  <2>5. CASE \E r \in PropertyRequests : doSetProperties(i, r)
    BY <1>0, <2>5, SetStep DEF SetDone
  <2> QED
    BY <2>1, <2>2, <2>3, <2>4, <2>5
<1>3. CASE ProcessEvent
  <2>1. PICK p \in Pids : \/ HandleProcessExit(p) \/ handleAssertionSuspend(p)
                          \/ handleAssertionResume(p)
    BY <1>3 DEF ProcessEvent
  <2>2. UNCHANGED <<config, now, powers>>
    BY <2>1 DEF HandleProcessExit, handleAssertionSuspend, handleAssertionResume
  <2>3. /\ TableStep /\ ArmTimers(asrt, asrt', timer, kick)
        /\ suspended' \subseteq suspended \cup {p}
    BY <2>1, ExitStep, SuspendStep, ResumeStep
  <2> QED
    BY <1>0, <1>1, <2>2, <2>3
<1> QED
  BY <1>2, <1>3

LEMMA RequestType == ASSUME TypeOK, Request \/ ProcessEvent PROVE TypeOK'
BY RequestArms, TableRest

LEMMA TimersType ==
  ASSUME TypeOK, NEW T \in Types, handleAssertionTimeout(T)
  PROVE  \E tm \in [Types -> Nat], kk \in [Types -> BOOLEAN] :
            /\ ExpireDue(T, tm, kk)
            /\ \A V \in Types \ {T} : tm[V] = timer[V] /\ (kk[V] <=> kick[V])
<1>1. timer \in [Types -> Nat] /\ kick \in [Types -> BOOLEAN]
  BY DEF TypeOK
<1>2. CASE ExpireDue(T, [timer EXCEPT ![T] = 0], kick)
  <2>1. [timer EXCEPT ![T] = 0] \in [Types -> Nat]
    BY <1>1
  <2>2. \A V \in Types \ {T} : [timer EXCEPT ![T] = 0][V] = timer[V]
    BY <1>1
  <2> QED
    BY <1>1, <1>2, <2>1, <2>2
<1>3. CASE ExpireDue(T, timer, [kick EXCEPT ![T] = FALSE])
  <2>1. [kick EXCEPT ![T] = FALSE] \in [Types -> BOOLEAN]
    BY <1>1
  <2>2. \A V \in Types \ {T} : [kick EXCEPT ![T] = FALSE][V] <=> kick[V]
    BY <1>1
  <2> QED
    BY <1>1, <1>3, <2>1, <2>2
<1> QED
  BY <1>2, <1>3 DEF handleAssertionTimeout

LEMMA TimeoutType == ASSUME TypeOK, Timeout PROVE TypeOK'
<1>1. PICK T \in Types : handleAssertionTimeout(T)
  BY DEF Timeout
<1>2. PICK tm \in [Types -> Nat], kk \in [Types -> BOOLEAN] : ExpireDue(T, tm, kk)
  BY <1>1, TimersType
<1>3. TableStep /\ ArmTimers(asrt, asrt', tm, kk) /\ suspended' \subseteq suspended
  BY <1>2, ExpireStep
<1>4. UNCHANGED <<config, now, powers>> /\ suspended \subseteq Pids
  BY <1>2 DEF ExpireDue, TypeOK
<1>5. timer' \in [Types -> Nat] /\ kick' \in [Types -> BOOLEAN]
  BY <1>3, TableStepType, ArmType
<1> QED
  BY <1>3, <1>4, <1>5, TableRest

LEMMA EnvironmentType == ASSUME TypeOK, Environment PROVE TypeOK'
<1>0. level \in [Types -> BOOLEAN] /\ disabled \subseteq Types /\ raised \subseteq Effects
  BY DEF TypeOK
<1>1. CASE Tick
  <2>1. TableOK(asrt)' /\ RestOK'
    BY <1>1, HalvesFact DEF Tick, TypeOK, RestOK, tables, timers, config, kernel, powers
  <2> QED
    BY <2>1, HalvesNext
<1>2. ASSUME NEW T \in Types, disableAssertionType(T) \/ enableAssertionType(T) PROVE TypeOK'
  <2>1. /\ disabled' = disabled \cup {T} \/ disabled' = disabled \ {T}
        /\ configAssertionType({T}, disabled', level, raised)
        /\ UNCHANGED <<tables, timers, now, powers>>
    BY <1>2 DEF disableAssertionType, enableAssertionType
  <2>2. disabled' \in SUBSET Types /\ \A V \in Types \ {T} : V \in disabled' <=> V \in disabled
    BY <1>0, <2>1
  <2>3. /\ effect' \in [Types -> Effects \cup {NoEffect}]
        /\ \A V \in Types : effect'[V] = NoEffect <=> V \in disabled'
        /\ level' \in [Types -> BOOLEAN] /\ raised' \subseteq Effects
    BY <1>0, <2>1, <2>2, ConfigType
  <2>4. power' \in Powers /\ prevPower' \in Powers /\ evalQueued' \in BOOLEAN
    BY <2>1 DEF powers, TypeOK
  <2> QED
    BY <2>1, <2>2, <2>3, <2>4, ConfigRest
<1>3. CASE PowerChange
  <2>1. TableOK(asrt)' /\ RestOK'
    BY <1>3, HalvesFact DEF PowerChange, TypeOK, RestOK, tables, timers, config, kernel
  <2> QED
    BY <2>1, HalvesNext
<1>4. CASE evaluateForPSChange
  <2>1. /\ UNCHANGED <<tables, disabled, timers, now, power>>
        /\ power' \in Powers /\ prevPower' \in Powers /\ evalQueued' \in BOOLEAN
    BY <1>4 DEF evaluateForPSChange, TypeOK
  <2>2. CASE power = prevPower
    <3>1. UNCHANGED <<effect, kernel>>
      BY <1>4, <2>2 DEF evaluateForPSChange
    <3>2. TableOK(asrt)' /\ RestOK'
      BY <2>1, <3>1, HalvesFact DEF TypeOK, RestOK, tables, timers, kernel
    <3> QED
      BY <3>2, HalvesNext
  <2>3. CASE power # prevPower
    <3> DEFINE lv == LevelAfter(level, Types, asrt, count, effect, effect)
               ra == RaisedAfter(raised, level, Types, "Eval", asrt, count, effect, effect)
    <3>1. configAssertionType({"NetworkAccess"}, disabled, lv, ra)
      BY <1>4, <2>3 DEF evaluateForPSChange
    <3>2. lv \in [Types -> BOOLEAN]
      BY <1>0, LevelType
    <3> HIDE DEF lv, ra
    <3>3. disabled' = disabled /\ disabled \in SUBSET Types
      BY <1>0, <2>1
    <3>4. /\ effect' \in [Types -> Effects \cup {NoEffect}]
          /\ \A V \in Types : effect'[V] = NoEffect <=> V \in disabled'
          /\ level' \in [Types -> BOOLEAN] /\ raised' \subseteq Effects
      BY <3>1, <3>2, <3>3, ConfigType
    <3> QED
      BY <2>1, <3>3, <3>4, ConfigRest
  <2> QED
    BY <2>2, <2>3
<1> QED
  BY <1>1, <1>2, <1>3, <1>4 DEF Environment

LEMMA TypeInit == Init => TypeOK
<1> SUFFICES ASSUME Init PROVE TypeOK
  OBVIOUS
<1>1. \A T \in Types : NewEffect(T, {}) \in Effects \cup {NoEffect} /\ NewEffect(T, {}) # NoEffect
  BY EffectFact DEF Init
<1>2. TableOK(asrt)
  BY FreeFact DEF Init, TableOK
<1>3. RestOK
  BY <1>1 DEF Init, RestOK
<1> QED
  BY <1>2, <1>3, HalvesFact

LEMMA TypeNext == TypeOK /\ [Next]_vars => TypeOK'
<1> SUFFICES ASSUME TypeOK, [Next]_vars PROVE TypeOK'
  OBVIOUS
<1>1. CASE Next
  BY <1>1, RequestType, TimeoutType, EnvironmentType DEF Next
<1>2. CASE UNCHANGED vars
  <2>1. TableOK(asrt)' /\ RestOK'
    BY <1>2, HalvesFact DEF TypeOK, RestOK, vars, tables, timers, config, kernel, powers
  <2> QED
    BY <2>1, HalvesNext
<1> QED
  BY <1>1, <1>2

\* Whatever the clients ask for, in any number and any order, the table, the counters
\* and the levels keep the values their C variables can hold, a slot is in use exactly
\* when its assertion has a type, an owner and a reference, and the types without an
\* effect are the disabled ones.
THEOREM TypeCorrect == Spec => []TypeOK
BY TypeInit, TypeNext, PTL DEF Spec

-----------------------------------------------------------------------------
(* Timers.                                                                  *)

\* A type whose timer and block are as they were is armed after ArmTimers.
LEMMA ArmedAfter ==
  ASSUME TypeOK, TimerArmed, TableOK(asrt'), now' = now, NEW tm, NEW kk,
         ArmTimers(asrt, asrt', tm, kk), NEW T \in Types,
         tm[T] = timer[T], kk[T] <=> kick[T], Timed(T, asrt') # {}
  PROVE  \/ timer'[T] = HeadTime(T, asrt')
         \/ kick'[T] /\ HeadTime(T, asrt') <= now'
<1>1. /\ timer'[T] = IF MustArm(T, asrt, asrt') /\ HeadTime(T, asrt') > now
                       THEN HeadTime(T, asrt') ELSE timer[T]
      /\ kick'[T] <=> kick[T] \/ (MustArm(T, asrt, asrt') /\ HeadTime(T, asrt') <= now)
  BY DEF ArmTimers
<1>2. HeadTime(T, asrt') \in Nat /\ now \in Nat
  BY HeadFact DEF TypeOK
<1>3. CASE MustArm(T, asrt, asrt')
  BY <1>1, <1>2, <1>3
<1>4. CASE ~MustArm(T, asrt, asrt')
  <2>1. Timed(T, asrt) # {} /\ HeadTime(T, asrt') = HeadTime(T, asrt)
    BY <1>4 DEF MustArm
  <2>2. timer[T] = HeadTime(T, asrt) \/ (kick[T] /\ HeadTime(T, asrt) <= now)
    BY <2>1 DEF TimerArmed
  <2>3. timer'[T] = timer[T]
    BY <1>1, <1>4
  <2>4. CASE timer[T] = HeadTime(T, asrt)
    BY <2>1, <2>3, <2>4
  <2>5. CASE kick[T] /\ HeadTime(T, asrt) <= now
    BY <1>1, <2>1, <2>5
  <2> QED
    BY <2>2, <2>4, <2>5
<1> QED
  BY <1>3, <1>4

LEMMA ArmedStep ==
  ASSUME TypeOK, TimerArmed, TableOK(asrt'), now' = now, ArmTimers(asrt, asrt', timer, kick)
  PROVE  TimerArmed'
BY ArmedAfter DEF TimerArmed

\* After a timeout what is left on the list of the type is not due.
LEMMA LeftFact ==
  ASSUME TypeOK, NEW T \in Types, NEW tm, NEW kk, ExpireDue(T, tm, kk), Timed(T, asrt') # {}
  PROVE  HeadTime(T, asrt') > now
<1>1. /\ TableOK(asrt') /\ \A j \in Due(T) : ~IsActive(asrt'[j])
      /\ \A j \in Ids \ Due(T) : asrt'[j] = asrt[j]
  BY ExpireStep, TableStepType
<1>2. PICK j \in Timed(T, asrt') : HeadTime(T, asrt') = asrt'[j].timeout
  BY <1>1, HeadFact
<1>3. j \in Ids /\ j \notin Due(T)
  BY <1>1, <1>2 DEF Timed, IsActive
<1>4. asrt'[j] = asrt[j] /\ j \in Timed(T, asrt)
  BY <1>1, <1>2, <1>3 DEF Timed
<1>5. ~(asrt[j].timeout <= now)
  BY <1>3, <1>4 DEF Due
<1>6. asrt[j].timeout \in Nat /\ now \in Nat
  BY <1>3 DEF TypeOK, AssertionType
<1> QED
  BY <1>2, <1>4, <1>5, <1>6

LEMMA ArmedTimeout ==
  ASSUME TypeOK, TimerArmed, NEW T \in Types, handleAssertionTimeout(T)
  PROVE  TimerArmed'
<1>1. ASSUME NEW tm \in [Types -> Nat], NEW kk \in [Types -> BOOLEAN], ExpireDue(T, tm, kk),
             \A V \in Types \ {T} : tm[V] = timer[V] /\ (kk[V] <=> kick[V]),
             \/ tm[T] = timer[T]
             \/ timer[T] <= now
      PROVE  TimerArmed'
  <2>1. TableOK(asrt') /\ ArmTimers(asrt, asrt', tm, kk) /\ now' = now
    BY <1>1, ExpireStep, TableStepType DEF ExpireDue
  <2>2. ASSUME NEW V \in Types, V # T, Timed(V, asrt') # {}
        PROVE  timer'[V] = HeadTime(V, asrt') \/ (kick'[V] /\ HeadTime(V, asrt') <= now')
    BY <1>1, <2>1, <2>2, ArmedAfter
  <2>3. ASSUME Timed(T, asrt') # {} PROVE timer'[T] = HeadTime(T, asrt')
    <3>1. HeadTime(T, asrt') > now /\ HeadTime(T, asrt') \in Nat /\ now \in Nat
      BY <1>1, <2>1, <2>3, LeftFact, HeadFact DEF TypeOK
    <3>2. timer'[T] = IF MustArm(T, asrt, asrt') THEN HeadTime(T, asrt') ELSE tm[T]
      BY <2>1, <3>1 DEF ArmTimers
    <3>3. CASE ~MustArm(T, asrt, asrt')
      <4>1. Timed(T, asrt) # {} /\ HeadTime(T, asrt') = HeadTime(T, asrt)
        BY <2>3, <3>3 DEF MustArm
      <4>2. timer[T] = HeadTime(T, asrt) \/ HeadTime(T, asrt) <= now
        BY <4>1 DEF TimerArmed
      <4>3. timer[T] = HeadTime(T, asrt')
        BY <3>1, <4>1, <4>2
      <4>4. tm[T] = timer[T]
        BY <1>1, <3>1, <4>3
      <4> QED
        BY <3>2, <3>3, <4>3, <4>4
    <3> QED
      BY <3>2, <3>3
  <2> QED
    BY <2>2, <2>3 DEF TimerArmed
<1>2. timer \in [Types -> Nat] /\ kick \in [Types -> BOOLEAN]
  BY DEF TypeOK
<1>3. CASE timer[T] <= now /\ ExpireDue(T, [timer EXCEPT ![T] = 0], kick)
  <2>1. [timer EXCEPT ![T] = 0] \in [Types -> Nat]
    BY <1>2
  <2>2. \A V \in Types \ {T} : [timer EXCEPT ![T] = 0][V] = timer[V]
    BY <1>2
  <2> QED
    BY <1>1, <1>2, <1>3, <2>1, <2>2
<1>4. CASE ExpireDue(T, timer, [kick EXCEPT ![T] = FALSE])
  <2>1. [kick EXCEPT ![T] = FALSE] \in [Types -> BOOLEAN]
    BY <1>2
  <2>2. \A V \in Types \ {T} : [kick EXCEPT ![T] = FALSE][V] <=> kick[V]
    BY <1>2
  <2> QED
    BY <1>1, <1>2, <1>4, <2>1, <2>2
<1> QED
  BY <1>3, <1>4 DEF handleAssertionTimeout

LEMMA ArmedNext ==
  ASSUME "bothWays" \notin Ops
  PROVE  TypeOK /\ TimerArmed /\ [Next]_vars => TimerArmed'
<1> SUFFICES ASSUME TypeOK, TimerArmed, [Next]_vars PROVE TimerArmed'
  OBVIOUS
<1>1. CASE Request \/ ProcessEvent
  <2>1. TableOK(asrt') /\ ArmTimers(asrt, asrt', timer, kick) /\ now' = now
    BY <1>1, RequestArms, TableStepType
  <2> QED
    BY <2>1, ArmedStep
<1>2. CASE Timeout
  BY <1>2, ArmedTimeout DEF Timeout
<1>3. CASE Environment \/ UNCHANGED vars
  <2>1. UNCHANGED <<asrt, timers>> /\ (now' = now \/ now' = now + 1)
    BY <1>3 DEF Environment, Tick, disableAssertionType, enableAssertionType, PowerChange,
                evaluateForPSChange, vars, tables
  <2>2. ASSUME NEW T \in Types, Timed(T, asrt) # {}
        PROVE  timer[T] = HeadTime(T, asrt) \/ (kick[T] /\ HeadTime(T, asrt) <= now')
    <3>1. HeadTime(T, asrt) \in Nat /\ now \in Nat
      BY <2>2, HeadFact, HalvesFact DEF RestOK
    <3>2. HeadTime(T, asrt) <= now => HeadTime(T, asrt) <= now'
      BY <2>1, <3>1
    <3> QED
      BY <2>2, <3>2 DEF TimerArmed
  <2> QED
    BY <2>1, <2>2 DEF TimerArmed, timers
<1> QED
  BY <1>1, <1>2, <1>3 DEF Next

LEMMA ArmedInit == Init => TimerArmed
BY FreeFact DEF Init, TimerArmed, Timed

\* Without requests whose level and timeout keys change the level there and back, a type
\* with timed assertions has its one dispatch timer at the earliest of them or a block
\* queued that handles it: through every insertion, release, suspend, resume and change
\* of a deadline, and through time passing in between.
THEOREM HeadIsWatched ==
  ASSUME "bothWays" \notin Ops
  PROVE  Spec => []TimerArmed
<1>1. TypeOK /\ TimerArmed /\ [Next]_vars => TimerArmed'
  BY ArmedNext
<1> QED
  BY <1>1, TypeInit, TypeNext, ArmedInit, PTL DEF Spec

-----------------------------------------------------------------------------
(* Suspended processes.                                                     *)

Quiet(a, sus) == a.list # "free" /\ a.pid \in sus /\ a.cause = NoPid => a.list = "suspended"

LEMMA SilentFact == SuspendedStaySilent <=> \A i \in Ids : Quiet(asrt[i], suspended)
BY DEF SuspendedStaySilent, Used, Quiet

LEMMA SilentFactNext ==
  (\A i \in Ids : Quiet(asrt[i], suspended))' => SuspendedStaySilent'
BY SilentFact, PTL

LEMMA QuietAlike ==
  ASSUME NEW a, NEW b, Alike(a, b), NEW s, NEW t, Quiet(a, s), t \subseteq s
  PROVE  Quiet(b, t)
BY DEF Quiet, Alike, Kept

LEMMA QuietFree == ASSUME NEW s PROVE Quiet(Free, s)
BY FreeFact DEF Quiet

LEMMA SilentRequest ==
  ASSUME TypeOK, SuspendedStaySilent, NEW i \in Ids,
         \/ \E p \in Pids : doCreate(i, p)
         \/ doRetain(i) \/ doRelease(i)
         \/ \E r \in PropertyRequests : doSetProperties(i, r),
         NEW j \in Ids
  PROVE  Quiet(asrt'[j], suspended')
<1>0. Quiet(asrt[j], suspended)
  BY SilentFact
<1>1. CASE \E p \in Pids : doCreate(i, p)
  <2>1. PICK p \in Pids : doCreate(i, p)
    BY <1>1
  <2>2. p \notin suspended /\ suspended' = suspended
    BY <2>1 DEF doCreate
  <2>3. asrt'[i].pid = p /\ \A k \in Ids \ {i} : Alike(asrt[k], asrt'[k])
    BY <2>1, CreateStep
  <2>4. CASE j = i
    BY <2>2, <2>3, <2>4 DEF Quiet
  <2> QED
    BY <1>0, <2>2, <2>3, <2>4, QuietAlike
<1>2. CASE doRetain(i) \/ (doRelease(i) /\ asrt[i].refs > 1)
  BY <1>0, <1>2, RetainStep, RetainFact, QuietAlike
<1>3. CASE doRelease(i) /\ ~(asrt[i].refs > 1)
  BY <1>0, <1>3, ReleaseStep, QuietAlike, QuietFree
<1>4. CASE \E r \in PropertyRequests : doSetProperties(i, r)
  <2>1. suspended' = suspended /\ asrt[i].pid \notin suspended /\ SetDone(i)
    BY <1>4, SetStep
  <2>2. Owned(asrt[i], asrt'[i]) /\ \A k \in Ids \ {i} : Alike(asrt[k], asrt'[k])
    BY <2>1 DEF SetDone
  <2>3. CASE j = i
    BY <2>1, <2>2, <2>3 DEF Quiet, Owned
  <2> QED
    BY <1>0, <2>1, <2>2, <2>3, QuietAlike
<1> QED
  BY <1>1, <1>2, <1>3, <1>4

LEMMA SilentProcess ==
  ASSUME TypeOK, SuspendedStaySilent, NEW p \in Pids, NEW j \in Ids,
         HandleProcessExit(p) \/ handleAssertionSuspend(p) \/ handleAssertionResume(p)
  PROVE  Quiet(asrt'[j], suspended')
<1>0. Quiet(asrt[j], suspended)
  BY SilentFact
<1>1. CASE HandleProcessExit(p)
  <2>1. suspended' \subseteq suspended /\ (asrt'[j] = Free \/ Alike(asrt[j], asrt'[j]))
    BY <1>1, ExitStep
  <2> QED
    BY <1>0, <2>1, QuietAlike, QuietFree
<1>2. CASE handleAssertionSuspend(p)
  <2>1. /\ suspended' = suspended \cup {p}
        /\ asrt[j].list # "free" /\ Belongs(j, p) => asrt'[j].list = "suspended"
        /\ (Kept(asrt[j], asrt'[j]) /\ asrt'[j].list = "suspended") \/ Alike(asrt[j], asrt'[j])
    BY <1>2, SuspendStep
  <2> QED
    BY <1>0, <2>1 DEF Quiet, Alike, Kept, Belongs
<1>3. CASE handleAssertionResume(p)
  <2>1. /\ suspended' = suspended \ {p}
        /\ (Kept(asrt[j], asrt'[j]) /\ Belongs(j, p)) \/ Alike(asrt[j], asrt'[j])
    BY <1>3, ResumeStep
  <2>2. p # NoPid
    BY TypesFact
  <2> QED
    BY <1>0, <2>1, <2>2 DEF Quiet, Alike, Kept, Belongs
<1> QED
  BY <1>1, <1>2, <1>3

LEMMA SilentNext == TypeOK /\ SuspendedStaySilent /\ [Next]_vars => SuspendedStaySilent'
<1> SUFFICES ASSUME TypeOK, SuspendedStaySilent, [Next]_vars PROVE SuspendedStaySilent'
  OBVIOUS
<1>1. SUFFICES \A j \in Ids : Quiet(asrt'[j], suspended')
  BY SilentFactNext
<1> SUFFICES ASSUME NEW j \in Ids PROVE Quiet(asrt'[j], suspended')
  OBVIOUS
<1>2. CASE Request
  BY <1>2, SilentRequest DEF Request
<1>3. CASE ProcessEvent
  BY <1>3, SilentProcess DEF ProcessEvent
<1>4. CASE Timeout
  <2>1. PICK T \in Types : handleAssertionTimeout(T)
    BY <1>4 DEF Timeout
  <2>2. PICK tm \in [Types -> Nat], kk \in [Types -> BOOLEAN] : ExpireDue(T, tm, kk)
    BY <2>1, TimersType
  <2>3. /\ suspended' \subseteq suspended
        /\ \/ asrt'[j] = Free \/ Alike(asrt[j], asrt'[j])
           \/ /\ Kept(asrt[j], asrt'[j]) /\ asrt'[j].list = "inactive"
              /\ asrt[j].list = "timed"
    BY <2>2, ExpireStep
  <2>4. Quiet(asrt[j], suspended)
    BY SilentFact
  <2>5. CASE asrt'[j] = Free
    BY <2>5, QuietFree
  <2>6. CASE Alike(asrt[j], asrt'[j])
    BY <2>3, <2>4, <2>6, QuietAlike
  <2>7. CASE Kept(asrt[j], asrt'[j]) /\ asrt'[j].list = "inactive" /\ asrt[j].list = "timed"
    BY <2>3, <2>4, <2>7 DEF Quiet, Kept
  <2> QED
    BY <2>3, <2>5, <2>6, <2>7
<1>5. CASE Environment \/ UNCHANGED vars
  <2>1. UNCHANGED <<asrt, suspended>>
    BY <1>5 DEF Environment, Tick, disableAssertionType, enableAssertionType, PowerChange,
                evaluateForPSChange, vars, tables
  <2>2. Quiet(asrt[j], suspended)
    BY SilentFact
  <2> QED
    BY <2>1, <2>2
<1> QED
  BY <1>2, <1>3, <1>4, <1>5 DEF Next

LEMMA SilentInit == Init => SuspendedStaySilent
BY FreeFact DEF Init, SuspendedStaySilent, Used

\* While a process is suspended none of the assertions it took for itself counts: no
\* request, timeout, resuming of another process, exit or return of a pid wakes one.
THEOREM SuspendedAreSilent == Spec => []SuspendedStaySilent
BY TypeInit, TypeNext, SilentInit, SilentNext, PTL DEF Spec

-----------------------------------------------------------------------------
(* The counts.                                                              *)

CountedOf(T, as) == {i \in Ids : as[i].type = T /\ Counted(as[i])}

LEMMA ExactFact == CountExact <=> \A T \in Types : count[T] = Cardinality(CountedOf(T, asrt))
BY DEF CountExact, CountedOf

LEMMA ExactFactNext ==
  (\A T \in Types : count[T] = Cardinality(CountedOf(T, asrt)))' => CountExact'
BY ExactFact, PTL

LEMMA DisjointCard ==
  ASSUME NEW S \in SUBSET Ids, NEW R \in SUBSET Ids, S \cap R = {}
  PROVE  /\ Cardinality(S \cup R) = Cardinality(S) + Cardinality(R)
         /\ Cardinality(S) \in Nat /\ Cardinality(R) \in Nat
<1>1. /\ IsFiniteSet(S) /\ Cardinality(S) \in Nat
      /\ IsFiniteSet(R) /\ Cardinality(R) \in Nat
  BY IdsFinite
<1>2. Cardinality(S \cup R) = Cardinality(S) + Cardinality(R) - Cardinality(S \cap R)
  BY <1>1, FS_Union
<1>3. Cardinality(S \cap R) = 0
  BY FS_EmptySet
<1> QED
  BY <1>1, <1>2, <1>3

LEMMA CountedAlike ==
  ASSUME NEW a, NEW b, Alike(a, b)
  PROVE  /\ b.type = a.type /\ (Counted(b) <=> Counted(a)) /\ (IsActive(b) <=> IsActive(a))
BY DEF Alike, Kept, Counted, IsActive

LEMMA InExact ==
  ASSUME TypeOK, CountExact, NEW S, NEW U, NEW op, In(S, U, op), NEW T \in Types
  PROVE  count'[T] = Cardinality(CountedOf(T, asrt'))
<1> DEFINE X == {i \in S : asrt'[i].type = T /\ Counted(asrt'[i])}
           C == CountedOf(T, asrt)
<1>1. S \subseteq Ids /\ count'[T] = count[T] + Cardinality(X)
  BY DEF In, CountIn
<1>2. X \in SUBSET Ids /\ C \in SUBSET Ids
  BY <1>1 DEF CountedOf
<1>3. C \cap X = {}
  BY DEF In, CountedOf, Counted
<1>4. \A j \in Ids \ S : /\ asrt'[j].type = asrt[j].type
                         /\ Counted(asrt'[j]) <=> Counted(asrt[j])
  BY CountedAlike DEF In
<1>5. \A j \in S : ~Counted(asrt[j])
  BY DEF In, Counted
<1>6. ASSUME NEW j PROVE j \in CountedOf(T, asrt') <=> j \in C \cup X
  BY <1>1, <1>4, <1>5 DEF CountedOf
<1>7. CountedOf(T, asrt') = C \cup X
  BY <1>6
<1>8. count[T] = Cardinality(C)
  BY ExactFact
<1> QED
  BY <1>1, <1>2, <1>3, <1>7, <1>8, DisjointCard

LEMMA OutExact ==
  ASSUME TypeOK, CountExact, Strict, NEW S, NEW U, NEW op, Out(S, U, op), NEW T \in Types
  PROVE  count'[T] = Cardinality(CountedOf(T, asrt'))
<1> DEFINE N == {i \in S : /\ asrt[i].type = T /\ asrt[i].batt /\ asrt[i].list # "inactive"}
           C == CountedOf(T, asrt)
           D == CountedOf(T, asrt')
<1>1. S \subseteq Ids /\ count'[T] = IF Cardinality(N) > count[T] THEN 0
                                     ELSE count[T] - Cardinality(N)
  BY DEF Out, CountOut
<1>2. N \in SUBSET Ids /\ C \in SUBSET Ids /\ D \in SUBSET Ids
  BY <1>1 DEF CountedOf
<1>3. count[T] = Cardinality(C)
  BY ExactFact
<1>4. Cardinality(N) \in Nat /\ Cardinality(C) \in Nat /\ Cardinality(D) \in Nat
  BY <1>2, IdsFinite
<1>5. CASE T \in NotValidOnBatt
  <2>1. \A j \in S : asrt[j].type = T => (Counted(asrt[j]) <=> j \in N)
    <3>1. \A j \in S : asrt[j].list \in Lists /\ (asrt[j].type = T => asrt[j].list # "free")
      BY <1>1, TypesFact DEF TypeOK, AssertionType
    <3>2. \A j \in S : asrt[j].list # "suspended"
      BY DEF Out
    <3> QED
      BY <1>5, <3>1, <3>2 DEF Counted, IsActive, Lists
  <2>2. \A j \in Ids \ S : /\ asrt'[j].type = asrt[j].type
                           /\ Counted(asrt'[j]) <=> Counted(asrt[j])
    BY CountedAlike DEF Out
  <2>3. \A j \in S : ~Counted(asrt'[j])
    BY DEF Out, Counted
  <2>4. ASSUME NEW j PROVE j \in C <=> j \in D \cup N
    BY <1>1, <2>1, <2>2, <2>3 DEF CountedOf
  <2>5. C = D \cup N
    BY <2>4
  <2>6. D \cap N = {}
    BY <2>3 DEF CountedOf
  <2>7. Cardinality(C) = Cardinality(D) + Cardinality(N)
    BY <1>2, <2>5, <2>6, DisjointCard
  <2> HIDE DEF N, C, D
  <2>8. count'[T] = Cardinality(D)
    BY <1>1, <1>3, <1>4, <2>7
  <2> QED
    BY <2>8 DEF D
<1>6. CASE T \notin NotValidOnBatt
  <2>1. C = {} /\ D = {}
    BY <1>6 DEF CountedOf, Counted
  <2>2. Cardinality(C) = 0 /\ Cardinality(D) = 0
    BY <2>1, FS_EmptySet
  <2> HIDE DEF N, C, D
  <2>3. count'[T] = Cardinality(D)
    BY <1>1, <1>3, <1>4, <2>2
  <2> QED
    BY <2>3 DEF D
<1> QED
  BY <1>5, <1>6

\* The key of limited power counts an active assertion in, or out.
LEMMA LimitedExact ==
  ASSUME TypeOK, CountExact, NEW i, NEW U, NEW op, Adjusted(i, U, op),
         NEW T, T = asrt[i].type
  PROVE  /\ CountLimited(asrt[i], asrt'[i]) = Cardinality(CountedOf(T, asrt'))
         /\ Counted(asrt'[i]) => Cardinality(CountedOf(T, asrt')) > 0
         /\ T \notin NotValidOnBatt => Cardinality(CountedOf(T, asrt')) = 0
<1> DEFINE C == CountedOf(T, asrt)
           D == CountedOf(T, asrt')
           n == CountLimited(asrt[i], asrt'[i])
<1>0. i \in Ids /\ T \in Types /\ asrt'[i].type = T
  BY DEF Adjusted, Owned
<1>1. \A j \in Ids \ {i} : /\ asrt'[j].type = asrt[j].type
                           /\ Counted(asrt'[j]) <=> Counted(asrt[j])
  BY CountedAlike DEF Adjusted
<1>2. /\ Counted(asrt'[i]) <=> asrt'[i].batt /\ T \in NotValidOnBatt
      /\ Counted(asrt[i]) <=> asrt[i].batt /\ T \in NotValidOnBatt
      /\ asrt[i].batt \in BOOLEAN /\ asrt'[i].batt \in BOOLEAN
      /\ asrt'[i].batt # asrt[i].batt => T \in NotValidOnBatt
  BY <1>0, SlotFact DEF Adjusted, Counted, TypeOK, AssertionType
<1>3. count[T] = Cardinality(C) /\ IsFiniteSet(C) /\ Cardinality(C) \in Nat
  BY <1>0, ExactFact, IdsFinite DEF CountedOf
<1>4. n = IF asrt'[i].batt /\ ~asrt[i].batt THEN count[T] + 1
          ELSE IF ~asrt'[i].batt /\ asrt[i].batt /\ count[T] > 0 THEN count[T] - 1
          ELSE count[T]
  BY DEF CountLimited
<1> HIDE DEF n
<1>5. n = Cardinality(D)
  <2>2. CASE asrt'[i].batt /\ ~asrt[i].batt
    <3>1. ASSUME NEW j PROVE j \in D <=> j \in C \cup {i}
      BY <1>0, <1>1, <1>2, <2>2 DEF CountedOf
    <3>2. D = C \cup {i} /\ i \notin C
      BY <1>2, <2>2, <3>1 DEF CountedOf
    <3>3. Cardinality(D) = Cardinality(C) + 1
      BY <1>3, <3>2, FS_AddElement
    <3> QED
      BY <1>3, <1>4, <2>2, <3>3
  <2>3. CASE ~asrt'[i].batt /\ asrt[i].batt
    <3>1. ASSUME NEW j PROVE j \in D <=> j \in C \ {i}
      BY <1>0, <1>1, <1>2, <2>3 DEF CountedOf
    <3>2. D = C \ {i} /\ i \in C
      BY <1>0, <1>2, <2>3, <3>1 DEF CountedOf
    <3>3. Cardinality(D) = Cardinality(C) - 1
      BY <1>3, <3>2, FS_RemoveElement
    <3>4. Cardinality(C) # 0
      BY <1>3, <3>2, FS_EmptySet
    <3>5. count[T] > 0
      BY <1>3, <3>4
    <3> QED
      BY <1>3, <1>4, <2>3, <3>3, <3>5
  <2>4. CASE asrt'[i].batt = asrt[i].batt
    <3>1. ASSUME NEW j PROVE j \in D <=> j \in C
      BY <1>0, <1>1, <1>2, <2>4 DEF CountedOf
    <3>2. D = C
      BY <3>1
    <3>3. n = count[T]
      BY <1>4, <2>4
    <3> QED
      BY <1>3, <3>2, <3>3
  <2> QED
    BY <1>2, <2>2, <2>3, <2>4
<1>6. IsFiniteSet(D) /\ Cardinality(D) \in Nat
  BY IdsFinite DEF CountedOf
<1>7. Counted(asrt'[i]) => Cardinality(D) # 0
  BY <1>0, <1>6, FS_EmptySet DEF CountedOf
<1>8. T \notin NotValidOnBatt => D = {}
  BY DEF CountedOf, Counted
<1> QED
  BY <1>5, <1>6, <1>7, <1>8, FS_EmptySet DEF n

LEMMA AdjustedExact ==
  ASSUME TypeOK, CountExact, NEW i, NEW U, NEW op, Adjusted(i, U, op), NEW V \in Types
  PROVE  count'[V] = Cardinality(CountedOf(V, asrt'))
<1> DEFINE T == asrt[i].type
           n == CountLimited(asrt[i], asrt'[i])
           m == OneMore(asrt'[i], OneLess(asrt'[i], n))
<1>1. i \in Ids /\ T \in Types /\ asrt'[i].type = T /\ count \in [Types -> Nat]
  BY DEF Adjusted, Owned, TypeOK
<1>2. count' = [count EXCEPT ![T] = n] \/ count' = [count EXCEPT ![T] = m]
  BY DEF Adjusted
<1>3. CASE V = T
  <2>1. /\ n = Cardinality(CountedOf(T, asrt')) /\ (Counted(asrt'[i]) => n > 0)
        /\ T \notin NotValidOnBatt => n = 0
    BY LimitedExact
  <2>2. n \in Nat
    BY <2>1, IdsFinite DEF CountedOf
  <2>3. IsActive(asrt'[i])
    BY DEF Adjusted
  <2> HIDE DEF n
  <2>4. m = n
    BY <1>1, <2>1, <2>2, <2>3 DEF OneMore, OneLess, Counted
  <2> QED
    BY <1>1, <1>2, <1>3, <2>1, <2>4
<1>4. CASE V # T
  <2>1. ASSUME NEW j PROVE j \in CountedOf(V, asrt') <=> j \in CountedOf(V, asrt)
    BY <1>1, <1>4, CountedAlike DEF Adjusted, CountedOf
  <2>2. CountedOf(V, asrt') = CountedOf(V, asrt)
    BY <2>1
  <2>3. count'[V] = count[V]
    BY <1>1, <1>2, <1>4
  <2> QED
    BY <2>2, <2>3, ExactFact
<1> QED
  BY <1>3, <1>4

LEMMA StepExact ==
  ASSUME TypeOK, CountExact, Strict, TableStep
  PROVE  CountExact'
<1>1. SUFFICES ASSUME NEW T \in Types PROVE count'[T] = Cardinality(CountedOf(T, asrt'))
  BY ExactFactNext
<1> QED
  BY InExact, OutExact, AdjustedExact DEF TableStep, Odd

LEMMA TableSteps ==
  ASSUME TypeOK, [Next]_vars
  PROVE  \/ TableStep /\ UNCHANGED <<config, powers>>
         \/ Environment /\ UNCHANGED <<asrt, count>>
         \/ UNCHANGED vars
<1>1. CASE Request \/ ProcessEvent
  BY <1>1, RequestArms
<1>2. CASE Timeout
  <2>1. PICK T \in Types : handleAssertionTimeout(T)
    BY <1>2 DEF Timeout
  <2>2. PICK tm \in [Types -> Nat], kk \in [Types -> BOOLEAN] : ExpireDue(T, tm, kk)
    BY <2>1, TimersType
  <2> QED
    BY <2>2, ExpireStep DEF ExpireDue
<1>3. CASE Environment
  BY <1>3 DEF Environment, Tick, disableAssertionType, enableAssertionType, PowerChange,
              evaluateForPSChange, tables
<1> QED
  BY <1>1, <1>2, <1>3 DEF Next

LEMMA ExactNext == Strict => (TypeOK /\ CountExact /\ [Next]_vars => CountExact')
<1> SUFFICES ASSUME Strict, TypeOK, CountExact, [Next]_vars PROVE CountExact'
  OBVIOUS
<1>1. CASE TableStep
  BY <1>1, StepExact
<1>2. CASE UNCHANGED <<asrt, count>>
  BY <1>2 DEF CountExact
<1> QED
  BY <1>1, <1>2, TableSteps DEF vars, tables

LEMMA ExactInit == Init => CountExact
<1> SUFFICES ASSUME Init, NEW T \in Types
             PROVE  count[T] = Cardinality(CountedOf(T, asrt))
  BY ExactFact
<1>1. CountedOf(T, asrt) = {}
  BY FreeFact DEF Init, CountedOf, Counted, IsActive
<1> QED
  BY <1>1, FS_EmptySet DEF Init

\* When no suspended assertion is released or set, the limited-power key is set on active
\* assertions only and no request's level and timeout keys change the level there and
\* back, validOnBattCount of a type is the number of its active assertions that apply on
\* battery, after any sequence of creates, releases, exits, timeouts, suspends, resumes
\* and requests that set level, deadline and property, one or all of them at once.
THEOREM CountsAreExact ==
  ASSUME {"limitedInactive", "releaseSuspended", "setSuspended", "bothWays"} \cap Ops = {}
  PROVE  Spec => []CountExact
<1>1. TypeOK /\ CountExact /\ [Next]_vars => CountExact'
  BY ExactNext DEF Strict
<1> QED
  BY <1>1, TypeInit, TypeNext, ExactInit, PTL DEF Spec

-----------------------------------------------------------------------------
(* What the kernel is told.                                                 *)

LevelRight(T, lv, as, ct, eff) == lv[T] <=> eff[T] # NoEffect /\ TypeActive(T, as, ct)
RaisedRight(E, ra, as, ct, eff) == E \in ra <=> EffectActive(E, as, ct, eff)
HasType(E, ra, eff) == E \in ra => \E T \in Types : eff[T] = E
Configured(T) == effect[T] = NewEffect(T, disabled)

\* What the handlers leave between any two of them.  While a change of the power
\* source waits to be evaluated, only the types that are not valid on battery and the
\* effect they share may be out of date, and the effect of the network access type.
KernelInv ==
  /\ evalQueued <=> power # prevPower
  /\ \A T \in Types : T # "NetworkAccess" \/ ~evalQueued => Configured(T)
  /\ \A T \in Types : T \notin NotValidOnBatt \/ ~evalQueued
                        => LevelRight(T, level, asrt, count, effect)
  /\ \A T \in Types : level[T] => effect[T] # NoEffect
  /\ \A E \in Effects : E # "PrevDemandSlp" \/ ~evalQueued
                          => RaisedRight(E, raised, asrt, count, effect)
  /\ \A E \in Effects : HasType(E, raised, effect)

\* An assertion that asks for the effect of its type on this power source.
Speaks(a) == IsActive(a) /\ (a.type \notin NotValidOnBatt \/ power = "AC" \/ a.batt)

\* The counter stands for the assertions it counts.
LEMMA ActiveFact ==
  ASSUME power \in Powers, NEW as, NEW ct, NEW T \in Types,
         ct[T] = Cardinality(CountedOf(T, as)),
         \A i \in Ids : as[i].batt \in BOOLEAN
  PROVE  TypeActive(T, as, ct) <=> \E i \in Ids : as[i].type = T /\ Speaks(as[i])
<1>1. CASE T \in NotValidOnBatt /\ power = "Batt"
  <2>1. IsFiniteSet(CountedOf(T, as)) /\ Cardinality(CountedOf(T, as)) \in Nat
    BY IdsFinite DEF CountedOf
  <2>4. Cardinality(CountedOf(T, as)) = 0 <=> CountedOf(T, as) = {}
    BY <2>1, FS_EmptySet
  <2>6. \A n \in Nat : n > 0 <=> n # 0
    OBVIOUS
  <2>5. ct[T] > 0 <=> Cardinality(CountedOf(T, as)) # 0
    BY <2>1, <2>6
  <2>2. ct[T] > 0 <=> CountedOf(T, as) # {}
    BY <2>4, <2>5
  <2>3. CountedOf(T, as) # {} <=> \E i \in Ids : as[i].type = T /\ Speaks(as[i])
    BY <1>1 DEF CountedOf, Counted, Speaks
  <2> QED
    BY <1>1, <2>2, <2>3 DEF TypeActive
<1>2. CASE ~(T \in NotValidOnBatt /\ power = "Batt")
  BY <1>2 DEF TypeActive, Speaks, Powers
<1> QED
  BY <1>1, <1>2

\* What a step of the table does to the activity of the types, and for which types and
\* with which operation it calls the handlers.
Told(U, op) ==
  /\ CallHandlers(U, op, asrt', count') /\ op \in {"Raise", "Release", "Eval"}
  /\ \A T \in Types :
       /\ T \in U \/ (TypeActive(T, asrt, count) <=> TypeActive(T, asrt', count'))
       /\ op = "Raise" => (TypeActive(T, asrt, count) => TypeActive(T, asrt', count'))
       /\ op = "Release" => (TypeActive(T, asrt', count') => TypeActive(T, asrt, count))

LEMMA SpeaksAlike ==
  ASSUME NEW a, NEW b, Alike(a, b)
  PROVE  b.type = a.type /\ (Speaks(b) <=> Speaks(a))
BY DEF Alike, Kept, Speaks, IsActive

LEMMA ToldFact ==
  ASSUME TypeOK, CountExact, Strict, TableStep
  PROVE  \E U, op : Told(U, op)
<1>1. CountExact' /\ TableOK(asrt')
  BY StepExact, TableStepType
<1>2. \A T \in Types : count[T] = Cardinality(CountedOf(T, asrt))
  BY ExactFact
<1>3. \A T \in Types : count'[T] = Cardinality(CountedOf(T, asrt'))
  BY <1>1 DEF CountExact, CountedOf
<1>4. /\ power \in Powers
      /\ \A i \in Ids : asrt[i].batt \in BOOLEAN /\ asrt'[i].batt \in BOOLEAN
  BY <1>1, SlotFact DEF TypeOK, AssertionType
<1>5. \A T \in Types :
        /\ TypeActive(T, asrt, count) <=> \E i \in Ids : asrt[i].type = T /\ Speaks(asrt[i])
        /\ TypeActive(T, asrt', count') <=> \E i \in Ids : asrt'[i].type = T /\ Speaks(asrt'[i])
  BY <1>2, <1>3, <1>4, ActiveFact
<1>6. ASSUME NEW S, NEW U, NEW op, In(S, U, op) PROVE Told(U, op)
  <2>1. \A j \in Ids \ S : asrt'[j].type = asrt[j].type /\ (Speaks(asrt'[j]) <=> Speaks(asrt[j]))
    BY <1>6, SpeaksAlike DEF In
  <2>2. \A j \in S : ~Speaks(asrt[j]) /\ (Speaks(asrt'[j]) => asrt'[j].type \in U)
    BY <1>6 DEF In, Speaks
  <2>3. ASSUME NEW T \in Types
        PROVE  /\ T \in U \/ (TypeActive(T, asrt, count) <=> TypeActive(T, asrt', count'))
               /\ TypeActive(T, asrt, count) => TypeActive(T, asrt', count')
    BY <1>5, <2>1, <2>2
  <2>4. CallHandlers(U, op, asrt', count') /\ op \in {"Raise", "Eval"}
    BY <1>6 DEF In
  <2> QED
    BY <2>3, <2>4 DEF Told
<1>7. ASSUME NEW S, NEW U, NEW op, Out(S, U, op) PROVE Told(U, op)
  <2>1. \A j \in Ids \ S : asrt'[j].type = asrt[j].type /\ (Speaks(asrt'[j]) <=> Speaks(asrt[j]))
    BY <1>7, SpeaksAlike DEF Out
  <2>2. \A j \in S : ~Speaks(asrt'[j]) /\ (Speaks(asrt[j]) => asrt[j].type \in U)
    BY <1>7 DEF Out, Speaks
  <2>3. ASSUME NEW T \in Types
        PROVE  /\ T \in U \/ (TypeActive(T, asrt, count) <=> TypeActive(T, asrt', count'))
               /\ TypeActive(T, asrt', count') => TypeActive(T, asrt, count)
    BY <1>5, <2>1, <2>2
  <2>4. CallHandlers(U, op, asrt', count') /\ op \in {"Release", "Eval"}
    BY <1>7 DEF Out
  <2> QED
    BY <2>3, <2>4 DEF Told
<1>8. ASSUME NEW i, NEW U, NEW op, Adjusted(i, U, op) PROVE Told(U, op)
  <2>1. \A j \in Ids \ {i} : asrt'[j].type = asrt[j].type /\ (Speaks(asrt'[j]) <=> Speaks(asrt[j]))
    BY <1>8, SpeaksAlike DEF Adjusted
  <2>2. /\ asrt'[i].type = asrt[i].type /\ IsActive(asrt[i]) /\ IsActive(asrt'[i])
        /\ i \in Ids /\ U = {asrt[i].type} /\ CallHandlers(U, op, asrt', count')
        /\ op = "Eval" \/ (op = "Raise" /\ asrt'[i].batt) \/ (op = "Release" /\ ~asrt'[i].batt)
    BY <1>8 DEF Adjusted, Owned
  <2>3. ASSUME NEW T \in Types, T # asrt[i].type
        PROVE  TypeActive(T, asrt, count) <=> TypeActive(T, asrt', count')
    BY <1>5, <2>1, <2>2, <2>3
  <2>4. /\ op = "Raise" => (Speaks(asrt[i]) => Speaks(asrt'[i]))
        /\ op = "Release" => (Speaks(asrt'[i]) => Speaks(asrt[i]))
    BY <2>2 DEF Speaks
  <2>5. ASSUME NEW T \in Types
        PROVE  /\ op = "Raise" => (TypeActive(T, asrt, count) => TypeActive(T, asrt', count'))
               /\ op = "Release" => (TypeActive(T, asrt', count') => TypeActive(T, asrt, count))
    BY <1>5, <2>1, <2>2, <2>4
  <2> QED
    BY <2>2, <2>3, <2>5 DEF Told
<1>10. CASE \E S, U, op : In(S, U, op) \/ Out(S, U, op)
  BY <1>6, <1>7, <1>10
<1>11. CASE \E i, U, op : Adjusted(i, U, op)
  BY <1>8, <1>11
<1> QED
  BY <1>10, <1>11 DEF TableStep, Odd

\* The handlers of one call bring the levels and the effects up to date.
LEMMA LevelsRight ==
  ASSUME TypeOK, NEW U, NEW op, Told(U, op), NEW T \in Types,
         LevelRight(T, level, asrt, count, effect)
  PROVE  LevelRight(T, level', asrt', count', effect)
<1>1. /\ T \in U /\ effect[T] # NoEffect => (level'[T] <=> TypeActive(T, asrt', count'))
      /\ ~(T \in U /\ effect[T] # NoEffect) => (level'[T] <=> level[T])
  BY DEF Told, CallHandlers, LevelAfter
<1>2. T \in U \/ (TypeActive(T, asrt, count) <=> TypeActive(T, asrt', count'))
  BY DEF Told
<1> QED
  BY <1>1, <1>2 DEF LevelRight

LEMMA RaisedStep ==
  ASSUME NEW U, NEW op, Told(U, op), NEW E \in Effects
  PROVE  LET mine == {T \in U \cap Types : effect[T] = E}
             active == EffectActive(E, asrt', count', effect)
         IN E \in raised' <=>
              IF mine = {} THEN E \in raised
              ELSE IF E = "PrevIdleSlp"
                THEN modifySettings(E \in raised, {level[T] : T \in mine}, op, active)
                ELSE setKernelAssertions(E \in raised, op, active)
BY DEF Told, CallHandlers, RaisedAfter

LEMMA EffectsRight ==
  ASSUME TypeOK, NEW U, NEW op, Told(U, op), NEW E \in Effects,
         RaisedRight(E, raised, asrt, count, effect),
         E = "PrevIdleSlp" => \A T \in Types : effect[T] = E
                                  => LevelRight(T, level, asrt, count, effect)
  PROVE  RaisedRight(E, raised', asrt', count', effect)
<1> DEFINE mine == {T \in U \cap Types : effect[T] = E}
           was == EffectActive(E, asrt, count, effect)
           active == EffectActive(E, asrt', count', effect)
<1>1. E \in raised <=> was
  BY DEF RaisedRight
<1>2. /\ op \in {"Raise", "Release", "Eval"}
      /\ op = "Raise" => (was => active)
      /\ op = "Release" => (active => was)
  BY DEF Told, EffectActive
<1>3. \A T \in Types : effect[T] = E /\ T \notin mine
        => (TypeActive(T, asrt, count) <=> TypeActive(T, asrt', count'))
  BY DEF Told
<1>4. mine = {} => (was <=> active)
  BY <1>3 DEF EffectActive
<1>5. E \in raised' <=> IF mine = {} THEN E \in raised
                        ELSE IF E = "PrevIdleSlp"
                          THEN modifySettings(E \in raised, {level[T] : T \in mine}, op, active)
                          ELSE setKernelAssertions(E \in raised, op, active)
  BY RaisedStep
<1>6. CASE mine = {}
  BY <1>1, <1>4, <1>5, <1>6 DEF RaisedRight
<1>7. CASE mine # {} /\ E # "PrevIdleSlp"
  <2>1. E \in raised' <=> setKernelAssertions(E \in raised, op, active)
    BY <1>5, <1>7
  <2>2. CASE op = "Raise"
    BY <1>1, <1>2, <2>1, <2>2 DEF setKernelAssertions, RaisedRight
  <2>3. CASE op = "Release"
    BY <1>1, <1>2, <2>1, <2>3 DEF setKernelAssertions, RaisedRight
  <2>4. CASE op = "Eval"
    BY <2>1, <2>4 DEF setKernelAssertions, RaisedRight
  <2> QED
    BY <1>2, <2>2, <2>3, <2>4
<1>8. CASE mine # {} /\ E = "PrevIdleSlp"
  <2>1. \A T \in mine : level[T] <=> TypeActive(T, asrt, count)
    BY <1>8 DEF LevelRight, NoEffect
  <2>2. \A T \in mine : T \in Types /\ effect[T] = E /\ level[T] \in BOOLEAN
    BY DEF TypeOK
  <2> DEFINE lvs == {level[T] : T \in mine}
  <2>3. (FALSE \notin lvs) => was
    BY <1>8, <2>1, <2>2 DEF EffectActive
  <2>4. (TRUE \notin lvs) /\ was => active
    BY <1>3, <2>1, <2>2 DEF EffectActive
  <2>5. E \in raised' <=> modifySettings(E \in raised, lvs, op, active)
    BY <1>5, <1>8
  <2> HIDE DEF mine, was, active, lvs
  <2>6. E \in raised' <=> \/ active /\ op # "Release" /\ FALSE \in lvs
                          \/ was /\ ~(~active /\ op # "Raise" /\ TRUE \in lvs)
    BY <1>1, <2>5 DEF modifySettings
  <2>7. E \in raised' <=> active
    BY <1>2, <2>3, <2>4, <2>6
  <2> QED
    BY <2>7 DEF RaisedRight, active
<1> QED
  BY <1>6, <1>7, <1>8

LEMMA EffectsHaveTypes ==
  ASSUME TypeOK, NEW U, NEW op, Told(U, op), NEW E \in Effects, HasType(E, raised, effect)
  PROVE  HasType(E, raised', effect)
<1> DEFINE mine == {T \in U \cap Types : effect[T] = E}
<1>1. CASE mine = {}
  <2>1. E \in raised' <=> E \in raised
    BY <1>1, RaisedStep
  <2> QED
    BY <2>1 DEF HasType
<1>2. CASE mine # {}
  BY <1>2 DEF HasType
<1> QED
  BY <1>1, <1>2

\* A type moves from one effect to another: the handler of the old one evaluates what
\* is left there, and the handler of the new one evaluates what it joins.
LEMMA ConfigRight ==
  ASSUME TypeOK, NEW W, NEW off \in SUBSET Types, NEW lv \in [Types -> BOOLEAN],
         NEW ra \in SUBSET Effects, configAssertionType({W}, off, lv, ra),
         \A T \in Types : lv[T] => effect[T] # NoEffect,
         W \in Types /\ effect[W] = "PrevIdleSlp" => LevelRight(W, lv, asrt, count, effect),
         RaisedRight("PrevIdleSlp", ra, asrt, count, effect),
         \A E \in Effects : HasType(E, ra, effect)
  PROVE  /\ \A T \in Types : effect'[T] = IF T = W THEN NewEffect(T, off) ELSE effect[T]
         /\ \A T \in Types : LevelRight(T, lv, asrt, count, effect)
                               => LevelRight(T, level', asrt, count, effect')
         /\ \A T \in Types : level'[T] => effect'[T] # NoEffect
         /\ \A E \in Effects : RaisedRight(E, ra, asrt, count, effect)
                                 => RaisedRight(E, raised', asrt, count, effect')
         /\ \A E \in Effects : HasType(E, raised', effect')
<1> DEFINE moving == {T \in {W} \cap Types : NewEffect(T, off) # effect[T]}
           out == [T \in Types |-> IF T \in moving THEN NoEffect ELSE effect[T]]
           eff == [T \in Types |-> IF T \in moving THEN NewEffect(T, off) ELSE effect[T]]
           lv1 == LevelAfter(lv, moving, asrt, count, effect, out)
           ra1 == RaisedAfter(ra, lv, moving, "Eval", asrt, count, effect, out)
<1>1. /\ effect' = eff
      /\ level' = LevelAfter(lv1, moving, asrt, count, eff, eff)
      /\ raised' = RaisedAfter(ra1, lv1, moving, "Eval", asrt, count, eff, eff)
  BY DEF configAssertionType
<1>2. \A T \in Types : effect'[T] = IF T = W THEN NewEffect(T, off) ELSE effect[T]
  BY <1>1
<1>3. \A T \in Types : /\ out[T] = IF T \in moving THEN NoEffect ELSE effect[T]
                       /\ eff[T] = IF T \in moving THEN NewEffect(T, off) ELSE effect[T]
  OBVIOUS
<1>4. \A T \in moving : T = W /\ T \in Types /\ NewEffect(T, off) # effect[T]
  OBVIOUS
<1>5. effect = [T \in Types |-> effect[T]]
  BY DEF TypeOK
<1>6. moving = {} \/ (moving = {W} /\ W \in Types)
  OBVIOUS
<1>7. moving = {} => eff = effect
  BY <1>5
<1> HIDE DEF moving, out, eff
<1>8. lv1 \in [Types -> BOOLEAN]
  BY LevelType
<1>9. ASSUME NEW T \in Types, T \notin moving
      PROVE  (lv1[T] <=> lv[T]) /\ (level'[T] <=> lv[T]) /\ eff[T] = effect[T]
  BY <1>1, <1>3, <1>9 DEF LevelAfter
<1>10. ASSUME NEW T \in moving
       PROVE  ~lv1[T] /\ LevelRight(T, level', asrt, count, effect')
  <2>1. T \in Types /\ out[T] = NoEffect
    BY <1>3, <1>4
  <2>2. ~lv1[T]
    BY <2>1 DEF LevelAfter
  <2>3. /\ eff[T] # NoEffect => (level'[T] <=> TypeActive(T, asrt, count))
        /\ eff[T] = NoEffect => (level'[T] <=> lv1[T])
    BY <1>1, <2>1 DEF LevelAfter
  <2> QED
    BY <1>1, <2>2, <2>3 DEF LevelRight
<1>11. \A T \in Types : LevelRight(T, lv, asrt, count, effect)
                          => LevelRight(T, level', asrt, count, effect')
  BY <1>1, <1>9, <1>10 DEF LevelRight
<1>12. \A T \in Types : level'[T] => effect'[T] # NoEffect
  BY <1>1, <1>9, <1>10 DEF LevelRight
<1>13. CASE moving = {}
  <2>1. ASSUME NEW E \in Effects PROVE E \in raised' <=> E \in ra
    BY <1>1, <1>13 DEF RaisedAfter
  <2>2. effect' = effect
    BY <1>1, <1>7, <1>13
  <2>3. /\ \A E \in Effects : RaisedRight(E, ra, asrt, count, effect)
                                => RaisedRight(E, raised', asrt, count, effect')
        /\ \A E \in Effects : HasType(E, raised', effect')
    BY <2>1, <2>2 DEF RaisedRight, HasType
  <2> QED
    BY <1>2, <1>11, <1>12, <2>3
<1>14. CASE moving = {W} /\ W \in Types
  <2>1. /\ NewEffect(W, off) # effect[W] /\ eff[W] = NewEffect(W, off) /\ out[W] = NoEffect
        /\ \A T \in Types \ {W} : out[T] = effect[T] /\ eff[T] = effect[T]
    BY <1>3, <1>4, <1>14
  <2>2. ~lv1[W]
    BY <1>10, <1>14
  <2> DEFINE wasIn(E) == EffectActive(E, asrt, count, effect)
             left(E) == EffectActive(E, asrt, count, out)
             isIn(E) == EffectActive(E, asrt, count, eff)
  <2>3. ASSUME NEW E \in Effects
        PROVE  /\ effect[W] # E => (E \in ra1 <=> E \in ra)
               /\ effect[W] = E /\ E # "PrevIdleSlp" => (E \in ra1 <=> left(E))
               /\ effect[W] = E /\ E = "PrevIdleSlp"
                    => (E \in ra1 <=> left(E))
    <3> DEFINE mine == {T \in moving \cap Types : effect[T] = E}
    <3>1. E \in ra1 <=> IF mine = {} THEN E \in ra
                        ELSE IF E = "PrevIdleSlp"
                          THEN modifySettings(E \in ra, {lv[T] : T \in mine}, "Eval", left(E))
                          ELSE setKernelAssertions(E \in ra, "Eval", left(E))
      BY DEF RaisedAfter
    <3>2. effect[W] # E => mine = {}
      BY <1>14
    <3>3. effect[W] = E => mine = {W}
      BY <1>14
    <3> HIDE DEF mine
    <3>4. CASE effect[W] # E
      BY <3>1, <3>2, <3>4
    <3>5. CASE effect[W] = E /\ E # "PrevIdleSlp"
      BY <3>1, <3>3, <3>5 DEF setKernelAssertions
    <3>6. CASE effect[W] = E /\ E = "PrevIdleSlp"
      <4>1. E \in ra1 <=> modifySettings(E \in ra, {lv[W]}, "Eval", left(E))
        BY <3>1, <3>3, <3>6
      <4>2. lv[W] <=> TypeActive(W, asrt, count)
        BY <1>14, <3>6 DEF LevelRight, NoEffect
      <4>3. E \in ra <=> wasIn(E)
        BY <3>6 DEF RaisedRight
      <4>4. wasIn(E) /\ ~lv[W] => left(E)
        BY <2>1, <4>2 DEF EffectActive
      <4>5. left(E) => wasIn(E)
        BY <2>1 DEF EffectActive, NoEffect, Effects
      <4>6. lv[W] \in BOOLEAN
        BY <1>14
      <4> HIDE DEF left, wasIn
      <4> QED
        BY <3>6, <4>1, <4>3, <4>4, <4>5, <4>6 DEF modifySettings
    <3> QED
      BY <3>4, <3>5, <3>6
  <2>4. ASSUME NEW E \in Effects
        PROVE  /\ eff[W] # E => (E \in raised' <=> E \in ra1)
               /\ eff[W] = E /\ E # "PrevIdleSlp" => (E \in raised' <=> isIn(E))
               /\ eff[W] = E /\ E = "PrevIdleSlp" => (E \in raised' <=> E \in ra1 \/ isIn(E))
    <3> DEFINE mine == {T \in moving \cap Types : eff[T] = E}
    <3>1. E \in raised' <=> IF mine = {} THEN E \in ra1
                            ELSE IF E = "PrevIdleSlp"
                              THEN modifySettings(E \in ra1, {lv1[T] : T \in mine}, "Eval", isIn(E))
                              ELSE setKernelAssertions(E \in ra1, "Eval", isIn(E))
      BY <1>1 DEF RaisedAfter
    <3>2. eff[W] # E => mine = {}
      BY <1>14
    <3>3. eff[W] = E => mine = {W}
      BY <1>14
    <3> HIDE DEF mine
    <3>4. CASE eff[W] # E
      BY <3>1, <3>2, <3>4
    <3>5. CASE eff[W] = E /\ E # "PrevIdleSlp"
      BY <3>1, <3>3, <3>5 DEF setKernelAssertions
    <3>6. CASE eff[W] = E /\ E = "PrevIdleSlp"
      <4>1. E \in raised' <=> modifySettings(E \in ra1, {lv1[W]}, "Eval", isIn(E))
        BY <3>1, <3>3, <3>6
      <4>2. lv1[W] = FALSE
        BY <1>8, <1>14, <2>2
      <4> HIDE DEF isIn, ra1, lv1
      <4> QED
        BY <3>6, <4>1, <4>2 DEF modifySettings
    <3> QED
      BY <3>4, <3>5, <3>6
  <2>5. ASSUME NEW E \in Effects
        PROVE  /\ eff[W] # E => (left(E) <=> isIn(E))
               /\ effect[W] # E => (left(E) <=> wasIn(E))
               /\ wasIn(E) /\ eff[W] = E => isIn(E)
    BY <2>1 DEF EffectActive, NoEffect, Effects
  <2> HIDE DEF ra1, lv1
  <2>6. ASSUME NEW E \in Effects, RaisedRight(E, ra, asrt, count, effect)
        PROVE  RaisedRight(E, raised', asrt, count, effect')
    <3>1. E \in ra <=> wasIn(E)
      BY <2>6 DEF RaisedRight
    <3> HIDE DEF left, wasIn, isIn
    <3>2. E \in raised' <=> isIn(E)
      BY <2>1, <2>3, <2>4, <2>5, <3>1
    <3> QED
      BY <1>1, <3>2 DEF RaisedRight, isIn
  <2>7. ASSUME NEW E \in Effects PROVE HasType(E, raised', effect')
    <3>1. CASE eff[W] = E
      BY <1>1, <1>14, <3>1 DEF HasType
    <3>2. CASE eff[W] # E /\ effect[W] # E
      <4>1. E \in raised' <=> E \in ra
        BY <2>3, <2>4, <3>2
      <4> QED
        BY <1>1, <2>1, <3>2, <4>1 DEF HasType
    <3>3. CASE eff[W] # E /\ effect[W] = E
      <4>1. E \in raised' <=> left(E)
        BY <2>3, <2>4, <3>3
      <4>2. left(E) => isIn(E)
        BY <2>5, <3>3
      <4> QED
        BY <1>1, <4>1, <4>2 DEF HasType, EffectActive
    <3> QED
      BY <3>1, <3>2, <3>3
  <2> QED
    BY <1>2, <1>11, <1>12, <2>6, <2>7
<1> QED
  BY <1>6, <1>13, <1>14

\* The types that are not valid on battery share one effect.
LEMMA NotValidEffect ==
  ASSUME TypeOK, KernelInv, NEW T \in Types \cap NotValidOnBatt
  PROVE  effect[T] \in {"PrevDemandSlp", NoEffect}
<1>1. T # "NetworkAccess" /\ ConfiguredEffect(T) = "PrevDemandSlp"
  BY DEF NotValidOnBatt, ConfiguredEffect
<1>2. effect[T] = NewEffect(T, disabled)
  BY <1>1 DEF KernelInv, Configured
<1> QED
  BY <1>1, <1>2 DEF NewEffect

\* A step of the table.
LEMMA KernelTable ==
  ASSUME TypeOK, KernelInv, CountExact, Strict, TableStep, UNCHANGED <<config, powers>>
  PROVE  KernelInv'
<1>1. PICK U, op : Told(U, op)
  BY ToldFact
<1>2. UNCHANGED <<effect, disabled, power, prevPower, evalQueued>>
  BY DEF config, powers
<1>3. ASSUME NEW T \in Types, T \notin NotValidOnBatt \/ ~evalQueued
      PROVE  LevelRight(T, level', asrt', count', effect)
  BY <1>1, <1>3, LevelsRight DEF KernelInv
<1>4. ASSUME NEW T \in Types PROVE level'[T] => effect[T] # NoEffect
  BY <1>1 DEF KernelInv, Told, CallHandlers, LevelAfter
<1>5. ASSUME NEW E \in Effects, E # "PrevDemandSlp" \/ ~evalQueued
      PROVE  RaisedRight(E, raised', asrt', count', effect)
  <2>1. RaisedRight(E, raised, asrt, count, effect)
    BY <1>5 DEF KernelInv
  <2>2. ASSUME E = "PrevIdleSlp", NEW T \in Types, effect[T] = E
        PROVE  LevelRight(T, level, asrt, count, effect)
    BY <2>2, NotValidEffect DEF KernelInv, NoEffect
  <2> QED
    BY <1>1, <2>1, <2>2, EffectsRight
<1>6. ASSUME NEW E \in Effects PROVE HasType(E, raised', effect)
  BY <1>1, EffectsHaveTypes DEF KernelInv
<1>7. ASSUME NEW T \in Types
      PROVE  LevelRight(T, level', asrt', count', effect) => LevelRight(T, level, asrt, count, effect)'
  BY <1>2 DEF LevelRight, TypeActive
<1>8. ASSUME NEW E \in Effects
      PROVE  RaisedRight(E, raised', asrt', count', effect) => RaisedRight(E, raised, asrt, count, effect)'
  BY <1>2 DEF RaisedRight, EffectActive, TypeActive
<1>9. ASSUME NEW T \in Types PROVE Configured(T) => Configured(T)'
  BY <1>2 DEF Configured, NewEffect, ConfiguredEffect
<1> QED
  BY <1>2, <1>3, <1>4, <1>5, <1>6, <1>7, <1>8, <1>9 DEF KernelInv, HasType

\* Root disables or enables a type.
LEMMA KernelConfig ==
  ASSUME TypeOK, KernelInv, NEW W \in Types, disableAssertionType(W) \/ enableAssertionType(W)
  PROVE  KernelInv'
<1>0. /\ level \in [Types -> BOOLEAN] /\ disabled \subseteq Types /\ raised \in SUBSET Effects
      /\ "PrevIdleSlp" \in Effects
  BY DEF TypeOK, Effects
<1>1. /\ disabled' = disabled \cup {W} \/ disabled' = disabled \ {W}
      /\ configAssertionType({W}, disabled', level, raised)
      /\ UNCHANGED <<asrt, count, power, prevPower, evalQueued>>
  BY DEF disableAssertionType, enableAssertionType, tables, powers
<1>2. disabled' \in SUBSET Types /\ \A T \in Types \ {W} : T \in disabled' <=> T \in disabled
  BY <1>0, <1>1
<1>3. effect[W] = "PrevIdleSlp" => LevelRight(W, level, asrt, count, effect)
  BY NotValidEffect DEF KernelInv, NoEffect
<1>4. /\ \A T \in Types : effect'[T] = IF T = W THEN NewEffect(T, disabled') ELSE effect[T]
      /\ \A T \in Types : LevelRight(T, level, asrt, count, effect)
                            => LevelRight(T, level', asrt, count, effect')
      /\ \A T \in Types : level'[T] => effect'[T] # NoEffect
      /\ \A E \in Effects : RaisedRight(E, raised, asrt, count, effect)
                              => RaisedRight(E, raised', asrt, count, effect')
      /\ \A E \in Effects : HasType(E, raised', effect')
  <2>1. RaisedRight("PrevIdleSlp", raised, asrt, count, effect)
    BY <1>0 DEF KernelInv
  <2>2. /\ \A T \in Types : level[T] => effect[T] # NoEffect
        /\ \A E \in Effects : HasType(E, raised, effect)
    BY DEF KernelInv
  <2> QED
    BY <1>0, <1>1, <1>2, <1>3, <2>1, <2>2, ConfigRight
<1>5. ASSUME NEW T \in Types, T # "NetworkAccess" \/ ~evalQueued PROVE Configured(T)'
  <2>1. CASE T = W
    BY <1>1, <1>4, <2>1 DEF Configured, NewEffect, ConfiguredEffect
  <2>2. CASE T # W
    <3>1. effect[T] = NewEffect(T, disabled)
      BY <1>5 DEF KernelInv, Configured
    <3>2. NewEffect(T, disabled') = NewEffect(T, disabled)
      BY <1>2, <2>2 DEF NewEffect
    <3> QED
      BY <1>1, <1>4, <2>2, <3>1, <3>2 DEF Configured, NewEffect, ConfiguredEffect
  <2> QED
    BY <2>1, <2>2
<1>6. ASSUME NEW T \in Types
      PROVE  LevelRight(T, level', asrt, count, effect') => LevelRight(T, level, asrt, count, effect)'
  BY <1>1 DEF LevelRight, TypeActive
<1>7. ASSUME NEW E \in Effects
      PROVE  RaisedRight(E, raised', asrt, count, effect') => RaisedRight(E, raised, asrt, count, effect)'
  BY <1>1 DEF RaisedRight, EffectActive, TypeActive
<1> QED
  BY <1>1, <1>4, <1>5, <1>6, <1>7 DEF KernelInv, HasType

\* The power source changes while no change waits: what the source decides is out of
\* date, the rest is not.
LEMMA KernelPower ==
  ASSUME TypeOK, KernelInv, "flicker" \notin Ops, PowerChange
  PROVE  KernelInv'
<1>1. /\ ~evalQueued /\ evalQueued' /\ power' # power /\ power = prevPower
      /\ UNCHANGED <<asrt, count, effect, disabled, level, raised, prevPower>>
  BY DEF PowerChange, KernelInv, tables, config, kernel
<1>2. ASSUME NEW T \in Types, T # "NetworkAccess" PROVE Configured(T)'
  <2>1. effect[T] = NewEffect(T, disabled)
    BY <1>1 DEF KernelInv, Configured
  <2>2. ConfiguredEffect(T)' = ConfiguredEffect(T)
    BY <1>2, ConstantsAssumption DEF ConstantsAssumption, AllTypes, ConfiguredEffect
  <2> QED
    BY <1>1, <2>1, <2>2 DEF Configured, NewEffect
<1>3. ASSUME NEW T \in Types, T \notin NotValidOnBatt
      PROVE  LevelRight(T, level, asrt, count, effect)'
  <2>1. LevelRight(T, level, asrt, count, effect)
    BY <1>1 DEF KernelInv
  <2> QED
    BY <1>1, <1>3, <2>1 DEF LevelRight, TypeActive
<1>4. ASSUME NEW E \in Effects, E # "PrevDemandSlp"
      PROVE  RaisedRight(E, raised, asrt, count, effect)'
  <2>1. RaisedRight(E, raised, asrt, count, effect)
    BY <1>1 DEF KernelInv
  <2>2. \A T \in Types : effect[T] = E => T \notin NotValidOnBatt
    BY <1>4, NotValidEffect DEF NoEffect, Effects
  <2>3. \A T \in Types \ NotValidOnBatt :
          TypeActive(T, asrt, count)' <=> TypeActive(T, asrt, count)
    BY <1>1 DEF TypeActive
  <2>4. EffectActive(E, asrt, count, effect)' <=> EffectActive(E, asrt, count, effect)
    BY <1>1, <2>2, <2>3 DEF EffectActive
  <2> QED
    BY <1>1, <2>1, <2>4 DEF RaisedRight
<1> QED
  BY <1>1, <1>2, <1>3, <1>4 DEF KernelInv, HasType

\* The first half of evaluateForPSChange brings everything up to date for the effects
\* the types still have.
LEMMA EvalAll ==
  ASSUME TypeOK, KernelInv,
         NEW lv, lv = LevelAfter(level, Types, asrt, count, effect, effect),
         NEW ra, ra = RaisedAfter(raised, level, Types, "Eval", asrt, count, effect, effect)
  PROVE  /\ \A T \in Types : LevelRight(T, lv, asrt, count, effect)
         /\ \A E \in Effects : RaisedRight(E, ra, asrt, count, effect)
<1>1. ASSUME NEW T \in Types PROVE LevelRight(T, lv, asrt, count, effect)
  <2>1. /\ effect[T] # NoEffect => (lv[T] <=> TypeActive(T, asrt, count))
        /\ effect[T] = NoEffect => (lv[T] <=> level[T])
    BY DEF LevelAfter
  <2>2. level[T] => effect[T] # NoEffect
    BY DEF KernelInv
  <2> QED
    BY <2>1, <2>2 DEF LevelRight
<1>2. ASSUME NEW E \in Effects PROVE RaisedRight(E, ra, asrt, count, effect)
  <2> DEFINE mine == {T \in Types \cap Types : effect[T] = E}
             active == EffectActive(E, asrt, count, effect)
  <2>1. E \in ra <=> IF mine = {} THEN E \in raised
                     ELSE IF E = "PrevIdleSlp"
                       THEN modifySettings(E \in raised, {level[T] : T \in mine}, "Eval", active)
                       ELSE setKernelAssertions(E \in raised, "Eval", active)
    BY DEF RaisedAfter
  <2>2. CASE mine = {}
    <3>1. E \notin raised /\ ~active
      BY <2>2 DEF KernelInv, HasType, EffectActive
    <3> QED
      BY <2>1, <2>2, <3>1 DEF RaisedRight
  <2>3. CASE mine # {} /\ E # "PrevIdleSlp"
    BY <2>1, <2>3 DEF RaisedRight, setKernelAssertions
  <2>4. CASE mine # {} /\ E = "PrevIdleSlp"
    <3>1. E \in raised <=> active
      BY <2>4 DEF KernelInv, RaisedRight
    <3>2. E \in ra <=> modifySettings(E \in raised, {level[T] : T \in mine}, "Eval", active)
      BY <2>1, <2>4
    <3> HIDE DEF mine, active
    <3>3. E \in ra <=> active
      BY <3>1, <3>2 DEF modifySettings
    <3> QED
      BY <3>3 DEF RaisedRight, active
  <2> QED
    BY <2>2, <2>3, <2>4
<1> QED
  BY <1>1, <1>2

LEMMA KernelEvaluate ==
  ASSUME TypeOK, KernelInv, evaluateForPSChange
  PROVE  KernelInv'
<1> DEFINE lv == LevelAfter(level, Types, asrt, count, effect, effect)
           ra == RaisedAfter(raised, level, Types, "Eval", asrt, count, effect, effect)
<1>1. /\ evalQueued /\ ~evalQueued' /\ prevPower' = power /\ power # prevPower
      /\ UNCHANGED <<asrt, count, disabled, power>>
  BY DEF evaluateForPSChange, KernelInv, tables
<1>2. configAssertionType({"NetworkAccess"}, disabled, lv, ra)
  BY <1>1 DEF evaluateForPSChange
<1>3. lv \in [Types -> BOOLEAN] /\ ra \in SUBSET Effects /\ disabled \in SUBSET Types
  BY LevelType, RaisedType DEF TypeOK
<1>4. /\ \A T \in Types : LevelRight(T, lv, asrt, count, effect)
      /\ \A E \in Effects : RaisedRight(E, ra, asrt, count, effect)
  BY EvalAll
<1> HIDE DEF lv, ra
<1>5. /\ \A T \in Types : lv[T] => effect[T] # NoEffect
      /\ \A E \in Effects : HasType(E, ra, effect)
      /\ RaisedRight("PrevIdleSlp", ra, asrt, count, effect)
  BY <1>4 DEF LevelRight, RaisedRight, HasType, EffectActive, Effects
<1>6. /\ \A T \in Types : effect'[T] = IF T = "NetworkAccess" THEN NewEffect(T, disabled)
                                       ELSE effect[T]
      /\ \A T \in Types : LevelRight(T, lv, asrt, count, effect)
                            => LevelRight(T, level', asrt, count, effect')
      /\ \A T \in Types : level'[T] => effect'[T] # NoEffect
      /\ \A E \in Effects : RaisedRight(E, ra, asrt, count, effect)
                              => RaisedRight(E, raised', asrt, count, effect')
      /\ \A E \in Effects : HasType(E, raised', effect')
  BY <1>2, <1>3, <1>4, <1>5, ConfigRight
<1>7. ASSUME NEW T \in Types PROVE Configured(T)'
  <2>1. effect'[T] = NewEffect(T, disabled)
    BY <1>6 DEF KernelInv, Configured
  <2> QED
    BY <1>1, <2>1 DEF Configured, NewEffect, ConfiguredEffect
<1>8. ASSUME NEW T \in Types PROVE LevelRight(T, level, asrt, count, effect)'
  <2>1. LevelRight(T, level', asrt, count, effect')
    BY <1>4, <1>6
  <2> QED
    BY <1>1, <2>1 DEF LevelRight, TypeActive
<1>9. ASSUME NEW E \in Effects PROVE RaisedRight(E, raised, asrt, count, effect)'
  <2>1. RaisedRight(E, raised', asrt, count, effect')
    BY <1>4, <1>6
  <2> QED
    BY <1>1, <2>1 DEF RaisedRight, EffectActive, TypeActive
<1> QED
  BY <1>1, <1>6, <1>7, <1>8, <1>9 DEF KernelInv, HasType

LEMMA KernelSame ==
  ASSUME KernelInv,
         UNCHANGED <<asrt, count, effect, disabled, level, raised, power, prevPower, evalQueued>>
  PROVE  KernelInv'
<1>1. ASSUME NEW T \in Types PROVE Configured(T)' <=> Configured(T)
  BY DEF Configured, NewEffect, ConfiguredEffect
<1>2. ASSUME NEW T \in Types PROVE TypeActive(T, asrt, count)' <=> TypeActive(T, asrt, count)
  BY DEF TypeActive
<1>3. ASSUME NEW T \in Types
      PROVE  LevelRight(T, level, asrt, count, effect)' <=> LevelRight(T, level, asrt, count, effect)
  BY <1>2 DEF LevelRight
<1>4. ASSUME NEW E \in Effects
      PROVE  RaisedRight(E, raised, asrt, count, effect)' <=> RaisedRight(E, raised, asrt, count, effect)
  BY <1>2 DEF RaisedRight, EffectActive
<1> QED
  BY <1>1, <1>3, <1>4 DEF KernelInv, HasType

LEMMA KernelNext ==
  ASSUME Strict, "flicker" \notin Ops
  PROVE  TypeOK /\ CountExact /\ KernelInv /\ [Next]_vars => KernelInv'
<1> SUFFICES ASSUME TypeOK, CountExact, KernelInv, [Next]_vars PROVE KernelInv'
  OBVIOUS
<1>1. CASE TableStep /\ UNCHANGED <<config, powers>>
  BY <1>1, KernelTable
<1>2. CASE Environment
  <2>1. CASE Tick
    BY <2>1, KernelSame DEF Tick, tables, config, kernel, powers
  <2> QED
    BY <1>2, <2>1, KernelConfig, KernelPower, KernelEvaluate DEF Environment
<1>3. CASE UNCHANGED vars
  BY <1>3, KernelSame DEF vars, tables, config, kernel, powers
<1> QED
  BY <1>1, <1>2, <1>3, TableSteps

LEMMA KernelInit == Init => KernelInv
<1> SUFFICES ASSUME Init PROVE KernelInv
  OBVIOUS
<1>1. ~evalQueued /\ power = prevPower /\ disabled = {} /\ power \in Powers
  BY DEF Init
<1>2. ASSUME NEW T \in Types PROVE Configured(T)
  BY DEF Init, Configured
<1>3. ASSUME NEW T \in Types PROVE ~level[T] /\ ~TypeActive(T, asrt, count)
  <2>1. ~level[T] /\ count[T] = 0 /\ \A i \in Ids : asrt[i] = Free
    BY DEF Init
  <2> QED
    BY <2>1, FreeFact DEF TypeActive, IsActive
<1>4. raised = {}
  BY DEF Init
<1> QED
  BY <1>1, <1>2, <1>3, <1>4 DEF KernelInv, LevelRight, RaisedRight, HasType, EffectActive

LEMMA KernelImplies == TypeOK /\ CountExact /\ KernelInv => KernelToldRight
<1> SUFFICES ASSUME TypeOK, CountExact, KernelInv, ~evalQueued
             PROVE  /\ raised = {E \in Effects : \E i \in Ids : Wants(i, E)}
                    /\ \A T \in Types : level[T] = \E i \in Ids : \E E \in Effects :
                                                      asrt[i].type = T /\ Wants(i, E)
  BY DEF KernelToldRight
<1>1. \A i \in Ids : asrt[i].batt \in BOOLEAN /\ (IsActive(asrt[i]) => asrt[i].type \in Types)
  BY TypeOfUsed DEF TypeOK, AssertionType, IsActive
<1>2. power \in Powers /\ raised \subseteq Effects /\ level \in [Types -> BOOLEAN]
  BY DEF TypeOK
<1>3. \A T \in Types : TypeActive(T, asrt, count) <=> \E i \in Ids : asrt[i].type = T /\ Speaks(asrt[i])
  BY <1>1, <1>2, ActiveFact, ExactFact
<1>4. \A T \in Types : /\ ConfiguredEffect(T) \in Effects /\ ConfiguredEffect(T) # NoEffect
                       /\ effect[T] = IF T \in disabled THEN NoEffect ELSE ConfiguredEffect(T)
  BY <1>2, EffectFact DEF KernelInv, Configured, NewEffect
<1>5. ASSUME NEW i \in Ids, NEW E \in Effects
      PROVE  Wants(i, E) <=> Speaks(asrt[i]) /\ asrt[i].type \in Types /\ effect[asrt[i].type] = E
  BY <1>1, <1>4 DEF Wants, Speaks, NoEffect, Effects
<1>6. ASSUME NEW E \in Effects PROVE E \in raised <=> \E i \in Ids : Wants(i, E)
  <2>1. E \in raised <=> \E T \in Types : effect[T] = E /\ TypeActive(T, asrt, count)
    BY DEF KernelInv, RaisedRight, EffectActive
  <2> QED
    BY <1>3, <1>5, <2>1
<1>7. ASSUME NEW T \in Types
      PROVE  level[T] <=> \E i \in Ids : \E E \in Effects : asrt[i].type = T /\ Wants(i, E)
  <2>1. level[T] <=> effect[T] # NoEffect /\ TypeActive(T, asrt, count)
    BY DEF KernelInv, LevelRight
  <2>2. effect[T] # NoEffect <=> effect[T] \in Effects
    BY <1>4 DEF Effects, NoEffect
  <2> QED
    BY <1>3, <1>5, <2>1, <2>2
<1>8. raised = {E \in Effects : \E i \in Ids : Wants(i, E)}
  BY <1>2, <1>6
<1>9. ASSUME NEW T \in Types
      PROVE  level[T] = \E i \in Ids : \E E \in Effects : asrt[i].type = T /\ Wants(i, E)
  BY <1>2, <1>7
<1> QED
  BY <1>8, <1>9

\* Under the same conditions, and when the power source does not change again before
\* its change was evaluated, the incremental handlers agree with the definition: with
\* no evaluation outstanding the kernel has been told of an effect exactly when some
\* active assertion of an enabled type asks for it on this power source, and the level
\* of a type says whether one of its own does.
THEOREM KernelIsToldRight ==
  ASSUME {"limitedInactive", "releaseSuspended", "setSuspended", "bothWays", "flicker"}
           \cap Ops = {}
  PROVE  Spec => []KernelToldRight
<1>1. Strict /\ "flicker" \notin Ops
  BY DEF Strict
<1>2. TypeOK /\ CountExact /\ [Next]_vars => CountExact'
  BY <1>1, ExactNext
<1>3. TypeOK /\ CountExact /\ KernelInv /\ [Next]_vars => KernelInv'
  BY <1>1, KernelNext
<1> QED
  BY <1>2, <1>3, TypeInit, TypeNext, ExactInit, KernelInit, KernelImplies, PTL DEF Spec
=============================================================================
