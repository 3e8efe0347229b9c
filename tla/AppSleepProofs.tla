--------------------------- MODULE AppSleepProofs ---------------------------
(***************************************************************************)
(* Proofs about AppSleep, for any number of assertions and types, any      *)
(* width of the counts and any number of blocks.                           *)
(***************************************************************************)
EXTENDS AppSleep, FiniteSetTheorems, WellFoundedInduction, TLAPS

-----------------------------------------------------------------------------
(* A fold over a finite set.                                                *)

\* A set of numbers has a smallest one.
LEMMA MinNat ==
  ASSUME NEW D \in SUBSET Nat, D # {}
  PROVE  \E m \in D : \A y \in D : m <= y
<1>1. PICK m \in D : \A y \in D : ~(<<y, m>> \in OpToRel(<, Nat))
  BY NatLessThanWellFounded, WFMin
<1>2. ASSUME NEW y \in D PROVE m <= y
  <2>1. m \in Nat /\ y \in Nat
    OBVIOUS
  <2>2. ~(y < m)
    BY <1>1, <2>1 DEF OpToRel
  <2> QED BY <2>1, <2>2
<1> QED BY <1>2

\* The element a fold takes next, and one step of the suspension of set s.
Taken(s) == CHOOSE i \in s : TRUE
Step(f, base, s) ==
  IF s = {} THEN base ELSE schedEnableAppSleep(f[s \ {Taken(s)}], type[Taken(s)])
Small(S, n) == {s \in SUBSET S : Cardinality(s) <= n}

LEMMA TakenFact ==
  ASSUME NEW S, IsFiniteSet(S), NEW s \in SUBSET S
  PROVE  /\ IsFiniteSet(s) /\ Cardinality(s) \in Nat /\ (Cardinality(s) = 0 <=> s = {})
         /\ s # {} => /\ Taken(s) \in s /\ s \ {Taken(s)} \in SUBSET S
                      /\ Cardinality(s \ {Taken(s)}) = Cardinality(s) - 1
<1>1. IsFiniteSet(s)
  BY FS_Subset
<1>2. Cardinality(s) \in Nat /\ (Cardinality(s) = 0 <=> s = {})
  BY <1>1, FS_CardinalityType, FS_EmptySet
<1>3. ASSUME s # {} PROVE Taken(s) \in s
  BY <1>3 DEF Taken
<1> QED BY <1>1, <1>2, <1>3, FS_RemoveElement

\* The recursion of the fold has a solution on the sets of any size.
LEMMA FoldExists ==
  ASSUME NEW S, IsFiniteSet(S), NEW base, NEW n \in Nat
  PROVE  \E f : f = [s \in Small(S, n) |-> Step(f, base, s)]
<1> DEFINE Solved(m) == \E f : f = [s \in Small(S, m) |-> Step(f, base, s)]
           Bad == {m \in Nat : ~Solved(m)}
<1>1. SUFFICES ASSUME Bad # {} PROVE FALSE
  OBVIOUS
<1>2. PICK m \in Bad : \A y \in Bad : m <= y
  BY <1>1, MinNat
<1>3. CASE m = 0
  <2> DEFINE f == [s \in Small(S, m) |-> base]
  <2>1. ASSUME NEW s \in Small(S, m) PROVE s = {}
    <3>1. s \in SUBSET S /\ Cardinality(s) <= 0
      BY <1>3 DEF Small
    <3>2. Cardinality(s) \in Nat /\ (Cardinality(s) = 0 <=> s = {})
      BY <3>1, TakenFact
    <3> QED BY <3>1, <3>2
  <2>2. f = [s \in Small(S, m) |-> Step(f, base, s)]
    BY <2>1 DEF Step
  <2> QED BY <1>2, <2>2
<1>4. CASE m # 0
  <2>1. m - 1 \in Nat /\ m - 1 \notin Bad
    BY <1>2, <1>4
  <2>2. PICK f : f = [s \in Small(S, m - 1) |-> Step(f, base, s)]
    BY <2>1
  <2> DEFINE g == [s \in Small(S, m) |-> Step(f, base, s)]
  <2>3. ASSUME NEW s \in Small(S, m) PROVE Step(f, base, s) = Step(g, base, s)
    <3>1. CASE s = {}
      BY <3>1 DEF Step
    <3>2. CASE s # {}
      <4> DEFINE r == s \ {Taken(s)}
      <4>1. r \in Small(S, m - 1) /\ r \in Small(S, m)
        BY <1>2, <2>3, <3>2, TakenFact DEF Small
      <4>2. f[r] = g[r]
        BY <2>2, <4>1
      <4> QED BY <3>2, <4>2 DEF Step
    <3> QED BY <3>1, <3>2
  <2>4. g = [s \in Small(S, m) |-> Step(g, base, s)]
    BY <2>3
  <2> QED BY <1>2, <2>4
<1> QED BY <1>3, <1>4

\* What holds before the first step, and after a step if it held before it, holds at
\* the end; W[n] are the states that n steps may lead to.
LEMMA FoldFact ==
  ASSUME NEW S, IsFiniteSet(S), NEW base, NEW W, base \in W[0],
         \A n \in Nat : \A i \in S, r \in W[n] : schedEnableAppSleep(r, type[i]) \in W[n + 1]
  PROVE  FoldSet(LAMBDA i, r : schedEnableAppSleep(r, type[i]), base, S) \in W[Cardinality(S)]
<1> DEFINE iter == CHOOSE f : f = [s \in SUBSET S |-> Step(f, base, s)]
<1>1. FoldSet(LAMBDA i, r : schedEnableAppSleep(r, type[i]), base, S) = iter[S]
  BY DEF FoldSet, MapThenFoldSet, Step, Taken
<1>2. Cardinality(S) \in Nat
  BY FS_CardinalityType
<1>3. Small(S, Cardinality(S)) = SUBSET S
  BY FS_Subset DEF Small
<1>4. \E f : f = [s \in SUBSET S |-> Step(f, base, s)]
  <2>1. \E f : f = [s \in Small(S, Cardinality(S)) |-> Step(f, base, s)]
    BY <1>2, FoldExists
  <2> QED BY <1>3, <2>1
<1>5. iter = [s \in SUBSET S |-> Step(iter, base, s)]
  BY <1>4
<1> HIDE DEF iter
<1> DEFINE Bad == {n \in Nat : \E s \in SUBSET S : Cardinality(s) = n /\ iter[s] \notin W[n]}
<1>6. SUFFICES ASSUME Bad # {} PROVE FALSE
  BY <1>1, <1>2
<1>7. PICK n \in Bad : \A y \in Bad : n <= y
  BY <1>6, MinNat
<1>8. PICK s \in SUBSET S : Cardinality(s) = n /\ iter[s] \notin W[n]
  BY <1>7
<1>9. iter[s] = Step(iter, base, s)
  BY <1>5
<1>10. CASE s = {}
  BY <1>8, <1>9, <1>10, TakenFact DEF Step
<1>11. CASE s # {}
  <2> DEFINE r == s \ {Taken(s)}
  <2>1. r \in SUBSET S /\ Cardinality(r) = n - 1 /\ n - 1 \in Nat /\ Taken(s) \in S
    BY <1>8, <1>11, TakenFact
  <2>2. n - 1 \notin Bad
    BY <1>7, <2>1
  <2>3. iter[r] \in W[n - 1]
    BY <2>1, <2>2
  <2> HIDE DEF r
  <2>4. schedEnableAppSleep(iter[r], type[Taken(s)]) \in W[(n - 1) + 1]
    BY <2>1, <2>3
  <2>5. iter[s] = schedEnableAppSleep(iter[r], type[Taken(s)])
    BY <1>9, <1>11 DEF Step, r
  <2> QED BY <1>7, <1>8, <2>4, <2>5
<1> QED BY <1>10, <1>11

-----------------------------------------------------------------------------
(* What handlers compute.                                                   *)

InfoSet == [cnt : [Types -> 0..UCharMax], agg : SUBSET Types,
            disableAS : BOOLEAN, enableAS : BOOLEAN, suspended : BOOLEAN]
StateSet == [info : InfoSet, queue : Seq({"D", "E"}), told : BOOLEAN]
Waits(q, what) == \E n \in DOMAIN q : q[n] = what

\* A state of a handler with at most n blocks waiting, in which every notification
\* that is pending has a block.
Sound(n) ==
  {s \in StateSet : /\ Len(s.queue) <= n
                    /\ s.info.disableAS => Waits(s.queue, "D")
                    /\ s.info.enableAS => Waits(s.queue, "E")}

LEMMA AppendFact ==
  ASSUME NEW q \in Seq({"D", "E"}), NEW what \in {"D", "E"}
  PROVE  /\ Append(q, what) \in Seq({"D", "E"})
         /\ Len(Append(q, what)) = Len(q) + 1
         /\ Waits(Append(q, what), what)
         /\ \A w \in {"D", "E"} : Waits(q, w) => Waits(Append(q, what), w)
<1> DEFINE r == Append(q, what)
<1>1. r \in Seq({"D", "E"}) /\ Len(r) = Len(q) + 1 /\ DOMAIN r = 1..Len(q) + 1
      /\ DOMAIN q = 1..Len(q) /\ Len(q) \in Nat
  OBVIOUS
<1>2. r[Len(q) + 1] = what /\ \A n \in 1..Len(q) : r[n] = q[n]
  OBVIOUS
<1> HIDE DEF r
<1>3. Waits(r, what)
  BY <1>1, <1>2 DEF Waits
<1>4. ASSUME NEW w \in {"D", "E"}, Waits(q, w) PROVE Waits(r, w)
  BY <1>1, <1>2, <1>4 DEF Waits
<1> QED BY <1>1, <1>3, <1>4 DEF r

LEMMA DisableFact ==
  ASSUME NEW n \in Nat, NEW s \in Sound(n), NEW T \in Types
  PROVE  /\ schedDisableAppSleep(s, T) \in Sound(n + 1)
         /\ schedDisableAppSleep(s, T).info.suspended = s.info.suspended
<1> DEFINE counted == [s EXCEPT !.info.cnt[T] = @ + 1, !.info.agg = @ \cup {T}]
           r == [counted EXCEPT !.info.disableAS = TRUE, !.queue = Append(@, "D")]
<1>1. s \in StateSet /\ Len(s.queue) <= n /\ Len(s.queue) \in Nat
      /\ (s.info.disableAS => Waits(s.queue, "D")) /\ (s.info.enableAS => Waits(s.queue, "E"))
  BY DEF Sound, StateSet
<1>2. CASE s.info.cnt[T] = UCharMax
  BY <1>1, <1>2 DEF Sound, schedDisableAppSleep
<1>3. CASE s.info.cnt[T] # UCharMax
  <2>1. s.info.cnt[T] + 1 \in 0..UCharMax
    BY <1>1, <1>3, ConstantsAssumption DEF StateSet, InfoSet
  <2>2. counted \in StateSet /\ counted.queue = s.queue /\ counted.info.suspended = s.info.suspended
        /\ counted.info.disableAS = s.info.disableAS /\ counted.info.enableAS = s.info.enableAS
    BY <1>1, <2>1 DEF StateSet, InfoSet
  <2>3. CASE s.info.agg # {}
    <3>1. schedDisableAppSleep(s, T) = counted
      BY <1>3, <2>3 DEF schedDisableAppSleep
    <3> HIDE DEF counted
    <3>2. counted \in Sound(n + 1)
      BY <1>1, <2>2 DEF Sound
    <3> QED BY <2>2, <3>1, <3>2
  <2>4. CASE s.info.agg = {}
    <3> HIDE DEF counted
    <3>1. r.queue = Append(s.queue, "D") /\ r.info.disableAS = TRUE
          /\ r.info.enableAS = counted.info.enableAS /\ r.info.suspended = counted.info.suspended
      BY <2>2 DEF StateSet, InfoSet
    <3>2. /\ Append(s.queue, "D") \in Seq({"D", "E"})
          /\ Len(Append(s.queue, "D")) = Len(s.queue) + 1
          /\ Waits(Append(s.queue, "D"), "D")
          /\ Waits(s.queue, "E") => Waits(Append(s.queue, "D"), "E")
      BY <1>1, AppendFact DEF StateSet
    <3>3. r \in StateSet
      BY <2>2, <3>2 DEF StateSet, InfoSet
    <3>4. schedDisableAppSleep(s, T) = r
      BY <1>3, <2>4 DEF schedDisableAppSleep, counted
    <3> HIDE DEF r
    <3>5. /\ Len(r.queue) <= n + 1 /\ Waits(r.queue, "D")
          /\ r.info.enableAS => Waits(r.queue, "E")
      BY <1>1, <2>2, <3>1, <3>2
    <3>6. r \in Sound(n + 1)
      BY <3>3, <3>5 DEF Sound
    <3> QED BY <2>2, <3>1, <3>4, <3>6
  <2> QED BY <2>3, <2>4
<1> QED BY <1>2, <1>3

LEMMA EnableFact ==
  ASSUME NEW n \in Nat, NEW s \in Sound(n), NEW T \in Types
  PROVE  /\ schedEnableAppSleep(s, T) \in Sound(n + 1)
         /\ schedEnableAppSleep(s, T).info.suspended = s.info.suspended
<1> DEFINE m == (s.info.cnt[T] - 1) % (UCharMax + 1)
           counted == [s EXCEPT !.info.cnt[T] = m,
                                !.info.agg = IF m = 0 THEN @ \ {T} ELSE @]
           r == [counted EXCEPT !.info.enableAS = TRUE, !.queue = Append(@, "E")]
<1>1. s \in StateSet /\ Len(s.queue) <= n /\ Len(s.queue) \in Nat
      /\ (s.info.disableAS => Waits(s.queue, "D")) /\ (s.info.enableAS => Waits(s.queue, "E"))
  BY DEF Sound, StateSet
<1>2. m \in 0..UCharMax
  <2>1. s.info.cnt[T] \in Int /\ UCharMax + 1 \in Nat \ {0}
    BY <1>1, ConstantsAssumption DEF StateSet, InfoSet
  <2> QED BY <2>1, ConstantsAssumption
<1> HIDE DEF m
<1>3. counted \in StateSet /\ counted.queue = s.queue /\ counted.info.suspended = s.info.suspended
      /\ counted.info.disableAS = s.info.disableAS /\ counted.info.enableAS = s.info.enableAS
  BY <1>1, <1>2 DEF StateSet, InfoSet
<1>4. schedEnableAppSleep(s, T) = IF m # 0 \/ counted.info.agg # {} THEN counted ELSE r
  BY DEF schedEnableAppSleep, m
<1> HIDE DEF counted
<1>5. CASE m # 0 \/ counted.info.agg # {}
  BY <1>1, <1>3, <1>4, <1>5 DEF Sound
<1>6. CASE ~(m # 0 \/ counted.info.agg # {})
  <2>1. r.queue = Append(s.queue, "E") /\ r.info.enableAS = TRUE
        /\ r.info.disableAS = counted.info.disableAS /\ r.info.suspended = counted.info.suspended
    BY <1>3 DEF StateSet, InfoSet
  <2>2. /\ Append(s.queue, "E") \in Seq({"D", "E"})
        /\ Len(Append(s.queue, "E")) = Len(s.queue) + 1
        /\ Waits(Append(s.queue, "E"), "E")
        /\ Waits(s.queue, "D") => Waits(Append(s.queue, "E"), "D")
    BY <1>1, AppendFact DEF StateSet
  <2>3. r \in StateSet
    BY <1>3, <2>2 DEF StateSet, InfoSet
  <2>4. schedEnableAppSleep(s, T) = r
    BY <1>4, <1>6
  <2> HIDE DEF r
  <2>5. /\ Len(r.queue) <= n + 1 /\ Waits(r.queue, "E")
        /\ r.info.disableAS => Waits(r.queue, "D")
    BY <1>1, <1>3, <2>1, <2>2
  <2>6. r \in Sound(n + 1)
    BY <2>3, <2>5 DEF Sound
  <2> QED BY <1>3, <2>1, <2>4, <2>6
<1> QED BY <1>5, <1>6

LEMMA ReplyFact ==
  ASSUME NEW n \in Nat, NEW s \in Sound(n), NEW how
  PROVE  /\ disableAppSleep(s) \in Sound(n) /\ enableAppSleep(s) \in Sound(n)
         /\ Reply(s, how) \in Sound(n)
         /\ disableAppSleep(s).info.suspended = s.info.suspended
         /\ enableAppSleep(s).info.suspended = s.info.suspended
<1>1. ASSUME NEW r \in Sound(n)
      PROVE  /\ disableAppSleep(r) \in Sound(n) /\ enableAppSleep(r) \in Sound(n)
             /\ disableAppSleep(r).info.suspended = r.info.suspended
             /\ enableAppSleep(r).info.suspended = r.info.suspended
  BY DEF disableAppSleep, enableAppSleep, Sound, StateSet, InfoSet
<1> QED BY <1>1 DEF Reply, updateAppSleepStates

-----------------------------------------------------------------------------
(* Types, and no notification without a block.                              *)

Places == {"free", "active", "inactive", "suspended"}
Limit == MaxQueue + Cardinality(Ids)

IndInv ==
  /\ list \in [Ids -> Places] /\ type \in [Ids -> Types]
  /\ stays \in BOOLEAN /\ answered \in BOOLEAN
  /\ Now \in Sound(Limit)

LEMMA LimitFact == Cardinality(Ids) \in Nat /\ Limit \in Nat /\ MaxQueue <= Limit
BY ConstantsAssumption, FS_CardinalityType DEF Limit

LEMMA NowFact ==
  ASSUME IndInv, Room
  PROVE  \E n \in Nat : Now \in Sound(n) /\ n + 1 <= MaxQueue
<1>1. Now \in StateSet /\ Len(queue) \in Nat /\ Len(queue) < MaxQueue
      /\ Now.queue = queue /\ Now.info = info
      /\ (info.disableAS => Waits(queue, "D")) /\ (info.enableAS => Waits(queue, "E"))
  BY DEF IndInv, Sound, StateSet, Now, Room
<1>2. Now \in Sound(Len(queue))
  BY <1>1 DEF Sound
<1> QED BY <1>1, <1>2, ConstantsAssumption

LEMMA NewInfoFact == NewInfo \in InfoSet /\ ~NewInfo.disableAS /\ ~NewInfo.enableAS
<1>1. [T \in Types |-> 0] \in [Types -> 0..UCharMax]
  BY ConstantsAssumption
<1> QED BY <1>1 DEF NewInfo, InfoSet

LEMMA CommitFact ==
  ASSUME NEW n \in Nat, n <= Limit, NEW s \in Sound(n), NEW lists \in [Ids -> Places],
         stays \in BOOLEAN, Commit(s, lists)
  PROVE  /\ Now' \in Sound(Limit) /\ list' = lists /\ stays' \in BOOLEAN
<1>1. s \in StateSet /\ Len(s.queue) <= n /\ Len(s.queue) \in Nat
      /\ (s.info.disableAS => Waits(s.queue, "D")) /\ (s.info.enableAS => Waits(s.queue, "E"))
  BY DEF Sound, StateSet
<1>2. Now' = [info |-> info', queue |-> s.queue, told |-> s.told]
  BY DEF Now, Commit
<1>3. info' \in {s.info, NewInfo}
  BY DEF Commit
<1>4. info' \in InfoSet /\ (info'.disableAS => Waits(s.queue, "D"))
      /\ (info'.enableAS => Waits(s.queue, "E"))
  BY <1>1, <1>3, NewInfoFact DEF StateSet
<1>5. Len(s.queue) <= Limit
  BY <1>1, LimitFact
<1>6. Now' \in StateSet
  BY <1>1, <1>2, <1>4 DEF StateSet
<1>7. Now'.queue = s.queue /\ Now'.info = info'
  BY <1>2
<1>8. Now' \in Sound(Limit)
  BY <1>4, <1>5, <1>6, <1>7 DEF Sound
<1> QED BY <1>8 DEF Commit

LEMMA CreateStep ==
  ASSUME IndInv, NEW i \in Ids, NEW T \in Types, NEW how, doCreate(i, T, how), answered' \in BOOLEAN
  PROVE  IndInv'
<1>1. PICK n \in Nat : Now \in Sound(n) /\ n + 1 <= MaxQueue
  BY NowFact DEF doCreate
<1> DEFINE s == schedDisableAppSleep(Now, T)
           r == IF how = "mig" /\ ~Known THEN disableAppSleep(s) ELSE s
           lists == [list EXCEPT ![i] = "active"]
<1>2. s \in Sound(n + 1)
  BY <1>1, DisableFact
<1>3. r \in Sound(n + 1)
  BY <1>2, ReplyFact
<1>4. lists \in [Ids -> Places] /\ Commit(r, lists) /\ type' \in [Ids -> Types]
  BY DEF doCreate, IndInv, Places
<1>5. n + 1 \in Nat /\ n + 1 <= Limit
  BY <1>1, LimitFact, ConstantsAssumption
<1> HIDE DEF r, lists
<1>6. stays \in BOOLEAN
  BY DEF IndInv
<1>7. Now' \in Sound(Limit) /\ list' = lists /\ stays' \in BOOLEAN
  BY <1>3, <1>4, <1>5, <1>6, CommitFact
<1> QED BY <1>4, <1>7 DEF IndInv

LEMMA ReleaseStep ==
  ASSUME IndInv, NEW i \in Ids, NEW how, doRelease(i, how), answered' \in BOOLEAN
  PROVE  IndInv'
<1>1. PICK n \in Nat : Now \in Sound(n) /\ n + 1 <= MaxQueue
  BY NowFact DEF doRelease
<1> DEFINE s == IF list[i] = "inactive" THEN Now ELSE schedEnableAppSleep(Now, type[i])
           r == Reply(s, how)
           lists == [list EXCEPT ![i] = "free"]
           m == IF list[i] = "inactive" THEN n ELSE n + 1
<1>2. type[i] \in Types
  BY DEF IndInv
<1>3. s \in Sound(m)
  BY <1>1, <1>2, EnableFact
<1>4. m \in Nat /\ m <= Limit
  BY <1>1, LimitFact, ConstantsAssumption
<1>5. lists \in [Ids -> Places] /\ Commit(r, lists) /\ type' \in [Ids -> Types]
  BY DEF doRelease, IndInv, Places
<1> HIDE DEF s, lists, m
<1>6. r \in Sound(m)
  BY <1>3, <1>4, ReplyFact
<1>7. stays \in BOOLEAN
  BY DEF IndInv
<1> HIDE DEF r
<1>8. Now' \in Sound(Limit) /\ list' = lists /\ stays' \in BOOLEAN
  BY <1>4, <1>5, <1>6, <1>7, CommitFact
<1> QED BY <1>5, <1>8 DEF IndInv

LEMMA SetLevelStep ==
  ASSUME IndInv, NEW i \in Ids, NEW how, doSetLevel(i, how), answered' \in BOOLEAN
  PROVE  IndInv'
<1>1. PICK n \in Nat : Now \in Sound(n) /\ n + 1 <= MaxQueue
  BY NowFact DEF doSetLevel
<1>2. type[i] \in Types /\ stays \in BOOLEAN /\ type' \in [Ids -> Types]
  BY DEF IndInv, doSetLevel
<1>3. n + 1 \in Nat /\ n + 1 <= Limit
  BY <1>1, LimitFact, ConstantsAssumption
<1>4. schedEnableAppSleep(Now, type[i]) \in Sound(n + 1)
      /\ schedDisableAppSleep(Now, type[i]) \in Sound(n + 1)
  BY <1>1, <1>2, EnableFact, DisableFact
<1>5. PICK r \in Sound(n + 1), lists \in [Ids -> Places] : Commit(r, lists)
  <2>1. /\ Reply(schedEnableAppSleep(Now, type[i]), how) \in Sound(n + 1)
        /\ Reply(schedDisableAppSleep(Now, type[i]), how) \in Sound(n + 1)
    BY <1>3, <1>4, ReplyFact
  <2>2. \A v \in {"active", "inactive"} : [list EXCEPT ![i] = v] \in [Ids -> Places]
    BY DEF IndInv, Places
  <2>3. \/ Commit(Reply(schedEnableAppSleep(Now, type[i]), how), [list EXCEPT ![i] = "inactive"])
        \/ Commit(Reply(schedDisableAppSleep(Now, type[i]), how), [list EXCEPT ![i] = "active"])
    BY DEF doSetLevel
  <2> QED BY <2>1, <2>2, <2>3
<1>6. Now' \in Sound(Limit) /\ list' = lists /\ stays' \in BOOLEAN
  BY <1>2, <1>3, <1>5, CommitFact
<1> QED BY <1>2, <1>6 DEF IndInv

LEMMA SuspendStep ==
  ASSUME IndInv, handleAssertionSuspend, answered' \in BOOLEAN
  PROVE  IndInv'
<1> DEFINE active == {i \in Ids : list[i] = "active"}
           s == FoldSet(LAMBDA i, r : schedEnableAppSleep(r, type[i]), Now, active)
           lists == [i \in Ids |-> IF list[i] = "free" THEN "free" ELSE "suspended"]
<1>1. PICK n \in Nat : Now \in Sound(n) /\ n + 1 <= MaxQueue
  BY NowFact DEF handleAssertionSuspend
<1>2. IsFiniteSet(active) /\ Cardinality(active) <= Cardinality(Ids)
      /\ Cardinality(active) \in Nat
  BY ConstantsAssumption, FS_Subset, FS_CardinalityType
<1> DEFINE W == [k \in Nat |-> Sound(n + k)]
<1>3. s \in W[Cardinality(active)]
  <2>1. Now \in W[0]
    BY <1>1
  <2>2. ASSUME NEW k \in Nat, NEW i \in active, NEW r \in W[k]
        PROVE  schedEnableAppSleep(r, type[i]) \in W[k + 1]
    <3>1. type[i] \in Types /\ n + k \in Nat /\ r \in Sound(n + k)
      BY DEF IndInv
    <3>2. schedEnableAppSleep(r, type[i]) \in Sound((n + k) + 1)
      BY <3>1, EnableFact
    <3>3. (n + k) + 1 = n + (k + 1)
      OBVIOUS
    <3> QED BY <3>2, <3>3
  <2> HIDE DEF W, active
  <2> QED BY <1>2, <2>1, <2>2, FoldFact
<1> DEFINE m == n + Cardinality(active)
<1>4. m \in Nat /\ m <= Limit /\ s \in Sound(m)
  <2>1. s \in Sound(m)
    BY <1>2, <1>3
  <2> HIDE DEF s, active
  <2>2. m \in Nat /\ m <= MaxQueue + Cardinality(Ids)
    BY <1>1, <1>2, ConstantsAssumption, LimitFact
  <2> QED BY <2>1, <2>2 DEF Limit
<1> DEFINE r == [s EXCEPT !.info.suspended = TRUE]
<1>5. lists \in [Ids -> Places] /\ Commit(r, lists) /\ type' \in [Ids -> Types] /\ stays \in BOOLEAN
  BY DEF handleAssertionSuspend, IndInv, Places
<1> HIDE DEF s, m, active, lists
<1>6. r \in Sound(m)
  BY <1>4 DEF Sound, StateSet, InfoSet
<1> HIDE DEF r
<1>7. Now' \in Sound(Limit) /\ list' = lists /\ stays' \in BOOLEAN
  BY <1>4, <1>5, <1>6, CommitFact
<1> QED BY <1>5, <1>7 DEF IndInv

LEMMA ResumeStep ==
  ASSUME IndInv, handleAssertionResume, answered' \in BOOLEAN
  PROVE  IndInv'
<1> DEFINE r == [Now EXCEPT !.info.suspended = FALSE]
           lists(on) == [i \in Ids |-> IF list[i] # "suspended" THEN list[i]
                                       ELSE IF i \in on THEN "active" ELSE "inactive"]
<1>1. PICK on \in SUBSET {i \in Ids : list[i] = "suspended"} : Commit(r, lists(on))
  BY DEF handleAssertionResume
<1>2. lists(on) \in [Ids -> Places] /\ type' \in [Ids -> Types] /\ stays \in BOOLEAN
  BY DEF handleAssertionResume, IndInv, Places
<1>3. r \in Sound(Limit)
  BY DEF IndInv, Sound, StateSet, InfoSet
<1> DEFINE l == lists(on)
<1>4. l \in [Ids -> Places] /\ Commit(r, l)
  BY <1>1, <1>2
<1> HIDE DEF r, l
<1>5. Now' \in Sound(Limit) /\ list' = l /\ stays' \in BOOLEAN
  BY <1>2, <1>3, <1>4, LimitFact, CommitFact
<1> QED BY <1>2, <1>4, <1>5 DEF IndInv

LEMMA TailFact ==
  ASSUME NEW q \in Seq({"D", "E"}), q # <<>>
  PROVE  /\ Tail(q) \in Seq({"D", "E"}) /\ Len(Tail(q)) = Len(q) - 1 /\ Head(q) \in {"D", "E"}
         /\ \A w : Waits(q, w) /\ Head(q) # w => Waits(Tail(q), w)
<1>1. Tail(q) \in Seq({"D", "E"}) /\ Len(Tail(q)) = Len(q) - 1 /\ Head(q) = q[1]
      /\ Len(q) \in Nat \ {0} /\ DOMAIN q = 1..Len(q) /\ q[1] \in {"D", "E"}
      /\ DOMAIN Tail(q) = 1..Len(q) - 1
  OBVIOUS
<1>2. \A n \in 1..Len(q) - 1 : Tail(q)[n] = q[n + 1]
  OBVIOUS
<1>3. ASSUME NEW w, Waits(q, w), Head(q) # w PROVE Waits(Tail(q), w)
  <2>1. PICK n \in 1..Len(q) : q[n] = w
    BY <1>1, <1>3 DEF Waits
  <2>2. n # 1
    BY <1>1, <1>3, <2>1
  <2>3. n - 1 \in 1..Len(q) - 1 /\ (n - 1) + 1 = n
    BY <1>1, <2>2
  <2>4. Tail(q)[n - 1] = w
    BY <1>2, <2>1, <2>3
  <2> QED BY <1>1, <2>3, <2>4 DEF Waits
<1> QED BY <1>1, <1>3

LEMMA BlockStep ==
  ASSUME IndInv, RunBlock, answered' \in BOOLEAN
  PROVE  IndInv'
<1> DEFINE s == IF Head(queue) = "D" THEN disableAppSleep(Now) ELSE enableAppSleep(Now)
           r == [s EXCEPT !.queue = Tail(@)]
<1>1. queue # <<>> /\ Commit(r, list) /\ type' = type
  BY DEF RunBlock
<1>2. Now \in Sound(Limit) /\ Limit \in Nat
  BY LimitFact DEF IndInv
<1>3. queue \in Seq({"D", "E"}) /\ s.queue = queue
  BY <1>2 DEF Sound, StateSet, Now, disableAppSleep, enableAppSleep
<1>4. s \in Sound(Limit)
  BY <1>2, ReplyFact
<1>5. (Head(queue) = "D" => ~s.info.disableAS) /\ (Head(queue) # "D" => ~s.info.enableAS)
  BY <1>2 DEF Sound, StateSet, InfoSet, Now, disableAppSleep, enableAppSleep
<1>6. s \in StateSet /\ Len(queue) <= Limit
      /\ (s.info.disableAS => Waits(queue, "D")) /\ (s.info.enableAS => Waits(queue, "E"))
  BY <1>3, <1>4 DEF Sound
<1> HIDE DEF s
<1>7. /\ Tail(queue) \in Seq({"D", "E"}) /\ Len(Tail(queue)) = Len(queue) - 1
      /\ Head(queue) \in {"D", "E"} /\ Len(queue) \in Nat
      /\ \A w : Waits(queue, w) /\ Head(queue) # w => Waits(Tail(queue), w)
  BY <1>1, <1>3, TailFact
<1>8. r.queue = Tail(queue) /\ r.info = s.info /\ r \in StateSet
  BY <1>3, <1>6, <1>7 DEF StateSet
<1> HIDE DEF r
<1>9. /\ Len(r.queue) <= Limit
      /\ r.info.disableAS => Waits(r.queue, "D")
      /\ r.info.enableAS => Waits(r.queue, "E")
  BY <1>2, <1>5, <1>6, <1>7, <1>8
<1>10. r \in Sound(Limit)
  BY <1>8, <1>9 DEF Sound
<1>11. list \in [Ids -> Places] /\ stays \in BOOLEAN /\ type \in [Ids -> Types]
  BY DEF IndInv
<1>12. Now' \in Sound(Limit) /\ list' = list /\ stays' \in BOOLEAN
  BY <1>1, <1>2, <1>10, <1>11, CommitFact
<1> QED BY <1>1, <1>11, <1>12 DEF IndInv

LEMMA Initially == Init => IndInv
<1> SUFFICES ASSUME Init PROVE IndInv
  OBVIOUS
<1>1. Now = [info |-> NewInfo, queue |-> <<>>, told |-> FALSE]
  BY DEF Init, Now
<1>2. Now \in StateSet /\ Len(Now.queue) = 0
  BY <1>1, NewInfoFact DEF StateSet
<1>3. Now \in Sound(Limit)
  BY <1>1, <1>2, NewInfoFact, LimitFact DEF Sound
<1> QED BY <1>3 DEF Init, IndInv, Places

LEMMA Inductive == IndInv /\ [Next]_vars => IndInv'
<1> SUFFICES ASSUME IndInv, [Next]_vars PROVE IndInv'
  OBVIOUS
<1>1. answered \in BOOLEAN
  BY DEF IndInv
<1>2. ASSUME NEW how \in {"mig", "none"}, Request(how), answered' = (answered /\ how = "mig")
      PROVE  IndInv'
  <2>1. answered' \in BOOLEAN
    BY <1>1, <1>2
  <2> QED BY <1>2, <2>1, CreateStep, ReleaseStep, SetLevelStep DEF Request
<1>3. CASE (handleAssertionSuspend \/ handleAssertionResume) /\ answered' = FALSE
  BY <1>3, SuspendStep, ResumeStep
<1>4. CASE RunBlock /\ UNCHANGED answered
  BY <1>1, <1>4, BlockStep
<1>5. CASE UNCHANGED vars
  BY <1>5 DEF vars, IndInv, Now
<1> QED BY <1>2, <1>3, <1>4, <1>5 DEF Next

LEMMA Invariance == Spec => []IndInv
BY Initially, Inductive, PTL DEF Spec

\* The variables keep their types: assert_cnt is a byte whatever is counted, and a
\* suspension queues at most a block per assertion (schedEnableAppSleep).
THEOREM TypeCorrect == Spec => []TypeOK
<1>1. IndInv => TypeOK
  BY DEF IndInv, TypeOK, Sound, StateSet, InfoSet, Now, Limit, Places
<1> QED BY <1>1, Invariance, PTL

\* A notification that is pending has a block that will send it, whatever replies
\* carried it before, and however often the ProcessInfo was freed and made anew
\* (schedDisableAppSleep, updateAppSleepStates, processInfoRelease).
THEOREM NothingPendsForever == Spec => []PendingHasBlock
<1>1. IndInv => PendingHasBlock
  BY DEF IndInv, PendingHasBlock, Sound, Now, Waits
<1> QED BY <1>1, Invariance, PTL

-----------------------------------------------------------------------------
(* While every change is answered.  Counting needs a byte that is wide      *)
(* enough: from the first assertion on that is not counted because the      *)
(* count is at its limit, releases count too much.                          *)

Active(lists, types, T) == {i \in Ids : lists[i] = "active" /\ types[i] = T}

\* The counts are those of the active assertions, and nobody is suspended.
Counted(f, lists, types) ==
  /\ ~f.suspended /\ \A i \in Ids : lists[i] # "suspended"
  /\ \A T \in Types : f.cnt[T] = Cardinality(Active(lists, types, T))
  /\ f.agg = {T \in Types : Active(lists, types, T) # {}}

\* The process knows, or a disable is on its way; a request that enables App Sleep
\* says so in its reply, and until then knows a step more.
Knows(s) == (s.told \/ s.info.disableAS) <=> s.info.agg # {}
Says(s) == ~s.info.enableAS /\ Knows(s) /\ ~(s.told /\ s.info.disableAS)
SaysInReply(s) ==
  Says(s) \/ /\ s.info.enableAS /\ s.info.agg = {} /\ ~(s.told /\ s.info.disableAS)
             /\ s.told \/ s.info.disableAS

Truth == answered => Counted(info, list, type) /\ Says(Now)

LEMMA ActiveFact ==
  ASSUME NEW lists, NEW types, NEW T
  PROVE  /\ IsFiniteSet(Active(lists, types, T))
         /\ Cardinality(Active(lists, types, T)) \in Nat
         /\ Cardinality(Active(lists, types, T)) = 0 <=> Active(lists, types, T) = {}
<1>1. IsFiniteSet(Active(lists, types, T))
  BY ConstantsAssumption, FS_Subset DEF Active
<1> QED BY <1>1, FS_CardinalityType, FS_EmptySet

\* An assertion that becomes active counts in.
LEMMA CountIn ==
  ASSUME Cardinality(Ids) <= UCharMax,
         NEW n \in Nat, NEW s \in Sound(n), NEW lists \in [Ids -> Places],
         NEW types \in [Ids -> Types], NEW i \in Ids, NEW T \in Types,
         Counted(s.info, lists, types), lists[i] # "active", Says(s)
  PROVE  /\ Counted(schedDisableAppSleep(s, T).info, [lists EXCEPT ![i] = "active"],
                    [types EXCEPT ![i] = T])
         /\ Says(schedDisableAppSleep(s, T))
<1> DEFINE lists2 == [lists EXCEPT ![i] = "active"]
           types2 == [types EXCEPT ![i] = T]
           r == schedDisableAppSleep(s, T)
<1>1. Active(lists2, types2, T) = Active(lists, types, T) \cup {i} /\ i \notin Active(lists, types, T)
      /\ \A U \in Types \ {T} : Active(lists2, types2, U) = Active(lists, types, U)
  BY DEF Active
<1>2. Cardinality(Active(lists2, types2, T)) = Cardinality(Active(lists, types, T)) + 1
  BY <1>1, ActiveFact, FS_AddElement
<1>3. Cardinality(Active(lists2, types2, T)) <= Cardinality(Ids)
  BY ConstantsAssumption, FS_Subset DEF Active
<1>4. Cardinality(Active(lists, types, T)) \in Nat /\ Cardinality(Ids) \in Nat
  BY ActiveFact, LimitFact
<1>5. s.info.cnt[T] # UCharMax
  BY <1>2, <1>3, <1>4, ConstantsAssumption DEF Counted
<1>6. s \in StateSet
  BY DEF Sound
<1>7. /\ r.info.cnt = [s.info.cnt EXCEPT ![T] = @ + 1] /\ r.info.agg = s.info.agg \cup {T}
      /\ r.info.suspended = s.info.suspended /\ r.info.enableAS = s.info.enableAS
      /\ r.told = s.told
      /\ r.info.disableAS = (s.info.disableAS \/ s.info.agg = {})
  BY <1>5, <1>6 DEF schedDisableAppSleep, StateSet, InfoSet
<1> HIDE DEF r
<1>8. Says(r)
  BY <1>6, <1>7 DEF Says, Knows, StateSet, InfoSet
<1>9. \A j \in Ids : lists2[j] # "suspended"
  BY DEF Counted
<1> HIDE DEF lists2, types2
<1>10. ASSUME NEW U \in Types PROVE r.info.cnt[U] = Cardinality(Active(lists2, types2, U))
  <2>1. s.info.cnt \in [Types -> 0..UCharMax] /\ s.info.cnt[U] = Cardinality(Active(lists, types, U))
    BY <1>6 DEF StateSet, InfoSet, Counted
  <2>2. CASE U = T
    BY <1>2, <1>7, <2>1, <2>2
  <2>3. CASE U # T
    BY <1>1, <1>7, <2>1, <2>3
  <2> QED BY <2>2, <2>3
<1>11. r.info.agg = {U \in Types : Active(lists2, types2, U) # {}}
  <2>1. s.info.agg = {U \in Types : Active(lists, types, U) # {}}
    BY DEF Counted
  <2> QED BY <1>1, <1>7, <2>1
<1>12. ~r.info.suspended
  BY <1>7 DEF Counted
<1>13. Counted(r.info, lists2, types2)
  BY <1>9, <1>10, <1>11, <1>12 DEF Counted
<1> QED BY <1>8, <1>13 DEF r, lists2, types2

\* An active assertion that goes counts out, and the reply makes the news good.
LEMMA CountOut ==
  ASSUME NEW n \in Nat, NEW s \in Sound(n), NEW lists \in [Ids -> Places],
         NEW types \in [Ids -> Types], NEW i \in Ids, lists[i] = "active",
         NEW v \in {"free", "inactive"}, Counted(s.info, lists, types), Says(s)
  PROVE  /\ Counted(schedEnableAppSleep(s, types[i]).info, [lists EXCEPT ![i] = v], types)
         /\ SaysInReply(schedEnableAppSleep(s, types[i]))
<1> DEFINE lists2 == [lists EXCEPT ![i] = v]
           T == types[i]
           r == schedEnableAppSleep(s, T)
           k == (s.info.cnt[T] - 1) % (UCharMax + 1)
<1>1. T \in Types /\ Active(lists2, types, T) = Active(lists, types, T) \ {i}
      /\ i \in Active(lists, types, T)
      /\ \A U \in Types \ {T} : Active(lists2, types, U) = Active(lists, types, U)
  BY DEF Active
<1>2. Cardinality(Active(lists2, types, T)) = Cardinality(Active(lists, types, T)) - 1
  <2> DEFINE A == Active(lists, types, T)
  <2>1. IsFiniteSet(A)
    BY ActiveFact
  <2>2. i \in A
    BY <1>1
  <2> HIDE DEF A
  <2>3. Cardinality(A \ {i}) = Cardinality(A) - 1
    BY <2>1, <2>2, FS_RemoveElement
  <2> QED BY <1>1, <2>3 DEF A
<1>3. Cardinality(Active(lists2, types, T)) \in Nat /\ Cardinality(Active(lists, types, T)) \in Nat
      /\ (Cardinality(Active(lists2, types, T)) = 0 <=> Active(lists2, types, T) = {})
  BY ActiveFact
<1>4. s \in StateSet
  BY DEF Sound
<1>5. s.info.cnt[T] \in 0..UCharMax /\ s.info.cnt[T] = Cardinality(Active(lists, types, T))
  BY <1>1, <1>4 DEF StateSet, InfoSet, Counted
<1>6. k = s.info.cnt[T] - 1 /\ k = Cardinality(Active(lists2, types, T)) /\ k \in 0..UCharMax
  <2> DEFINE c == s.info.cnt[T] - 1
  <2>1. c \in 0..UCharMax /\ c = Cardinality(Active(lists2, types, T))
    BY <1>2, <1>3, <1>5, ConstantsAssumption
  <2> HIDE DEF c
  <2>2. c % (UCharMax + 1) = c
    BY <2>1, ConstantsAssumption
  <2> QED BY <2>1, <2>2 DEF c
<1> HIDE DEF k, T
<1> DEFINE agg2 == IF k = 0 THEN s.info.agg \ {T} ELSE s.info.agg
<1>7. /\ r.info.cnt = [s.info.cnt EXCEPT ![T] = k] /\ r.info.agg = agg2
      /\ r.info.suspended = s.info.suspended /\ r.info.disableAS = s.info.disableAS
      /\ r.told = s.told
      /\ r.info.enableAS = (s.info.enableAS \/ (k = 0 /\ agg2 = {}))
  BY <1>4, <1>6 DEF schedEnableAppSleep, StateSet, InfoSet, k
<1> HIDE DEF r
<1>8. s.info.agg = {U \in Types : Active(lists, types, U) # {}}
  BY DEF Counted
<1>9. \A j \in Ids : lists2[j] # "suspended"
  BY DEF Counted
<1> HIDE DEF lists2
<1>10. SaysInReply(r)
  <2>1. T \in s.info.agg
    BY <1>1, <1>8
  <2>2. agg2 = {} => k = 0
    BY <2>1
  <2>3. r.info.enableAS \in BOOLEAN /\ s.info.enableAS = FALSE /\ s.info.agg # {}
        /\ s.told \in BOOLEAN /\ s.info.disableAS \in BOOLEAN
    BY <1>4, <1>7, <2>1 DEF Says, StateSet, InfoSet
  <2>4. (s.told \/ s.info.disableAS) /\ ~(s.told /\ s.info.disableAS)
    BY <2>3 DEF Says, Knows
  <2> HIDE DEF agg2
  <2> QED BY <1>7, <2>2, <2>3, <2>4 DEF SaysInReply, Says, Knows
<1>11. ASSUME NEW U \in Types PROVE r.info.cnt[U] = Cardinality(Active(lists2, types, U))
  <2>1. s.info.cnt \in [Types -> 0..UCharMax] /\ s.info.cnt[U] = Cardinality(Active(lists, types, U))
    BY <1>4 DEF StateSet, InfoSet, Counted
  <2>2. CASE U = T
    BY <1>6, <1>7, <2>1, <2>2
  <2>3. CASE U # T
    BY <1>1, <1>7, <2>1, <2>3
  <2> QED BY <2>2, <2>3
<1>12. r.info.agg = {U \in Types : Active(lists2, types, U) # {}}
  <2>1. k = 0 <=> Active(lists2, types, T) = {}
    BY <1>3, <1>6
  <2>2. Active(lists, types, T) # {}
    BY <1>1
  <2> QED BY <1>1, <1>7, <1>8, <2>1, <2>2
<1>13. ~r.info.suspended
  BY <1>7 DEF Counted
<1>14. Counted(r.info, lists2, types)
  BY <1>9, <1>11, <1>12, <1>13 DEF Counted
<1> QED BY <1>10, <1>14 DEF r, lists2, T

\* Replies and blocks tell; they count nothing.
LEMMA SaysFact ==
  ASSUME NEW n \in Nat, NEW s \in Sound(n)
  PROVE  /\ Says(s) => Says(disableAppSleep(s)) /\ Says(enableAppSleep(s))
         /\ SaysInReply(s) => Says(updateAppSleepStates(s))
         /\ \A lists, types : Counted(s.info, lists, types) =>
              /\ Counted(disableAppSleep(s).info, lists, types)
              /\ Counted(enableAppSleep(s).info, lists, types)
              /\ Counted(updateAppSleepStates(s).info, lists, types)
<1>1. s \in StateSet
  BY DEF Sound
<1>2. ASSUME NEW r \in StateSet
      PROVE  /\ disableAppSleep(r) \in StateSet /\ enableAppSleep(r) \in StateSet
             /\ disableAppSleep(r).info.cnt = r.info.cnt /\ enableAppSleep(r).info.cnt = r.info.cnt
             /\ disableAppSleep(r).info.agg = r.info.agg /\ enableAppSleep(r).info.agg = r.info.agg
             /\ disableAppSleep(r).info.suspended = r.info.suspended
             /\ enableAppSleep(r).info.suspended = r.info.suspended
  BY DEF disableAppSleep, enableAppSleep, StateSet, InfoSet
<1>3. ASSUME NEW r \in StateSet
      PROVE  /\ disableAppSleep(r).info.disableAS = FALSE
             /\ disableAppSleep(r).info.enableAS = r.info.enableAS
             /\ disableAppSleep(r).told = (r.told \/ r.info.disableAS)
             /\ enableAppSleep(r).info.enableAS = FALSE
             /\ enableAppSleep(r).info.disableAS = r.info.disableAS
             /\ enableAppSleep(r).told = (r.told /\ ~r.info.enableAS)
  BY DEF disableAppSleep, enableAppSleep, StateSet, InfoSet
<1>4. Says(s) => Says(disableAppSleep(s)) /\ Says(enableAppSleep(s))
  BY <1>1, <1>2, <1>3 DEF Says, Knows
<1>5. SaysInReply(s) => Says(enableAppSleep(disableAppSleep(s)))
  <2> DEFINE d == disableAppSleep(s)
             e == enableAppSleep(d)
  <2>1. d \in StateSet /\ d.info.agg = s.info.agg /\ d.info.disableAS = FALSE
        /\ d.info.enableAS = s.info.enableAS /\ d.told = (s.told \/ s.info.disableAS)
    BY <1>1, <1>2, <1>3
  <2> HIDE DEF d
  <2>2. e.info.agg = d.info.agg /\ e.info.enableAS = FALSE
        /\ e.info.disableAS = d.info.disableAS /\ e.told = (d.told /\ ~d.info.enableAS)
    BY <1>2, <1>3, <2>1
  <2> HIDE DEF e
  <2>3. SaysInReply(s) => Says(e)
    BY <2>1, <2>2 DEF Says, SaysInReply, Knows
  <2> QED BY <2>3 DEF d, e
<1>6. ASSUME NEW r \in StateSet, NEW lists, NEW types, Counted(r.info, lists, types)
      PROVE  /\ Counted(disableAppSleep(r).info, lists, types)
             /\ Counted(enableAppSleep(r).info, lists, types)
  BY <1>2, <1>6 DEF Counted
<1> QED BY <1>1, <1>2, <1>4, <1>5, <1>6 DEF updateAppSleepStates

\* A ProcessInfo that is freed loses nothing: a new one would say the same.
LEMMA CommitTruth ==
  ASSUME NEW s, NEW lists \in [Ids -> Places], Commit(s, lists),
         Counted(s.info, lists, type'), Says(s)
  PROVE  Counted(info', list', type') /\ Says(Now')
<1>1. list' = lists /\ Now' = [info |-> info', queue |-> s.queue, told |-> s.told]
  BY DEF Commit, Now
<1>2. CASE info' = s.info
  BY <1>1, <1>2 DEF Says, Knows
<1>3. CASE info' # s.info
  <2>1. info' = NewInfo /\ \A i \in Ids : lists[i] = "free"
    BY <1>3 DEF Commit
  <2>2. \A T \in Types : Active(lists, type', T) = {}
    BY <2>1 DEF Active
  <2>3. \A T \in Types : Cardinality(Active(lists, type', T)) = 0
    BY <2>2, FS_EmptySet
  <2>4. Counted(NewInfo, lists, type')
    BY <2>1, <2>2, <2>3 DEF Counted, NewInfo
  <2>5. s.info.agg = {}
    BY <2>2 DEF Counted
  <2>6. ~s.told
    BY <2>5 DEF Says, Knows
  <2>7. Says(Now')
    BY <1>1, <2>1, <2>6 DEF Says, Knows, NewInfo
  <2> QED BY <1>1, <2>1, <2>4, <2>7
<1> QED BY <1>2, <1>3

LEMMA TruthStep ==
  ASSUME Cardinality(Ids) <= UCharMax, IndInv, Truth, [Next]_vars
  PROVE  Truth'
<1> SUFFICES ASSUME answered' PROVE Counted(info', list', type') /\ Says(Now')
  BY DEF Truth
<1>1. answered
  <2>1. answered \in BOOLEAN
    BY DEF IndInv
  <2> QED BY <2>1 DEF Next, vars
<1>2. Counted(info, list, type) /\ Says(Now) /\ Now.info = info
  BY <1>1 DEF Truth, Now
<1>3. /\ Now \in Sound(Limit) /\ Limit \in Nat /\ Limit + 1 \in Nat
      /\ list \in [Ids -> Places] /\ type \in [Ids -> Types]
  BY LimitFact DEF IndInv
<1>4. SaysInReply(Now)
  BY <1>2 DEF SaysInReply
<1>5. ASSUME NEW i \in Ids, NEW T \in Types, doCreate(i, T, "mig")
      PROVE  Counted(info', list', type') /\ Says(Now')
  <2> DEFINE s == schedDisableAppSleep(Now, T)
             r == IF ~Known THEN disableAppSleep(s) ELSE s
             lists == [list EXCEPT ![i] = "active"]
             types == [type EXCEPT ![i] = T]
  <2>1. list[i] = "free" /\ Commit(r, lists) /\ type' = types
    BY <1>5 DEF doCreate
  <2>2. Counted(s.info, lists, types) /\ Says(s)
    BY <1>2, <1>3, <2>1, CountIn
  <2>3. s \in Sound(Limit + 1)
    BY <1>3, DisableFact
  <2> HIDE DEF s, types
  <2>4. r \in Sound(Limit + 1) /\ Counted(r.info, lists, types) /\ Says(r)
    BY <1>3, <2>2, <2>3, SaysFact, ReplyFact
  <2>5. lists \in [Ids -> Places]
    BY <1>3 DEF Places
  <2> HIDE DEF r, lists
  <2> QED BY <1>3, <2>1, <2>4, <2>5, CommitTruth
<1>6. ASSUME NEW i \in Ids, NEW v \in {"free", "inactive"}, list[i] = "active",
             Commit(updateAppSleepStates(schedEnableAppSleep(Now, type[i])), [list EXCEPT ![i] = v]),
             type' = type
      PROVE  Counted(info', list', type') /\ Says(Now')
  <2> DEFINE s == schedEnableAppSleep(Now, type[i])
             r == updateAppSleepStates(s)
             lists == [list EXCEPT ![i] = v]
  <2>1. Counted(s.info, lists, type) /\ SaysInReply(s)
    BY <1>2, <1>3, <1>6, CountOut
  <2>2. s \in Sound(Limit + 1)
    BY <1>3, EnableFact
  <2>3. Commit(r, lists) /\ lists \in [Ids -> Places]
    BY <1>3, <1>6 DEF Places
  <2> HIDE DEF s, lists
  <2>4. r \in Sound(Limit + 1)
    <3>1. Reply(s, "mig") \in Sound(Limit + 1)
      BY <1>3, <2>2, ReplyFact
    <3> QED BY <3>1 DEF Reply
  <2>5. Counted(r.info, lists, type) /\ Says(r)
    BY <1>3, <2>1, <2>2, SaysFact
  <2> HIDE DEF r
  <2>6. Counted(r.info, lists, type')
    BY <1>6, <2>5
  <2> QED BY <1>3, <2>3, <2>4, <2>5, <2>6, CommitTruth
<1>7. ASSUME NEW i \in Ids, list[i] = "inactive", Commit(updateAppSleepStates(Now), [list EXCEPT ![i] = "free"]),
             type' = type
      PROVE  Counted(info', list', type') /\ Says(Now')
  <2> DEFINE r == updateAppSleepStates(Now)
             lists == [list EXCEPT ![i] = "free"]
  <2>1. r \in Sound(Limit)
    <3>1. Reply(Now, "mig") \in Sound(Limit)
      BY <1>3, ReplyFact
    <3> QED BY <3>1 DEF Reply
  <2>2. Counted(r.info, list, type) /\ Says(r)
    BY <1>2, <1>3, <1>4, SaysFact
  <2>3. lists \in [Ids -> Places] /\ Commit(r, lists)
    BY <1>3, <1>7 DEF Places
  <2>4. \A T : Active(lists, type, T) = Active(list, type, T)
    BY <1>3, <1>7 DEF Active
  <2>5. \A j \in Ids : lists[j] # "suspended"
    BY <1>3, <2>2 DEF Counted
  <2> HIDE DEF r, lists
  <2>6. Counted(r.info, lists, type')
    BY <1>7, <2>2, <2>4, <2>5 DEF Counted
  <2> QED BY <1>3, <2>1, <2>2, <2>3, <2>6, CommitTruth
<1>8. ASSUME NEW i \in Ids, list[i] = "inactive",
             Commit(updateAppSleepStates(schedDisableAppSleep(Now, type[i])), [list EXCEPT ![i] = "active"]),
             type' = type
      PROVE  Counted(info', list', type') /\ Says(Now')
  <2> DEFINE T == type[i]
             s == schedDisableAppSleep(Now, T)
             r == updateAppSleepStates(s)
             lists == [list EXCEPT ![i] = "active"]
  <2>1. T \in Types /\ [type EXCEPT ![i] = T] = type
    BY <1>3
  <2>2. Counted(s.info, lists, [type EXCEPT ![i] = T]) /\ Says(s)
    BY <1>2, <1>3, <1>8, <2>1, CountIn
  <2>3. s \in Sound(Limit + 1)
    BY <1>3, <2>1, DisableFact
  <2>4. Commit(r, lists) /\ lists \in [Ids -> Places]
    BY <1>3, <1>8 DEF Places
  <2>5. Counted(s.info, lists, type') /\ SaysInReply(s)
    BY <1>8, <2>1, <2>2 DEF SaysInReply
  <2> HIDE DEF s, lists
  <2>6. r \in Sound(Limit + 1)
    <3>1. Reply(s, "mig") \in Sound(Limit + 1)
      BY <1>3, <2>3, ReplyFact
    <3> QED BY <3>1 DEF Reply
  <2>7. Counted(r.info, lists, type') /\ Says(r)
    BY <1>3, <2>3, <2>5, SaysFact
  <2> HIDE DEF r
  <2> QED BY <1>3, <2>4, <2>6, <2>7, CommitTruth
<1>9. ASSUME NEW i \in Ids, doRelease(i, "mig")
      PROVE  Counted(info', list', type') /\ Says(Now')
  <2>1. list[i] \in {"active", "inactive"} /\ type' = type
    BY <1>2, <1>3, <1>9 DEF doRelease, Counted, Places
  <2>2. CASE list[i] = "active"
    <3>1. Commit(updateAppSleepStates(schedEnableAppSleep(Now, type[i])), [list EXCEPT ![i] = "free"])
      BY <1>9, <2>2 DEF doRelease, Reply
    <3> QED BY <1>6, <2>1, <2>2, <3>1
  <2>3. CASE list[i] = "inactive"
    <3>1. Commit(updateAppSleepStates(Now), [list EXCEPT ![i] = "free"])
      BY <1>9, <2>3 DEF doRelease, Reply
    <3> QED BY <1>7, <2>1, <2>3, <3>1
  <2> QED BY <2>1, <2>2, <2>3
<1>10. ASSUME NEW i \in Ids, doSetLevel(i, "mig")
      PROVE  Counted(info', list', type') /\ Says(Now')
  <2>1. type' = type
    BY <1>10 DEF doSetLevel
  <2>2. CASE /\ list[i] = "active"
             /\ Commit(updateAppSleepStates(schedEnableAppSleep(Now, type[i])), [list EXCEPT ![i] = "inactive"])
    BY <1>6, <2>1, <2>2
  <2>3. CASE /\ list[i] = "inactive"
             /\ Commit(updateAppSleepStates(schedDisableAppSleep(Now, type[i])), [list EXCEPT ![i] = "active"])
    BY <1>8, <2>1, <2>3
  <2> QED BY <1>10, <2>2, <2>3 DEF doSetLevel, Reply
<1>11. CASE RunBlock
  <2> DEFINE s == IF Head(queue) = "D" THEN disableAppSleep(Now) ELSE enableAppSleep(Now)
             r == [s EXCEPT !.queue = Tail(@)]
  <2>1. queue # <<>> /\ Commit(r, list) /\ type' = type
    BY <1>11 DEF RunBlock
  <2>2. s \in Sound(Limit) /\ Counted(s.info, list, type) /\ Says(s)
    BY <1>2, <1>3, SaysFact, ReplyFact
  <2>3. queue \in Seq({"D", "E"}) /\ s.queue = queue
    BY <1>3 DEF Sound, StateSet, Now, disableAppSleep, enableAppSleep
  <2> HIDE DEF s
  <2>4. s \in StateSet /\ Tail(queue) \in Seq({"D", "E"})
    BY <2>1, <2>2, <2>3, TailFact DEF Sound
  <2>5. r.info = s.info /\ r.told = s.told /\ r.queue = Tail(queue)
    BY <2>3, <2>4 DEF StateSet
  <2>6. Says(r) /\ Counted(r.info, list, type')
    BY <2>1, <2>2, <2>5 DEF Says, Knows
  <2> HIDE DEF r
  <2>7. info' \in {r.info, NewInfo} /\ list' = list
    BY <2>1 DEF Commit
  <2> QED BY <1>3, <2>1, <2>6, CommitTruth
<1>12. CASE UNCHANGED vars
  BY <1>2, <1>12 DEF vars, Now
<1>13. ASSUME NEW how \in {"mig", "none"}, Request(how), answered' = (answered /\ how = "mig")
      PROVE  Counted(info', list', type') /\ Says(Now')
  <2>1. how = "mig"
    BY <1>13
  <2> QED BY <1>5, <1>9, <1>10, <1>13, <2>1 DEF Request
<1> QED BY <1>11, <1>12, <1>13 DEF Next

\* Once no block waits, a process whose changes were all answered has been told that
\* App Sleep is disabled exactly when it holds an active assertion that prevents it,
\* as long as the byte can count its assertions (schedDisableAppSleep,
\* schedEnableAppSleep, updateAppSleepStates).
THEOREM TruthIsTold ==
  ASSUME Cardinality(Ids) <= UCharMax
  PROVE  Spec => []ToldTheTruth
<1>1. Init => Truth
  <2> SUFFICES ASSUME Init PROVE Counted(info, list, type) /\ Says(Now)
    BY DEF Truth
  <2>1. info = NewInfo /\ \A i \in Ids : list[i] = "free"
    BY DEF Init
  <2>2. \A T \in Types : Active(list, type, T) = {}
    BY <2>1 DEF Active
  <2>3. Counted(info, list, type)
    BY <2>1, <2>2, FS_EmptySet DEF Counted, NewInfo
  <2> QED BY <2>1, <2>3 DEF Init, Says, Knows, Now, NewInfo
<1>2. IndInv /\ Truth /\ [Next]_vars => Truth'
  BY TruthStep
<1>3. IndInv /\ Truth => ToldTheTruth
  <2> SUFFICES ASSUME IndInv, Truth, answered, queue = <<>>
               PROVE  told <=> \E i \in Ids : list[i] = "active"
    BY DEF ToldTheTruth
  <2>1. info.disableAS \in BOOLEAN /\ told \in BOOLEAN /\ (info.disableAS => Waits(queue, "D"))
    BY DEF IndInv, Sound, StateSet, InfoSet, Now
  <2>2. ~info.disableAS
    BY <2>1 DEF Waits
  <2>3. told <=> info.agg # {}
    BY <2>1, <2>2 DEF Truth, Says, Knows, Now
  <2>4. info.agg = {T \in Types : Active(list, type, T) # {}}
    BY DEF Truth, Counted
  <2>5. \A i \in Ids : type[i] \in Types
    BY DEF IndInv
  <2>6. info.agg # {} <=> \E i \in Ids : list[i] = "active"
    BY <2>4, <2>5 DEF Active
  <2> QED BY <2>3, <2>6
<1> QED BY <1>1, <1>2, <1>3, Invariance, PTL DEF Spec
=============================================================================
