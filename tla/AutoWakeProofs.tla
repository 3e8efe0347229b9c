--------------------------- MODULE AutoWakeProofs ---------------------------
(***************************************************************************)
(* Proofs about AutoWake, for any applications, events and leeways, any    *)
(* length of the day and any number of days in a week.                     *)
(***************************************************************************)
EXTENDS AutoWake, TLAPS, NaturalsInduction, WellFoundedInduction, SequenceTheorems

-----------------------------------------------------------------------------
(* Division.                                                                *)

\* A number is its quotient times the divisor, and the remainder.
LEMMA DivMod ==
  ASSUME NEW a \in Int, NEW n \in Nat \ {0}
  PROVE  /\ a \div n \in Int /\ a % n \in 0..n - 1
         /\ a = (n * (a \div n)) + (a % n)
  OBVIOUS

LEMMA DivNat ==
  ASSUME NEW a \in Nat, NEW n \in Nat \ {0}
  PROVE  a \div n \in Nat
  OBVIOUS

\* Quotient and remainder are the only numbers of that kind.
LEMMA DivModUnique ==
  ASSUME NEW q \in Int, NEW n \in Nat \ {0}, NEW r \in 0..n - 1
  PROVE  ((q * n) + r) \div n = q /\ ((q * n) + r) % n = r
  OBVIOUS

\* A set of natural numbers has a least one.
LEMMA MinNat ==
  ASSUME NEW S \in SUBSET Nat, S # {}
  PROVE  \E m \in S : \A y \in S : m <= y
<1>1. PICK m \in S : \A y \in S : ~(<<y, m>> \in OpToRel(<, Nat))
  BY NatLessThanWellFounded, WFMin
<1>2. ASSUME NEW y \in S PROVE m <= y
  <2>1. m \in Nat /\ y \in Nat
    OBVIOUS
  <2>2. ~(y < m)
    BY <1>1, <2>1 DEF OpToRel
  <2> QED BY <2>1, <2>2
<1> QED BY <1>2

\* Adding the divisor, or a remainder inside, changes no remainder.
LEMMA ModAdd ==
  ASSUME NEW a \in Int, NEW c \in Int, NEW n \in Nat \ {0}
  PROVE  ((a % n) + c) % n = (a + c) % n
<1> DEFINE q == a \div n
           m == a % n
           p == (m + c) \div n
           k == (m + c) % n
<1>1. q \in Int /\ m \in 0..n - 1 /\ a = (n * q) + m
  BY DivMod
<1>2. p \in Int /\ k \in 0..n - 1 /\ m + c = (n * p) + k
  BY DivMod, <1>1
<1> HIDE DEF q, m, p, k
<1>3. a + c = ((q + p) * n) + k
  BY <1>1, <1>2
<1>4. (((q + p) * n) + k) % n = k
  BY <1>1, <1>2, DivModUnique
<1>5. (a + c) % n = k
  BY <1>3, <1>4
<1> QED BY <1>5 DEF k, m

\* A remainder is itself, and one divisor more has the same remainder.
LEMMA ModSmall ==
  ASSUME NEW n \in Nat \ {0}, NEW r \in 0..n - 1
  PROVE  r % n = r /\ (r + n) % n = r
<1>1. r = (0 * n) + r /\ r + n = (1 * n) + r
  OBVIOUS
<1> QED BY <1>1, DivModUnique

-----------------------------------------------------------------------------
(* Repeating events.                                                        *)

\* Whether a repeating event takes place at t.
Occurs(r, t) == t % DayLength = r.minute /\ (t \div DayLength) % Week \in r.days

LEMMA ConstantsType ==
  /\ DayLength \in Nat \ {0} /\ Week \in Nat \ {0} /\ MaxTime \in Nat \ {0}
  /\ MinSleep \in Nat /\ MaxFailures \in Nat /\ Calendars \subseteq 1..MaxTime
  /\ \A r \in Repeats : /\ r.type \in Behaviors
                        /\ r.minute \in 0..DayLength - 1 /\ r.days \subseteq 0..Week - 1
  BY AutoWakeAssumption

\* How many days after tomorrow the next day of the mask is.
Check(r, today) ==
  CHOOSE c \in 0..Week - 1 :
    /\ (today + c) % Week \in r.days
    /\ \A k \in 0..c - 1 : (today + k) % Week \notin r.days

LEMMA CheckFact ==
  ASSUME NEW r \in Repeats, r.days # {}, NEW today \in 1..Week
  PROVE  /\ Check(r, today) \in 0..Week - 1
         /\ (today + Check(r, today)) % Week \in r.days
         /\ \A k \in 0..Check(r, today) - 1 : (today + k) % Week \notin r.days
<1> DEFINE On_(c) == (today + c) % Week \in r.days
           S == {c \in Nat : On_(c)}
<1>0. Week \in Nat \ {0} /\ today \in Nat
  BY ConstantsType
<1>1. PICK d \in r.days : d \in 0..Week - 1
  BY ConstantsType
<1>2. PICK c \in 0..Week - 1 : today + c = d \/ today + c = d + Week
  <2>1. CASE d >= today
    <3>1. d - today \in 0..Week - 1 /\ today + (d - today) = d
      BY <1>0, <1>1, <2>1
    <3> QED BY <3>1
  <2>2. CASE d < today
    <3>1. (d - today) + Week \in 0..Week - 1 /\ today + ((d - today) + Week) = d + Week
      BY <1>0, <1>1, <2>2
    <3> QED BY <3>1
  <2> QED BY <1>0, <1>1, <2>1, <2>2
<1>3. (today + c) % Week = d
  BY <1>0, <1>1, <1>2, ModSmall
<1>4. c \in Nat /\ On_(c)
  BY <1>0, <1>1, <1>2, <1>3
<1> HIDE DEF On_
<1>5. PICK m \in S : \A y \in S : m <= y
  <2>1. S \in SUBSET Nat /\ S # {}
    BY <1>4
  <2> QED BY <2>1, MinNat
<1>6. m \in Nat /\ On_(m) /\ m <= c
  BY <1>4, <1>5
<1>7. \A k \in 0..m - 1 : ~On_(k)
  BY <1>5, <1>6
<1>8. m \in 0..Week - 1
  BY <1>0, <1>2, <1>6
<1>9. \E x \in 0..Week - 1 : On_(x) /\ \A k \in 0..x - 1 : ~On_(k)
  BY <1>6, <1>7, <1>8
<1> QED BY <1>9 DEF Check, On_

LEMMA DaysUntilFact ==
  ASSUME NEW r \in Repeats, r.days # {}, NEW today \in 1..Week, NEW t \in Nat
  PROVE  daysUntil(r, today, t) =
           IF upcomingToday(r, today, t) THEN 0 ELSE Check(r, today) + 1
<1> DEFINE c == Check(r, today)
           x == (today + c) % Week
           days == (x + 1 - today + Week) % Week
<1>0. Week \in Nat \ {0} /\ today \in Nat
  BY ConstantsType
<1>1. c \in 0..Week - 1
  BY CheckFact
<1> HIDE DEF c
<1>2. x \in 0..Week - 1 /\ (x = today + c \/ x = (today + c) - Week)
  <2>1. CASE today + c < Week
    <3>1. today + c \in 0..Week - 1
      BY <1>0, <1>1, <2>1
    <3> QED BY <1>0, <3>1, ModSmall
  <2>2. CASE today + c >= Week /\ today + c # Week + Week
    <3>1. (today + c) - Week \in 0..Week - 1 /\ ((today + c) - Week) + Week = today + c
      BY <1>0, <1>1, <2>2
    <3>2. (((today + c) - Week) + Week) % Week = (today + c) - Week
      BY <1>0, <3>1, ModSmall
    <3> QED BY <3>1, <3>2
  <2> QED BY <1>0, <1>1, <2>1, <2>2
<1> HIDE DEF x
<1>3. x + 1 - today + Week = c + 1 \/ x + 1 - today + Week = (c + 1) + Week
  BY <1>0, <1>1, <1>2
<1>4. days = IF c + 1 = Week THEN 0 ELSE c + 1
  <2>1. CASE c + 1 = Week
    <3>1. 0 \in 0..Week - 1 /\ 0 + Week = Week /\ Week + Week = (2 * Week) + 0
      BY <1>0
    <3>2. Week % Week = 0 /\ (Week + Week) % Week = 0
      BY <1>0, <3>1, ModSmall, DivModUnique
    <3> QED BY <1>3, <2>1, <3>2
  <2>2. CASE c + 1 # Week
    <3>1. c + 1 \in 0..Week - 1
      BY <1>0, <1>1, <2>2
    <3>2. (c + 1) % Week = c + 1 /\ ((c + 1) + Week) % Week = c + 1
      BY <1>0, <3>1, ModSmall
    <3> QED BY <1>3, <2>2, <3>2
  <2> QED BY <2>1, <2>2
<1> HIDE DEF days
<1>5. (IF days = 0 THEN Week ELSE days) = c + 1
  BY <1>0, <1>1, <1>4
<1>7. daysUntil(r, today, t) = IF r.days = {} THEN -1
                               ELSE IF upcomingToday(r, today, t) THEN 0
                               ELSE IF days = 0 THEN Week ELSE days
  BY DEF daysUntil, days, x, c, Check
<1> QED BY <1>5, <1>7 DEF c

\* The date computed for a repeating event with days is the first one after t at which
\* it takes place.
LEMMA RepeatDateIsNext ==
  ASSUME NEW r \in Repeats, r.days # {}, NEW t \in Nat
  PROVE  /\ RepeatDate(r, t) \in Nat /\ RepeatDate(r, t) > t
         /\ Occurs(r, RepeatDate(r, t))
         /\ \A u \in (t + 1)..(RepeatDate(r, t) - 1) : ~Occurs(r, u)
<1> DEFINE D == DayLength
           d == t \div D
           m == t % D
           today == (d % Week) + 1
           k == daysUntil(r, today, t)
           c == Check(r, today)
<1>0. D \in Nat \ {0} /\ Week \in Nat \ {0} /\ r.minute \in 0..D - 1
  BY ConstantsType
<1>1. d \in Nat /\ m \in 0..D - 1 /\ t = (D * d) + m
  <2>1. t \in Int /\ DayLength \in Nat \ {0}
    BY <1>0
  <2>2. t \div DayLength \in Nat
    BY <2>1, DivNat
  <2>3. t % DayLength \in 0..DayLength - 1
    BY <2>1, DivMod
  <2>4. t = (DayLength * (t \div DayLength)) + (t % DayLength)
    BY <2>1, DivMod
  <2> QED BY <2>2, <2>3, <2>4
<1>2. today \in 1..Week
  <2>1. d % Week \in 0..Week - 1
    BY <1>0, <1>1, DivMod
  <2> QED BY <1>0, <2>1
<1>3. k = IF upcomingToday(r, today, t) THEN 0 ELSE c + 1
  BY <1>2, DaysUntilFact
<1>4. /\ c \in 0..Week - 1
      /\ (today + c) % Week \in r.days
      /\ \A j \in 0..c - 1 : (today + j) % Week \notin r.days
  BY <1>2, CheckFact
<1>5. k \in Nat
  BY <1>0, <1>3, <1>4
<1>6. RepeatDate(r, t) = ((d + k) * D) + r.minute
  BY DEF RepeatDate
<1>7. upcomingToday(r, today, t) <=> (d % Week \in r.days /\ r.minute > m)
  <2>1. today - 1 = d % Week
    <3>1. d % Week \in Int
      BY <1>0, <1>1, DivMod
    <3> HIDE DEF d
    <3> QED BY <3>1
  <2> QED BY <2>1 DEF upcomingToday
<1>8. \A j \in Nat : (d + j + 1) % Week = (today + j) % Week
  <2> TAKE j \in Nat
  <2> HIDE DEF d, m
  <2>0. d \in Int /\ j + 1 \in Int /\ Week \in Nat \ {0} /\ d % Week \in Int
    BY <1>0, <1>1, DivMod
  <2>1. ((d % Week) + (j + 1)) % Week = (d + (j + 1)) % Week
    BY <2>0, ModAdd
  <2>2. (d % Week) + (j + 1) = today + j /\ d + (j + 1) = d + j + 1
    BY <2>0
  <2> QED BY <2>1, <2>2
<1> HIDE DEF k, c, d, m, today
<1>9. RepeatDate(r, t) \in Nat /\ RepeatDate(r, t) > t
  <2>1. CASE k = 0
    <3>1. r.minute > m
      BY <1>0, <1>3, <1>4, <1>7, <2>1
    <3> QED BY <1>0, <1>1, <1>6, <2>1, <3>1
  <2>2. CASE k # 0
    <3>1. (d + k) * D >= (d + 1) * D
      BY <1>0, <1>1, <1>5, <2>2
    <3> QED BY <1>0, <1>1, <1>5, <1>6, <3>1
  <2> QED BY <2>1, <2>2
<1>10. /\ RepeatDate(r, t) % D = r.minute
       /\ RepeatDate(r, t) \div D = d + k
  <2>1. d + k \in Int
    BY <1>1, <1>5
  <2>2. (((d + k) * D) + r.minute) % D = r.minute
    BY <1>0, <2>1, DivModUnique
  <2>3. (((d + k) * D) + r.minute) \div D = d + k
    BY <1>0, <2>1, DivModUnique
  <2> QED BY <1>6, <2>2, <2>3
<1>11. (d + k) % Week \in r.days
  <2>1. CASE upcomingToday(r, today, t)
    <3>1. d + k = d
      BY <1>1, <1>3, <2>1
    <3> QED BY <1>7, <2>1, <3>1
  <2>2. CASE ~upcomingToday(r, today, t)
    <3>1. d + k = d + c + 1 /\ c \in Nat
      BY <1>0, <1>1, <1>3, <1>4, <2>2
    <3> QED BY <1>4, <1>8, <3>1
  <2> QED BY <2>1, <2>2
<1>12. ASSUME NEW u \in (t + 1)..(RepeatDate(r, t) - 1), Occurs(r, u) PROVE FALSE
  <2> DEFINE p == u \div D
  <2>1. u \in Nat /\ t < u /\ u < RepeatDate(r, t)
    BY <1>9
  <2>2. p \in Nat /\ u = (D * p) + r.minute /\ p % Week \in r.days
    <3>1. u \in Int /\ DayLength \in Nat \ {0}
      BY <1>0, <2>1
    <3>2. u \div DayLength \in Nat
      BY <2>1, <3>1, DivNat
    <3>3. u = (DayLength * (u \div DayLength)) + (u % DayLength)
      BY <3>1, DivMod
    <3>4. u % DayLength = r.minute /\ (u \div DayLength) % Week \in r.days
      BY <1>12 DEF Occurs
    <3> QED BY <3>2, <3>3, <3>4
  <2> HIDE DEF p
  <2>3. p < d + k
    <3> SUFFICES ASSUME p >= d + k PROVE FALSE
      BY <1>1, <1>5, <2>2
    <3>1. D * p >= (d + k) * D
      BY <1>0, <1>1, <1>5, <2>2
    <3> QED BY <1>0, <1>1, <1>5, <1>6, <2>1, <2>2, <3>1
  <2>4. p >= d
    <3> SUFFICES ASSUME p + 1 <= d PROVE FALSE
      BY <1>1, <2>2
    <3>1. D * (p + 1) <= D * d
      BY <1>0, <1>1, <2>2
    <3> QED BY <1>0, <1>1, <2>1, <2>2, <3>1
  <2>5. k = c + 1 /\ ~upcomingToday(r, today, t)
    BY <1>1, <1>3, <2>2, <2>3, <2>4
  <2>6. CASE p = d
    <3>1. r.minute > m
      BY <1>0, <1>1, <2>1, <2>2, <2>6
    <3> QED BY <1>7, <2>2, <2>5, <2>6, <3>1
  <2>7. CASE p # d
    <3>1. PICK j \in Nat : p = d + j + 1
      <4>1. p - d - 1 \in Nat /\ p = d + (p - d - 1) + 1
        BY <1>1, <2>2, <2>4, <2>7
      <4> QED BY <4>1
    <3>2. j \in 0..c - 1
      BY <1>0, <1>1, <1>4, <2>3, <2>5, <3>1
    <3>3. (today + j) % Week \in r.days
      BY <1>8, <2>2, <3>1
    <3> QED BY <1>4, <3>2, <3>3
  <2> QED BY <2>6, <2>7
<1> QED BY <1>9, <1>10, <1>11, <1>12 DEF Occurs

\* Without days it is yesterday's.
LEMMA RepeatDateEmpty ==
  ASSUME NEW r \in Repeats, r.days = {}, NEW t \in Nat
  PROVE  /\ RepeatDate(r, t) = ((t \div DayLength) - 1) * DayLength + r.minute
         /\ RepeatDate(r, t) \in Int /\ RepeatDate(r, t) < t
         /\ RepeatDate(r, t) + DayLength \in Nat
<1> DEFINE d == t \div DayLength
           m == t % DayLength
<1>1. DayLength \in Nat \ {0} /\ r.minute \in 0..DayLength - 1
  BY ConstantsType
<1>2. d \in Nat /\ m \in 0..DayLength - 1 /\ t = (DayLength * d) + m
  <2>1. t \in Int /\ DayLength \in Nat \ {0}
    BY <1>1
  <2>2. t \div DayLength \in Nat
    BY <2>1, DivNat
  <2>3. t % DayLength \in 0..DayLength - 1
    BY <2>1, DivMod
  <2>4. t = (DayLength * (t \div DayLength)) + (t % DayLength)
    BY <2>1, DivMod
  <2> QED BY <2>2, <2>3, <2>4
<1>3. RepeatDate(r, t) = (d - 1) * DayLength + r.minute
  <2>1. daysUntil(r, (d % Week) + 1, t) = -1
    BY DEF daysUntil
  <2>2. RepeatDate(r, t) = (d + (-1)) * DayLength + r.minute
    BY <2>1 DEF RepeatDate
  <2>3. d + (-1) = d - 1
    BY <1>2
  <2> QED BY <2>2, <2>3
<1> HIDE DEF d, m
<1>4. (d - 1) * DayLength = (DayLength * d) - DayLength
  BY <1>1, <1>2
<1>5. DayLength * d \in Nat
  BY <1>1, <1>2
<1>6. /\ RepeatDate(r, t) \in Int /\ RepeatDate(r, t) < t
      /\ RepeatDate(r, t) + DayLength \in Nat
  BY <1>1, <1>2, <1>3, <1>4, <1>5
<1> QED BY <1>3, <1>6 DEF d

\* The date is at most a day before the first tick; ahead if there are days.
LEMMA RepeatDateType ==
  ASSUME NEW r \in Repeats, NEW t \in Nat
  PROVE  /\ RepeatDate(r, t) \in Int /\ RepeatDate(r, t) + DayLength \in Nat
         /\ r.days # {} <=> RepeatDate(r, t) > t
<1>1. DayLength \in Nat
  BY ConstantsType
<1>2. CASE r.days = {}
  BY <1>1, <1>2, RepeatDateEmpty
<1>3. CASE r.days # {}
  BY <1>1, <1>3, RepeatDateIsNext
<1> QED BY <1>2, <1>3

\* As time passes the next occurrence moves only when it is over.
LEMMA RepeatDateSteps ==
  ASSUME NEW r \in Repeats, NEW t \in Nat
  PROVE  /\ RepeatDate(r, t + 1) >= RepeatDate(r, t)
         /\ RepeatDate(r, t) > t + 1 => RepeatDate(r, t + 1) = RepeatDate(r, t)
<1>a. CASE r.days = {}
  <2> DEFINE d == t \div DayLength
             f == (t + 1) \div DayLength
  <2>1. DayLength \in Nat \ {0} /\ r.minute \in 0..DayLength - 1 /\ t + 1 \in Nat
    BY ConstantsType
  <2>2. /\ RepeatDate(r, t) = (d - 1) * DayLength + r.minute /\ RepeatDate(r, t) < t
        /\ RepeatDate(r, t + 1) = (f - 1) * DayLength + r.minute
        /\ RepeatDate(r, t) \in Int
    BY <1>a, <2>1, RepeatDateEmpty
  <2>3. /\ d \in Nat /\ t % DayLength \in 0..DayLength - 1
        /\ t = (DayLength * d) + (t % DayLength)
        /\ f \in Nat /\ (t + 1) % DayLength \in 0..DayLength - 1
        /\ t + 1 = (DayLength * f) + ((t + 1) % DayLength)
    <3>1. ASSUME NEW u \in Nat
          PROVE  /\ u \div DayLength \in Nat /\ u % DayLength \in 0..DayLength - 1
                 /\ u = (DayLength * (u \div DayLength)) + (u % DayLength)
      <4>1. u \in Int /\ DayLength \in Nat \ {0}
        BY <2>1
      <4>2. u \div DayLength \in Nat
        BY <2>1, DivNat
      <4>3. u % DayLength \in 0..DayLength - 1
        BY <4>1, DivMod
      <4>4. u = (DayLength * (u \div DayLength)) + (u % DayLength)
        BY <4>1, DivMod
      <4> QED BY <4>2, <4>3, <4>4
    <3>2. t \in Nat /\ t + 1 \in Nat
      OBVIOUS
    <3> QED BY <3>1, <3>2
  <2> HIDE DEF d, f
  <2>4. d <= f
    <3> SUFFICES ASSUME f + 1 <= d PROVE FALSE
      BY <2>3
    <3>1. DayLength * (f + 1) <= DayLength * d
      BY <2>1, <2>3
    <3>2. DayLength * (f + 1) = (DayLength * f) + DayLength
      BY <2>1, <2>3
    <3> QED BY <2>1, <2>3, <3>1, <3>2
  <2>5. (d - 1) * DayLength <= (f - 1) * DayLength
    BY <2>1, <2>3, <2>4
  <2>6. (d - 1) * DayLength \in Int /\ (f - 1) * DayLength \in Int
    BY <2>1, <2>3
  <2> QED BY <2>1, <2>2, <2>5, <2>6
<1> SUFFICES ASSUME r.days # {}
             PROVE  /\ RepeatDate(r, t + 1) >= RepeatDate(r, t)
                    /\ RepeatDate(r, t) > t + 1 => RepeatDate(r, t + 1) = RepeatDate(r, t)
  BY <1>a
<1> DEFINE n == RepeatDate(r, t)
           o == RepeatDate(r, t + 1)
<1>1. /\ n \in Nat /\ n > t /\ Occurs(r, n)
      /\ \A u \in (t + 1)..(n - 1) : ~Occurs(r, u)
  BY RepeatDateIsNext
<1>2. /\ o \in Nat /\ o > t + 1 /\ Occurs(r, o)
      /\ \A u \in ((t + 1) + 1)..(o - 1) : ~Occurs(r, u)
  <2>1. t + 1 \in Nat
    OBVIOUS
  <2> QED BY <2>1, RepeatDateIsNext
<1> HIDE DEF n, o
<1>3. o >= n
  BY <1>1, <1>2
<1>4. n > t + 1 => o = n
  BY <1>1, <1>2, <1>3
<1> QED BY <1>3, <1>4 DEF n, o

-----------------------------------------------------------------------------
(* Arrays.                                                                  *)

LEMMA WantedType ==
  ASSUME NEW e \in Wanted
  PROVE  /\ e \in [type : Behaviors, date : Nat \ {0}, app : Apps]
         /\ e.date \in Nat \ {0} /\ e.type \in Behaviors /\ e.app \in Apps
         /\ e.app # Repeating
  BY AutoWakeAssumption

\* An array of a behaviour, position by position.
LEMMA ArrayFact ==
  ASSUME NEW b, NEW q
  PROVE  q \in Arrays(b) <=>
           /\ q \in Seq(Wanted)
           /\ \A i \in 1..Len(q) : q[i].type = b
           /\ \A i, j \in 1..Len(q) : i < j => q[i].date <= q[j].date
<1>1. ASSUME q \in Arrays(b)
      PROVE  /\ q \in Seq(Wanted)
             /\ \A i \in 1..Len(q) : q[i].type = b
             /\ \A i, j \in 1..Len(q) : i < j => q[i].date <= q[j].date
  <2>1. q \in Seq(Events(b)) /\ Sorted(q)
    BY <1>1 DEF Arrays
  <2>2. Len(q) \in Nat /\ DOMAIN q = 1..Len(q) /\ q \in [1..Len(q) -> Events(b)]
    BY <2>1
  <2>3. \A i \in 1..Len(q) : q[i] \in Wanted /\ q[i].type = b
    BY <2>2 DEF Events
  <2>4. q \in Seq(Wanted)
    BY <2>1, <2>2, <2>3, SeqDef
  <2> QED BY <2>1, <2>2, <2>3, <2>4 DEF Sorted
<1>2. ASSUME q \in Seq(Wanted), \A i \in 1..Len(q) : q[i].type = b,
             \A i, j \in 1..Len(q) : i < j => q[i].date <= q[j].date
      PROVE  q \in Arrays(b)
  <2>1. Len(q) \in Nat /\ DOMAIN q = 1..Len(q) /\ q \in [1..Len(q) -> Wanted]
    BY <1>2
  <2>2. \A i \in 1..Len(q) : q[i] \in Events(b)
    BY <1>2, <2>1 DEF Events
  <2>3. q \in Seq(Events(b))
    BY <2>1, <2>2, SeqDef
  <2> QED BY <1>2, <2>1, <2>3 DEF Arrays, Sorted
<1> QED BY <1>1, <1>2

LEMMA ElementsFact ==
  ASSUME NEW q \in Seq(Wanted)
  PROVE  /\ Elements(q) \subseteq Wanted
         /\ \A e : e \in Elements(q) <=> \E i \in 1..Len(q) : q[i] = e
<1>1. DOMAIN q = 1..Len(q) /\ q \in [1..Len(q) -> Wanted]
  OBVIOUS
<1> QED BY <1>1 DEF Elements

LEMMA BeforeFact ==
  ASSUME NEW q \in Seq(Wanted), NEW t \in Nat
  PROVE  /\ Before(q, t) \in 0..Len(q)
         /\ \A i \in 1..Before(q, t) : q[i].date < t
         /\ Before(q, t) < Len(q) => q[Before(q, t) + 1].date >= t
<1> DEFINE n == Len(q)
           Stop(k) == k < n => q[k + 1].date >= t
           S == {k \in Nat : k <= n /\ Stop(k)}
<1>1. n \in Nat /\ \A i \in 1..n : q[i].date \in Nat
  BY WantedType
<1>2. n \in Nat /\ n <= n /\ Stop(n)
  BY <1>1
<1> HIDE DEF Stop, n
<1>3. S \in SUBSET Nat /\ S # {}
  BY <1>2
<1>4. PICK m \in S : \A y \in S : m <= y
  BY <1>3, MinNat
<1>5. m \in 0..n /\ Stop(m)
  BY <1>1, <1>4
<1>6. ASSUME NEW i \in 1..m PROVE q[i].date < t
  <2>1. i - 1 \in Nat /\ i - 1 <= n /\ i - 1 < m /\ i \in 1..n
    BY <1>1, <1>5
  <2>2. ~Stop(i - 1)
    BY <1>4, <1>5, <2>1
  <2>3. (i - 1) + 1 = i
    BY <2>1
  <2> QED BY <1>1, <2>1, <2>2, <2>3 DEF Stop
<1>7. \E k \in 0..Len(q) : /\ \A i \in 1..k : q[i].date < t
                           /\ k < Len(q) => q[k + 1].date >= t
  BY <1>5, <1>6 DEF Stop, n
<1> QED BY <1>7 DEF Before

\* A purge takes the events before t, and no other.
LEMMA PurgedFact ==
  ASSUME NEW b, NEW q \in Arrays(b), NEW t \in Nat
  PROVE  /\ Purged(q, t) \in Arrays(b)
         /\ Len(Purged(q, t)) = Len(q) - Before(q, t)
         /\ Before(q, t) \in Nat
         /\ Elements(Purged(q, t)) = {e \in Elements(q) : e.date >= t}
<1> DEFINE k == Before(q, t)
           p == Purged(q, t)
<1>1. /\ q \in Seq(Wanted) /\ Len(q) \in Nat
      /\ \A i \in 1..Len(q) : q[i].type = b
      /\ \A i, j \in 1..Len(q) : i < j => q[i].date <= q[j].date
  BY ArrayFact
<1>2. \A i \in 1..Len(q) : q[i].date \in Nat
  BY <1>1, WantedType
<1>3. /\ k \in 0..Len(q)
      /\ \A i \in 1..k : q[i].date < t
      /\ k < Len(q) => q[k + 1].date >= t
  BY <1>1, BeforeFact
<1> HIDE DEF k
<1>4. /\ p \in Seq(Wanted) /\ Len(p) = Len(q) - k
      /\ \A i \in 1..Len(p) : p[i] = q[k + i]
  BY <1>1, <1>3 DEF Purged, k
<1> HIDE DEF p
<1>5. \A i \in 1..Len(p) : k + i \in 1..Len(q)
  BY <1>1, <1>3, <1>4
<1>6. p \in Arrays(b)
  <2>1. \A i \in 1..Len(p) : p[i].type = b
    BY <1>1, <1>4, <1>5
  <2>2. ASSUME NEW i \in 1..Len(p), NEW j \in 1..Len(p), i < j
        PROVE  p[i].date <= p[j].date
    <3>1. k + i \in 1..Len(q) /\ k + j \in 1..Len(q) /\ k + i < k + j
      BY <1>3, <1>5, <2>2
    <3>2. p[i] = q[k + i] /\ p[j] = q[k + j]
      BY <1>4
    <3> QED BY <1>1, <3>1, <3>2
  <2> QED BY <1>4, <2>1, <2>2, ArrayFact
<1>7. \A i \in 1..Len(q) : q[i].date >= t <=> i > k
  <2> TAKE i \in 1..Len(q)
  <2>1. CASE i <= k
    BY <1>2, <1>3, <2>1
  <2>2. CASE i = k + 1
    BY <1>1, <1>3, <2>2
  <2>3. CASE i > k + 1
    BY <1>1, <1>2, <1>3, <2>3
  <2> QED BY <1>1, <1>3, <2>1, <2>2, <2>3
<1>8. ASSUME NEW e
      PROVE  e \in Elements(p) <=> (e \in Elements(q) /\ e.date >= t)
  <2>1. ASSUME e \in Elements(p) PROVE e \in Elements(q) /\ e.date >= t
    <3>1. PICK i \in 1..Len(p) : p[i] = e
      BY <1>4, <2>1, ElementsFact
    <3>2. k + i \in 1..Len(q) /\ q[k + i] = e /\ k + i > k
      BY <1>3, <1>4, <1>5, <3>1
    <3> QED BY <1>1, <1>7, <3>2, ElementsFact
  <2>2. ASSUME e \in Elements(q), e.date >= t PROVE e \in Elements(p)
    <3>1. PICK i \in 1..Len(q) : q[i] = e
      BY <1>1, <2>2, ElementsFact
    <3>2. i > k
      BY <1>7, <2>2, <3>1
    <3>3. i - k \in 1..Len(p) /\ k + (i - k) = i
      BY <1>1, <1>3, <1>4, <3>2
    <3>4. p[i - k] = e
      BY <1>4, <3>1, <3>3
    <3> QED BY <1>4, <3>3, <3>4, ElementsFact
  <2> QED BY <2>1, <2>2
<1>9. Elements(p) = {e \in Elements(q) : e.date >= t}
  BY <1>8
<1>10. k \in Nat
  BY <1>1, <1>3
<1> QED BY <1>4, <1>6, <1>9, <1>10 DEF p, k

\* The array p is q with e behind the first k events.
InsertedAt(b, p, q, e, k) ==
  /\ p \in Arrays(b)
  /\ Len(p) = Len(q) + 1
  /\ \A i \in 1..k : p[i] = q[i]
  /\ p[k + 1] = e
  /\ \A i \in (k + 1)..Len(q) : p[i + 1] = q[i]



\* An event that is added is in the array, behind the events with its date.
LEMMA InsertedFact ==
  ASSUME NEW b, NEW q \in Arrays(b), NEW e \in Events(b)
  PROVE  \E k \in 0..Len(q) : InsertedAt(b, Inserted(q, e), q, e, k)
<1> DEFINE k == Before(q, e.date + 1)
           p == Inserted(q, e)
           n == Len(q)
<1>1. /\ q \in Seq(Wanted) /\ n \in Nat
      /\ \A i \in 1..n : q[i].type = b
      /\ \A i, j \in 1..n : i < j => q[i].date <= q[j].date
  BY ArrayFact
<1>2. /\ e \in Wanted /\ e.type = b /\ e.date \in Nat /\ e.date + 1 \in Nat
      /\ \A i \in 1..n : q[i].date \in Nat
  BY <1>1, WantedType DEF Events
<1>3. /\ k \in 0..n
      /\ \A i \in 1..k : q[i].date < e.date + 1
      /\ k < n => q[k + 1].date >= e.date + 1
  BY <1>1, <1>2, BeforeFact
<1>4. \A i \in 1..n : IF i <= k THEN q[i].date <= e.date ELSE q[i].date > e.date
  <2> TAKE i \in 1..n
  <2>1. CASE i <= k
    BY <1>2, <1>3, <2>1
  <2>2. CASE i = k + 1
    BY <1>1, <1>2, <1>3, <2>2
  <2>3. CASE i > k + 1
    <3>1. k + 1 \in 1..n /\ k < n
      BY <1>1, <1>3, <2>3
    <3>2. q[k + 1].date <= q[i].date
      BY <1>1, <2>3, <3>1
    <3> QED BY <1>2, <1>3, <2>3, <3>1, <3>2
  <2> QED BY <1>1, <1>3, <2>1, <2>2, <2>3
<1> HIDE DEF k
<1> DEFINE u == SubSeq(q, 1, k)
           v == SubSeq(q, k + 1, Len(q))
<1>5. /\ u \in Seq(Wanted) /\ Len(u) = k /\ \A i \in 1..k : u[i] = q[i]
      /\ v \in Seq(Wanted) /\ Len(v) = n - k /\ \A i \in 1..n - k : v[i] = q[k + i]
  BY <1>1, <1>3
<1>6. p = u \o <<e>> \o v
  BY DEF Inserted, k
<1> HIDE DEF p, u, v
<1> DEFINE w == u \o <<e>>
<1>7. /\ w \in Seq(Wanted) /\ Len(w) = k + 1 /\ w[k + 1] = e
      /\ \A i \in 1..k : w[i] = q[i]
  <2>1. /\ <<e>> \in Seq(Wanted) /\ Len(<<e>>) = 1 /\ <<e>>[1] = e /\ 1 \in 1..1
    BY <1>2
  <2>2. /\ w \in Seq(Wanted) /\ Len(w) = Len(u) + Len(<<e>>)
        /\ \A i \in 1..Len(u) : w[i] = u[i]
        /\ \A i \in 1..Len(<<e>>) : w[Len(u) + i] = <<e>>[i]
    <3>1. u \in Seq(Wanted)
      BY <1>5
    <3> QED BY <2>1, <3>1
  <2> QED BY <1>5, <2>1, <2>2
<1>8. p = w \o v
  BY <1>6
<1> HIDE DEF w, n
<1>9. /\ p \in Seq(Wanted) /\ Len(p) = n + 1 /\ p[k + 1] = e
      /\ \A i \in 1..k : p[i] = q[i]
      /\ \A i \in 1..n - k : p[k + 1 + i] = v[i]
  <2>1. /\ p \in Seq(Wanted) /\ Len(p) = Len(w) + Len(v)
        /\ \A i \in 1..Len(w) : p[i] = w[i]
        /\ \A i \in 1..Len(v) : p[Len(w) + i] = v[i]
    <3>1. w \in Seq(Wanted) /\ v \in Seq(Wanted)
      BY <1>5, <1>7
    <3>2. /\ w \o v \in Seq(Wanted) /\ Len(w \o v) = Len(w) + Len(v)
          /\ \A i \in 1..Len(w) : (w \o v)[i] = w[i]
          /\ \A i \in 1..Len(v) : (w \o v)[Len(w) + i] = v[i]
      BY <3>1
    <3> QED BY <1>8, <3>2, Zenon
  <2>2. Len(p) = n + 1
    BY <1>1, <1>3, <1>5, <1>7, <2>1
  <2>3. p[k + 1] = e /\ \A i \in 1..k : p[i] = q[i]
    BY <1>3, <1>7, <2>1
  <2>4. \A i \in 1..n - k : p[k + 1 + i] = v[i]
    BY <1>5, <1>7, <2>1
  <2> QED BY <2>1, <2>2, <2>3, <2>4
<1>10. \A i \in (k + 1)..n : p[i + 1] = q[i]
  <2> TAKE i \in (k + 1)..n
  <2>1. i - k \in 1..n - k /\ k + 1 + (i - k) = i + 1 /\ k + (i - k) = i
    BY <1>1, <1>3
  <2>2. PICK j \in 1..n - k : k + 1 + j = i + 1 /\ k + j = i
    BY <2>1
  <2>3. p[k + 1 + j] = v[j]
    BY <1>9
  <2>4. v[j] = q[k + j]
    BY <1>5
  <2> QED BY <2>2, <2>3, <2>4
<1>11. p \in Arrays(b)
  <2>1. ASSUME NEW i \in 1..Len(p)
        PROVE  \/ i \in 1..k /\ p[i] = q[i] /\ i \in 1..n
               \/ i = k + 1 /\ p[i] = e
               \/ i > k + 1 /\ i - 1 \in (k + 1)..n /\ i - 1 \in 1..n /\ p[i] = q[i - 1]
    <3>1. CASE i <= k
      BY <1>1, <1>3, <1>9, <3>1
    <3>2. CASE i = k + 1
      BY <1>9, <3>2
    <3>3. CASE i > k + 1
      <4>1. i - 1 \in (k + 1)..n /\ i - 1 \in 1..n /\ (i - 1) + 1 = i
        BY <1>1, <1>3, <1>9, <3>3
      <4> QED BY <1>10, <3>3, <4>1
    <3> QED BY <1>1, <1>3, <1>9, <3>1, <3>2, <3>3
  <2>2. \A i \in 1..Len(p) : p[i].type = b
    BY <1>1, <1>2, <2>1 DEF n
  <2>3. ASSUME NEW i \in 1..Len(p), NEW j \in 1..Len(p), i < j
        PROVE  p[i].date <= p[j].date
    <3>1. CASE i \in 1..k /\ p[i] = q[i] /\ i \in 1..n
      <4>1. CASE j \in 1..k /\ p[j] = q[j] /\ j \in 1..n
        BY <1>1, <2>3, <3>1, <4>1
      <4>2. CASE j = k + 1 /\ p[j] = e
        BY <1>4, <3>1, <4>2
      <4>3. CASE j > k + 1 /\ j - 1 \in 1..n /\ p[j] = q[j - 1]
        BY <1>1, <1>3, <3>1, <4>3
      <4> QED BY <2>1, <4>1, <4>2, <4>3
    <3>2. CASE i = k + 1 /\ p[i] = e
      <4>1. j - 1 \in 1..n /\ p[j] = q[j - 1] /\ ~(j - 1 <= k)
        BY <1>1, <1>3, <2>1, <2>3, <3>2
      <4> QED BY <1>2, <1>4, <3>2, <4>1
    <3>3. CASE i > k + 1 /\ i - 1 \in 1..n /\ p[i] = q[i - 1]
      <4>1. j - 1 \in 1..n /\ p[j] = q[j - 1] /\ i - 1 < j - 1
        BY <1>1, <1>3, <2>1, <2>3, <3>3
      <4> QED BY <1>1, <3>3, <4>1
    <3> QED BY <2>1, <3>1, <3>2, <3>3
  <2> QED BY <1>9, <2>2, <2>3, ArrayFact
<1> QED BY <1>3, <1>9, <1>10, <1>11 DEF p, n, InsertedAt

LEMMA InsertedElements ==
  ASSUME NEW b, NEW q \in Arrays(b), NEW e \in Events(b)
  PROVE  Elements(Inserted(q, e)) = Elements(q) \cup {e}
<1> DEFINE p == Inserted(q, e)
           n == Len(q)
<1>0. PICK k \in 0..n : InsertedAt(b, p, q, e, k)
  BY InsertedFact
<1>1. /\ p \in Arrays(b)
      /\ Len(p) = n + 1
      /\ \A i \in 1..k : p[i] = q[i]
      /\ p[k + 1] = e
      /\ \A i \in (k + 1)..n : p[i + 1] = q[i]
  BY <1>0 DEF InsertedAt
<1>2. q \in Seq(Wanted) /\ p \in Seq(Wanted) /\ n \in Nat
  BY <1>1, ArrayFact
<1> HIDE DEF p
<1>3. ASSUME NEW x, x \in Elements(p) PROVE x \in Elements(q) \cup {e}
  <2>1. PICK i \in 1..n + 1 : p[i] = x
    BY <1>1, <1>2, <1>3, ElementsFact
  <2>2. CASE i <= k
    <3>1. i \in 1..k /\ i \in 1..n
      BY <1>2, <2>2
    <3> QED BY <1>1, <1>2, <2>1, <3>1, ElementsFact
  <2>3. CASE i = k + 1
    BY <1>1, <2>1, <2>3
  <2>4. CASE i > k + 1
    <3>1. i - 1 \in (k + 1)..n /\ i - 1 \in 1..n /\ (i - 1) + 1 = i
      BY <1>2, <2>4
    <3>2. q[i - 1] = x
      BY <1>1, <2>1, <3>1
    <3> QED BY <1>2, <3>1, <3>2, ElementsFact
  <2> QED BY <1>2, <2>2, <2>3, <2>4
<1>4. ASSUME NEW x, x \in Elements(q) PROVE x \in Elements(p)
  <2>1. PICK i \in 1..n : q[i] = x
    BY <1>2, <1>4, ElementsFact
  <2>2. CASE i <= k
    <3>1. i \in 1..k /\ i \in 1..Len(p)
      BY <1>1, <1>2, <2>2
    <3> QED BY <1>1, <1>2, <2>1, <3>1, ElementsFact
  <2>3. CASE i > k
    <3>1. i \in (k + 1)..n /\ i + 1 \in 1..Len(p)
      BY <1>1, <1>2, <2>3
    <3>2. p[i + 1] = x
      BY <1>1, <2>1, <3>1
    <3> QED BY <1>2, <3>1, <3>2, ElementsFact
  <2> QED BY <1>2, <2>2, <2>3
<1>5. e \in Elements(p)
  <2>1. k + 1 \in 1..Len(p)
    BY <1>1, <1>2
  <2> QED BY <1>1, <1>2, <2>1, ElementsFact
<1> QED BY <1>3, <1>4, <1>5 DEF p

\* The event a request names is found, by its date and its application.
LEMMA FirstFact ==
  ASSUME NEW b, NEW q \in Arrays(b), NEW e \in Events(b),
         \E f \in Elements(q) : Same(e, f)
  PROVE  First(q, e) \in 1..Len(q) /\ q[First(q, e)] = e
<1> DEFINE S == {i \in Nat : i \in 1..Len(q) /\ Same(q[i], e)}
<1>1. q \in Seq(Wanted) /\ DOMAIN q = 1..Len(q) /\ \A i \in 1..Len(q) : q[i].type = b
  BY ArrayFact
<1>2. S \in SUBSET Nat /\ S # {}
  <2>1. PICK f \in Elements(q) : Same(e, f)
    OBVIOUS
  <2>2. PICK i \in 1..Len(q) : q[i] = f
    BY <1>1, ElementsFact
  <2>3. i \in S
    BY <1>1, <2>1, <2>2 DEF Same
  <2> QED BY <2>3
<1>3. PICK m \in S : \A y \in S : m <= y
  BY <1>2, MinNat
<1>4. m \in DOMAIN q /\ Same(q[m], e) /\ \A j \in 1..m - 1 : ~Same(q[j], e)
  <2>1. \A j \in 1..m - 1 : j \notin S /\ j \in Nat /\ j \in 1..Len(q)
    BY <1>1, <1>3
  <2> QED BY <1>1, <1>3, <2>1
<1>5. First(q, e) \in DOMAIN q /\ Same(q[First(q, e)], e)
  BY <1>4 DEF First
<1> DEFINE x == q[First(q, e)]
<1>6. x \in Wanted /\ x.type = b /\ e \in Wanted /\ e.type = b
  BY <1>1, <1>5 DEF Events
<1>7. x.date = e.date /\ x.app = e.app
  BY <1>5 DEF Same
<1> HIDE DEF x
<1>8. x = e
  BY <1>6, <1>7, WantedType
<1> QED BY <1>1, <1>5, <1>8 DEF x

LEMMA RemovedFact ==
  ASSUME NEW b, NEW q \in Arrays(b), NEW i \in 1..Len(q)
  PROVE  /\ Removed(q, i) \in Arrays(b)
         /\ Len(Removed(q, i)) = Len(q) - 1
         /\ \A x : x \in Elements(Removed(q, i)) <=> \E j \in 1..Len(q) : j # i /\ q[j] = x
<1> DEFINE p == Removed(q, i)
           n == Len(q)
           u == SubSeq(q, 1, i - 1)
           v == SubSeq(q, i + 1, Len(q))
<1>1. /\ q \in Seq(Wanted) /\ n \in Nat
      /\ \A j \in 1..n : q[j].type = b
      /\ \A j, k \in 1..n : j < k => q[j].date <= q[k].date
  BY ArrayFact
<1>2. /\ u \in Seq(Wanted) /\ Len(u) = i - 1 /\ \A j \in 1..i - 1 : u[j] = q[j]
      /\ v \in Seq(Wanted) /\ Len(v) = n - i /\ \A j \in 1..n - i : v[j] = q[i + j]
  BY <1>1
<1>3. p = u \o v
  BY DEF Removed
<1> HIDE DEF p, u, v, n
<1>4. /\ p \in Seq(Wanted) /\ Len(p) = n - 1
      /\ \A j \in 1..i - 1 : p[j] = q[j]
      /\ \A j \in 1..n - i : p[(i - 1) + j] = v[j]
  <2>1. /\ p \in Seq(Wanted) /\ Len(p) = Len(u) + Len(v)
        /\ \A j \in 1..Len(u) : p[j] = u[j]
        /\ \A j \in 1..Len(v) : p[Len(u) + j] = v[j]
    <3>1. u \in Seq(Wanted) /\ v \in Seq(Wanted)
      BY <1>2
    <3>2. /\ u \o v \in Seq(Wanted) /\ Len(u \o v) = Len(u) + Len(v)
          /\ \A j \in 1..Len(u) : (u \o v)[j] = u[j]
          /\ \A j \in 1..Len(v) : (u \o v)[Len(u) + j] = v[j]
      BY <3>1
    <3> QED BY <1>3, <3>2, Zenon
  <2> QED BY <1>1, <1>2, <2>1 DEF n
<1>5. ASSUME NEW j \in 1..n - 1
      PROVE  /\ j < i => p[j] = q[j] /\ j \in 1..n
             /\ j >= i => p[j] = q[j + 1] /\ j + 1 \in 1..n
  <2>1. CASE j < i
    BY <1>1, <1>4, <2>1
  <2>2. CASE j >= i
    <3>1. /\ j - (i - 1) \in 1..n - i /\ (i - 1) + (j - (i - 1)) = j
          /\ i + (j - (i - 1)) = j + 1 /\ j + 1 \in 1..n
      BY <1>1, <2>2
    <3>2. PICK k \in 1..n - i : (i - 1) + k = j /\ i + k = j + 1
      BY <3>1
    <3>3. p[(i - 1) + k] = v[k]
      BY <1>4
    <3>4. v[k] = q[i + k]
      BY <1>2
    <3>5. p[j] = q[j + 1]
      BY <3>2, <3>3, <3>4
    <3> QED BY <2>2, <3>1, <3>5
  <2> QED BY <2>1, <2>2
<1>6. p \in Arrays(b)
  <2>1. ASSUME NEW j \in 1..Len(p) PROVE p[j].type = b
    <3>1. j \in 1..n - 1
      BY <1>4
    <3>2. CASE j < i
      BY <1>1, <1>5, <3>1, <3>2
    <3>3. CASE j >= i
      BY <1>1, <1>5, <3>1, <3>3
    <3> QED BY <3>2, <3>3
  <2>2. ASSUME NEW j \in 1..Len(p), NEW k \in 1..Len(p), j < k
        PROVE  p[j].date <= p[k].date
    <3>1. PICK x \in 1..n : p[j] = q[x] /\ (j < i => x = j) /\ (j >= i => x = j + 1)
      BY <1>4, <1>5
    <3>2. PICK y \in 1..n : p[k] = q[y] /\ (k < i => y = k) /\ (k >= i => y = k + 1)
      BY <1>4, <1>5
    <3>3. x < y
      BY <1>4, <2>2, <3>1, <3>2
    <3> QED BY <1>1, <3>1, <3>2, <3>3
  <2> QED BY <1>4, <2>1, <2>2, ArrayFact
<1>7. ASSUME NEW x
      PROVE  x \in Elements(p) <=> \E j \in 1..n : j # i /\ q[j] = x
  <2>1. ASSUME x \in Elements(p) PROVE \E j \in 1..n : j # i /\ q[j] = x
    <3>1. PICK j \in 1..n - 1 : p[j] = x
      BY <1>4, <2>1, ElementsFact
    <3>2. CASE j < i
      BY <1>5, <3>1, <3>2
    <3>3. CASE j >= i
      <4>1. j + 1 # i
        BY <3>3
      <4> QED BY <1>5, <3>1, <3>3, <4>1
    <3> QED BY <3>2, <3>3
  <2>2. ASSUME NEW j \in 1..n, j # i, q[j] = x PROVE x \in Elements(p)
    <3>1. CASE j < i
      <4>1. j \in 1..n - 1
        BY <1>1, <3>1 DEF n
      <4> QED BY <1>4, <1>5, <2>2, <3>1, <4>1, ElementsFact
    <3>2. CASE j > i
      <4>1. j - 1 \in 1..n - 1 /\ j - 1 >= i /\ (j - 1) + 1 = j
        BY <1>1, <3>2
      <4>2. p[j - 1] = x
        BY <1>5, <2>2, <4>1
      <4> QED BY <1>4, <4>1, <4>2, ElementsFact
    <3> QED BY <1>1, <2>2, <3>1, <3>2
  <2> QED BY <2>1, <2>2
<1> QED BY <1>4, <1>6, <1>7 DEF p, n

\* To remove an event that was just added leaves the events that were there.
LEMMA AddedThenRemoved ==
  ASSUME NEW b, NEW q \in Arrays(b), NEW e \in Events(b)
  PROVE  LET p == Inserted(q, e)
             i == First(p, e)
         IN /\ i \in 1..Len(p) /\ p[i] = e
            /\ Elements(Removed(p, i)) = Elements(q)
<1> DEFINE p == Inserted(q, e)
           n == Len(q)
           f == First(p, e)
<1>0. PICK k \in 0..n : InsertedAt(b, p, q, e, k)
  BY InsertedFact
<1>1. /\ p \in Arrays(b)
      /\ Len(p) = n + 1
      /\ \A i \in 1..k : p[i] = q[i]
      /\ p[k + 1] = e
      /\ \A i \in (k + 1)..n : p[i + 1] = q[i]
  BY <1>0 DEF InsertedAt
<1>2. q \in Seq(Wanted) /\ p \in Seq(Wanted) /\ n \in Nat
  BY <1>1, ArrayFact
<1>3. Elements(p) = Elements(q) \cup {e}
  BY InsertedElements
<1>4. f \in 1..Len(p) /\ p[f] = e
  <2>1. e \in Elements(p) /\ Same(e, e)
    BY <1>3 DEF Same
  <2> QED BY <1>1, <2>1, FirstFact
<1> HIDE DEF p, f
<1>5. \A x : x \in Elements(Removed(p, f)) <=> \E j \in 1..Len(p) : j # f /\ p[j] = x
  BY <1>1, <1>4, RemovedFact
<1>6. ASSUME NEW x \in Elements(q) PROVE x \in Elements(Removed(p, f))
  <2>1. PICK j \in 1..n : q[j] = x
    BY <1>2, ElementsFact
  <2>2. PICK y \in 1..Len(p) : p[y] = x /\ y # k + 1
    <3>1. CASE j <= k
      <4>1. j \in 1..k /\ j \in 1..Len(p) /\ j # k + 1
        BY <1>1, <1>2, <3>1
      <4> QED BY <1>1, <2>1, <4>1
    <3>2. CASE j > k
      <4>1. j \in (k + 1)..n /\ j + 1 \in 1..Len(p) /\ j + 1 # k + 1
        BY <1>1, <1>2, <3>2
      <4> QED BY <1>1, <2>1, <4>1
    <3> QED BY <1>2, <3>1, <3>2
  <2>3. k + 1 \in 1..Len(p)
    BY <1>1, <1>2
  <2>4. CASE y # f
    BY <1>5, <2>2, <2>4
  <2>5. CASE y = f
    BY <1>1, <1>4, <1>5, <2>2, <2>3, <2>5
  <2> QED BY <2>4, <2>5
<1>7. ASSUME NEW x \in Elements(Removed(p, f)) PROVE x \in Elements(q)
  <2>1. PICK y \in 1..Len(p) : y # f /\ p[y] = x
    BY <1>5
  <2>2. x \in Elements(q) \cup {e}
    BY <1>2, <1>3, <2>1, ElementsFact
  <2>3. ASSUME NEW y2 \in 1..Len(p), y2 # k + 1 PROVE p[y2] \in Elements(q)
    <3>1. CASE y2 <= k
      <4>1. y2 \in 1..k /\ y2 \in 1..n
        BY <1>2, <3>1
      <4> QED BY <1>1, <1>2, <4>1, ElementsFact
    <3>2. CASE y2 > k + 1
      <4>1. y2 - 1 \in (k + 1)..n /\ y2 - 1 \in 1..n /\ (y2 - 1) + 1 = y2
        BY <1>1, <1>2, <3>2
      <4>2. p[y2] = q[y2 - 1]
        BY <1>1, <4>1
      <4> QED BY <1>2, <4>1, <4>2, ElementsFact
    <3> QED BY <1>2, <2>3, <3>1, <3>2
  <2>4. CASE y # k + 1
    BY <2>1, <2>3, <2>4
  <2>5. CASE y = k + 1
    <3>1. f # k + 1 /\ x = e
      BY <1>1, <2>1, <2>5
    <3> QED BY <1>4, <2>3, <3>1
  <2> QED BY <2>4, <2>5
<1> QED BY <1>4, <1>6, <1>7 DEF p, f

-----------------------------------------------------------------------------
(* What the handlers work on.                                               *)

LEMMA BehaviorNames ==
  /\ Behaviors \subseteq {"sleep", "shutdown", "restart", "wake", "poweron", "wakeorpoweron"}
  /\ "wake" \in Behaviors /\ "poweron" \in Behaviors /\ "wakeorpoweron" \in Behaviors
  /\ Timed \subseteq Behaviors /\ On \subseteq Timed /\ Repeating \notin Apps
<1>1. Behaviors \subseteq {Order[i] : i \in DOMAIN Order} /\ On \cup {"wakeorpoweron"} \subseteq Behaviors
  BY AutoWakeAssumption
<1>2. DOMAIN Order = 1..6
  BY DEF Order
<1>3. \A i \in 1..6 : Order[i] \in {"sleep", "shutdown", "restart", "wake", "poweron", "wakeorpoweron"}
  BY DEF Order
<1> QED BY <1>1, <1>2, <1>3, AutoWakeAssumption DEF On, Timed

LEMMA SumNat ==
  ASSUME NEW f \in [Behaviors -> Nat]
  PROVE  Sum(f) \in Nat
  BY DEF Sum

LEMMA SumLe ==
  ASSUME NEW f \in [Behaviors -> Nat], NEW g \in [Behaviors -> Nat],
         \A b \in Behaviors : f[b] <= g[b]
  PROVE  Sum(f) <= Sum(g)
<1> DEFINE at(h, b) == IF b \in Behaviors THEN h[b] ELSE 0
<1>1. \A b : at(f, b) \in Nat /\ at(g, b) \in Nat /\ at(f, b) <= at(g, b)
  OBVIOUS
<1>2. Sum(f) = at(f, "sleep") + at(f, "shutdown") + at(f, "restart")
                 + at(f, "wake") + at(f, "poweron") + at(f, "wakeorpoweron")
  BY DEF Sum
<1>3. Sum(g) = at(g, "sleep") + at(g, "shutdown") + at(g, "restart")
                 + at(g, "wake") + at(g, "poweron") + at(g, "wakeorpoweron")
  BY DEF Sum
<1> HIDE DEF at
<1> QED BY <1>1, <1>2, <1>3

LEMMA SumMinus ==
  ASSUME NEW f \in [Behaviors -> Nat], NEW g \in [Behaviors -> Nat],
         NEW h \in [Behaviors -> Nat], \A b \in Behaviors : h[b] = f[b] - g[b]
  PROVE  Sum(h) = Sum(f) - Sum(g)
<1> DEFINE at(x, b) == IF b \in Behaviors THEN x[b] ELSE 0
<1>1. \A b : at(f, b) \in Nat /\ at(g, b) \in Nat /\ at(h, b) = at(f, b) - at(g, b)
  OBVIOUS
<1>2. \A x : Sum(x) = at(x, "sleep") + at(x, "shutdown") + at(x, "restart")
                        + at(x, "wake") + at(x, "poweron") + at(x, "wakeorpoweron")
  BY DEF Sum
<1> HIDE DEF at
<1> QED BY <1>1, <1>2

LEMMA SumOne ==
  ASSUME NEW f \in [Behaviors -> Nat], NEW g \in [Behaviors -> Nat],
         NEW b \in Behaviors, g[b] = f[b] + 1,
         \A x \in Behaviors \ {b} : g[x] = f[x]
  PROVE  Sum(g) = Sum(f) + 1
<1> DEFINE at(h, x) == IF x \in Behaviors THEN h[x] ELSE 0
<1>1. \A x : at(f, x) \in Nat /\ at(g, x) = IF x = b THEN at(f, x) + 1 ELSE at(f, x)
  OBVIOUS
<1>2. \A x : Sum(x) = at(x, "sleep") + at(x, "shutdown") + at(x, "restart")
                        + at(x, "wake") + at(x, "poweron") + at(x, "wakeorpoweron")
  BY DEF Sum
<1>3. b \in {"sleep", "shutdown", "restart", "wake", "poweron", "wakeorpoweron"}
  BY BehaviorNames
<1> HIDE DEF at
<1> QED BY <1>1, <1>2, <1>3

LEMMA SumZero ==
  ASSUME NEW f \in [Behaviors -> Nat], \A b \in Behaviors : f[b] = 0
  PROVE  Sum(f) = 0
  BY DEF Sum

\* The states of a handler's work.
Works == [beh : [Behaviors -> BehaviorSet], cnt : Int, repeat : RepeatSet, hw : Int]
Good(s) ==
  /\ s \in Works
  /\ \A b \in Behaviors : /\ s.beh[b].queue \in Arrays(b)
                          /\ s.beh[b].made \/ s.beh[b].queue = <<>>
Lens(s) == [b \in Behaviors |-> Len(s.beh[b].queue)]

\* What follows for a behaviour at time t, written without the variables.
AgainAt(s, b, t) ==
  {[type |-> r.type, date |-> RepeatDate(r, t), app |-> Repeating] : r \in RepeatOf(s, b)}
FutureAt(s, b, t) ==
  {e \in copyMergedEventArray(s, b) : e.date > t} \cup AgainAt(s, b, t)

\* No repeating event without days is among them.
Ahead(s, b, t) == \A e \in FutureAt(s, b, t) : e.date > t

\* EarliestIsArmed and CancelledStaysQuiet for one behaviour.
ArmedAt(s, b, t) ==
  Ahead(s, b, t) /\ ~s.beh[b].edge =>
    \A e \in FutureAt(s, b, t) :
      /\ s.beh[b].timer # NoDate /\ s.beh[b].timer <= e.date
      /\ b = "poweron" => s.hw # NoDate /\ s.hw <= e.date
QuietAt(s, b, t) ==
  /\ s.beh[b].timer > t => \E e \in FutureAt(s, b, t) : e.date = s.beh[b].timer
  /\ b = "poweron" /\ s.hw > t => \E e \in FutureAt(s, b, t) : e.date = s.hw

LEMMA GoodFact ==
  ASSUME NEW s, Good(s), NEW b \in Behaviors
  PROVE  /\ s.beh[b] \in BehaviorSet /\ s.beh[b].queue \in Arrays(b)
         /\ s.beh[b].queue \in Seq(Wanted) /\ Len(s.beh[b].queue) \in Nat
         /\ s.beh[b].timer \in Nat /\ s.beh[b].edge \in BOOLEAN
         /\ Elements(s.beh[b].queue) \subseteq Wanted
         /\ Lens(s) \in [Behaviors -> Nat]
<1>1. s.beh \in [Behaviors -> BehaviorSet]
  BY DEF Good, Works
<1>2. \A x \in Behaviors : s.beh[x] \in BehaviorSet
  BY <1>1
<1>3. \A x \in Behaviors : /\ s.beh[x].queue \in Seq(Wanted)
                           /\ s.beh[x].timer \in Nat /\ s.beh[x].edge \in BOOLEAN
  BY <1>2 DEF BehaviorSet
<1>4. Lens(s) \in [Behaviors -> Nat]
  BY <1>3 DEF Lens
<1> QED BY <1>2, <1>3, <1>4, ElementsFact DEF Good

\* A repeating event that concerns a behaviour is one of the repeating events.
LEMMA AgainFact ==
  ASSUME NEW s, Good(s), NEW b \in Timed, NEW t \in Nat
  PROVE  \/ /\ \A u \in Nat : AgainAt(s, b, u) = {}
         \/ \E r \in Repeats :
              \A u \in Nat :
                AgainAt(s, b, u) = {[type |-> r.type, date |-> RepeatDate(r, u), app |-> Repeating]}
<1> DEFINE r == IF b \in Off THEN s.repeat.off ELSE s.repeat.on
<1>1. r \in {NoRepeat} \cup Repeats
  <2>1. s.repeat \in RepeatSet
    BY DEF Good, Works
  <2>2. s.repeat.off \in {NoRepeat} \cup Repeats /\ s.repeat.on \in {NoRepeat} \cup Repeats
    BY <2>1 DEF RepeatSet, RepeatsFor
  <2> QED BY <2>2
<1>2. RepeatOf(s, b) =
        IF r # NoRepeat /\ (r.type = b \/ (r.type = "wakeorpoweron" /\ b \in On))
        THEN {r} ELSE {}
  BY DEF RepeatOf
<1> HIDE DEF r
<1>3. CASE r # NoRepeat /\ (r.type = b \/ (r.type = "wakeorpoweron" /\ b \in On))
  <2>1. r \in Repeats /\ RepeatOf(s, b) = {r}
    BY <1>1, <1>2, <1>3
  <2>2. \A u \in Nat :
          AgainAt(s, b, u) = {[type |-> r.type, date |-> RepeatDate(r, u), app |-> Repeating]}
    BY <2>1 DEF AgainAt
  <2> QED BY <2>1, <2>2
<1>4. CASE ~(r # NoRepeat /\ (r.type = b \/ (r.type = "wakeorpoweron" /\ b \in On)))
  <2>1. RepeatOf(s, b) = {}
    BY <1>2, <1>4
  <2> QED BY <2>1 DEF AgainAt
<1> QED BY <1>3, <1>4

LEMMA CandidatesType ==
  ASSUME NEW s, Good(s), NEW b \in Timed, NEW t \in Nat
  PROVE  /\ copyMergedEventArray(s, b) \subseteq Wanted
         /\ \A e \in copyMergedEventArray(s, b) : e \in EventSet /\ e.date \in Nat
         /\ \A e \in AgainAt(s, b, t) : /\ e \in EventSet /\ e.date \in Int
                                        /\ e.date + DayLength \in Nat
                                        /\ e.app = Repeating /\ e # NoEvent
<1>1. copyMergedEventArray(s, b) \subseteq Wanted
  BY GoodFact, BehaviorNames DEF copyMergedEventArray
<1>2. \A e \in Wanted : e \in EventSet /\ e.date \in Nat
  <2> TAKE e \in Wanted
  <2>1. e \in [type : Behaviors, date : Nat \ {0}, app : Apps]
    BY WantedType
  <2> QED BY <2>1 DEF EventSet
<1>3. ASSUME NEW e \in AgainAt(s, b, t)
      PROVE  /\ e \in EventSet /\ e.date \in Int /\ e.date + DayLength \in Nat
             /\ e.app = Repeating /\ e # NoEvent
  <2>1. PICK r \in Repeats :
          AgainAt(s, b, t) = {[type |-> r.type, date |-> RepeatDate(r, t), app |-> Repeating]}
    BY <1>3, AgainFact
  <2>2. r.type \in Behaviors /\ RepeatDate(r, t) \in Int /\ RepeatDate(r, t) + DayLength \in Nat
    BY ConstantsType, RepeatDateType
  <2>3. e = [type |-> r.type, date |-> RepeatDate(r, t), app |-> Repeating]
    BY <2>1
  <2>4. e.app # NoEvent.app
    BY <2>3 DEF NoEvent, Repeating
  <2> QED BY <2>2, <2>3, <2>4 DEF EventSet
<1> QED BY <1>1, <1>2, <1>3

\* A set of events, none more than a day before the first tick, has an earliest one.
LEMMA EarliestFact ==
  ASSUME NEW E, E # {}, \A e \in E : e.date \in Int /\ e.date + DayLength \in Nat
  PROVE  /\ Earliest(E, DateOf) \in E
         /\ \A f \in E : Earliest(E, DateOf).date <= f.date
<1> DEFINE D == {e.date + DayLength : e \in E}
<1>1. D \in SUBSET Nat /\ D # {}
  OBVIOUS
<1>2. PICK m \in D : \A y \in D : m <= y
  BY <1>1, MinNat
<1>3. PICK e \in E : e.date + DayLength = m
  BY <1>2
<1>4. \A f \in E : e.date <= f.date
  <2> TAKE f \in E
  <2>1. e.date + DayLength <= f.date + DayLength
    BY <1>2, <1>3
  <2>2. e.date \in Int /\ f.date \in Int /\ DayLength \in Nat
    BY ConstantsType
  <2> QED BY <2>1, <2>2
<1>5. \E x \in E : \A f \in E : DateOf(x) <= DateOf(f)
  BY <1>4 DEF DateOf
<1>6. /\ Earliest(E, DateOf) \in E
      /\ \A f \in E : DateOf(Earliest(E, DateOf)) <= DateOf(f)
  BY <1>5 DEF Earliest
<1> QED BY <1>6 DEF DateOf

LEMMA EarliestUpcomingFact ==
  ASSUME NEW s, Good(s), NEW b \in Timed, now \in Nat
  PROVE  LET all == {e \in copyMergedEventArray(s, b) : e.date >= now} \cup AgainAt(s, b, now)
             next == copyEarliestUpcoming(s, b)
         IN /\ all = {} => next = NoEvent
            /\ all # {} => /\ next \in all /\ next \in EventSet /\ next # NoEvent
                           /\ \A e \in all : next.date <= e.date
<1> DEFINE own == {e \in copyMergedEventArray(s, b) : e.date >= now}
           again == AgainAt(s, b, now)
           all == own \cup again
           first == Earliest(all, DateOf)
           next == copyEarliestUpcoming(s, b)
<1>1. \A e \in all : e \in EventSet /\ e.date \in Int /\ e.date + DayLength \in Nat
  BY CandidatesType, ConstantsType
<1>2. next = IF all = {} THEN NoEvent
             ELSE IF \E e \in again : e.date = first.date THEN CHOOSE e \in again : TRUE
             ELSE first
  BY DEF copyEarliestUpcoming, copyNextRepeatingEvent, AgainAt
<1>3. \A e, f \in again : e = f
  BY AgainFact
<1>5. \A e \in all : e # NoEvent
  <2>1. \A e \in own : e # NoEvent
    <3>1. \A e \in Wanted : e.date # NoEvent.date
      BY WantedType DEF NoEvent, NoDate
    <3>2. own \subseteq Wanted
      BY CandidatesType
    <3> QED BY <3>1, <3>2
  <2>2. \A e \in again : e # NoEvent
    BY CandidatesType
  <2> QED BY <2>1, <2>2
<1> HIDE DEF own, again, next
<1>4. ASSUME all # {}
      PROVE  next \in all /\ next \in EventSet /\ \A e \in all : next.date <= e.date
  <2>1. first \in all /\ \A f \in all : first.date <= f.date
    BY <1>1, <1>4, EarliestFact
  <2> HIDE DEF first
  <2>2. CASE \E e \in again : e.date = first.date
    <3>1. PICK e \in again : e.date = first.date
      BY <2>2
    <3>2. next = e
      BY <1>2, <1>3, <1>4, <2>2, <3>1
    <3>3. next \in all
      BY <3>1, <3>2
    <3>4. next \in EventSet
      BY <1>1, <3>3
    <3>5. next.date = first.date
      BY <3>1, <3>2
    <3> QED BY <2>1, <3>3, <3>4, <3>5
  <2>3. CASE ~(\E e \in again : e.date = first.date)
    BY <1>1, <1>2, <1>4, <2>1, <2>3
  <2> QED BY <2>2, <2>3
<1> QED BY <1>2, <1>4, <1>5 DEF own, again, next

\* Only timers, the chosen events and the date for the hardware are set; the arrays
\* and the repeating events stay.
SameEvents(r, s) ==
  /\ r.repeat = s.repeat /\ r.cnt = s.cnt
  /\ \A b \in Behaviors : r.beh[b].queue = s.beh[b].queue /\ r.beh[b].made = s.beh[b].made

LEMMA SameFuture ==
  ASSUME NEW r, NEW s, NEW b \in Timed, NEW t, SameEvents(r, s)
  PROVE  FutureAt(r, b, t) = FutureAt(s, b, t) /\ AgainAt(r, b, t) = AgainAt(s, b, t)
<1>1. copyMergedEventArray(r, b) = copyMergedEventArray(s, b)
  BY BehaviorNames DEF SameEvents, copyMergedEventArray
<1>2. AgainAt(r, b, t) = AgainAt(s, b, t)
  BY DEF SameEvents, AgainAt, RepeatOf
<1> QED BY <1>1, <1>2 DEF FutureAt

LEMMA ScheduledFact ==
  ASSUME NEW s, Good(s), NEW b \in Timed, now \in Nat \ {0}
  PROVE  LET x == Scheduled(s, b)
             h == copyEarliestUpcoming(s, b).date
         IN /\ x \in BehaviorSet /\ h \in Int
            /\ x.queue = s.beh[b].queue /\ x.made = s.beh[b].made
            /\ Ahead(s, b, now) /\ ~x.edge =>
                 \A e \in FutureAt(s, b, now) : /\ x.timer # NoDate /\ x.timer <= e.date
                                                /\ h # NoDate /\ h <= e.date
            /\ x.timer > now => \E e \in FutureAt(s, b, now) : e.date = x.timer
            /\ h > now => \E e \in FutureAt(s, b, now) : e.date = h
<1> DEFINE all == {e \in copyMergedEventArray(s, b) : e.date >= now} \cup AgainAt(s, b, now)
           next == copyEarliestUpcoming(s, b)
           y == s.beh[b]
           x == Scheduled(s, b)
           F == FutureAt(s, b, now)
<1>1. y \in BehaviorSet
  BY GoodFact, BehaviorNames
<1>2. /\ all = {} => next = NoEvent
      /\ all # {} => /\ next \in all /\ next \in EventSet /\ next # NoEvent
                     /\ \A e \in all : next.date <= e.date
  BY EarliestUpcomingFact
<1>3. \A e \in all : e.date \in Int /\ (e.date < now => e \in F)
  BY CandidatesType DEF FutureAt
<1>4. NoEvent \in EventSet /\ NoEvent.date = 0
  BY DEF NoEvent, EventSet, NoDate
<1>5. \A e \in F : e \in all
  BY CandidatesType DEF FutureAt
<1>6. \A e \in all : e.date > now => e \in F
  BY DEF FutureAt
<1>7. x = IF next = NoEvent THEN [y EXCEPT !.timer = NoDate, !.edge = FALSE]
          ELSE [y EXCEPT !.current = next,
                  !.timer = IF next.date > now THEN next.date ELSE NoDate,
                  !.edge = next.date = now]
  BY DEF Scheduled
<1> HIDE DEF all, next, y, x, F
<1>8. CASE all = {}
  <2>1. x = [y EXCEPT !.timer = NoDate, !.edge = FALSE] /\ next.date = 0 /\ F = {}
    BY <1>2, <1>4, <1>5, <1>7, <1>8
  <2>2. /\ x \in BehaviorSet /\ x.queue = y.queue /\ x.made = y.made
        /\ x.timer = 0
    BY <1>1, <2>1 DEF BehaviorSet, NoDate
  <2> QED BY <2>1, <2>2 DEF x, next, y, F
<1>9. CASE all # {}
  <2>1. next \in all /\ next \in EventSet /\ next.date \in Int
    BY <1>2, <1>3, <1>9
  <2>2. next # NoEvent
    BY <1>2, <1>9
  <2>3. CASE next.date > now
    <3>0. next.date \in Nat /\ next.date # 0
      BY <2>1, <2>3
    <3>1. x = [y EXCEPT !.current = next, !.timer = next.date, !.edge = FALSE]
      <4>1. (next.date = now) = FALSE
        BY <2>1, <2>3
      <4> QED BY <1>7, <2>2, <2>3, <4>1
    <3>2. /\ x \in BehaviorSet /\ x.queue = y.queue /\ x.made = y.made
          /\ x.timer = next.date
      BY <1>1, <2>1, <3>0, <3>1 DEF BehaviorSet
    <3>3. next \in F
      BY <1>6, <2>1, <2>3
    <3>4. \A e \in F : next.date # NoDate /\ next.date <= e.date
      BY <1>2, <1>5, <1>9, <3>0 DEF NoDate
    <3> QED BY <2>1, <3>2, <3>3, <3>4 DEF x, next, y, F
  <2>4. CASE next.date = now
    <3>1. x = [y EXCEPT !.current = next, !.timer = NoDate, !.edge = TRUE]
      <4>1. (next.date = now) = TRUE /\ ~(next.date > now)
        BY <2>1, <2>4
      <4> QED BY <1>7, <2>2, <4>1
    <3>2. /\ x \in BehaviorSet /\ x.queue = y.queue /\ x.made = y.made
          /\ x.timer = 0 /\ x.edge
      BY <1>1, <2>1, <3>1 DEF BehaviorSet, NoDate
    <3> QED BY <2>1, <2>4, <3>2 DEF x, next, y, F
  <2>5. CASE next.date < now
    <3>1. x = [y EXCEPT !.current = next, !.timer = NoDate, !.edge = FALSE]
      <4>1. (next.date = now) = FALSE /\ ~(next.date > now)
        BY <2>1, <2>5
      <4> QED BY <1>7, <2>2, <4>1
    <3>2. /\ x \in BehaviorSet /\ x.queue = y.queue /\ x.made = y.made
          /\ x.timer = 0
      BY <1>1, <2>1, <3>1 DEF BehaviorSet, NoDate
    <3>3. ~Ahead(s, b, now)
      <4>1. next \in F /\ ~(next.date > now)
        BY <1>3, <2>1, <2>5
      <4> QED BY <4>1 DEF Ahead, F
    <3> QED BY <2>1, <2>5, <3>2, <3>3 DEF x, next, y, F
  <2> QED BY <2>1, <2>3, <2>4, <2>5
<1> QED BY <1>8, <1>9

\* schedulePowerEvents leaves every behaviour it is called for armed and quiet, and
\* the others as they were.
LEMMA ScheduleFact ==
  ASSUME NEW s, Good(s), NEW S \in SUBSET Timed, now \in Nat \ {0}
  PROVE  LET r == schedulePowerEvents(s, S)
         IN /\ Good(r) /\ SameEvents(r, s)
            /\ \A b \in S : ArmedAt(r, b, now) /\ QuietAt(r, b, now)
            /\ \A b \in Behaviors \ S : r.beh[b] = s.beh[b]
            /\ "poweron" \notin S => r.hw = s.hw
<1> DEFINE r == schedulePowerEvents(s, S)
<1>1. s \in Works /\ S \subseteq Behaviors
  BY BehaviorNames DEF Good
<1>2. r = [s EXCEPT !.beh = [b \in Behaviors |-> IF b \in S THEN Scheduled(s, b) ELSE s.beh[b]],
                    !.hw = IF "poweron" \in S THEN poweronScheduleCallout(s) ELSE s.hw]
  BY DEF schedulePowerEvents
<1>3. /\ r.beh = [b \in Behaviors |-> IF b \in S THEN Scheduled(s, b) ELSE s.beh[b]]
      /\ r.hw = IF "poweron" \in S THEN copyEarliestUpcoming(s, "poweron").date ELSE s.hw
      /\ r.cnt = s.cnt /\ r.repeat = s.repeat
      /\ r = [beh |-> r.beh, cnt |-> r.cnt, repeat |-> r.repeat, hw |-> r.hw]
  BY <1>1, <1>2 DEF Works, poweronScheduleCallout
<1> HIDE DEF r
<1>4. \A b \in S : r.beh[b] = Scheduled(s, b)
  BY <1>1, <1>3
<1>5. \A b \in Behaviors \ S : r.beh[b] = s.beh[b]
  BY <1>3
<1>6. \A b \in Behaviors : /\ r.beh[b] \in BehaviorSet /\ r.beh[b].queue = s.beh[b].queue
                           /\ r.beh[b].made = s.beh[b].made
  <2> TAKE b \in Behaviors
  <2>1. CASE b \in S
    BY <1>4, <2>1, ScheduledFact
  <2>2. CASE b \notin S
    BY <1>5, <2>2, GoodFact
  <2> QED BY <2>1, <2>2
<1>7. r \in Works
  <2>1. r.beh \in [Behaviors -> BehaviorSet]
    BY <1>3, <1>6
  <2>2. r.hw \in Int
    <3>1. CASE "poweron" \in S
      <4>1. copyEarliestUpcoming(s, "poweron").date \in Int
        BY <3>1, ScheduledFact
      <4> QED BY <1>3, <3>1, <4>1
    <3>2. CASE "poweron" \notin S
      BY <1>1, <1>3, <3>2 DEF Works
    <3> QED BY <3>1, <3>2
  <2>3. r.cnt \in Int /\ r.repeat \in RepeatSet
    BY <1>1, <1>3 DEF Works
  <2> QED BY <1>3, <2>1, <2>2, <2>3 DEF Works
<1>8. Good(r) /\ SameEvents(r, s)
  BY <1>3, <1>6, <1>7 DEF Good, SameEvents
<1>9. ASSUME NEW b \in S PROVE ArmedAt(r, b, now) /\ QuietAt(r, b, now)
  <2>1. FutureAt(r, b, now) = FutureAt(s, b, now)
    BY <1>8, SameFuture
  <2>2. r.beh[b] = Scheduled(s, b)
    BY <1>4
  <2>3. b = "poweron" => r.hw = copyEarliestUpcoming(s, b).date
    BY <1>3
  <2>4. /\ Ahead(s, b, now) /\ ~r.beh[b].edge =>
              \A e \in FutureAt(r, b, now) :
                /\ r.beh[b].timer # NoDate /\ r.beh[b].timer <= e.date
                /\ copyEarliestUpcoming(s, b).date # NoDate
                /\ copyEarliestUpcoming(s, b).date <= e.date
        /\ r.beh[b].timer > now => \E e \in FutureAt(r, b, now) : e.date = r.beh[b].timer
        /\ copyEarliestUpcoming(s, b).date > now =>
              \E e \in FutureAt(r, b, now) : e.date = copyEarliestUpcoming(s, b).date
    BY <2>1, <2>2, ScheduledFact
  <2>5. Ahead(r, b, now) <=> Ahead(s, b, now)
    BY <2>1 DEF Ahead
  <2> QED BY <2>3, <2>4, <2>5 DEF ArmedAt, QuietAt
<1> QED BY <1>3, <1>5, <1>8, <1>9 DEF r

\* How far activeEventCnt is above the number of events.
Excess(s) == s.cnt - Sum(Lens(s))

\* The events of an array that are still to come.
ToCome(s, b, t) == {e \in Elements(s.beh[b].queue) : e.date > t}

\* Nothing but arrays and chosen events has changed.
SameTimers(r, s) ==
  /\ r.repeat = s.repeat /\ r.hw = s.hw
  /\ \A b \in Behaviors : r.beh[b].timer = s.beh[b].timer /\ r.beh[b].edge = s.beh[b].edge

LEMMA FutureFrame ==
  ASSUME NEW r, NEW s, NEW b \in Timed, NEW t, r.repeat = s.repeat,
         ToCome(r, b, t) = ToCome(s, b, t),
         b \in On => ToCome(r, "wakeorpoweron", t) = ToCome(s, "wakeorpoweron", t)
  PROVE  FutureAt(r, b, t) = FutureAt(s, b, t)
<1>1. \A x : {e \in copyMergedEventArray(x, b) : e.date > t} =
               ToCome(x, b, t) \cup (IF b \in On THEN ToCome(x, "wakeorpoweron", t) ELSE {})
  BY DEF copyMergedEventArray, ToCome
<1>2. AgainAt(r, b, t) = AgainAt(s, b, t)
  BY DEF AgainAt, RepeatOf
<1> QED BY <1>1, <1>2 DEF FutureAt

LEMMA TimingFrame ==
  ASSUME NEW r, NEW s, NEW b, NEW t, FutureAt(r, b, t) = FutureAt(s, b, t),
         r.beh[b].timer = s.beh[b].timer, r.beh[b].edge = s.beh[b].edge,
         b = "poweron" => r.hw = s.hw
  PROVE  /\ ArmedAt(s, b, t) => ArmedAt(r, b, t)
         /\ QuietAt(s, b, t) => QuietAt(r, b, t)
  BY DEF ArmedAt, QuietAt, Ahead

LEMMA PurgeFact ==
  ASSUME NEW s, Good(s), NEW S \in SUBSET Behaviors, NEW allowed \in BOOLEAN, now \in Nat
  PROVE  LET r == purgePastEvents(s, S, allowed)
         IN /\ Good(r) /\ SameTimers(r, s) /\ Excess(r) = Excess(s)
            /\ \A b \in Behaviors : /\ Elements(r.beh[b].queue) \subseteq Elements(s.beh[b].queue)
                                    /\ ToCome(r, b, now) = ToCome(s, b, now)
            /\ \A b \in Behaviors \ S : r.beh[b] = s.beh[b]
            /\ ~allowed => r.beh["wake"] = s.beh["wake"]
<1> DEFINE r == purgePastEvents(s, S, allowed)
           P == IF allowed THEN S ELSE S \ {"wake"}
           gone == [b \in Behaviors |-> IF b \in P THEN Before(s.beh[b].queue, now) ELSE 0]
           cut(b) == [s.beh[b] EXCEPT !.queue = Purged(s.beh[b].queue, now)]
<1>1. s \in Works /\ P \subseteq Behaviors /\ P \subseteq S
  BY DEF Good
<1>2. r = [s EXCEPT !.beh = [b \in Behaviors |-> IF b \in P THEN cut(b) ELSE s.beh[b]],
                    !.cnt = s.cnt - Sum(gone)]
  BY DEF purgePastEvents
<1>3. /\ r.beh = [b \in Behaviors |-> IF b \in P THEN cut(b) ELSE s.beh[b]]
      /\ r.cnt = s.cnt - Sum(gone)
      /\ r.hw = s.hw /\ r.repeat = s.repeat
      /\ r = [beh |-> r.beh, cnt |-> r.cnt, repeat |-> r.repeat, hw |-> r.hw]
  BY <1>1, <1>2 DEF Works
<1> HIDE DEF r, P
<1>4. ASSUME NEW b \in Behaviors, b \in P
      PROVE  /\ r.beh[b] \in BehaviorSet
             /\ r.beh[b].queue = Purged(s.beh[b].queue, now)
             /\ r.beh[b].made = s.beh[b].made
             /\ r.beh[b].timer = s.beh[b].timer /\ r.beh[b].edge = s.beh[b].edge
             /\ Purged(s.beh[b].queue, now) \in Arrays(b)
             /\ Len(Purged(s.beh[b].queue, now)) = Len(s.beh[b].queue) - gone[b]
             /\ gone[b] \in Nat
             /\ Elements(Purged(s.beh[b].queue, now)) = {e \in Elements(s.beh[b].queue) : e.date >= now}
  <2>1. s.beh[b] \in BehaviorSet /\ s.beh[b].queue \in Arrays(b)
    BY GoodFact
  <2>2. /\ Purged(s.beh[b].queue, now) \in Arrays(b)
        /\ Len(Purged(s.beh[b].queue, now)) = Len(s.beh[b].queue) - Before(s.beh[b].queue, now)
        /\ Before(s.beh[b].queue, now) \in Nat
        /\ Elements(Purged(s.beh[b].queue, now)) = {e \in Elements(s.beh[b].queue) : e.date >= now}
    BY <2>1, PurgedFact
  <2>3. gone[b] = Before(s.beh[b].queue, now)
    BY <1>4
  <2>4. r.beh[b] = cut(b)
    BY <1>3, <1>4
  <2>5. Purged(s.beh[b].queue, now) \in Seq(Wanted)
    BY <2>2, ArrayFact
  <2> HIDE DEF gone
  <2>6. /\ r.beh[b] \in BehaviorSet
        /\ r.beh[b].queue = Purged(s.beh[b].queue, now)
        /\ r.beh[b].made = s.beh[b].made
        /\ r.beh[b].timer = s.beh[b].timer /\ r.beh[b].edge = s.beh[b].edge
    BY <2>1, <2>4, <2>5 DEF BehaviorSet
  <2> QED BY <2>2, <2>3, <2>6
<1>5. ASSUME NEW b \in Behaviors, b \notin P PROVE r.beh[b] = s.beh[b] /\ gone[b] = 0
  BY <1>3, <1>5
<1>6. gone \in [Behaviors -> Nat]
  <2>1. \A b \in Behaviors : gone[b] \in Nat
    BY <1>4, <1>5
  <2> QED BY <2>1
<1> HIDE DEF gone
<1>7. \A b \in Behaviors : /\ r.beh[b] \in BehaviorSet /\ r.beh[b].queue \in Arrays(b)
                           /\ r.beh[b].made = s.beh[b].made
                           /\ r.beh[b].timer = s.beh[b].timer /\ r.beh[b].edge = s.beh[b].edge
                           /\ Len(r.beh[b].queue) = Len(s.beh[b].queue) - gone[b]
  <2> TAKE b \in Behaviors
  <2>1. CASE b \in P
    BY <1>4, <2>1
  <2>2. CASE b \notin P
    BY <1>5, <2>2, GoodFact
  <2> QED BY <2>1, <2>2
<1>8. r \in Works
  <2>1. r.beh \in [Behaviors -> BehaviorSet]
    BY <1>3, <1>7
  <2>2. r.cnt \in Int /\ r.repeat \in RepeatSet /\ r.hw \in Int
    BY <1>1, <1>3, <1>6, SumNat DEF Works
  <2> QED BY <1>3, <2>1, <2>2 DEF Works
<1>9. Good(r)
  <2>1. ASSUME NEW b \in Behaviors, ~r.beh[b].made PROVE r.beh[b].queue = <<>>
    <3>1. s.beh[b].queue = <<>> /\ s.beh[b].queue \in Seq(Wanted)
      BY <1>7, <2>1, GoodFact DEF Good
    <3>2. Len(r.beh[b].queue) = 0 - gone[b] /\ gone[b] \in Nat /\ r.beh[b].queue \in Seq(Wanted)
      BY <1>6, <1>7, <3>1, ArrayFact
    <3>3. Len(r.beh[b].queue) = 0
      BY <3>2
    <3> QED BY <3>2, <3>3, EmptySeq
  <2> QED BY <1>7, <1>8, <2>1 DEF Good
<1>10. Excess(r) = Excess(s)
  <2>1. Lens(r) \in [Behaviors -> Nat] /\ Lens(s) \in [Behaviors -> Nat]
    BY <1>9, GoodFact, BehaviorNames
  <2>2. \A b \in Behaviors : Lens(r)[b] = Lens(s)[b] - gone[b]
    BY <1>7 DEF Lens
  <2>3. Sum(Lens(r)) = Sum(Lens(s)) - Sum(gone)
    BY <1>6, <2>1, <2>2, SumMinus
  <2>4. Sum(Lens(r)) \in Nat /\ Sum(Lens(s)) \in Nat /\ Sum(gone) \in Nat /\ s.cnt \in Int
    BY <1>1, <1>6, <2>1, SumNat DEF Works
  <2> QED BY <1>3, <2>3, <2>4 DEF Excess
<1>11. \A b \in Behaviors : /\ Elements(r.beh[b].queue) \subseteq Elements(s.beh[b].queue)
                            /\ ToCome(r, b, now) = ToCome(s, b, now)
  <2> TAKE b \in Behaviors
  <2>1. CASE b \in P
    <3>1. \A e \in Elements(s.beh[b].queue) : e.date \in Nat
      BY GoodFact, WantedType
    <3>2. Elements(r.beh[b].queue) = {e \in Elements(s.beh[b].queue) : e.date >= now}
      BY <1>4, <2>1
    <3> QED BY <3>1, <3>2 DEF ToCome
  <2>2. CASE b \notin P
    BY <1>5, <2>2 DEF ToCome
  <2> QED BY <2>1, <2>2
<1>12. /\ \A b \in Behaviors \ S : r.beh[b] = s.beh[b]
       /\ ~allowed => r.beh["wake"] = s.beh["wake"]
  <2>1. ~allowed => "wake" \notin P
    BY DEF P
  <2> QED BY <1>1, <1>5, <2>1, BehaviorNames
<1>13. SameTimers(r, s)
  BY <1>3, <1>7 DEF SameTimers
<1> QED BY <1>9, <1>10, <1>11, <1>12, <1>13 DEF r

\* addEvent: the array is what a purge leaves, with the event.
LEMMA AddFact ==
  ASSUME NEW s, Good(s), NEW b \in Behaviors, NEW e \in Events(b), now \in Nat,
         purge.allowed \in BOOLEAN
  PROVE  LET r == addEvent(s, b, e)
         IN /\ Good(r) /\ SameTimers(r, s) /\ Excess(r) = Excess(s)
            /\ \A x \in Behaviors \ {b} : r.beh[x] = s.beh[x]
            /\ \E q \in Arrays(b) :
                 /\ r.beh[b].queue = Inserted(q, e)
                 /\ Elements(q) \subseteq Elements(s.beh[b].queue)
                 /\ {f \in Elements(q) : f.date > now} = ToCome(s, b, now)
                 /\ b = "wake" /\ ~purge.allowed => q = s.beh["wake"].queue
<1> DEFINE r == addEvent(s, b, e)
           p == IF s.beh[b].made THEN purgePastEvents(s, {b}, purge.allowed) ELSE s
           q == p.beh[b].queue
           new == [p.beh[b] EXCEPT !.queue = Inserted(q, e), !.made = TRUE]
<1>1. /\ Good(p) /\ SameTimers(p, s) /\ Excess(p) = Excess(s)
      /\ Elements(q) \subseteq Elements(s.beh[b].queue)
      /\ ToCome(p, b, now) = ToCome(s, b, now)
      /\ \A x \in Behaviors \ {b} : p.beh[x] = s.beh[x]
      /\ b = "wake" /\ ~purge.allowed => q = s.beh["wake"].queue
  <2>1. CASE s.beh[b].made
    <3> DEFINE z == purgePastEvents(s, {b}, purge.allowed)
    <3>1. {b} \in SUBSET Behaviors
      OBVIOUS
    <3>2. /\ Good(z) /\ SameTimers(z, s) /\ Excess(z) = Excess(s)
          /\ \A x \in Behaviors : /\ Elements(z.beh[x].queue) \subseteq Elements(s.beh[x].queue)
                                  /\ ToCome(z, x, now) = ToCome(s, x, now)
          /\ \A x \in Behaviors \ {b} : z.beh[x] = s.beh[x]
          /\ ~purge.allowed => z.beh["wake"] = s.beh["wake"]
      BY <3>1, PurgeFact
    <3>3. p = z
      BY <2>1
    <3> HIDE DEF z, p
    <3> QED BY <3>2, <3>3
  <2>2. CASE ~s.beh[b].made
    <3>1. p = s
      BY <2>2
    <3> QED BY <3>1 DEF SameTimers
  <2> QED BY <2>1, <2>2
<1>2. r = [p EXCEPT !.beh = [p.beh EXCEPT ![b] = new], !.cnt = p.cnt + 1]
  BY DEF addEvent
<1> HIDE DEF r, p
<1>3. /\ p \in Works /\ p.beh \in [Behaviors -> BehaviorSet] /\ p.beh[b] \in BehaviorSet
      /\ q \in Arrays(b) /\ p.cnt \in Int
  BY <1>1, GoodFact DEF Good, Works
<1>4. /\ r.beh = [p.beh EXCEPT ![b] = new]
      /\ r.cnt = p.cnt + 1
      /\ r.hw = p.hw /\ r.repeat = p.repeat
      /\ r = [beh |-> r.beh, cnt |-> r.cnt, repeat |-> r.repeat, hw |-> r.hw]
  BY <1>2, <1>3 DEF Works
<1>5. /\ Inserted(q, e) \in Arrays(b) /\ Len(Inserted(q, e)) = Len(q) + 1
      /\ Inserted(q, e) \in Seq(Wanted)
  <2> HIDE DEF q
  <2>1. PICK k \in 0..Len(q) : InsertedAt(b, Inserted(q, e), q, e, k)
    BY <1>3, InsertedFact
  <2>2. Inserted(q, e) \in Arrays(b) /\ Len(Inserted(q, e)) = Len(q) + 1
    BY <2>1 DEF InsertedAt
  <2> QED BY <2>2, ArrayFact
<1>6. /\ new \in BehaviorSet /\ new.queue = Inserted(q, e) /\ new.made
      /\ new.timer = p.beh[b].timer /\ new.edge = p.beh[b].edge
  BY <1>3, <1>5 DEF BehaviorSet
<1> HIDE DEF new
<1>7. /\ r.beh[b] = new
      /\ \A x \in Behaviors \ {b} : r.beh[x] = p.beh[x]
      /\ r.beh \in [Behaviors -> BehaviorSet]
  BY <1>3, <1>4, <1>6
<1>8. Good(r)
  <2>1. r \in Works
    BY <1>3, <1>4, <1>7 DEF Works
  <2>2. ASSUME NEW x \in Behaviors
        PROVE  r.beh[x].queue \in Arrays(x) /\ (r.beh[x].made \/ r.beh[x].queue = <<>>)
    <3>1. CASE x = b
      BY <1>5, <1>6, <1>7, <3>1
    <3>2. CASE x # b
      BY <1>1, <1>7, <3>2 DEF Good
    <3> QED BY <3>1, <3>2
  <2> QED BY <2>1, <2>2 DEF Good
<1>9. Excess(r) = Excess(p)
  <2>1. Lens(r) \in [Behaviors -> Nat] /\ Lens(p) \in [Behaviors -> Nat]
    BY <1>1, <1>8, GoodFact
  <2>2. Lens(r)[b] = Lens(p)[b] + 1 /\ \A x \in Behaviors \ {b} : Lens(r)[x] = Lens(p)[x]
    BY <1>5, <1>6, <1>7 DEF Lens
  <2>3. Sum(Lens(r)) = Sum(Lens(p)) + 1
    BY <2>1, <2>2, SumOne
  <2>4. Sum(Lens(p)) \in Nat
    BY <2>1, SumNat
  <2> QED BY <1>3, <1>4, <2>3, <2>4 DEF Excess
<1>10. SameTimers(r, s)
  <2>1. \A x \in Behaviors : r.beh[x].timer = p.beh[x].timer /\ r.beh[x].edge = p.beh[x].edge
    BY <1>6, <1>7
  <2> QED BY <1>1, <1>4, <2>1 DEF SameTimers
<1>11. {f \in Elements(q) : f.date > now} = ToCome(s, b, now)
  BY <1>1 DEF ToCome
<1>12. r.beh[b].queue = Inserted(q, e)
  BY <1>6, <1>7
<1> HIDE DEF q
<1>13. \E x \in Arrays(b) :
         /\ r.beh[b].queue = Inserted(x, e)
         /\ Elements(x) \subseteq Elements(s.beh[b].queue)
         /\ {f \in Elements(x) : f.date > now} = ToCome(s, b, now)
         /\ b = "wake" /\ ~purge.allowed => x = s.beh["wake"].queue
  BY <1>1, <1>3, <1>11, <1>12
<1> QED BY <1>1, <1>7, <1>8, <1>9, <1>10, <1>13 DEF r

\* removeEvent of an event that is there.
LEMMA RemoveFact ==
  ASSUME NEW s, Good(s), NEW b \in Behaviors, NEW e \in Events(b),
         First(s.beh[b].queue, e) \in 1..Len(s.beh[b].queue)
  PROVE  LET r == removeEvent(s, b, e)
         IN /\ Good(r) /\ SameTimers(r, s) /\ Excess(r) = Excess(s)
            /\ \A x \in Behaviors \ {b} : r.beh[x].queue = s.beh[x].queue
            /\ r.beh[b].queue = Removed(s.beh[b].queue, First(s.beh[b].queue, e))
<1> DEFINE r == removeEvent(s, b, e)
           q == s.beh[b].queue
           i == First(q, e)
           cut(x) == [s.beh[x] EXCEPT
                        !.queue = IF x = b THEN Removed(q, i) ELSE s.beh[x].queue,
                        !.current = IF s.beh[x].current = q[i] THEN NoEvent
                                    ELSE s.beh[x].current]
<1>1. s \in Works /\ q \in Arrays(b) /\ \A x \in Behaviors : s.beh[x] \in BehaviorSet
  BY GoodFact DEF Good
<1>2. r = [s EXCEPT !.beh = [x \in Behaviors |-> cut(x)], !.cnt = s.cnt - 1]
  BY DEF removeEvent, Unset
<1>3. /\ r.beh = [x \in Behaviors |-> cut(x)]
      /\ r.cnt = s.cnt - 1
      /\ r.hw = s.hw /\ r.repeat = s.repeat
      /\ r = [beh |-> r.beh, cnt |-> r.cnt, repeat |-> r.repeat, hw |-> r.hw]
  BY <1>1, <1>2 DEF Works
<1> HIDE DEF r
<1>4. /\ Removed(q, i) \in Arrays(b) /\ Len(Removed(q, i)) = Len(q) - 1
      /\ Removed(q, i) \in Seq(Wanted)
  BY <1>1, RemovedFact, ArrayFact
<1>5. NoEvent \in EventSet
  BY DEF NoEvent, EventSet, NoDate
<1>6. ASSUME NEW x \in Behaviors
      PROVE  /\ r.beh[x] \in BehaviorSet
             /\ r.beh[x].queue = IF x = b THEN Removed(q, i) ELSE s.beh[x].queue
             /\ r.beh[x].made = s.beh[x].made
             /\ r.beh[x].timer = s.beh[x].timer /\ r.beh[x].edge = s.beh[x].edge
  <2>1. r.beh[x] = cut(x)
    BY <1>3
  <2>2. PICK c \in EventSet : c = IF s.beh[x].current = q[i] THEN NoEvent ELSE s.beh[x].current
    BY <1>1, <1>5 DEF BehaviorSet
  <2>3. PICK z \in Seq(Wanted) : z = IF x = b THEN Removed(q, i) ELSE s.beh[x].queue
    BY <1>1, <1>4 DEF BehaviorSet
  <2>4. r.beh[x] = [s.beh[x] EXCEPT !.queue = z, !.current = c]
    BY <2>1, <2>2, <2>3
  <2> QED BY <1>1, <2>3, <2>4 DEF BehaviorSet
<1> HIDE DEF i, q, cut
<1>7. Good(r)
  <2>1. r \in Works
    <3>1. r.beh \in [Behaviors -> BehaviorSet]
      BY <1>3, <1>6
    <3>2. s.cnt \in Int /\ s.repeat \in RepeatSet /\ s.hw \in Int
      BY <1>1 DEF Works
    <3>3. r.cnt = s.cnt - 1 /\ r.repeat = s.repeat /\ r.hw = s.hw
      BY <1>3
    <3>4. r.cnt \in Int /\ r.repeat \in RepeatSet /\ r.hw \in Int
      BY <3>2, <3>3
    <3> QED BY <1>3, <3>1, <3>4 DEF Works
  <2>2. ASSUME NEW x \in Behaviors
        PROVE  r.beh[x].queue \in Arrays(x) /\ (r.beh[x].made \/ r.beh[x].queue = <<>>)
    <3>1. CASE x = b
      <4>1. s.beh[b].made
        <5>1. q # <<>>
          BY DEF q
        <5> QED BY <5>1 DEF Good, q
      <4> QED BY <1>4, <1>6, <3>1, <4>1
    <3>2. CASE x # b
      BY <1>6, <3>2 DEF Good
    <3> QED BY <3>1, <3>2
  <2> QED BY <2>1, <2>2 DEF Good
<1>8. Excess(r) = Excess(s)
  <2>1. Lens(r) \in [Behaviors -> Nat] /\ Lens(s) \in [Behaviors -> Nat]
    BY <1>7, GoodFact
  <2>2. Lens(s)[b] = Lens(r)[b] + 1 /\ \A x \in Behaviors \ {b} : Lens(s)[x] = Lens(r)[x]
    <3>1. Len(q) \in Nat /\ q = s.beh[b].queue
      BY GoodFact DEF q
    <3> QED BY <1>4, <1>6, <3>1 DEF Lens
  <2>3. Sum(Lens(s)) = Sum(Lens(r)) + 1
    BY <2>1, <2>2, SumOne
  <2>4. Sum(Lens(r)) \in Nat /\ s.cnt \in Int
    BY <1>1, <2>1, SumNat DEF Works
  <2>5. r.cnt = s.cnt - 1
    BY <1>3
  <2> QED BY <2>3, <2>4, <2>5 DEF Excess
<1>9. SameTimers(r, s)
  BY <1>3, <1>6 DEF SameTimers
<1>10. /\ \A x \in Behaviors \ {b} : r.beh[x].queue = s.beh[x].queue
       /\ r.beh[b].queue = Removed(s.beh[b].queue, First(s.beh[b].queue, e))
  BY <1>6 DEF i, q
<1> QED BY <1>7, <1>8, <1>9, <1>10 DEF r

-----------------------------------------------------------------------------
(* The invariant.  Its parts speak of a state of work, which Commit makes   *)
(* the state of powerd.                                                     *)

\* The count is exact, or too high once a removal of all events has failed.
CountOk(s, f) == Excess(s) >= 0 /\ ("all" \notin f => Excess(s) = 0)

DiskOk(d) == d \in [Behaviors -> Seq(Wanted)] /\ \A b \in Behaviors : d[b] \in Arrays(b)
DurableAt(s, d) ==
  \A b \in Behaviors : Elements(s.beh[b].queue) \subseteq Elements(d[b])

SettledAt(ph, cal, f) == ph # "asleep" /\ ~cal /\ "repeat" \notin f
TimersOk(s, t, set, f) ==
  set => /\ \A b \in Timed : ArmedAt(s, b, t)
         /\ "all" \notin f => \A b \in Timed : QuietAt(s, b, t)

\* What is due was seen since a question that prevents purging, and is still in the array
\* of wake requests.
SleepAt(s, t, ph, pu, du) ==
  /\ ph = "awake" => du = {} /\ pu.allowed
  /\ ph = "asked" /\ pu.allowed => du = {}
  /\ ph = "asked" /\ ~pu.allowed =>
       /\ pu.since \in 1..t
       /\ \A e \in du : /\ e \in Elements(s.beh["wake"].queue)
                        /\ pu.since <= getWakeScheduleTime(e) /\ getWakeScheduleTime(e) <= t
  /\ (\A x, y \in Apps : Leeway[x] = Leeway[y]) /\ ph \in {"allowed", "asleep"} => du = {}

AlarmAt(s, t, ph, alarm) ==
  ph = "asleep" /\ Ahead(s, "wake", t) =>
    \A e \in FutureAt(s, "wake", t) : alarm # NoDate /\ alarm <= getWakeScheduleTime(e)

Rest ==
  /\ now \in 1..MaxTime /\ DiskOk(disk) /\ diskRepeat \in RepeatSet
  /\ rtc \in Nat /\ calendar \in BOOLEAN
  /\ phase \in {"awake", "asked", "allowed", "cancelled", "asleep"}
  /\ purge \in [allowed : BOOLEAN, since : 0..MaxTime]
  /\ failed \subseteq {"schedule", "cancel", "all", "repeat"}

IndInv ==
  /\ Rest
  /\ Good(Now)
  /\ CountOk(Now, failed)
  /\ DurableAt(Now, disk)
  /\ TimersOk(Now, now, SettledAt(phase, calendar, failed), failed)
  /\ SleepAt(Now, now, phase, purge, due)
  /\ AlarmAt(Now, now, phase, rtc)

\* A handler's work becomes the state.
LEMMA CommitFact ==
  ASSUME NEW s, Good(s), Commit(s)
  PROVE  Now' = s
<1>1. s = [beh |-> s.beh, cnt |-> s.cnt, repeat |-> s.repeat, hw |-> s.hw]
  BY DEF Good, Works
<1>2. Now' = [beh |-> beh', cnt |-> activeEventCnt', repeat |-> repeat', hw |-> hw']
  BY DEF Now
<1> QED BY <1>1, <1>2 DEF Commit

LEMMA RestFact ==
  ASSUME Rest
  PROVE  /\ now \in Nat \ {0} /\ now <= MaxTime /\ purge.allowed \in BOOLEAN
         /\ purge = [allowed |-> purge.allowed, since |-> purge.since]
         /\ purge.since \in 0..MaxTime
  BY ConstantsType DEF Rest

\* The parts of the invariant follow the state of work.
LEMMA InvNext ==
  ASSUME NEW s, Commit(s), Good(s), Rest', CountOk(s, failed'), DurableAt(s, disk'),
         TimersOk(s, now', SettledAt(phase', calendar', failed'), failed'),
         SleepAt(s, now', phase', purge', due'), AlarmAt(s, now', phase', rtc')
  PROVE  IndInv'
<1>1. Now' = s
  BY CommitFact
<1>2. /\ Good(Now') /\ CountOk(Now', failed') /\ DurableAt(Now', disk')
      /\ TimersOk(Now', now', SettledAt(phase', calendar', failed'), failed')
      /\ SleepAt(Now', now', phase', purge', due') /\ AlarmAt(Now', now', phase', rtc')
  BY <1>1, Zenon
<1> QED BY <1>2, Zenon DEF IndInv

\* Behaviours that are not scheduled keep their timers for what follows for them.
LEMMA RescheduleFact ==
  ASSUME NEW s, NEW a, Good(a), NEW S \in SUBSET Timed, now \in Nat \ {0},
         \A b \in Timed \ S :
           /\ FutureAt(a, b, now) = FutureAt(s, b, now)
           /\ a.beh[b].timer = s.beh[b].timer /\ a.beh[b].edge = s.beh[b].edge
           /\ b = "poweron" => a.hw = s.hw
  PROVE  LET r == schedulePowerEvents(a, S)
         IN /\ Good(r) /\ SameEvents(r, a)
            /\ \A b \in Timed : ArmedAt(s, b, now) => ArmedAt(r, b, now)
            /\ \A b \in Timed : QuietAt(s, b, now) => QuietAt(r, b, now)
<1> DEFINE r == schedulePowerEvents(a, S)
<1>1. /\ Good(r) /\ SameEvents(r, a)
      /\ \A b \in S : ArmedAt(r, b, now) /\ QuietAt(r, b, now)
      /\ \A b \in Behaviors \ S : r.beh[b] = a.beh[b]
      /\ "poweron" \notin S => r.hw = a.hw
  BY ScheduleFact
<1> HIDE DEF r
<1>2. ASSUME NEW b \in Timed \ S
      PROVE  /\ ArmedAt(s, b, now) => ArmedAt(r, b, now)
             /\ QuietAt(s, b, now) => QuietAt(r, b, now)
  <2>1. FutureAt(r, b, now) = FutureAt(s, b, now)
    BY <1>1, SameFuture
  <2>2. r.beh[b] = a.beh[b]
    BY <1>1, BehaviorNames
  <2>3. /\ r.beh[b].timer = s.beh[b].timer /\ r.beh[b].edge = s.beh[b].edge
        /\ b = "poweron" => r.hw = s.hw
    BY <1>1, <2>2
  <2> QED BY <2>1, <2>3, TimingFrame
<1> QED BY <1>1, <1>2 DEF r

\* Counts, saved arrays and wake requests depend on the arrays only.
LEMMA SameEventsFact ==
  ASSUME NEW r, NEW s, Good(r), Good(s), SameEvents(r, s)
  PROVE  /\ Excess(r) = Excess(s)
         /\ \A b \in Behaviors : Elements(r.beh[b].queue) = Elements(s.beh[b].queue)
<1>1. Lens(r) = Lens(s)
  BY DEF Lens, SameEvents
<1> QED BY <1>1 DEF Excess, SameEvents

\* The behaviours an event of b is scheduled for are those whose future it is in.
LEMMA ConcernedFact ==
  ASSUME NEW b \in Behaviors
  PROVE  /\ schedulePowerEventType(b) \subseteq Timed
         /\ \A x \in Timed \ schedulePowerEventType(b) :
              x # b /\ (x \in On => b # "wakeorpoweron")
  BY BehaviorNames DEF schedulePowerEventType, On, Timed

-----------------------------------------------------------------------------
(* One lemma per action.                                                    *)

LEMMA SavesFact ==
  ASSUME Rest, NEW ok \in BOOLEAN, NEW what \in {"schedule", "cancel", "all", "repeat"},
         Saves(ok, what)
  PROVE  /\ failed' \subseteq {"schedule", "cancel", "all", "repeat"}
         /\ failed \subseteq failed'
         /\ failed' \subseteq failed \cup {what}
         /\ ok => failed' = failed
         /\ ~ok => what \in failed'
  BY DEF Saves, Rest

LEMMA ScheduledStep ==
  ASSUME IndInv, NEW b \in Behaviors, NEW e \in Events(b), ScheduleEvent(b, e, TRUE)
  PROVE  IndInv'
<1> DEFINE a == addEvent(Now, b, e)
           S == schedulePowerEventType(b)
           s == schedulePowerEvents(a, S)
<1>1. /\ Rest /\ Good(Now) /\ now \in Nat \ {0} /\ now \in Nat /\ purge.allowed \in BOOLEAN
  BY RestFact DEF IndInv
<1>2. /\ Commit(s) /\ disk' = [disk EXCEPT ![b] = a.beh[b].queue]
      /\ Saves(TRUE, "schedule") /\ phase # "asleep"
      /\ UNCHANGED <<now, diskRepeat, calendar, phase, purge, rtc, due>>
  BY DEF ScheduleEvent, Runs, pm
<1>3. failed' = failed
  BY <1>2 DEF Saves
<1>4. /\ Good(a) /\ SameTimers(a, Now) /\ Excess(a) = Excess(Now)
      /\ \A x \in Behaviors \ {b} : a.beh[x] = Now.beh[x]
      /\ \E q \in Arrays(b) :
           /\ a.beh[b].queue = Inserted(q, e)
           /\ Elements(q) \subseteq Elements(Now.beh[b].queue)
           /\ {f \in Elements(q) : f.date > now} = ToCome(Now, b, now)
           /\ b = "wake" /\ ~purge.allowed => q = Now.beh["wake"].queue
  BY <1>1, AddFact
<1>5. PICK q \in Arrays(b) :
           /\ a.beh[b].queue = Inserted(q, e)
           /\ b = "wake" /\ ~purge.allowed => q = Now.beh["wake"].queue
  BY <1>4
<1> HIDE DEF a
<1>6. /\ Good(s) /\ SameEvents(s, a)
      /\ \A x \in Timed : ArmedAt(Now, x, now) => ArmedAt(s, x, now)
      /\ \A x \in Timed : QuietAt(Now, x, now) => QuietAt(s, x, now)
  <2>1. S \in SUBSET Timed
    BY ConcernedFact
  <2>2. ASSUME NEW x \in Timed \ S
        PROVE  /\ FutureAt(a, x, now) = FutureAt(Now, x, now)
               /\ a.beh[x].timer = Now.beh[x].timer /\ a.beh[x].edge = Now.beh[x].edge
               /\ x = "poweron" => a.hw = Now.hw
    <3>1. x # b /\ (x \in On => b # "wakeorpoweron") /\ x \in Behaviors
      BY ConcernedFact, BehaviorNames
    <3>2. /\ ToCome(a, x, now) = ToCome(Now, x, now)
          /\ x \in On => ToCome(a, "wakeorpoweron", now) = ToCome(Now, "wakeorpoweron", now)
      BY <1>4, <3>1, BehaviorNames DEF ToCome
    <3>3. a.repeat = Now.repeat /\ a.hw = Now.hw
      BY <1>4 DEF SameTimers
    <3>4. FutureAt(a, x, now) = FutureAt(Now, x, now)
      BY <3>2, <3>3, FutureFrame
    <3> QED BY <1>4, <3>1, <3>3, <3>4
  <2> HIDE DEF S
  <2> QED BY <1>1, <1>4, <2>1, <2>2, RescheduleFact
<1> HIDE DEF s
<1>7. Excess(s) = Excess(a) /\ \A x \in Behaviors : Elements(s.beh[x].queue) = Elements(a.beh[x].queue)
  BY <1>4, <1>6, SameEventsFact
<1>8. CountOk(s, failed')
  BY <1>3, <1>4, <1>7 DEF IndInv, CountOk
<1>9. a.beh[b].queue \in Arrays(b) /\ a.beh[b].queue \in Seq(Wanted)
  BY <1>4, GoodFact
<1>10. DiskOk(disk')
  BY <1>1, <1>2, <1>9 DEF Rest, DiskOk
<1>11. Rest'
  BY <1>1, <1>2, <1>3, <1>10 DEF Rest
<1>12. DurableAt(s, disk')
  <2>1. ASSUME NEW x \in Behaviors PROVE Elements(s.beh[x].queue) \subseteq Elements(disk'[x])
    <3>1. disk \in [Behaviors -> Seq(Wanted)]
      BY <1>1 DEF Rest, DiskOk
    <3>2. CASE x = b
      BY <1>2, <1>7, <3>1, <3>2
    <3>3. CASE x # b
      BY <1>2, <1>4, <1>7, <3>1, <3>3 DEF IndInv, DurableAt
    <3> QED BY <3>2, <3>3
  <2> QED BY <2>1 DEF DurableAt
<1>13. TimersOk(s, now', SettledAt(phase', calendar', failed'), failed')
  BY <1>2, <1>3, <1>6 DEF IndInv, TimersOk, SettledAt
<1>14. SleepAt(s, now', phase', purge', due')
  <2>1. SleepAt(Now, now, phase, purge, due)
    BY DEF IndInv
  <2>2. ~purge.allowed => Elements(Now.beh["wake"].queue) \subseteq Elements(s.beh["wake"].queue)
    <3>1. CASE b = "wake"
      <4>1. Elements(a.beh["wake"].queue) = Elements(q) \cup {e}
        BY <1>5, <3>1, InsertedElements
      <4> QED BY <1>5, <1>7, <3>1, <4>1, BehaviorNames
    <3>2. CASE b # "wake"
      BY <1>4, <1>7, <3>2, BehaviorNames
    <3> QED BY <3>1, <3>2
  <2>3. SleepAt(s, now, phase, purge, due)
    BY <2>1, <2>2 DEF SleepAt
  <2> QED BY <1>2, <2>3
<1>15. AlarmAt(s, now', phase', rtc')
  BY <1>2 DEF AlarmAt
<1> QED BY <1>2, <1>6, <1>8, <1>11, <1>12, <1>13, <1>14, <1>15, InvNext

LEMMA RefusedStep ==
  ASSUME IndInv, NEW b \in Behaviors, NEW e \in Events(b), ScheduleEvent(b, e, FALSE)
  PROVE  IndInv'
<1> DEFINE a == addEvent(Now, b, e)
           s == removeEvent(a, b, e)
<1>1. /\ Rest /\ Good(Now) /\ now \in Nat \ {0} /\ now \in Nat /\ purge.allowed \in BOOLEAN
  BY RestFact DEF IndInv
<1>2. /\ Commit(s) /\ disk' = disk
      /\ Saves(FALSE, "schedule") /\ phase # "asleep"
      /\ UNCHANGED <<now, diskRepeat, calendar, phase, purge, rtc, due>>
  BY DEF ScheduleEvent, Runs, pm
<1>3. failed' \subseteq {"schedule", "cancel", "all", "repeat"} /\ failed \subseteq failed'
  BY <1>1, <1>2, SavesFact
<1>4. /\ Good(a) /\ SameTimers(a, Now) /\ Excess(a) = Excess(Now)
      /\ \A x \in Behaviors \ {b} : a.beh[x] = Now.beh[x]
      /\ \E q \in Arrays(b) :
           /\ a.beh[b].queue = Inserted(q, e)
           /\ Elements(q) \subseteq Elements(Now.beh[b].queue)
           /\ {f \in Elements(q) : f.date > now} = ToCome(Now, b, now)
           /\ b = "wake" /\ ~purge.allowed => q = Now.beh["wake"].queue
  BY <1>1, AddFact
<1>5. PICK q \in Arrays(b) :
           /\ a.beh[b].queue = Inserted(q, e)
           /\ Elements(q) \subseteq Elements(Now.beh[b].queue)
           /\ {f \in Elements(q) : f.date > now} = ToCome(Now, b, now)
           /\ b = "wake" /\ ~purge.allowed => q = Now.beh["wake"].queue
  BY <1>4
<1> HIDE DEF a
<1> DEFINE i == First(a.beh[b].queue, e)
<1>6. i \in 1..Len(a.beh[b].queue) /\ Elements(Removed(a.beh[b].queue, i)) = Elements(q)
  BY <1>5, AddedThenRemoved
<1>7. /\ Good(s) /\ SameTimers(s, a) /\ Excess(s) = Excess(a)
      /\ \A x \in Behaviors \ {b} : s.beh[x].queue = a.beh[x].queue
      /\ s.beh[b].queue = Removed(a.beh[b].queue, i)
  BY <1>4, <1>6, RemoveFact
<1> HIDE DEF s, i
<1>8. Elements(s.beh[b].queue) = Elements(q)
  BY <1>6, <1>7
<1>9. \A x \in Behaviors \ {b} : Elements(s.beh[x].queue) = Elements(Now.beh[x].queue)
  BY <1>4, <1>7
<1>10. \A x \in Behaviors : /\ Elements(s.beh[x].queue) \subseteq Elements(Now.beh[x].queue)
                            /\ ToCome(s, x, now) = ToCome(Now, x, now)
  <2> TAKE x \in Behaviors
  <2>1. CASE x = b
    BY <1>5, <1>8, <2>1 DEF ToCome
  <2>2. CASE x # b
    BY <1>9, <2>2 DEF ToCome
  <2> QED BY <2>1, <2>2
<1>11. SameTimers(s, Now)
  BY <1>4, <1>7 DEF SameTimers
<1>12. CountOk(s, failed')
  <2>1. CountOk(Now, failed) /\ Excess(s) = Excess(Now)
    BY <1>4, <1>7 DEF IndInv
  <2>2. "all" \notin failed' => "all" \notin failed
    BY <1>3
  <2> QED BY <2>1, <2>2 DEF CountOk
<1>13. Rest'
  BY <1>1, <1>2, <1>3 DEF Rest
<1>14. DurableAt(s, disk')
  BY <1>2, <1>10 DEF IndInv, DurableAt
<1>15. \A x \in Timed : /\ ArmedAt(Now, x, now) => ArmedAt(s, x, now)
                        /\ QuietAt(Now, x, now) => QuietAt(s, x, now)
  <2> TAKE x \in Timed
  <2>1. FutureAt(s, x, now) = FutureAt(Now, x, now)
    BY <1>10, <1>11, BehaviorNames, FutureFrame DEF SameTimers
  <2>2. /\ s.beh[x].timer = Now.beh[x].timer /\ s.beh[x].edge = Now.beh[x].edge
        /\ s.hw = Now.hw
    BY <1>11, BehaviorNames DEF SameTimers
  <2> QED BY <2>1, <2>2, TimingFrame
<1>16. TimersOk(s, now', SettledAt(phase', calendar', failed'), failed')
  <2>1. /\ SettledAt(phase', calendar', failed') => SettledAt(phase, calendar, failed)
        /\ "all" \notin failed' => "all" \notin failed
    BY <1>2, <1>3 DEF SettledAt
  <2>2. TimersOk(Now, now, SettledAt(phase, calendar, failed), failed)
    BY DEF IndInv
  <2> QED BY <1>2, <1>15, <2>1, <2>2 DEF TimersOk
<1>17. SleepAt(s, now', phase', purge', due')
  <2>1. SleepAt(Now, now, phase, purge, due)
    BY DEF IndInv
  <2>2. ~purge.allowed => Elements(Now.beh["wake"].queue) \subseteq Elements(s.beh["wake"].queue)
    BY <1>5, <1>8, <1>9, BehaviorNames
  <2>3. SleepAt(s, now, phase, purge, due)
    BY <2>1, <2>2 DEF SleepAt
  <2> QED BY <1>2, <2>3
<1>18. AlarmAt(s, now', phase', rtc')
  BY <1>2 DEF AlarmAt
<1> QED BY <1>2, <1>7, <1>12, <1>13, <1>14, <1>16, <1>17, <1>18, InvNext

LEMMA CancelStep ==
  ASSUME IndInv, NEW b \in Behaviors, NEW e \in Events(b), NEW ok \in BOOLEAN,
         CancelEvent(b, e, ok)
  PROVE  IndInv'
<1> DEFINE a == removeEvent(Now, b, e)
           S == schedulePowerEventType(b)
           s == schedulePowerEvents(a, S)
           i == First(Now.beh[b].queue, e)
<1>1. /\ Rest /\ Good(Now) /\ now \in Nat \ {0} /\ now \in Nat
  BY RestFact DEF IndInv
<1>2. /\ Commit(s) /\ disk' = IF ok THEN [disk EXCEPT ![b] = a.beh[b].queue] ELSE disk
      /\ due' = {d \in due : d \in Elements(a.beh["wake"].queue)}
      /\ Saves(ok, "cancel") /\ phase # "asleep" /\ Found(Now, b, e)
      /\ UNCHANGED <<now, diskRepeat, calendar, phase, purge, rtc>>
  BY DEF CancelEvent, Runs
<1>3. failed' \subseteq {"schedule", "cancel", "all", "repeat"} /\ failed \subseteq failed'
  BY <1>1, <1>2, SavesFact
<1>4. Now.beh[b].queue \in Arrays(b) /\ Now.beh[b].queue \in Seq(Wanted)
  BY <1>1, GoodFact
<1>5. i \in 1..Len(Now.beh[b].queue)
  <2>1. \E f \in Elements(Now.beh[b].queue) : Same(e, f)
    BY <1>2 DEF Found
  <2> QED BY <1>4, <2>1, FirstFact
<1>6. /\ Good(a) /\ SameTimers(a, Now) /\ Excess(a) = Excess(Now)
      /\ \A x \in Behaviors \ {b} : a.beh[x].queue = Now.beh[x].queue
      /\ a.beh[b].queue = Removed(Now.beh[b].queue, i)
  BY <1>1, <1>5, RemoveFact
<1> HIDE DEF a, i
<1>7. \A x \in Behaviors : Elements(a.beh[x].queue) \subseteq Elements(Now.beh[x].queue)
  <2> TAKE x \in Behaviors
  <2>1. CASE x = b
    <3> DEFINE q == Now.beh[b].queue
    <3>1. q \in Arrays(b) /\ q \in Seq(Wanted) /\ i \in 1..Len(q)
      BY <1>4, <1>5
    <3>2. a.beh[b].queue = Removed(q, i)
      BY <1>6
    <3> HIDE DEF q
    <3>3. \A y : y \in Elements(Removed(q, i)) <=> \E j \in 1..Len(q) : j # i /\ q[j] = y
      BY <3>1, RemovedFact
    <3>4. Elements(Removed(q, i)) \subseteq Elements(q)
      BY <3>1, <3>3, ElementsFact
    <3> QED BY <2>1, <3>2, <3>4 DEF q
  <2>2. CASE x # b
    BY <1>6, <2>2
  <2> QED BY <2>1, <2>2
<1>8. /\ Good(s) /\ SameEvents(s, a)
      /\ \A x \in Timed : ArmedAt(Now, x, now) => ArmedAt(s, x, now)
      /\ \A x \in Timed : QuietAt(Now, x, now) => QuietAt(s, x, now)
  <2>1. S \in SUBSET Timed
    BY ConcernedFact
  <2>2. ASSUME NEW x \in Timed \ S
        PROVE  /\ FutureAt(a, x, now) = FutureAt(Now, x, now)
               /\ a.beh[x].timer = Now.beh[x].timer /\ a.beh[x].edge = Now.beh[x].edge
               /\ x = "poweron" => a.hw = Now.hw
    <3>1. x # b /\ (x \in On => b # "wakeorpoweron") /\ x \in Behaviors
      BY ConcernedFact, BehaviorNames
    <3>2. /\ ToCome(a, x, now) = ToCome(Now, x, now)
          /\ x \in On => ToCome(a, "wakeorpoweron", now) = ToCome(Now, "wakeorpoweron", now)
      BY <1>6, <3>1, BehaviorNames DEF ToCome
    <3>3. /\ a.repeat = Now.repeat /\ a.hw = Now.hw
          /\ a.beh[x].timer = Now.beh[x].timer /\ a.beh[x].edge = Now.beh[x].edge
      BY <1>6, <3>1 DEF SameTimers
    <3>4. FutureAt(a, x, now) = FutureAt(Now, x, now)
      BY <3>2, <3>3, FutureFrame
    <3> QED BY <3>3, <3>4
  <2> HIDE DEF S
  <2> QED BY <1>1, <1>6, <2>1, <2>2, RescheduleFact
<1> HIDE DEF s
<1>9. Excess(s) = Excess(a) /\ \A x \in Behaviors : Elements(s.beh[x].queue) = Elements(a.beh[x].queue)
  BY <1>6, <1>8, SameEventsFact
<1>10. CountOk(s, failed')
  <2>1. CountOk(Now, failed) /\ Excess(s) = Excess(Now)
    BY <1>6, <1>9 DEF IndInv
  <2>2. "all" \notin failed' => "all" \notin failed
    BY <1>3
  <2> QED BY <2>1, <2>2 DEF CountOk
<1>11. a.beh[b].queue \in Arrays(b) /\ a.beh[b].queue \in Seq(Wanted)
  BY <1>6, GoodFact
<1>12. DiskOk(disk')
  BY <1>1, <1>2, <1>11 DEF Rest, DiskOk
<1>13. Rest'
  BY <1>1, <1>2, <1>3, <1>12 DEF Rest
<1>14. DurableAt(s, disk')
  <2>1. ASSUME NEW x \in Behaviors PROVE Elements(s.beh[x].queue) \subseteq Elements(disk'[x])
    <3>1. disk \in [Behaviors -> Seq(Wanted)]
      BY <1>1 DEF Rest, DiskOk
    <3>2. CASE x = b /\ ok
      BY <1>2, <1>9, <3>1, <3>2
    <3>3. CASE x # b \/ ~ok
      <4>1. disk'[x] = disk[x]
        BY <1>2, <3>1, <3>3
      <4> QED BY <1>7, <1>9, <4>1 DEF IndInv, DurableAt
    <3> QED BY <3>2, <3>3
  <2> QED BY <2>1 DEF DurableAt
<1>15. TimersOk(s, now', SettledAt(phase', calendar', failed'), failed')
  <2>1. /\ SettledAt(phase', calendar', failed') => SettledAt(phase, calendar, failed)
        /\ "all" \notin failed' => "all" \notin failed
    BY <1>2, <1>3 DEF SettledAt
  <2>2. TimersOk(Now, now, SettledAt(phase, calendar, failed), failed)
    BY DEF IndInv
  <2> QED BY <1>2, <1>8, <2>1, <2>2 DEF TimersOk
<1>16. SleepAt(s, now', phase', purge', due')
  <2>1. SleepAt(Now, now, phase, purge, due)
    BY DEF IndInv
  <2>2. due' \subseteq due /\ \A d \in due' : d \in Elements(s.beh["wake"].queue)
    BY <1>2, <1>9, BehaviorNames
  <2>3. SleepAt(s, now, phase, purge, due')
    BY <2>1, <2>2 DEF SleepAt
  <2> QED BY <1>2, <2>3
<1>17. AlarmAt(s, now', phase', rtc')
  BY <1>2 DEF AlarmAt
<1> QED BY <1>2, <1>8, <1>10, <1>13, <1>14, <1>15, <1>16, <1>17, InvNext

LEMMA EmptyArray ==
  <<>> \in Seq(Wanted) /\ \A b : <<>> \in Arrays(b)
<1>1. <<>> \in Seq(Wanted) /\ Len(<<>>) = 0
  OBVIOUS
<1>2. ASSUME NEW b PROVE <<>> \in Arrays(b)
  <2>1. \A i \in 1..Len(<<>>) : FALSE
    BY <1>1
  <2> QED BY <1>1, <2>1, ArrayFact
<1> QED BY <1>1, <1>2

LEMMA EmptiedFact ==
  ASSUME NEW s, NEW S \in SUBSET Behaviors, NEW bad \in Behaviors \cup {"none"}, Good(s)
  PROVE  LET r == Emptied(s, S, bad)
         IN /\ Good(r) /\ SameTimers(r, s) /\ r.cnt = s.cnt
            /\ \A b \in Behaviors \ S : r.beh[b] = s.beh[b]
            /\ \A b \in S : r.beh[b].queue = <<>>
<1> DEFINE r == Emptied(s, S, bad)
           cut(b) == [s.beh[b] EXCEPT !.queue = <<>>, !.made = (b = bad), !.current = NoEvent]
<1>1. s \in Works /\ \A b \in Behaviors : s.beh[b] \in BehaviorSet
  BY GoodFact DEF Good
<1>2. r = [s EXCEPT !.beh = [b \in Behaviors |-> IF b \notin S THEN s.beh[b] ELSE cut(b)]]
  BY DEF Emptied
<1>3. /\ r.beh = [b \in Behaviors |-> IF b \notin S THEN s.beh[b] ELSE cut(b)]
      /\ r.cnt = s.cnt /\ r.hw = s.hw /\ r.repeat = s.repeat
      /\ r = [beh |-> r.beh, cnt |-> r.cnt, repeat |-> r.repeat, hw |-> r.hw]
  BY <1>1, <1>2 DEF Works
<1> HIDE DEF r
<1>4. <<>> \in Seq(Wanted) /\ \A b : <<>> \in Arrays(b)
  BY EmptyArray
<1>5. ASSUME NEW b \in S
      PROVE  /\ r.beh[b] \in BehaviorSet /\ r.beh[b].queue = <<>>
             /\ r.beh[b].timer = s.beh[b].timer /\ r.beh[b].edge = s.beh[b].edge
  <2>1. r.beh[b] = cut(b) /\ s.beh[b] \in BehaviorSet
    BY <1>1, <1>3
  <2>2. NoEvent \in EventSet
    BY DEF NoEvent, EventSet, NoDate
  <2>3. PICK m \in BOOLEAN : m = (b = bad)
    OBVIOUS
  <2>4. r.beh[b] = [s.beh[b] EXCEPT !.queue = <<>>, !.made = m, !.current = NoEvent]
    BY <2>1, <2>3
  <2> QED BY <1>4, <2>1, <2>2, <2>4 DEF BehaviorSet
<1>6. \A b \in Behaviors \ S : r.beh[b] = s.beh[b]
  BY <1>3
<1> HIDE DEF cut
<1>7. \A b \in Behaviors : /\ r.beh[b] \in BehaviorSet /\ r.beh[b].timer = s.beh[b].timer
                           /\ r.beh[b].edge = s.beh[b].edge
                           /\ r.beh[b].queue \in Arrays(b)
                           /\ r.beh[b].made \/ r.beh[b].queue = <<>>
  BY <1>1, <1>4, <1>5, <1>6, GoodFact DEF Good
<1>8. Good(r)
  <2>1. r.beh \in [Behaviors -> BehaviorSet]
    BY <1>3, <1>7
  <2>2. r.cnt \in Int /\ r.repeat \in RepeatSet /\ r.hw \in Int
    BY <1>1, <1>3 DEF Works
  <2>3. r \in Works
    BY <1>3, <2>1, <2>2 DEF Works
  <2> QED BY <1>7, <2>3 DEF Good
<1>9. SameTimers(r, s)
  BY <1>3, <1>7 DEF SameTimers
<1> QED BY <1>3, <1>5, <1>6, <1>8, <1>9 DEF r

LEMMA EmptiedQueue ==
  ASSUME NEW s, Good(s), NEW S \in SUBSET Behaviors, NEW bad \in Behaviors \cup {"none"},
         NEW b \in S
  PROVE  Emptied(s, S, bad).beh[b].queue = <<>>
<1>1. /\ \A x \in Behaviors \ S : Emptied(s, S, bad).beh[x] = s.beh[x]
      /\ \A x \in S : Emptied(s, S, bad).beh[x].queue = <<>>
  BY EmptiedFact
<1> QED BY <1>1

\* Fewer events to come leave a behaviour armed.
LEMMA ArmedShrinks ==
  ASSUME NEW r, NEW s, NEW b, NEW t, FutureAt(r, b, t) \subseteq FutureAt(s, b, t),
         Ahead(r, b, t) => Ahead(s, b, t),
         r.beh[b].timer = s.beh[b].timer, r.beh[b].edge = s.beh[b].edge, r.hw = s.hw,
         ArmedAt(s, b, t)
  PROVE  ArmedAt(r, b, t)
  BY DEF ArmedAt

LEMMA FutureShrinks ==
  ASSUME NEW r, NEW s, NEW b \in Timed, NEW t, r.repeat = s.repeat,
         \A x \in Behaviors : Elements(r.beh[x].queue) \subseteq Elements(s.beh[x].queue)
  PROVE  /\ FutureAt(r, b, t) \subseteq FutureAt(s, b, t)
         /\ Ahead(r, b, t) => Ahead(s, b, t)
<1>1. copyMergedEventArray(r, b) \subseteq copyMergedEventArray(s, b)
  BY BehaviorNames DEF copyMergedEventArray
<1>2. AgainAt(r, b, t) = AgainAt(s, b, t)
  BY DEF AgainAt, RepeatOf
<1>3. \A x : Ahead(x, b, t) <=> \A e \in AgainAt(x, b, t) : e.date > t
  BY DEF Ahead, FutureAt
<1> QED BY <1>1, <1>2, <1>3 DEF FutureAt

\* The arrays reached are emptied, those of them that were saved are scheduled.
LEMMA RemovedAll ==
  ASSUME NEW n, Good(n), now \in Nat \ {0}, NEW R \in SUBSET Behaviors,
         NEW bad \in Behaviors \cup {"none"}
  PROVE  LET D == R \ {bad}
             own == schedulePowerEvents(Emptied(n, R \cap Timed, bad), D \cap Timed)
             both == Emptied(own, R \ Timed, bad)
             all == IF "wakeorpoweron" \in D THEN schedulePowerEvents(both, On) ELSE both
         IN /\ Good(all) /\ all.cnt = n.cnt /\ all.repeat = n.repeat
            /\ \A b \in R : all.beh[b].queue = <<>>
            /\ \A b \in Behaviors \ R : all.beh[b].queue = n.beh[b].queue
            /\ \A b \in Timed : ArmedAt(n, b, now) => ArmedAt(all, b, now)
            /\ bad \notin R => \A b \in Timed : QuietAt(n, b, now) => QuietAt(all, b, now)
<1> DEFINE D == R \ {bad}
           e1 == Emptied(n, R \cap Timed, bad)
           own == schedulePowerEvents(e1, D \cap Timed)
           both == Emptied(own, R \ Timed, bad)
           all == IF "wakeorpoweron" \in D THEN schedulePowerEvents(both, On) ELSE both
<1>0. \A b \in Behaviors : b \in R \ Timed <=> b = "wakeorpoweron" /\ "wakeorpoweron" \in R
  BY DEF Timed
<1>1. /\ Good(e1) /\ SameTimers(e1, n) /\ e1.cnt = n.cnt
      /\ \A b \in Behaviors \ (R \cap Timed) : e1.beh[b] = n.beh[b]
      /\ \A b \in R \cap Timed : e1.beh[b].queue = <<>>
  <2>1. PICK T \in SUBSET Behaviors : T = R \cap Timed
    OBVIOUS
  <2>2. e1 = Emptied(n, T, bad)
    BY <2>1
  <2> HIDE DEF e1, own, both, all, D
  <2>3. Good(e1) /\ SameTimers(e1, n) /\ e1.cnt = n.cnt
    BY <2>2, EmptiedFact
  <2>4. \A b \in Behaviors \ T : e1.beh[b] = n.beh[b]
    BY <2>2, EmptiedFact
  <2>6. \A b \in T : e1.beh[b].queue = <<>>
    <3> TAKE b \in T
    <3>1. Emptied(n, T, bad).beh[b].queue = <<>>
      BY EmptiedQueue
    <3> QED BY <2>2, <3>1
  <2> QED BY <2>1, <2>3, <2>4, <2>6
<1> HIDE DEF e1
<1>2. /\ Good(own) /\ SameEvents(own, e1)
      /\ \A b \in D \cap Timed : ArmedAt(own, b, now) /\ QuietAt(own, b, now)
      /\ \A b \in Behaviors \ (D \cap Timed) : own.beh[b] = e1.beh[b]
      /\ "poweron" \notin D \cap Timed => own.hw = e1.hw
  <2>1. D \cap Timed \in SUBSET Timed
    OBVIOUS
  <2> QED BY <1>1, <2>1, ScheduleFact
<1> HIDE DEF own
<1>3. /\ Good(both) /\ SameTimers(both, own) /\ both.cnt = own.cnt
      /\ \A b \in Behaviors \ (R \ Timed) : both.beh[b] = own.beh[b]
      /\ \A b \in R \ Timed : both.beh[b].queue = <<>>
  <2>1. PICK T \in SUBSET Behaviors : T = R \ Timed
    OBVIOUS
  <2>2. both = Emptied(own, T, bad)
    BY <2>1
  <2> HIDE DEF both
  <2>3. /\ Good(both) /\ SameTimers(both, own) /\ both.cnt = own.cnt
        /\ \A b \in Behaviors \ T : both.beh[b] = own.beh[b]
        /\ \A b \in T : both.beh[b].queue = <<>>
    BY <1>2, <2>2, EmptiedFact
  <2> QED BY <2>1, <2>3
<1> HIDE DEF both
<1>4. /\ both.cnt = n.cnt /\ both.repeat = n.repeat
      /\ \A b \in R : both.beh[b].queue = <<>>
      /\ \A b \in Behaviors \ R : both.beh[b].queue = n.beh[b].queue
  <2>1. both.cnt = n.cnt /\ both.repeat = n.repeat
    BY <1>1, <1>2, <1>3 DEF SameTimers, SameEvents
  <2>2. ASSUME NEW b \in Behaviors \ R PROVE both.beh[b].queue = n.beh[b].queue
    BY <1>1, <1>2, <1>3 DEF SameEvents
  <2>3. ASSUME NEW b \in R PROVE both.beh[b].queue = <<>>
    <3>1. CASE b \in Timed
      BY <1>1, <1>2, <1>3, <3>1 DEF SameEvents
    <3>2. CASE b \notin Timed
      BY <1>3, <3>2
    <3> QED BY <3>1, <3>2
  <2> QED BY <2>1, <2>2, <2>3
<1>5. Elements(<<>>) = {}
  BY DEF Elements
<1>6. \A x \in Behaviors : /\ Elements(both.beh[x].queue) \subseteq Elements(own.beh[x].queue)
                           /\ Elements(both.beh[x].queue) \subseteq Elements(n.beh[x].queue)
  BY <1>3, <1>4, <1>5
<1>7. ASSUME NEW b \in Timed, b \in D
      PROVE  /\ ArmedAt(both, b, now)
             /\ b \notin On \/ "wakeorpoweron" \notin R => QuietAt(both, b, now)
  <2>1. /\ both.beh[b].timer = own.beh[b].timer /\ both.beh[b].edge = own.beh[b].edge
        /\ both.hw = own.hw /\ both.repeat = own.repeat
    BY <1>3, BehaviorNames DEF SameTimers
  <2>2. /\ FutureAt(both, b, now) \subseteq FutureAt(own, b, now)
        /\ Ahead(both, b, now) => Ahead(own, b, now)
    BY <1>6, <2>1, FutureShrinks
  <2>3. ArmedAt(both, b, now)
    BY <1>2, <1>7, <2>1, <2>2, ArmedShrinks
  <2>4. ASSUME b \notin On \/ "wakeorpoweron" \notin R PROVE QuietAt(both, b, now)
    <3>1. both.beh[b].queue = own.beh[b].queue
      BY <1>3, BehaviorNames
    <3>2. b \in On => both.beh["wakeorpoweron"].queue = own.beh["wakeorpoweron"].queue
      BY <1>3, <2>4, BehaviorNames
    <3>3. FutureAt(both, b, now) = FutureAt(own, b, now)
      BY <2>1, <3>1, <3>2, FutureFrame DEF ToCome
    <3> QED BY <1>2, <1>7, <2>1, <3>3, TimingFrame
  <2> QED BY <2>3, <2>4
<1>8. ASSUME NEW b \in Timed, b \notin D
      PROVE  /\ ArmedAt(n, b, now) => ArmedAt(both, b, now)
             /\ b \notin R /\ (b \notin On \/ "wakeorpoweron" \notin R) =>
                  (QuietAt(n, b, now) => QuietAt(both, b, now))
  <2>1. both.beh[b].timer = n.beh[b].timer /\ both.beh[b].edge = n.beh[b].edge
    BY <1>1, <1>2, <1>3, <1>8, BehaviorNames DEF SameTimers
  <2>2. b = "poweron" => both.hw = n.hw
    BY <1>1, <1>2, <1>3, <1>8 DEF SameTimers
  <2>3. /\ FutureAt(both, b, now) \subseteq FutureAt(n, b, now)
        /\ Ahead(both, b, now) => Ahead(n, b, now)
    BY <1>4, <1>6, FutureShrinks
  <2>4. ArmedAt(n, b, now) => ArmedAt(both, b, now)
    BY <2>1, <2>2, <2>3 DEF ArmedAt
  <2>5. ASSUME b \notin R, b \notin On \/ "wakeorpoweron" \notin R
        PROVE  QuietAt(n, b, now) => QuietAt(both, b, now)
    <3>1. both.beh[b].queue = n.beh[b].queue
      BY <1>4, <2>5, BehaviorNames
    <3>2. b \in On => both.beh["wakeorpoweron"].queue = n.beh["wakeorpoweron"].queue
      BY <1>4, <2>5, BehaviorNames
    <3>3. FutureAt(both, b, now) = FutureAt(n, b, now)
      BY <1>4, <3>1, <3>2, FutureFrame DEF ToCome
    <3> QED BY <2>1, <2>2, <3>3, TimingFrame
  <2> QED BY <2>4, <2>5
<1>9. CASE "wakeorpoweron" \in D
  <2>1. all = schedulePowerEvents(both, On)
    BY <1>9
  <2>2. /\ Good(all) /\ SameEvents(all, both)
        /\ \A b \in On : ArmedAt(all, b, now) /\ QuietAt(all, b, now)
        /\ \A b \in Behaviors \ On : all.beh[b] = both.beh[b]
        /\ "poweron" \notin On => all.hw = both.hw
    BY <1>3, <2>1, BehaviorNames, ScheduleFact
  <2> HIDE DEF all
  <2>3. ASSUME NEW b \in Timed \ On
        PROVE  /\ ArmedAt(both, b, now) => ArmedAt(all, b, now)
               /\ QuietAt(both, b, now) => QuietAt(all, b, now)
    <3>1. FutureAt(all, b, now) = FutureAt(both, b, now)
      BY <2>2, SameFuture
    <3>2. all.beh[b] = both.beh[b] /\ b # "poweron"
      BY <2>2, BehaviorNames DEF On
    <3> QED BY <3>1, <3>2, TimingFrame
  <2>4. \A b \in Timed : ArmedAt(n, b, now) => ArmedAt(all, b, now)
    BY <1>7, <1>8, <2>2, <2>3
  <2>5. bad \notin R => \A b \in Timed : QuietAt(n, b, now) => QuietAt(all, b, now)
    BY <1>7, <1>8, <2>2, <2>3
  <2>6. /\ all.cnt = n.cnt /\ all.repeat = n.repeat
        /\ \A b \in R : all.beh[b].queue = <<>>
        /\ \A b \in Behaviors \ R : all.beh[b].queue = n.beh[b].queue
    BY <1>4, <2>2 DEF SameEvents
  <2> QED BY <2>2, <2>4, <2>5, <2>6 DEF all, both, own, e1
<1>10. CASE "wakeorpoweron" \notin D
  <2>1. all = both
    BY <1>10
  <2> HIDE DEF all
  <2>2. \A b \in Timed : ArmedAt(n, b, now) => ArmedAt(all, b, now)
    BY <1>7, <1>8, <2>1
  <2>3. bad \notin R => \A b \in Timed : QuietAt(n, b, now) => QuietAt(all, b, now)
    BY <1>7, <1>8, <1>10, <2>1
  <2> QED BY <1>3, <1>4, <2>1, <2>2, <2>3 DEF all, both, own, e1
<1> QED BY <1>9, <1>10

\* Only the count is different.
LEMMA Counted ==
  ASSUME NEW a, Good(a), NEW c \in Int
  PROVE  LET s == [a EXCEPT !.cnt = c]
         IN /\ Good(s) /\ s.cnt = c /\ s.beh = a.beh /\ s.repeat = a.repeat
            /\ \A b, t : /\ ArmedAt(a, b, t) => ArmedAt(s, b, t)
                         /\ QuietAt(a, b, t) => QuietAt(s, b, t)
<1> DEFINE s == [a EXCEPT !.cnt = c]
<1>1. /\ s.cnt = c /\ s.beh = a.beh /\ s.repeat = a.repeat /\ s.hw = a.hw /\ s \in Works
  BY DEF Good, Works
<1> HIDE DEF s
<1>2. Good(s)
  BY <1>1 DEF Good
<1>3. ASSUME NEW b, NEW t
      PROVE  /\ ArmedAt(a, b, t) => ArmedAt(s, b, t)
             /\ QuietAt(a, b, t) => QuietAt(s, b, t)
  <2>1. FutureAt(s, b, t) = FutureAt(a, b, t)
    BY <1>1 DEF FutureAt, AgainAt, RepeatOf, copyMergedEventArray
  <2> QED BY <1>1, <2>1, TimingFrame
<1> QED BY <1>1, <1>2, <1>3 DEF s

\* The empty arrays hold no event, and the count is no lower than before.
LEMMA EmptyCounts ==
  ASSUME NEW n, Good(n), NEW a, Good(a), NEW R \in SUBSET Behaviors,
         \A b \in R : a.beh[b].queue = <<>>,
         \A b \in Behaviors \ R : a.beh[b].queue = n.beh[b].queue
  PROVE  /\ Sum(Lens(a)) \in Nat /\ Sum(Lens(n)) \in Nat /\ Sum(Lens(a)) <= Sum(Lens(n))
         /\ (\A b \in Behaviors \ R : n.beh[b].queue = <<>>) => Sum(Lens(a)) = 0
         /\ \A b \in Behaviors : Elements(a.beh[b].queue) \subseteq Elements(n.beh[b].queue)
         /\ \A b \in R : Elements(a.beh[b].queue) = {}
<1>1. Lens(a) \in [Behaviors -> Nat] /\ Lens(n) \in [Behaviors -> Nat]
  BY GoodFact, BehaviorNames
<1>2. Len(<<>>) = 0 /\ Elements(<<>>) = {}
  BY DEF Elements
<1>3. \A b \in R : Lens(a)[b] = 0 /\ Elements(a.beh[b].queue) = {}
  BY <1>2 DEF Lens
<1>4. \A b \in Behaviors \ R : Lens(a)[b] = Lens(n)[b]
  BY DEF Lens
<1>5. \A b \in Behaviors : Lens(a)[b] <= Lens(n)[b]
  BY <1>1, <1>3, <1>4
<1>6. Sum(Lens(a)) \in Nat /\ Sum(Lens(n)) \in Nat /\ Sum(Lens(a)) <= Sum(Lens(n))
  BY <1>1, <1>5, SumNat, SumLe
<1>7. ASSUME \A b \in Behaviors \ R : n.beh[b].queue = <<>> PROVE Sum(Lens(a)) = 0
  <2>1. \A b \in Behaviors \ R : Lens(a)[b] = 0
    BY <1>2, <1>7 DEF Lens
  <2>2. \A b \in Behaviors : Lens(a)[b] = 0
    BY <1>3, <2>1
  <2> QED BY <1>1, <2>2, SumZero
<1> QED BY <1>3, <1>6, <1>7

LEMMA RemoveAllStep ==
  ASSUME IndInv, NEW bad \in Behaviors \cup {"none"}, removeAllEvents(bad)
  PROVE  IndInv'
<1> DEFINE arrays == {b \in Behaviors : beh[b].made}
           R == {b \in arrays : bad = "none" \/ Pos(b) <= Pos(bad)}
           D == R \ {bad}
           own == schedulePowerEvents(Emptied(Now, R \cap Timed, bad), D \cap Timed)
           both == Emptied(own, R \ Timed, bad)
           all == IF "wakeorpoweron" \in D THEN schedulePowerEvents(both, On) ELSE both
           s == IF bad = "none" THEN [all EXCEPT !.cnt = 0] ELSE all
<1>1. /\ Rest /\ Good(Now) /\ now \in Nat \ {0}
  BY RestFact DEF IndInv
<1>2. /\ Commit(s) /\ disk' = [b \in Behaviors |-> IF b \in D THEN <<>> ELSE disk[b]]
      /\ Saves(bad = "none", "all") /\ due' = IF "wake" \in R THEN {} ELSE due
      /\ phase # "asleep"
      /\ bad \in arrays \cup {"none"}
      /\ UNCHANGED <<now, diskRepeat, calendar, phase, purge, rtc>>
  BY DEF removeAllEvents, Runs
<1>3. /\ failed' \subseteq {"schedule", "cancel", "all", "repeat"} /\ failed \subseteq failed'
      /\ bad # "none" => "all" \in failed'
  <2>1. PICK ok \in BOOLEAN : ok = (bad = "none")
    OBVIOUS
  <2>2. Saves(ok, "all") /\ (bad # "none" => ~ok)
    BY <1>2, <2>1
  <2> QED BY <1>1, <2>2, SavesFact
<1>4. R \in SUBSET Behaviors /\ \A b \in Behaviors \ R : bad = "none" => Now.beh[b].queue = <<>>
  <2>1. \A b \in Behaviors \ R : bad = "none" => ~beh[b].made
    OBVIOUS
  <2>2. \A b \in Behaviors : Now.beh[b] = beh[b]
    BY DEF Now
  <2> HIDE DEF R
  <2>3. \A b \in Behaviors \ R : bad = "none" => Now.beh[b].queue = <<>>
    BY <1>1, <2>1, <2>2 DEF Good
  <2> QED BY <2>3 DEF R
<1>5. bad = "none" => bad \notin R
  BY BehaviorNames
<1>6. /\ Good(all) /\ all.cnt = Now.cnt /\ all.repeat = Now.repeat
      /\ \A b \in R : all.beh[b].queue = <<>>
      /\ \A b \in Behaviors \ R : all.beh[b].queue = Now.beh[b].queue
      /\ \A b \in Timed : ArmedAt(Now, b, now) => ArmedAt(all, b, now)
      /\ bad \notin R => \A b \in Timed : QuietAt(Now, b, now) => QuietAt(all, b, now)
  <2> HIDE DEF R
  <2> QED BY <1>1, <1>4, RemovedAll
<1> HIDE DEF all, R, own, both
<1>7. /\ Good(s) /\ s.beh = all.beh
      /\ \A b, t : /\ ArmedAt(all, b, t) => ArmedAt(s, b, t)
                   /\ QuietAt(all, b, t) => QuietAt(s, b, t)
      /\ bad = "none" => s.cnt = 0
      /\ bad # "none" => s.cnt = Now.cnt
  <2>1. CASE bad = "none"
    <3>1. s = [all EXCEPT !.cnt = 0] /\ 0 \in Int
      BY <2>1
    <3> QED BY <1>6, <2>1, <3>1, Counted
  <2>2. CASE bad # "none"
    BY <1>6, <2>2
  <2> QED BY <2>1, <2>2
<1> HIDE DEF s
<1>8. /\ Sum(Lens(s)) \in Nat /\ Sum(Lens(Now)) \in Nat /\ Sum(Lens(s)) <= Sum(Lens(Now))
      /\ (\A b \in Behaviors \ R : Now.beh[b].queue = <<>>) => Sum(Lens(s)) = 0
      /\ \A b \in Behaviors : Elements(s.beh[b].queue) \subseteq Elements(Now.beh[b].queue)
      /\ \A b \in R : Elements(s.beh[b].queue) = {}
  <2>1. /\ \A b \in R : s.beh[b].queue = <<>>
        /\ \A b \in Behaviors \ R : s.beh[b].queue = Now.beh[b].queue
    BY <1>6, <1>7
  <2>2. R \in SUBSET Behaviors /\ Good(Now) /\ Good(s)
    BY <1>1, <1>4, <1>7
  <2> QED BY <2>1, <2>2, EmptyCounts, Zenon
<1>9. CountOk(s, failed')
  <2>1. CASE bad = "none"
    <3>1. Sum(Lens(s)) = 0 /\ s.cnt = 0
      BY <1>4, <1>7, <1>8, <2>1
    <3> QED BY <3>1 DEF CountOk, Excess
  <2>2. CASE bad # "none"
    <3>1. s.cnt = Now.cnt /\ Now.cnt \in Int /\ "all" \in failed'
      BY <1>1, <1>3, <1>7, <2>2 DEF Good, Works
    <3>2. Now.cnt - Sum(Lens(Now)) >= 0
      BY DEF IndInv, CountOk, Excess
    <3>3. s.cnt - Sum(Lens(s)) >= 0
      BY <1>8, <3>1, <3>2
    <3> QED BY <3>1, <3>3 DEF CountOk, Excess
  <2> QED BY <2>1, <2>2
<1>10. <<>> \in Seq(Wanted) /\ \A b : <<>> \in Arrays(b)
  BY EmptyArray
<1>11. DiskOk(disk')
  BY <1>1, <1>2, <1>10 DEF Rest, DiskOk
<1>12. Rest'
  BY <1>1, <1>2, <1>3, <1>11 DEF Rest
<1>13. DurableAt(s, disk')
  <2>1. ASSUME NEW x \in Behaviors PROVE Elements(s.beh[x].queue) \subseteq Elements(disk'[x])
    <3>1. CASE x \in D
      BY <1>8, <3>1
    <3>2. CASE x \notin D
      <4>1. disk'[x] = disk[x]
        BY <1>2, <3>2
      <4> QED BY <1>8, <4>1 DEF IndInv, DurableAt
    <3> QED BY <3>1, <3>2
  <2> QED BY <2>1 DEF DurableAt
<1>14. TimersOk(s, now', SettledAt(phase', calendar', failed'), failed')
  <2>1. /\ SettledAt(phase', calendar', failed') => SettledAt(phase, calendar, failed)
        /\ "all" \notin failed' => "all" \notin failed /\ bad \notin R
    BY <1>2, <1>3, <1>5 DEF SettledAt
  <2>2. TimersOk(Now, now, SettledAt(phase, calendar, failed), failed)
    BY DEF IndInv
  <2> QED BY <1>2, <1>6, <1>7, <2>1, <2>2 DEF TimersOk
<1>15. SleepAt(s, now', phase', purge', due')
  <2>1. SleepAt(Now, now, phase, purge, due)
    BY DEF IndInv
  <2>2. due' = {} \/ (due' = due /\ s.beh["wake"].queue = Now.beh["wake"].queue)
    BY <1>2, <1>6, <1>7, BehaviorNames
  <2>3. SleepAt(s, now, phase, purge, due')
    BY <2>1, <2>2 DEF SleepAt
  <2> QED BY <1>2, <2>3
<1>16. AlarmAt(s, now', phase', rtc')
  BY <1>2 DEF AlarmAt
<1> QED BY <1>2, <1>7, <1>9, <1>12, <1>13, <1>14, <1>15, <1>16, InvNext

\* A behaviour that none of the types concerns has no repeating event of them.
LEMMA NotRepeated ==
  ASSUME NEW s, NEW b \in Timed, NEW t, NEW types,
         s.repeat.off.type \in types, s.repeat.on.type \in types,
         b \notin UNION {schedulePowerEventType(x) : x \in types}
  PROVE  AgainAt(s, b, t) = {}
<1> DEFINE r == IF b \in Off THEN s.repeat.off ELSE s.repeat.on
<1>1. r.type \in types
  OBVIOUS
<1>2. RepeatOf(s, b) =
        {x \in {r} : x # NoRepeat /\ (x.type = b \/ (x.type = "wakeorpoweron" /\ b \in On))}
  BY DEF RepeatOf
<1> HIDE DEF r
<1>3. b \notin schedulePowerEventType(r.type)
  BY <1>1
<1>4. r.type # b /\ ~(r.type = "wakeorpoweron" /\ b \in On)
  BY <1>3 DEF schedulePowerEventType, Timed
<1>5. RepeatOf(s, b) = {}
  BY <1>2, <1>4
<1> QED BY <1>5 DEF AgainAt

LEMMA ReplaceStep ==
  ASSUME IndInv, NEW new \in RepeatSet, NEW ok \in BOOLEAN, Replace(new, ok)
  PROVE  IndInv'
<1> DEFINE a == [Now EXCEPT !.repeat = new]
           types == {r.type : r \in {repeat.off, repeat.on, new.off, new.on}}
           U == UNION {schedulePowerEventType(t) : t \in types}
           s == IF ok THEN schedulePowerEvents(a, U) ELSE a
<1>1. /\ Rest /\ Good(Now) /\ now \in Nat \ {0}
  BY RestFact DEF IndInv
<1>2. /\ Commit(s) /\ diskRepeat' = (IF ok THEN repeat' ELSE diskRepeat)
      /\ Saves(ok, "repeat") /\ phase # "asleep"
      /\ UNCHANGED <<now, disk, calendar, phase, purge, rtc, due>>
  BY DEF Replace, Runs, pm, updateRepeatEventsOnDisk
<1>3. /\ failed' \subseteq {"schedule", "cancel", "all", "repeat"} /\ failed \subseteq failed'
      /\ failed' \subseteq failed \cup {"repeat"}
      /\ ok => failed' = failed
      /\ ~ok => "repeat" \in failed'
  BY <1>1, <1>2, SavesFact
<1>4. /\ a.repeat = new /\ a.beh = Now.beh /\ a.hw = Now.hw /\ a.cnt = Now.cnt /\ a \in Works
  BY <1>1 DEF Good, Works
<1>5. Now.repeat = repeat
  BY DEF Now
<1>6. /\ a.repeat.off.type \in types /\ a.repeat.on.type \in types
      /\ Now.repeat.off.type \in types /\ Now.repeat.on.type \in types
  BY <1>4, <1>5
<1> HIDE DEF a, types
<1>7. Good(a)
  BY <1>1, <1>4 DEF Good
<1>8. U \in SUBSET Timed
  <2>1. \A t : schedulePowerEventType(t) \subseteq Timed
    BY BehaviorNames DEF schedulePowerEventType
  <2> QED BY <2>1
<1>9. ASSUME NEW x \in Timed \ U
      PROVE  /\ FutureAt(a, x, now) = FutureAt(Now, x, now)
             /\ a.beh[x].timer = Now.beh[x].timer /\ a.beh[x].edge = Now.beh[x].edge
             /\ x = "poweron" => a.hw = Now.hw
  <2>1. AgainAt(a, x, now) = {} /\ AgainAt(Now, x, now) = {}
    BY <1>6, NotRepeated
  <2>2. copyMergedEventArray(a, x) = copyMergedEventArray(Now, x)
    BY <1>4 DEF copyMergedEventArray
  <2> QED BY <1>4, <2>1, <2>2 DEF FutureAt
<1> HIDE DEF U
<1>10. /\ Good(s) /\ SameEvents(s, a)
       /\ ok => /\ \A x \in Timed : ArmedAt(Now, x, now) => ArmedAt(s, x, now)
                /\ \A x \in Timed : QuietAt(Now, x, now) => QuietAt(s, x, now)
  <2>1. CASE ok
    <3>1. s = schedulePowerEvents(a, U)
      BY <2>1
    <3> HIDE DEF s
    <3>2. \A b \in Timed \ U :
            /\ FutureAt(a, b, now) = FutureAt(Now, b, now)
            /\ a.beh[b].timer = Now.beh[b].timer /\ a.beh[b].edge = Now.beh[b].edge
            /\ b = "poweron" => a.hw = Now.hw
      BY <1>9
    <3>3. LET r == schedulePowerEvents(a, U)
          IN /\ Good(r) /\ SameEvents(r, a)
             /\ \A b \in Timed : ArmedAt(Now, b, now) => ArmedAt(r, b, now)
             /\ \A b \in Timed : QuietAt(Now, b, now) => QuietAt(r, b, now)
      BY <1>1, <1>7, <1>8, <3>2, RescheduleFact
    <3> QED BY <3>1, <3>3
  <2>2. CASE ~ok
    BY <1>7, <2>2 DEF SameEvents
  <2> QED BY <2>1, <2>2
<1> HIDE DEF s
<1>11. /\ Excess(s) = Excess(Now)
       /\ \A b \in Behaviors : Elements(s.beh[b].queue) = Elements(Now.beh[b].queue)
  <2>1. /\ Excess(s) = Excess(a)
        /\ \A b \in Behaviors : Elements(s.beh[b].queue) = Elements(a.beh[b].queue)
    BY <1>7, <1>10, SameEventsFact
  <2>2. Excess(a) = Excess(Now)
    BY <1>4 DEF Excess, Lens
  <2> QED BY <1>4, <2>1, <2>2
<1>12. CountOk(s, failed')
  <2>1. "all" \notin failed' => "all" \notin failed
    BY <1>3
  <2> QED BY <1>11, <2>1 DEF IndInv, CountOk
<1>13. Rest'
  <2>1. repeat' = new
    BY <1>2, <1>4, <1>10 DEF Commit, SameEvents
  <2> QED BY <1>1, <1>2, <1>3, <2>1 DEF Rest
<1>14. DurableAt(s, disk')
  BY <1>2, <1>11 DEF IndInv, DurableAt
<1>15. TimersOk(s, now', SettledAt(phase', calendar', failed'), failed')
  <2>1. CASE ok
    BY <1>2, <1>3, <1>10, <2>1 DEF IndInv, TimersOk, SettledAt
  <2>2. CASE ~ok
    BY <1>3, <2>2 DEF TimersOk, SettledAt
  <2> QED BY <2>1, <2>2
<1>16. SleepAt(s, now', phase', purge', due')
  <2>1. SleepAt(Now, now, phase, purge, due)
    BY DEF IndInv
  <2>2. SleepAt(s, now, phase, purge, due)
    BY <1>11, <2>1, BehaviorNames DEF SleepAt
  <2> QED BY <1>2, <2>2
<1>17. AlarmAt(s, now', phase', rtc')
  BY <1>2 DEF AlarmAt
<1> QED BY <1>2, <1>10, <1>12, <1>13, <1>14, <1>15, <1>16, <1>17, InvNext

\* What is past is purged and all behaviours are scheduled: after a restart and after
\* the system woke.
LEMMA PurgedAndScheduled ==
  ASSUME NEW n, Good(n), now \in Nat \ {0}
  PROVE  LET r == schedulePowerEvents(purgePastEvents(n, Behaviors, TRUE), Timed)
         IN /\ Good(r) /\ Excess(r) = Excess(n)
            /\ \A b \in Behaviors : Elements(r.beh[b].queue) \subseteq Elements(n.beh[b].queue)
            /\ \A b \in Timed : ArmedAt(r, b, now) /\ QuietAt(r, b, now)
<1> DEFINE p == purgePastEvents(n, Behaviors, TRUE)
           r == schedulePowerEvents(p, Timed)
<1>1. Behaviors \in SUBSET Behaviors /\ Timed \in SUBSET Timed /\ TRUE \in BOOLEAN /\ now \in Nat
  OBVIOUS
<1>2. /\ Good(p) /\ Excess(p) = Excess(n)
      /\ \A b \in Behaviors : /\ Elements(p.beh[b].queue) \subseteq Elements(n.beh[b].queue)
                              /\ ToCome(p, b, now) = ToCome(n, b, now)
  BY <1>1, PurgeFact
<1> HIDE DEF p
<1>3. /\ Good(r) /\ SameEvents(r, p)
      /\ \A b \in Timed : ArmedAt(r, b, now) /\ QuietAt(r, b, now)
  BY <1>1, <1>2, ScheduleFact
<1> HIDE DEF r
<1>4. /\ Excess(r) = Excess(p)
      /\ \A b \in Behaviors : Elements(r.beh[b].queue) = Elements(p.beh[b].queue)
  BY <1>2, <1>3, SameEventsFact
<1> QED BY <1>2, <1>3, <1>4 DEF r, p

LEMMA PurgeType ==
  ASSUME NEW allowed \in BOOLEAN
  PROVE  /\ [allowed |-> allowed, since |-> NoDate] \in [allowed : BOOLEAN, since : 0..MaxTime]
         /\ now \in 1..MaxTime =>
              [allowed |-> allowed, since |-> now] \in [allowed : BOOLEAN, since : 0..MaxTime]
<1>1. NoDate \in 0..MaxTime /\ (now \in 1..MaxTime => now \in 0..MaxTime)
  BY ConstantsType DEF NoDate
<1> QED BY <1>1

LEMMA NewBehaviorType ==
  ASSUME NEW q \in Seq(Wanted)
  PROVE  NewBehavior(q) \in BehaviorSet /\ (NewBehavior(q).made \/ q = <<>>)
<1>1. NoEvent \in EventSet /\ NoDate \in Nat
  BY DEF NoEvent, EventSet, NoDate
<1>2. PICK m \in BOOLEAN : m <=> q # <<>>
  OBVIOUS
<1>3. NewBehavior(q) = [queue |-> q, made |-> m, current |-> NoEvent,
                        timer |-> NoDate, edge |-> FALSE]
  BY <1>2 DEF NewBehavior
<1> QED BY <1>1, <1>2, <1>3 DEF BehaviorSet

LEMMA PrimeStep ==
  ASSUME IndInv, AutoWake_prime
  PROVE  IndInv'
<1> DEFINE n == [beh |-> [b \in Behaviors |-> NewBehavior(disk[b])],
                 cnt |-> Sum([b \in Behaviors |-> Len(disk[b])]),
                 repeat |-> diskRepeat, hw |-> hw]
           s == schedulePowerEvents(purgePastEvents(n, Behaviors, TRUE), Timed)
<1>1. /\ Rest /\ Good(Now) /\ now \in Nat \ {0} /\ DiskOk(disk)
  BY RestFact DEF IndInv, Rest
<1>2. /\ Commit(s) /\ purge' = [allowed |-> TRUE, since |-> NoDate]
      /\ failed' = {} /\ calendar' = FALSE /\ phase' = "awake" /\ due' = {}
      /\ UNCHANGED <<now, disk, diskRepeat, rtc>>
  BY DEF AutoWake_prime, saved
<1>3. \A b \in Behaviors : NewBehavior(disk[b]).queue = disk[b]
  BY DEF NewBehavior
<1>4. Good(n) /\ Excess(n) = 0
  <2>1. \A b \in Behaviors : disk[b] \in Seq(Wanted) /\ disk[b] \in Arrays(b)
    BY <1>1 DEF DiskOk
  <2>2. [b \in Behaviors |-> Len(disk[b])] \in [Behaviors -> Nat]
    BY <2>1
  <2>3. n.cnt \in Nat
    BY <2>2, SumNat
  <2>5. ASSUME NEW b \in Behaviors
        PROVE  /\ NewBehavior(disk[b]) \in BehaviorSet
               /\ NewBehavior(disk[b]).made \/ disk[b] = <<>>
    BY <2>1, NewBehaviorType
  <2>6. n.beh \in [Behaviors -> BehaviorSet]
    BY <2>5
  <2>7. diskRepeat \in RepeatSet /\ hw \in Int
    BY <1>1 DEF Rest, Good, Works, Now
  <2>8. n \in Works
    BY <2>3, <2>6, <2>7 DEF Works
  <2>9. \A b \in Behaviors : n.beh[b].queue = disk[b] /\ (n.beh[b].made \/ disk[b] = <<>>)
    BY <1>3, <2>5
  <2>10. n.cnt = Sum([b \in Behaviors |-> Len(disk[b])])
    OBVIOUS
  <2> HIDE DEF n
  <2>11. Lens(n) = [b \in Behaviors |-> Len(disk[b])]
    BY <2>9 DEF Lens
  <2>12. Good(n)
    BY <2>1, <2>8, <2>9 DEF Good
  <2> QED BY <2>3, <2>10, <2>11, <2>12 DEF Excess
<1>5. \A b \in Behaviors : n.beh[b].queue = disk[b]
  BY <1>3
<1> HIDE DEF n
<1>6. /\ Good(s) /\ Excess(s) = Excess(n)
      /\ \A b \in Behaviors : Elements(s.beh[b].queue) \subseteq Elements(n.beh[b].queue)
      /\ \A b \in Timed : ArmedAt(s, b, now) /\ QuietAt(s, b, now)
  BY <1>1, <1>4, PurgedAndScheduled
<1> HIDE DEF s
<1>7. CountOk(s, failed') /\ DurableAt(s, disk')
  BY <1>2, <1>4, <1>5, <1>6 DEF CountOk, DurableAt
<1>8. Rest'
  <2>1. purge' \in [allowed : BOOLEAN, since : 0..MaxTime]
    BY <1>2, PurgeType
  <2> QED BY <1>1, <1>2, <2>1 DEF Rest
<1>9. TimersOk(s, now', SettledAt(phase', calendar', failed'), failed')
  BY <1>2, <1>6 DEF TimersOk
<1>10. SleepAt(s, now', phase', purge', due') /\ AlarmAt(s, now', phase', rtc')
  BY <1>2 DEF SleepAt, AlarmAt
<1> QED BY <1>2, <1>6, <1>7, <1>8, <1>9, <1>10, InvNext

LEMMA TimerStep ==
  ASSUME IndInv, NEW b \in Timed, handleTimerExpiration(b)
  PROVE  IndInv'
<1> DEFINE cut == [beh[b] EXCEPT !.current = NoEvent]
           a == [Now EXCEPT !.beh = [beh EXCEPT ![b] = cut]]
           s == schedulePowerEvents(a, {b})
<1>1. CASE AutoWake_prime
  BY <1>1, PrimeStep
<1>2. CASE Commit(s) /\ UNCHANGED <<now, saved, calendar, pm, failed>>
  <2>1. /\ Rest /\ Good(Now) /\ now \in Nat \ {0} /\ b \in Behaviors
    BY RestFact, BehaviorNames DEF IndInv
  <2>2. /\ UNCHANGED <<now, disk, diskRepeat, calendar, phase, purge, rtc, due, failed>>
        /\ phase # "asleep"
    BY <1>2 DEF saved, pm, handleTimerExpiration, Runs
  <2>3. /\ beh \in [Behaviors -> BehaviorSet] /\ beh[b] \in BehaviorSet /\ Now.beh = beh
    BY <2>1 DEF Good, Works, Now
  <2>4. /\ cut.queue = beh[b].queue /\ cut.made = beh[b].made /\ cut.timer = beh[b].timer
        /\ cut.edge = beh[b].edge /\ cut \in BehaviorSet
    <3>1. NoEvent \in EventSet
      BY DEF NoEvent, EventSet, NoDate
    <3> QED BY <2>3, <3>1 DEF BehaviorSet
  <2> HIDE DEF cut
  <2>5. /\ a.beh = [beh EXCEPT ![b] = cut] /\ a.cnt = Now.cnt /\ a.repeat = Now.repeat
        /\ a.hw = Now.hw /\ a \in Works
    BY <2>1, <2>3, <2>4 DEF Good, Works
  <2> HIDE DEF a
  <2>6. ASSUME NEW x \in Behaviors
        PROVE  /\ a.beh[x].queue = Now.beh[x].queue /\ a.beh[x].made = Now.beh[x].made
               /\ a.beh[x].timer = Now.beh[x].timer /\ a.beh[x].edge = Now.beh[x].edge
    <3>1. CASE x = b
      BY <2>3, <2>4, <2>5, <3>1
    <3>2. CASE x # b
      BY <2>3, <2>5, <3>2
    <3> QED BY <3>1, <3>2
  <2>7. Good(a) /\ SameEvents(a, Now)
    BY <2>1, <2>5, <2>6 DEF Good, SameEvents
  <2>8. /\ Good(s) /\ SameEvents(s, a)
        /\ \A x \in Timed : ArmedAt(Now, x, now) => ArmedAt(s, x, now)
        /\ \A x \in Timed : QuietAt(Now, x, now) => QuietAt(s, x, now)
    <3>1. {b} \in SUBSET Timed
      OBVIOUS
    <3>2. \A x \in Timed \ {b} :
            /\ FutureAt(a, x, now) = FutureAt(Now, x, now)
            /\ a.beh[x].timer = Now.beh[x].timer /\ a.beh[x].edge = Now.beh[x].edge
            /\ x = "poweron" => a.hw = Now.hw
      BY <2>5, <2>6, <2>7, SameFuture, BehaviorNames
    <3> QED BY <2>1, <2>7, <3>1, <3>2, RescheduleFact
  <2> HIDE DEF s
  <2>9. /\ Excess(s) = Excess(Now)
        /\ \A x \in Behaviors : Elements(s.beh[x].queue) = Elements(Now.beh[x].queue)
    <3>1. SameEvents(s, Now)
      BY <2>7, <2>8 DEF SameEvents
    <3> QED BY <2>1, <2>8, <3>1, SameEventsFact
  <2>10. CountOk(s, failed') /\ DurableAt(s, disk')
    BY <2>2, <2>9 DEF IndInv, CountOk, DurableAt
  <2>11. Rest'
    BY <2>1, <2>2 DEF Rest
  <2>12. TimersOk(s, now', SettledAt(phase', calendar', failed'), failed')
    BY <2>2, <2>8 DEF IndInv, TimersOk
  <2>13. SleepAt(s, now', phase', purge', due')
    <3>1. SleepAt(Now, now, phase, purge, due)
      BY DEF IndInv
    <3>2. SleepAt(s, now, phase, purge, due)
      BY <2>9, <3>1, BehaviorNames DEF SleepAt
    <3> QED BY <2>2, <3>2
  <2>14. AlarmAt(s, now', phase', rtc')
    BY <2>2 DEF AlarmAt
  <2> QED BY <1>2, <2>8, <2>10, <2>11, <2>12, <2>13, <2>14, InvNext
<1> QED BY <1>1, <1>2 DEF handleTimerExpiration

LEMMA SetCalendarStep ==
  ASSUME IndInv, NEW t \in Calendars, SetCalendar(t)
  PROVE  IndInv'
<1>1. /\ phase = "awake" /\ now' = t /\ calendar' = TRUE
      /\ UNCHANGED <<beh, activeEventCnt, repeat, hw, disk, diskRepeat, phase, purge, rtc, due,
                     failed>>
  BY DEF SetCalendar, mem, saved, pm
<1>2. Commit(Now)
  BY <1>1 DEF Commit, Now
<1>3. t \in 1..MaxTime
  BY ConstantsType
<1>4. Rest'
  BY <1>1, <1>3 DEF IndInv, Rest
<1>5. Good(Now) /\ CountOk(Now, failed') /\ DurableAt(Now, disk')
  BY <1>1 DEF IndInv
<1>6. TimersOk(Now, now', SettledAt(phase', calendar', failed'), failed')
  BY <1>1 DEF TimersOk, SettledAt
<1>7. SleepAt(Now, now', phase', purge', due') /\ AlarmAt(Now, now', phase', rtc')
  BY <1>1 DEF IndInv, SleepAt, AlarmAt
<1> QED BY <1>2, <1>4, <1>5, <1>6, <1>7, InvNext

LEMMA CalendarChangeStep ==
  ASSUME IndInv, AutoWakeCalendarChange
  PROVE  IndInv'
<1> DEFINE s == schedulePowerEvents(Now, Timed)
<1>1. /\ Rest /\ Good(Now) /\ now \in Nat \ {0}
  BY RestFact DEF IndInv
<1>2. /\ phase # "asleep" /\ calendar' = FALSE /\ Commit(s)
      /\ UNCHANGED <<now, disk, diskRepeat, phase, purge, rtc, due, failed>>
  BY DEF AutoWakeCalendarChange, Runs, saved, pm
<1>3. /\ Good(s) /\ SameEvents(s, Now)
      /\ \A b \in Timed : ArmedAt(s, b, now) /\ QuietAt(s, b, now)
  <2>1. Timed \in SUBSET Timed
    OBVIOUS
  <2> QED BY <1>1, <2>1, ScheduleFact
<1> HIDE DEF s
<1>4. /\ Excess(s) = Excess(Now)
      /\ \A b \in Behaviors : Elements(s.beh[b].queue) = Elements(Now.beh[b].queue)
  BY <1>1, <1>3, SameEventsFact
<1>5. Rest'
  BY <1>1, <1>2 DEF Rest
<1>6. CountOk(s, failed') /\ DurableAt(s, disk')
  BY <1>2, <1>4 DEF IndInv, CountOk, DurableAt
<1>7. TimersOk(s, now', SettledAt(phase', calendar', failed'), failed')
  BY <1>2, <1>3 DEF TimersOk
<1>8. SleepAt(s, now', phase', purge', due')
  <2>1. SleepAt(Now, now, phase, purge, due)
    BY DEF IndInv
  <2>2. SleepAt(s, now, phase, purge, due)
    BY <1>4, <2>1, BehaviorNames DEF SleepAt
  <2> QED BY <1>2, <2>2
<1>9. AlarmAt(s, now', phase', rtc')
  BY <1>2 DEF AlarmAt
<1> QED BY <1>2, <1>3, <1>5, <1>6, <1>7, <1>8, <1>9, InvNext

\* Purging changes the count with the arrays, loses nothing that is to come, and
\* leaves the timers as they are.
LEMMA PurgeOnly ==
  ASSUME IndInv, NEW allowed \in BOOLEAN
  PROVE  LET s == purgePastEvents(Now, {"wake"}, allowed)
         IN /\ Good(s) /\ CountOk(s, failed) /\ DurableAt(s, disk)
            /\ TimersOk(s, now, SettledAt(phase, calendar, failed), failed)
<1> DEFINE s == purgePastEvents(Now, {"wake"}, allowed)
<1>1. /\ Good(Now) /\ now \in Nat /\ {"wake"} \in SUBSET Behaviors
  BY RestFact, BehaviorNames DEF IndInv
<1>2. /\ Good(s) /\ SameTimers(s, Now) /\ Excess(s) = Excess(Now)
      /\ \A b \in Behaviors : /\ Elements(s.beh[b].queue) \subseteq Elements(Now.beh[b].queue)
                              /\ ToCome(s, b, now) = ToCome(Now, b, now)
  BY <1>1, PurgeFact
<1> HIDE DEF s
<1>3. CountOk(s, failed) /\ DurableAt(s, disk)
  BY <1>2 DEF IndInv, CountOk, DurableAt
<1>4. ASSUME NEW b \in Timed
      PROVE  /\ ArmedAt(Now, b, now) => ArmedAt(s, b, now)
             /\ QuietAt(Now, b, now) => QuietAt(s, b, now)
  <2>1. b \in Behaviors /\ "wakeorpoweron" \in Behaviors
    BY BehaviorNames
  <2>2. s.repeat = Now.repeat /\ s.hw = Now.hw /\ s.beh[b].timer = Now.beh[b].timer
        /\ s.beh[b].edge = Now.beh[b].edge
    BY <1>2, <2>1 DEF SameTimers
  <2>3. FutureAt(s, b, now) = FutureAt(Now, b, now)
    BY <1>2, <2>1, <2>2, FutureFrame
  <2> QED BY <2>2, <2>3, TimingFrame
<1>5. TimersOk(s, now, SettledAt(phase, calendar, failed), failed)
  BY <1>4 DEF IndInv, TimersOk
<1> QED BY <1>2, <1>3, <1>5 DEF s

\* The question is asked outside dark wake.
LEMMA WatchedStep ==
  ASSUME IndInv, Commit(purgePastEvents(Now, {"wake"}, purge.allowed)),
         phase = "awake", purge' = [allowed |-> FALSE, since |-> now],
         phase' \in {"cancelled", "asked"}, due' = {},
         UNCHANGED <<now, disk, diskRepeat, calendar, rtc, failed>>
  PROVE  IndInv'
<1> DEFINE s == purgePastEvents(Now, {"wake"}, purge.allowed)
<1>1. /\ Rest /\ Good(Now) /\ now \in Nat \ {0} /\ purge.allowed \in BOOLEAN
  BY RestFact DEF IndInv
<1>2. /\ phase = "awake" /\ Commit(s) /\ purge' = [allowed |-> FALSE, since |-> now]
      /\ phase' \in {"cancelled", "asked"} /\ due' = {}
      /\ UNCHANGED <<now, disk, diskRepeat, calendar, rtc, failed>>
  OBVIOUS
<1>3. /\ Good(s) /\ CountOk(s, failed) /\ DurableAt(s, disk)
      /\ TimersOk(s, now, SettledAt(phase, calendar, failed), failed)
  BY <1>1, PurgeOnly
<1> HIDE DEF s
<1>4. Rest'
  <2>1. now \in 1..MaxTime /\ FALSE \in BOOLEAN
    BY <1>1 DEF Rest
  <2>2. purge' \in [allowed : BOOLEAN, since : 0..MaxTime]
    BY <1>2, <2>1, PurgeType
  <2> QED BY <1>1, <1>2, <2>2 DEF Rest
<1>5. CountOk(s, failed') /\ DurableAt(s, disk')
  BY <1>2, <1>3
<1>6. TimersOk(s, now', SettledAt(phase', calendar', failed'), failed')
  BY <1>2, <1>3 DEF TimersOk, SettledAt
<1>7. SleepAt(s, now', phase', purge', due') /\ AlarmAt(s, now', phase', rtc')
  BY <1>1, <1>2 DEF SleepAt, AlarmAt
<1> QED BY <1>2, <1>3, <1>4, <1>5, <1>6, <1>7, InvNext

LEMMA CanSleepStep ==
  ASSUME IndInv, NEW tty \in BOOLEAN, NEW dark \in BOOLEAN, handleCanSleepMsg(tty, dark)
  PROVE  IndInv'
<1>1. /\ Rest /\ Good(Now)
      /\ phase = "awake" /\ phase' \in {"cancelled", "asked"} /\ due' = {}
      /\ UNCHANGED <<now, disk, diskRepeat, calendar, rtc, failed>>
  BY DEF IndInv, handleCanSleepMsg, saved
<1>2. CASE UNCHANGED <<mem, purge>> /\ purge.allowed
  <2>1. UNCHANGED <<beh, activeEventCnt, repeat, hw, purge>>
    BY <1>2 DEF mem
  <2>2. Commit(Now)
    BY <2>1 DEF Commit, Now
  <2>3. Rest'
    BY <1>1, <2>1 DEF Rest
  <2>4. CountOk(Now, failed') /\ DurableAt(Now, disk')
    BY <1>1 DEF IndInv
  <2>5. TimersOk(Now, now', SettledAt(phase', calendar', failed'), failed')
    BY <1>1 DEF IndInv, TimersOk, SettledAt
  <2>6. AlarmAt(Now, now', phase', rtc')
    BY <1>1 DEF AlarmAt
  <2>7. SleepAt(Now, now', phase', purge', due')
    BY <1>1, <1>2, <2>1 DEF SleepAt
  <2> QED BY <1>1, <2>2, <2>3, <2>4, <2>5, <2>6, <2>7, InvNext
<1>3. CASE /\ Commit(purgePastEvents(Now, {"wake"}, purge.allowed))
           /\ purge' = [allowed |-> FALSE, since |-> now]
  BY <1>1, <1>3, WatchedStep
<1>4. CASE UNCHANGED <<mem, purge>>
  BY <1>1, <1>2, <1>4 DEF IndInv, SleepAt
<1> QED BY <1>3, <1>4 DEF handleCanSleepMsg

LEMMA WillNotSleepStep ==
  ASSUME IndInv, WillNotSleep
  PROVE  IndInv'
<1> DEFINE s == purgePastEvents(Now, {"wake"}, TRUE)
<1>1. /\ Rest /\ TRUE \in BOOLEAN
  BY DEF IndInv
<1>2. /\ phase # "asleep" /\ Commit(s) /\ purge' = [allowed |-> TRUE, since |-> NoDate]
      /\ phase' = "awake" /\ due' = {}
      /\ UNCHANGED <<now, disk, diskRepeat, calendar, rtc, failed>>
  BY DEF WillNotSleep, saved, AllowPurging
<1>3. /\ Good(s) /\ CountOk(s, failed) /\ DurableAt(s, disk)
      /\ TimersOk(s, now, SettledAt(phase, calendar, failed), failed)
  BY <1>1, PurgeOnly
<1> HIDE DEF s
<1>4. Rest'
  <2>1. purge' \in [allowed : BOOLEAN, since : 0..MaxTime]
    BY <1>2, PurgeType
  <2> QED BY <1>1, <1>2, <2>1 DEF Rest
<1>5. CountOk(s, failed') /\ DurableAt(s, disk')
  BY <1>2, <1>3
<1>6. TimersOk(s, now', SettledAt(phase', calendar', failed'), failed')
  BY <1>2, <1>3 DEF TimersOk, SettledAt
<1>7. SleepAt(s, now', phase', purge', due') /\ AlarmAt(s, now', phase', rtc')
  BY <1>2 DEF SleepAt, AlarmAt
<1> QED BY <1>2, <1>3, <1>4, <1>5, <1>6, <1>7, InvNext

LEMMA WakeTime ==
  ASSUME NEW e \in Wanted
  PROVE  /\ getWakeScheduleTime(e) = e.date + Leeway[e.app]
         /\ Leeway[e.app] \in Nat /\ e.date \in Nat /\ e.app \in Apps
         /\ getWakeScheduleTime(e) \in Nat
<1>1. e.date \in Nat /\ e.app \in Apps
  BY WantedType
<1>2. Leeway[e.app] \in Nat
  BY <1>1, AutoWakeAssumption
<1> QED BY <1>1, <1>2 DEF getWakeScheduleTime

\* With one leeway for all, the times of the wake requests are in the order of their
\* dates: the first of them that is not below the bound is no later than any other.
LEMMA DueIsPending ==
  ASSUME NEW n, Good(n), \A x, y \in Apps : Leeway[x] = Leeway[y],
         NEW e \in Elements(n.beh["wake"].queue), NEW lower \in Nat, NEW upper \in Nat,
         lower <= getWakeScheduleTime(e), getWakeScheduleTime(e) <= upper
  PROVE  Pending(n, lower, upper)
<1> DEFINE q == n.beh["wake"].queue
           at(i) == getWakeScheduleTime(q[i])
<1>1. q \in Arrays("wake") /\ q \in Seq(Wanted)
  BY BehaviorNames, GoodFact
<1>2. Pending(n, lower, upper) <=>
        \E i \in DOMAIN q : /\ at(i) >= lower /\ at(i) <= upper
                            /\ \A j \in 1..i - 1 : at(j) < lower
  BY DEF Pending
<1>3. PICK k \in DOMAIN q : e = q[k]
  BY DEF Elements
<1> HIDE DEF q
<1>4. DOMAIN q = 1..Len(q) /\ Len(q) \in Nat
  BY <1>1
<1>5. \A i \in DOMAIN q : q[i] \in Wanted
  BY <1>1, <1>4
<1>6. \A i \in DOMAIN q : /\ at(i) = q[i].date + Leeway[q[i].app] /\ at(i) \in Nat
                          /\ q[i].date \in Nat /\ Leeway[q[i].app] \in Nat /\ q[i].app \in Apps
  BY <1>5, WakeTime
<1>7. \A i, j \in DOMAIN q : i < j => q[i].date <= q[j].date
  BY <1>1 DEF Arrays, Sorted
<1>8. \A i, j \in DOMAIN q : i <= j => at(i) <= at(j)
  <2> TAKE i, j \in DOMAIN q
  <2>1. CASE i = j
    BY <1>6, <2>1
  <2>2. CASE i < j
    <3>1. q[i].date <= q[j].date /\ Leeway[q[i].app] = Leeway[q[j].app]
      BY <1>6, <1>7, <2>2
    <3> QED BY <1>6, <3>1
  <2> QED BY <1>4, <2>1, <2>2
<1>9. at(k) >= lower /\ at(k) <= upper
  BY <1>3, <1>6
<1> HIDE DEF at
<1>10. PICK m \in {i \in DOMAIN q : at(i) >= lower} :
         \A y \in {i \in DOMAIN q : at(i) >= lower} : m <= y
  <2>1. {i \in DOMAIN q : at(i) >= lower} \in SUBSET Nat
    BY <1>4
  <2>2. {i \in DOMAIN q : at(i) >= lower} # {}
    BY <1>9
  <2> QED BY <2>1, <2>2, MinNat
<1>11. m \in DOMAIN q /\ at(m) >= lower /\ m <= k
  BY <1>9, <1>10
<1>12. at(m) <= upper
  <2>1. at(m) <= at(k)
    BY <1>8, <1>11
  <2> QED BY <1>6, <1>9, <1>11, <2>1
<1>13. \A j \in 1..m - 1 : at(j) < lower
  <2> TAKE j \in 1..m - 1
  <2>1. j \in DOMAIN q /\ ~(m <= j)
    BY <1>4, <1>11
  <2>2. ~(at(j) >= lower)
    BY <1>10, <2>1
  <2> QED BY <1>6, <2>1, <2>2
<1> QED BY <1>2, <1>11, <1>12, <1>13

LEMMA LastCallStep ==
  ASSUME IndInv, handleLastCallMsg
  PROVE  IndInv'
<1> DEFINE s == purgePastEvents(Now, {"wake"}, TRUE)
           lower == IF purge.since # NoDate THEN purge.since ELSE now
<1>1. /\ Rest /\ TRUE \in BOOLEAN /\ now \in Nat \ {0} /\ Good(Now)
  BY RestFact DEF IndInv
<1>2. /\ phase = "asked" /\ Commit(s) /\ purge' = [allowed |-> TRUE, since |-> NoDate]
      /\ phase' = IF Pending(Now, lower, now + MinSleep) THEN "cancelled" ELSE "allowed"
      /\ UNCHANGED <<now, disk, diskRepeat, calendar, rtc, due, failed>>
  BY DEF handleLastCallMsg, saved, AllowPurging
<1>3. /\ Good(s) /\ CountOk(s, failed) /\ DurableAt(s, disk)
      /\ TimersOk(s, now, SettledAt(phase, calendar, failed), failed)
  BY <1>1, PurgeOnly
<1> HIDE DEF s
<1>4. Rest'
  <2>1. purge' \in [allowed : BOOLEAN, since : 0..MaxTime]
    BY <1>2, PurgeType
  <2> QED BY <1>1, <1>2, <2>1 DEF Rest
<1>5. CountOk(s, failed') /\ DurableAt(s, disk')
  BY <1>2, <1>3
<1>6. phase' # "awake" /\ phase' # "asked" /\ phase' # "asleep"
  BY <1>2
<1>7. TimersOk(s, now', SettledAt(phase', calendar', failed'), failed')
  BY <1>2, <1>3, <1>6 DEF TimersOk, SettledAt
<1>8. ASSUME \A x, y \in Apps : Leeway[x] = Leeway[y], phase' = "allowed"
      PROVE  due = {}
  <2>1. SUFFICES ASSUME NEW e \in due PROVE FALSE
    OBVIOUS
  <2>0. ~purge.allowed
    BY <1>2, <2>1 DEF IndInv, SleepAt
  <2>2. /\ purge.since \in 1..now /\ e \in Elements(Now.beh["wake"].queue)
        /\ purge.since <= getWakeScheduleTime(e) /\ getWakeScheduleTime(e) <= now
    BY <1>2, <2>0, <2>1 DEF IndInv, SleepAt
  <2>3. lower = purge.since /\ lower \in Nat /\ now + MinSleep \in Nat
    BY <1>1, <2>2, ConstantsType DEF NoDate
  <2>4. getWakeScheduleTime(e) \in Nat
    <3>1. e \in Wanted
      BY <1>1, <2>2, GoodFact, BehaviorNames
    <3> QED BY <3>1, WakeTime
  <2>5. lower <= getWakeScheduleTime(e) /\ getWakeScheduleTime(e) <= now + MinSleep
    BY <1>1, <2>2, <2>3, <2>4, ConstantsType
  <2> HIDE DEF lower
  <2>6. Pending(Now, lower, now + MinSleep)
    BY <1>1, <1>8, <2>2, <2>3, <2>5, DueIsPending
  <2> QED BY <1>2, <1>8, <2>6 DEF lower
<1>9. SleepAt(s, now', phase', purge', due')
  BY <1>2, <1>6, <1>8 DEF SleepAt
<1>10. AlarmAt(s, now', phase', rtc')
  BY <1>6 DEF AlarmAt
<1> QED BY <1>2, <1>3, <1>4, <1>5, <1>7, <1>9, <1>10, InvNext

\* The alarm is the earliest of all times the system is to be woken for, unless that is
\* past.
LEMMA AlarmFact ==
  ASSUME NEW n, Good(n), now \in Nat \ {0}
  PROVE  /\ Valid(copyEarliestEvent(n, "wake")) \in Nat
         /\ Ahead(n, "wake", now) =>
              \A e \in FutureAt(n, "wake", now) :
                /\ Valid(copyEarliestEvent(n, "wake")) # NoDate
                /\ Valid(copyEarliestEvent(n, "wake")) <= getWakeScheduleTime(e)
<1> DEFINE own == {e \in copyMergedEventArray(n, "wake") : getWakeScheduleTime(e) >= now}
           again == AgainAt(n, "wake", now)
           all == own \cup again
           first == Earliest(all, getWakeScheduleTime)
           alarm == copyEarliestEvent(n, "wake")
<1>1. "wake" \in Timed /\ now \in Nat /\ DayLength \in Nat
  BY BehaviorNames, ConstantsType DEF Timed, On
<1>2. alarm = IF all = {} THEN NoDate ELSE getWakeScheduleTime(first)
  BY DEF copyEarliestEvent, copyNextRepeatingEvent, AgainAt
<1>3. \A e \in copyMergedEventArray(n, "wake") :
        getWakeScheduleTime(e) \in Nat /\ getWakeScheduleTime(e) >= e.date /\ e.date \in Nat
  <2>1. \A e \in copyMergedEventArray(n, "wake") : e \in Wanted
    BY <1>1, CandidatesType
  <2> QED BY <2>1, WakeTime
<1>4. \A e \in again : /\ e.date \in Int /\ e.date + DayLength \in Nat
                       /\ getWakeScheduleTime(e) = e.date + 0
  <2>1. \A e \in again : e.date \in Int /\ e.date + DayLength \in Nat /\ e.app = Repeating
    BY <1>1, CandidatesType
  <2>2. Repeating \notin Apps
    BY AutoWakeAssumption
  <2> QED BY <2>1, <2>2 DEF getWakeScheduleTime
<1>5. \A e \in all : /\ getWakeScheduleTime(e) \in Int
                     /\ getWakeScheduleTime(e) + DayLength \in Nat
                     /\ getWakeScheduleTime(e) < now => e \in again /\ e.date < now
  <2>1. \A e \in own : /\ getWakeScheduleTime(e) \in Nat /\ getWakeScheduleTime(e) >= now
    BY <1>1, <1>3
  <2>2. \A e \in again : /\ getWakeScheduleTime(e) \in Int
                         /\ getWakeScheduleTime(e) + DayLength \in Nat
                         /\ getWakeScheduleTime(e) < now => e.date < now
    BY <1>1, <1>4
  <2> QED BY <1>1, <2>1, <2>2
<1>6. \A e \in FutureAt(n, "wake", now) : e \in all
  <2>1. \A e \in copyMergedEventArray(n, "wake") : e.date > now => e \in own
    BY <1>1, <1>3
  <2> QED BY <2>1 DEF FutureAt
<1>7. \A e \in again : e \in FutureAt(n, "wake", now)
  BY DEF FutureAt
<1> HIDE DEF own, again, alarm
<1>8. ASSUME all # {}
      PROVE  first \in all /\ \A e \in all : getWakeScheduleTime(first) <= getWakeScheduleTime(e)
  <2> DEFINE T == {getWakeScheduleTime(e) + DayLength : e \in all}
  <2>1. T \in SUBSET Nat /\ T # {}
    BY <1>5, <1>8
  <2>2. PICK m \in T : \A y \in T : m <= y
    BY <2>1, MinNat
  <2>3. PICK e \in all : getWakeScheduleTime(e) + DayLength = m
    BY <2>2
  <2>4. ASSUME NEW f \in all PROVE getWakeScheduleTime(e) <= getWakeScheduleTime(f)
    <3>1. getWakeScheduleTime(e) + DayLength <= getWakeScheduleTime(f) + DayLength
      BY <2>2, <2>3
    <3> QED BY <1>1, <1>5, <3>1
  <2>5. \E x \in all : \A f \in all : getWakeScheduleTime(x) <= getWakeScheduleTime(f)
    BY <2>4
  <2> HIDE DEF all
  <2> QED BY <2>5 DEF Earliest
<1> HIDE DEF all, first
<1>9. alarm \in Int
  BY <1>2, <1>5, <1>8 DEF NoDate
<1>10. Valid(alarm) \in Nat
  BY <1>1, <1>9 DEF Valid, NoDate
<1>11. ASSUME Ahead(n, "wake", now), NEW e \in FutureAt(n, "wake", now)
       PROVE  Valid(alarm) # NoDate /\ Valid(alarm) <= getWakeScheduleTime(e)
  <2>1. /\ e \in all /\ alarm = getWakeScheduleTime(first) /\ first \in all
        /\ alarm <= getWakeScheduleTime(e)
    BY <1>2, <1>6, <1>8, <1>11
  <2>2. ~(alarm < now)
    <3>1. SUFFICES ASSUME alarm < now PROVE FALSE
      OBVIOUS
    <3>2. first \in again /\ first.date < now
      BY <1>5, <2>1, <3>1
    <3>3. first.date \in Int /\ first.date > now
      BY <1>4, <1>7, <1>11, <3>2 DEF Ahead
    <3> QED BY <1>1, <3>2, <3>3
  <2> QED BY <1>9, <2>1, <2>2 DEF Valid, NoDate
<1> QED BY <1>10, <1>11 DEF alarm

LEMMA WillSleepStep ==
  ASSUME IndInv, SystemWillSleep
  PROVE  IndInv'
<1> DEFINE s == schedulePowerEvents(Now, {"wake"})
<1>1. /\ Rest /\ Good(Now) /\ now \in Nat \ {0}
  BY RestFact DEF IndInv
<1>2. /\ phase \in {"awake", "allowed"} /\ phase' = "asleep" /\ Commit(s)
      /\ rtc' = Valid(copyEarliestEvent(Now, "wake"))
      /\ UNCHANGED <<now, disk, diskRepeat, calendar, purge, due, failed>>
  BY DEF SystemWillSleep, saved
<1>3. Good(s) /\ SameEvents(s, Now)
  <2>1. {"wake"} \in SUBSET Timed
    BY BehaviorNames DEF Timed, On
  <2> QED BY <1>1, <2>1, ScheduleFact
<1> HIDE DEF s
<1>4. /\ Excess(s) = Excess(Now)
      /\ \A b \in Behaviors : Elements(s.beh[b].queue) = Elements(Now.beh[b].queue)
  BY <1>1, <1>3, SameEventsFact
<1>5. rtc' \in Nat
  BY <1>1, <1>2, AlarmFact
<1>6. Rest'
  BY <1>1, <1>2, <1>5 DEF Rest
<1>7. CountOk(s, failed') /\ DurableAt(s, disk')
  BY <1>2, <1>4 DEF IndInv, CountOk, DurableAt
<1>8. TimersOk(s, now', SettledAt(phase', calendar', failed'), failed')
  BY <1>2 DEF TimersOk, SettledAt
<1>9. SleepAt(s, now', phase', purge', due')
  BY <1>2 DEF IndInv, SleepAt
<1>10. AlarmAt(s, now', phase', rtc')
  <2>1. FutureAt(s, "wake", now) = FutureAt(Now, "wake", now)
    BY <1>3, SameFuture, BehaviorNames DEF Timed, On
  <2>2. Ahead(Now, "wake", now) =>
          \A e \in FutureAt(Now, "wake", now) : rtc' # NoDate /\ rtc' <= getWakeScheduleTime(e)
    BY <1>1, <1>2, AlarmFact
  <2>3. Ahead(s, "wake", now) <=> Ahead(Now, "wake", now)
    BY <2>1 DEF Ahead
  <2> QED BY <1>2, <2>1, <2>2, <2>3 DEF AlarmAt
<1> QED BY <1>2, <1>3, <1>6, <1>7, <1>8, <1>9, <1>10, InvNext

LEMMA DidWakeStep ==
  ASSUME IndInv, SystemDidWake
  PROVE  IndInv'
<1> DEFINE s == schedulePowerEvents(purgePastEvents(Now, Behaviors, TRUE), Timed)
<1>1. /\ Rest /\ Good(Now) /\ now \in Nat \ {0}
  BY RestFact DEF IndInv
<1>2. /\ phase' = "awake" /\ Commit(s) /\ rtc' = NoDate /\ due' = {}
      /\ purge' = [allowed |-> TRUE, since |-> NoDate]
      /\ UNCHANGED <<now, disk, diskRepeat, calendar, failed>>
  BY DEF SystemDidWake, saved, AllowPurging
<1>3. /\ Good(s) /\ Excess(s) = Excess(Now)
      /\ \A b \in Behaviors : Elements(s.beh[b].queue) \subseteq Elements(Now.beh[b].queue)
      /\ \A b \in Timed : ArmedAt(s, b, now) /\ QuietAt(s, b, now)
  BY <1>1, PurgedAndScheduled
<1> HIDE DEF s
<1>4. Rest'
  <2>1. purge' \in [allowed : BOOLEAN, since : 0..MaxTime] /\ rtc' \in Nat
    BY <1>2, PurgeType DEF NoDate
  <2> QED BY <1>1, <1>2, <2>1 DEF Rest
<1>5. CountOk(s, failed') /\ DurableAt(s, disk')
  BY <1>2, <1>3 DEF IndInv, CountOk, DurableAt
<1>6. TimersOk(s, now', SettledAt(phase', calendar', failed'), failed')
  BY <1>2, <1>3 DEF TimersOk
<1>7. SleepAt(s, now', phase', purge', due') /\ AlarmAt(s, now', phase', rtc')
  BY <1>2 DEF SleepAt, AlarmAt
<1> QED BY <1>2, <1>3, <1>4, <1>5, <1>6, <1>7, InvNext

\* A tick later fewer events are to come, and a repeating one is no earlier; what is
\* beyond the tick stays.
LEMMA TickFuture ==
  ASSUME NEW n, Good(n), NEW b \in Timed, NEW t \in Nat
  PROVE  /\ \A e \in FutureAt(n, b, t + 1) :
              \E f \in FutureAt(n, b, t) :
                /\ f.date \in Int /\ e.date \in Int /\ f.date <= e.date
                /\ f = e \/ (f.app = Repeating /\ e.app = Repeating)
         /\ \A f \in FutureAt(n, b, t) :
              f.date > t + 1 => \E e \in FutureAt(n, b, t + 1) : e.date = f.date
         /\ Ahead(n, b, t + 1) => Ahead(n, b, t)
<1>1. \A e \in copyMergedEventArray(n, b) : e.date \in Nat
  BY CandidatesType
<1>2. CASE \A u \in Nat : AgainAt(n, b, u) = {}
  <2>1. AgainAt(n, b, t) = {} /\ AgainAt(n, b, t + 1) = {}
    BY <1>2
  <2> QED BY <1>1, <2>1 DEF FutureAt, Ahead
<1>3. ASSUME NEW r \in Repeats,
             \A u \in Nat :
               AgainAt(n, b, u) = {[type |-> r.type, date |-> RepeatDate(r, u), app |-> Repeating]}
      PROVE  /\ \A e \in FutureAt(n, b, t + 1) :
                  \E f \in FutureAt(n, b, t) :
                    /\ f.date \in Int /\ e.date \in Int /\ f.date <= e.date
                    /\ f = e \/ (f.app = Repeating /\ e.app = Repeating)
             /\ \A f \in FutureAt(n, b, t) :
                  f.date > t + 1 => \E e \in FutureAt(n, b, t + 1) : e.date = f.date
             /\ Ahead(n, b, t + 1) => Ahead(n, b, t)
  <2> DEFINE x == [type |-> r.type, date |-> RepeatDate(r, t), app |-> Repeating]
             y == [type |-> r.type, date |-> RepeatDate(r, t + 1), app |-> Repeating]
  <2>1. AgainAt(n, b, t) = {x} /\ AgainAt(n, b, t + 1) = {y}
    <3>1. t + 1 \in Nat
      OBVIOUS
    <3> QED BY <1>3, <3>1
  <2>2. /\ x.date \in Int /\ y.date \in Int /\ x.date <= y.date
        /\ x.date > t + 1 => y.date = x.date
        /\ y.date > t + 1 => x.date > t
        /\ x.app = Repeating /\ y.app = Repeating
    <3>1. /\ RepeatDate(r, t) \in Int /\ RepeatDate(r, t + 1) \in Int
          /\ RepeatDate(r, t + 1) > t + 1 => RepeatDate(r, t) > t
      <4>1. t + 1 \in Nat
        OBVIOUS
      <4> QED BY <4>1, RepeatDateType
    <3> QED BY <3>1, RepeatDateSteps
  <2> HIDE DEF x, y
  <2>3. /\ FutureAt(n, b, t) = {e \in copyMergedEventArray(n, b) : e.date > t} \cup {x}
        /\ FutureAt(n, b, t + 1) = {e \in copyMergedEventArray(n, b) : e.date > t + 1} \cup {y}
    BY <2>1 DEF FutureAt
  <2>4. ASSUME NEW e \in FutureAt(n, b, t + 1)
        PROVE  \E f \in FutureAt(n, b, t) :
                 /\ f.date \in Int /\ e.date \in Int /\ f.date <= e.date
                 /\ f = e \/ (f.app = Repeating /\ e.app = Repeating)
    <3>1. CASE e = y
      BY <2>2, <2>3, <3>1
    <3>2. CASE e # y
      <4>1. e \in copyMergedEventArray(n, b) /\ e.date > t + 1 /\ e.date \in Nat
        BY <1>1, <2>3, <3>2
      <4>2. e \in FutureAt(n, b, t)
        BY <2>3, <4>1
      <4> QED BY <4>1, <4>2
    <3> QED BY <3>1, <3>2
  <2>5. ASSUME NEW f \in FutureAt(n, b, t), f.date > t + 1
        PROVE  \E e \in FutureAt(n, b, t + 1) : e.date = f.date
    BY <2>2, <2>3, <2>5
  <2>6. ASSUME Ahead(n, b, t + 1) PROVE Ahead(n, b, t)
    <3>1. x.date > t
      BY <2>2, <2>3, <2>6 DEF Ahead
    <3> QED BY <2>3, <3>1 DEF Ahead
  <2> QED BY <2>4, <2>5, <2>6
<1> QED BY <1>2, <1>3, AgainFact

LEMMA TickTiming ==
  ASSUME NEW n, Good(n), NEW b \in Timed, NEW t \in Nat
  PROVE  /\ ArmedAt(n, b, t) => ArmedAt(n, b, t + 1)
         /\ QuietAt(n, b, t) => QuietAt(n, b, t + 1)
<1>1. n.beh[b].timer \in Nat /\ n.hw \in Int
  BY GoodFact, BehaviorNames DEF Good, Works
<1>2. ASSUME ArmedAt(n, b, t), Ahead(n, b, t + 1), ~n.beh[b].edge, NEW e \in FutureAt(n, b, t + 1)
      PROVE  /\ n.beh[b].timer # NoDate /\ n.beh[b].timer <= e.date
             /\ b = "poweron" => n.hw # NoDate /\ n.hw <= e.date
  <2>1. PICK f \in FutureAt(n, b, t) : f.date \in Int /\ e.date \in Int /\ f.date <= e.date
    BY TickFuture
  <2>2. /\ n.beh[b].timer # NoDate /\ n.beh[b].timer <= f.date
        /\ b = "poweron" => n.hw # NoDate /\ n.hw <= f.date
    BY <1>2, TickFuture DEF ArmedAt
  <2> QED BY <1>1, <2>1, <2>2
<1>3. ASSUME QuietAt(n, b, t), NEW v \in Int, v > t + 1,
             v > t => \E e \in FutureAt(n, b, t) : e.date = v
      PROVE  \E e \in FutureAt(n, b, t + 1) : e.date = v
  <2>1. v > t
    BY <1>3
  <2>2. PICK f \in FutureAt(n, b, t) : f.date = v
    BY <1>3, <2>1
  <2>3. f.date > t + 1
    BY <1>3, <2>2
  <2> QED BY <2>2, <2>3, TickFuture
<1>4. ArmedAt(n, b, t) => ArmedAt(n, b, t + 1)
  BY <1>2 DEF ArmedAt
<1>5. ASSUME QuietAt(n, b, t) PROVE QuietAt(n, b, t + 1)
  <2>1. n.beh[b].timer > t + 1 => \E e \in FutureAt(n, b, t + 1) : e.date = n.beh[b].timer
    BY <1>1, <1>3, <1>5 DEF QuietAt
  <2>2. b = "poweron" /\ n.hw > t + 1 => \E e \in FutureAt(n, b, t + 1) : e.date = n.hw
    BY <1>1, <1>3, <1>5 DEF QuietAt
  <2> QED BY <2>1, <2>2 DEF QuietAt
<1> QED BY <1>4, <1>5

LEMMA TickStep ==
  ASSUME IndInv, Tick
  PROVE  IndInv'
<1> DEFINE new == {e \in Elements(beh["wake"].queue) : getWakeScheduleTime(e) = now}
<1>1. /\ Rest /\ Good(Now) /\ now \in Nat \ {0} /\ now \in Nat /\ Now.beh = beh
  BY RestFact DEF IndInv, Now
<1>2. /\ now < MaxTime /\ now' = now + 1
      /\ due' = IF phase # "asked" \/ purge.allowed THEN due ELSE due \cup new
      /\ UNCHANGED <<beh, activeEventCnt, repeat, hw, disk, diskRepeat, calendar, phase, purge,
                     rtc, failed>>
  BY DEF Tick, mem, saved
<1>3. Commit(Now)
  BY <1>2 DEF Commit, Now
<1>4. Rest'
  <2>1. now + 1 \in 1..MaxTime
    BY <1>1, <1>2, ConstantsType
  <2> QED BY <1>1, <1>2, <2>1 DEF Rest
<1>5. CountOk(Now, failed') /\ DurableAt(Now, disk')
  BY <1>2 DEF IndInv
<1>6. TimersOk(Now, now', SettledAt(phase', calendar', failed'), failed')
  <2>1. \A b \in Timed : /\ ArmedAt(Now, b, now) => ArmedAt(Now, b, now + 1)
                         /\ QuietAt(Now, b, now) => QuietAt(Now, b, now + 1)
    BY <1>1, TickTiming
  <2>2. TimersOk(Now, now, SettledAt(phase, calendar, failed), failed)
    BY DEF IndInv
  <2>3. TimersOk(Now, now + 1, SettledAt(phase, calendar, failed), failed)
    BY <2>1, <2>2 DEF TimersOk
  <2> QED BY <1>2, <2>3
<1>7. SleepAt(Now, now', phase', purge', due')
  <2>1. SleepAt(Now, now, phase, purge, due)
    BY DEF IndInv
  <2>2. CASE phase # "asked" \/ purge.allowed
    <3>1. SleepAt(Now, now + 1, phase, purge, due)
      BY <2>1, <2>2 DEF SleepAt
    <3> QED BY <1>2, <2>2, <3>1
  <2>3. CASE phase = "asked" /\ ~purge.allowed
    <3>1. /\ ~purge.allowed /\ purge.since \in 1..now
          /\ \A e \in due : /\ e \in Elements(Now.beh["wake"].queue)
                            /\ purge.since <= getWakeScheduleTime(e)
                            /\ getWakeScheduleTime(e) <= now
      BY <2>1, <2>3 DEF SleepAt
    <3>2. \A e \in Elements(Now.beh["wake"].queue) : getWakeScheduleTime(e) \in Nat
      <4>1. \A e \in Elements(Now.beh["wake"].queue) : e \in Wanted
        BY <1>1, GoodFact, BehaviorNames
      <4> QED BY <4>1, WakeTime
    <3>3. ASSUME NEW e \in due \cup new
          PROVE  /\ e \in Elements(Now.beh["wake"].queue)
                 /\ purge.since <= getWakeScheduleTime(e)
                 /\ getWakeScheduleTime(e) <= now + 1
      <4>1. CASE e \in due
        BY <1>1, <3>1, <3>2, <4>1
      <4>2. CASE e \in new
        BY <1>1, <3>1, <4>2
      <4> QED BY <4>1, <4>2
    <3>4. purge.since \in 1..now + 1
      BY <1>1, <3>1
    <3>5. SleepAt(Now, now + 1, phase, purge, due \cup new)
      BY <2>3, <3>1, <3>3, <3>4 DEF SleepAt
    <3> QED BY <1>2, <2>3, <3>5
  <2> QED BY <2>2, <2>3
<1>8. AlarmAt(Now, now', phase', rtc')
  <2>1. ASSUME phase = "asleep", Ahead(Now, "wake", now + 1),
               NEW e \in FutureAt(Now, "wake", now + 1)
        PROVE  rtc # NoDate /\ rtc <= getWakeScheduleTime(e)
    <3>1. "wake" \in Timed
      BY BehaviorNames DEF Timed, On
    <3>2. PICK f \in FutureAt(Now, "wake", now) :
            /\ f.date \in Int /\ e.date \in Int /\ f.date <= e.date
            /\ f = e \/ (f.app = Repeating /\ e.app = Repeating)
      BY <1>1, <2>1, <3>1, TickFuture
    <3>3. rtc # NoDate /\ rtc <= getWakeScheduleTime(f) /\ rtc \in Nat
      BY <1>1, <2>1, <3>1, TickFuture DEF IndInv, AlarmAt, Rest
    <3>4. CASE f = e
      BY <3>3, <3>4
    <3>5. CASE f.app = Repeating /\ e.app = Repeating
      <4>1. getWakeScheduleTime(f) = f.date + 0 /\ getWakeScheduleTime(e) = e.date + 0
        BY <3>5, AutoWakeAssumption DEF getWakeScheduleTime
      <4> QED BY <3>2, <3>3, <4>1
    <3> QED BY <3>2, <3>4, <3>5
  <2> QED BY <1>2, <2>1 DEF AlarmAt
<1> QED BY <1>1, <1>3, <1>4, <1>5, <1>6, <1>7, <1>8, InvNext

LEMMA Initially ==
  ASSUME Init
  PROVE  IndInv
<1>1. /\ now = 1 /\ beh = [b \in Behaviors |-> NewBehavior(<<>>)] /\ activeEventCnt = 0
      /\ repeat = [off |-> NoRepeat, on |-> NoRepeat] /\ hw = NoDate
      /\ disk = [b \in Behaviors |-> <<>>] /\ diskRepeat = repeat /\ calendar = FALSE
      /\ phase = "awake" /\ purge = [allowed |-> TRUE, since |-> NoDate]
      /\ rtc = NoDate /\ due = {} /\ failed = {}
  BY DEF Init
<1>2. /\ Now.beh = beh /\ Now.cnt = 0 /\ Now.repeat = repeat /\ Now.hw = NoDate
  BY <1>1 DEF Now
<1>3. \A b \in Behaviors : /\ beh[b].queue = <<>> /\ ~beh[b].made /\ beh[b].timer = NoDate
                           /\ ~beh[b].edge /\ beh[b] \in BehaviorSet
  <2>1. NoEvent \in EventSet
    BY DEF NoEvent, EventSet, NoDate
  <2>2. NewBehavior(<<>>) = [queue |-> <<>>, made |-> FALSE, current |-> NoEvent,
                             timer |-> NoDate, edge |-> FALSE]
    <3>1. PICK m \in BOOLEAN : m <=> <<>> # <<>>
      OBVIOUS
    <3> QED BY <3>1 DEF NewBehavior
  <2>3. NewBehavior(<<>>) \in BehaviorSet
    <3>1. PICK q \in Seq(Wanted) : q = <<>>
      BY EmptyArray
    <3>2. NewBehavior(q) \in BehaviorSet
      BY NewBehaviorType
    <3> QED BY <3>1, <3>2, Zenon
  <2> QED BY <1>1, <2>2, <2>3
<1>4. NoRepeat \in RepeatsFor(Off) /\ NoRepeat \in RepeatsFor(On \cup {"wakeorpoweron"})
  BY DEF RepeatsFor
<1>5. repeat \in RepeatSet
  BY <1>1, <1>4 DEF RepeatSet
<1>6. Rest
  <2>1. purge \in [allowed : BOOLEAN, since : 0..MaxTime]
    BY <1>1, PurgeType
  <2>2. now \in 1..MaxTime
    BY <1>1, ConstantsType
  <2>3. DiskOk(disk)
    BY <1>1, EmptyArray DEF DiskOk
  <2> QED BY <1>1, <1>5, <2>1, <2>2, <2>3 DEF Rest, NoDate
<1>7. Good(Now)
  <2>1. Now = [beh |-> beh, cnt |-> activeEventCnt, repeat |-> repeat, hw |-> hw]
    BY DEF Now
  <2>2. beh \in [Behaviors -> BehaviorSet]
    BY <1>1, <1>3
  <2>3. activeEventCnt \in Int /\ hw \in Int
    BY <1>1 DEF NoDate
  <2>4. Now \in Works
    BY <1>5, <2>1, <2>2, <2>3 DEF Works
  <2> QED BY <1>2, <1>3, <2>4, EmptyArray DEF Good
<1>8. Elements(<<>>) = {} /\ Len(<<>>) = 0
  BY DEF Elements
<1>9. CountOk(Now, failed)
  <2>1. Lens(Now) \in [Behaviors -> Nat]
    BY <1>7, GoodFact, BehaviorNames
  <2>2. \A b \in Behaviors : Lens(Now)[b] = 0
    BY <1>2, <1>3, <1>8 DEF Lens
  <2>3. Sum(Lens(Now)) = 0
    BY <2>1, <2>2, SumZero
  <2> QED BY <1>2, <2>3 DEF CountOk, Excess
<1>10. DurableAt(Now, disk)
  BY <1>2, <1>3, <1>8 DEF DurableAt
<1>11. TimersOk(Now, now, SettledAt(phase, calendar, failed), failed)
  <2>1. ASSUME NEW b \in Timed PROVE ArmedAt(Now, b, now) /\ QuietAt(Now, b, now)
    <3>1. b \in Behaviors /\ "wakeorpoweron" \in Behaviors
      BY BehaviorNames
    <3>2. copyMergedEventArray(Now, b) = {}
      BY <1>2, <1>3, <1>8, <3>1 DEF copyMergedEventArray
    <3>3. AgainAt(Now, b, now) = {}
      BY <1>1, <1>2 DEF AgainAt, RepeatOf
    <3>4. FutureAt(Now, b, now) = {}
      BY <3>2, <3>3 DEF FutureAt
    <3>5. ~(Now.beh[b].timer > now) /\ ~(Now.hw > now)
      BY <1>1, <1>2, <1>3, <3>1 DEF NoDate
    <3> QED BY <3>4, <3>5 DEF ArmedAt, QuietAt
  <2> QED BY <2>1 DEF TimersOk
<1>12. SleepAt(Now, now, phase, purge, due) /\ AlarmAt(Now, now, phase, rtc)
  BY <1>1 DEF SleepAt, AlarmAt
<1> QED BY <1>6, <1>7, <1>9, <1>10, <1>11, <1>12 DEF IndInv

LEMMA RequestStep ==
  ASSUME IndInv, Request
  PROVE  IndInv'
<1>1. CASE \E b \in Behaviors, ok \in BOOLEAN : \E e \in Events(b) :
             ScheduleEvent(b, e, ok) \/ CancelEvent(b, e, ok)
  <2>1. PICK b \in Behaviors, ok \in BOOLEAN :
          \E e \in Events(b) : ScheduleEvent(b, e, ok) \/ CancelEvent(b, e, ok)
    BY <1>1
  <2>2. PICK e \in Events(b) : ScheduleEvent(b, e, ok) \/ CancelEvent(b, e, ok)
    BY <2>1
  <2>3. CASE ScheduleEvent(b, e, ok) /\ ok = TRUE
    <3>1. ScheduleEvent(b, e, TRUE)
      BY <2>3
    <3> QED BY <3>1, ScheduledStep
  <2>4. CASE ScheduleEvent(b, e, ok) /\ ok = FALSE
    <3>1. ScheduleEvent(b, e, FALSE)
      BY <2>4
    <3> QED BY <3>1, RefusedStep
  <2>5. CASE CancelEvent(b, e, ok)
    BY <2>5, CancelStep
  <2>6. ok = TRUE \/ ok = FALSE
    OBVIOUS
  <2> QED BY <2>2, <2>3, <2>4, <2>5, <2>6, Zenon
<1>2. CASE \E bad \in Behaviors \cup {"none"} : removeAllEvents(bad)
  BY <1>2, RemoveAllStep
<1>3. CASE \E off \in RepeatsFor(Off), on \in RepeatsFor(On \cup {"wakeorpoweron"}),
              ok \in BOOLEAN : ScheduleRepeat(off, on, ok)
  <2>1. PICK off \in RepeatsFor(Off), on \in RepeatsFor(On \cup {"wakeorpoweron"}),
             ok \in BOOLEAN : ScheduleRepeat(off, on, ok)
    BY <1>3
  <2>2. PICK new \in RepeatSet : new = [off |-> off, on |-> on]
    BY DEF RepeatSet
  <2>3. Replace(new, ok)
    BY <2>1, <2>2 DEF ScheduleRepeat
  <2> QED BY <2>3, ReplaceStep
<1>4. CASE \E ok \in BOOLEAN : CancelRepeats(ok)
  <2>1. PICK ok \in BOOLEAN : CancelRepeats(ok)
    BY <1>4
  <2>2. PICK new \in RepeatSet : new = [off |-> NoRepeat, on |-> NoRepeat]
    BY DEF RepeatSet, RepeatsFor
  <2>3. Replace(new, ok)
    BY <2>1, <2>2 DEF CancelRepeats
  <2> QED BY <2>3, ReplaceStep
<1> QED BY <1>1, <1>2, <1>3, <1>4, Zenon DEF Request

LEMMA StutterStep ==
  ASSUME IndInv, UNCHANGED vars
  PROVE  IndInv'
<1>1. UNCHANGED <<now, beh, activeEventCnt, repeat, hw, disk, diskRepeat, calendar, phase, purge,
                  rtc, due, failed>>
  BY DEF vars, mem, saved, pm
<1>2. Commit(Now)
  BY <1>1 DEF Commit, Now
<1>3. Rest'
  BY <1>1 DEF IndInv, Rest
<1>4. /\ Good(Now) /\ CountOk(Now, failed') /\ DurableAt(Now, disk')
      /\ TimersOk(Now, now', SettledAt(phase', calendar', failed'), failed')
      /\ SleepAt(Now, now', phase', purge', due') /\ AlarmAt(Now, now', phase', rtc')
  BY <1>1 DEF IndInv
<1> QED BY <1>2, <1>3, <1>4, InvNext

\* The invariant holds in every reachable state.
LEMMA Invariant == Spec => []IndInv
<1>1. Init => IndInv
  BY Initially
<1>2. IndInv /\ [Next]_vars => IndInv'
  <2> SUFFICES ASSUME IndInv, [Next]_vars PROVE IndInv'
    OBVIOUS
  <2>1. CASE Request
    BY <2>1, RequestStep
  <2>2. CASE Restart
    BY <2>2, PrimeStep DEF Restart
  <2>3. CASE \E b \in Timed : handleTimerExpiration(b)
    BY <2>3, TimerStep
  <2>4. CASE \E t \in Calendars : SetCalendar(t)
    BY <2>4, SetCalendarStep
  <2>5. CASE AutoWakeCalendarChange
    BY <2>5, CalendarChangeStep
  <2>6. CASE \E tty, dark \in BOOLEAN : handleCanSleepMsg(tty, dark)
    BY <2>6, CanSleepStep
  <2>7. CASE handleLastCallMsg
    BY <2>7, LastCallStep
  <2>8. CASE WillNotSleep
    BY <2>8, WillNotSleepStep
  <2>9. CASE SystemWillSleep
    BY <2>9, WillSleepStep
  <2>10. CASE SystemDidWake
    BY <2>10, DidWakeStep
  <2>11. CASE Tick
    BY <2>11, TickStep
  <2>12. CASE UNCHANGED vars
    BY <2>12, StutterStep
  <2> QED BY <2>1, <2>2, <2>3, <2>4, <2>5, <2>6, <2>7, <2>8, <2>9, <2>10, <2>11, <2>12,
             Zenon DEF Next
<1> QED BY <1>1, <1>2, PTL DEF Spec

-----------------------------------------------------------------------------
(* The theorems.                                                            *)

\* The variables keep their types and the arrays, in memory and in the preferences,
\* stay sorted by date, whatever is added, removed, purged and read back.
THEOREM TypeCorrect == Spec => []TypeOK
<1>1. IndInv => TypeOK
  <2> SUFFICES ASSUME IndInv PROVE TypeOK
    OBVIOUS
  <2>1. Rest /\ Good(Now)
    BY DEF IndInv
  <2>2. Now.beh = beh /\ Now.cnt = activeEventCnt /\ Now.repeat = repeat /\ Now.hw = hw
    BY DEF Now
  <2>3. /\ beh \in [Behaviors -> BehaviorSet] /\ repeat \in RepeatSet /\ hw \in Int
        /\ activeEventCnt \in Int
    BY <2>1, <2>2 DEF Good, Works
  <2>4. \A b \in Behaviors : beh[b].queue \in Arrays(b) /\ (beh[b].made \/ beh[b].queue = <<>>)
    BY <2>1, <2>2 DEF Good
  <2>5. disk \in [Behaviors -> Seq(Wanted)] /\ \A b \in Behaviors : disk[b] \in Arrays(b)
    BY <2>1 DEF Rest, DiskOk
  <2>6. activeEventCnt \in Nat
    <3>1. Sum(Lens(Now)) \in Nat
      BY <2>1, GoodFact, BehaviorNames, SumNat
    <3>2. activeEventCnt - Sum(Lens(Now)) >= 0
      BY <2>2 DEF IndInv, CountOk, Excess
    <3> QED BY <2>3, <3>1, <3>2
  <2> QED BY <2>1, <2>3, <2>4, <2>5, <2>6 DEF TypeOK, Rest
<1> QED BY <1>1, Invariant, PTL

\* activeEventCnt, by which requests are accepted or refused, is the number of events
\* in the arrays, unless a removal of all events failed half way.
THEOREM CountIsExact == Spec => []CountExact
<1>1. IndInv => CountExact
  <2> SUFFICES ASSUME IndInv, "all" \notin failed
               PROVE  activeEventCnt = Sum([b \in Behaviors |-> Len(beh[b].queue)])
    BY DEF CountExact
  <2>1. Lens(Now) = [b \in Behaviors |-> Len(beh[b].queue)] /\ Now.cnt = activeEventCnt
    BY DEF Lens, Now
  <2>2. Now.cnt \in Int /\ Sum(Lens(Now)) \in Nat
    BY GoodFact, BehaviorNames, SumNat DEF IndInv, Good, Works
  <2>3. Now.cnt - Sum(Lens(Now)) = 0
    BY DEF IndInv, CountOk, Excess
  <2>4. Now.cnt = Sum(Lens(Now))
    BY <2>2, <2>3
  <2> QED BY <2>1, <2>4
<1> QED BY <1>1, Invariant, PTL

\* Every event in memory is in the preferences, whichever saves have failed: a
\* restart of powerd forgets none.
THEOREM NothingIsForgotten == Spec => []Durable
<1>1. IndInv => Durable
  BY DEF IndInv, DurableAt, Durable, Now
<1> QED BY <1>1, Invariant, PTL

LEMMA FutureNow ==
  ASSUME NEW b
  PROVE  Future(b) = FutureAt(Now, b, now)
  BY DEF Future, FutureAt, copyNextRepeatingEvent, AgainAt

\* A repeating event with days is ahead.
LEMMA DaysAreAhead ==
  ASSUME IndInv, NEW b \in Timed, HasDays(b)
  PROVE  Ahead(Now, b, now)
<1>1. now \in Nat /\ Good(Now)
  BY RestFact DEF IndInv
<1>2. ASSUME NEW r \in RepeatOf(Now, b) PROVE RepeatDate(r, now) > now
  <2>1. Now.repeat.off \in {NoRepeat} \cup Repeats /\ Now.repeat.on \in {NoRepeat} \cup Repeats
    <3>1. Now.repeat \in RepeatSet
      BY <1>1 DEF Good, Works
    <3> QED BY <3>1 DEF RepeatSet, RepeatsFor
  <2>2. r \in Repeats /\ r.days # {}
    BY <2>1 DEF RepeatOf, HasDays
  <2> QED BY <1>1, <2>2, RepeatDateType
<1>3. \A e \in AgainAt(Now, b, now) : e.date > now
  BY <1>2 DEF AgainAt
<1> QED BY <1>3 DEF Ahead, FutureAt

\* No event is overslept: whatever was requested, cancelled, purged or repeated, and
\* whenever the clock was set, the timer of a behaviour is armed for its earliest
\* event to come or before, and so is the hardware; unless the chosen event was within
\* a millisecond of its date, or its repeating event is set for no day.
THEOREM NothingIsOverslept == Spec => []EarliestIsArmed
<1>1. IndInv => EarliestIsArmed
  <2> SUFFICES ASSUME IndInv, NEW b \in Timed, Settled, HasDays(b), ~beh[b].edge,
                      NEW e \in Future(b)
               PROVE  /\ beh[b].timer # NoDate /\ beh[b].timer <= e.date
                      /\ b = "poweron" => hw # NoDate /\ hw <= e.date
    BY DEF EarliestIsArmed
  <2>1. ArmedAt(Now, b, now) /\ Ahead(Now, b, now)
    BY DaysAreAhead DEF IndInv, TimersOk, Settled, SettledAt
  <2>2. Now.beh = beh /\ Now.hw = hw
    BY DEF Now
  <2>3. e \in FutureAt(Now, b, now)
    BY FutureNow
  <2> QED BY <2>1, <2>2, <2>3 DEF ArmedAt
<1> QED BY <1>1, Invariant, PTL

\* What was cancelled does not happen: a timer ahead, or a date the hardware was
\* given, belongs to an event that is still scheduled.
THEOREM CancelledIsQuiet == Spec => []CancelledStaysQuiet
<1>1. IndInv => CancelledStaysQuiet
  <2> SUFFICES ASSUME IndInv, Settled, "all" \notin failed
               PROVE  /\ \A b \in Timed : beh[b].timer > now =>
                           \E e \in Future(b) : e.date = beh[b].timer
                      /\ hw > now => \E e \in Future("poweron") : e.date = hw
    BY DEF CancelledStaysQuiet
  <2>1. \A b \in Timed : QuietAt(Now, b, now)
    BY DEF IndInv, TimersOk, Settled, SettledAt
  <2>2. Now.beh = beh /\ Now.hw = hw /\ "poweron" \in Timed
    BY BehaviorNames DEF Now, Timed, On
  <2>3. \A b \in Timed : beh[b].timer > now => \E e \in Future(b) : e.date = beh[b].timer
    BY <2>1, <2>2, FutureNow DEF QuietAt
  <2>4. hw > now => \E e \in Future("poweron") : e.date = hw
    BY <2>1, <2>2, FutureNow DEF QuietAt
  <2> QED BY <2>3, <2>4
<1> QED BY <1>1, Invariant, PTL

\* The date daysUntil leads to is the next occurrence of the repeating event: for any
\* length of the day, any mask with a day and any time.
THEOREM RepeatingIsNext == Spec => []RepeatIsNext
<1>1. IndInv => RepeatIsNext
  <2> SUFFICES ASSUME IndInv, NEW r \in Repeats, r.days # {}
               PROVE  /\ RepeatDate(r, now) > now /\ Occurs(r, RepeatDate(r, now))
                      /\ \A t \in (now + 1)..(RepeatDate(r, now) - 1) : ~Occurs(r, t)
    BY DEF RepeatIsNext, Occurs
  <2>1. now \in Nat
    BY RestFact DEF IndInv
  <2> QED BY <2>1, RepeatDateIsNext
<1> QED BY <1>1, Invariant, PTL

\* A wake request that comes due between a question asked outside dark wake and the
\* last call cancels the sleep, if all applications ask for the same leeway.
THEOREM DueIsNotSleptThrough == Spec => []NotSleptThrough
<1>1. IndInv => NotSleptThrough
  BY DEF IndInv, SleepAt, NotSleptThrough
<1> QED BY <1>1, Invariant, PTL

\* The alarm the system sleeps with is no later than any request to wake it, unless the
\* repeating event is set for no day.
THEOREM AlarmIsInTime == Spec => []AlarmIsEarliest
<1>1. IndInv => AlarmIsEarliest
  <2> SUFFICES ASSUME IndInv, phase = "asleep", HasDays("wake"), NEW e \in Future("wake")
               PROVE  rtc # NoDate /\ rtc <= getWakeScheduleTime(e)
    BY DEF AlarmIsEarliest
  <2>1. "wake" \in Timed
    BY BehaviorNames DEF Timed, On
  <2>2. Ahead(Now, "wake", now)
    BY <2>1, DaysAreAhead
  <2> QED BY <2>2, FutureNow DEF IndInv, AlarmAt
<1> QED BY <1>1, Invariant, PTL
=============================================================================
