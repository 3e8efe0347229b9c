--------------------------- MODULE GasGaugeProofs ---------------------------
(***************************************************************************)
(* Proofs about GasGauge, for data of any length, any number of retries    *)
(* and any number of failures.                                             *)
(***************************************************************************)
EXTENDS GasGauge, SequenceTheorems, TLAPS

-----------------------------------------------------------------------------
(* The script of each call, by position.                                    *)

Values == [k : Kinds, v : Nat]
Exchanges == [op : Ops, data : Values, expect : SUBSET States]

Last(what) ==
  CASE what = "start" -> 3
    [] what = "commit" -> 1
    [] what = "info" -> 2
    [] what \in {"certificate", "manifest"} -> Blocks + 4
    [] OTHER -> Blocks + 3

DataExchange(k) == Exchange("data", Value("block", k), Ready)

LEMMA BlocksFact == Blocks \in Nat \ {0}
BY GasGaugeAssumption DEF Blocks

LEMMA ExchangeFact ==
  ASSUME NEW op \in Ops, NEW k \in Kinds, NEW v \in Nat, NEW expect \in SUBSET States
  PROVE  Exchange(op, Value(k, v), expect) \in Exchanges
BY DEF Exchange, Value, Exchanges, Values

LEMMA Words ==
  /\ Images \subseteq Kinds /\ "ready" \in States /\ "success" \in States
  /\ "none" \in Kinds /\ "length" \in Kinds /\ "block" \in Kinds
  /\ "types" \in Kinds /\ "signature" \in Kinds
  /\ \A op \in {"status", "startImage", "length", "data", "done", "startCrypto", "sign1", "sign2"} :
       op \in Ops
BY DEF Images, Kinds, States, Ops

LEMMA DataFact ==
  /\ _writeDataDataGated("data") \in Seq(Exchanges)
  /\ Len(_writeDataDataGated("data")) = Blocks
  /\ \A k \in 1..Blocks : _writeDataDataGated("data")[k] = DataExchange(k)
<1>1. \A k \in 1..Blocks : DataExchange(k) \in Exchanges
  BY BlocksFact, ExchangeFact, Words DEF DataExchange, Ready
<1>2. _writeDataDataGated("data") = [k \in 1..Blocks |-> DataExchange(k)]
  BY DEF _writeDataDataGated, DataExchange
<1> QED BY <1>1, <1>2, BlocksFact

LEMMA OneFact ==
  ASSUME NEW S, NEW x \in S
  PROVE  <<x>> \in Seq(S) /\ Len(<<x>>) = 1 /\ <<x>>[1] = x
OBVIOUS

\* A poll, a first command, the blocks, and what follows them.
Framed(s, x, d, f) == <<s>> \o (<<x>> \o d \o f)

Shape(q, s, x, d, f) ==
  /\ Len(q) = Len(d) + Len(f) + 2
  /\ q[1] = s /\ q[2] = x
  /\ \A k \in 1..Len(d) : q[k + 2] = d[k]
  /\ \A k \in 1..Len(f) : q[Len(d) + 2 + k] = f[k]

LEMMA Joined ==
  ASSUME NEW s \in Exchanges, NEW x \in Exchanges, NEW d \in Seq(Exchanges),
         NEW f \in Seq(Exchanges)
  PROVE  Shape(Framed(s, x, d, f), s, x, d, f)
<1> DEFINE S == Exchanges
           h == <<s>>
           g == <<x>>
           a == g \o d
           b == a \o f
           q == h \o b
<1>1. h \in Seq(S) /\ Len(h) = 1 /\ h[1] = s /\ g \in Seq(S) /\ Len(g) = 1 /\ g[1] = x
  BY OneFact
<1> HIDE DEF h, g
<1>2. /\ a \in Seq(S) /\ Len(a) = 1 + Len(d) /\ Len(d) \in Nat
      /\ a[1] = x /\ \A k \in 1..Len(d) : a[1 + k] = d[k]
  <2>1. g \in Seq(S) /\ d \in Seq(S)
    BY <1>1
  <2>2. /\ g \o d \in Seq(S) /\ Len(g \o d) = Len(g) + Len(d)
        /\ Len(g) \in Nat /\ Len(d) \in Nat
        /\ \A k \in 1..Len(g) : (g \o d)[k] = g[k]
        /\ \A k \in 1..Len(d) : (g \o d)[Len(g) + k] = d[k]
    BY <2>1
  <2> QED BY <1>1, <2>2
<1> HIDE DEF a
<1>3. /\ b \in Seq(S) /\ Len(b) = Len(a) + Len(f) /\ Len(f) \in Nat
      /\ \A k \in 1..Len(a) : b[k] = a[k]
      /\ \A k \in 1..Len(f) : b[Len(a) + k] = f[k]
  <2>1. a \in Seq(S) /\ f \in Seq(S)
    BY <1>2
  <2>2. /\ a \o f \in Seq(S) /\ Len(a \o f) = Len(a) + Len(f)
        /\ Len(a) \in Nat /\ Len(f) \in Nat
        /\ \A k \in 1..Len(a) : (a \o f)[k] = a[k]
        /\ \A k \in 1..Len(f) : (a \o f)[Len(a) + k] = f[k]
    BY <2>1
  <2> QED BY <2>2
<1> HIDE DEF b
<1>4. /\ Len(q) = 1 + Len(b) /\ q[1] = s
      /\ \A k \in 1..Len(b) : q[1 + k] = b[k]
  <2>1. h \in Seq(S) /\ b \in Seq(S)
    BY <1>1, <1>3
  <2>2. /\ h \o b \in Seq(S) /\ Len(h \o b) = Len(h) + Len(b)
        /\ Len(h) \in Nat /\ Len(b) \in Nat
        /\ \A k \in 1..Len(h) : (h \o b)[k] = h[k]
        /\ \A k \in 1..Len(b) : (h \o b)[Len(h) + k] = b[k]
    BY <2>1
  <2> QED BY <1>1, <2>2
<1> HIDE DEF q
<1>5. q[2] = x
  <2>1. 1 \in 1..Len(b) /\ 1 \in 1..Len(a) /\ 1 + 1 = 2
    BY <1>2, <1>3
  <2>2. q[1 + 1] = b[1] /\ b[1] = a[1]
    BY <1>3, <1>4, <2>1
  <2> QED BY <1>2, <2>1, <2>2
<1>6. ASSUME NEW k \in 1..Len(d) PROVE q[k + 2] = d[k]
  <2>1. 1 + k \in 1..Len(b) /\ 1 + k \in 1..Len(a) /\ 1 + (1 + k) = k + 2
    BY <1>2, <1>3
  <2>2. q[1 + (1 + k)] = b[1 + k] /\ b[1 + k] = a[1 + k]
    BY <1>3, <1>4, <2>1
  <2> QED BY <1>2, <2>1, <2>2
<1>7. ASSUME NEW k \in 1..Len(f) PROVE q[Len(d) + 2 + k] = f[k]
  <2>1. Len(a) + k \in 1..Len(b) /\ 1 + (Len(a) + k) = Len(d) + 2 + k
    BY <1>2, <1>3
  <2>2. q[1 + (Len(a) + k)] = b[Len(a) + k] /\ b[Len(a) + k] = f[k]
    BY <1>3, <1>4, <2>1
  <2> QED BY <2>1, <2>2
<1>8. Len(q) = Len(d) + Len(f) + 2
  BY <1>2, <1>3, <1>4
<1>9. q = Framed(s, x, d, f)
  BY DEF Framed, q, b, a, h, g
<1> QED BY <1>4, <1>5, <1>6, <1>7, <1>8, <1>9 DEF Shape

ImageShape(q, what, two) ==
  /\ Len(q) = Blocks + 3
  /\ q[1] = Exchange("status", None, FirstStates(what))
  /\ q[2] = Exchange("startImage", Value(what, 0), Ready)
  /\ \A k \in 1..Blocks : q[k + 2] = DataExchange(k)
  /\ q[Blocks + 3] = Exchange("done", Value("length", Blocks % 65536), {FinalState(what, two)})

LEMMA ImageScript ==
  ASSUME NEW what \in Images
  PROVE  ImageShape(Script(what), what, ggTwoStageUpdate)
<1> DEFINE s == Exchange("status", None, FirstStates(what))
           x == Exchange("startImage", Value(what, 0), Ready)
           d == _writeDataDataGated("data")
           y == Exchange("done", Value("length", Blocks % 65536),
                         {FinalState(what, ggTwoStageUpdate)})
           q == Script(what)
<1>1. what \in Images /\ what \notin {"info", "start", "commit"}
  BY DEF Images
<1>2. s \in Exchanges
  <2>1. FirstStates(what) \in SUBSET States
    BY DEF FirstStates, Ready, States
  <2> QED BY <2>1, Words, ExchangeFact DEF None
<1>3. x \in Exchanges
  BY <1>1, Words, ExchangeFact DEF Ready
<1>4. y \in Exchanges
  <2>1. {FinalState(what, ggTwoStageUpdate)} \in SUBSET States
    BY DEF FinalState, States
  <2>2. Blocks % 65536 \in Nat
    BY BlocksFact
  <2> QED BY <2>1, <2>2, Words, ExchangeFact
<1>5. <<y>> \in Seq(Exchanges) /\ Len(<<y>>) = 1 /\ <<y>>[1] = y
  BY <1>4
<1>6. q = <<s>> \o (<<x>> \o d \o <<y>>)
  BY <1>1 DEF Script, _writeDataGated, _startImageGated, _writeDataLengthGated
<1> HIDE DEF s, x, d, y, q
<1> DEFINE f == <<y>>
<1>7. f \in Seq(Exchanges) /\ Len(f) = 1 /\ f[1] = y /\ q = <<s>> \o (<<x>> \o d \o f)
  BY <1>5, <1>6
<1> HIDE DEF f
<1>8. d \in Seq(Exchanges) /\ Len(d) = Blocks /\ \A k \in 1..Blocks : d[k] = DataExchange(k)
  BY DataFact DEF d
<1>9. /\ Len(q) = Len(d) + Len(f) + 2
      /\ q[1] = s /\ q[2] = x
      /\ \A k \in 1..Len(d) : q[k + 2] = d[k]
      /\ \A k \in 1..Len(f) : q[Len(d) + 2 + k] = f[k]
  <2> DEFINE j == Framed(s, x, d, f)
  <2>1. s \in Exchanges /\ x \in Exchanges /\ d \in Seq(Exchanges) /\ f \in Seq(Exchanges)
    BY <1>2, <1>3, <1>7, <1>8
  <2>2. Shape(j, s, x, d, f)
    BY <2>1, Joined
  <2>3. q = j
    BY <1>7 DEF Framed
  <2> HIDE DEF j
  <2> QED BY <2>2, <2>3 DEF Shape
<1>10. q[Blocks + 3] = y
  <2>1. 1 \in 1..Len(f) /\ Len(d) + 2 + 1 = Blocks + 3
    BY <1>7, <1>8, BlocksFact
  <2>2. q[Len(d) + 2 + 1] = f[1]
    BY <1>9, <2>1
  <2> QED BY <1>7, <2>1, <2>2
<1>11. Len(q) = Blocks + 3
  BY <1>7, <1>8, <1>9, BlocksFact
<1> QED BY <1>8, <1>9, <1>10, <1>11 DEF s, x, y, q, ImageShape

\* After the blocks of a signed transfer: its signature, or the type of the digest.
Ending(what) == IF what = "digest" THEN _startCryptoGated ELSE _writeDataSignatureGated

LEMMA SignedScript ==
  ASSUME NEW what \in Signed \cup {"digest"}
  PROVE  LET q == Script(what) IN
         /\ Len(q) = IF what = "digest" THEN Blocks + 3 ELSE Blocks + 4
         /\ q[1] = Exchange("status", None, Ready)
         /\ q[2] = Exchange("length", Value("length", Bytes % 65536), Ready)
         /\ \A k \in 1..Blocks : q[k + 2] = DataExchange(k)
         /\ \A k \in Blocks + 3..Len(q) :
              \E op \in {"sign1", "sign2", "startCrypto"} :
                q[k].op = op /\ q[k].data \in Values /\ q[k].expect = Ready
<1> DEFINE s == Exchange("status", None, Ready)
           x == Exchange("length", Value("length", Bytes % 65536), Ready)
           d == _writeDataDataGated("data")
           f == Ending(what)
           q == Script(what)
<1>1. what \in Signed \cup {"digest"} /\ what \notin {"info", "start", "commit"}
      /\ what \notin Images
  BY DEF Images, Signed
<1>2. s \in Exchanges
  BY Words, ExchangeFact DEF None, Ready
<1>3. x \in Exchanges
  <2>1. Bytes % 65536 \in Nat
    BY GasGaugeAssumption
  <2> QED BY <2>1, Words, ExchangeFact DEF Ready
<1>4. /\ f \in Seq(Exchanges) /\ Len(f) = (IF what = "digest" THEN 1 ELSE 2)
      /\ \A k \in 1..Len(f) :
           \E op \in {"sign1", "sign2", "startCrypto"} :
             f[k].op = op /\ f[k].data \in Values /\ f[k].expect = Ready
  <2>1. /\ Exchange("startCrypto", Value("types", 0), Ready) \in Exchanges
        /\ Exchange("sign1", Value("signature", 1), Ready) \in Exchanges
        /\ Exchange("sign2", Value("signature", 2), Ready) \in Exchanges
    BY Words, ExchangeFact DEF Ready
  <2>2. CASE what = "digest"
    BY <2>1, <2>2 DEF Ending, _startCryptoGated, Exchange, Exchanges
  <2>3. CASE what # "digest"
    BY <2>1, <2>3 DEF Ending, _writeDataSignatureGated, Exchange, Exchanges
  <2> QED BY <2>2, <2>3
<1>5. q = <<s>> \o (<<x>> \o d \o f)
  <2>1. FirstStates(what) = Ready
    BY <1>1 DEF FirstStates
  <2>2. Script(what) = _writeDataGated(what)
    BY <1>1 DEF Script
  <2>3. _writeDataGated(what) =
          <<Exchange("status", None, FirstStates(what))>> \o
          (_writeDataLengthGated("length", Bytes, Ready) \o d \o f)
    BY <1>1 DEF _writeDataGated, Ending
  <2>4. _writeDataLengthGated("length", Bytes, Ready) = <<x>>
    BY DEF _writeDataLengthGated
  <2>5. <<Exchange("status", None, FirstStates(what))>> = <<s>>
    BY <2>1
  <2> HIDE DEF s, x, d, f
  <2> QED BY <2>2, <2>3, <2>4, <2>5
<1>6. d \in Seq(Exchanges) /\ Len(d) = Blocks /\ \A k \in 1..Blocks : d[k] = DataExchange(k)
  BY DataFact
<1> HIDE DEF s, x, d, q, f
<1>7. /\ Len(q) = Len(d) + Len(f) + 2
      /\ q[1] = s /\ q[2] = x
      /\ \A k \in 1..Len(d) : q[k + 2] = d[k]
      /\ \A k \in 1..Len(f) : q[Len(d) + 2 + k] = f[k]
  <2> DEFINE j == Framed(s, x, d, f)
  <2>1. s \in Exchanges /\ x \in Exchanges /\ d \in Seq(Exchanges) /\ f \in Seq(Exchanges)
    BY <1>2, <1>3, <1>4, <1>6
  <2>2. Shape(j, s, x, d, f)
    BY <2>1, Joined
  <2>3. q = j
    BY <1>5 DEF Framed
  <2> HIDE DEF j
  <2> QED BY <2>2, <2>3 DEF Shape
<1>8. Len(q) = IF what = "digest" THEN Blocks + 3 ELSE Blocks + 4
  BY <1>4, <1>6, <1>7, BlocksFact
<1>9. ASSUME NEW k \in Blocks + 3..Len(q)
      PROVE  \E op \in {"sign1", "sign2", "startCrypto"} :
               q[k].op = op /\ q[k].data \in Values /\ q[k].expect = Ready
  <2> DEFINE m == k - (Blocks + 2)
  <2>1. m \in 1..Len(f) /\ Len(d) + 2 + m = k
    BY <1>4, <1>6, <1>8, BlocksFact
  <2> HIDE DEF m
  <2>2. q[k] = f[m]
    BY <1>7, <2>1
  <2> QED BY <1>4, <2>1, <2>2
<1> QED BY <1>6, <1>7, <1>8, <1>9 DEF s, x, q

LEMMA ReadScript ==
  /\ LET q == Script("start") IN
     /\ Len(q) = 3 /\ q[1] = Exchange("startUpdate", None, Ready)
     /\ q[2] = Exchange("uid", None, {}) /\ q[3] = Exchange("nonce", None, {})
  /\ LET q == Script("info") IN
     /\ Len(q) = 2 /\ q[1] = Exchange("info", None, {}) /\ q[2] = Exchange("info2", None, {})
  /\ LET q == Script("commit") IN
     Len(q) = 1 /\ q[1] = Exchange("commit", None, {"success"})
<1>1. ASSUME NEW x, NEW y, NEW z
      PROVE  /\ LET q == <<x>> \o <<y>> IN Len(q) = 2 /\ q[1] = x /\ q[2] = y
             /\ LET q == <<x>> \o <<y>> \o <<z>> IN Len(q) = 3 /\ q[1] = x /\ q[2] = y /\ q[3] = z
  <2> DEFINE S == {x, y, z}
             a == <<x>>
             b == <<y>>
             e == <<z>>
             ab == a \o b
             q == ab \o e
  <2>1. /\ a \in Seq(S) /\ Len(a) = 1 /\ a[1] = x
        /\ b \in Seq(S) /\ Len(b) = 1 /\ b[1] = y
        /\ e \in Seq(S) /\ Len(e) = 1 /\ e[1] = z
    BY OneFact
  <2> HIDE DEF a, b, e, S
  <2>2. /\ ab \in Seq(S) /\ Len(ab) = 2
        /\ \A k \in 1..1 : ab[k] = a[k]
        /\ \A k \in 1..1 : ab[1 + k] = b[k]
    <3>1. a \in Seq(S) /\ b \in Seq(S)
      BY <2>1
    <3>2. /\ a \o b \in Seq(S) /\ Len(a \o b) = Len(a) + Len(b)
          /\ Len(a) \in Nat /\ Len(b) \in Nat
          /\ \A k \in 1..Len(a) : (a \o b)[k] = a[k]
          /\ \A k \in 1..Len(b) : (a \o b)[Len(a) + k] = b[k]
      BY <3>1
    <3> QED BY <2>1, <3>2
  <2>3. ab[1] = x /\ ab[1 + 1] = y
    BY <2>1, <2>2
  <2> HIDE DEF ab
  <2>4. /\ Len(q) = 3
        /\ \A k \in 1..2 : q[k] = ab[k]
        /\ \A k \in 1..1 : q[2 + k] = e[k]
    <3>1. ab \in Seq(S) /\ e \in Seq(S)
      BY <2>1, <2>2
    <3>2. /\ ab \o e \in Seq(S) /\ Len(ab \o e) = Len(ab) + Len(e)
          /\ Len(ab) \in Nat /\ Len(e) \in Nat
          /\ \A k \in 1..Len(ab) : (ab \o e)[k] = ab[k]
          /\ \A k \in 1..Len(e) : (ab \o e)[Len(ab) + k] = e[k]
      BY <3>1
    <3> QED BY <2>1, <2>2, <3>2
  <2>5. q[1] = x /\ q[2] = y /\ q[2 + 1] = z
    BY <2>1, <2>3, <2>4
  <2> QED BY <2>2, <2>3, <2>4, <2>5 DEF q, ab, a, b, e
<1>2. Script("start") = <<Exchange("startUpdate", None, Ready)>> \o <<Exchange("uid", None, {})>>
                        \o <<Exchange("nonce", None, {})>>
  BY DEF Script, _startUpdateGated, _initUpdateGated, _getBatteryIdGated,
         _getChallengeDataGated, Reads
<1>3. Script("info") = <<Exchange("info", None, {})>> \o <<Exchange("info2", None, {})>>
  BY DEF Script, _getInfoGated, Reads
<1>4. Script("commit") = <<Exchange("commit", None, {"success"})>>
  BY DEF Script, _commitImageGated
<1> QED BY <1>1, <1>2, <1>3, <1>4

LEMMA LastFact ==
  ASSUME NEW what \in Whats
  PROVE  Len(Script(what)) = Last(what) /\ Last(what) \in Nat \ {0}
<1>1. what \in Sent \cup {"info", "start", "commit"}
  BY GasGaugeAssumption
<1>2. CASE what \in {"info", "start", "commit"}
  BY <1>2, ReadScript DEF Last
<1>3. CASE what \in Images
  BY <1>3, ImageScript, BlocksFact DEF Last, Images, ImageShape
<1>4. CASE what \in Signed
  BY <1>4, SignedScript, BlocksFact DEF Last, Signed
<1>5. CASE what = "digest"
  BY <1>5, SignedScript, BlocksFact DEF Last
<1> QED BY <1>1, <1>2, <1>3, <1>4, <1>5 DEF Sent

\* What the proofs need of the exchange at place i of a call.
ExchangeAt(what, i, e, two) ==
  /\ e.op \in Ops \ {"none"} /\ e.data \in Values /\ "busy" \notin e.expect
  /\ e.op = "status" <=> what \in Sent /\ i = 1
  /\ e.expect = {} <=> e.op \in {"info", "info2", "uid", "nonce"}
  /\ what = "start" => e.op = IF i = 1 THEN "startUpdate" ELSE IF i = 2 THEN "uid" ELSE "nonce"
  /\ what = "info" => e.op = IF i = 1 THEN "info" ELSE "info2"
  /\ what = "commit" => e.op = "commit" /\ e.expect = {"success"}
  /\ what \in Sent /\ i = 2 =>
       /\ what \in Images => e.op = "startImage" /\ e.data = Value(what, 0)
       /\ what \notin Images => e.op = "length"
  /\ what \in Sent /\ i >= 3 /\ i <= Blocks + 2 => e.op = "data" /\ e.data = Value("block", i - 2)
  /\ what \in Sent /\ i > Blocks + 2 =>
       /\ what \in Images => e.op = "done" /\ i = Last(what) /\ e.expect = {FinalState(what, two)}
       /\ what \notin Images => e.op \in {"sign1", "sign2", "startCrypto"}

LEMMA AtFact ==
  ASSUME NEW what \in Whats, NEW i \in 1..Last(what)
  PROVE  ExchangeAt(what, i, Script(what)[i], ggTwoStageUpdate)
<1> DEFINE e == Script(what)[i]
           Means(x, op, data, expect) == x.op = op /\ x.data = data /\ x.expect = expect
<1>1. what \in Sent \cup {"info", "start", "commit"}
  BY GasGaugeAssumption
<1>2. \A op, data, expect : Means(Exchange(op, data, expect), op, data, expect)
  BY DEF Exchange
<1>3. None \in Values /\ \A v \in Nat : Value("length", v) \in Values /\ Value("block", v) \in Values
  BY DEF None, Value, Values, Kinds
<1>4. \A x \in Images : Value(x, 0) \in Values
  BY DEF Value, Values, Kinds
<1>5. Last(what) \in Nat \ {0}
  BY LastFact
<1>6. CASE what = "start"
  <2>1. i \in {1, 2, 3}
    BY <1>6 DEF Last
  <2>2. \/ i = 1 /\ Means(e, "startUpdate", None, Ready)
        \/ i = 2 /\ Means(e, "uid", None, {})
        \/ i = 3 /\ Means(e, "nonce", None, {})
    BY <1>2, <1>6, <2>1, ReadScript
  <2> QED BY <1>3, <1>6, <2>2 DEF ExchangeAt, Ready, Ops, Sent, Images, Signed
<1>7. CASE what = "info"
  <2>1. i \in {1, 2}
    BY <1>7 DEF Last
  <2>2. \/ i = 1 /\ Means(e, "info", None, {})
        \/ i = 2 /\ Means(e, "info2", None, {})
    BY <1>2, <1>7, <2>1, ReadScript
  <2> QED BY <1>3, <1>7, <2>2 DEF ExchangeAt, Ops, Sent, Images, Signed
<1>8. CASE what = "commit"
  <2>1. i = 1
    BY <1>8 DEF Last
  <2>2. Means(e, "commit", None, {"success"})
    BY <1>2, <1>8, <2>1, ReadScript
  <2> QED BY <1>3, <1>8, <2>2 DEF ExchangeAt, Ops, Sent, Images, Signed
<1>9. CASE what \in Sent
  <2>1. what \notin {"start", "info", "commit"}
    BY <1>9 DEF Sent, Images, Signed
  <2>2. Blocks \in Nat \ {0} /\ i \in Nat \ {0} /\ i <= Last(what)
    BY <1>5, BlocksFact
  <2> DEFINE q == Script(what)
  <2>2a. what \in Images => ImageShape(q, what, ggTwoStageUpdate)
    BY ImageScript
  <2>3. CASE i = 1
    <3>1. CASE what \in Images
      <4>1. Means(e, "status", None, FirstStates(what))
        <5>1. e = Exchange("status", None, FirstStates(what))
          BY <2>3, <3>1, <2>2a DEF ImageShape
        <5> HIDE DEF e, Means
        <5> QED BY <1>2, <5>1
      <4>2. "busy" \notin FirstStates(what) /\ FirstStates(what) # {}
        BY DEF FirstStates, Ready
      <4> QED BY <1>3, <1>9, <2>1, <2>2, <2>3, <4>1, <4>2 DEF ExchangeAt, Ops
    <3>2. CASE what \notin Images
      <4>1. Means(e, "status", None, Ready)
        BY <1>2, <1>9, <2>3, <3>2, SignedScript DEF Sent
      <4>2. "busy" \notin Ready /\ Ready # {}
        BY DEF Ready
      <4> QED BY <1>3, <1>9, <2>1, <2>2, <2>3, <4>1, <4>2 DEF ExchangeAt, Ops
    <3> QED BY <3>1, <3>2
  <2>4. CASE i = 2
    <3>1. CASE what \in Images
      <4>1. Means(e, "startImage", Value(what, 0), Ready)
        <5>1. e = Exchange("startImage", Value(what, 0), Ready)
          BY <2>4, <3>1, <2>2a DEF ImageShape
        <5> HIDE DEF e, Means
        <5> QED BY <1>2, <5>1
      <4> QED BY <1>4, <1>9, <2>1, <2>2, <2>4, <3>1, <4>1 DEF ExchangeAt, Ops, Ready
    <3>2. CASE what \notin Images
      <4>1. Means(e, "length", Value("length", Bytes % 65536), Ready)
        BY <1>2, <1>9, <2>4, <3>2, SignedScript DEF Sent
      <4>2. Bytes % 65536 \in Nat
        BY GasGaugeAssumption
      <4> QED BY <1>3, <1>9, <2>1, <2>2, <2>4, <3>2, <4>1, <4>2 DEF ExchangeAt, Ops, Ready
    <3> QED BY <3>1, <3>2
  <2>5. CASE i >= 3 /\ i <= Blocks + 2
    <3>1. i - 2 \in 1..Blocks /\ (i - 2) + 2 = i /\ i - 2 \in Nat
      BY <2>2, <2>5
    <3>2. \A k \in 1..Blocks : Script(what)[k + 2] = DataExchange(k)
      <4>1. CASE what \in Images
        BY <4>1, <2>2a DEF ImageShape
      <4>2. CASE what \in Signed \cup {"digest"}
        BY <4>2, SignedScript
      <4> QED BY <1>9, <4>1, <4>2 DEF Sent
    <3>3. e = DataExchange(i - 2)
      BY <3>1, <3>2
    <3>4. Means(e, "data", Value("block", i - 2), Ready)
      BY <1>2, <3>3 DEF DataExchange
    <3> QED BY <1>3, <1>9, <2>1, <2>2, <2>5, <3>1, <3>4 DEF ExchangeAt, Ops, Ready
  <2>6. CASE i > Blocks + 2
    <3>1. CASE what \in Images
      <4>1. i = Blocks + 3 /\ Last(what) = Blocks + 3
        BY <2>1, <2>2, <2>6, <3>1 DEF Last, Images
      <4>2. e = Exchange("done", Value("length", Blocks % 65536), {FinalState(what, ggTwoStageUpdate)})
        BY <3>1, <4>1, <2>2a DEF ImageShape
      <4>3. Means(e, "done", Value("length", Blocks % 65536), {FinalState(what, ggTwoStageUpdate)})
        BY <1>2, <4>2
      <4>4. FinalState(what, ggTwoStageUpdate) # "busy" /\ Blocks % 65536 \in Nat
        BY <2>2 DEF FinalState
      <4> HIDE DEF e, Means
      <4>5. e.op = "done" /\ e.data \in Values /\ e.expect = {FinalState(what, ggTwoStageUpdate)}
        BY <1>3, <4>3, <4>4 DEF Means
      <4> QED BY <1>9, <2>1, <2>2, <2>6, <3>1, <4>1, <4>4, <4>5 DEF ExchangeAt, Ops, e
    <3>2. CASE what \notin Images
      <4>1. what \in Signed \cup {"digest"}
        BY <1>9, <3>2 DEF Sent
      <4>2. i \in Blocks + 3..Len(Script(what))
        BY <2>2, <2>6, LastFact
      <4>3. PICK op \in {"sign1", "sign2", "startCrypto"} : e.op = op /\ e.expect = Ready
        BY <4>1, <4>2, SignedScript
      <4>4. e.data \in Values
        BY <4>1, <4>2, SignedScript
      <4> QED BY <1>9, <2>1, <2>2, <2>6, <3>2, <4>3, <4>4 DEF ExchangeAt, Ops, Ready
    <3> QED BY <3>1, <3>2
  <2> QED BY <2>2, <2>3, <2>4, <2>5, <2>6
<1> QED BY <1>1, <1>6, <1>7, <1>8, <1>9

-----------------------------------------------------------------------------
(* How far a call is, in the gauge and in what it has read.                 *)

Block(i) == Value("block", i)

\* The blocks that a transfer has sent once exchange i is carried out.
Count(i) == IF i < 2 THEN 0 ELSE IF i - 2 <= Blocks THEN i - 2 ELSE Blocks

Holds(what, i, g) ==
  what \in Sent /\ i >= 2 =>
    /\ g.got = [k \in 1..Count(i) |-> Block(k)]
    /\ what \in Images => g.kind = what

\* Exchange i is carried out.
After(what, i, g) ==
  /\ Holds(what, i, g)
  /\ what \in Images /\ i = Last(what) =>
       g.state \in {FinalState(what, TwoStage), "error"}

\* What a call has read when exchange i starts.
ReadBy(what, i, read) ==
  /\ what = "start" => read = IF i <= 2 THEN {} ELSE {"uid"}
  /\ what = "info" => read = IF i = 1 THEN {} ELSE {"info"}

Done(what, g, read) ==
  CASE what = "start" -> read = {"uid", "nonce"}
    [] what = "info" -> read = {"info", "info2"}
    [] what = "commit" -> g.state = "success" /\ ~g.busy
    [] OTHER -> /\ g.got = Transferred /\ ~g.busy
                /\ what \in Images => g.kind = what /\ g.state = FinalState(what, TwoStage)

\* The command of a call was carried out, whether or not its notification arrived.
Executed(r) ==
  /\ bfuc = "none"
  /\ r.at = "sleep" => ~slot.i2c
  /\ r.at = "woken" => ~received.i2c

\* The status in BFUD is that of the gauge, unless that was busy.
Seen == bfud.k # "busy" => ~gauge.busy /\ gauge.state = bfud.k

\* A call in the middle of exchange e.
During(r, e) ==
  /\ ReadBy(r.what, r.i, r.read)
  /\ bfuc # "none" => r.at = "sleep" /\ slot = NoNotice
  /\ slot # NoNotice => r.at = "sleep"
  /\ ~r.polling =>
       /\ e.op # "status"
       /\ bfuc # "none" =>
            /\ bfuc = e.op /\ (e.data # None => bfud = e.data)
            /\ Holds(r.what, r.i - 1, gauge)
       /\ Executed(r) => /\ After(r.what, r.i, gauge)
                         /\ e.expect = {} => bfud.k = e.op
  /\ r.polling =>
       /\ e.expect # {}
       /\ After(r.what, r.i, gauge)
       /\ bfuc # "none" => bfuc = "status"
       /\ Executed(r) => Seen

OnTrack(c) ==
  LET r == call[c] IN
  /\ r.at # "idle" => During(r, Script(r.what)[r.i])
  /\ r.at = "idle" =>
       /\ bfuc = "none" /\ slot = NoNotice
       /\ r.result = "success" => Done(r.what, gauge, r.read)

Steps == {"idle", "sleep", "woken", "timeout"}
CallSet == [what : Whats \cup {"none"}, i : Nat, at : Steps, polling : BOOLEAN,
            retry : 0..MaxRetries, read : SUBSET Kinds, result : {"none", "success", "failed"}]
GaugeSet == [state : States, busy : BOOLEAN, kind : Kinds \cup {"data"}, got : Seq(Values)]

InProgress(r) == r.what \in Whats /\ r.i \in 1..Last(r.what)

Types ==
  /\ call \in [Clients -> CallSet]
  /\ \A c \in Clients : call[c].at # "idle" => InProgress(call[c])
  /\ ggTwoStageUpdate \in BOOLEAN
  /\ received \in Notices /\ slot \in Notices
  /\ bfud \in Values /\ bfuc \in Ops
  /\ gauge \in GaugeSet
  /\ faults \in 0..MaxFaults /\ late \in BOOLEAN

IndInv ==
  /\ Types
  /\ \A c \in Clients : Clients = {c} /\ ~late => OnTrack(c)

-----------------------------------------------------------------------------
(* From one exchange to the next.                                           *)

\* What a handler leaves of the call of c.
Stored(c, q) == call' = [call EXCEPT ![c] = q] /\ q \in CallSet /\ (q.at # "idle" => InProgress(q))

LEMMA StoredFact ==
  ASSUME Types, NEW c \in Clients, NEW q, Stored(c, q)
  PROVE  /\ call' \in [Clients -> CallSet]
         /\ \A d \in Clients : call'[d].at # "idle" => InProgress(call'[d])
         /\ call'[c] = q
BY DEF Types, Stored

LEMMA IdleFact == Idle \in CallSet /\ Idle.at = "idle" /\ Idle.read = {} /\ ~Idle.polling
<1>1. 0 \in 0..MaxRetries /\ {} \in SUBSET Kinds
  BY GasGaugeAssumption
<1> QED BY <1>1 DEF Idle, CallSet, Steps

LEMMA ReturnFact ==
  ASSUME NEW c \in Clients, NEW r \in CallSet, NEW why, Return(c, r, why)
  PROVE  \E q : /\ Stored(c, q) /\ q.at = "idle" /\ q.what = r.what /\ q.read = r.read
                /\ q.result = (IF why = "none" THEN "success" ELSE "failed")
                /\ bfud' = bfud /\ bfuc' = bfuc
<1> DEFINE res == IF why = "none" THEN "success" ELSE "failed"
           q == [Idle EXCEPT !.what = r.what, !.read = r.read, !.result = res]
<1>1. res \in {"none", "success", "failed"}
  OBVIOUS
<1>2. call' = [call EXCEPT ![c] = q] /\ bfud' = bfud /\ bfuc' = bfuc
  BY DEF Return
<1> HIDE DEF res
<1>3. Idle \in CallSet /\ Idle.at = "idle"
  BY IdleFact
<1>4. r.what \in Whats \cup {"none"} /\ r.read \in SUBSET Kinds
  BY DEF CallSet
<1>5. q \in CallSet /\ q.at = "idle" /\ q.what = r.what /\ q.read = r.read /\ q.result = res
  BY <1>1, <1>3, <1>4 DEF CallSet
<1>6. Stored(c, q)
  BY <1>2, <1>5 DEF Stored
<1> QED BY <1>2, <1>5, <1>6 DEF res

LEMMA WriteFact ==
  ASSUME NEW c \in Clients, NEW r \in CallSet, InProgress(r), NEW op, NEW data, NEW ok,
         faults \in 0..MaxFaults, Write(c, r, op, data, ok)
  PROVE  /\ faults' \in 0..MaxFaults
         /\ \/ /\ Stored(c, [r EXCEPT !.at = "sleep"]) /\ bfuc' = op
               /\ bfud' = IF data = None THEN bfud ELSE data
            \/ /\ \E q : Stored(c, q) /\ q.at = "idle" /\ q.result = "failed"
               /\ bfud' = bfud /\ bfuc' = bfuc
<1>1. CASE /\ ok
           /\ call' = [call EXCEPT ![c] = [r EXCEPT !.at = "sleep"]]
           /\ bfud' = IF data = None THEN bfud ELSE data
           /\ bfuc' = op
           /\ UNCHANGED faults
  BY <1>1 DEF Stored, CallSet, Steps, InProgress
<1>2. CASE ~ok /\ Fails(1) /\ Return(c, r, "write")
  <2>1. faults' \in 0..MaxFaults
    BY <1>2, GasGaugeAssumption DEF Fails
  <2> QED BY <1>2, <2>1, ReturnFact
<1> QED BY <1>1, <1>2 DEF Write

LEMMA SameScript ==
  ASSUME ggTwoStageUpdate' = ggTwoStageUpdate, NEW what
  PROVE  Script(what)' = Script(what)
BY DEF Script, _writeDataGated, FirstStates, FinalState, _writeDataLengthGated,
       _startImageGated, _writeDataDataGated, _startCryptoGated, _writeDataSignatureGated,
       _getInfoGated, _startUpdateGated, _commitImageGated, _initUpdateGated,
       _getBatteryIdGated, _getChallengeDataGated, Blocks

\* A call that polls.
LEMMA PollFact ==
  ASSUME NEW c \in Clients, NEW r \in CallSet, InProgress(r), NEW ok,
         faults \in 0..MaxFaults, Poll(c, r, ok)
  PROVE  /\ faults' \in 0..MaxFaults
         /\ bfud' = bfud
         /\ \E q : /\ Stored(c, q)
                   /\ \/ q.at = "idle" /\ q.result = "failed" /\ bfuc' = bfuc
                      \/ /\ q.at = "sleep" /\ q.polling /\ bfuc' = "status"
                         /\ q.what = r.what /\ q.i = r.i /\ q.read = r.read
<1> DEFINE n == [r EXCEPT !.polling = TRUE]
           q == [n EXCEPT !.at = "sleep"]
<1>1. /\ n \in CallSet /\ InProgress(n)
      /\ q.at = "sleep" /\ q.polling /\ q.what = r.what /\ q.i = r.i /\ q.read = r.read
  BY DEF CallSet, InProgress
<1>2. Write(c, n, "status", None, ok)
  BY DEF Poll
<1> HIDE DEF n
<1>3. /\ faults' \in 0..MaxFaults
      /\ \/ Stored(c, q) /\ bfuc' = "status" /\ bfud' = bfud
         \/ (\E x : Stored(c, x) /\ x.at = "idle" /\ x.result = "failed")
            /\ bfud' = bfud /\ bfuc' = bfuc
  BY <1>1, <1>2, WriteFact
<1> HIDE DEF q
<1> QED BY <1>1, <1>3

\* What Go makes of a call: it fails, it has ended well, or it sleeps for exchange i.
LEMMA GoFact ==
  ASSUME NEW c \in Clients, NEW r \in CallSet, r.what \in Whats, NEW i \in Nat \ {0}, NEW ok,
         faults \in 0..MaxFaults, Go(c, r, i, ok)
  PROVE  LET e == Script(r.what)[i] IN
         /\ faults' \in 0..MaxFaults
         /\ \E q :
              /\ Stored(c, q)
              /\ \/ q.at = "idle" /\ q.result = "failed" /\ bfuc' = bfuc /\ bfud' = bfud
                 \/ /\ i > Last(r.what) /\ q.at = "idle" /\ q.what = r.what /\ q.read = r.read
                    /\ bfuc' = bfuc /\ bfud' = bfud
                 \/ /\ i <= Last(r.what) /\ q.at = "sleep" /\ q.what = r.what /\ q.read = r.read
                    /\ q.i = i /\ q.polling = (e.op = "status") /\ bfuc' = e.op
                    /\ bfud' = IF e.op = "status" \/ e.data = None THEN bfud ELSE e.data
<1> DEFINE s == Script(r.what)
           e == s[i]
           n == [r EXCEPT !.i = i, !.polling = FALSE, !.retry = 0]
<1>1. Len(s) = Last(r.what) /\ Last(r.what) \in Nat
  BY LastFact
<1>2. n \in CallSet /\ n.what = r.what /\ n.read = r.read /\ n.i = i /\ n.polling = FALSE
  <2>1. 0 \in 0..MaxRetries
    BY GasGaugeAssumption
  <2> QED BY <2>1 DEF CallSet
<1>3. \/ i > Len(s) /\ Return(c, r, "none") /\ faults' = faults
      \/ i <= Len(s) /\ e.op = "status" /\ Poll(c, n, ok)
      \/ i <= Len(s) /\ e.op # "status" /\ Write(c, n, e.op, e.data, ok)
  BY <1>1 DEF Go
<1> HIDE DEF s, n
<1>4. CASE i > Len(s) /\ Return(c, r, "none") /\ faults' = faults
  BY <1>1, <1>4, ReturnFact
<1>5. i <= Len(s) => InProgress(n)
  BY <1>1, <1>2 DEF InProgress
<1>6. CASE i <= Len(s) /\ e.op = "status" /\ Poll(c, n, ok)
  <2>1. /\ faults' \in 0..MaxFaults /\ bfud' = bfud
        /\ \E q : /\ Stored(c, q)
                  /\ \/ q.at = "idle" /\ q.result = "failed" /\ bfuc' = bfuc
                     \/ /\ q.at = "sleep" /\ q.polling = TRUE /\ bfuc' = "status"
                        /\ q.what = r.what /\ q.i = i /\ q.read = r.read
    <3>1. InProgress(n) /\ Poll(c, n, ok)
      BY <1>5, <1>6
    <3>2. \E q : /\ Stored(c, q)
                 /\ \/ q.at = "idle" /\ q.result = "failed" /\ bfuc' = bfuc
                    \/ /\ q.at = "sleep" /\ q.polling /\ bfuc' = "status"
                       /\ q.what = n.what /\ q.i = n.i /\ q.read = n.read
      BY <1>2, <3>1, PollFact
    <3>3. faults' \in 0..MaxFaults /\ bfud' = bfud
      BY <1>2, <3>1, PollFact
    <3>4. \A q : Stored(c, q) /\ q.polling => q.polling = TRUE
      BY DEF Stored, CallSet
    <3> QED BY <1>2, <3>2, <3>3, <3>4
  <2>2. i <= Last(r.what) /\ e.op = "status"
    BY <1>1, <1>6
  <2> QED BY <2>1, <2>2 DEF e, s
<1>7. CASE i <= Len(s) /\ e.op # "status" /\ Write(c, n, e.op, e.data, ok)
  <2> DEFINE q == [n EXCEPT !.at = "sleep"]
  <2>1. q.at = "sleep" /\ q.what = r.what /\ q.read = r.read /\ q.i = i /\ q.polling = FALSE
    BY <1>2 DEF CallSet
  <2> HIDE DEF q
  <2>2. /\ faults' \in 0..MaxFaults
        /\ \/ Stored(c, q) /\ bfuc' = e.op /\ bfud' = IF e.data = None THEN bfud ELSE e.data
           \/ (\E x : Stored(c, x) /\ x.at = "idle" /\ x.result = "failed")
              /\ bfud' = bfud /\ bfuc' = bfuc
    BY <1>2, <1>5, <1>7, WriteFact DEF q
  <2> QED BY <1>1, <1>7, <2>1, <2>2 DEF s
<1> QED BY <1>3, <1>4, <1>6, <1>7

\* A step that leaves the call of c as q.
LEMMA TrackFact ==
  ASSUME NEW c \in Clients, NEW q, call'[c] = q,
         q.at # "idle" => /\ ggTwoStageUpdate' = ggTwoStageUpdate
                          /\ During(q, Script(q.what)[q.i])',
         q.at = "idle" => /\ bfuc' = "none" /\ slot' = NoNotice
                          /\ q.result = "success" => Done(q.what, gauge', q.read)
  PROVE  OnTrack(c)'
BY SameScript DEF OnTrack, Done

LEMMA GoTrack ==
  ASSUME Types, NEW c \in Clients, NEW r \in CallSet, r.what \in Whats, NEW i \in Nat \ {0}, NEW ok,
         Go(c, r, i, ok), bfuc = "none", slot = NoNotice, UNCHANGED <<received, slot, gauge>>,
         i <= Last(r.what) => /\ ggTwoStageUpdate' = ggTwoStageUpdate
                              /\ ReadBy(r.what, i, r.read) /\ Holds(r.what, i - 1, gauge),
         i > Last(r.what) => Done(r.what, gauge, r.read)
  PROVE  OnTrack(c)'
<1> DEFINE e == Script(r.what)[i]
<1>1. PICK q :
        /\ Stored(c, q)
        /\ \/ q.at = "idle" /\ q.result = "failed" /\ bfuc' = bfuc
           \/ /\ i > Last(r.what) /\ q.at = "idle" /\ q.what = r.what /\ q.read = r.read
              /\ bfuc' = bfuc
           \/ /\ i <= Last(r.what) /\ q.at = "sleep" /\ q.what = r.what /\ q.read = r.read
              /\ q.i = i /\ q.polling = (e.op = "status") /\ bfuc' = e.op
              /\ bfud' = IF e.op = "status" \/ e.data = None THEN bfud ELSE e.data
  BY GoFact DEF Types
<1>2. call'[c] = q
  BY <1>1, StoredFact
<1>3. CASE q.at = "idle"
  BY <1>1, <1>2, <1>3, TrackFact
<1>4. CASE q.at # "idle"
  <2>1. /\ i <= Last(r.what) /\ q.at = "sleep" /\ q.what = r.what /\ q.read = r.read
        /\ q.i = i /\ q.polling = (e.op = "status") /\ bfuc' = e.op
        /\ bfud' = IF e.op = "status" \/ e.data = None THEN bfud ELSE e.data
    BY <1>1, <1>4
  <2>2. ExchangeAt(r.what, i, e, ggTwoStageUpdate)
    BY <2>1, AtFact, LastFact
  <2>3. r.what \in Images => Last(r.what) # 1
    BY BlocksFact DEF Last, Images
  <2>4. Script(q.what)' = Script(r.what)
    BY <2>1, SameScript
  <2>5. PICK x : x = e
    OBVIOUS
  <2> HIDE DEF e
  <2>6. During(q, x)'
    <3>1. bfuc' = x.op /\ x.op # "none" /\ slot' = NoNotice /\ gauge' = gauge
      BY <2>1, <2>2, <2>5 DEF ExchangeAt
    <3>2. /\ ReadBy(q.what, q.i, q.read)'
          /\ bfuc' # "none" => q.at = "sleep" /\ slot' = NoNotice
          /\ slot' # NoNotice => q.at = "sleep"
          /\ ~Executed(q)'
      BY <2>1, <3>1 DEF Executed, ReadBy
    <3>3. CASE ~q.polling
      <4>1. x.op # "status" /\ bfuc' = x.op /\ (x.data # None => bfud' = x.data)
        BY <2>1, <2>5, <3>3
      <4>2. Holds(q.what, q.i - 1, gauge)'
        BY <2>1, <3>1 DEF Holds
      <4> QED BY <3>2, <3>3, <4>1, <4>2 DEF During
    <3>4. CASE q.polling
      <4>1. x.op = "status" /\ r.what \in Sent /\ i = 1 /\ x.expect # {}
        BY <2>1, <2>2, <2>5, <3>4 DEF ExchangeAt
      <4>2. After(q.what, q.i, gauge)'
        BY <2>1, <2>3, <4>1 DEF After, Holds
      <4> QED BY <3>1, <3>2, <3>4, <4>1, <4>2 DEF During
    <3> QED BY <3>3, <3>4
  <2>7. Script(q.what)'[q.i] = x
    BY <2>1, <2>4, <2>5 DEF e
  <2> QED BY <1>2, <2>1, <2>6, <2>7, TrackFact
<1> QED BY <1>3, <1>4

-----------------------------------------------------------------------------
(* Each action keeps the types, and the call on its track.                  *)

LEMMA GoTypes ==
  ASSUME Types, NEW c \in Clients, NEW r \in CallSet, r.what \in Whats, NEW i \in Nat \ {0}, NEW ok,
         Go(c, r, i, ok), ggTwoStageUpdate' \in BOOLEAN, UNCHANGED <<received, slot, gauge, late>>
  PROVE  Types'
<1> DEFINE e == Script(r.what)[i]
<1>1. faults \in 0..MaxFaults /\ bfud \in Values /\ bfuc \in Ops
  BY DEF Types
<1>2. PICK q :
        /\ Stored(c, q)
        /\ \/ bfuc' = bfuc /\ bfud' = bfud
           \/ i <= Last(r.what) /\ bfuc' = e.op /\ bfud' \in {bfud, e.data}
  BY <1>1, GoFact
<1>3. i <= Last(r.what) => e.op \in Ops /\ e.data \in Values
  <2>1. i <= Last(r.what) => ExchangeAt(r.what, i, e, ggTwoStageUpdate)
    BY AtFact, LastFact
  <2> HIDE DEF e
  <2> QED BY <2>1 DEF ExchangeAt
<1>4. faults' \in 0..MaxFaults
  BY <1>1, GoFact
<1> HIDE DEF e
<1>5. bfud' \in Values /\ bfuc' \in Ops
  BY <1>1, <1>2, <1>3
<1> QED BY <1>2, <1>4, <1>5, StoredFact DEF Types

LEMMA PollTypes ==
  ASSUME Types, NEW c \in Clients, NEW r \in CallSet, InProgress(r), NEW ok, Poll(c, r, ok),
         ggTwoStageUpdate' \in BOOLEAN, UNCHANGED <<received, slot, gauge, late>>
  PROVE  Types'
<1>1. faults \in 0..MaxFaults /\ bfud \in Values /\ bfuc \in Ops /\ "status" \in Ops
  BY DEF Types, Ops
<1>2. PICK q : Stored(c, q) /\ bfuc' \in {bfuc, "status"}
  BY <1>1, PollFact
<1>3. faults' \in 0..MaxFaults /\ bfud' = bfud
  BY <1>1, PollFact
<1> QED BY <1>1, <1>2, <1>3, StoredFact DEF Types

LEMMA ReturnTypes ==
  ASSUME Types, NEW c \in Clients, NEW r \in CallSet, NEW why, Return(c, r, why),
         faults' = faults \/ Fails(1),
         ggTwoStageUpdate' \in BOOLEAN, UNCHANGED <<received, slot, gauge, late>>
  PROVE  Types'
<1>1. PICK q : Stored(c, q) /\ bfud' = bfud /\ bfuc' = bfuc
  BY ReturnFact
<1>2. faults' \in 0..MaxFaults
  BY GasGaugeAssumption DEF Types, Fails
<1> QED BY <1>1, <1>2, StoredFact DEF Types

LEMMA CallStep ==
  ASSUME Types, NEW c \in Clients, NEW what \in Whats, NEW ok, Call(c, what, ok)
  PROVE  Types' /\ (OnTrack(c) => OnTrack(c)')
<1> DEFINE r == [Idle EXCEPT !.what = what]
<1>1. r \in CallSet /\ r.what = what /\ r.read = {}
  BY IdleFact DEF CallSet
<1>2. /\ Go(c, r, 1, ok) /\ call[c].at = "idle"
      /\ UNCHANGED <<ggTwoStageUpdate, received, slot, gauge, late>>
  BY DEF Call
<1> HIDE DEF r
<1>3. Types'
  BY <1>1, <1>2, GoTypes DEF Types
<1>4. ASSUME OnTrack(c) PROVE OnTrack(c)'
  <2>1. bfuc = "none" /\ slot = NoNotice
    BY <1>2, <1>4 DEF OnTrack
  <2>2. Last(what) \in Nat \ {0}
    BY LastFact
  <2>3. ReadBy(r.what, 1, r.read) /\ Holds(r.what, 1 - 1, gauge)
    BY <1>1 DEF ReadBy, Holds
  <2>4. PICK i \in Nat \ {0} : i = 1
    OBVIOUS
  <2>5. /\ Go(c, r, i, ok) /\ UNCHANGED <<received, slot, gauge>>
        /\ i <= Last(r.what) => /\ ggTwoStageUpdate' = ggTwoStageUpdate
                                /\ ReadBy(r.what, i, r.read) /\ Holds(r.what, i - 1, gauge)
        /\ ~(i > Last(r.what))
    BY <1>1, <1>2, <2>2, <2>3, <2>4
  <2> QED BY <1>1, <2>1, <2>5, GoTrack
<1> QED BY <1>3, <1>4

\* A call that polls after exchange i was carried out.
LEMMA PollTrack ==
  ASSUME Types, NEW c \in Clients, NEW r \in CallSet, InProgress(r), NEW ok, Poll(c, r, ok),
         ggTwoStageUpdate' = ggTwoStageUpdate, bfuc = "none", slot = NoNotice,
         UNCHANGED <<received, slot, gauge>>, ReadBy(r.what, r.i, r.read),
         After(r.what, r.i, gauge), Script(r.what)[r.i].expect # {}
  PROVE  OnTrack(c)'
<1>1. PICK q : /\ Stored(c, q)
               /\ \/ q.at = "idle" /\ q.result = "failed" /\ bfuc' = bfuc
                  \/ /\ q.at = "sleep" /\ q.polling /\ bfuc' = "status"
                     /\ q.what = r.what /\ q.i = r.i /\ q.read = r.read
  BY PollFact DEF Types
<1>2. call'[c] = q
  BY <1>1, StoredFact
<1>3. CASE q.at = "idle"
  BY <1>1, <1>2, <1>3, TrackFact
<1>4. CASE q.at # "idle"
  <2>1. /\ q.at = "sleep" /\ q.polling /\ bfuc' = "status"
        /\ q.what = r.what /\ q.i = r.i /\ q.read = r.read
    BY <1>1, <1>4
  <2>2. PICK x : x = Script(r.what)[r.i]
    OBVIOUS
  <2>3. /\ ReadBy(q.what, q.i, q.read)' /\ After(q.what, q.i, gauge)'
        /\ slot' = NoNotice /\ ~Executed(q)'
    BY <2>1 DEF ReadBy, After, Holds, Executed
  <2>4. During(q, x)'
    BY <2>1, <2>2, <2>3 DEF During
  <2>5. Script(q.what)'[q.i] = x
    BY <2>1, <2>2, SameScript
  <2> QED BY <1>2, <2>1, <2>4, <2>5, TrackFact
<1> QED BY <1>3, <1>4

LEMMA ReturnTrack ==
  ASSUME NEW c \in Clients, NEW r \in CallSet, NEW why, Return(c, r, why), why # "none",
         Types, bfuc = "none", slot' = NoNotice
  PROVE  OnTrack(c)'
<1>1. PICK q : Stored(c, q) /\ q.at = "idle" /\ q.result = "failed" /\ bfuc' = bfuc
  BY ReturnFact
<1> QED BY <1>1, StoredFact, TrackFact

\* A call that is awake finds no command and no notification under way.
LEMMA AwakeFact ==
  ASSUME Types, NEW c \in Clients, call[c].at \in {"woken", "timeout"}
  PROVE  /\ call[c] \in CallSet /\ InProgress(call[c]) /\ call[c].what \in Whats
         /\ call[c].i \in Nat \ {0} /\ call[c].i + 1 \in Nat \ {0} /\ call[c].i <= Last(call[c].what)
         /\ Last(call[c].what) \in Nat
         /\ ExchangeAt(call[c].what, call[c].i, Script(call[c].what)[call[c].i], ggTwoStageUpdate)
         /\ OnTrack(c) => /\ During(call[c], Script(call[c].what)[call[c].i])
                          /\ bfuc = "none" /\ slot = NoNotice
<1>1. call[c] \in CallSet /\ InProgress(call[c]) /\ call[c].what \in Whats
  BY DEF Types, InProgress
<1>2. Last(call[c].what) \in Nat
  BY <1>1, LastFact
<1>3. call[c].i \in 1..Last(call[c].what)
  BY <1>1 DEF InProgress
<1>4. ExchangeAt(call[c].what, call[c].i, Script(call[c].what)[call[c].i], ggTwoStageUpdate)
  BY <1>1, <1>3, AtFact
<1>5. OnTrack(c) => /\ During(call[c], Script(call[c].what)[call[c].i])
                    /\ bfuc = "none" /\ slot = NoNotice
  <2>1. OnTrack(c) => During(call[c], Script(call[c].what)[call[c].i])
    BY DEF OnTrack
  <2> QED BY <2>1 DEF During
<1> QED BY <1>1, <1>2, <1>3, <1>4, <1>5

\* Which calls read, and where.
LEMMA ReadsFact ==
  ASSUME NEW what \in Whats, NEW i \in 1..Last(what), NEW e, NEW two, ExchangeAt(what, i, e, two)
  PROVE  e.expect = {} => \/ what = "start" /\ i = 2 /\ e.op = "uid" /\ Last(what) = 3
                          \/ what = "start" /\ i = 3 /\ e.op = "nonce" /\ Last(what) = 3
                          \/ what = "info" /\ i = 1 /\ e.op = "info" /\ Last(what) = 2
                          \/ what = "info" /\ i = 2 /\ e.op = "info2" /\ Last(what) = 2
<1>1. what \in Sent \cup {"info", "start", "commit"} /\ Blocks \in Nat \ {0} /\ i \in Nat
  BY GasGaugeAssumption, BlocksFact, LastFact
<1>2. CASE what = "start"
  BY <1>2 DEF ExchangeAt, Last
<1>3. CASE what = "info"
  BY <1>3 DEF ExchangeAt, Last
<1>4. CASE what = "commit"
  BY <1>4 DEF ExchangeAt
<1>5. CASE what \in Sent
  <2>1. i = 1 \/ i = 2 \/ (i >= 3 /\ i <= Blocks + 2) \/ i > Blocks + 2
    BY <1>1, LastFact
  <2> QED BY <1>5, <2>1 DEF ExchangeAt
<1> QED BY <1>1, <1>2, <1>3, <1>4, <1>5

LEMMA AnsweredStep ==
  ASSUME Types, NEW c \in Clients, NEW readable, NEW ok, Answered(c, readable, ok)
  PROVE  Types' /\ (OnTrack(c) => OnTrack(c)')
<1>1. PICK r : r = call[c]
  OBVIOUS
<1>2. PICK e : e = Script(r.what)[r.i]
  OBVIOUS
<1> DEFINE why == _checkOperationStatus(e.op)
           n == [r EXCEPT !.read = @ \cup {bfud.k}]
<1>3. /\ r.at \in {"woken", "timeout"} /\ ~r.polling
      /\ UNCHANGED <<received, slot, gauge, late>>
      /\ ggTwoStageUpdate' = IF why = "none" /\ e.op = "info2" /\ readable
                             THEN TwoStage ELSE ggTwoStageUpdate
  BY <1>1, <1>2 DEF Answered
<1>4. \/ why # "none" /\ Return(c, r, why) /\ faults' = faults
      \/ why = "none" /\ e.expect # {} /\ Poll(c, r, ok)
      \/ why = "none" /\ e.expect = {} /\ Go(c, n, r.i + 1, ok)
      \/ Fails(1) /\ Return(c, r, "read")
  BY <1>1, <1>2 DEF Answered
<1>5. /\ r \in CallSet /\ InProgress(r) /\ r.what \in Whats
      /\ r.i \in Nat \ {0} /\ r.i + 1 \in Nat \ {0} /\ r.i <= Last(r.what) /\ Last(r.what) \in Nat
      /\ ExchangeAt(r.what, r.i, e, ggTwoStageUpdate)
      /\ OnTrack(c) => During(r, e) /\ bfuc = "none" /\ slot = NoNotice
  BY <1>1, <1>2, <1>3, AwakeFact
<1>6. ggTwoStageUpdate' \in BOOLEAN
  BY <1>3, GasGaugeAssumption DEF Types
<1>7. n \in CallSet /\ n.what = r.what /\ n.read = r.read \cup {bfud.k}
  <2>1. bfud.k \in Kinds
    BY DEF Types, Values
  <2> QED BY <1>5, <2>1 DEF CallSet
<1>8. why = "none" => received.op = e.op /\ ~received.i2c
  BY DEF _checkOperationStatus
<1>9. e.op = "info2" => e.expect = {}
  BY <1>5 DEF ExchangeAt
<1>10. OnTrack(c) => ReadBy(r.what, r.i, r.read)
  BY <1>5 DEF During
<1>11. OnTrack(c) /\ why = "none" =>
         After(r.what, r.i, gauge) /\ (e.expect = {} => bfud.k = e.op)
  <2>1. r.at # "sleep"
    BY <1>3
  <2> QED BY <1>3, <1>5, <1>8, <2>1 DEF During, Executed
<1> HIDE DEF why, n
<1>12. CASE Return(c, r, why) /\ why # "none" /\ faults' = faults
  BY <1>3, <1>5, <1>6, <1>12, ReturnTypes, ReturnTrack
<1>13. CASE why = "none" /\ e.expect # {} /\ Poll(c, r, ok)
  BY <1>2, <1>3, <1>5, <1>6, <1>9, <1>10, <1>11, <1>13, PollTypes, PollTrack
<1>14. CASE why = "none" /\ e.expect = {} /\ Go(c, n, r.i + 1, ok)
  <2>1. Types'
    BY <1>3, <1>5, <1>6, <1>7, <1>14, GoTypes
  <2>2. ASSUME OnTrack(c) PROVE OnTrack(c)'
    <3>1. r.i \in 1..Last(r.what)
      BY <1>5
    <3>2. \/ r.what = "start" /\ r.i = 2 /\ e.op = "uid" /\ Last(r.what) = 3
          \/ r.what = "start" /\ r.i = 3 /\ e.op = "nonce" /\ Last(r.what) = 3
          \/ r.what = "info" /\ r.i = 1 /\ e.op = "info" /\ Last(r.what) = 2
          \/ r.what = "info" /\ r.i = 2 /\ e.op = "info2" /\ Last(r.what) = 2
      BY <1>5, <1>14, <3>1, ReadsFact
    <3>3. ReadBy(r.what, r.i, r.read) /\ n.read = r.read \cup {e.op}
      BY <1>7, <1>10, <1>11, <1>14, <2>2
    <3>4. r.i + 1 <= Last(r.what) =>
            /\ ggTwoStageUpdate' = ggTwoStageUpdate
            /\ ReadBy(n.what, r.i + 1, n.read) /\ Holds(n.what, (r.i + 1) - 1, gauge)
      BY <1>3, <1>7, <3>2, <3>3 DEF ReadBy, Holds, Sent, Images, Signed
    <3>5. r.i + 1 > Last(r.what) => Done(n.what, gauge, n.read)
      BY <1>7, <3>2, <3>3 DEF ReadBy, Done
    <3> QED BY <1>3, <1>5, <1>7, <1>14, <2>2, <3>4, <3>5, GoTrack
  <2> QED BY <2>1, <2>2
<1>15. CASE Fails(1) /\ Return(c, r, "read")
  BY <1>3, <1>5, <1>6, <1>15, ReturnTypes, ReturnTrack
<1> QED BY <1>4, <1>12, <1>13, <1>14, <1>15

LEMMA PollStep ==
  ASSUME Types, NEW c \in Clients, NEW readable, NEW ok, _pollUpdaterStatus(c, readable, ok)
  PROVE  Types' /\ (OnTrack(c) => OnTrack(c)')
<1>1. PICK r : r = call[c]
  OBVIOUS
<1>2. PICK e : e = Script(r.what)[r.i]
  OBVIOUS
<1>3. PICK good : good = (r.at = "woken" /\ _checkOperationStatus("status") = "none")
  OBVIOUS
<1>4. /\ r.at \in {"woken", "timeout"} /\ r.polling
      /\ UNCHANGED <<ggTwoStageUpdate, received, slot, gauge, late>>
  BY <1>1 DEF _pollUpdaterStatus
<1>5. \/ (faults' = faults \/ Fails(1)) /\ (Return(c, r, "read") \/ Return(c, r, "status"))
      \/ MayPoll(r.retry) /\ Poll(c, Retried(r, good), ok)
      \/ good /\ bfud.k # "busy" /\ bfud.k \in e.expect /\ Go(c, r, r.i + 1, ok)
  BY <1>1, <1>2, <1>3 DEF _pollUpdaterStatus
<1>6. /\ r \in CallSet /\ InProgress(r) /\ r.what \in Whats
      /\ r.i \in Nat \ {0} /\ r.i + 1 \in Nat \ {0} /\ r.i <= Last(r.what) /\ Last(r.what) \in Nat
      /\ ExchangeAt(r.what, r.i, e, ggTwoStageUpdate)
      /\ OnTrack(c) => During(r, e) /\ bfuc = "none" /\ slot = NoNotice
  BY <1>1, <1>2, <1>4, AwakeFact
<1>7. ggTwoStageUpdate' \in BOOLEAN
  BY <1>4 DEF Types
<1>8. OnTrack(c) => ReadBy(r.what, r.i, r.read) /\ After(r.what, r.i, gauge) /\ e.expect # {}
  BY <1>4, <1>6 DEF During
<1>9. CASE (faults' = faults \/ Fails(1)) /\ (Return(c, r, "read") \/ Return(c, r, "status"))
  BY <1>4, <1>6, <1>7, <1>9, ReturnTypes, ReturnTrack
<1>10. CASE MayPoll(r.retry) /\ Poll(c, Retried(r, good), ok)
  <2> DEFINE n == Retried(r, good)
  <2>1. r.retry + 1 \in 0..MaxRetries
    BY <1>6, <1>10, GasGaugeAssumption DEF MayPoll, CallSet
  <2>2. n \in CallSet /\ n.what = r.what /\ n.i = r.i /\ n.read = r.read
    BY <1>6, <2>1 DEF Retried, CallSet
  <2>3. InProgress(n)
    BY <1>6, <2>2 DEF InProgress
  <2> HIDE DEF n
  <2> QED BY <1>2, <1>4, <1>6, <1>7, <1>8, <1>10, <2>2, <2>3, PollTypes, PollTrack DEF n
<1>11. CASE good /\ bfud.k # "busy" /\ bfud.k \in e.expect /\ Go(c, r, r.i + 1, ok)
  <2>1. Types'
    BY <1>4, <1>6, <1>7, <1>11, GoTypes
  <2>2. ASSUME OnTrack(c) PROVE OnTrack(c)'
    <3>1. received.i2c = FALSE
      BY <1>3, <1>11 DEF _checkOperationStatus, Types, Notices
    <3>2. ~gauge.busy /\ gauge.state = bfud.k /\ gauge.state \in e.expect
      <4>1. r.at # "sleep"
        BY <1>4
      <4>2. Executed(r)
        BY <1>6, <2>2, <3>1, <4>1 DEF Executed
      <4> QED BY <1>4, <1>6, <1>11, <2>2, <4>2 DEF During, Seen
    <3>3. r.i + 1 <= Last(r.what) => ReadBy(r.what, r.i + 1, r.read) /\ Holds(r.what, (r.i + 1) - 1, gauge)
      <4>1. (r.i + 1) - 1 = r.i
        BY <1>6
      <4>2. r.what # "info" /\ (r.what = "start" => r.i = 1)
        BY <1>6, <1>8, <2>2 DEF ExchangeAt
      <4>3. ReadBy(r.what, r.i + 1, r.read)
        BY <1>8, <2>2, <4>2 DEF ReadBy
      <4> QED BY <1>8, <2>2, <4>1, <4>3 DEF After
    <3>4. r.i + 1 > Last(r.what) => Done(r.what, gauge, r.read)
      <4>1. SUFFICES ASSUME r.i + 1 > Last(r.what) PROVE Done(r.what, gauge, r.read)
        OBVIOUS
      <4>2. r.i = Last(r.what)
        BY <1>6, <4>1
      <4>3. r.what \in Sent \cup {"commit"}
        BY <1>6, <1>8, <2>2, <4>2, GasGaugeAssumption DEF ExchangeAt, Last
      <4>4. CASE r.what = "commit"
        BY <1>6, <3>2, <4>4 DEF ExchangeAt, Done
      <4>5. CASE r.what \in Sent
        <5>1. r.what \notin {"start", "info", "commit"} /\ Blocks \in Nat \ {0}
          BY <4>5, BlocksFact DEF Sent, Images, Signed
        <5>2. r.i >= Blocks + 3 /\ r.i > Blocks + 2 /\ r.i >= 2 /\ Count(r.i) = Blocks
          BY <4>2, <5>1 DEF Last, Count
        <5>3. gauge.got = Transferred /\ (r.what \in Images => gauge.kind = r.what)
          BY <1>8, <2>2, <4>5, <5>2 DEF After, Holds, Transferred, Block
        <5>4. r.what \in Images => gauge.state = FinalState(r.what, TwoStage)
          <6>1. r.what \in Images => gauge.state \in {FinalState(r.what, TwoStage), "error"}
            BY <1>8, <2>2, <4>2 DEF After
          <6>2. r.what \in Images => gauge.state = FinalState(r.what, ggTwoStageUpdate)
            BY <1>6, <3>2, <4>5, <5>2 DEF ExchangeAt
          <6>3. FinalState(r.what, ggTwoStageUpdate) # "error"
            BY DEF FinalState
          <6> QED BY <6>1, <6>2, <6>3
        <5> QED BY <3>2, <5>1, <5>3, <5>4 DEF Done
      <4> QED BY <4>3, <4>4, <4>5
    <3> QED BY <1>4, <1>6, <1>11, <2>2, <3>3, <3>4, GoTrack
  <2> QED BY <2>1, <2>2
<1> QED BY <1>5, <1>9, <1>10, <1>11

\* While a command or a notification is under way, the only client sleeps.
LEMMA WayFact ==
  ASSUME NEW c \in Clients, OnTrack(c), bfuc # "none" \/ slot # NoNotice
  PROVE  /\ call[c].at = "sleep" /\ During(call[c], Script(call[c].what)[call[c].i])
         /\ bfuc # "none" => slot = NoNotice
<1>1. call[c].at # "idle"
  BY DEF OnTrack
<1>2. During(call[c], Script(call[c].what)[call[c].i])
  BY <1>1 DEF OnTrack
<1> QED BY <1>2 DEF During

LEMMA TimeoutStep ==
  ASSUME Types, NEW c \in Clients, Timeout(c)
  PROVE  Types' /\ (~late' /\ OnTrack(c) => OnTrack(c)')
<1> DEFINE n == [call[c] EXCEPT !.at = "timeout"]
<1>1. /\ call[c].at = "sleep" /\ call' = [call EXCEPT ![c] = n]
      /\ late' = (late \/ bfuc # "none" \/ slot # NoNotice)
      /\ UNCHANGED <<ggTwoStageUpdate, received, slot, bfud, bfuc, gauge, faults>>
  BY DEF Timeout
<1>2. /\ n \in CallSet /\ n.at = "timeout" /\ n.what = call[c].what /\ n.i = call[c].i
      /\ n.read = call[c].read /\ n.polling = call[c].polling
  BY DEF Types, CallSet, Steps
<1>3. InProgress(n)
  BY <1>1, <1>2 DEF Types, InProgress
<1>4. Stored(c, n)
  BY <1>1, <1>2, <1>3 DEF Stored
<1> HIDE DEF n
<1>5. late' \in BOOLEAN
  BY <1>1 DEF Types
<1>6. Types'
  BY <1>1, <1>4, <1>5, StoredFact DEF Types
<1>7. ASSUME ~late', OnTrack(c) PROVE OnTrack(c)'
  <2>1. bfuc = "none" /\ slot = NoNotice
    BY <1>1, <1>7
  <2>2. PICK r : r = call[c]
    OBVIOUS
  <2>3. PICK e : e = Script(r.what)[r.i]
    OBVIOUS
  <2>4. During(r, e)
    BY <1>1, <1>7, <2>2, <2>3 DEF OnTrack
  <2>5. PICK q : q = n
    OBVIOUS
  <2>6. call'[c] = q
    BY <1>4, <2>5, StoredFact
  <2>7. Executed(r)
    BY <1>1, <2>1, <2>2 DEF Executed, NoNotice
  <2>8. During(q, e)'
    BY <1>1, <1>2, <2>1, <2>2, <2>4, <2>5, <2>7
       DEF During, ReadBy, After, Holds, Seen
  <2>9. Script(q.what)'[q.i] = e
    BY <1>1, <1>2, <2>2, <2>3, <2>5, SameScript
  <2> QED BY <1>1, <1>2, <2>5, <2>6, <2>8, <2>9, TrackFact
<1> QED BY <1>6, <1>7

LEMMA NotifiedStep ==
  ASSUME Types, Notified
  PROVE  Types' /\ (\A c \in Clients : OnTrack(c) => OnTrack(c)')
<1>1. /\ slot # NoNotice /\ slot' = NoNotice /\ received' = slot
      /\ call' = [d \in Clients |-> IF call[d].at = "sleep"
                                    THEN [call[d] EXCEPT !.at = "woken"] ELSE call[d]]
      /\ UNCHANGED <<ggTwoStageUpdate, bfud, bfuc, gauge, faults, late>>
  BY DEF Notified
<1>2. NoNotice \in Notices
  BY DEF NoNotice, Notices, Ops
<1>3. ASSUME NEW d \in Clients
      PROVE  /\ call'[d] \in CallSet
             /\ call'[d].at = IF call[d].at = "sleep" THEN "woken" ELSE call[d].at
             /\ call'[d].what = call[d].what /\ call'[d].i = call[d].i
             /\ call'[d].read = call[d].read /\ call'[d].polling = call[d].polling
  <2>1. call[d] \in CallSet
    BY DEF Types
  <2> QED BY <1>1, <2>1 DEF CallSet, Steps
<1>4. call' \in [Clients -> CallSet]
  BY <1>1, <1>3
<1>5. ASSUME NEW d \in Clients, call'[d].at # "idle" PROVE InProgress(call'[d])
  BY <1>3, <1>5 DEF Types, InProgress
<1>6. Types'
  BY <1>1, <1>2, <1>4, <1>5 DEF Types
<1>7. ASSUME NEW c \in Clients, OnTrack(c) PROVE OnTrack(c)'
  <2>1. PICK r : r = call[c]
    OBVIOUS
  <2>2. PICK e : e = Script(r.what)[r.i]
    OBVIOUS
  <2>3. r.at = "sleep" /\ During(r, e)
    BY <1>1, <1>7, <2>1, <2>2, WayFact
  <2>4. PICK q : q = call'[c]
    OBVIOUS
  <2>5. /\ q.at = "woken" /\ q.what = r.what /\ q.i = r.i
        /\ q.read = r.read /\ q.polling = r.polling
    BY <1>3, <2>1, <2>3, <2>4
  <2>6. bfuc = "none" /\ bfuc' = "none"
    BY <1>1, <2>3 DEF During
  <2>7. Executed(q)' => Executed(r)
    BY <1>1, <2>3, <2>5, <2>6 DEF Executed
  <2>8. During(q, e)'
    BY <1>1, <2>3, <2>5, <2>6, <2>7 DEF During, ReadBy, After, Holds, Seen
  <2>9. Script(q.what)'[q.i] = e
    BY <1>1, <2>1, <2>2, <2>5, SameScript
  <2> QED BY <1>1, <2>4, <2>5, <2>8, <2>9, TrackFact
<1> QED BY <1>6, <1>7

LEMMA NackStep ==
  ASSUME Types, Nack
  PROVE  Types' /\ (\A c \in Clients : OnTrack(c) => OnTrack(c)')
<1>1. /\ bfuc # "none" /\ bfuc' = "none" /\ slot' = [op |-> bfuc, i2c |-> TRUE, error |-> FALSE]
      /\ UNCHANGED <<call, ggTwoStageUpdate, received, bfud, gauge, late>>
  BY DEF Nack
<1>2. slot' \in Notices /\ bfuc' \in Ops
  BY <1>1 DEF Types, Notices, Ops
<1>3. faults' \in 0..MaxFaults
  BY GasGaugeAssumption DEF Types, Nack, Fails
<1>4. Types'
  BY <1>1, <1>2, <1>3 DEF Types, InProgress
<1>5. ASSUME NEW c \in Clients, OnTrack(c) PROVE OnTrack(c)'
  <2>1. PICK r : r = call[c]
    OBVIOUS
  <2>2. PICK e : e = Script(r.what)[r.i]
    OBVIOUS
  <2>3. r.at = "sleep" /\ During(r, e)
    BY <1>1, <1>5, <2>1, <2>2, WayFact
  <2>4. slot'.i2c
    BY <1>1
  <2>5. ~Executed(r)'
    BY <2>3, <2>4 DEF Executed
  <2>6. During(r, e)'
    BY <1>1, <2>3, <2>5 DEF During, ReadBy, After, Holds
  <2>7. Script(r.what)'[r.i] = e
    BY <1>1, <2>2, SameScript
  <2> QED BY <1>1, <2>1, <2>3, <2>6, <2>7, TrackFact
<1> QED BY <1>4, <1>5

LEMMA GaugeDoneStep ==
  ASSUME Types, NEW ok, GaugeDone(ok)
  PROVE  Types' /\ (\A c \in Clients : OnTrack(c) => OnTrack(c)')
<1>1. /\ gauge.busy /\ gauge' = [gauge EXCEPT !.busy = FALSE, !.state = IF ok THEN @ ELSE "error"]
      /\ UNCHANGED <<call, ggTwoStageUpdate, received, slot, bfud, bfuc, late>>
  BY DEF GaugeDone
<1>2. gauge \in GaugeSet
  BY DEF Types
<1>3. /\ gauge' \in GaugeSet /\ gauge'.got = gauge.got /\ gauge'.kind = gauge.kind
      /\ gauge'.state \in {gauge.state, "error"}
  BY <1>1, <1>2 DEF GaugeSet, States
<1>4. faults' \in 0..MaxFaults
  BY GasGaugeAssumption DEF Types, GaugeDone, Fails
<1>5. Types'
  BY <1>1, <1>3, <1>4 DEF Types, InProgress
<1>6. ASSUME NEW c \in Clients, OnTrack(c) PROVE OnTrack(c)'
  <2>1. PICK r : r = call[c]
    OBVIOUS
  <2>2. PICK e : e = Script(r.what)[r.i]
    OBVIOUS
  <2>3. Script(r.what)'[r.i] = e
    BY <1>1, <2>2, SameScript
  <2>4. CASE r.at = "idle"
    <3>1. bfuc = "none" /\ slot = NoNotice /\ (r.result = "success" => Done(r.what, gauge, r.read))
      BY <1>6, <2>1, <2>4 DEF OnTrack
    <3>2. r.result = "success" => Done(r.what, gauge', r.read)
      BY <1>1, <3>1 DEF Done
    <3> QED BY <1>1, <2>1, <2>4, <3>1, <3>2, TrackFact
  <2>5. CASE r.at # "idle"
    <3>1. During(r, e)
      BY <1>6, <2>1, <2>2, <2>5 DEF OnTrack
    <3>2. \A i : /\ Holds(r.what, i, gauge) => Holds(r.what, i, gauge')
                 /\ After(r.what, i, gauge) => After(r.what, i, gauge')
      BY <1>3 DEF Holds, After
    <3>3. /\ Holds(r.what, r.i - 1, gauge) => Holds(r.what, r.i - 1, gauge)'
          /\ After(r.what, r.i, gauge) => After(r.what, r.i, gauge)'
      BY <3>2 DEF Holds, After
    <3>4. ReadBy(r.what, r.i, r.read) => ReadBy(r.what, r.i, r.read)'
      BY DEF ReadBy
    <3>5. Executed(r)' <=> Executed(r)
      BY <1>1 DEF Executed
    <3>6. Seen => Seen'
      BY <1>1 DEF Seen
    <3>7. During(r, e)'
      BY <1>1, <3>1, <3>3, <3>4, <3>5, <3>6 DEF During
    <3> QED BY <1>1, <2>1, <2>3, <2>5, <3>7, TrackFact
  <2> QED BY <2>4, <2>5
<1> QED BY <1>5, <1>6

\* What carrying a command out makes of the gauge.
LEMMA CarryFact ==
  ASSUME Types, NEW op \in Ops, NEW type \in Kinds \cup {"data"}
  PROVE  LET g == Carry(op, type) IN
         /\ g \in GaugeSet
         /\ op \in {"startImage", "length"} =>
              g.got = <<>> /\ g.kind = IF op = "length" THEN "data" ELSE bfud.k
         /\ op = "data" => g.got = Append(gauge.got, bfud) /\ g.kind = gauge.kind
         /\ op = "done" => /\ g.got = gauge.got /\ g.kind = gauge.kind
                           /\ g.state \in {FinalState(type, TwoStage), "error"}
         /\ op \in {"sign1", "sign2", "startCrypto"} => g.got = gauge.got /\ g.kind = gauge.kind
         /\ op \in {"status", "info", "info2", "uid", "nonce"} => g = gauge
<1> DEFINE W(state) == [gauge EXCEPT !.busy = TRUE, !.state = state]
<1>1. gauge \in GaugeSet /\ bfud \in Values /\ bfud.k \in Kinds
  BY DEF Types, Values
<1>2. ASSUME NEW s \in States
      PROVE  W(s) \in GaugeSet /\ W(s).got = gauge.got /\ W(s).kind = gauge.kind /\ W(s).state = s
  BY <1>1 DEF GaugeSet
<1>3. ASSUME NEW s \in States, NEW k \in Kinds \cup {"data"}
      PROVE  LET g == [W(s) EXCEPT !.got = <<>>, !.kind = k] IN
             g \in GaugeSet /\ g.got = <<>> /\ g.kind = k
  <2>1. W(s) \in GaugeSet
    BY <1>2
  <2> HIDE DEF W
  <2>2. <<>> \in Seq(Values)
    OBVIOUS
  <2> QED BY <2>1, <2>2 DEF GaugeSet
<1>4. ASSUME NEW s \in States
      PROVE  LET g == [W(s) EXCEPT !.got = Append(@, bfud)] IN
             g \in GaugeSet /\ g.got = Append(gauge.got, bfud) /\ g.kind = gauge.kind
  <2>1. W(s) \in GaugeSet /\ W(s).got = gauge.got /\ W(s).kind = gauge.kind
    BY <1>2
  <2> HIDE DEF W
  <2>2. Append(W(s).got, bfud) \in Seq(Values)
    BY <1>1, <2>1 DEF GaugeSet
  <2> QED BY <2>1, <2>2 DEF GaugeSet
<1>5. \A s : Works(s) = W(s)
  BY DEF Works
<1>6. "ready" \in States /\ "error" \in States /\ "success" \in States /\ "none" \in Kinds
  BY DEF States, Kinds
<1>7. FinalState(type, TwoStage) \in States
  BY DEF FinalState, States
<1> HIDE DEF W
<1>8. CASE op \in {"startUpdate", "startImage", "length"}
  <2> DEFINE k == IF op = "startUpdate" THEN "none" ELSE IF op = "length" THEN "data" ELSE bfud.k
             g == [W("ready") EXCEPT !.got = <<>>, !.kind = k]
  <2>1. Carry(op, type) = g
    BY <1>5, <1>8 DEF Carry
  <2>2. k \in Kinds \cup {"data"}
    BY <1>1, <1>6
  <2>3. g \in GaugeSet /\ g.got = <<>> /\ g.kind = k
    <3> HIDE DEF k
    <3> QED BY <1>3, <1>6, <2>2
  <2> HIDE DEF g
  <2> QED BY <1>8, <2>1, <2>3
<1>9. CASE op = "data"
  BY <1>4, <1>5, <1>6, <1>9 DEF Carry
<1>10. CASE op = "done"
  BY <1>2, <1>5, <1>6, <1>7, <1>10 DEF Carry
<1>11. CASE op \in {"commit", "sign1", "sign2", "startCrypto"}
  BY <1>2, <1>5, <1>6, <1>11 DEF Carry
<1>12. CASE op \in {"none", "status", "info", "info2", "uid", "nonce"}
  BY <1>1, <1>12 DEF Carry
<1> QED BY <1>8, <1>9, <1>10, <1>11, <1>12 DEF Ops

\* Carrying out the command of exchange i takes the transfer from i - 1 to i.
LEMMA CarryHolds ==
  ASSUME Types, NEW what \in Whats, NEW i \in 1..Last(what), NEW e,
         ExchangeAt(what, i, e, ggTwoStageUpdate), Holds(what, i - 1, gauge),
         e.op # "status", e.data # None => bfud = e.data
  PROVE  After(what, i, Carry(e.op, gauge.kind))
<1> DEFINE g == Carry(e.op, gauge.kind)
<1>1. CASE what \notin Sent
  BY <1>1 DEF After, Holds, Sent
<1>2. CASE what \in Sent
  <2>1. i \in Nat /\ i >= 2 /\ i <= Last(what) /\ Blocks \in Nat \ {0} /\ Last(what) \in Nat
    BY <1>2, BlocksFact, LastFact DEF ExchangeAt
  <2>2. e.op \in Ops /\ gauge.kind \in Kinds \cup {"data"}
    BY DEF ExchangeAt, Types, GaugeSet
  <2>3. what \notin {"start", "info", "commit"} /\ (what \in Images => Last(what) = Blocks + 3)
    BY <1>2 DEF Sent, Images, Signed, Last
  <2>4. /\ e.op \in {"startImage", "length"} =>
             g.got = <<>> /\ g.kind = IF e.op = "length" THEN "data" ELSE bfud.k
        /\ e.op = "data" => g.got = Append(gauge.got, bfud) /\ g.kind = gauge.kind
        /\ e.op = "done" => /\ g.got = gauge.got /\ g.kind = gauge.kind
                            /\ g.state \in {FinalState(gauge.kind, TwoStage), "error"}
        /\ e.op \in {"sign1", "sign2", "startCrypto"} => g.got = gauge.got /\ g.kind = gauge.kind
    BY <2>2, CarryFact
  <2> HIDE DEF g
  <2>5. CASE i = 2
    <3>1. g.got = <<>>
      BY <1>2, <2>4, <2>5 DEF ExchangeAt
    <3>2. what \in Images => g.kind = what
      <4>1. what \in Images => e.op = "startImage" /\ e.data = Value(what, 0) /\ e.data # None
        BY <1>2, <2>5 DEF ExchangeAt, Value, None, Images
      <4>2. what \in Images => bfud.k = what
        BY <4>1 DEF Value
      <4> QED BY <2>4, <4>1, <4>2
    <3>3. [k \in 1..Count(i) |-> Block(k)] = <<>>
      BY <2>1, <2>5 DEF Count
    <3> QED BY <2>1, <2>3, <2>5, <3>1, <3>2, <3>3 DEF After, Holds, g
  <2>6. CASE i >= 3 /\ i <= Blocks + 2
    <3>1. e.op = "data" /\ e.data = Block(i - 2) /\ e.data # None
      BY <1>2, <2>6 DEF ExchangeAt, Block, Value, None
    <3>2. Count(i - 1) = i - 3 /\ Count(i) = i - 2 /\ i - 1 >= 2
      BY <2>1, <2>6 DEF Count
    <3>3. gauge.got = [k \in 1..i - 3 |-> Block(k)] /\ (what \in Images => gauge.kind = what)
      BY <1>2, <3>2 DEF Holds
    <3>4. Append([k \in 1..i - 3 |-> Block(k)], Block(i - 2)) = [k \in 1..i - 2 |-> Block(k)]
      <4>1. PICK m \in Nat : m = i - 3
        BY <2>1, <2>6
      <4>2. Append([k \in 1..m |-> Block(k)], Block(m + 1)) = [k \in 1..m + 1 |-> Block(k)]
        OBVIOUS
      <4>3. i - 2 = m + 1
        BY <2>1, <4>1
      <4> QED BY <4>1, <4>2, <4>3
    <3>5. g.got = [k \in 1..Count(i) |-> Block(k)] /\ (what \in Images => g.kind = what)
      BY <2>4, <3>1, <3>2, <3>3, <3>4
    <3>6. ~(what \in Images /\ i = Last(what))
      BY <2>1, <2>3, <2>6
    <3> QED BY <3>5, <3>6 DEF After, Holds, g
  <2>7. CASE i > Blocks + 2
    <3>1. Count(i - 1) = Blocks /\ Count(i) = Blocks /\ i - 1 >= 2
      BY <2>1, <2>7 DEF Count
    <3>2. gauge.got = [k \in 1..Count(i) |-> Block(k)] /\ (what \in Images => gauge.kind = what)
      BY <1>2, <3>1 DEF Holds
    <3>3. what \in Images => e.op = "done"
      BY <1>2, <2>7 DEF ExchangeAt
    <3>4. e.op \in {"done", "sign1", "sign2", "startCrypto"}
      BY <1>2, <2>7 DEF ExchangeAt
    <3>5. g.got = gauge.got /\ g.kind = gauge.kind
      BY <2>4, <3>4
    <3>6. what \in Images => g.state \in {FinalState(what, TwoStage), "error"}
      BY <2>4, <3>2, <3>3
    <3> QED BY <3>2, <3>5, <3>6 DEF After, Holds, g
  <2> QED BY <2>1, <2>5, <2>6, <2>7
<1> QED BY <1>1, <1>2

LEMMA ExecuteStep ==
  ASSUME Types, NEW lost, Execute(lost)
  PROVE  Types' /\ (\A c \in Clients : OnTrack(c) => OnTrack(c)')
<1> DEFINE shown == IF gauge.busy THEN "busy" ELSE gauge.state
<1>1. /\ bfuc # "none" /\ bfuc' = "none"
      /\ gauge' = Carry(bfuc, gauge.kind)
      /\ bfud' = IF bfuc = "status" THEN Value(shown, 0)
                 ELSE IF bfuc \in {"info", "info2", "uid", "nonce"} THEN Value(bfuc, 0)
                 ELSE bfud
      /\ Post([op |-> bfuc, i2c |-> FALSE, error |-> gauge.state = "error"], lost)
      /\ UNCHANGED <<call, ggTwoStageUpdate, received, late>>
  BY DEF Execute
<1>2. gauge \in GaugeSet /\ bfuc \in Ops /\ gauge.kind \in Kinds \cup {"data"}
  BY DEF Types, GaugeSet
<1>3. gauge' \in GaugeSet
  BY <1>1, <1>2, CarryFact
<1>4. bfud' \in Values /\ bfuc' \in Ops
  <2>1. shown \in Kinds
    BY <1>2 DEF GaugeSet, Kinds
  <2>2. bfuc \in {"info", "info2", "uid", "nonce"} => bfuc \in Kinds
    BY DEF Kinds
  <2> HIDE DEF shown
  <2>3. bfud \in Values /\ \A k \in Kinds : Value(k, 0) \in Values
    BY DEF Types, Value, Values
  <2> QED BY <1>1, <2>1, <2>2, <2>3 DEF Ops
<1>5. faults' \in 0..MaxFaults
  BY <1>1, GasGaugeAssumption DEF Types, Post, Fails
<1>6. slot' = slot \/ (slot' \in Notices /\ ~slot'.i2c)
  <2> DEFINE bad == gauge.state = "error"
             n == [op |-> bfuc, i2c |-> FALSE, error |-> bad]
  <2>1. slot' = slot \/ slot' = n
    BY <1>1 DEF Post
  <2>2. bad \in BOOLEAN
    OBVIOUS
  <2> HIDE DEF bad
  <2>3. n \in Notices /\ ~n.i2c
    BY <1>2, <2>2 DEF Notices
  <2> QED BY <2>1, <2>3
<1>7. Types'
  BY <1>1, <1>3, <1>4, <1>5, <1>6 DEF Types, InProgress
<1>8. ASSUME NEW c \in Clients, OnTrack(c) PROVE OnTrack(c)'
  <2>1. PICK r : r = call[c]
    OBVIOUS
  <2>2. PICK e : e = Script(r.what)[r.i]
    OBVIOUS
  <2>3. r.at = "sleep" /\ During(r, e)
    BY <1>1, <1>8, <2>1, <2>2, WayFact
  <2>4. Script(r.what)'[r.i] = e
    BY <1>1, <2>2, SameScript
  <2>5. r.what \in Whats /\ r.i \in 1..Last(r.what)
    BY <2>1, <2>3 DEF Types, InProgress
  <2>6. ExchangeAt(r.what, r.i, e, ggTwoStageUpdate)
    BY <2>2, <2>5, AtFact
  <2>7. ReadBy(r.what, r.i, r.read)'
    BY <2>3 DEF During, ReadBy
  <2>8. CASE ~r.polling
    <3>1. /\ e.op # "status" /\ bfuc = e.op /\ (e.data # None => bfud = e.data)
          /\ Holds(r.what, r.i - 1, gauge)
      BY <1>1, <2>3, <2>8 DEF During
    <3>2. After(r.what, r.i, gauge')
      BY <1>1, <2>5, <2>6, <3>1, CarryHolds
    <3>3. After(r.what, r.i, gauge)'
      BY <3>2 DEF After, Holds
    <3>4. e.expect = {} => bfud'.k = e.op
      BY <1>1, <2>6, <3>1 DEF ExchangeAt, Value
    <3>5. During(r, e)'
      BY <1>1, <2>3, <2>7, <2>8, <3>1, <3>3, <3>4 DEF During
    <3> QED BY <1>1, <2>1, <2>3, <2>4, <3>5, TrackFact
  <2>9. CASE r.polling
    <3>1. bfuc = "status" /\ e.expect # {} /\ After(r.what, r.i, gauge)
      BY <1>1, <2>3, <2>9 DEF During
    <3>2. gauge' = gauge
      BY <1>1, <1>2, <3>1, CarryFact
    <3>3. After(r.what, r.i, gauge)'
      BY <3>1, <3>2 DEF After, Holds
    <3>4. Seen'
      BY <1>1, <3>1, <3>2 DEF Seen, Value
    <3>5. During(r, e)'
      BY <1>1, <2>3, <2>7, <2>9, <3>1, <3>3, <3>4 DEF During
    <3> QED BY <1>1, <2>1, <2>3, <2>4, <3>5, TrackFact
  <2> QED BY <2>8, <2>9
<1> QED BY <1>7, <1>8

-----------------------------------------------------------------------------
(* The theorems.                                                            *)

\* The places of a script are those up to its last exchange.
LEMMA DomainFact ==
  ASSUME NEW what \in Whats
  PROVE  1..Last(what) \subseteq DOMAIN Script(what)
BY LastFact

LEMMA InitTypes == Init => Types /\ \A c \in Clients : OnTrack(c)
<1> SUFFICES ASSUME Init PROVE Types /\ \A c \in Clients : OnTrack(c)
  OBVIOUS
<1>1. call \in [Clients -> CallSet] /\ \A c \in Clients : call[c] = Idle
  BY IdleFact DEF Init
<1>2. Idle.at = "idle" /\ Idle.result = "none"
  BY DEF Idle
<1>3. NoNotice \in Notices /\ None \in Values /\ "none" \in Ops
  BY DEF NoNotice, Notices, None, Value, Values, Kinds, Ops
<1>4. gauge \in GaugeSet
  <2>1. <<>> \in Seq(Values) /\ "ready" \in States /\ "none" \in Kinds
    BY DEF States, Kinds
  <2> QED BY <2>1 DEF Init, GaugeSet
<1>5. 0 \in 0..MaxFaults
  BY GasGaugeAssumption
<1>6. Types
  BY <1>1, <1>2, <1>3, <1>4, <1>5 DEF Init, Types
<1>7. \A c \in Clients : OnTrack(c)
  BY <1>1, <1>2 DEF Init, OnTrack
<1> QED BY <1>6, <1>7

LEMMA StepTypes ==
  ASSUME Types, [Next]_vars
  PROVE  Types' /\ \A c \in Clients : Clients = {c} /\ ~late' /\ OnTrack(c) => OnTrack(c)'
<1>1. CASE UNCHANGED vars
  <2>1. Types'
    BY <1>1 DEF vars, Types, InProgress
  <2>2. ASSUME NEW c \in Clients, OnTrack(c) PROVE OnTrack(c)'
    BY <1>1, <2>2, SameScript
       DEF vars, OnTrack, During, ReadBy, After, Holds, Executed, Seen, Done
  <2> QED BY <2>1, <2>2
<1>2. ASSUME NEW c \in Clients, NEW what \in Whats, NEW ok \in BOOLEAN, Call(c, what, ok)
      PROVE  Types' /\ (OnTrack(c) => OnTrack(c)')
  BY <1>2, CallStep
<1>3. ASSUME NEW c \in Clients, Resume(c)
      PROVE  Types' /\ (OnTrack(c) => OnTrack(c)')
  BY <1>3, AnsweredStep, PollStep DEF Resume
<1>4. ASSUME NEW c \in Clients, Timeout(c)
      PROVE  Types' /\ (~late' /\ OnTrack(c) => OnTrack(c)')
  BY <1>4, TimeoutStep
<1>5. CASE Notified
  BY <1>5, NotifiedStep
<1>6. CASE \E lost \in BOOLEAN : Execute(lost)
  BY <1>6, ExecuteStep
<1>7. CASE Nack
  BY <1>7, NackStep
<1>8. CASE \E ok \in BOOLEAN : GaugeDone(ok)
  BY <1>8, GaugeDoneStep
<1> QED BY <1>1, <1>2, <1>3, <1>4, <1>5, <1>6, <1>7, <1>8 DEF Next

\* An answer that is late stays so.
LEMMA LateStays == ASSUME [Next]_vars, late PROVE late'
<1>1. CASE UNCHANGED vars
  BY <1>1 DEF vars
<1>2. ASSUME NEW c \in Clients, NEW what, NEW ok, Call(c, what, ok) PROVE late'
  BY <1>2 DEF Call
<1>3. ASSUME NEW c \in Clients, NEW readable, NEW ok,
             Answered(c, readable, ok) \/ _pollUpdaterStatus(c, readable, ok)
      PROVE  late'
  BY <1>3 DEF Answered, _pollUpdaterStatus
<1>4. ASSUME NEW c \in Clients, Timeout(c) PROVE late'
  BY <1>4 DEF Timeout
<1>5. CASE Notified
  BY <1>5 DEF Notified
<1>6. ASSUME NEW lost, Execute(lost) PROVE late'
  BY <1>6 DEF Execute
<1>7. CASE Nack
  BY <1>7 DEF Nack
<1>8. ASSUME NEW ok, GaugeDone(ok) PROVE late'
  BY <1>8 DEF GaugeDone
<1> QED BY <1>1, <1>2, <1>3, <1>4, <1>5, <1>6, <1>7, <1>8 DEF Next, Resume

LEMMA Inductive == Spec => []IndInv
<1>1. Init => IndInv
  BY InitTypes DEF IndInv
<1>2. ASSUME IndInv, [Next]_vars PROVE IndInv'
  <2>1. Types' /\ \A c \in Clients : Clients = {c} /\ ~late' /\ OnTrack(c) => OnTrack(c)'
    BY <1>2, StepTypes DEF IndInv
  <2>2. ~late' => ~late
    BY <1>2, LateStays
  <2> QED BY <1>2, <2>1, <2>2 DEF IndInv
<1> QED BY <1>1, <1>2, PTL DEF Spec

\* Whatever the SMC, the bus and the gauge do, and however many clients there are, the
\* state of a call stays what the handlers expect: a place in its script, and never
\* more polls than the loop of _pollUpdaterStatus allows.
THEOREM TypeCorrect == Spec => []TypeOK
<1>1. ASSUME IndInv PROVE TypeOK
  <2>1. Types
    BY <1>1 DEF IndInv
  <2>2. ASSUME NEW c \in Clients, call[c].at # "idle"
        PROVE  call[c].i \in DOMAIN Script(call[c].what)
    <3>1. call[c].what \in Whats /\ call[c].i \in 1..Last(call[c].what)
      BY <2>1, <2>2 DEF Types, InProgress
    <3> QED BY <3>1, DomainFact
  <2> QED BY <2>1, <2>2 DEF Types, CallSet, Steps, GaugeSet, Values, TypeOK
<1> QED BY <1>1, Inductive, PTL

\* A single client that is told of success has got what it asked for, for data of any
\* length, any number of retries and any number of failures, as long as no answer comes
\* after its ten seconds (_sendData, _checkOperationStatus, _pollUpdaterStatus).
THEOREM SuccessMeansDone ==
  ASSUME NEW c, Clients = {c}
  PROVE  Spec => []SuccessIsReal
<1>1. ASSUME IndInv PROVE SuccessIsReal
  <2>1. ~late => OnTrack(c)
    BY <1>1 DEF IndInv
  <2> QED BY <2>1 DEF OnTrack, Done, SuccessIsReal
<1> QED BY <1>1, Inductive, PTL
=============================================================================
