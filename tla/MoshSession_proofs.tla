------------------------- MODULE MoshSession_proofs -------------------------
(***************************************************************************)
(* Proofs about MoshSession, for every value of its constants: any timing, *)
(* any number of keys, any set of scenarios, and a network that loses,     *)
(* repeats and reorders.  One inductive invariant, SessionInv, in parts:   *)
(*   Sending, Receiving  the two lists of a side, their order and times;   *)
(*   Exchange   the numbers: what a side knows to be acknowledged is on    *)
(*              the list of the other side, and so is whatever an          *)
(*              instruction still on its way may be built on;              *)
(*   Content    the values: one function from numbers to values, growing,  *)
(*              that gives every state on both lists and every difference  *)
(*              on the wire;                                               *)
(*   Delivery   what was written to the child is what the server's newest  *)
(*              state stands for;                                          *)
(*   Echoed     the late acknowledgement of input never runs ahead of it.  *)
(* A state of the client's stream stands for a length: the stream is cut   *)
(* at the front while it is in use, on both sides and at different times,  *)
(* so the states themselves never agree, and the values always do.         *)
(***************************************************************************)
EXTENDS MoshSession, FiniteSetTheorems, SequenceTheorems, WellFoundedInduction, TLAPS

(***************************************************************************)
(* The synchronised objects, by their values.  The stream of the client is *)
(* always a part of what the user typed: it is known by the number of      *)
(* events typed before its end, its beginning is the same for all the      *)
(* states of a list and moves when a common prefix is cut off.  A screen   *)
(* is its own value.                                                       *)
(***************************************************************************)
Screen == [fb : Nat, echo_ack : Nat]
Cut(y, a, b) == SubSeq(y, a + 1, b)

Value(p, y) == IF p = Client THEN 0..Len(y) ELSE Screen
Below(p, v, w) == IF p = Client THEN v <= w ELSE v.fb <= w.fb /\ v.echo_ack <= w.echo_ack

\* The state with value v in a list whose states begin at b, and the difference
\* that leads from one value to another.
Form(p, y, b, v) == IF p = Client THEN Cut(y, b, v) ELSE v
Way(p, y, v, w) ==
  IF p = Client THEN Cut(y, v, w) ELSE IF v = w THEN <<>> ELSE <<v.fb, w.fb, w.echo_ack>>

\* Parts of a sequence.
LEMMA CutFact ==
  ASSUME NEW y \in Seq(Int), NEW a \in Nat, NEW b \in Nat, a <= b, b <= Len(y)
  PROVE  /\ Cut(y, a, b) \in Seq(Int) /\ Len(Cut(y, a, b)) = b - a
         /\ \A i \in 1..(b - a) : Cut(y, a, b)[i] = y[a + i]
BY DEF Cut

\* A part of a part.
LEMMA CutCut ==
  ASSUME NEW y \in Seq(Int), NEW a \in Nat, NEW b \in Nat, NEW c \in Nat, a <= b, b <= c, c <= Len(y)
  PROVE  /\ SubSeq(Cut(y, a, c), Len(Cut(y, a, b)) + 1, Len(Cut(y, a, c))) = Cut(y, b, c)
         /\ SubSeq(Cut(y, a, c), 1, Len(Cut(y, a, b))) = Cut(y, a, b)
         /\ SubSeq(Cut(y, a, b), 1, Len(Cut(y, a, b))) = Cut(y, a, b)
         /\ Cut(y, a, b) \o Cut(y, b, c) = Cut(y, a, c)
<1> DEFINE ab == Cut(y, a, b)
           bc == Cut(y, b, c)
           ac == Cut(y, a, c)
<1>1. /\ ab \in Seq(Int) /\ Len(ab) = b - a /\ \A i \in 1..(b - a) : ab[i] = y[a + i]
      /\ bc \in Seq(Int) /\ Len(bc) = c - b /\ \A i \in 1..(c - b) : bc[i] = y[b + i]
      /\ ac \in Seq(Int) /\ Len(ac) = c - a /\ \A i \in 1..(c - a) : ac[i] = y[a + i]
  <2>1. b <= Len(y) /\ a <= c
    OBVIOUS
  <2> QED BY <2>1, CutFact
<1> HIDE DEF ab, bc, ac
<1>2. SubSeq(ac, Len(ab) + 1, Len(ac)) = bc
  <2> DEFINE s == SubSeq(ac, (b - a) + 1, c - a)
  <2>1. s \in Seq(Int) /\ Len(s) = c - b /\ \A i \in 1..(c - b) : s[i] = ac[(b - a) + i]
    <3>1. \A i \in ((b - a) + 1)..(c - a) : ac[i] \in Int
      BY <1>1
    <3>2. (b - a) + 1 \in Int /\ c - a \in Int
      OBVIOUS
    <3>3. /\ s \in Seq(Int) /\ Len(s) = IF (b - a) + 1 <= c - a THEN (c - a) - ((b - a) + 1) + 1 ELSE 0
          /\ \A i \in 1..((c - a) - ((b - a) + 1) + 1) : s[i] = ac[((b - a) + 1) + i - 1]
      BY <3>1, <3>2, SubSeqProperties
    <3> HIDE DEF s
    <3>4. (c - a) - ((b - a) + 1) + 1 = c - b
      OBVIOUS
    <3>5. Len(s) = c - b
      BY <3>3
    <3>6. ASSUME NEW i \in 1..(c - b) PROVE s[i] = ac[(b - a) + i]
      <4>1. s[i] = ac[((b - a) + 1) + i - 1]
        BY <3>3, <3>4
      <4>2. ((b - a) + 1) + i - 1 = (b - a) + i
        OBVIOUS
      <4> QED BY <4>1, <4>2
    <3> QED BY <3>3, <3>5, <3>6
  <2>2. \A i \in 1..(c - b) : s[i] = bc[i]
    <3> HIDE DEF s
    <3> TAKE i \in 1..(c - b)
    <3>1. (b - a) + i \in 1..(c - a) /\ a + ((b - a) + i) = b + i
      OBVIOUS
    <3>2. ac[(b - a) + i] = y[a + ((b - a) + i)]
      BY <3>1, <1>1
    <3> QED BY <1>1, <2>1, <3>1, <3>2
  <2>3. s = SubSeq(ac, Len(ab) + 1, Len(ac))
    BY <1>1
  <2> HIDE DEF s
  <2>4. Len(s) = Len(bc) /\ \A i \in 1..Len(s) : s[i] = bc[i]
    BY <1>1, <2>1, <2>2
  <2>5. s = bc
    BY <1>1, <2>1, <2>4, SeqEqual
  <2> QED BY <2>3, <2>5
<1>3. SubSeq(ac, 1, Len(ab)) = ab
  <2> DEFINE s == SubSeq(ac, 1, b - a)
  <2>1. s \in Seq(Int) /\ Len(s) = b - a /\ \A i \in 1..(b - a) : s[i] = ac[i]
    <3>1. \A i \in 1..(b - a) : ac[i] \in Int
      BY <1>1
    <3>2. b - a \in Int
      OBVIOUS
    <3>3. /\ s \in Seq(Int) /\ Len(s) = IF 1 <= b - a THEN (b - a) - 1 + 1 ELSE 0
          /\ \A i \in 1..((b - a) - 1 + 1) : s[i] = ac[1 + i - 1]
      BY <3>1, <3>2, SubSeqProperties
    <3> HIDE DEF s
    <3>4. (b - a) - 1 + 1 = b - a /\ \A i \in Int : 1 + i - 1 = i
      OBVIOUS
    <3> QED BY <3>3, <3>4
  <2> HIDE DEF s
  <2>2. \A i \in 1..Len(s) : s[i] = ab[i]
    BY <1>1, <2>1
  <2>3. s = ab
    BY <1>1, <2>1, <2>2, SeqEqual
  <2> QED BY <1>1, <2>3 DEF s
<1>4. SubSeq(ab, 1, Len(ab)) = ab
  BY <1>1, SubSeqFull
<1>5. ab \o bc = ac
  <2>1. a + 1 \in 1..(Len(y) + 1) /\ b \in ((a + 1) - 1)..Len(y) /\ c \in b..Len(y)
    OBVIOUS
  <2>2. SubSeq(y, a + 1, b) \o SubSeq(y, b + 1, c) = SubSeq(y, a + 1, c)
    BY <2>1, ConcatAdjacentSubSeq
  <2> QED BY <2>2 DEF ab, bc, ac, Cut
<1> QED BY <1>2, <1>3, <1>4, <1>5 DEF ab, bc, ac

\* Values are ordered.
LEMMA BelowFact ==
  ASSUME NEW p \in Peers, NEW y \in Seq(Int), NEW u \in Value(p, y), NEW v \in Value(p, y), NEW w \in Value(p, y)
  PROVE  /\ Below(p, u, u)
         /\ Below(p, u, v) /\ Below(p, v, w) => Below(p, u, w)
BY DEF Value, Below, Screen

\* What the operations on the objects do to states of one list: the assertions
\* hold, a difference leads from the one value to the other and is empty only
\* when they are the same, and cutting a prefix moves the beginning.
LEMMA FormFact ==
  ASSUME NEW p \in Peers, NEW y \in Seq(Int), NEW b \in Value(p, y), NEW v \in Value(p, y), NEW w \in Value(p, y),
         Below(p, b, v), Below(p, v, w)
  PROVE  /\ Extends(p, Form(p, y, b, w), Form(p, y, b, v))
         /\ diff_from(p, Form(p, y, b, w), Form(p, y, b, v)) = Way(p, y, v, w)
         /\ subtract(p, Form(p, y, b, w), Form(p, y, b, v)) = Form(p, y, v, w)
         /\ Way(p, y, v, w) # <<>> => apply_string(p, Form(p, y, b, v), Way(p, y, v, w)) = Form(p, y, b, w)
         /\ Way(p, y, v, w) = <<>> <=> v = w
         /\ Form(p, y, b, w) = Form(p, y, b, v) <=> v = w
<1>1. CASE p = Client
  <2>1. b \in Nat /\ v \in Nat /\ w \in Nat /\ b <= v /\ v <= w /\ w <= Len(y) /\ v <= Len(y) /\ b <= w
    BY <1>1 DEF Value, Below
  <2>2. /\ Form(p, y, b, w) = Cut(y, b, w) /\ Form(p, y, b, v) = Cut(y, b, v)
        /\ Form(p, y, v, w) = Cut(y, v, w) /\ Way(p, y, v, w) = Cut(y, v, w)
    BY <1>1 DEF Form, Way
  <2>3. /\ Len(Cut(y, b, w)) = w - b /\ Len(Cut(y, b, v)) = v - b /\ Len(Cut(y, v, w)) = w - v
        /\ Cut(y, v, w) \in Seq(Int)
    BY <2>1, CutFact
  <2>4. Extends(p, Form(p, y, b, w), Form(p, y, b, v))
    <3>1. SubSeq(Cut(y, b, w), 1, Len(Cut(y, b, v))) = Cut(y, b, v) /\ SubSeq(Cut(y, b, v), 1, Len(Cut(y, b, v))) = Cut(y, b, v)
      BY <2>1, CutCut
    <3> QED BY <1>1, <2>1, <2>2, <2>3, <3>1 DEF Extends, IsPrefix
  <2>5. diff_from(p, Form(p, y, b, w), Form(p, y, b, v)) = Way(p, y, v, w)
    BY <1>1, <2>1, <2>2, CutCut DEF diff_from
  <2>6. subtract(p, Form(p, y, b, w), Form(p, y, b, v)) = Form(p, y, v, w)
    BY <1>1, <2>1, <2>2, CutCut DEF subtract
  <2>7. apply_string(p, Form(p, y, b, v), Way(p, y, v, w)) = Form(p, y, b, w)
    <3>1. Cut(y, b, v) \o Cut(y, v, w) = Cut(y, b, w)
      BY <2>1, CutCut
    <3> QED BY <1>1, <2>2, <3>1 DEF apply_string
  <2>8. Way(p, y, v, w) = <<>> <=> v = w
    BY <2>1, <2>2, <2>3
  <2>9. Form(p, y, b, w) = Form(p, y, b, v) <=> v = w
    BY <2>1, <2>2, <2>3
  <2> QED BY <2>4, <2>5, <2>6, <2>7, <2>8, <2>9
<1>2. CASE p # Client
  <2>1. v \in Screen /\ w \in Screen /\ v.fb <= w.fb /\ v.echo_ack <= w.echo_ack
    BY <1>2 DEF Value, Below
  <2>2. /\ Form(p, y, b, w) = w /\ Form(p, y, b, v) = v /\ Form(p, y, v, w) = w
        /\ Way(p, y, v, w) = IF v = w THEN <<>> ELSE <<v.fb, w.fb, w.echo_ack>>
    BY <1>2 DEF Form, Way
  <2>3. v.echo_ack \in Nat /\ w.echo_ack \in Nat /\ w = [fb |-> w.fb, echo_ack |-> w.echo_ack]
    BY <2>1 DEF Screen
  <2>4. Extends(p, Form(p, y, b, w), Form(p, y, b, v))
    BY <1>2, <2>1, <2>2, <2>3 DEF Extends
  <2>5. diff_from(p, w, v) = Way(p, y, v, w)
    BY <1>2, <2>2 DEF diff_from
  <2>6. subtract(p, w, v) = w
    BY <1>2 DEF subtract
  <2>7. v # w => apply_string(p, v, Way(p, y, v, w)) = w
    BY <1>2, <2>2, <2>3 DEF apply_string
  <2>8. Way(p, y, v, w) = <<>> <=> v = w
    BY <2>2
  <2> QED BY <2>2, <2>4, <2>5, <2>6, <2>7, <2>8
<1> QED BY <1>1, <1>2

\* What was typed keeps its values when more is typed.
LEMMA TypedMore ==
  ASSUME NEW p \in Peers, NEW y \in Seq(Int), NEW e \in Int
  PROVE  /\ Append(y, e) \in Seq(Int) /\ Len(Append(y, e)) = Len(y) + 1
         /\ \A v \in Value(p, y) : v \in Value(p, Append(y, e))
         /\ \A v, w \in Value(p, y) : /\ Form(p, Append(y, e), v, w) = Form(p, y, v, w)
                                      /\ Way(p, Append(y, e), v, w) = Way(p, y, v, w)
<1> DEFINE z == Append(y, e)
<1>1. z \in Seq(Int) /\ Len(z) = Len(y) + 1 /\ \A i \in 1..Len(y) : z[i] = y[i]
  OBVIOUS
<1> HIDE DEF z
<1>2. \A v \in Value(p, y) : v \in Value(p, z)
  BY <1>1 DEF Value
<1>3. ASSUME NEW v \in 0..Len(y), NEW w \in 0..Len(y)
      PROVE  Cut(z, v, w) = Cut(y, v, w)
  <2>1. CASE v <= w
    <3>1. Len(y) <= Len(z) /\ v \in Nat /\ w \in Nat /\ w <= Len(y) /\ w <= Len(z)
      BY <1>1
    <3>2. Cut(z, v, w) \in Seq(Int) /\ Len(Cut(z, v, w)) = w - v /\ \A i \in 1..(w - v) : Cut(z, v, w)[i] = z[v + i]
      BY <1>1, <3>1, <2>1, CutFact
    <3>3. Cut(y, v, w) \in Seq(Int) /\ Len(Cut(y, v, w)) = w - v /\ \A i \in 1..(w - v) : Cut(y, v, w)[i] = y[v + i]
      BY <3>1, <2>1, CutFact
    <3>4. \A i \in 1..(w - v) : Cut(z, v, w)[i] = Cut(y, v, w)[i]
      <4> TAKE i \in 1..(w - v)
      <4>1. v + i \in 1..Len(y)
        BY <3>1
      <4> QED BY <1>1, <3>2, <3>3, <4>1
    <3> QED BY <3>2, <3>3, <3>4, SeqEqual
  <2>2. CASE ~(v <= w)
    <3>1. Cut(z, v, w) = <<>> /\ Cut(y, v, w) = <<>>
      BY <2>2, <1>1 DEF Cut
    <3> QED BY <3>1
  <2> QED BY <2>1, <2>2
<1>4. \A v, w \in Value(p, y) : Form(p, z, v, w) = Form(p, y, v, w) /\ Way(p, z, v, w) = Way(p, y, v, w)
  BY <1>3 DEF Value, Form, Way
<1> QED BY <1>1, <1>2, <1>4 DEF z

(***************************************************************************)
(* Lists of numbered elements.                                             *)
(***************************************************************************)
Ordered(list) == \A i, j \in 1..Len(list) : i <= j => list[i].num <= list[j].num
Increasing(list) == \A i, j \in 1..Len(list) : i < j => list[i].num < list[j].num

\* A set of natural numbers that is not empty has a smallest one.
LEMMA MinFact ==
  ASSUME NEW T, T \subseteq Nat, T # {}
  PROVE  Min(T) \in T /\ \A y \in T : Min(T) <= y
<1>1. PICK x \in T : \A y \in T : ~(<<y, x>> \in OpToRel(<, Nat))
  <2>1. IsWellFoundedOn(OpToRel(<, Nat), Nat)
    BY NatLessThanWellFounded
  <2> QED BY <2>1, WFMin
<1>2. \A y \in T : x <= y
  <2> TAKE y \in T
  <2>1. ~(y < x)
    BY <1>1 DEF OpToRel
  <2> QED BY <2>1
<1> QED BY <1>2 DEF Min

\* A set of numbers with a bound has a largest one.
LEMMA MaxFact ==
  ASSUME NEW n \in Nat, NEW T, T \subseteq 0..n, T # {}
  PROVE  Max(T) \in T /\ \A y \in T : y <= Max(T)
<1> DEFINE U == {n - y : y \in T}
<1>1. U \subseteq Nat /\ U # {}
  <2>1. \A y \in T : n - y \in Nat
    OBVIOUS
  <2> QED BY <2>1
<1>2. Min(U) \in U /\ \A z \in U : Min(U) <= z
  <2> HIDE DEF U
  <2> QED BY <1>1, MinFact
<1>3. PICK x \in T : Min(U) = n - x
  BY <1>2
<1>4. \A y \in T : y <= x
  <2> TAKE y \in T
  <2>1. n - x <= n - y
    BY <1>2, <1>3
  <2> QED BY <2>1
<1>5. \A y \in T : x >= y
  BY <1>4
<1> QED BY <1>4, <1>5 DEF Max

\* The end of a list.
LEMMA EndOf ==
  ASSUME NEW S, NEW list \in Seq(S), NEW a \in 1..(Len(list) + 1)
  PROVE  /\ SubSeq(list, a, Len(list)) \in Seq(S)
         /\ Len(SubSeq(list, a, Len(list))) = Len(list) - a + 1
         /\ \A i \in 1..(Len(list) - a + 1) : SubSeq(list, a, Len(list))[i] = list[a + i - 1]
<1>1. \A i \in a..Len(list) : list[i] \in S
  OBVIOUS
<1>2. a \in Int /\ Len(list) \in Int
  OBVIOUS
<1>3. /\ SubSeq(list, a, Len(list)) \in Seq(S)
      /\ Len(SubSeq(list, a, Len(list))) = IF a <= Len(list) THEN Len(list) - a + 1 ELSE 0
      /\ \A i \in 1..(Len(list) - a + 1) : SubSeq(list, a, Len(list))[i] = list[a + i - 1]
  BY <1>1, <1>2, SubSeqProperties
<1> QED BY <1>3

\* Erasing the smaller numbers of an ordered list leaves the end of it.
LEMMA FromFact ==
  ASSUME NEW S, NEW list \in Seq(S), \A s \in S : s.num \in Nat, Ordered(list), NEW k \in Nat
  PROVE  \E a \in 1..(Len(list) + 1) : /\ From(list, k) = SubSeq(list, a, Len(list))
                                       /\ \A i \in 1..Len(list) : list[i].num >= k <=> i >= a
<1> DEFINE n == Len(list)
           kept == {i \in DOMAIN list : list[i].num >= k}
           place(l) == CHOOSE i \in kept : Cardinality({j \in kept : j <= i}) = l
<1>1. n \in Nat /\ DOMAIN list = 1..n /\ \A i \in 1..n : list[i].num \in Nat
  OBVIOUS
<1>2. From(list, k) = IF kept = DOMAIN list THEN list ELSE [l \in 1..Cardinality(kept) |-> list[place(l)]]
  BY DEF From
<1>3. \A i, j \in 1..n : i <= j => list[i].num <= list[j].num
  BY DEF Ordered
<1>4. \E a \in 1..(n + 1) : \A i \in 1..n : i \in kept <=> i >= a
  <2>1. CASE kept = {}
    <3> HIDE DEF kept
    <3> WITNESS n + 1 \in 1..(n + 1)
    <3> QED BY <2>1, <1>1
  <2>2. CASE kept # {}
    <3>1. kept \subseteq Nat /\ kept \subseteq 1..n
      BY <1>1
    <3>2. Min(kept) \in kept /\ \A i \in kept : Min(kept) <= i
      <4> HIDE DEF kept
      <4> QED BY <3>1, <2>2, MinFact
    <3> DEFINE a == Min(kept)
    <3>3. a \in 1..(n + 1)
      BY <1>1, <3>1, <3>2
    <3>4. \A i \in 1..n : i >= a => i \in kept
      <4> HIDE DEF a
      <4> TAKE i \in 1..n
      <4> HAVE i >= a
      <4>1. a \in 1..n /\ list[a].num >= k
        BY <3>1, <3>2 DEF a
      <4>2. list[a].num <= list[i].num
        BY <1>3, <4>1
      <4> QED BY <1>1, <4>1, <4>2
    <3> HIDE DEF a, kept
    <3> WITNESS a \in 1..(n + 1)
    <3> QED BY <3>2, <3>4 DEF a
  <2> QED BY <2>1, <2>2
<1>5. PICK a \in 1..(n + 1) : \A i \in 1..n : i \in kept <=> i >= a
  BY <1>4
<1>6. kept = a..n
  BY <1>1, <1>5
<1>7. From(list, k) = SubSeq(list, a, n)
  <2>1. CASE kept = DOMAIN list
    <3>1. n = 0 \/ a = 1
      BY <2>1, <1>1, <1>5, <1>6
    <3>2. CASE a = 1
      BY <3>2, <2>1, <1>2, SubSeqFull
    <3>3. CASE n = 0
      <4>1. a = 1
        BY <3>3, <1>5
      <4> QED BY <4>1, <3>2
    <3> QED BY <3>1, <3>2, <3>3
  <2>2. CASE kept # DOMAIN list
    <3>1. Cardinality(kept) = n - a + 1
      <4>1. a \in Int /\ n \in Int
        BY <1>1, <1>5
      <4>2. Cardinality(a..n) = IF a > n THEN 0 ELSE n - a + 1
        BY <4>1, FS_Interval
      <4> HIDE DEF kept
      <4> QED BY <4>1, <4>2, <1>5, <1>6
    <3>2. ASSUME NEW l \in 1..(n - a + 1)
          PROVE  place(l) = a + l - 1
      <4>1. ASSUME NEW i \in kept
            PROVE  Cardinality({j \in kept : j <= i}) = i - a + 1
        <5>1. {j \in kept : j <= i} = a..i /\ i \in Int /\ a \in Int /\ a <= i
          <6> HIDE DEF kept
          <6> QED BY <1>1, <1>5, <1>6
        <5>2. Cardinality(a..i) = IF a > i THEN 0 ELSE i - a + 1
          BY <5>1, FS_Interval
        <5>3. ~(a > i)
          BY <5>1
        <5> QED BY <5>1, <5>2, <5>3, Zenon
      <4>2. a + l - 1 \in kept
        <5> HIDE DEF kept
        <5> QED BY <1>1, <1>5, <1>6
      <4>3. \A i \in kept : Cardinality({j \in kept : j <= i}) = l <=> i = a + l - 1
        <5> TAKE i \in kept
        <5>1. Cardinality({j \in kept : j <= i}) = i - a + 1 /\ i \in Int /\ a \in Int
          <6>1. i \in Int
            BY <1>1
          <6> QED BY <4>1, <1>5, <6>1
        <5> HIDE DEF kept
        <5> QED BY <5>1
      <4> HIDE DEF kept
      <4> QED BY <4>2, <4>3
    <3> HIDE DEF place, kept
    <3> DEFINE left == [l \in 1..(n - a + 1) |-> list[place(l)]]
    <3>3. From(list, k) = left
      BY <3>1, <2>2, <1>2
    <3>4. \A l \in 1..(n - a + 1) : left[l] = list[a + l - 1] /\ left[l] \in S
      BY <3>2, <1>1, <1>5
    <3>5. n - a + 1 \in Nat
      BY <1>1, <1>5
    <3>6. left \in Seq(S) /\ Len(left) = n - a + 1
      BY <3>4, <3>5
    <3>7. /\ SubSeq(list, a, n) \in Seq(S) /\ Len(SubSeq(list, a, n)) = n - a + 1
          /\ \A i \in 1..(n - a + 1) : SubSeq(list, a, n)[i] = list[a + i - 1]
      BY <1>5, EndOf
    <3> HIDE DEF left, n
    <3>8. left = SubSeq(list, a, n)
      BY <3>4, <3>6, <3>7, SeqEqual
    <3> QED BY <3>3, <3>8
  <2> QED BY <2>1, <2>2
<1>8. \A i \in 1..n : list[i].num >= k <=> i >= a
  BY <1>5, <1>1
<1> QED BY <1>7, <1>8, <1>5

\* Erasing one element.
LEMMA RemoveFact ==
  ASSUME NEW S, NEW list \in Seq(S), NEW k \in 1..Len(list)
  PROVE  /\ RemoveAt(list, k) \in Seq(S) /\ Len(RemoveAt(list, k)) = Len(list) - 1
         /\ \A i \in 1..(Len(list) - 1) : RemoveAt(list, k)[i] = list[IF i < k THEN i ELSE i + 1]
<1> DEFINE u == SubSeq(list, 1, k - 1)
           v == SubSeq(list, k + 1, Len(list))
<1>1. u \in Seq(S) /\ Len(u) = k - 1 /\ \A i \in 1..(k - 1) : u[i] = list[i]
  OBVIOUS
<1>2. /\ v \in Seq(S) /\ Len(v) = Len(list) - k
      /\ \A i \in 1..(Len(list) - k) : v[i] = list[k + i]
  <2>1. k + 1 \in 1..(Len(list) + 1)
    OBVIOUS
  <2>2. /\ v \in Seq(S) /\ Len(v) = Len(list) - (k + 1) + 1
        /\ \A i \in 1..(Len(list) - (k + 1) + 1) : v[i] = list[(k + 1) + i - 1]
    BY <2>1, EndOf
  <2> HIDE DEF v
  <2>3. Len(list) - (k + 1) + 1 = Len(list) - k
    OBVIOUS
  <2>4. ASSUME NEW i \in 1..(Len(list) - k) PROVE v[i] = list[k + i]
    <3>1. (k + 1) + i - 1 = k + i
      OBVIOUS
    <3> QED BY <2>2, <2>3, <3>1
  <2> QED BY <2>2, <2>3, <2>4
<1>3. RemoveAt(list, k) = u \o v
  BY DEF RemoveAt
<1> HIDE DEF u, v
<1>4. /\ u \o v \in Seq(S) /\ Len(u \o v) = Len(u) + Len(v)
      /\ \A i \in 1..(Len(u) + Len(v)) : (u \o v)[i] = IF i <= Len(u) THEN u[i] ELSE v[i - Len(u)]
  BY <1>1, <1>2, ConcatProperties
<1>5. Len(u) + Len(v) = Len(list) - 1
  BY <1>1, <1>2
<1>6. ASSUME NEW i \in 1..(Len(list) - 1)
      PROVE  (u \o v)[i] = list[IF i < k THEN i ELSE i + 1]
  <2>1. CASE i < k
    BY <2>1, <1>1, <1>4, <1>5
  <2>2. CASE ~(i < k)
    <3>1. i - (k - 1) \in 1..(Len(list) - k) /\ k + (i - (k - 1)) = i + 1
      BY <2>2
    <3>2. (u \o v)[i] = v[i - Len(u)] /\ Len(u) = k - 1
      BY <2>2, <1>1, <1>4, <1>5
    <3>3. v[i - (k - 1)] = list[k + (i - (k - 1))]
      BY <3>1, <1>2
    <3> QED BY <2>2, <3>1, <3>2, <3>3
  <2> QED BY <2>1, <2>2
<1> QED BY <1>3, <1>4, <1>5, <1>6

\* Inserting one element.
LEMMA InsertFact ==
  ASSUME NEW S, NEW list \in Seq(S), NEW k \in 1..(Len(list) + 1), NEW e \in S
  PROVE  /\ InsertAt(list, k, e) \in Seq(S) /\ Len(InsertAt(list, k, e)) = Len(list) + 1
         /\ \A i \in 1..(Len(list) + 1) : InsertAt(list, k, e)[i] = IF i < k THEN list[i] ELSE IF i = k THEN e ELSE list[i - 1]
<1> DEFINE u == SubSeq(list, 1, k - 1)
           w == u \o <<e>>
           v == SubSeq(list, k, Len(list))
<1>1. u \in Seq(S) /\ Len(u) = k - 1 /\ \A i \in 1..(k - 1) : u[i] = list[i]
  OBVIOUS
<1>2. /\ v \in Seq(S) /\ Len(v) = Len(list) - k + 1
      /\ \A i \in 1..(Len(list) - k + 1) : v[i] = list[k + i - 1]
  BY EndOf
<1>3. InsertAt(list, k, e) = w \o v
  BY DEF InsertAt
<1> HIDE DEF u, v
<1>4. w \in Seq(S) /\ Len(w) = k /\ \A i \in 1..k : w[i] = IF i < k THEN list[i] ELSE e
  <2>1. <<e>> \in Seq(S) /\ Len(<<e>>) = 1 /\ <<e>>[1] = e
    OBVIOUS
  <2>2. /\ w \in Seq(S) /\ Len(w) = Len(u) + Len(<<e>>)
        /\ \A i \in 1..(Len(u) + Len(<<e>>)) : w[i] = IF i <= Len(u) THEN u[i] ELSE <<e>>[i - Len(u)]
    BY <1>1, <2>1, ConcatProperties
  <2> HIDE DEF w
  <2>3. Len(w) = k
    BY <1>1, <2>1, <2>2
  <2>4. ASSUME NEW i \in 1..k PROVE w[i] = IF i < k THEN list[i] ELSE e
    <3>1. CASE i < k
      BY <3>1, <1>1, <2>1, <2>2
    <3>2. CASE i = k
      <4>1. i - Len(u) = 1
        BY <3>2, <1>1
      <4> QED BY <3>2, <4>1, <1>1, <2>1, <2>2
    <3> QED BY <3>1, <3>2
  <2> QED BY <2>2, <2>3, <2>4
<1> HIDE DEF w
<1>5. /\ w \o v \in Seq(S) /\ Len(w \o v) = Len(w) + Len(v)
      /\ \A i \in 1..(Len(w) + Len(v)) : (w \o v)[i] = IF i <= Len(w) THEN w[i] ELSE v[i - Len(w)]
  BY <1>2, <1>4, ConcatProperties
<1>6. Len(w) + Len(v) = Len(list) + 1
  BY <1>2, <1>4
<1>7. ASSUME NEW i \in 1..(Len(list) + 1)
      PROVE  (w \o v)[i] = IF i < k THEN list[i] ELSE IF i = k THEN e ELSE list[i - 1]
  <2>1. CASE i <= k
    BY <2>1, <1>4, <1>5, <1>6
  <2>2. CASE ~(i <= k)
    <3>1. i - k \in 1..(Len(list) - k + 1) /\ k + (i - k) - 1 = i - 1
      BY <2>2
    <3> QED BY <2>2, <3>1, <1>2, <1>4, <1>5, <1>6
  <2> QED BY <2>1, <2>2
<1> QED BY <1>3, <1>5, <1>6, <1>7

(***************************************************************************)
(* The inductive invariant of one direction: t is the side that sends, u   *)
(* the one that receives, forth what was sent from t to u and back what    *)
(* was sent from u to t.                                                   *)
(***************************************************************************)
Objects == Seq(Int) \cup Screen
Entry == [timestamp : Nat, num : 0..LastNum, state : Objects]

PeerFields ==
  {"current", "sent_states", "next_ack_time", "next_send_time", "mindelay_clock", "shutdown_in_progress",
   "shutdown_tries", "shutdown_start", "ack_num", "pending_data_ack", "last_heard", "last_instruction",
   "received_states", "quench_timer", "has_remote_addr", "heard_at", "failed"}

Nums(list) == {list[i].num : i \in 1..Len(list)}
Timed(list) == \A i, j \in 1..Len(list) : i <= j => list[i].timestamp <= list[j].timestamp

\* Before the shutdown a side takes at most one number in a moment: what it
\* has sent, it sends or acknowledges again at a later time only.
Paced(t) ==
  /\ Back(t).num = LastNum => t.shutdown_in_progress
  /\ \/ Back(t).num \in {0, LastNum}
     \/ t.next_ack_time > Back(t).timestamp /\ Back(t).num + ECHO_TIMEOUT <= Back(t).timestamp + 1

Sending(t, time) ==
  /\ DOMAIN t = PeerFields
  /\ t.sent_states \in Seq(Entry) /\ Len(t.sent_states) \in Nat \ {0}
  /\ Ordered(t.sent_states) /\ Timed(t.sent_states)
  /\ Back(t).timestamp <= time
  /\ t.next_ack_time \in Nat /\ t.mindelay_clock \in Nat
  /\ t.shutdown_in_progress \in BOOLEAN /\ t.has_remote_addr \in BOOLEAN /\ t.failed = FALSE
  /\ Paced(t)

Receiving(t) ==
  /\ DOMAIN t = PeerFields
  /\ t.received_states \in Seq(Entry) /\ Len(t.received_states) \in Nat \ {0}
  /\ Increasing(t.received_states)
  /\ t.ack_num = Newest(t).num

\* The receiver holds what the sender believes acknowledged, and the numbers
\* that travel: nobody is told to throw away what the other may still refer to,
\* and what is acknowledged is held, or older than what was acknowledged.
Exchange(t, u, forth, back) ==
  /\ Known(t).num \in Nums(u.received_states)
  /\ \A n \in Nums(u.received_states) : n <= Back(t).num
  /\ \A m \in forth : /\ m.throwaway \in Nat /\ m.old \in Nat /\ m.new \in Nat
                      /\ m.throwaway <= m.old /\ m.old <= m.new /\ m.new <= Back(t).num
                      /\ m.throwaway <= Known(t).num
  /\ \A m \in back : m.ack \in 0..LastNum /\ (m.ack < Known(t).num \/ m.ack \in Nums(u.received_states))

\* A number means one value, V[n], the larger number the later value: c is the
\* current one; the states of the sender begin at b, those of the receiver at r.
Growing(p, y, V, n, c) ==
  /\ V \in [Nat -> Value(p, y)]
  /\ \A i, j \in Nat : i <= j /\ j <= n => Below(p, V[i], V[j])
  /\ c \in Value(p, y) /\ Below(p, V[n], c)
  /\ n = LastNum => V[n] = c

Listed(p, y, V, b, list) ==
  /\ b \in Value(p, y) /\ Below(p, b, V[list[1].num])
  /\ \A i \in 1..Len(list) : list[i].state = Form(p, y, b, V[list[i].num])

Told(p, y, V, n, inst) ==
  \/ inst.old = LastNum /\ inst.new = LastNum /\ inst.diff = <<>>
  \/ /\ inst.old \in Nat /\ inst.new \in Nat /\ inst.old <= inst.new /\ inst.new <= n
     /\ inst.diff = Way(p, y, V[inst.old], V[inst.new])

Content(p, y, V, b, r, c, t, u, forth) ==
  /\ Growing(p, y, V, Back(t).num, c)
  /\ Listed(p, y, V, b, t.sent_states)
  /\ Listed(p, y, V, r, u.received_states)
  /\ t.current = Form(p, y, b, c)
  /\ \A m \in forth : m.diff = Way(p, y, V[m.old], V[m.new])
  /\ Told(p, y, V, Back(t).num, t.last_instruction)

\* The constants.
LEMMA ConstantsFact ==
  /\ Client # Server /\ LastNum \in Nat /\ Never \in Nat /\ MaxTime \in Nat /\ ECHO_TIMEOUT \in Nat
  /\ MaxTime + 1 < LastNum /\ MaxTime < Never /\ ECHO_TIMEOUT <= MaxTime /\ MaxTyped \in Nat
  /\ SEND_INTERVAL \in Nat \ {0} /\ ACK_INTERVAL \in Nat \ {0} /\ ACK_DELAY \in Nat \ {0} /\ RTO \in Nat \ {0}
  /\ SEND_MINDELAY \in Nat /\ SentLimit \in Int /\ EraseBack \in Int /\ EraseBack >= 3 /\ EraseBack <= SentLimit
<1>1. /\ Client # Server /\ LastNum \in Nat /\ Never \in Nat
      /\ SEND_INTERVAL \in Nat \ {0} /\ ACK_INTERVAL \in Nat \ {0} /\ ACK_DELAY \in Nat \ {0} /\ RTO \in Nat \ {0}
      /\ SEND_MINDELAY \in Nat /\ EraseBack \in 3..SentLimit
  BY TransportAssumption, Zenon DEF TransportAssumption
<1>2. MaxTime \in Nat /\ ECHO_TIMEOUT \in Nat /\ MaxTyped \in Nat
  BY SessionAssumption, Zenon DEF SessionAssumption
<1>3. MaxTime + 1 < LastNum /\ MaxTime < Never /\ ECHO_TIMEOUT <= MaxTime
  BY SessionAssumption DEF SessionAssumption
<1>4. SentLimit \in Int /\ EraseBack \in Int /\ EraseBack >= 3 /\ EraseBack <= SentLimit
  <2>1. SentLimit \in Nat
    BY TransportAssumption, Zenon DEF TransportAssumption
  <2> QED BY <1>1, <2>1
<1> QED BY <1>1, <1>2, <1>3, <1>4

\* The entries of a list.
LEMMA EntryFact ==
  ASSUME NEW list \in Seq(Entry)
  PROVE  /\ Len(list) \in Nat
         /\ \A e \in Entry : e.num \in Nat /\ e.timestamp \in Nat /\ e.num <= LastNum
         /\ \A i \in 1..Len(list) : /\ list[i] \in Entry /\ list[i].num \in Nat /\ list[i].timestamp \in Nat
                                    /\ list[i].num <= LastNum
<1>1. \A e \in Entry : e.num \in 0..LastNum /\ e.timestamp \in Nat
  BY DEF Entry
<1>2. \A n \in 0..LastNum : n \in Nat /\ n <= LastNum
  BY ConstantsFact
<1>3. Len(list) \in Nat /\ \A i \in 1..Len(list) : list[i] \in Entry
  OBVIOUS
<1> QED BY <1>1, <1>2, <1>3

\* Values of an object in a list are states.
LEMMA FormType ==
  ASSUME NEW p \in Peers, NEW y \in Seq(Int), NEW b \in Value(p, y), NEW v \in Value(p, y), Below(p, b, v)
  PROVE  Form(p, y, b, v) \in Objects
<1>1. CASE p = Client
  <2>1. b \in Nat /\ v \in Nat /\ b <= v /\ v <= Len(y)
    BY <1>1 DEF Value, Below
  <2> QED BY <1>1, <2>1, CutFact DEF Form, Objects
<1>2. CASE p # Client
  BY <1>2 DEF Form, Value, Objects
<1> QED BY <1>1, <1>2

\* All the values of a list are after its beginning.
LEMMA ListedAfter ==
  ASSUME NEW p \in Peers, NEW y \in Seq(Int), NEW V, NEW n \in Nat, NEW c, Growing(p, y, V, n, c),
         NEW b, NEW list \in Seq(Entry), Len(list) \in Nat \ {0}, Ordered(list), Listed(p, y, V, b, list),
         list[Len(list)].num <= n
  PROVE  /\ \A i \in 1..Len(list) : /\ list[i].num \in Nat /\ list[i].num <= n
                                    /\ V[list[i].num] \in Value(p, y) /\ Below(p, b, V[list[i].num])
                                    /\ Below(p, V[list[i].num], c)
         /\ b \in Value(p, y) /\ c \in Value(p, y) /\ Below(p, b, c)
<1>1. b \in Value(p, y) /\ c \in Value(p, y) /\ Below(p, b, V[list[1].num])
  BY DEF Listed, Growing
<1>2. \A i \in Nat : V[i] \in Value(p, y)
  BY DEF Growing
<1>3. Len(list) \in Nat \ {0} /\ \A i \in 1..Len(list) : list[i].num \in Nat
  BY EntryFact
<1>4. ASSUME NEW i \in 1..Len(list)
      PROVE  /\ list[i].num <= n /\ V[list[i].num] \in Value(p, y) /\ Below(p, b, V[list[i].num])
             /\ Below(p, V[list[i].num], c)
  <2>1. list[1].num <= list[i].num /\ list[i].num <= list[Len(list)].num
    BY <1>3 DEF Ordered
  <2>2. list[i].num <= n /\ list[1].num \in Nat /\ list[i].num \in Nat
    BY <1>3, <2>1
  <2>3. Below(p, V[list[1].num], V[list[i].num]) /\ Below(p, V[list[i].num], V[n]) /\ Below(p, V[n], c)
    BY <2>1, <2>2 DEF Growing
  <2>4. V[list[1].num] \in Value(p, y) /\ V[list[i].num] \in Value(p, y) /\ V[n] \in Value(p, y)
    BY <1>2, <2>2
  <2>5. Below(p, b, V[list[i].num])
    BY <1>1, <2>3, <2>4, BelowFact
  <2>6. Below(p, V[list[i].num], c)
    BY <1>1, <2>3, <2>4, BelowFact
  <2> QED BY <2>2, <2>4, <2>5, <2>6
<1>5. Below(p, b, c)
  <2>1. 1 \in 1..Len(list)
    BY <1>3
  <2>2. V[list[1].num] \in Value(p, y) /\ Below(p, V[list[1].num], c)
    BY <1>4, <2>1
  <2> QED BY <1>1, <2>2, BelowFact
<1> QED BY <1>1, <1>3, <1>4, <1>5

\* The end of a list has the properties of the list.
LEMMA EndListed ==
  ASSUME NEW list \in Seq(Entry), NEW a \in 1..Len(list), Ordered(list)
  PROVE  LET s == SubSeq(list, a, Len(list)) IN
         /\ s \in Seq(Entry) /\ Len(s) = Len(list) - a + 1 /\ Len(s) \in Nat \ {0} /\ Ordered(s)
         /\ s[1] = list[a] /\ s[Len(s)] = list[Len(list)]
         /\ \A i \in 1..Len(s) : a + i - 1 \in 1..Len(list) /\ s[i] = list[a + i - 1]
         /\ Timed(list) => Timed(s)
         /\ Increasing(list) => Increasing(s)
<1> DEFINE n == Len(list)
           s == SubSeq(list, a, n)
<1>1. n \in Nat /\ a \in Nat /\ a >= 1 /\ a <= n
  BY EntryFact
<1>2. /\ s \in Seq(Entry) /\ Len(s) = n - a + 1
      /\ \A i \in 1..(n - a + 1) : s[i] = list[a + i - 1]
  BY <1>1, EndOf
<1> HIDE DEF s
<1>3. Len(s) \in Nat \ {0}
  BY <1>1, <1>2
<1>4. \A i \in 1..Len(s) : a + i - 1 \in 1..n /\ s[i] = list[a + i - 1]
  BY <1>1, <1>2
<1>5. s[1] = list[a] /\ s[Len(s)] = list[n]
  <2>1. 1 \in 1..Len(s) /\ Len(s) \in 1..Len(s) /\ a + 1 - 1 = a /\ a + Len(s) - 1 = n
    BY <1>1, <1>2
  <2> QED BY <1>4, <2>1
<1>6. Ordered(s)
  <2> SUFFICES ASSUME NEW i \in 1..Len(s), NEW j \in 1..Len(s), i <= j
               PROVE  s[i].num <= s[j].num
    BY DEF Ordered
  <2>1. a + i - 1 \in 1..n /\ a + j - 1 \in 1..n /\ a + i - 1 <= a + j - 1
    BY <1>1, <1>4
  <2>2. list[a + i - 1].num <= list[a + j - 1].num
    BY <2>1 DEF Ordered
  <2> QED BY <1>4, <2>2
<1>7. ASSUME Timed(list) PROVE Timed(s)
  <2> SUFFICES ASSUME NEW i \in 1..Len(s), NEW j \in 1..Len(s), i <= j
               PROVE  s[i].timestamp <= s[j].timestamp
    BY DEF Timed
  <2>1. a + i - 1 \in 1..n /\ a + j - 1 \in 1..n /\ a + i - 1 <= a + j - 1
    BY <1>1, <1>4
  <2>2. list[a + i - 1].timestamp <= list[a + j - 1].timestamp
    BY <1>7, <2>1 DEF Timed
  <2> QED BY <1>4, <2>2
<1>8. ASSUME Increasing(list) PROVE Increasing(s)
  <2> SUFFICES ASSUME NEW i \in 1..Len(s), NEW j \in 1..Len(s), i < j
               PROVE  s[i].num < s[j].num
    BY DEF Increasing
  <2>1. a + i - 1 \in 1..n /\ a + j - 1 \in 1..n /\ a + i - 1 < a + j - 1
    BY <1>1, <1>4
  <2>2. list[a + i - 1].num < list[a + j - 1].num
    BY <1>8, <2>1 DEF Increasing
  <2> QED BY <1>4, <2>2
<1> QED BY <1>2, <1>3, <1>4, <1>5, <1>6, <1>7, <1>8 DEF s

\* A list that increases is ordered.
LEMMA IncreasingOrdered ==
  ASSUME NEW list \in Seq(Entry), Increasing(list)
  PROVE  Ordered(list)
<1> SUFFICES ASSUME NEW i \in 1..Len(list), NEW j \in 1..Len(list), i <= j
             PROVE  list[i].num <= list[j].num
  BY DEF Ordered
<1>1. list[i].num \in Nat /\ list[j].num \in Nat
  BY EntryFact
<1>2. CASE i = j
  BY <1>1, <1>2
<1>3. CASE i < j
  BY <1>1, <1>3 DEF Increasing
<1> QED BY <1>2, <1>3

(***************************************************************************)
(* Acknowledgements and throw-away numbers.                                *)
(***************************************************************************)
\* What the invariant says of a sender depends on the fields of a sender.
LEMMA SameSender ==
  ASSUME NEW t, NEW s, NEW time, Sending(t, time), DOMAIN s = PeerFields,
         s.sent_states = t.sent_states, s.next_ack_time = t.next_ack_time, s.mindelay_clock = t.mindelay_clock,
         s.shutdown_in_progress = t.shutdown_in_progress, s.has_remote_addr \in BOOLEAN, s.failed = t.failed
  PROVE  Sending(s, time) /\ Back(s) = Back(t) /\ Known(s) = Known(t)
<1>1. Back(s) = Back(t) /\ Known(s) = Known(t)
  BY DEF Back, Known
<1> QED BY <1>1 DEF Sending, Paced

\* A side whose receiving half did not change.
LEMMA SameReceiver ==
  ASSUME NEW t, NEW s, Receiving(t), DOMAIN s = PeerFields,
         s.received_states = t.received_states, s.ack_num = t.ack_num
  PROVE  Receiving(s) /\ Newest(s) = Newest(t)
<1>1. Newest(s) = Newest(t)
  BY DEF Newest
<1> QED BY <1>1 DEF Receiving

\* The first and the last number of a sender.
LEMMA SenderFact ==
  ASSUME NEW t, NEW time, Sending(t, time)
  PROVE  /\ t.sent_states \in Seq(Entry) /\ Len(t.sent_states) \in Nat \ {0}
         /\ 1 \in 1..Len(t.sent_states) /\ Len(t.sent_states) \in 1..Len(t.sent_states)
         /\ Known(t) \in Entry /\ Back(t) \in Entry
         /\ Known(t).num \in Nat /\ Back(t).num \in Nat /\ Back(t).num <= LastNum /\ Known(t).num <= Back(t).num
         /\ Known(t).timestamp \in Nat /\ Back(t).timestamp \in Nat
         /\ \A i \in 1..Len(t.sent_states) : /\ t.sent_states[i].num \in Nat
                                             /\ Known(t).num <= t.sent_states[i].num /\ t.sent_states[i].num <= Back(t).num
<1>1. t.sent_states \in Seq(Entry) /\ Len(t.sent_states) \in Nat \ {0} /\ Ordered(t.sent_states)
  BY DEF Sending
<1>2. 1 \in 1..Len(t.sent_states) /\ Len(t.sent_states) \in 1..Len(t.sent_states)
  BY <1>1
<1>3. \A i \in 1..Len(t.sent_states) : /\ t.sent_states[i].num \in Nat /\ t.sent_states[i].num <= LastNum
                                       /\ t.sent_states[i].timestamp \in Nat /\ t.sent_states[i] \in Entry
  BY <1>1, EntryFact
<1>4. \A i \in 1..Len(t.sent_states) : Known(t).num <= t.sent_states[i].num /\ t.sent_states[i].num <= Back(t).num
  <2> TAKE i \in 1..Len(t.sent_states)
  <2>1. 1 <= i /\ i <= Len(t.sent_states)
    BY <1>1
  <2> QED BY <1>1, <1>2, <2>1 DEF Ordered, Known, Back
<1> QED BY <1>1, <1>2, <1>3, <1>4 DEF Known, Back

\* The numbers of a receiver.
LEMMA ReceiverFact ==
  ASSUME NEW u, Receiving(u)
  PROVE  /\ u.received_states \in Seq(Entry) /\ Len(u.received_states) \in Nat \ {0} /\ Ordered(u.received_states)
         /\ 1 \in 1..Len(u.received_states) /\ Len(u.received_states) \in 1..Len(u.received_states)
         /\ Newest(u) \in Entry /\ Newest(u).num \in Nat /\ Newest(u).num \in Nums(u.received_states)
         /\ Newest(u).num <= LastNum
         /\ \A n \in Nums(u.received_states) : n \in Nat /\ n <= Newest(u).num /\ u.received_states[1].num <= n
         /\ Nums(u.received_states) = {s.num : s \in Range(u.received_states)}
<1>1. u.received_states \in Seq(Entry) /\ Len(u.received_states) \in Nat \ {0} /\ Increasing(u.received_states)
  BY DEF Receiving
<1>2. Ordered(u.received_states)
  BY <1>1, IncreasingOrdered
<1>3. 1 \in 1..Len(u.received_states) /\ Len(u.received_states) \in 1..Len(u.received_states)
  BY <1>1
<1>4. \A i \in 1..Len(u.received_states) : /\ u.received_states[i].num \in Nat /\ u.received_states[i].num <= LastNum
                                           /\ u.received_states[i] \in Entry
  BY <1>1, EntryFact
<1>5. \A n \in Nums(u.received_states) : n \in Nat /\ n <= Newest(u).num /\ u.received_states[1].num <= n
  <2> SUFFICES ASSUME NEW i \in 1..Len(u.received_states)
               PROVE  /\ u.received_states[i].num \in Nat /\ u.received_states[i].num <= Newest(u).num
                      /\ u.received_states[1].num <= u.received_states[i].num
    BY DEF Nums
  <2>1. 1 <= i /\ i <= Len(u.received_states)
    BY <1>1
  <2> QED BY <1>2, <1>3, <1>4, <2>1 DEF Ordered, Newest
<1>6. Nums(u.received_states) = {s.num : s \in Range(u.received_states)}
  <2>1. DOMAIN u.received_states = 1..Len(u.received_states)
    BY <1>1
  <2> QED BY <2>1 DEF Nums, Range
<1>7. Newest(u).num \in Nums(u.received_states)
  BY <1>3 DEF Newest, Nums
<1> QED BY <1>1, <1>2, <1>3, <1>4, <1>5, <1>6, <1>7 DEF Newest

Acked(t, u, s, time, forth, back) ==
  /\ Sending(s, time) /\ Exchange(s, u, forth, back) /\ Back(s) = Back(t)
  /\ \A f \in PeerFields \ {"sent_states"} : s[f] = t[f]
  /\ \E a \in 1..Len(t.sent_states) : s.sent_states = SubSeq(t.sent_states, a, Len(t.sent_states))

\* An acknowledgement moves the first of the sent states forward, to one the
\* receiver holds.
LEMMA AckFact ==
  ASSUME NEW t, NEW u, NEW time, NEW forth, NEW back, NEW ack \in Nat,
         Sending(t, time), Receiving(u), Exchange(t, u, forth, back),
         ack < Known(t).num \/ ack \in Nums(u.received_states)
  PROVE  Acked(t, u, process_acknowledgment_through(t, ack), time, forth, back)
<1> DEFINE list == t.sent_states
           n == Len(list)
           s == process_acknowledgment_through(t, ack)
<1>1. /\ list \in Seq(Entry) /\ n \in Nat \ {0} /\ Ordered(list) /\ Timed(list) /\ DOMAIN t = PeerFields
      /\ DOMAIN list = 1..n /\ \A i \in 1..n : list[i].num \in Nat
  BY EntryFact DEF Sending
<1>2. CASE ~\E i \in DOMAIN list : list[i].num = ack
  <2>1. s = t
    BY <1>2 DEF process_acknowledgment_through
  <2>2. list = SubSeq(list, 1, n)
    BY <1>1, SubSeqFull
  <2>3. 1 \in 1..n
    BY <1>1
  <2> HIDE DEF list, n, s
  <2>4. \E a \in 1..n : list = SubSeq(list, a, n)
    BY <2>2, <2>3
  <2> QED BY <2>1, <2>4 DEF list, n, s, Acked
<1>3. CASE \E i \in DOMAIN list : list[i].num = ack
  <2>1. s = [t EXCEPT !.sent_states = From(list, ack)]
    BY <1>3 DEF process_acknowledgment_through
  <2>2. PICK a \in 1..(n + 1) : /\ From(list, ack) = SubSeq(list, a, n)
                                /\ \A i \in 1..n : list[i].num >= ack <=> i >= a
    <3>1. \A e \in Entry : e.num \in Nat
      BY <1>1, EntryFact
    <3> HIDE DEF list, n
    <3> QED BY <1>1, <3>1, FromFact DEF n
  <2>3. PICK k \in 1..n : list[k].num = ack
    BY <1>1, <1>3
  <2>4. a \in 1..n /\ list[a].num = ack
    <3>1. k >= a
      BY <2>2, <2>3
    <3>2. a \in 1..n
      BY <1>1, <2>2, <3>1
    <3>3. list[a].num >= ack /\ list[a].num <= list[k].num
      BY <1>1, <2>2, <3>1, <3>2 DEF Ordered
    <3> QED BY <1>1, <2>3, <3>2, <3>3
  <2> DEFINE l == SubSeq(list, a, n)
  <2>5. /\ l \in Seq(Entry) /\ Len(l) \in Nat \ {0} /\ Ordered(l) /\ Timed(l)
        /\ l[1] = list[a] /\ l[Len(l)] = list[n]
    <3> HIDE DEF list
    <3> QED BY <1>1, <2>4, EndListed
  <2>6. DOMAIN s = PeerFields /\ s.sent_states = l /\ \A f \in PeerFields \ {"sent_states"} : s[f] = t[f]
    BY <2>1, <2>2, <1>1 DEF PeerFields
  <2> HIDE DEF s, l
  <2>7. Back(s) = Back(t) /\ Known(s) = list[a]
    BY <2>5, <2>6 DEF Back, Known
  <2>8. Sending(s, time)
    <3>1. /\ s.next_ack_time = t.next_ack_time /\ s.mindelay_clock = t.mindelay_clock
          /\ s.shutdown_in_progress = t.shutdown_in_progress /\ s.has_remote_addr = t.has_remote_addr /\ s.failed = t.failed
      BY <2>6 DEF PeerFields
    <3> QED BY <2>5, <2>6, <2>7, <3>1 DEF Sending, Paced
  <2>9. Known(t).num <= ack /\ Known(t).num \in Nat
    BY <2>3, SenderFact
  <2>10. Exchange(s, u, forth, back)
    <3>1. ack \in Nums(u.received_states) /\ Known(s).num = ack
      BY <2>4, <2>7, <2>9
    <3>2. \A m \in back : m.ack \in 0..LastNum /\ (m.ack < Known(s).num \/ m.ack \in Nums(u.received_states))
      BY <2>9, <3>1, ConstantsFact DEF Exchange
    <3>3. \A m \in forth : /\ m.throwaway \in Nat /\ m.old \in Nat /\ m.new \in Nat
                      /\ m.throwaway <= m.old /\ m.old <= m.new /\ m.new <= Back(s).num
                      /\ m.throwaway <= Known(s).num
      BY <2>7, <2>9, <3>1 DEF Exchange
    <3> QED BY <2>7, <3>1, <3>2, <3>3 DEF Exchange
  <2>11. Acked(t, u, s, time, forth, back)
    BY <2>4, <2>6, <2>7, <2>8, <2>10 DEF l, Acked
  <2> QED BY <2>11 DEF s
<1> QED BY <1>2, <1>3

\* The states left of a list begin where they began.
LEMMA EndContent ==
  ASSUME NEW p \in Peers, NEW y \in Seq(Int), NEW V, NEW b, NEW n \in Nat, NEW c, Growing(p, y, V, n, c),
         NEW list \in Seq(Entry), Len(list) \in Nat \ {0}, Ordered(list), list[Len(list)].num <= n,
         NEW a \in 1..Len(list), Listed(p, y, V, b, list)
  PROVE  Listed(p, y, V, b, SubSeq(list, a, Len(list)))
<1> DEFINE l == SubSeq(list, a, Len(list))
<1>1. l[1] = list[a] /\ \A i \in 1..Len(l) : a + i - 1 \in 1..Len(list) /\ l[i] = list[a + i - 1]
  BY EndListed
<1> HIDE DEF l
<1>2. Below(p, b, V[list[a].num]) /\ b \in Value(p, y)
  BY ListedAfter
<1>3. \A i \in 1..Len(l) : l[i].state = Form(p, y, b, V[l[i].num])
  BY <1>1 DEF Listed
<1>4. Listed(p, y, V, b, l)
  BY <1>1, <1>2, <1>3 DEF Listed
<1> QED BY <1>4 DEF l

\* An acknowledgement changes no value.
LEMMA AckContent ==
  ASSUME NEW t, NEW u, NEW s, NEW time, NEW forth, Sending(t, time), Back(s) = Back(t),
         \A f \in PeerFields \ {"sent_states"} : s[f] = t[f],
         NEW a \in 1..Len(t.sent_states), s.sent_states = SubSeq(t.sent_states, a, Len(t.sent_states)),
         NEW p \in Peers, NEW y \in Seq(Int), NEW V, NEW b, NEW r, NEW c, Content(p, y, V, b, r, c, t, u, forth)
  PROVE  Content(p, y, V, b, r, c, s, u, forth)
<1>1. t.sent_states \in Seq(Entry) /\ Len(t.sent_states) \in Nat \ {0} /\ Ordered(t.sent_states)
  BY DEF Sending
<1>2. Back(t).num \in Nat /\ t.sent_states[Len(t.sent_states)].num <= Back(t).num
  BY SenderFact DEF Back
<1>3. Growing(p, y, V, Back(t).num, c) /\ Listed(p, y, V, b, t.sent_states)
  BY DEF Content
<1>4. Listed(p, y, V, b, s.sent_states)
  BY <1>1, <1>2, <1>3, EndContent
<1>5. s.current = t.current /\ s.last_instruction = t.last_instruction
  BY DEF PeerFields
<1> QED BY <1>4, <1>5 DEF Content

\* A throw-away number leaves what the sender may refer to.
Thrown(t, u, w, forth, back, k) ==
  /\ Receiving(w) /\ Exchange(t, w, forth, back) /\ Newest(w) = Newest(u)
  /\ \A f \in PeerFields \ {"received_states"} : w[f] = u[f]
  /\ \A n \in Nums(u.received_states) : n >= k => n \in Nums(w.received_states)
  /\ Nums(w.received_states) \subseteq Nums(u.received_states)
  /\ \E a \in 1..Len(u.received_states) : w.received_states = SubSeq(u.received_states, a, Len(u.received_states))

\* process_throwaway_until keeps what the sender may still refer to.
LEMMA ThrowFact ==
  ASSUME NEW t, NEW u, NEW time, NEW forth, NEW back, NEW k \in Nat, Sending(t, time), Receiving(u),
         Exchange(t, u, forth, back), k <= Known(t).num
  PROVE  Thrown(t, u, process_throwaway_until(u, k), forth, back, k)
<1> DEFINE list == u.received_states
           n == Len(list)
           w == process_throwaway_until(u, k)
<1>1. /\ list \in Seq(Entry) /\ n \in Nat \ {0} /\ Ordered(list) /\ Increasing(list) /\ DOMAIN u = PeerFields
      /\ DOMAIN list = 1..n /\ \A i \in 1..n : list[i].num \in Nat
  BY EntryFact, ReceiverFact DEF Receiving
<1>2. w = [u EXCEPT !.received_states = From(list, k)]
  BY DEF process_throwaway_until
<1>3. PICK a \in 1..(n + 1) : /\ From(list, k) = SubSeq(list, a, n)
                              /\ \A i \in 1..n : list[i].num >= k <=> i >= a
  <2>1. \A e \in Entry : e.num \in Nat
    BY <1>1, EntryFact
  <2> HIDE DEF list, n
  <2> QED BY <1>1, <2>1, FromFact DEF n
<1>4. PICK i0 \in 1..n : list[i0].num = Known(t).num
  BY DEF Exchange, Nums
<1>5. a \in 1..n
  <2>1. Known(t).num \in Nat
    BY SenderFact
  <2>2. i0 >= a
    BY <1>1, <1>3, <1>4, <2>1
  <2> QED BY <1>1, <1>3, <2>2
<1> DEFINE l == SubSeq(list, a, n)
<1>6. /\ l \in Seq(Entry) /\ Len(l) = n - a + 1 /\ Len(l) \in Nat \ {0} /\ Increasing(l)
      /\ l[1] = list[a] /\ l[Len(l)] = list[n]
      /\ \A i \in 1..Len(l) : a + i - 1 \in 1..n /\ l[i] = list[a + i - 1]
  <2> HIDE DEF list
  <2> QED BY <1>1, <1>5, EndListed
<1>7. DOMAIN w = PeerFields /\ w.received_states = l /\ \A f \in PeerFields \ {"received_states"} : w[f] = u[f]
  BY <1>1, <1>2, <1>3 DEF PeerFields
<1> HIDE DEF w, l
<1>8. Newest(w) = Newest(u) /\ w.ack_num = u.ack_num
  BY <1>6, <1>7 DEF Newest, PeerFields
<1>9. Receiving(w)
  BY <1>6, <1>7, <1>8 DEF Receiving
<1>10. Nums(l) \subseteq Nums(list)
  BY <1>6 DEF Nums
<1>11. \A x \in Nums(list) : x >= k => x \in Nums(l)
  <2> SUFFICES ASSUME NEW i \in 1..n, list[i].num >= k PROVE list[i].num \in Nums(l)
    BY DEF Nums
  <2>1. i >= a
    BY <1>3
  <2>2. i - a + 1 \in 1..Len(l) /\ a + (i - a + 1) - 1 = i
    BY <2>1, <1>5, <1>6
  <2>3. l[i - a + 1] = list[i]
    BY <2>2, <1>6
  <2> QED BY <2>2, <2>3 DEF Nums
<1>12. Exchange(t, w, forth, back)
  <2>1. Known(t).num \in Nat
    BY SenderFact
  <2>2. Known(t).num \in Nums(l)
    BY <1>11, <2>1 DEF Exchange
  <2>3. \A m \in back : m.ack \in 0..LastNum /\ (m.ack < Known(t).num \/ m.ack \in Nums(l))
    <3> TAKE m \in back
    <3>1. m.ack \in 0..LastNum /\ (m.ack < Known(t).num \/ m.ack \in Nums(list))
      BY DEF Exchange
    <3>2. m.ack \in Nat
      BY <3>1, ConstantsFact
    <3> QED BY <3>1, <3>2, <2>1, <1>11
  <2> QED BY <1>7, <1>10, <2>2, <2>3 DEF Exchange
<1>13. Thrown(t, u, w, forth, back, k)
  BY <1>5, <1>7, <1>8, <1>9, <1>10, <1>11, <1>12 DEF l, Thrown
<1> QED BY <1>13 DEF w

(***************************************************************************)
(* A new state takes its place among the received ones.                    *)
(***************************************************************************)
LEMMA PlaceFact ==
  ASSUME NEW list \in Seq(Entry), Increasing(list), NEW num \in Nat, num \notin Nums(list)
  PROVE  /\ insertAt(list, num) \in 1..(Len(list) + 1)
         /\ \A i \in 1..Len(list) : i < insertAt(list, num) => list[i].num < num
         /\ \A i \in 1..Len(list) : i >= insertAt(list, num) => list[i].num > num
<1> DEFINE n == Len(list)
           larger == {i \in DOMAIN list : list[i].num > num}
           at == insertAt(list, num)
<1>1. n \in Nat /\ DOMAIN list = 1..n /\ \A i \in 1..n : list[i].num \in Nat /\ list[i].num # num
  BY EntryFact DEF Nums
<1>2. at = IF larger = {} THEN n + 1 ELSE Min(larger)
  BY DEF insertAt
<1>3. CASE larger = {}
  <2>1. at = n + 1
    BY <1>2, <1>3
  <2>2. \A i \in 1..n : list[i].num < num
    BY <1>1, <1>3
  <2> HIDE DEF at
  <2>3. \A i \in 1..n : ~(i >= at)
    BY <1>1, <2>1
  <2> QED BY <1>1, <2>1, <2>2, <2>3 DEF at
<1>4. CASE larger # {}
  <2>1. larger \subseteq Nat /\ larger \subseteq 1..n
    BY <1>1
  <2>2. at \in larger /\ \A i \in larger : at <= i
    <3>1. Min(larger) \in larger /\ \A i \in larger : Min(larger) <= i
      <4> HIDE DEF larger
      <4> QED BY <1>4, <2>1, MinFact
    <3> QED BY <1>2, <1>4, <3>1
  <2> HIDE DEF at
  <2>3. at \in 1..n /\ list[at].num > num
    BY <2>1, <2>2
  <2>4. \A i \in 1..n : i < at => list[i].num < num
    <3> TAKE i \in 1..n
    <3> HAVE i < at
    <3>1. i \notin larger
      BY <2>2, <2>3
    <3> QED BY <1>1, <3>1
  <2>5. \A i \in 1..n : i >= at => list[i].num > num
    <3> TAKE i \in 1..n
    <3> HAVE i >= at
    <3>1. CASE i = at
      BY <3>1, <2>3
    <3>2. CASE i > at
      <4>1. list[at].num < list[i].num
        BY <2>3, <3>2 DEF Increasing
      <4> QED BY <1>1, <2>3, <4>1
    <3> QED BY <2>3, <3>1, <3>2
  <2> QED BY <1>1, <2>3, <2>4, <2>5 DEF at
<1> QED BY <1>3, <1>4

\* The list stays in the order of its numbers.
LEMMA InsertListed ==
  ASSUME NEW list \in Seq(Entry), Increasing(list), Len(list) \in Nat \ {0},
         NEW e \in Entry, e.num \notin Nums(list)
  PROVE  LET at == insertAt(list, e.num)
             l == InsertAt(list, at, e)
         IN  /\ l \in Seq(Entry) /\ Len(l) \in Nat \ {0} /\ Increasing(l)
             /\ Nums(l) = Nums(list) \cup {e.num}
             /\ at <= Len(list) => l[Len(l)] = list[Len(list)]
             /\ ~(at <= Len(list)) => l[Len(l)] = e /\ list[Len(list)].num < e.num
             /\ (\E n \in Nums(list) : n < e.num) => l[1] = list[1]
             /\ \A i \in 1..Len(l) : l[i] = e \/ \E j \in 1..Len(list) : l[i] = list[j]
<1> DEFINE n == Len(list)
           at == insertAt(list, e.num)
           l == InsertAt(list, at, e)
<1>1. n \in Nat \ {0} /\ e.num \in Nat /\ \A i \in 1..n : list[i].num \in Nat
  BY EntryFact
<1>2. /\ at \in 1..(n + 1)
      /\ \A i \in 1..n : i < at => list[i].num < e.num
      /\ \A i \in 1..n : i >= at => list[i].num > e.num
  BY <1>1, PlaceFact
<1> HIDE DEF at
<1>3. /\ l \in Seq(Entry) /\ Len(l) = n + 1
      /\ \A i \in 1..(n + 1) : l[i] = IF i < at THEN list[i] ELSE IF i = at THEN e ELSE list[i - 1]
  BY <1>2, InsertFact
<1> HIDE DEF l
<1>4. Increasing(l)
  <2> SUFFICES ASSUME NEW i \in 1..(n + 1), NEW j \in 1..(n + 1), i < j
               PROVE  l[i].num < l[j].num
    BY <1>3 DEF Increasing
  <2>1. CASE j < at
    <3>1. i \in 1..n /\ j \in 1..n /\ l[i] = list[i] /\ l[j] = list[j]
      BY <1>1, <1>2, <1>3, <2>1
    <3> QED BY <3>1 DEF Increasing
  <2>2. CASE j = at
    <3>1. i \in 1..n /\ l[i] = list[i] /\ l[j] = e /\ i < at
      BY <1>1, <1>2, <1>3, <2>2
    <3> QED BY <3>1, <1>2
  <2>3. CASE j > at /\ i < at
    <3>1. i \in 1..n /\ j - 1 \in 1..n /\ l[i] = list[i] /\ l[j] = list[j - 1] /\ j - 1 >= at
      BY <1>1, <1>2, <1>3, <2>3
    <3>2. list[i].num < e.num /\ list[j - 1].num > e.num
      BY <1>2, <3>1, <2>3
    <3> QED BY <1>1, <3>1, <3>2
  <2>4. CASE j > at /\ i = at
    <3>1. j - 1 \in 1..n /\ l[i] = e /\ l[j] = list[j - 1] /\ j - 1 >= at
      BY <1>1, <1>2, <1>3, <2>4
    <3>2. list[j - 1].num > e.num
      BY <1>2, <3>1
    <3> QED BY <1>1, <3>1, <3>2
  <2>5. CASE i > at
    <3>1. i - 1 \in 1..n /\ j - 1 \in 1..n /\ l[i] = list[i - 1] /\ l[j] = list[j - 1] /\ i - 1 < j - 1
      BY <1>1, <1>2, <1>3, <2>5
    <3> QED BY <3>1 DEF Increasing
  <2> QED BY <1>1, <1>2, <2>1, <2>2, <2>3, <2>4, <2>5
<1>5. \A i \in 1..Len(l) : l[i] = e \/ \E j \in 1..n : l[i] = list[j]
  <2> TAKE i \in 1..Len(l)
  <2>1. CASE i < at
    <3>1. i \in 1..n /\ l[i] = list[i]
      BY <1>1, <1>2, <1>3, <2>1
    <3> QED BY <3>1
  <2>2. CASE i = at
    BY <1>2, <1>3, <2>2
  <2>3. CASE i > at
    <3>1. i - 1 \in 1..n /\ l[i] = list[i - 1]
      BY <1>1, <1>2, <1>3, <2>3
    <3> QED BY <3>1
  <2> QED BY <1>1, <1>2, <1>3, <2>1, <2>2, <2>3
<1>6. Nums(l) = Nums(list) \cup {e.num}
  <2>1. Nums(l) \subseteq Nums(list) \cup {e.num}
    BY <1>5 DEF Nums
  <2>2. e.num \in Nums(l)
    <3>1. at \in 1..Len(l) /\ l[at] = e
      BY <1>1, <1>2, <1>3
    <3> QED BY <3>1 DEF Nums
  <2>3. ASSUME NEW j \in 1..n PROVE list[j].num \in Nums(l)
    <3>1. CASE j < at
      <4>1. j \in 1..Len(l) /\ l[j] = list[j]
        BY <1>1, <1>3, <3>1
      <4> QED BY <4>1 DEF Nums
    <3>2. CASE ~(j < at)
      <4>1. j + 1 \in 1..(n + 1) /\ ~(j + 1 < at) /\ j + 1 # at /\ (j + 1) - 1 = j
        BY <1>1, <1>2, <3>2
      <4>2. l[j + 1] = list[j] /\ j + 1 \in 1..Len(l)
        BY <1>3, <4>1
      <4> QED BY <4>2 DEF Nums
    <3> QED BY <3>1, <3>2
  <2> QED BY <2>1, <2>2, <2>3 DEF Nums
<1>7. at <= n => l[Len(l)] = list[n]
  <2> HAVE at <= n
  <2>1. n + 1 \in 1..(n + 1) /\ ~(n + 1 < at) /\ n + 1 # at /\ (n + 1) - 1 = n
    BY <1>1, <1>2
  <2> QED BY <1>3, <2>1
<1>8. ~(at <= n) => l[Len(l)] = e /\ list[n].num < e.num
  <2> HAVE ~(at <= n)
  <2>1. at = n + 1 /\ n \in 1..n /\ n < at /\ n + 1 \in 1..(n + 1)
    BY <1>1, <1>2
  <2> QED BY <1>2, <1>3, <2>1
<1>9. (\E x \in Nums(list) : x < e.num) => l[1] = list[1]
  <2> HAVE \E x \in Nums(list) : x < e.num
  <2>1. PICK i \in 1..n : list[i].num < e.num
    BY DEF Nums
  <2>2. i < at
    <3>1. ~(list[i].num > e.num)
      BY <1>1, <2>1
    <3> QED BY <1>2, <3>1
  <2>3. 1 < at /\ 1 \in 1..(n + 1)
    BY <1>1, <1>2, <2>2
  <2> QED BY <1>3, <2>3
<1> QED BY <1>1, <1>3, <1>4, <1>5, <1>6, <1>7, <1>8, <1>9 DEF at, l

\* What a receiver says of the values, by its list.
LEMMA ReceivedContent ==
  ASSUME NEW p, NEW y, NEW V, NEW b, NEW r, NEW q, NEW c, NEW t, NEW u, NEW w, NEW forth, Content(p, y, V, b, r, c, t, u, forth),
         Listed(p, y, V, q, w.received_states)
  PROVE  Content(p, y, V, b, q, c, t, w, forth)
BY DEF Content

ReceiverFields == {"received_states", "quench_timer", "ack_num", "last_heard", "pending_data_ack"}

Accepted(t, u, w, forth, back) ==
  /\ Receiving(w) /\ Exchange(t, w, forth, back) /\ Newest(u).num <= Newest(w).num
  /\ \A f \in PeerFields \ ReceiverFields : w[f] = u[f]

\* recv with a state that is not known yet (networktransport-impl.h).
LEMMA AcceptFact ==
  ASSUME NEW p \in Peers, NEW q \in Peers, q = Other(p), NEW t, NEW u, NEW time \in Nat, NEW forth, NEW back, NEW inst \in forth,
         NEW y \in Seq(Int), NEW V, NEW b, NEW r, NEW c,
         Sending(t, time), Receiving(u), Exchange(t, u, forth, back), Content(q, y, V, b, r, c, t, u, forth),
         inst.old \in Nums(u.received_states), inst.new \notin Nums(u.received_states)
  PROVE  /\ Accepted(t, u, acceptState(p, u, inst, time), forth, back)
         /\ Content(q, y, V, b, r, c, t, acceptState(p, u, inst, time), forth)
<1> DEFINE ref == CHOOSE s \in Range(u.received_states) : s.num = inst.old
           kept == process_throwaway_until(u, inst.throwaway)
           st == IF inst.diff = <<>> THEN ref.state ELSE apply_string(q, ref.state, inst.diff)
           e == TimestampedState(time, inst.new, st)
           list == kept.received_states
           at == insertAt(list, inst.new)
           full == Len(list) > ReceivedLimit
           inserted == [kept EXCEPT !.received_states = InsertAt(@, at, e), !.quench_timer = IF full THEN time + Quench ELSE @]
           newest == [inserted EXCEPT !.ack_num = inst.new, !.last_heard = time, !.pending_data_ack = @ \/ inst.diff # <<>>]
           w == acceptState(p, u, inst, time)
<1>1. /\ inst.throwaway \in Nat /\ inst.old \in Nat /\ inst.new \in Nat
      /\ inst.throwaway <= inst.old /\ inst.old <= inst.new /\ inst.new <= Back(t).num
      /\ inst.throwaway <= Known(t).num /\ Back(t).num \in Nat /\ Back(t).num <= LastNum
  BY SenderFact DEF Exchange
<1>2. /\ Receiving(kept) /\ Exchange(t, kept, forth, back) /\ Newest(kept) = Newest(u)
      /\ \A f \in PeerFields \ {"received_states"} : kept[f] = u[f]
      /\ \A n \in Nums(u.received_states) : n >= inst.throwaway => n \in Nums(list)
      /\ Nums(list) \subseteq Nums(u.received_states)
      /\ \E a \in 1..Len(u.received_states) : list = SubSeq(u.received_states, a, Len(u.received_states))
  <2>1. Thrown(t, u, kept, forth, back, inst.throwaway)
    BY <1>1, ThrowFact
  <2> HIDE DEF kept
  <2> QED BY <2>1 DEF Thrown
<1>3. Growing(q, y, V, Back(t).num, c) /\ Listed(q, y, V, r, u.received_states) /\ inst.diff = Way(q, y, V[inst.old], V[inst.new])
  BY DEF Content
<1>4. /\ u.received_states \in Seq(Entry) /\ Len(u.received_states) \in Nat \ {0} /\ Ordered(u.received_states)
      /\ u.received_states[Len(u.received_states)].num <= Back(t).num
      /\ DOMAIN u.received_states = 1..Len(u.received_states)
  <2>1. Newest(u).num <= Back(t).num
    BY ReceiverFact DEF Exchange
  <2> QED BY <2>1, ReceiverFact DEF Newest
<1>5. ref.state = Form(q, y, r, V[inst.old]) /\ Below(q, r, V[inst.old]) /\ r \in Value(q, y)
  <2>1. \E s \in Range(u.received_states) : s.num = inst.old
    BY <1>4 DEF Nums, Range
  <2>2. ref \in Range(u.received_states) /\ ref.num = inst.old
    BY <2>1
  <2>3. PICK i \in 1..Len(u.received_states) : ref = u.received_states[i]
    BY <1>4, <2>2 DEF Range
  <2> HIDE DEF ref
  <2>4. r \in Value(q, y) /\ Below(q, r, V[u.received_states[i].num])
    BY <1>1, <1>3, <1>4, ListedAfter
  <2> QED BY <1>3, <2>2, <2>3, <2>4 DEF Listed
<1>6. /\ V[inst.old] \in Value(q, y) /\ V[inst.new] \in Value(q, y) /\ Below(q, V[inst.old], V[inst.new])
      /\ Below(q, r, V[inst.new])
  <2>1. V[inst.old] \in Value(q, y) /\ V[inst.new] \in Value(q, y) /\ Below(q, V[inst.old], V[inst.new])
    BY <1>1, <1>3 DEF Growing
  <2> QED BY <1>5, <2>1, BelowFact
<1>7. st = Form(q, y, r, V[inst.new])
  <2> HIDE DEF ref
  <2>1. /\ Way(q, y, V[inst.old], V[inst.new]) # <<>> =>
             apply_string(q, Form(q, y, r, V[inst.old]), Way(q, y, V[inst.old], V[inst.new])) = Form(q, y, r, V[inst.new])
        /\ Way(q, y, V[inst.old], V[inst.new]) = <<>> <=> V[inst.old] = V[inst.new]
    BY <1>5, <1>6, FormFact
  <2> QED BY <1>3, <1>5, <2>1
<1> HIDE DEF ref, st
<1>8. e \in Entry /\ e.num = inst.new /\ e.state = st
  <2>1. st \in Objects
    BY <1>5, <1>6, <1>7, FormType
  <2>2. inst.new \in 0..LastNum
    BY <1>1, ConstantsFact
  <2> QED BY <2>1, <2>2 DEF TimestampedState, Entry
<1> HIDE DEF e
<1>9. w = (CASE inst.old < inst.throwaway -> [kept EXCEPT !.failed = TRUE]
             [] inst.old >= inst.throwaway /\ full /\ time < kept.quench_timer -> kept
             [] OTHER -> IF at <= Len(list) THEN inserted ELSE newest)
  BY DEF acceptState, e, st, ref
<1> HIDE DEF w, kept
<1>10. ~(inst.old < inst.throwaway)
  BY <1>1
<1>11. Content(q, y, V, b, r, c, t, kept, forth) /\ Listed(q, y, V, r, list)
  <2>1. PICK a \in 1..Len(u.received_states) : list = SubSeq(u.received_states, a, Len(u.received_states))
    BY <1>2
  <2>2. Listed(q, y, V, r, list)
    BY <1>1, <1>3, <1>4, <2>1, EndContent
  <2> QED BY <2>2, ReceivedContent
<1>12. CASE w = kept
  <2>1. Newest(u).num \in Nat
    BY ReceiverFact
  <2> QED BY <1>2, <1>11, <1>12, <2>1 DEF w, Accepted, ReceiverFields
<1>13. CASE w # kept
  <2>1. w = IF at <= Len(list) THEN inserted ELSE newest
    BY <1>9, <1>10, <1>13
  <2>2. list \in Seq(Entry) /\ Increasing(list) /\ Len(list) \in Nat \ {0} /\ DOMAIN kept = PeerFields
    BY <1>2 DEF Receiving
  <2> DEFINE l == InsertAt(list, at, e)
  <2>3. e.num \notin Nums(list)
    BY <1>2, <1>8
  <2>4. inst.old \in Nums(list) /\ inst.old < e.num
    <3>1. inst.old # inst.new
      OBVIOUS
    <3> QED BY <1>1, <1>2, <1>8, <3>1
  <2>5. /\ l \in Seq(Entry) /\ Len(l) \in Nat \ {0} /\ Increasing(l)
        /\ Nums(l) = Nums(list) \cup {e.num}
        /\ at <= Len(list) => l[Len(l)] = list[Len(list)]
        /\ ~(at <= Len(list)) => l[Len(l)] = e /\ list[Len(list)].num < e.num
        /\ l[1] = list[1]
        /\ \A i \in 1..Len(l) : l[i] = e \/ \E j \in 1..Len(list) : l[i] = list[j]
    <3>1. at = insertAt(list, e.num)
      BY <1>8
    <3>2. \E n \in Nums(list) : n < e.num
      BY <2>4
    <3> HIDE DEF list, at
    <3>3. LET f == insertAt(list, e.num)
              k == InsertAt(list, f, e)
          IN  /\ k \in Seq(Entry) /\ Len(k) \in Nat \ {0} /\ Increasing(k)
              /\ Nums(k) = Nums(list) \cup {e.num}
              /\ f <= Len(list) => k[Len(k)] = list[Len(list)]
              /\ ~(f <= Len(list)) => k[Len(k)] = e /\ list[Len(list)].num < e.num
              /\ (\E n \in Nums(list) : n < e.num) => k[1] = list[1]
              /\ \A i \in 1..Len(k) : k[i] = e \/ \E j \in 1..Len(list) : k[i] = list[j]
      BY <1>8, <2>2, <2>3, InsertListed, Zenon
    <3> QED BY <3>1, <3>2, <3>3
  <2> HIDE DEF l
  <2>6. /\ DOMAIN w = PeerFields /\ w.received_states = l
        /\ \A f \in PeerFields \ ReceiverFields : w[f] = kept[f]
        /\ w.ack_num = IF at <= Len(list) THEN kept.ack_num ELSE inst.new
    <3>1. /\ DOMAIN inserted = PeerFields /\ inserted.received_states = l /\ inserted.ack_num = kept.ack_num
          /\ \A f \in PeerFields \ {"received_states", "quench_timer"} : inserted[f] = kept[f]
      BY <2>2 DEF l, PeerFields
    <3> HIDE DEF inserted
    <3>2. /\ DOMAIN newest = PeerFields /\ newest.received_states = l /\ newest.ack_num = inst.new
          /\ \A f \in PeerFields \ ReceiverFields : newest[f] = kept[f]
      BY <3>1 DEF PeerFields, ReceiverFields
    <3> HIDE DEF newest, at, list
    <3>3. CASE at <= Len(list)
      BY <2>1, <3>1, <3>3 DEF ReceiverFields
    <3>4. CASE ~(at <= Len(list))
      BY <2>1, <3>2, <3>4
    <3> QED BY <3>3, <3>4
  <2> HIDE DEF at, inserted, newest
  <2>7. Receiving(w) /\ Newest(u).num <= Newest(w).num
    <3>1. kept.ack_num = Newest(kept).num /\ Newest(kept).num \in Nat
      BY <1>2, ReceiverFact DEF Receiving
    <3>2. w.ack_num = Newest(w).num /\ Newest(kept).num <= Newest(w).num
      <4>1. CASE at <= Len(list)
        BY <4>1, <2>5, <2>6, <3>1 DEF Newest
      <4>2. CASE ~(at <= Len(list))
        <5>1. Newest(w) = e /\ Newest(kept).num < e.num
          BY <4>2, <2>5, <2>6 DEF Newest
        <5> QED BY <4>2, <5>1, <2>6, <1>8, <1>1, <3>1
      <4> QED BY <4>1, <4>2
    <3> QED BY <1>2, <2>5, <2>6, <3>2 DEF Receiving
  <2>8. Exchange(t, w, forth, back)
    BY <1>1, <1>2, <1>8, <2>5, <2>6 DEF Exchange
  <2>9. Listed(q, y, V, r, w.received_states)
    BY <1>7, <1>8, <1>11, <2>5, <2>6 DEF Listed
  <2>10. Content(q, y, V, b, r, c, t, w, forth)
    BY <1>11, <2>9, ReceivedContent
  <2>11. \A f \in PeerFields \ ReceiverFields : w[f] = u[f]
    BY <1>2, <2>6 DEF ReceiverFields
  <2> QED BY <2>7, <2>8, <2>10, <2>11 DEF w, Accepted
<1> QED BY <1>12, <1>13

(***************************************************************************)
(* Both directions: me is the side that acts, other the other one.         *)
(***************************************************************************)
Linked(me, other, time, toOther, toMe) ==
  /\ Sending(me, time) /\ Receiving(me) /\ Sending(other, time) /\ Receiving(other)
  /\ Exchange(me, other, toOther, toMe) /\ Exchange(other, me, toMe, toOther)

\* The numbers depend only on the fields that are about them.
LEMMA SameExchange ==
  ASSUME NEW t, NEW u, NEW s, NEW v, NEW forth, NEW back, Exchange(t, u, forth, back),
         s.sent_states = t.sent_states, v.received_states = u.received_states
  PROVE  Exchange(s, v, forth, back)
<1>1. Known(s) = Known(t) /\ Back(s) = Back(t)
  BY DEF Known, Back
<1> QED BY <1>1 DEF Exchange

\* And the values on the lists, the stream and what is on its way.
LEMMA SameContent ==
  ASSUME NEW p, NEW y, NEW V, NEW b, NEW r, NEW c, NEW t, NEW u, NEW s, NEW v, NEW forth,
         Content(p, y, V, b, r, c, t, u, forth),
         s.sent_states = t.sent_states, s.current = t.current, s.last_instruction = t.last_instruction,
         v.received_states = u.received_states
  PROVE  Content(p, y, V, b, r, c, s, v, forth)
<1>1. Back(s) = Back(t)
  BY DEF Back
<1> QED BY <1>1 DEF Content

\* Operations that leave what the invariant speaks of.
Kept(me, w) ==
  /\ DOMAIN w = PeerFields
  /\ \A f \in {"current", "sent_states", "next_ack_time", "mindelay_clock", "shutdown_in_progress", "ack_num",
               "last_instruction", "received_states", "failed"} : w[f] = me[f]
  /\ w.has_remote_addr \in BOOLEAN

\* Such a change keeps the numbers and the values of both directions.
LEMMA KeptFact ==
  ASSUME NEW me, NEW other, NEW time, NEW toOther, NEW toMe, NEW w, Linked(me, other, time, toOther, toMe), Kept(me, w)
  PROVE  /\ Linked(w, other, time, toOther, toMe)
         /\ \A p, y, V, b, r, c : Content(p, y, V, b, r, c, me, other, toOther) => Content(p, y, V, b, r, c, w, other, toOther)
         /\ \A p, y, V, b, r, c : Content(p, y, V, b, r, c, other, me, toMe) => Content(p, y, V, b, r, c, other, w, toMe)
         /\ Newest(w) = Newest(me) /\ Known(w) = Known(me) /\ Back(w) = Back(me)
<1>1. /\ DOMAIN w = PeerFields /\ w.current = me.current /\ w.sent_states = me.sent_states /\ w.next_ack_time = me.next_ack_time
      /\ w.mindelay_clock = me.mindelay_clock /\ w.shutdown_in_progress = me.shutdown_in_progress /\ w.ack_num = me.ack_num
      /\ w.last_instruction = me.last_instruction /\ w.received_states = me.received_states /\ w.failed = me.failed
      /\ w.has_remote_addr \in BOOLEAN
  BY DEF Kept
<1>2. Sending(w, time) /\ Known(w) = Known(me) /\ Back(w) = Back(me)
  BY <1>1, SameSender DEF Linked
<1>3. Receiving(w) /\ Newest(w) = Newest(me)
  BY <1>1, SameReceiver DEF Linked
<1>4. Exchange(w, other, toOther, toMe) /\ Exchange(other, w, toMe, toOther)
  BY <1>1, SameExchange DEF Linked
<1> QED BY <1>1, <1>2, <1>3, <1>4, SameContent DEF Linked

\* Transport::recv: the numbers and the values of both directions agree after it.
RecvKept(me, w) ==
  /\ w.current = me.current /\ w.shutdown_in_progress = me.shutdown_in_progress
  /\ w.last_instruction = me.last_instruction /\ Newest(me).num <= Newest(w).num

\* recv: whatever instruction arrives, in whatever order and however often.
LEMMA RecvFact ==
  ASSUME NEW p \in Peers, NEW q \in Peers, q = Other(p), NEW me, NEW other, NEW time \in Nat, NEW toOther, NEW toMe,
         NEW inst \in toMe, NEW old \in BOOLEAN, NEW y \in Seq(Int), NEW V, NEW b, NEW r, NEW c, NEW W, NEW d, NEW s, NEW e,
         Linked(me, other, time, toOther, toMe),
         Content(p, y, V, b, r, c, me, other, toOther), Content(q, y, W, d, s, e, other, me, toMe)
  PROVE  LET w == recv(p, me, inst, time, old) IN
         /\ Linked(w, other, time, toOther, toMe)
         /\ Content(p, y, V, b, r, c, w, other, toOther) /\ Content(q, y, W, d, s, e, other, w, toMe)
         /\ RecvKept(me, w)
<1> DEFINE heard == IF old THEN me ELSE [me EXCEPT !.has_remote_addr = TRUE, !.heard_at = time]
           t == process_acknowledgment_through(heard, inst.ack)
           nums == {x.num : x \in Range(t.received_states)}
           w == recv(p, me, inst, time, old)
<1>1. w = IF inst.new \in nums \/ inst.old \notin nums THEN t ELSE acceptState(p, t, inst, time)
  BY DEF recv
<1>2. Kept(me, heard)
  <2>1. DOMAIN me = PeerFields /\ me.has_remote_addr \in BOOLEAN
    BY DEF Linked, Sending
  <2> QED BY <2>1 DEF Kept, PeerFields
<1> HIDE DEF heard
<1>3. /\ Linked(heard, other, time, toOther, toMe)
      /\ Content(p, y, V, b, r, c, heard, other, toOther) /\ Content(q, y, W, d, s, e, other, heard, toMe)
      /\ Newest(heard) = Newest(me)
  BY <1>2, KeptFact
<1>4. inst.ack \in Nat /\ (inst.ack < Known(heard).num \/ inst.ack \in Nums(other.received_states))
  <2>1. inst.ack \in 0..LastNum /\ (inst.ack < Known(heard).num \/ inst.ack \in Nums(other.received_states))
    BY <1>3 DEF Linked, Exchange
  <2> QED BY <2>1, ConstantsFact
<1>5. Acked(heard, other, t, time, toOther, toMe)
  BY <1>3, <1>4, AckFact DEF Linked
<1> HIDE DEF t
<1>6. Sending(t, time) /\ Exchange(t, other, toOther, toMe) /\ DOMAIN t = PeerFields
  BY <1>5 DEF Acked, Sending
<1>7. /\ t.received_states = heard.received_states /\ t.ack_num = heard.ack_num /\ t.current = heard.current
      /\ t.shutdown_in_progress = heard.shutdown_in_progress /\ t.last_instruction = heard.last_instruction
  BY <1>5 DEF Acked, PeerFields
<1>8. Receiving(t) /\ Newest(t) = Newest(me) /\ Exchange(other, t, toMe, toOther)
  BY <1>3, <1>6, <1>7, SameReceiver, SameExchange DEF Linked
<1>9. Content(p, y, V, b, r, c, t, other, toOther)
  <2>1. PICK a \in 1..Len(heard.sent_states) : t.sent_states = SubSeq(heard.sent_states, a, Len(heard.sent_states))
    BY <1>5 DEF Acked
  <2>2. Back(t) = Back(heard) /\ \A f \in PeerFields \ {"sent_states"} : t[f] = heard[f]
    BY <1>5 DEF Acked
  <2>3. Sending(heard, time)
    BY <1>3 DEF Linked
  <2> QED BY <1>3, <2>1, <2>2, <2>3, AckContent
<1>10. Content(q, y, W, d, s, e, other, t, toMe)
  BY <1>3, <1>7, SameContent
<1>11. Linked(t, other, time, toOther, toMe)
  BY <1>3, <1>6, <1>8 DEF Linked
<1>12. t.current = me.current /\ t.shutdown_in_progress = me.shutdown_in_progress /\ t.last_instruction = me.last_instruction
  BY <1>2, <1>7 DEF Kept
<1>13. Newest(t).num \in Nat /\ Nums(t.received_states) = nums
  BY <1>8, ReceiverFact
<1>14. CASE w = t
  <2> HIDE DEF w
  <2>1. RecvKept(me, t)
    BY <1>8, <1>12, <1>13 DEF RecvKept
  <2> QED BY <1>9, <1>10, <1>11, <1>14, <2>1 DEF w
<1>15. CASE w # t
  <2>1. /\ w = acceptState(p, t, inst, time)
        /\ inst.new \notin Nums(t.received_states) /\ inst.old \in Nums(t.received_states)
    BY <1>1, <1>13, <1>15
  <2> HIDE DEF w
  <2>2. Accepted(other, t, w, toMe, toOther) /\ Content(q, y, W, d, s, e, other, w, toMe)
    BY <1>3, <1>8, <1>10, <2>1, AcceptFact DEF Linked
  <2>3. /\ Receiving(w) /\ Exchange(other, w, toMe, toOther) /\ Newest(t).num <= Newest(w).num
        /\ \A f \in PeerFields \ ReceiverFields : w[f] = t[f]
    BY <2>2 DEF Accepted
  <2>4. /\ w.sent_states = t.sent_states /\ w.next_ack_time = t.next_ack_time /\ w.mindelay_clock = t.mindelay_clock
        /\ w.shutdown_in_progress = t.shutdown_in_progress /\ w.has_remote_addr = t.has_remote_addr /\ w.failed = t.failed
        /\ w.current = t.current /\ w.last_instruction = t.last_instruction
    BY <2>3 DEF PeerFields, ReceiverFields
  <2>5. DOMAIN w = PeerFields /\ t.has_remote_addr \in BOOLEAN
    BY <2>3, <1>6 DEF Receiving, Sending
  <2>6. Sending(w, time)
    BY <1>6, <2>4, <2>5, SameSender
  <2>7. Exchange(w, other, toOther, toMe)
    BY <1>6, <2>4, SameExchange
  <2>8. Content(p, y, V, b, r, c, w, other, toOther)
    BY <1>9, <2>4, SameContent
  <2>9. Linked(w, other, time, toOther, toMe)
    BY <1>11, <2>3, <2>6, <2>7 DEF Linked
  <2>10. RecvKept(me, w)
    BY <1>8, <1>12, <2>3, <2>4 DEF RecvKept
  <2> QED BY <2>2, <2>8, <2>9, <2>10 DEF w
<1> QED BY <1>14, <1>15

(***************************************************************************)
(* rationalize_states and calculate_timers.                                *)
(***************************************************************************)
LEMMA SameNumbers ==
  ASSUME NEW t, NEW u, NEW s, NEW v, NEW forth, NEW back, Exchange(t, u, forth, back),
         Known(s).num = Known(t).num, Back(s).num = Back(t).num, v.received_states = u.received_states
  PROVE  Exchange(s, v, forth, back)
BY DEF Exchange

\* The states after the acknowledged one are cut at its end; no assertion fails.
Cutting(p, y, V, c, t, s, time) ==
  /\ Sending(s, time) /\ Len(s.sent_states) = Len(t.sent_states)
  /\ \A f \in PeerFields \ {"current", "sent_states"} : s[f] = t[f]
  /\ \A i \in 1..Len(t.sent_states) : /\ s.sent_states[i].num = t.sent_states[i].num
                                      /\ s.sent_states[i].timestamp = t.sent_states[i].timestamp
                                      /\ s.sent_states[i].state = Form(p, y, V[Known(t).num], V[t.sent_states[i].num])
  /\ s.current = Form(p, y, V[Known(t).num], c)
  /\ Known(s).num = Known(t).num /\ Back(s).num = Back(t).num /\ Back(s).timestamp = Back(t).timestamp

\* rationalize_states cuts the same prefix off every state that was sent.
LEMMA RationalizeFact ==
  ASSUME NEW p \in Peers, NEW y \in Seq(Int), NEW V, NEW b, NEW r, NEW c, NEW t, NEW u, NEW forth, NEW time,
         Sending(t, time), Content(p, y, V, b, r, c, t, u, forth)
  PROVE  Cutting(p, y, V, c, t, rationalize_states(p, t), time)
<1> DEFINE list == t.sent_states
           n == Len(list)
           known == Known(t).state
           k == V[Known(t).num]
           l == [i \in DOMAIN list |-> [list[i] EXCEPT !.state = subtract(p, @, known)]]
           s == [t EXCEPT !.current = subtract(p, @, known), !.sent_states = l]
<1>1. /\ list \in Seq(Entry) /\ n \in Nat \ {0} /\ Ordered(list) /\ Timed(list) /\ DOMAIN t = PeerFields
      /\ DOMAIN list = 1..n /\ 1 \in 1..n /\ n \in 1..n /\ Back(t).num \in Nat /\ list[n].num <= Back(t).num
  <2>1. list \in Seq(Entry) /\ n \in Nat \ {0} /\ Ordered(list) /\ Timed(list) /\ DOMAIN t = PeerFields
    BY DEF Sending
  <2>2. 1 \in 1..n /\ n \in 1..n /\ Back(t).num \in Nat /\ list[n].num <= Back(t).num
    BY SenderFact
  <2> QED BY <2>1, <2>2
<1>2. Growing(p, y, V, Back(t).num, c) /\ Listed(p, y, V, b, list) /\ t.current = Form(p, y, b, c)
  BY DEF Content
<1>3. /\ \A i \in 1..n : /\ list[i].num \in Nat /\ list[i].num <= Back(t).num
                         /\ V[list[i].num] \in Value(p, y) /\ Below(p, b, V[list[i].num])
                         /\ Below(p, V[list[i].num], c)
      /\ b \in Value(p, y) /\ c \in Value(p, y) /\ Below(p, b, c)
  BY <1>1, <1>2, ListedAfter
<1>4. known = Form(p, y, b, k) /\ k \in Value(p, y) /\ Below(p, b, k) /\ Below(p, k, c)
  BY <1>1, <1>2, <1>3 DEF Known, Listed
<1>5. ASSUME NEW i \in 1..n
      PROVE  /\ Below(p, k, V[list[i].num]) /\ list[i].state = Form(p, y, b, V[list[i].num])
             /\ Extends(p, list[i].state, known) /\ subtract(p, list[i].state, known) = Form(p, y, k, V[list[i].num])
             /\ Form(p, y, k, V[list[i].num]) \in Objects
  <2>1. Known(t).num \in Nat /\ Known(t).num <= list[i].num /\ list[i].num <= Back(t).num /\ list[i].num \in Nat
    BY SenderFact
  <2>2. Below(p, k, V[list[i].num])
    BY <2>1, <1>2 DEF Growing
  <2>3. list[i].state = Form(p, y, b, V[list[i].num])
    BY <1>2 DEF Listed
  <2> HIDE DEF k, known
  <2>4. V[list[i].num] \in Value(p, y)
    BY <1>3
  <2> DEFINE v == V[list[i].num]
  <2> HIDE DEF v
  <2>5. /\ Extends(p, Form(p, y, b, v), Form(p, y, b, k))
        /\ subtract(p, Form(p, y, b, v), Form(p, y, b, k)) = Form(p, y, k, v)
    BY <1>3, <1>4, <2>2, <2>4, FormFact DEF v
  <2>6. Form(p, y, k, v) \in Objects
    BY <1>4, <2>2, <2>4, FormType DEF v
  <2> QED BY <1>4, <2>2, <2>3, <2>5, <2>6 DEF v
<1>6. Extends(p, t.current, known) /\ subtract(p, t.current, known) = Form(p, y, k, c)
  <2> HIDE DEF k, known
  <2>1. /\ Extends(p, Form(p, y, b, c), Form(p, y, b, k))
        /\ subtract(p, Form(p, y, b, c), Form(p, y, b, k)) = Form(p, y, k, c)
    BY <1>3, <1>4, FormFact
  <2> QED BY <1>2, <1>4, <2>1
<1>7. rationalize_states(p, t) = s
  <2>1. \A st \in {t.current} \union {x.state : x \in Range(list)} : Extends(p, st, known)
    <3>1. Range(list) = {list[i] : i \in 1..n}
      BY <1>1 DEF Range
    <3> HIDE DEF known, list, n
    <3> QED BY <1>5, <1>6, <3>1
  <2>2. ~\E st \in {t.current} \union {x.state : x \in Range(list)} : p = Client /\ ~Extends(p, st, known)
    BY <2>1
  <2>3. rationalize_states(p, t) =
          IF \E st \in {t.current} \union {x.state : x \in Range(list)} : p = Client /\ ~Extends(p, st, known)
          THEN [t EXCEPT !.failed = TRUE] ELSE s
    BY DEF rationalize_states, subtractAll
  <2> HIDE DEF s
  <2> QED BY <2>2, <2>3, Zenon
<1> HIDE DEF known, k
<1>8. ASSUME NEW i \in 1..n
      PROVE  /\ l[i] \in Entry /\ l[i].num = list[i].num /\ l[i].timestamp = list[i].timestamp
             /\ l[i].state = Form(p, y, k, V[list[i].num])
  <2>1. l[i] = [list[i] EXCEPT !.state = subtract(p, @, known)]
    BY <1>1
  <2>2. subtract(p, list[i].state, known) = Form(p, y, k, V[list[i].num]) /\ Form(p, y, k, V[list[i].num]) \in Objects
    BY <1>5
  <2>3. list[i] \in Entry
    BY <1>1
  <2> HIDE DEF l
  <2> QED BY <2>1, <2>2, <2>3 DEF Entry
<1>9. l \in Seq(Entry) /\ Len(l) = n /\ DOMAIN l = 1..n
  <2>1. l \in [1..n -> Entry]
    <3>1. \A i \in 1..n : [list[i] EXCEPT !.state = subtract(p, @, known)] \in Entry
      BY <1>1, <1>8
    <3> QED BY <1>1, <3>1
  <2> HIDE DEF l, n
  <2> QED BY <1>1, <2>1
<1>10. /\ DOMAIN s = PeerFields /\ s.sent_states = l /\ s.current = Form(p, y, k, c)
       /\ \A f \in PeerFields \ {"current", "sent_states"} : s[f] = t[f]
  <2> HIDE DEF l
  <2> QED BY <1>1, <1>6 DEF PeerFields
<1> HIDE DEF s, l
<1>11. Ordered(l) /\ Timed(l)
  BY <1>1, <1>8, <1>9 DEF Ordered, Timed
<1>12. Known(s).num = Known(t).num /\ Back(s).num = Back(t).num /\ Back(s).timestamp = Back(t).timestamp
  BY <1>1, <1>8, <1>9, <1>10 DEF Known, Back
<1>13. Sending(s, time)
  <2>1. /\ s.next_ack_time = t.next_ack_time /\ s.mindelay_clock = t.mindelay_clock
        /\ s.shutdown_in_progress = t.shutdown_in_progress /\ s.has_remote_addr = t.has_remote_addr /\ s.failed = t.failed
    BY <1>10 DEF PeerFields
  <2> QED BY <1>1, <1>9, <1>10, <1>11, <1>12, <2>1 DEF Sending, Paced
<1>14. Cutting(p, y, V, c, t, s, time)
  BY <1>8, <1>9, <1>10, <1>12, <1>13 DEF Cutting, k
<1> QED BY <1>7, <1>14

\* The assumed receiver state is the first or the last of the sent ones.
LEMMA AssumedFact ==
  ASSUME NEW t, NEW time \in Nat, NEW limit, Sending(t, limit)
  PROVE  /\ assumed_receiver_state(t, time) \in {1, Len(t.sent_states)}
         /\ assumed_receiver_state(t, time) \in 1..Len(t.sent_states)
<1> DEFINE list == t.sent_states
           n == Len(list)
           stale == {i \in 2..n : time - list[i].timestamp >= RTO + ACK_DELAY}
<1>1. n \in Nat \ {0} /\ list \in Seq(Entry) /\ Timed(list) /\ \A i \in 1..n : list[i].timestamp \in Nat
  BY EntryFact DEF Sending
<1>2. assumed_receiver_state(t, time) = IF stale = {} THEN n ELSE Min(stale) - 1
  BY DEF assumed_receiver_state
<1>3. CASE stale = {}
  BY <1>1, <1>2, <1>3
<1>4. CASE stale # {}
  <2>1. stale \subseteq Nat /\ stale \subseteq 2..n
    BY <1>1
  <2>2. Min(stale) \in stale /\ \A i \in stale : Min(stale) <= i
    <3> HIDE DEF stale
    <3> QED BY <1>4, <2>1, MinFact
  <2>3. PICK m \in 2..n : m = Min(stale) /\ time - list[m].timestamp >= RTO + ACK_DELAY
    BY <2>2
  <2>4. 2 \in 2..n /\ 2 \in 1..n /\ m \in 1..n /\ 2 <= m
    BY <1>1, <2>3
  <2>5. list[2].timestamp <= list[m].timestamp
    BY <1>1, <2>4 DEF Timed
  <2>6. 2 \in stale
    <3>1. RTO \in Nat /\ ACK_DELAY \in Nat
      BY ConstantsFact
    <3>2. time - list[2].timestamp >= RTO + ACK_DELAY
      <4> DEFINE x == list[2].timestamp
                 z == list[m].timestamp
      <4>1. x \in Nat /\ z \in Nat /\ x <= z /\ time - z >= RTO + ACK_DELAY
        BY <1>1, <2>3, <2>4, <2>5
      <4> HIDE DEF x, z
      <4>2. time - x >= RTO + ACK_DELAY
        BY <4>1, <3>1
      <4> QED BY <4>2 DEF x
    <3> QED BY <2>4, <3>2
  <2>7. Min(stale) = 2
    <3> HIDE DEF stale
    <3> QED BY <2>2, <2>3, <2>6
  <2> QED BY <1>1, <1>2, <1>4, <2>7
<1> QED BY <1>3, <1>4

\* What is due at a moment is due later than what was last sent.
LEMMA TimersFact ==
  ASSUME NEW t, NEW time \in Nat, time <= MaxTime, Sending(t, time), NEW assumed \in 1..Len(t.sent_states)
  PROVE  LET s == timers(t, time, assumed) IN
         /\ Sending(s, time) /\ \A f \in PeerFields \ {"mindelay_clock", "next_send_time", "next_ack_time"} : s[f] = t[f]
         /\ (time >= s.next_ack_time \/ time >= s.next_send_time) => Back(t).num \in {0, LastNum} \/ time > Back(t).timestamp
<1> DEFINE ackTime == IF t.pending_data_ack THEN Min({t.next_ack_time, time + ACK_DELAY}) ELSE t.next_ack_time
           fresh == t.current # Back(t).state
           delay == IF fresh /\ t.mindelay_clock = Never THEN time ELSE t.mindelay_clock
           frame == Back(t).timestamp + SEND_INTERVAL
           active == t.last_heard + ACTIVE_RETRY_TIMEOUT > time
           sendTime ==
             CASE fresh -> Max({delay + SEND_MINDELAY, frame})
               [] ~fresh /\ active /\ t.current # t.sent_states[assumed].state ->
                    IF delay = Never THEN frame ELSE Max({frame, delay + SEND_MINDELAY})
               [] ~fresh /\ active /\ t.current = t.sent_states[assumed].state /\ t.current # Known(t).state ->
                    Back(t).timestamp + RTO + ACK_DELAY
               [] OTHER -> Never
           ack == IF t.shutdown_in_progress \/ t.ack_num = LastNum THEN frame ELSE ackTime
           s == [t EXCEPT !.mindelay_clock = delay, !.next_send_time = sendTime, !.next_ack_time = ack]
<1>1. timers(t, time, assumed) = s
  BY DEF timers
<1>2. /\ DOMAIN t = PeerFields /\ t.next_ack_time \in Nat /\ t.mindelay_clock \in Nat
      /\ Back(t).timestamp \in Nat /\ Back(t).num \in Nat /\ Back(t).timestamp <= time
  BY SenderFact DEF Sending
<1>3. /\ SEND_INTERVAL \in Nat \ {0} /\ ACK_DELAY \in Nat \ {0} /\ RTO \in Nat \ {0} /\ SEND_MINDELAY \in Nat
      /\ Never \in Nat /\ MaxTime \in Nat /\ MaxTime < Never
  BY ConstantsFact
<1>4. frame \in Nat /\ frame > Back(t).timestamp
  BY <1>2, <1>3
<1>5. delay \in Nat
  BY <1>2
<1>6. ackTime \in Nat /\ (Back(t).timestamp < t.next_ack_time => Back(t).timestamp < ackTime)
  <2>1. \A x, z \in Nat : Min({x, z}) = IF x <= z THEN x ELSE z
    <3> TAKE x, z \in Nat
    <3> QED BY DEF Min
  <2>2. time + ACK_DELAY \in Nat /\ Back(t).timestamp < time + ACK_DELAY
    BY <1>2, <1>3
  <2>3. Min({t.next_ack_time, time + ACK_DELAY}) = IF t.next_ack_time <= time + ACK_DELAY THEN t.next_ack_time ELSE time + ACK_DELAY
    BY <1>2, <2>1, <2>2
  <2> QED BY <1>2, <2>2, <2>3
<1>7. sendTime \in Nat /\ (sendTime > Back(t).timestamp)
  <2>1. \A x, z \in Nat : Max({x, z}) = IF x >= z THEN x ELSE z
    <3> TAKE x, z \in Nat
    <3> QED BY DEF Max
  <2> HIDE DEF delay, frame, fresh, active
  <2>2. delay + SEND_MINDELAY \in Nat
    BY <1>3, <1>5
  <2>3. Max({delay + SEND_MINDELAY, frame}) \in Nat /\ Max({delay + SEND_MINDELAY, frame}) > Back(t).timestamp
    BY <2>1, <2>2, <1>2, <1>4
  <2>4. Max({frame, delay + SEND_MINDELAY}) \in Nat /\ Max({frame, delay + SEND_MINDELAY}) > Back(t).timestamp
    BY <2>1, <2>2, <1>2, <1>4
  <2>5. Back(t).timestamp + RTO + ACK_DELAY \in Nat /\ Back(t).timestamp + RTO + ACK_DELAY > Back(t).timestamp
    BY <1>2, <1>3
  <2>6. Never > Back(t).timestamp
    BY <1>2, <1>3
  <2> QED BY <1>3, <1>4, <2>3, <2>4, <2>5, <2>6
<1>8. ack \in Nat /\ (Back(t).timestamp < t.next_ack_time => Back(t).timestamp < ack)
  <2> HIDE DEF frame, ackTime
  <2> QED BY <1>2, <1>4, <1>6
<1> HIDE DEF ack, sendTime, delay
<1>9. /\ DOMAIN s = PeerFields /\ s.mindelay_clock = delay /\ s.next_send_time = sendTime /\ s.next_ack_time = ack
      /\ \A f \in PeerFields \ {"mindelay_clock", "next_send_time", "next_ack_time"} : s[f] = t[f]
  BY <1>2 DEF PeerFields
<1> HIDE DEF s
<1>10. s.sent_states = t.sent_states /\ s.shutdown_in_progress = t.shutdown_in_progress /\ s.has_remote_addr = t.has_remote_addr /\ s.failed = t.failed
  BY <1>9 DEF PeerFields
<1>11. Back(s) = Back(t)
  BY <1>10 DEF Back
<1>12. Sending(s, time)
  BY <1>5, <1>8, <1>9, <1>10, <1>11, <1>2 DEF Sending, Paced
<1>13. (time >= s.next_ack_time \/ time >= s.next_send_time) => Back(t).num \in {0, LastNum} \/ time > Back(t).timestamp
  <2>1. Back(t).num \in {0, LastNum} \/ t.next_ack_time > Back(t).timestamp
    BY DEF Sending, Paced
  <2>2. CASE t.next_ack_time > Back(t).timestamp
    BY <2>2, <1>2, <1>7, <1>8, <1>9
  <2> QED BY <2>1, <2>2
<1> QED BY <1>1, <1>9, <1>12, <1>13

(***************************************************************************)
(* Sending.                                                                *)
(***************************************************************************)
\* The list of sent states ends with the one sent now, begins where it began,
\* and holds nothing else.
Added(t, states, time, num, st) ==
  /\ states \in Seq(Entry) /\ Len(states) \in Nat \ {0} /\ Ordered(states) /\ Timed(states)
  /\ states[1].num = Known(t).num
  /\ states[Len(states)].num = num /\ states[Len(states)].timestamp = time /\ states[Len(states)].state = st
  /\ \A i \in 1..Len(states) : \/ states[i].num = num /\ states[i].state = st
                               \/ \E j \in 1..Len(t.sent_states) : /\ states[i].num = t.sent_states[j].num
                                                                   /\ states[i].state = t.sent_states[j].state

\* add_sent_state erases neither the first state nor the new one.
LEMMA AddFact ==
  ASSUME NEW t, NEW time \in Nat, Sending(t, time), NEW num \in Nat, num <= LastNum, Back(t).num <= num, t.current \in Objects
  PROVE  Added(t, add_sent_state(t, time, num), time, num, t.current)
<1> DEFINE list == t.sent_states
           n == Len(list)
           e == TimestampedState(time, num, t.current)
           longer == Append(list, e)
           at == (n + 1) - EraseBack + 1
<1>1. /\ list \in Seq(Entry) /\ n \in Nat \ {0} /\ Ordered(list) /\ Timed(list)
      /\ \A i \in 1..n : list[i].num \in Nat /\ list[i].timestamp \in Nat /\ list[i].num <= num /\ list[i].timestamp <= time
  <2>1. list \in Seq(Entry) /\ n \in Nat \ {0} /\ Ordered(list) /\ Timed(list) /\ Back(t).timestamp <= time
    BY DEF Sending
  <2>2. \A i \in 1..n : list[i].num \in Nat /\ list[i].timestamp \in Nat
    BY <2>1, EntryFact
  <2>3. \A i \in 1..n : list[i].num <= Back(t).num /\ Back(t).num \in Nat
    BY SenderFact
  <2>4. \A i \in 1..n : list[i].timestamp <= Back(t).timestamp /\ Back(t).timestamp \in Nat
    <3> TAKE i \in 1..n
    <3>1. n \in 1..n /\ i <= n
      BY <2>1
    <3> QED BY <2>1, <2>2, <3>1 DEF Timed, Back
  <2> HIDE DEF list, n
  <2>5. \A i \in 1..n : list[i].num <= num /\ list[i].timestamp <= time
    BY <2>1, <2>2, <2>3, <2>4
  <2> QED BY <2>1, <2>2, <2>5
<1>2. e \in Entry /\ e.num = num /\ e.timestamp = time /\ e.state = t.current
  <2>1. num \in 0..LastNum
    BY ConstantsFact
  <2> QED BY <2>1 DEF TimestampedState, Entry
<1> HIDE DEF e
<1>3. /\ longer \in Seq(Entry) /\ Len(longer) = n + 1 /\ longer[n + 1] = e
      /\ \A i \in 1..n : longer[i] = list[i]
  BY <1>1, <1>2
<1> HIDE DEF longer
<1>4. \A i, j \in 1..(n + 1) : i <= j => longer[i].num <= longer[j].num /\ longer[i].timestamp <= longer[j].timestamp
  <2> SUFFICES ASSUME NEW i \in 1..(n + 1), NEW j \in 1..(n + 1), i <= j
               PROVE  longer[i].num <= longer[j].num /\ longer[i].timestamp <= longer[j].timestamp
    OBVIOUS
  <2>1. CASE j = n + 1 /\ i = n + 1
    BY <2>1, <1>2, <1>3
  <2>2. CASE j = n + 1 /\ i # n + 1
    <3>1. i \in 1..n
      BY <2>2, <1>1
    <3> QED BY <3>1, <2>2, <1>1, <1>2, <1>3
  <2>3. CASE j # n + 1
    <3>1. i \in 1..n /\ j \in 1..n
      BY <2>3, <1>1
    <3> QED BY <3>1, <1>1, <1>3 DEF Ordered, Timed
  <2> QED BY <2>1, <2>2, <2>3
<1>5. \A i \in 1..(n + 1) : \/ longer[i].num = num /\ longer[i].state = t.current
                            \/ \E j \in 1..n : longer[i].num = list[j].num /\ longer[i].state = list[j].state
  <2> TAKE i \in 1..(n + 1)
  <2>1. CASE i = n + 1
    BY <2>1, <1>2, <1>3
  <2>2. CASE i # n + 1
    <3>1. i \in 1..n
      BY <2>2, <1>1
    <3> QED BY <3>1, <1>3
  <2> QED BY <2>1, <2>2
<1>6. longer[1].num = Known(t).num
  BY <1>1, <1>3 DEF Known
<1>7. add_sent_state(t, time, num) = IF n + 1 > SentLimit THEN RemoveAt(longer, at) ELSE longer
  BY <1>3 DEF add_sent_state, longer, e
<1>8. CASE ~(n + 1 > SentLimit)
  <2>1. Added(t, longer, time, num, t.current)
    BY <1>1, <1>2, <1>3, <1>4, <1>5, <1>6 DEF Added, Ordered, Timed
  <2> QED BY <1>7, <1>8, <2>1
<1>9. CASE n + 1 > SentLimit
  <2>1. at \in Int /\ at >= 2 /\ at <= n /\ at \in 1..Len(longer)
    BY <1>1, <1>3, <1>9, ConstantsFact
  <2> HIDE DEF at
  <2> DEFINE l == RemoveAt(longer, at)
             from(i) == IF i < at THEN i ELSE i + 1
  <2>2. l \in Seq(Entry) /\ Len(l) = n /\ \A i \in 1..n : l[i] = longer[from(i)]
    <3>1. /\ l \in Seq(Entry) /\ Len(l) = Len(longer) - 1
          /\ \A i \in 1..(Len(longer) - 1) : l[i] = longer[IF i < at THEN i ELSE i + 1]
      BY <1>3, <2>1, RemoveFact
    <3> HIDE DEF l
    <3>2. Len(longer) - 1 = n
      BY <1>1, <1>3
    <3> QED BY <3>1, <3>2
  <2>3. \A i \in 1..n : from(i) \in 1..(n + 1)
    BY <1>1, <2>1
  <2>4. \A i, j \in 1..n : i <= j => from(i) <= from(j)
    BY <1>1, <2>1
  <2>5. from(1) = 1 /\ from(n) = n + 1 /\ 1 \in 1..n /\ n \in 1..n
    BY <1>1, <2>1
  <2> HIDE DEF from, l
  <2>6. Ordered(l) /\ Timed(l)
    BY <1>4, <2>2, <2>3, <2>4 DEF Ordered, Timed
  <2>7. \A i \in 1..n : \/ l[i].num = num /\ l[i].state = t.current
                        \/ \E j \in 1..n : l[i].num = list[j].num /\ l[i].state = list[j].state
    BY <1>5, <2>2, <2>3
  <2>8. l[1] = longer[1] /\ l[n] = e
    BY <1>3, <2>2, <2>5
  <2>9. Added(t, l, time, num, t.current)
    BY <1>1, <1>2, <1>6, <2>2, <2>6, <2>7, <2>8 DEF Added
  <2> QED BY <1>7, <1>9, <2>9 DEF l
<1> QED BY <1>8, <1>9

\* The last state is sent again.
LEMMA AgainFact ==
  ASSUME NEW t, NEW time \in Nat, Sending(t, time)
  PROVE  Added(t, [t.sent_states EXCEPT ![Len(t.sent_states)].timestamp = time], time, Back(t).num, Back(t).state)
<1> DEFINE list == t.sent_states
           n == Len(list)
           e == [list[n] EXCEPT !.timestamp = time]
           l == [list EXCEPT ![n] = e]
<1>1. /\ list \in Seq(Entry) /\ n \in Nat \ {0} /\ Ordered(list) /\ Timed(list) /\ Back(t).timestamp <= time
      /\ \A i \in 1..n : list[i].num \in Nat /\ list[i].timestamp \in Nat /\ list[i] \in Entry
  BY EntryFact DEF Sending
<1>2. e \in Entry /\ e.num = list[n].num /\ e.state = list[n].state /\ e.timestamp = time
  <2>1. list[n] \in Entry
    BY <1>1
  <2> QED BY <2>1 DEF Entry
<1>3. [t.sent_states EXCEPT ![Len(t.sent_states)].timestamp = time] = l
  OBVIOUS
<1> HIDE DEF e
<1>4. l \in Seq(Entry) /\ Len(l) = n /\ \A i \in 1..n : l[i] = IF i = n THEN e ELSE list[i]
  BY <1>1, <1>2, ExceptSeq
<1> HIDE DEF l
<1>5. \A i \in 1..n : l[i].num = list[i].num /\ l[i].state = list[i].state
  BY <1>2, <1>4
<1>6. Ordered(l)
  BY <1>1, <1>4, <1>5 DEF Ordered
<1>7. Timed(l)
  <2> SUFFICES ASSUME NEW i \in 1..n, NEW j \in 1..n, i <= j
               PROVE  l[i].timestamp <= l[j].timestamp
    BY <1>4 DEF Timed
  <2>1. CASE j = n /\ i = n
    BY <2>1, <1>2, <1>4
  <2>2. CASE j = n /\ i # n
    <3>1. list[i].timestamp <= list[n].timestamp /\ list[n].timestamp <= time
      BY <1>1, <2>2 DEF Timed, Back
    <3>2. l[i] = list[i] /\ l[j] = e
      BY <2>2, <1>4
    <3>3. list[i].timestamp \in Nat /\ list[n].timestamp \in Nat
      BY <1>1
    <3> QED BY <1>2, <3>1, <3>2, <3>3
  <2>3. CASE j # n
    <3>1. i # n /\ l[i] = list[i] /\ l[j] = list[j]
      BY <1>1, <1>4, <2>3
    <3> QED BY <1>1, <3>1 DEF Timed
  <2> QED BY <2>1, <2>2, <2>3
<1>8. 1 \in 1..n /\ n \in 1..n
  BY <1>1
<1>9. l[1].num = Known(t).num /\ l[n].num = Back(t).num /\ l[n].timestamp = time /\ l[n].state = Back(t).state
  BY <1>2, <1>4, <1>5, <1>8 DEF Known, Back
<1>10. Added(t, l, time, Back(t).num, Back(t).state)
  BY <1>1, <1>4, <1>5, <1>6, <1>7, <1>9 DEF Added
<1> QED BY <1>3, <1>10

\* The meaning of a number that is used for the first time, or again.
Extended(V, n, c) == [i \in Nat |-> IF i <= n THEN V[i] ELSE c]

\* A new number stands for the current value.
LEMMA ExtendedFact ==
  ASSUME NEW p \in Peers, NEW y \in Seq(Int), NEW V, NEW n \in Nat, NEW c, Growing(p, y, V, n, c),
         NEW num \in Nat, n <= num, num = n => V[num] = c
  PROVE  /\ Growing(p, y, Extended(V, n, c), num, c) /\ Extended(V, n, c)[num] = c
         /\ \A i \in Nat : i <= n => Extended(V, n, c)[i] = V[i]
<1> DEFINE W == Extended(V, n, c)
<1>1. /\ V \in [Nat -> Value(p, y)] /\ c \in Value(p, y) /\ Below(p, V[n], c)
      /\ \A i, j \in Nat : i <= j /\ j <= n => Below(p, V[i], V[j])
  BY DEF Growing
<1>2. W \in [Nat -> Value(p, y)] /\ \A i \in Nat : W[i] = IF i <= n THEN V[i] ELSE c
  BY <1>1 DEF Extended
<1> HIDE DEF W
<1>3. W[num] = c
  BY <1>2
<1>4. Below(p, c, c)
  BY <1>1, BelowFact
<1>5. \A i, j \in Nat : i <= j /\ j <= num => Below(p, W[i], W[j])
  <2> SUFFICES ASSUME NEW i \in Nat, NEW j \in Nat, i <= j PROVE Below(p, W[i], W[j])
    OBVIOUS
  <2>1. CASE j <= n
    BY <1>1, <1>2, <2>1
  <2>2. CASE ~(j <= n) /\ i <= n
    <3>1. Below(p, V[i], V[n]) /\ V[i] \in Value(p, y) /\ V[n] \in Value(p, y)
      BY <1>1, <2>2
    <3>2. Below(p, V[i], c)
      BY <1>1, <3>1, BelowFact
    <3> QED BY <1>2, <2>2, <3>2
  <2>3. CASE ~(i <= n)
    <3>1. ~(j <= n)
      BY <2>3
    <3> QED BY <1>2, <1>4, <2>3, <3>1
  <2> QED BY <2>1, <2>2, <2>3
<1>6. Growing(p, y, W, num, c)
  BY <1>1, <1>2, <1>3, <1>4, <1>5 DEF Growing
<1>7. \A i \in Nat : i <= n => W[i] = V[i]
  BY <1>2
<1> QED BY <1>3, <1>6, <1>7 DEF W

\* What tick makes of the two directions: the numbers keep their values, and
\* what is sent has the value of its number.
Ticked(p, q, y, V, r, c, W, d, s, e, me, other, time, toOther, toMe, k) ==
  /\ Linked(k.peer, other, time, toOther \cup k.sent, toMe)
  /\ Content(q, y, W, d, s, e, other, k.peer, toMe)
  /\ k.peer.received_states = me.received_states /\ k.peer.shutdown_in_progress = me.shutdown_in_progress
  /\ \E X, x : /\ Content(p, y, X, x, r, c, k.peer, other, toOther \cup k.sent)
               /\ \A i \in Nat : i <= Back(me).num => X[i] = V[i]

\* send_in_fragments, with the list of sent states that ends with the number sent.
LEMMA PostFact ==
  ASSUME NEW p \in Peers, NEW q \in Peers, NEW y \in Seq(Int), NEW V, NEW b, NEW r, NEW c, NEW W, NEW d, NEW s, NEW e,
         NEW t, NEW other, NEW time \in Nat, NEW toOther, NEW toMe, Linked(t, other, time, toOther, toMe),
         Content(p, y, V, b, r, c, t, other, toOther), Content(q, y, W, d, s, e, other, t, toMe),
         NEW num \in Nat, num <= LastNum, Back(t).num <= num, num = LastNum => t.shutdown_in_progress,
         num = Back(t).num => V[num] = c, num \in {0, LastNum} \/ num + ECHO_TIMEOUT <= time + 1,
         NEW added, DOMAIN added = PeerFields, Added(t, added.sent_states, time, num, Form(p, y, b, c)),
         added.next_ack_time \in Nat, added.next_ack_time > time, added.mindelay_clock \in Nat,
         \A f \in PeerFields \ {"sent_states", "next_ack_time", "next_send_time", "mindelay_clock"} : added[f] = t[f],
         NEW old \in Nat, Known(t).num <= old, old <= Back(t).num, NEW diff, diff = Way(p, y, V[old], c)
  PROVE  Ticked(p, q, y, V, r, c, W, d, s, e, t, other, time, toOther, toMe, send_in_fragments(added, old, num, diff))
<1> DEFINE n == Back(t).num
           X == Extended(V, n, c)
           inst == [old |-> old, new |-> num, ack |-> added.ack_num, throwaway |-> Known(added).num, diff |-> diff]
           last == added.last_instruction
           bad == old = last.old /\ num = last.new /\ diff # last.diff
           w == [added EXCEPT !.pending_data_ack = FALSE,
                              !.shutdown_tries = IF num = LastNum THEN @ + 1 ELSE @,
                              !.last_instruction = [old |-> old, new |-> num, ack |-> added.ack_num, diff |-> diff],
                              !.failed = @ \/ bad]
           k == send_in_fragments(added, old, num, diff)
           all == toOther \cup {inst}
<1>1. k = [peer |-> w, sent |-> {inst}]
  BY DEF send_in_fragments
<1>2. /\ Sending(t, time) /\ Receiving(t) /\ Sending(other, time) /\ Receiving(other)
      /\ Exchange(t, other, toOther, toMe) /\ Exchange(other, t, toMe, toOther)
  BY DEF Linked
<1>3. /\ Growing(p, y, V, n, c) /\ Listed(p, y, V, b, t.sent_states) /\ Listed(p, y, V, r, other.received_states)
      /\ t.current = Form(p, y, b, c) /\ \A m \in toOther : m.diff = Way(p, y, V[m.old], V[m.new])
      /\ Told(p, y, V, n, t.last_instruction)
  BY DEF Content
<1>4. n \in Nat /\ n <= LastNum /\ LastNum \in Nat
  BY <1>2, SenderFact, ConstantsFact
<1>5. Growing(p, y, X, num, c) /\ X[num] = c /\ \A i \in Nat : i <= n => X[i] = V[i]
  <2> HIDE DEF n
  <2> QED BY <1>3, <1>4, ExtendedFact DEF n
<1> HIDE DEF X
<1>6. /\ added.current = t.current /\ added.ack_num = t.ack_num /\ added.last_instruction = t.last_instruction
      /\ added.received_states = t.received_states /\ added.shutdown_in_progress = t.shutdown_in_progress
      /\ added.has_remote_addr = t.has_remote_addr /\ added.failed = t.failed
  BY DEF PeerFields
<1>7. t.failed = FALSE /\ t.has_remote_addr \in BOOLEAN /\ t.shutdown_in_progress \in BOOLEAN
  BY <1>2 DEF Sending
<1>8. V[old] = X[old] /\ diff = Way(p, y, X[old], X[num])
  BY <1>4, <1>5
<1>9. bad = FALSE
  <2> SUFFICES ASSUME old = last.old, num = last.new PROVE diff = last.diff
    OBVIOUS
  <2>1. last = t.last_instruction
    BY <1>6
  <2> HIDE DEF last
  <2>2. CASE last.old = LastNum /\ last.new = LastNum /\ last.diff = <<>>
    <3>1. n = LastNum /\ old = LastNum
      BY <2>2, <1>4
    <3>2. V[old] = c /\ c \in Value(p, y)
      BY <3>1, <1>3 DEF Growing
    <3>3. Way(p, y, c, c) = <<>>
      <4>1. Below(p, c, c)
        BY <3>2, BelowFact
      <4> QED BY <3>2, <4>1, FormFact
    <3> QED BY <2>2, <3>2, <3>3
  <2>3. CASE last.old \in Nat /\ last.new \in Nat /\ last.new <= n /\ last.diff = Way(p, y, V[last.old], V[last.new])
    <3>1. num = n
      BY <2>3, <1>4
    <3> QED BY <2>3, <3>1
  <2> QED BY <1>3, <2>1, <2>2, <2>3 DEF Told
<1> HIDE DEF bad
<1>10. /\ DOMAIN w = PeerFields /\ w.sent_states = added.sent_states /\ w.next_ack_time = added.next_ack_time
       /\ w.mindelay_clock = added.mindelay_clock /\ w.shutdown_in_progress = t.shutdown_in_progress
       /\ w.has_remote_addr = t.has_remote_addr /\ w.current = t.current /\ w.received_states = t.received_states
       /\ w.ack_num = t.ack_num /\ w.failed = FALSE
       /\ w.last_instruction = [old |-> old, new |-> num, ack |-> added.ack_num, diff |-> diff]
  <2>1. (added.failed \/ bad) = FALSE
    BY <1>6, <1>7, <1>9
  <2> QED BY <1>6, <2>1 DEF PeerFields
<1> HIDE DEF w
<1>11. /\ w.sent_states \in Seq(Entry) /\ Len(w.sent_states) \in Nat \ {0} /\ Ordered(w.sent_states) /\ Timed(w.sent_states)
       /\ Known(w).num = Known(t).num /\ Known(added).num = Known(t).num
       /\ Back(w).num = num /\ Back(w).timestamp = time /\ Back(w).state = Form(p, y, b, c)
  BY <1>10 DEF Added, Known, Back
<1>12. Sending(w, time)
  BY <1>7, <1>10, <1>11 DEF Sending, Paced
<1>13. Receiving(w) /\ Newest(w) = Newest(t)
  BY <1>2, <1>10, SameReceiver
<1>14. Exchange(w, other, all, toMe)
  <2>1. \A m \in all : /\ m.throwaway \in Nat /\ m.old \in Nat /\ m.new \in Nat
                       /\ m.throwaway <= m.old /\ m.old <= m.new /\ m.new <= Back(w).num
                       /\ m.throwaway <= Known(w).num
    <3> TAKE m \in all
    <3>1. CASE m = inst
      <4>1. Known(t).num \in Nat
        BY <1>2, SenderFact
      <4>2. m.throwaway = Known(t).num /\ m.old = old /\ m.new = num
        BY <3>1, <1>11
      <4> QED BY <4>1, <4>2, <1>4, <1>11
    <3>2. CASE m \in toOther
      <4>1. /\ m.throwaway \in Nat /\ m.old \in Nat /\ m.new \in Nat
            /\ m.throwaway <= m.old /\ m.old <= m.new /\ m.new <= n /\ m.throwaway <= Known(t).num
        BY <3>2, <1>2 DEF Exchange
      <4> QED BY <4>1, <1>4, <1>11
    <3> QED BY <3>1, <3>2
  <2>2. \A x \in Nums(other.received_states) : x <= Back(w).num
    <3>1. \A x \in Nums(other.received_states) : x \in Nat /\ x <= n
      BY <1>2, ReceiverFact DEF Exchange
    <3> QED BY <3>1, <1>4, <1>11
  <2> HIDE DEF all
  <2> QED BY <1>2, <1>11, <2>1, <2>2 DEF Exchange
<1>15. Exchange(other, w, toMe, all)
  <2>1. \A m \in all : m.ack \in 0..LastNum /\ (m.ack < Known(other).num \/ m.ack \in Nums(w.received_states))
    <3> TAKE m \in all
    <3>1. CASE m = inst
      <4>1. m.ack = Newest(t).num
        BY <3>1, <1>2, <1>6 DEF Receiving
      <4>2. Newest(t).num \in Nat /\ Newest(t).num <= LastNum /\ Newest(t).num \in Nums(t.received_states)
        BY <1>2, ReceiverFact
      <4> QED BY <4>1, <4>2, <1>4, <1>10
    <3>2. CASE m \in toOther
      BY <3>2, <1>2, <1>10 DEF Exchange
    <3> QED BY <3>1, <3>2
  <2> HIDE DEF all
  <2> QED BY <1>2, <1>10, <2>1 DEF Exchange
<1>16. Listed(p, y, X, b, w.sent_states)
  <2>1. b \in Value(p, y) /\ Below(p, b, V[Known(t).num])
    BY <1>3 DEF Listed, Known
  <2>2. Known(t).num \in Nat /\ Known(t).num <= n /\ \A j \in 1..Len(t.sent_states) : t.sent_states[j].num \in Nat /\ t.sent_states[j].num <= n
    BY <1>2, SenderFact
  <2>3. X[Known(t).num] = V[Known(t).num] /\ w.sent_states[1].num = Known(t).num
    BY <1>5, <1>11, <2>2 DEF Known
  <2>4. \A j \in 1..Len(t.sent_states) : t.sent_states[j].state = Form(p, y, b, X[t.sent_states[j].num])
    BY <1>3, <1>5, <2>2 DEF Listed
  <2>5. \A i \in 1..Len(w.sent_states) : w.sent_states[i].state = Form(p, y, b, X[w.sent_states[i].num])
    <3> TAKE i \in 1..Len(w.sent_states)
    <3>1. \/ w.sent_states[i].num = num /\ w.sent_states[i].state = Form(p, y, b, c)
          \/ \E j \in 1..Len(t.sent_states) : /\ w.sent_states[i].num = t.sent_states[j].num
                                              /\ w.sent_states[i].state = t.sent_states[j].state
      BY <1>10 DEF Added
    <3> QED BY <1>5, <2>4, <3>1
  <2> QED BY <2>1, <2>3, <2>5 DEF Listed
<1>17. Listed(p, y, X, r, other.received_states)
  <2>1. \A i \in 1..Len(other.received_states) : other.received_states[i].num \in Nat /\ other.received_states[i].num <= n
    BY <1>2, ReceiverFact DEF Exchange, Nums
  <2>2. 1 \in 1..Len(other.received_states)
    BY <1>2, ReceiverFact
  <2>3. \A i \in 1..Len(other.received_states) : X[other.received_states[i].num] = V[other.received_states[i].num]
    BY <1>5, <2>1
  <2> QED BY <1>3, <2>2, <2>3 DEF Listed
<1>18. \A m \in all : m.diff = Way(p, y, X[m.old], X[m.new])
  <2> TAKE m \in all
  <2>1. CASE m = inst
    BY <2>1, <1>8
  <2>2. CASE m \in toOther
    <3>1. m.old \in Nat /\ m.new \in Nat /\ m.old <= m.new /\ m.new <= n
      BY <2>2, <1>2 DEF Exchange
    <3>2. X[m.old] = V[m.old] /\ X[m.new] = V[m.new]
      BY <1>4, <1>5, <3>1
    <3> QED BY <1>3, <2>2, <3>2
  <2> QED BY <2>1, <2>2
<1>19. Told(p, y, X, num, w.last_instruction)
  <2>1. old <= num
    BY <1>4
  <2> QED BY <1>8, <1>10, <2>1 DEF Told
<1>20. Content(p, y, X, b, r, c, w, other, all)
  <2> HIDE DEF all
  <2> QED BY <1>3, <1>5, <1>10, <1>11, <1>16, <1>17, <1>18, <1>19 DEF Content
<1>21. Content(q, y, W, d, s, e, other, w, toMe)
  BY <1>10, SameContent
<1>22. Linked(w, other, time, all, toMe)
  BY <1>2, <1>12, <1>13, <1>14, <1>15 DEF Linked
<1> HIDE DEF all, k
<1>23. k.peer = w /\ toOther \cup k.sent = all
  BY <1>1 DEF all
<1>24. Ticked(p, q, y, V, r, c, W, d, s, e, t, other, time, toOther, toMe, k)
  BY <1>5, <1>10, <1>20, <1>21, <1>22, <1>23 DEF Ticked
<1> QED BY <1>24 DEF k

\* A quiet tick sends nothing.
LEMMA QuietFact ==
  ASSUME NEW p \in Peers, NEW q \in Peers, NEW y \in Seq(Int), NEW V, NEW b, NEW r, NEW c, NEW W, NEW d, NEW s, NEW e,
         NEW t, NEW other, NEW time \in Nat, NEW toOther, NEW toMe, Linked(t, other, time, toOther, toMe),
         Content(p, y, V, b, r, c, t, other, toOther), Content(q, y, W, d, s, e, other, t, toMe),
         NEW w, DOMAIN w = PeerFields, w.mindelay_clock \in Nat,
         \A f \in PeerFields \ {"next_send_time", "mindelay_clock"} : w[f] = t[f]
  PROVE  Ticked(p, q, y, V, r, c, W, d, s, e, t, other, time, toOther, toMe, [peer |-> w, sent |-> {}])
<1>1. /\ w.sent_states = t.sent_states /\ w.next_ack_time = t.next_ack_time /\ w.shutdown_in_progress = t.shutdown_in_progress
      /\ w.has_remote_addr = t.has_remote_addr /\ w.failed = t.failed /\ w.current = t.current
      /\ w.last_instruction = t.last_instruction /\ w.received_states = t.received_states /\ w.ack_num = t.ack_num
  BY DEF PeerFields
<1>2. Sending(w, time)
  <2>1. Back(w) = Back(t)
    BY <1>1 DEF Back
  <2>2. Sending(t, time)
    BY DEF Linked
  <2> QED BY <1>1, <2>1, <2>2 DEF Sending, Paced
<1>3. Receiving(w)
  BY <1>1, SameReceiver DEF Linked
<1>4. Exchange(w, other, toOther, toMe) /\ Exchange(other, w, toMe, toOther)
  BY <1>1, SameExchange DEF Linked
<1>5. Content(p, y, V, b, r, c, w, other, toOther) /\ Content(q, y, W, d, s, e, other, w, toMe)
  BY <1>1, SameContent
<1>6. Linked(w, other, time, toOther, toMe)
  BY <1>2, <1>3, <1>4 DEF Linked
<1> DEFINE k == [peer |-> w, sent |-> {}]
<1>7. k.peer = w /\ toOther \cup k.sent = toOther
  OBVIOUS
<1> HIDE DEF k
<1>8. Ticked(p, q, y, V, r, c, W, d, s, e, t, other, time, toOther, toMe, k)
  BY <1>1, <1>5, <1>6, <1>7 DEF Ticked
<1> QED BY <1>8 DEF k

\* The difference that send chooses leads from an older state to the current one.
Choosing(p, y, V, c, t, old, diff) ==
  /\ old \in Nat /\ Known(t).num <= old /\ old <= Back(t).num
  /\ diff = Way(p, y, V[old], c)

\* The difference sent is the way from the assumed state to the current one.
LEMMA DiffFact ==
  ASSUME NEW p \in Peers, NEW y \in Seq(Int), NEW V, NEW b, NEW r, NEW c, NEW t, NEW other, NEW forth, NEW time,
         Sending(t, time), Content(p, y, V, b, r, c, t, other, forth), NEW i \in 1..Len(t.sent_states)
  PROVE  /\ Choosing(p, y, V, c, t, t.sent_states[i].num, diff_from(p, t.current, t.sent_states[i].state))
         /\ Extends(p, t.current, t.sent_states[i].state)
<1> DEFINE v == V[t.sent_states[i].num]
<1>1. /\ t.sent_states \in Seq(Entry) /\ Len(t.sent_states) \in Nat \ {0} /\ Ordered(t.sent_states)
      /\ Back(t).num \in Nat /\ t.sent_states[Len(t.sent_states)].num <= Back(t).num
  <2>1. t.sent_states \in Seq(Entry) /\ Len(t.sent_states) \in Nat \ {0} /\ Ordered(t.sent_states)
    BY DEF Sending
  <2>2. Back(t).num \in Nat /\ t.sent_states[Len(t.sent_states)].num <= Back(t).num
    BY SenderFact
  <2> QED BY <2>1, <2>2
<1>2. Growing(p, y, V, Back(t).num, c) /\ Listed(p, y, V, b, t.sent_states) /\ t.current = Form(p, y, b, c)
  BY DEF Content
<1>3. v \in Value(p, y) /\ Below(p, b, v) /\ Below(p, v, c) /\ b \in Value(p, y) /\ c \in Value(p, y)
  BY <1>1, <1>2, ListedAfter
<1>4. t.sent_states[i].state = Form(p, y, b, v)
  BY <1>2 DEF Listed
<1> HIDE DEF v
<1>5. Extends(p, Form(p, y, b, c), Form(p, y, b, v)) /\ diff_from(p, Form(p, y, b, c), Form(p, y, b, v)) = Way(p, y, v, c)
  BY <1>3, FormFact
<1>6. t.sent_states[i].num \in Nat /\ Known(t).num <= t.sent_states[i].num /\ t.sent_states[i].num <= Back(t).num
  BY SenderFact
<1> QED BY <1>2, <1>4, <1>5, <1>6 DEF Choosing, v

\* send: an empty acknowledgement, a difference, or nothing.
LEMMA SendFact ==
  ASSUME NEW p \in Peers, NEW q \in Peers, NEW y \in Seq(Int), NEW V, NEW b, NEW r, NEW c, NEW W, NEW d, NEW s, NEW e,
         NEW t, NEW other, NEW time \in Nat, NEW toOther, NEW toMe, Linked(t, other, time, toOther, toMe),
         Content(p, y, V, b, r, c, t, other, toOther), Content(q, y, W, d, s, e, other, t, toMe),
         time <= MaxTime, ECHO_TIMEOUT <= time, Back(t).num \in {0, LastNum} \/ time > Back(t).timestamp,
         NEW prophylactic \in BOOLEAN
  PROVE  Ticked(p, q, y, V, r, c, W, d, s, e, t, other, time, toOther, toMe, send(p, t, time, prophylactic))
<1> DEFINE assumed == assumed_receiver_state(t, time)
           proposed == diff_from(p, t.current, t.sent_states[assumed].state)
           whole == diff_from(p, t.current, Known(t).state)
           again == resends(p, assumed, proposed, whole, prophylactic)
           diff == IF again THEN whole ELSE proposed
           old == IF again THEN Known(t).num ELSE t.sent_states[assumed].num
           ackDue == time >= t.next_ack_time
           sound == Extends(p, t.current, t.sent_states[assumed].state) /\ Extends(p, t.current, Known(t).state)
           n == Back(t).num
           k == send(p, t, time, prophylactic)
           empty(num) == [t EXCEPT !.sent_states = add_sent_state(t, time, num),
                              !.next_ack_time = time + ACK_INTERVAL, !.next_send_time = Never, !.mindelay_clock = Never]
           more(states) == [t EXCEPT !.sent_states = states,
                              !.next_ack_time = time + ACK_INTERVAL, !.next_send_time = Never, !.mindelay_clock = Never]
<1>1. k = (CASE ~sound -> [peer |-> [t EXCEPT !.failed = TRUE], sent |-> {}]
            [] sound /\ diff = <<>> /\ ackDue -> send_empty_ack(t, time, old)
            [] sound /\ diff = <<>> /\ ~ackDue ->
                 [peer |-> [t EXCEPT !.next_send_time = Never, !.mindelay_clock = Never], sent |-> {}]
            [] sound /\ diff # <<>> -> send_to_receiver(t, time, old, diff))
  BY DEF send
<1>2. Sending(t, time) /\ DOMAIN t = PeerFields /\ t.shutdown_in_progress \in BOOLEAN /\ Paced(t) /\ Back(t).timestamp <= time
  BY DEF Linked, Sending
<1>3. sound /\ Choosing(p, y, V, c, t, old, diff)
  <2>1. assumed \in 1..Len(t.sent_states)
    BY <1>2, AssumedFact
  <2>2. 1 \in 1..Len(t.sent_states)
    BY <1>2, SenderFact
  <2> HIDE DEF assumed
  <2>3. Choosing(p, y, V, c, t, t.sent_states[assumed].num, proposed) /\ Extends(p, t.current, t.sent_states[assumed].state)
    BY <1>2, <2>1, DiffFact
  <2>4. Choosing(p, y, V, c, t, Known(t).num, whole) /\ Extends(p, t.current, Known(t).state)
    BY <1>2, <2>2, DiffFact DEF Known
  <2> QED BY <2>3, <2>4
<1> HIDE DEF sound, old, diff, k
<1>4. old \in Nat /\ Known(t).num <= old /\ old <= n /\ diff = Way(p, y, V[old], c)
  BY <1>3 DEF Choosing
<1>5. /\ n \in Nat /\ n <= LastNum /\ Back(t).timestamp \in Nat /\ LastNum \in Nat /\ ECHO_TIMEOUT \in Nat /\ MaxTime \in Nat
      /\ MaxTime + 1 < LastNum /\ ACK_INTERVAL \in Nat \ {0} /\ Never \in Nat
  BY <1>2, SenderFact, ConstantsFact
<1>6. /\ Growing(p, y, V, n, c) /\ Listed(p, y, V, b, t.sent_states) /\ t.current = Form(p, y, b, c)
      /\ Back(t).state = Form(p, y, b, V[n]) /\ V[n] \in Value(p, y) /\ Below(p, b, V[n]) /\ Below(p, V[n], c)
      /\ b \in Value(p, y) /\ c \in Value(p, y) /\ Below(p, b, c)
  <2>1. Growing(p, y, V, n, c) /\ Listed(p, y, V, b, t.sent_states) /\ t.current = Form(p, y, b, c)
    BY DEF Content
  <2>2. /\ t.sent_states \in Seq(Entry) /\ Len(t.sent_states) \in Nat \ {0} /\ Ordered(t.sent_states)
        /\ Len(t.sent_states) \in 1..Len(t.sent_states) /\ t.sent_states[Len(t.sent_states)].num <= n
    <3>1. t.sent_states \in Seq(Entry) /\ Len(t.sent_states) \in Nat \ {0} /\ Ordered(t.sent_states)
      BY <1>2 DEF Sending
    <3>2. Len(t.sent_states) \in 1..Len(t.sent_states) /\ t.sent_states[Len(t.sent_states)].num <= n
      BY <1>2, SenderFact
    <3> QED BY <3>1, <3>2
  <2>3. Back(t).state = Form(p, y, b, V[n])
    BY <2>1, <2>2 DEF Listed, Back
  <2> HIDE DEF n
  <2>4. /\ V[t.sent_states[Len(t.sent_states)].num] \in Value(p, y) /\ Below(p, b, V[t.sent_states[Len(t.sent_states)].num])
        /\ Below(p, V[t.sent_states[Len(t.sent_states)].num], c)
        /\ b \in Value(p, y) /\ c \in Value(p, y) /\ Below(p, b, c)
    BY <1>5, <2>1, <2>2, ListedAfter
  <2> QED BY <2>1, <2>3, <2>4 DEF n, Back
<1>7. t.current \in Objects
  BY <1>6, FormType
<1>8. t.shutdown_in_progress \/ n # LastNum
  BY <1>2 DEF Paced
<1>9. ASSUME n # LastNum
      PROVE  n + 1 < LastNum /\ (n + 1) + ECHO_TIMEOUT <= time + 1 /\ (n = 0 \/ n + ECHO_TIMEOUT <= time + 1)
  <2>1. CASE n = 0
    BY <2>1, <1>5
  <2>2. CASE n # 0
    <3>1. n + ECHO_TIMEOUT <= Back(t).timestamp + 1 /\ time > Back(t).timestamp
      BY <1>2, <1>9, <2>2 DEF Paced
    <3> QED BY <3>1, <1>5
  <2> QED BY <2>1, <2>2
<1>10. ASSUME NEW num \in Nat, NEW states, num <= LastNum, n <= num, num = LastNum => t.shutdown_in_progress,
              num = n => V[num] = c, num \in {0, LastNum} \/ num + ECHO_TIMEOUT <= time + 1,
              Added(t, states, time, num, Form(p, y, b, c))
       PROVE  Ticked(p, q, y, V, r, c, W, d, s, e, t, other, time, toOther, toMe, send_in_fragments(more(states), old, num, diff))
  <2> DEFINE added == more(states)
  <2>1. /\ DOMAIN added = PeerFields /\ added.sent_states = states /\ added.next_ack_time = time + ACK_INTERVAL
        /\ added.mindelay_clock = Never
        /\ \A f \in PeerFields \ {"sent_states", "next_ack_time", "next_send_time", "mindelay_clock"} : added[f] = t[f]
    BY <1>2 DEF PeerFields
  <2> HIDE DEF added
  <2>2. added.next_ack_time \in Nat /\ added.next_ack_time > time /\ added.mindelay_clock \in Nat
    BY <1>5, <2>1
  <2>3. Added(t, added.sent_states, time, num, Form(p, y, b, c))
    BY <1>10, <2>1
  <2> HIDE DEF n
  <2>4. Ticked(p, q, y, V, r, c, W, d, s, e, t, other, time, toOther, toMe, send_in_fragments(added, old, num, diff))
    BY <1>4, <1>10, <2>1, <2>2, <2>3, PostFact DEF n
  <2> QED BY <2>4 DEF added
<1> HIDE DEF more
<1>11. n = LastNum => V[n] = c
  BY <1>6 DEF Growing
<1>12. CASE diff = <<>> /\ ackDue
  <2> DEFINE num == IF t.shutdown_in_progress THEN LastNum ELSE Following(n)
  <2>1. num = IF t.shutdown_in_progress THEN LastNum ELSE n + 1
    BY <1>8 DEF Following
  <2>2. k = send_in_fragments(more(add_sent_state(t, time, num)), old, num, diff)
    <3>1. k = send_empty_ack(t, time, old)
      BY <1>1, <1>3, <1>12
    <3>2. send_empty_ack(t, time, old) = send_in_fragments(more(add_sent_state(t, time, num)), old, num, <<>>)
      BY DEF send_empty_ack, more
    <3> QED BY <1>12, <3>1, <3>2
  <2> HIDE DEF num
  <2>3. num \in Nat /\ num <= LastNum /\ n <= num /\ (num = LastNum => t.shutdown_in_progress)
    BY <2>1, <1>5, <1>8, <1>9
  <2>4. num = n => V[num] = c
    BY <2>1, <1>5, <1>11
  <2>5. num \in {0, LastNum} \/ num + ECHO_TIMEOUT <= time + 1
    BY <2>1, <1>8, <1>9
  <2>6. Added(t, add_sent_state(t, time, num), time, num, Form(p, y, b, c))
    BY <1>2, <1>6, <1>7, <2>3, AddFact
  <2>7. Ticked(p, q, y, V, r, c, W, d, s, e, t, other, time, toOther, toMe,
               send_in_fragments(more(add_sent_state(t, time, num)), old, num, diff))
    BY <1>10, <2>3, <2>4, <2>5, <2>6
  <2> QED BY <2>2, <2>7 DEF k
<1>13. CASE diff = <<>> /\ ~ackDue
  <2> DEFINE w == [t EXCEPT !.next_send_time = Never, !.mindelay_clock = Never]
  <2>1. k = [peer |-> w, sent |-> {}]
    BY <1>1, <1>3, <1>13
  <2>2. DOMAIN w = PeerFields /\ w.mindelay_clock = Never /\ \A f \in PeerFields \ {"next_send_time", "mindelay_clock"} : w[f] = t[f]
    BY <1>2 DEF PeerFields
  <2> HIDE DEF w
  <2>3. Ticked(p, q, y, V, r, c, W, d, s, e, t, other, time, toOther, toMe, [peer |-> w, sent |-> {}])
    BY <1>5, <2>2, QuietFact
  <2> QED BY <2>1, <2>3 DEF k
<1>14. CASE diff # <<>>
  <2> DEFINE same == IF t.current = Back(t).state THEN n ELSE Following(n)
             num == IF t.shutdown_in_progress THEN LastNum ELSE same
             states == IF num = n THEN [t.sent_states EXCEPT ![Len(t.sent_states)].timestamp = time] ELSE add_sent_state(t, time, num)
  <2>1. num = IF t.shutdown_in_progress THEN LastNum ELSE IF t.current = Back(t).state THEN n ELSE n + 1
    BY <1>8 DEF Following
  <2>2. k = send_in_fragments(more(states), old, num, diff)
    <3>1. k = send_to_receiver(t, time, old, diff)
      BY <1>1, <1>3, <1>14
    <3>2. send_to_receiver(t, time, old, diff) = send_in_fragments(more(states), old, num, diff)
      BY DEF send_to_receiver, more
    <3> QED BY <3>1, <3>2
  <2> HIDE DEF num
  <2>3. num \in Nat /\ num <= LastNum /\ n <= num /\ (num = LastNum => t.shutdown_in_progress)
    BY <2>1, <1>5, <1>8, <1>9
  <2>4. num = n => V[num] = c
    <3>1. CASE num = n /\ t.shutdown_in_progress
      BY <3>1, <2>1, <1>11
    <3>2. CASE num = n /\ ~t.shutdown_in_progress
      <4>1. t.current = Back(t).state
        BY <3>2, <2>1, <1>5
      <4>2. Form(p, y, b, c) = Form(p, y, b, V[n]) <=> V[n] = c
        <5> HIDE DEF n
        <5> DEFINE v == V[n]
        <5>1. v \in Value(p, y) /\ Below(p, b, v) /\ Below(p, v, c) /\ b \in Value(p, y) /\ c \in Value(p, y)
          BY <1>6
        <5> HIDE DEF v
        <5>2. Form(p, y, b, c) = Form(p, y, b, v) <=> v = c
          BY <5>1, FormFact
        <5> QED BY <5>2 DEF v
      <4> QED BY <1>6, <3>2, <4>1, <4>2
    <3> QED BY <1>2, <3>1, <3>2
  <2>5. num \in {0, LastNum} \/ num + ECHO_TIMEOUT <= time + 1
    BY <2>1, <1>8, <1>9
  <2>6. Added(t, states, time, num, Form(p, y, b, c))
    <3>1. CASE num = n
      <4>1. Back(t).state = Form(p, y, b, c)
        BY <1>6, <2>4, <3>1
      <4> QED BY <1>2, <3>1, <4>1, AgainFact
    <3>2. CASE num # n
      BY <1>2, <1>6, <1>7, <2>3, <3>2, AddFact
    <3> QED BY <3>1, <3>2
  <2> HIDE DEF states
  <2>7. Ticked(p, q, y, V, r, c, W, d, s, e, t, other, time, toOther, toMe, send_in_fragments(more(states), old, num, diff))
    BY <1>10, <2>3, <2>4, <2>5, <2>6
  <2> QED BY <2>2, <2>7 DEF k
<1> QED BY <1>12, <1>13, <1>14

\* A side as it was cut: the same numbers, its states begin at the acknowledged one.
LEMMA CutFactLinked ==
  ASSUME NEW p \in Peers, NEW q \in Peers, NEW y \in Seq(Int), NEW V, NEW b, NEW r, NEW c, NEW W, NEW d, NEW s, NEW e,
         NEW me, NEW other, NEW time, NEW toOther, NEW toMe, NEW t, Linked(me, other, time, toOther, toMe),
         Content(p, y, V, b, r, c, me, other, toOther), Content(q, y, W, d, s, e, other, me, toMe),
         Cutting(p, y, V, c, me, t, time)
  PROVE  /\ Linked(t, other, time, toOther, toMe)
         /\ Content(p, y, V, V[Known(me).num], r, c, t, other, toOther) /\ Content(q, y, W, d, s, e, other, t, toMe)
         /\ t.received_states = me.received_states /\ t.shutdown_in_progress = me.shutdown_in_progress
<1>1. /\ Sending(me, time) /\ Receiving(me) /\ Sending(other, time) /\ Receiving(other)
      /\ Exchange(me, other, toOther, toMe) /\ Exchange(other, me, toMe, toOther)
  BY DEF Linked
<1>2. /\ Sending(t, time) /\ Len(t.sent_states) = Len(me.sent_states)
      /\ \A f \in PeerFields \ {"current", "sent_states"} : t[f] = me[f]
      /\ t.current = Form(p, y, V[Known(me).num], c)
      /\ Known(t).num = Known(me).num /\ Back(t).num = Back(me).num
      /\ \A i \in 1..Len(me.sent_states) : /\ t.sent_states[i].num = me.sent_states[i].num
                                           /\ t.sent_states[i].state = Form(p, y, V[Known(me).num], V[me.sent_states[i].num])
  BY DEF Cutting
<1>3. /\ t.received_states = me.received_states /\ t.shutdown_in_progress = me.shutdown_in_progress
      /\ t.ack_num = me.ack_num /\ t.last_instruction = me.last_instruction /\ DOMAIN t = PeerFields
  BY <1>2 DEF PeerFields, Sending
<1>4. Receiving(t)
  BY <1>1, <1>3, SameReceiver
<1>5. Exchange(t, other, toOther, toMe)
  BY <1>1, <1>2, SameNumbers
<1>6. Exchange(other, t, toMe, toOther)
  BY <1>1, <1>3, SameExchange
<1>7. Content(q, y, W, d, s, e, other, t, toMe)
  BY <1>3, SameContent
<1>8. /\ Growing(p, y, V, Back(me).num, c) /\ Listed(p, y, V, r, other.received_states)
      /\ \A m \in toOther : m.diff = Way(p, y, V[m.old], V[m.new])
      /\ Told(p, y, V, Back(me).num, me.last_instruction)
  BY DEF Content
<1> DEFINE k == V[Known(me).num]
<1>9. k \in Value(p, y) /\ Below(p, k, k)
  <2>1. Known(me).num \in Nat
    BY <1>1, SenderFact
  <2>2. k \in Value(p, y)
    BY <1>8, <2>1 DEF Growing
  <2> QED BY <2>2, BelowFact
<1>10. Listed(p, y, V, k, t.sent_states)
  BY <1>2, <1>9 DEF Listed, Known
<1>11. Content(p, y, V, k, r, c, t, other, toOther)
  BY <1>2, <1>3, <1>8, <1>10 DEF Content
<1> QED BY <1>1, <1>2, <1>3, <1>4, <1>5, <1>6, <1>7, <1>11 DEF Linked

\* TransportSender::tick.
LEMMA TickFact ==
  ASSUME NEW p \in Peers, NEW q \in Peers, NEW y \in Seq(Int), NEW V, NEW b, NEW r, NEW c, NEW W, NEW d, NEW s, NEW e,
         NEW me, NEW other, NEW time \in Nat, NEW toOther, NEW toMe, Linked(me, other, time, toOther, toMe),
         Content(p, y, V, b, r, c, me, other, toOther), Content(q, y, W, d, s, e, other, me, toMe),
         time <= MaxTime, ECHO_TIMEOUT <= time, NEW prophylactic \in BOOLEAN
  PROVE  Ticked(p, q, y, V, r, c, W, d, s, e, me, other, time, toOther, toMe, tick(p, me, time, prophylactic))
<1> DEFINE l == rationalize_states(p, me)
           assumed == assumed_receiver_state(l, time)
           t == timers(l, time, assumed)
           due == time >= t.next_ack_time \/ time >= t.next_send_time
           x == V[Known(me).num]
           k == tick(p, me, time, prophylactic)
<1>1. k = IF t.has_remote_addr /\ due /\ ~t.failed THEN send(p, t, time, prophylactic) ELSE [peer |-> t, sent |-> {}]
  BY DEF tick, calculate_timers
<1>2. Cutting(p, y, V, c, me, l, time)
  BY RationalizeFact DEF Linked
<1> HIDE DEF l
<1>3. /\ Linked(l, other, time, toOther, toMe)
      /\ Content(p, y, V, x, r, c, l, other, toOther) /\ Content(q, y, W, d, s, e, other, l, toMe)
      /\ l.received_states = me.received_states /\ l.shutdown_in_progress = me.shutdown_in_progress
  BY <1>2, CutFactLinked
<1>4. Back(l).num = Back(me).num
  BY <1>2 DEF Cutting
<1>5. Sending(l, time)
  BY <1>3 DEF Linked
<1>6. assumed \in 1..Len(l.sent_states)
  BY <1>5, AssumedFact
<1> HIDE DEF assumed, x
<1>7. /\ Sending(t, time) /\ \A f \in PeerFields \ {"mindelay_clock", "next_send_time", "next_ack_time"} : t[f] = l[f]
      /\ due => Back(l).num \in {0, LastNum} \/ time > Back(l).timestamp
  BY <1>5, <1>6, TimersFact
<1> HIDE DEF t
<1>8. /\ t.received_states = l.received_states /\ t.shutdown_in_progress = l.shutdown_in_progress /\ t.ack_num = l.ack_num
      /\ t.last_instruction = l.last_instruction /\ t.sent_states = l.sent_states /\ t.current = l.current /\ DOMAIN t = PeerFields
  BY <1>7 DEF PeerFields, Sending
<1>9. Back(t) = Back(l)
  BY <1>8 DEF Back
<1>10. Receiving(t)
  BY <1>3, <1>8, SameReceiver DEF Linked
<1>11. Exchange(t, other, toOther, toMe) /\ Exchange(other, t, toMe, toOther)
  BY <1>3, <1>8, SameExchange DEF Linked
<1>12. Linked(t, other, time, toOther, toMe)
  BY <1>3, <1>7, <1>10, <1>11 DEF Linked
<1>13. Content(p, y, V, x, r, c, t, other, toOther) /\ Content(q, y, W, d, s, e, other, t, toMe)
  BY <1>3, <1>8, SameContent
<1>14. Ticked(p, q, y, V, r, c, W, d, s, e, t, other, time, toOther, toMe, k)
  <2>1. CASE t.has_remote_addr /\ due /\ ~t.failed
    <3>1. Back(t).num \in {0, LastNum} \/ time > Back(t).timestamp
      BY <1>7, <1>9, <2>1
    <3>2. Ticked(p, q, y, V, r, c, W, d, s, e, t, other, time, toOther, toMe, send(p, t, time, prophylactic))
      BY <1>12, <1>13, <3>1, SendFact
    <3> QED BY <1>1, <2>1, <3>2
  <2>2. CASE ~(t.has_remote_addr /\ due /\ ~t.failed)
    <3>1. k = [peer |-> t, sent |-> {}]
      BY <1>1, <2>2
    <3>2. t.mindelay_clock \in Nat
      BY <1>7 DEF Sending
    <3>3. Ticked(p, q, y, V, r, c, W, d, s, e, t, other, time, toOther, toMe, [peer |-> t, sent |-> {}])
      BY <1>8, <1>12, <1>13, <3>2, QuietFact
    <3> QED BY <3>1, <3>3
  <2> QED BY <2>1, <2>2
<1> HIDE DEF k
<1>15. Ticked(p, q, y, V, r, c, W, d, s, e, me, other, time, toOther, toMe, k)
  BY <1>3, <1>4, <1>8, <1>9, <1>14 DEF Ticked
<1> QED BY <1>15 DEF k

(***************************************************************************)
(* What the event loops do to a side between recv and tick.                *)
(***************************************************************************)
\* The fields that a change of the current state or a shutdown leaves alone.
Changed(me, w) ==
  /\ DOMAIN w = PeerFields
  /\ \A f \in {"sent_states", "next_ack_time", "mindelay_clock", "has_remote_addr", "ack_num", "last_instruction",
               "received_states", "failed"} : w[f] = me[f]
  /\ w.shutdown_in_progress \in BOOLEAN /\ (me.shutdown_in_progress => w.shutdown_in_progress)

\* What the loops change concerns neither the numbers nor the values.
LEMMA ChangedFact ==
  ASSUME NEW me, NEW other, NEW time, NEW toOther, NEW toMe, NEW w, Linked(me, other, time, toOther, toMe), Changed(me, w)
  PROVE  /\ Linked(w, other, time, toOther, toMe)
         /\ \A p, y, V, b, r, c : Content(p, y, V, b, r, c, other, me, toMe) => Content(p, y, V, b, r, c, other, w, toMe)
         /\ \A p, y, V, b, r, c : Content(p, y, V, b, r, c, me, other, toOther) /\ w.current = me.current
                                    => Content(p, y, V, b, r, c, w, other, toOther)
         /\ Newest(w) = Newest(me) /\ Known(w) = Known(me) /\ Back(w) = Back(me)
<1>1. /\ DOMAIN w = PeerFields /\ w.sent_states = me.sent_states /\ w.next_ack_time = me.next_ack_time
      /\ w.mindelay_clock = me.mindelay_clock /\ w.ack_num = me.ack_num /\ w.has_remote_addr = me.has_remote_addr
      /\ w.last_instruction = me.last_instruction /\ w.received_states = me.received_states /\ w.failed = me.failed
      /\ w.shutdown_in_progress \in BOOLEAN /\ (me.shutdown_in_progress => w.shutdown_in_progress)
  BY DEF Changed
<1>2. Known(w) = Known(me) /\ Back(w) = Back(me) /\ Newest(w) = Newest(me)
  BY <1>1 DEF Known, Back, Newest
<1>3. Sending(w, time)
  <2>1. Sending(me, time)
    BY DEF Linked
  <2> QED BY <1>1, <1>2, <2>1 DEF Sending, Paced
<1>4. Receiving(w)
  BY <1>1, SameReceiver DEF Linked
<1>5. Exchange(w, other, toOther, toMe) /\ Exchange(other, w, toMe, toOther)
  BY <1>1, SameExchange DEF Linked
<1> QED BY <1>1, <1>2, <1>3, <1>4, <1>5, SameContent DEF Linked

\* start_shutdown.
LEMMA ShutdownFact ==
  ASSUME NEW me, NEW time, NEW when, Sending(me, when)
  PROVE  /\ Changed(me, start_shutdown(me, time)) /\ start_shutdown(me, time).current = me.current
         /\ start_shutdown(me, time).shutdown_in_progress = TRUE
<1>1. DOMAIN me = PeerFields /\ me.shutdown_in_progress \in BOOLEAN
  BY DEF Sending
<1>2. CASE me.shutdown_in_progress
  BY <1>1, <1>2 DEF start_shutdown, Changed
<1>3. CASE ~me.shutdown_in_progress
  <2> DEFINE w == start_shutdown(me, time)
  <2>1. w = [me EXCEPT !.shutdown_in_progress = TRUE, !.shutdown_start = time]
    BY <1>3 DEF start_shutdown
  <2>2. /\ DOMAIN w = PeerFields /\ w.sent_states = me.sent_states /\ w.next_ack_time = me.next_ack_time
        /\ w.mindelay_clock = me.mindelay_clock /\ w.ack_num = me.ack_num /\ w.has_remote_addr = me.has_remote_addr
        /\ w.last_instruction = me.last_instruction /\ w.received_states = me.received_states /\ w.failed = me.failed
        /\ w.shutdown_in_progress = TRUE /\ w.current = me.current
    BY <1>1, <2>1 DEF PeerFields
  <2> HIDE DEF w
  <2>3. Changed(me, w)
    BY <2>2 DEF Changed
  <2> QED BY <2>2, <2>3 DEF w
<1> QED BY <1>1, <1>2, <1>3

\* A new current state.
LEMMA CurrentFact ==
  ASSUME NEW p \in Peers, NEW y \in Seq(Int), NEW V, NEW b, NEW r, NEW c, NEW me, NEW other, NEW toOther, NEW time,
         Content(p, y, V, b, r, c, me, other, toOther), Sending(me, time), ~me.shutdown_in_progress,
         NEW c2 \in Value(p, y), Below(p, c, c2),
         NEW w, w.sent_states = me.sent_states, w.last_instruction = me.last_instruction, w.current = Form(p, y, b, c2)
  PROVE  Content(p, y, V, b, r, c2, w, other, toOther)
<1>1. Back(w) = Back(me) /\ Back(me).num \in Nat /\ Back(me).num # LastNum
  <2>1. Back(w) = Back(me)
    BY DEF Back
  <2>2. Back(me).num # LastNum
    BY DEF Sending, Paced
  <2> QED BY <2>1, <2>2, SenderFact
<1>2. /\ V \in [Nat -> Value(p, y)] /\ c \in Value(p, y) /\ Below(p, V[Back(me).num], c)
      /\ \A i, j \in Nat : i <= j /\ j <= Back(me).num => Below(p, V[i], V[j])
  BY DEF Content, Growing
<1>3. Below(p, V[Back(me).num], c2)
  <2>1. V[Back(me).num] \in Value(p, y)
    BY <1>1, <1>2
  <2> QED BY <1>2, <2>1, BelowFact
<1>4. Growing(p, y, V, Back(w).num, c2)
  BY <1>1, <1>2, <1>3 DEF Growing
<1> QED BY <1>1, <1>4 DEF Content

\* More is typed: what the numbers mean stays.
LEMMA ContentMore ==
  ASSUME NEW p \in Peers, NEW y \in Seq(Int), NEW V, NEW b, NEW r, NEW c, NEW t, NEW u, NEW forth, NEW back, NEW time,
         Content(p, y, V, b, r, c, t, u, forth), Sending(t, time), Receiving(u), Exchange(t, u, forth, back), NEW e \in Int
  PROVE  Content(p, Append(y, e), V, b, r, c, t, u, forth)
<1> DEFINE z == Append(y, e)
<1>1. /\ z \in Seq(Int) /\ \A v \in Value(p, y) : v \in Value(p, z)
      /\ \A v, w \in Value(p, y) : Form(p, z, v, w) = Form(p, y, v, w) /\ Way(p, z, v, w) = Way(p, y, v, w)
  BY TypedMore
<1> HIDE DEF z
<1>2. /\ Growing(p, y, V, Back(t).num, c) /\ Listed(p, y, V, b, t.sent_states) /\ Listed(p, y, V, r, u.received_states)
      /\ t.current = Form(p, y, b, c) /\ \A m \in forth : m.diff = Way(p, y, V[m.old], V[m.new])
      /\ Told(p, y, V, Back(t).num, t.last_instruction)
  BY DEF Content
<1>3. V \in [Nat -> Value(p, y)] /\ c \in Value(p, y) /\ \A i \in Nat : V[i] \in Value(p, y)
  BY <1>2 DEF Growing
<1>4. V \in [Nat -> Value(p, z)] /\ c \in Value(p, z)
  <2>1. \A i \in Nat : V[i] \in Value(p, z)
    BY <1>1, <1>3
  <2>2. V = [i \in Nat |-> V[i]]
    BY <1>3
  <2> QED BY <1>1, <1>3, <2>1, <2>2
<1>5. Growing(p, z, V, Back(t).num, c)
  BY <1>2, <1>4 DEF Growing
<1>6. ASSUME NEW a, NEW list \in Seq(Entry), Listed(p, y, V, a, list)
      PROVE  Listed(p, z, V, a, list)
  <2>1. a \in Value(p, y) /\ Below(p, a, V[list[1].num])
    BY <1>6 DEF Listed
  <2>2. ASSUME NEW i \in 1..Len(list) PROVE list[i].state = Form(p, z, a, V[list[i].num])
    <3>1. V[list[i].num] \in Value(p, y)
      BY <1>3, EntryFact
    <3>2. list[i].state = Form(p, y, a, V[list[i].num])
      BY <1>6 DEF Listed
    <3> QED BY <1>1, <2>1, <3>1, <3>2
  <2> QED BY <1>1, <2>1, <2>2 DEF Listed
<1>7. Listed(p, z, V, b, t.sent_states) /\ Listed(p, z, V, r, u.received_states)
  BY <1>2, <1>6 DEF Sending, Receiving
<1>8. t.current = Form(p, z, b, c)
  <2>1. b \in Value(p, y)
    BY <1>2 DEF Listed
  <2> QED BY <1>1, <1>2, <1>3, <2>1
<1>9. ASSUME NEW m \in forth PROVE m.diff = Way(p, z, V[m.old], V[m.new])
  <2>1. m.old \in Nat /\ m.new \in Nat
    BY DEF Exchange
  <2> QED BY <1>1, <1>2, <1>3, <2>1
<1>10. Told(p, z, V, Back(t).num, t.last_instruction)
  BY <1>1, <1>2, <1>3 DEF Told
<1>11. Content(p, z, V, b, r, c, t, u, forth)
  BY <1>5, <1>7, <1>8, <1>9, <1>10 DEF Content
<1> QED BY <1>11 DEF z

\* The user types: the stream grows by an event.
LEMMA TypeFact ==
  ASSUME NEW y \in Seq(Int), NEW V, NEW b, NEW r, NEW me, NEW other, NEW toOther, NEW toMe, NEW time,
         Linked(me, other, time, toOther, toMe), Content(Client, y, V, b, r, Len(y), me, other, toOther),
         ~me.shutdown_in_progress, NEW e \in Int
  PROVE  LET w == [me EXCEPT !.current = Append(@, e)] IN
         /\ Changed(me, w) /\ w.shutdown_in_progress = me.shutdown_in_progress
         /\ Content(Client, Append(y, e), V, b, r, Len(y) + 1, w, other, toOther)
<1> DEFINE z == Append(y, e)
           w == [me EXCEPT !.current = Append(@, e)]
<1>1. /\ Sending(me, time) /\ Receiving(other) /\ Exchange(me, other, toOther, toMe)
      /\ DOMAIN me = PeerFields /\ me.shutdown_in_progress \in BOOLEAN
  BY DEF Linked, Sending
<1>2. Client \in Peers
  BY DEF Peers
<1>3. Content(Client, z, V, b, r, Len(y), me, other, toOther)
  BY <1>1, <1>2, ContentMore
<1>4. b \in Value(Client, y) /\ me.current = Form(Client, y, b, Len(y))
  BY DEF Content, Listed
<1>5. b \in Nat /\ b <= Len(y) /\ me.current = SubSeq(y, b + 1, Len(y)) /\ Len(y) \in Nat
  BY <1>4 DEF Value, Form, Cut
<1>6. Append(me.current, e) = Form(Client, z, b, Len(y) + 1)
  <2>1. z \in Seq(Int) /\ Len(z) = Len(y) + 1 /\ \A i \in 1..Len(y) : z[i] = y[i]
    OBVIOUS
  <2>2. z[Len(y) + 1] = e
    BY <1>5
  <2> HIDE DEF z
  <2> DEFINE x == Cut(y, b, Len(y))
             v == Cut(z, b, Len(y) + 1)
  <2>3. x \in Seq(Int) /\ Len(x) = Len(y) - b /\ \A i \in 1..(Len(y) - b) : x[i] = y[b + i]
    <3> DEFINE n == Len(y)
    <3>1. n \in Nat /\ b <= n /\ n <= Len(y)
      BY <1>5
    <3> HIDE DEF n
    <3>2. Cut(y, b, n) \in Seq(Int) /\ Len(Cut(y, b, n)) = n - b /\ \A i \in 1..(n - b) : Cut(y, b, n)[i] = y[b + i]
      BY <1>5, <3>1, CutFact
    <3> QED BY <3>2 DEF n
  <2>4. v \in Seq(Int) /\ Len(v) = (Len(y) + 1) - b /\ \A i \in 1..((Len(y) + 1) - b) : v[i] = z[b + i]
    <3> DEFINE n == Len(y) + 1
    <3>1. n \in Nat /\ b <= n /\ n <= Len(z)
      BY <1>5, <2>1
    <3> HIDE DEF n
    <3>2. Cut(z, b, n) \in Seq(Int) /\ Len(Cut(z, b, n)) = n - b /\ \A i \in 1..(n - b) : Cut(z, b, n)[i] = z[b + i]
      BY <1>5, <2>1, <3>1, CutFact
    <3> QED BY <3>2 DEF n
  <2> HIDE DEF x, v
  <2>5. /\ Append(x, e) \in Seq(Int) /\ Len(Append(x, e)) = Len(x) + 1 /\ Append(x, e)[Len(x) + 1] = e
        /\ \A i \in 1..Len(x) : Append(x, e)[i] = x[i]
    BY <2>3
  <2>6. Len(Append(x, e)) = Len(v)
    BY <1>5, <2>3, <2>4, <2>5
  <2>7. ASSUME NEW i \in 1..Len(v) PROVE Append(x, e)[i] = v[i]
    <3>1. CASE i = Len(v)
      <4>1. i = Len(x) + 1 /\ b + i = Len(y) + 1 /\ i \in 1..((Len(y) + 1) - b)
        BY <1>5, <2>3, <2>4, <3>1
      <4>2. v[i] = z[Len(y) + 1]
        BY <2>4, <4>1
      <4> QED BY <2>2, <2>5, <4>1, <4>2
    <3>2. CASE i # Len(v)
      <4>1. i \in 1..Len(x) /\ i \in 1..(Len(y) - b) /\ i \in 1..((Len(y) + 1) - b) /\ b + i \in 1..Len(y)
        <5>1. Len(x) \in Nat /\ Len(v) = Len(x) + 1 /\ Len(x) = Len(y) - b
          BY <1>5, <2>3, <2>4
        <5>2. i \in Nat /\ i >= 1 /\ i <= Len(x)
          BY <5>1, <3>2
        <5> QED BY <1>5, <5>1, <5>2
      <4> QED BY <2>1, <2>3, <2>4, <2>5, <4>1
    <3> QED BY <3>1, <3>2
  <2>8. Append(x, e) = v
    BY <2>4, <2>5, <2>6, <2>7, SeqEqual
  <2> QED BY <1>5, <2>8 DEF x, v, Form, Cut
<1> HIDE DEF z
<1>7. /\ DOMAIN w = PeerFields /\ w.current = Append(me.current, e)
      /\ \A f \in PeerFields \ {"current"} : w[f] = me[f]
  BY <1>1 DEF PeerFields
<1> HIDE DEF w
<1>8. Changed(me, w) /\ w.shutdown_in_progress = me.shutdown_in_progress /\ w.sent_states = me.sent_states /\ w.last_instruction = me.last_instruction
  BY <1>1, <1>7 DEF Changed, PeerFields
<1>9. z \in Seq(Int) /\ Len(y) + 1 \in Value(Client, z) /\ Below(Client, Len(y), Len(y) + 1)
  <2>1. z \in Seq(Int) /\ Len(z) = Len(y) + 1
    BY DEF z
  <2> QED BY <1>5, <2>1 DEF Value, Below
<1>10. Content(Client, z, V, b, r, Len(y) + 1, w, other, toOther)
  BY <1>1, <1>2, <1>3, <1>6, <1>7, <1>8, <1>9, CurrentFact
<1> QED BY <1>8, <1>10 DEF w, z

(***************************************************************************)
(* The server takes in what it received (get_remote_diff).                 *)
(***************************************************************************)
Delivery(y, V, r, n, last) ==
  n \in Nat /\ r \in Value(Client, y) /\ Below(Client, r, V[n]) /\ last = Form(Client, y, r, V[n])

Fetched(y, V, b, c, W, d, s, e, me, other, time, toOther, toMe, n, g) ==
  /\ Linked(g.peer, other, time, toOther, toMe) /\ Content(Server, y, W, d, s, e, g.peer, other, toOther)
  /\ g.diff = Way(Client, y, V[n], V[Newest(me).num])
  /\ \E o : Content(Client, y, V, b, o, c, other, g.peer, toMe) /\ Delivery(y, V, o, Newest(me).num, g.last)
  /\ Newest(g.peer).num = Newest(me).num /\ g.peer.current = me.current
  /\ g.peer.shutdown_in_progress = me.shutdown_in_progress

\* What is new since the last call is the way to the newest value; the states
\* left are cut at the oldest one, and no assertion fails.
LEMMA FetchFact ==
  ASSUME NEW y \in Seq(Int), NEW V, NEW b, NEW r, NEW c, NEW W, NEW d, NEW s, NEW e, NEW me, NEW other, NEW time,
         NEW toOther, NEW toMe, Linked(me, other, time, toOther, toMe),
         Content(Client, y, V, b, r, c, other, me, toMe), Content(Server, y, W, d, s, e, me, other, toOther),
         NEW n, NEW last, Delivery(y, V, r, n, last), n <= Newest(me).num
  PROVE  Fetched(y, V, b, c, W, d, s, e, me, other, time, toOther, toMe, n, get_remote_diff(Server, me, last))
<1> DEFINE list == me.received_states
           k == Len(list)
           oldest == list[1].state
           newest == Newest(me).state
           N == Newest(me).num
           o == V[list[1].num]
           l == [i \in DOMAIN list |-> [list[i] EXCEPT !.state = subtract(Client, @, oldest)]]
           w == [me EXCEPT !.received_states = l]
           sound == /\ Extends(Client, newest, last)
                    /\ \A x \in Range(list) : Client = Client => Extends(Client, x.state, oldest)
           g == get_remote_diff(Server, me, last)
<1>1. /\ Sending(me, time) /\ Receiving(me) /\ Sending(other, time) /\ Receiving(other)
      /\ Exchange(me, other, toOther, toMe) /\ Exchange(other, me, toMe, toOther)
  BY DEF Linked
<1>2. Other(Server) = Client /\ Client \in Peers
  BY ConstantsFact DEF Other, Peers
<1>3. g = IF sound THEN [diff |-> diff_from(Client, newest, last), peer |-> w, last |-> subtract(Client, newest, oldest)]
                   ELSE [diff |-> <<>>, peer |-> [me EXCEPT !.failed = TRUE], last |-> last]
  BY <1>2 DEF get_remote_diff, subtractAll
<1>4. /\ list \in Seq(Entry) /\ k \in Nat \ {0} /\ Ordered(list) /\ Increasing(list) /\ DOMAIN me = PeerFields
      /\ DOMAIN list = 1..k /\ 1 \in 1..k /\ k \in 1..k /\ N \in Nat /\ N \in Nums(list)
  <2>1. Increasing(list) /\ DOMAIN me = PeerFields
    BY <1>1 DEF Receiving
  <2>2. list \in Seq(Entry) /\ k \in Nat \ {0} /\ Ordered(list) /\ 1 \in 1..k /\ k \in 1..k /\ N \in Nat /\ N \in Nums(list)
    BY <1>1, ReceiverFact
  <2> QED BY <2>1, <2>2
<1>5. Back(other).num \in Nat /\ N <= Back(other).num
  <2>1. Back(other).num \in Nat
    BY <1>1, SenderFact
  <2>2. N <= Back(other).num
    BY <1>1, <1>4 DEF Exchange
  <2> QED BY <2>1, <2>2
<1>6. Growing(Client, y, V, Back(other).num, c) /\ Listed(Client, y, V, r, list)
  BY DEF Content
<1>7. /\ \A i \in 1..k : /\ list[i].num \in Nat /\ list[i].num <= Back(other).num
                         /\ V[list[i].num] \in Value(Client, y) /\ Below(Client, r, V[list[i].num])
      /\ r \in Value(Client, y)
  <2>1. list[k].num <= Back(other).num
    BY <1>5 DEF Newest
  <2> HIDE DEF list
  <2> QED BY <1>2, <1>4, <1>5, <1>6, <2>1, ListedAfter DEF k
<1>8. oldest = Form(Client, y, r, o) /\ o \in Value(Client, y) /\ Below(Client, r, o)
  BY <1>4, <1>6, <1>7 DEF Listed
<1>9. ASSUME NEW i \in 1..k
      PROVE  /\ Below(Client, o, V[list[i].num])
             /\ Extends(Client, list[i].state, oldest) /\ subtract(Client, list[i].state, oldest) = Form(Client, y, o, V[list[i].num])
             /\ Form(Client, y, o, V[list[i].num]) \in Objects
  <2>1. list[1].num \in Nat /\ list[1].num <= list[i].num /\ list[i].num <= Back(other).num /\ list[i].num \in Nat
    BY <1>4, <1>7 DEF Ordered
  <2>2. Below(Client, o, V[list[i].num])
    BY <2>1, <1>6 DEF Growing
  <2>3. list[i].state = Form(Client, y, r, V[list[i].num])
    BY <1>6 DEF Listed
  <2>4. V[list[i].num] \in Value(Client, y)
    BY <1>7
  <2> HIDE DEF o, oldest
  <2> DEFINE v == V[list[i].num]
  <2> HIDE DEF v
  <2>5. /\ Extends(Client, Form(Client, y, r, v), Form(Client, y, r, o))
        /\ subtract(Client, Form(Client, y, r, v), Form(Client, y, r, o)) = Form(Client, y, o, v)
    BY <1>2, <1>7, <1>8, <2>2, <2>4, FormFact DEF v
  <2>6. Form(Client, y, o, v) \in Objects
    BY <1>2, <1>8, <2>2, <2>4, FormType DEF v
  <2> QED BY <1>8, <2>2, <2>3, <2>5, <2>6 DEF v
<1>10. newest = list[k].state /\ N = list[k].num
  BY DEF Newest
<1>11. /\ Extends(Client, newest, last) /\ diff_from(Client, newest, last) = Way(Client, y, V[n], V[N])
       /\ subtract(Client, newest, oldest) = Form(Client, y, o, V[N]) /\ Below(Client, o, V[N])
  <2>1. subtract(Client, newest, oldest) = Form(Client, y, o, V[N]) /\ Below(Client, o, V[N])
    BY <1>4, <1>9, <1>10
  <2>2. newest = Form(Client, y, r, V[N]) /\ V[N] \in Value(Client, y)
    BY <1>4, <1>6, <1>7, <1>10 DEF Listed
  <2>3. n \in Nat /\ Below(Client, r, V[n]) /\ last = Form(Client, y, r, V[n]) /\ V[n] \in Value(Client, y) /\ Below(Client, V[n], V[N])
    <3>1. n \in Nat /\ Below(Client, r, V[n]) /\ last = Form(Client, y, r, V[n])
      BY DEF Delivery
    <3>2. V[n] \in Value(Client, y) /\ Below(Client, V[n], V[N])
      BY <3>1, <1>4, <1>5, <1>6 DEF Growing
    <3> QED BY <3>1, <3>2
  <2> DEFINE v == V[n]
             x == V[N]
  <2>4. v \in Value(Client, y) /\ x \in Value(Client, y) /\ Below(Client, r, v) /\ Below(Client, v, x)
    BY <2>2, <2>3
  <2> HIDE DEF v, x, newest, oldest
  <2>5. Extends(Client, Form(Client, y, r, x), Form(Client, y, r, v))
        /\ diff_from(Client, Form(Client, y, r, x), Form(Client, y, r, v)) = Way(Client, y, v, x)
    BY <1>2, <1>7, <2>4, FormFact
  <2> QED BY <2>1, <2>2, <2>3, <2>5 DEF v, x
<1>12. sound
  <2>1. Range(list) = {list[i] : i \in 1..k}
    BY <1>4 DEF Range
  <2> HIDE DEF oldest, newest, list, k
  <2> QED BY <1>9, <1>11, <2>1
<1>13. g = [diff |-> diff_from(Client, newest, last), peer |-> w, last |-> subtract(Client, newest, oldest)]
  <2> HIDE DEF sound, w, g
  <2> QED BY <1>3, <1>12
<1> HIDE DEF sound, oldest, newest, o, g
<1>14. ASSUME NEW i \in 1..k
       PROVE  /\ l[i] \in Entry /\ l[i].num = list[i].num
              /\ l[i].state = Form(Client, y, o, V[list[i].num])
  <2>1. l[i] = [list[i] EXCEPT !.state = subtract(Client, @, oldest)]
    BY <1>4
  <2>2. subtract(Client, list[i].state, oldest) = Form(Client, y, o, V[list[i].num]) /\ Form(Client, y, o, V[list[i].num]) \in Objects
    BY <1>9
  <2>3. list[i] \in Entry
    BY <1>4
  <2> HIDE DEF l
  <2> QED BY <2>1, <2>2, <2>3 DEF Entry
<1>15. l \in Seq(Entry) /\ Len(l) = k /\ DOMAIN l = 1..k
  <2>1. l \in [1..k -> Entry]
    <3>1. \A i \in 1..k : [list[i] EXCEPT !.state = subtract(Client, @, oldest)] \in Entry
      BY <1>4, <1>14
    <3> QED BY <1>4, <3>1
  <2> HIDE DEF l, k
  <2> QED BY <1>4, <2>1
<1>16. DOMAIN w = PeerFields /\ w.received_states = l /\ \A f \in PeerFields \ {"received_states"} : w[f] = me[f]
  <2> HIDE DEF l
  <2> QED BY <1>4 DEF PeerFields
<1> HIDE DEF w, l
<1>17. /\ w.sent_states = me.sent_states /\ w.next_ack_time = me.next_ack_time /\ w.mindelay_clock = me.mindelay_clock
       /\ w.shutdown_in_progress = me.shutdown_in_progress /\ w.has_remote_addr = me.has_remote_addr /\ w.failed = me.failed
       /\ w.current = me.current /\ w.last_instruction = me.last_instruction /\ w.ack_num = me.ack_num
  BY <1>16 DEF PeerFields
<1>18. Sending(w, time)
  <2>1. me.has_remote_addr \in BOOLEAN
    BY <1>1 DEF Sending
  <2> QED BY <1>1, <1>16, <1>17, <2>1, SameSender
<1>19. Newest(w).num = N /\ Nums(w.received_states) = Nums(list)
  <2>1. Newest(w).num = N
    BY <1>4, <1>10, <1>14, <1>15, <1>16 DEF Newest
  <2>2. Nums(l) = Nums(list)
    BY <1>14, <1>15 DEF Nums
  <2> QED BY <1>16, <2>1, <2>2
<1>20. Receiving(w)
  <2>1. Increasing(l)
    BY <1>4, <1>14, <1>15 DEF Increasing
  <2>2. me.ack_num = N
    BY <1>1 DEF Receiving
  <2> QED BY <1>4, <1>15, <1>16, <1>17, <1>19, <2>1, <2>2 DEF Receiving
<1>21. Exchange(w, other, toOther, toMe)
  BY <1>1, <1>17, SameExchange
<1>22. Exchange(other, w, toMe, toOther)
  BY <1>1, <1>19 DEF Exchange
<1>23. Content(Server, y, W, d, s, e, w, other, toOther)
  BY <1>17, SameContent
<1>24. Listed(Client, y, V, o, l)
  <2>1. Below(Client, o, V[l[1].num])
    BY <1>4, <1>9, <1>14
  <2> QED BY <1>8, <1>14, <1>15, <2>1 DEF Listed
<1>25. Content(Client, y, V, b, o, c, other, w, toMe)
  BY <1>16, <1>24 DEF Content
<1>26. Delivery(y, V, o, N, Form(Client, y, o, V[N]))
  BY <1>4, <1>8, <1>11 DEF Delivery
<1>27. g.peer = w /\ g.diff = Way(Client, y, V[n], V[N]) /\ g.last = Form(Client, y, o, V[N])
  BY <1>11, <1>13
<1>28. Linked(w, other, time, toOther, toMe)
  BY <1>1, <1>18, <1>20, <1>21, <1>22 DEF Linked
<1>29. Fetched(y, V, b, c, W, d, s, e, me, other, time, toOther, toMe, n, g)
  BY <1>17, <1>19, <1>23, <1>25, <1>26, <1>27, <1>28 DEF Fetched
<1> QED BY <1>29 DEF g

(***************************************************************************)
(* The server's terminal and its late acknowledgement of input.            *)
(***************************************************************************)
Frame == [num : Nat, time : Nat]
Later(list) == \A i, j \in 1..Len(list) : i <= j => list[i].time <= list[j].time

\* The input frames are in order, known to the server and not of the future;
\* the echo acknowledgement is the first of them, once that is old enough.
Echoed(trm, n, time) ==
  /\ DOMAIN trm = {"fb", "echo_ack", "input_history"}
  /\ trm.fb \in Nat /\ trm.echo_ack \in Nat /\ trm.input_history \in Seq(Frame)
  /\ Ordered(trm.input_history) /\ Later(trm.input_history)
  /\ \A i \in 1..Len(trm.input_history) : trm.input_history[i].num <= n /\ trm.input_history[i].time <= time
  /\ \/ trm.echo_ack = 0
     \/ /\ 1 \in 1..Len(trm.input_history) /\ trm.echo_ack = trm.input_history[1].num
        /\ trm.input_history[1].time <= time - ECHO_TIMEOUT

\* What was acknowledged stays so as time passes and more comes.
LEMMA EchoedLater ==
  ASSUME NEW trm, NEW n \in Nat, NEW time \in Nat, Echoed(trm, n, time), NEW m \in Nat, n <= m, NEW later \in Nat, time <= later
  PROVE  Echoed(trm, m, later) /\ trm.echo_ack <= n
<1>1. trm.input_history \in Seq(Frame) /\ trm.echo_ack \in Nat
  BY DEF Echoed
<1>2. \A i \in 1..Len(trm.input_history) : trm.input_history[i].num \in Nat /\ trm.input_history[i].time \in Nat
  <2>1. \A i \in 1..Len(trm.input_history) : trm.input_history[i] \in Frame
    BY <1>1
  <2> QED BY <2>1 DEF Frame
<1>3. \A i \in 1..Len(trm.input_history) : trm.input_history[i].num <= m /\ trm.input_history[i].time <= later
  <2> TAKE i \in 1..Len(trm.input_history)
  <2>1. trm.input_history[i].num <= n /\ trm.input_history[i].time <= time
    BY DEF Echoed
  <2> QED BY <1>2, <2>1
<1>4. \/ trm.echo_ack = 0
      \/ /\ 1 \in 1..Len(trm.input_history) /\ trm.echo_ack = trm.input_history[1].num
         /\ trm.input_history[1].time <= later - ECHO_TIMEOUT
  <2> SUFFICES ASSUME trm.echo_ack # 0
               PROVE  /\ 1 \in 1..Len(trm.input_history) /\ trm.echo_ack = trm.input_history[1].num
                      /\ trm.input_history[1].time <= later - ECHO_TIMEOUT
    OBVIOUS
  <2>1. /\ 1 \in 1..Len(trm.input_history) /\ trm.echo_ack = trm.input_history[1].num
        /\ trm.input_history[1].time <= time - ECHO_TIMEOUT
    BY DEF Echoed
  <2> DEFINE x == trm.input_history[1].time
  <2>2. x \in Nat /\ x <= time - ECHO_TIMEOUT /\ ECHO_TIMEOUT \in Nat
    BY <1>2, <2>1, ConstantsFact
  <2> HIDE DEF x
  <2>3. x <= later - ECHO_TIMEOUT
    BY <2>2
  <2> QED BY <2>1, <2>3 DEF x
<1>5. trm.echo_ack <= n
  BY <1>1 DEF Echoed
<1> QED BY <1>3, <1>4, <1>5 DEF Echoed

\* set_echo_ack never takes an acknowledgement back.
LEMMA EchoFact ==
  ASSUME NEW trm, NEW n \in Nat, now \in Nat, Echoed(trm, n, now)
  PROVE  /\ Echoed(set_echo_ack(trm), n, now)
         /\ set_echo_ack(trm).fb = trm.fb /\ trm.echo_ack <= set_echo_ack(trm).echo_ack
<1> DEFINE list == trm.input_history
           k == Len(list)
           due == {i \in DOMAIN list : list[i].time <= now - ECHO_TIMEOUT}
           newest == IF due = {} THEN 0 ELSE list[Max(due)].num
           w == [trm EXCEPT !.echo_ack = newest, !.input_history = From(list, newest)]
<1>1. set_echo_ack(trm) = w
  BY DEF set_echo_ack
<1>2. /\ DOMAIN trm = {"fb", "echo_ack", "input_history"} /\ trm.fb \in Nat /\ trm.echo_ack \in Nat
      /\ list \in Seq(Frame) /\ k \in Nat /\ DOMAIN list = 1..k /\ Ordered(list) /\ Later(list)
      /\ \A i \in 1..k : list[i].num <= n /\ list[i].time <= now
      /\ ECHO_TIMEOUT \in Nat
  BY ConstantsFact DEF Echoed
<1>3. \A i \in 1..k : list[i].num \in Nat /\ list[i].time \in Nat /\ list[i] \in Frame
  <2>1. \A i \in 1..k : list[i] \in Frame
    BY <1>2
  <2> QED BY <2>1 DEF Frame
<1>4. trm.echo_ack = 0 \/ (1 \in 1..k /\ trm.echo_ack = list[1].num /\ list[1].time <= now - ECHO_TIMEOUT)
  BY DEF Echoed
<1>5. /\ w.echo_ack = newest /\ w.input_history = From(list, newest) /\ w.fb = trm.fb
      /\ DOMAIN w = {"fb", "echo_ack", "input_history"}
  BY <1>2
<1>6. CASE due = {}
  <2>1. newest = 0
    BY <1>6
  <2>2. trm.echo_ack = 0
    <3> SUFFICES ASSUME 1 \in 1..k, list[1].time <= now - ECHO_TIMEOUT PROVE FALSE
      BY <1>4
    <3>1. 1 \in due
      BY <1>2
    <3> QED BY <1>6, <3>1
  <2> HIDE DEF due, newest
  <2>3. From(list, 0) = list
    <3>1. {i \in DOMAIN list : list[i].num >= 0} = DOMAIN list
      BY <1>2, <1>3
    <3> HIDE DEF list
    <3> QED BY <3>1 DEF From
  <2>4. w.echo_ack = 0 /\ w.input_history = list
    BY <1>5, <2>1, <2>3
  <2> HIDE DEF w
  <2>5. Echoed(w, n, now)
    BY <1>2, <1>5, <2>4 DEF Echoed
  <2> QED BY <1>1, <1>5, <2>2, <2>4, <2>5
<1>7. CASE due # {}
  <2>1. due \subseteq 0..k /\ due \subseteq 1..k
    BY <1>2
  <2>2. Max(due) \in due
    <3> HIDE DEF due
    <3> QED BY <1>2, <1>7, <2>1, MaxFact
  <2>3. PICK m \in 1..k : m = Max(due) /\ list[m].time <= now - ECHO_TIMEOUT
    BY <1>2, <2>2
  <2>4. newest = list[m].num
    BY <1>7, <2>3
  <2> HIDE DEF due, newest
  <2>5. newest \in Nat /\ newest <= n
    BY <1>2, <1>3, <2>4
  <2>6. PICK a \in 1..(k + 1) : /\ From(list, newest) = SubSeq(list, a, k)
                                /\ \A i \in 1..k : list[i].num >= newest <=> i >= a
    <3>1. \A x \in Frame : x.num \in Nat
      BY DEF Frame
    <3> HIDE DEF list, k
    <3> QED BY <1>2, <2>5, <3>1, FromFact DEF k
  <2>7. a <= m /\ a \in 1..k
    <3>1. list[m].num >= newest
      BY <2>4, <2>5
    <3>2. m >= a
      BY <2>6, <3>1
    <3> QED BY <1>2, <2>6, <3>2
  <2>8. list[a].num = newest /\ list[a].time <= now - ECHO_TIMEOUT
    <3>1. list[a].num <= list[m].num /\ list[a].time <= list[m].time
      BY <1>2, <2>7 DEF Ordered, Later
    <3>2. list[a].num >= newest
      BY <2>6, <2>7
    <3>3. list[a].num = newest
      BY <1>3, <2>4, <2>7, <3>1, <3>2
    <3> DEFINE x == list[a].time
               z == list[m].time
    <3>4. x \in Nat /\ z \in Nat /\ x <= z /\ z <= now - ECHO_TIMEOUT
      BY <1>3, <2>3, <2>7, <3>1
    <3> HIDE DEF x, z
    <3>5. x <= now - ECHO_TIMEOUT
      BY <1>2, <3>4
    <3> QED BY <3>3, <3>5 DEF x
  <2> DEFINE l == SubSeq(list, a, k)
  <2>9. l \in Seq(Frame) /\ Len(l) = k - a + 1 /\ \A i \in 1..(k - a + 1) : l[i] = list[a + i - 1]
    <3> HIDE DEF list, k
    <3>1. a \in 1..(Len(list) + 1) /\ k = Len(list)
      BY <2>6 DEF k
    <3> QED BY <1>2, <3>1, EndOf
  <2> HIDE DEF l
  <2>10. \A i \in 1..Len(l) : a + i - 1 \in 1..k /\ l[i] = list[a + i - 1]
    BY <1>2, <2>7, <2>9
  <2>11. 1 \in 1..Len(l) /\ l[1] = list[a]
    <3>1. 1 \in 1..Len(l) /\ a + 1 - 1 = a
      BY <1>2, <2>7, <2>9
    <3> QED BY <2>10, <3>1
  <2>12. Ordered(l) /\ Later(l)
    <3> SUFFICES ASSUME NEW i \in 1..Len(l), NEW j \in 1..Len(l), i <= j
                 PROVE  l[i].num <= l[j].num /\ l[i].time <= l[j].time
      BY DEF Ordered, Later
    <3>1. a + i - 1 \in 1..k /\ a + j - 1 \in 1..k /\ a + i - 1 <= a + j - 1
      BY <1>2, <2>10
    <3> QED BY <1>2, <2>10, <3>1 DEF Ordered, Later
  <2>13. \A i \in 1..Len(l) : l[i].num <= n /\ l[i].time <= now
    BY <1>2, <2>10
  <2>14. w.input_history = l /\ w.echo_ack = newest
    BY <1>5, <2>6 DEF l
  <2> HIDE DEF w
  <2>15. Echoed(w, n, now)
    BY <1>2, <1>5, <2>5, <2>8, <2>9, <2>11, <2>12, <2>13, <2>14 DEF Echoed
  <2>16. trm.echo_ack <= newest
    <3>1. CASE trm.echo_ack = 0
      BY <2>5, <3>1
    <3>2. CASE trm.echo_ack # 0
      <4>1. 1 \in 1..k /\ trm.echo_ack = list[1].num /\ 1 <= m
        BY <1>4, <3>2
      <4>2. list[1].num <= list[m].num
        BY <1>2, <4>1 DEF Ordered
      <4> QED BY <2>4, <4>1, <4>2
    <3> QED BY <3>1, <3>2
  <2> QED BY <1>1, <1>5, <2>14, <2>15, <2>16
<1> QED BY <1>6, <1>7

\* register_input_frame.
LEMMA RegisterFact ==
  ASSUME NEW trm, NEW n \in Nat, now \in Nat, Echoed(trm, n, now), NEW m \in Nat, n <= m
  PROVE  /\ Echoed(register_input_frame(trm, m), m, now)
         /\ register_input_frame(trm, m).fb = trm.fb /\ register_input_frame(trm, m).echo_ack = trm.echo_ack
<1> DEFINE list == trm.input_history
           k == Len(list)
           f == [num |-> m, time |-> now]
           l == Append(list, f)
           w == register_input_frame(trm, m)
<1>1. w = [trm EXCEPT !.input_history = l]
  BY DEF register_input_frame
<1>2. /\ DOMAIN trm = {"fb", "echo_ack", "input_history"} /\ trm.fb \in Nat /\ trm.echo_ack \in Nat
      /\ list \in Seq(Frame) /\ k \in Nat /\ Ordered(list) /\ Later(list)
      /\ \A i \in 1..k : list[i].num <= n /\ list[i].time <= now
  BY DEF Echoed
<1>3. \A i \in 1..k : list[i].num \in Nat /\ list[i].time \in Nat /\ list[i].num <= m /\ list[i].time <= now
  <2>1. \A i \in 1..k : list[i] \in Frame
    BY <1>2
  <2> QED BY <1>2, <2>1 DEF Frame
<1>4. f \in Frame /\ f.num = m /\ f.time = now
  BY DEF Frame
<1> HIDE DEF f
<1>5. l \in Seq(Frame) /\ Len(l) = k + 1 /\ l[k + 1] = f /\ \A i \in 1..k : l[i] = list[i]
  BY <1>2, <1>4
<1> HIDE DEF l
<1>6. ASSUME NEW i \in 1..(k + 1) PROVE i = k + 1 \/ i \in 1..k
  BY <1>2
<1>7. \A i \in 1..(k + 1) : l[i].num \in Nat /\ l[i].time \in Nat /\ l[i].num <= m /\ l[i].time <= now
  BY <1>3, <1>4, <1>5, <1>6
<1>8. ASSUME NEW i \in 1..(k + 1), NEW j \in 1..(k + 1), i <= j
      PROVE  l[i].num <= l[j].num /\ l[i].time <= l[j].time
  <2>1. CASE j = k + 1
    BY <1>4, <1>5, <1>7, <2>1
  <2>2. CASE j # k + 1
    <3>1. i \in 1..k /\ j \in 1..k
      BY <1>2, <1>8, <2>2
    <3> QED BY <1>2, <1>5, <1>8, <3>1 DEF Ordered, Later
  <2> QED BY <2>1, <2>2
<1>9. Ordered(l) /\ Later(l)
  BY <1>5, <1>8 DEF Ordered, Later
<1>10. /\ w.input_history = l /\ w.fb = trm.fb /\ w.echo_ack = trm.echo_ack /\ DOMAIN w = {"fb", "echo_ack", "input_history"}
  BY <1>1, <1>2
<1> HIDE DEF w
<1>11. trm.echo_ack = 0 \/ (1 \in 1..Len(l) /\ trm.echo_ack = l[1].num /\ l[1].time <= now - ECHO_TIMEOUT)
  <2>1. trm.echo_ack = 0 \/ (1 \in 1..k /\ trm.echo_ack = list[1].num /\ list[1].time <= now - ECHO_TIMEOUT)
    BY DEF Echoed
  <2>2. 1 \in 1..k => 1 \in 1..Len(l) /\ l[1] = list[1]
    BY <1>2, <1>5
  <2> QED BY <2>1, <2>2
<1>12. Echoed(w, m, now)
  BY <1>2, <1>5, <1>7, <1>9, <1>10, <1>11 DEF Echoed
<1> QED BY <1>10, <1>12 DEF w

\* The screen of the terminal.
LEMMA ScreenFact ==
  ASSUME NEW trm, NEW n, NEW time, Echoed(trm, n, time)
  PROVE  screen(trm) \in Screen /\ screen(trm).fb = trm.fb /\ screen(trm).echo_ack = trm.echo_ack
BY DEF Echoed, screen, Screen

(***************************************************************************)
(* The session: C the client and S the server at a moment, y what was      *)
(* typed, dl what was delivered, n and last the number and the state that  *)
(* the server's loop took in last, trm its terminal.                       *)
(***************************************************************************)
Upstream(y, dl, C, S, toS, n, last) ==
  \E V, b, r : /\ Content(Client, y, V, b, r, Len(y), C, S, toS)
               /\ Delivery(y, V, r, n, last) /\ dl = Cut(y, 0, V[n])

Downstream(y, C, S, toC) == \E W, d, s : Content(Server, y, W, d, s, S.current, S, C, toC)

Session(y, dl, C, S, time, toS, toC, trm, n, last) ==
  /\ Linked(S, C, time, toC, toS)
  /\ Upstream(y, dl, C, S, toS, n, last) /\ Downstream(y, C, S, toC)
  /\ n \in Nat /\ n <= Newest(S).num
  /\ Echoed(trm, n, time)
  /\ S.current \in Screen /\ Below(Server, S.current, screen(trm))

\* The two sides.
LEMMA PeersFact == Client \in Peers /\ Server \in Peers /\ Client # Server /\ Other(Client) = Server /\ Other(Server) = Client
BY ConstantsFact DEF Peers, Other

\* The two directions, seen from either side.
LEMMA LinkedBoth ==
  ASSUME NEW C, NEW S, NEW time, NEW toS, NEW toC
  PROVE  Linked(S, C, time, toC, toS) <=> Linked(C, S, time, toS, toC)
BY DEF Linked

\* A server that shuts down, or whose other fields change.
LEMMA ServerChanged ==
  ASSUME NEW y \in Seq(Int), NEW dl, NEW C, NEW S, NEW time, NEW toS, NEW toC, NEW trm, NEW n, NEW last,
         Session(y, dl, C, S, time, toS, toC, trm, n, last), NEW w, Changed(S, w) \/ Kept(S, w), w.current = S.current
  PROVE  Session(y, dl, C, w, time, toS, toC, trm, n, last) /\ Newest(w) = Newest(S)
<1>1. Linked(S, C, time, toC, toS) /\ Upstream(y, dl, C, S, toS, n, last) /\ Downstream(y, C, S, toC)
  BY DEF Session
<1>2. /\ Linked(w, C, time, toC, toS) /\ Newest(w) = Newest(S)
      /\ \A p, z, V, b, r, c : Content(p, z, V, b, r, c, C, S, toS) => Content(p, z, V, b, r, c, C, w, toS)
      /\ \A p, z, V, b, r, c : Content(p, z, V, b, r, c, S, C, toC) => Content(p, z, V, b, r, c, w, C, toC)
  <2>1. CASE Changed(S, w)
    BY <1>1, <2>1, ChangedFact
  <2>2. CASE Kept(S, w)
    BY <1>1, <2>2, KeptFact
  <2> QED BY <2>1, <2>2
<1>3. Upstream(y, dl, C, w, toS, n, last)
  BY <1>1, <1>2 DEF Upstream
<1>4. Downstream(y, C, w, toC)
  BY <1>1, <1>2 DEF Downstream
<1> QED BY <1>2, <1>3, <1>4 DEF Session

\* start_shutdown of the server.
LEMMA ServerShutdown ==
  ASSUME NEW y \in Seq(Int), NEW dl, NEW C, NEW S, NEW time, NEW toS, NEW toC, NEW trm, NEW n, NEW last,
         Session(y, dl, C, S, time, toS, toC, trm, n, last), NEW when
  PROVE  /\ Session(y, dl, C, start_shutdown(S, when), time, toS, toC, trm, n, last)
         /\ Newest(start_shutdown(S, when)) = Newest(S)
<1>1. Sending(S, time)
  BY DEF Session, Linked
<1>2. Changed(S, start_shutdown(S, when)) /\ start_shutdown(S, when).current = S.current
  BY <1>1, ShutdownFact
<1> QED BY <1>2, ServerChanged

\* The terminal goes on.
LEMMA ServerTerminal ==
  ASSUME NEW y \in Seq(Int), NEW dl, NEW C, NEW S, NEW time, NEW toS, NEW toC, NEW trm, NEW n, NEW last,
         Session(y, dl, C, S, time, toS, toC, trm, n, last),
         NEW next, Echoed(next, n, time), trm.fb <= next.fb, trm.echo_ack <= next.echo_ack
  PROVE  Session(y, dl, C, S, time, toS, toC, next, n, last)
<1>1. Echoed(trm, n, time) /\ S.current \in Screen /\ Below(Server, S.current, screen(trm))
  BY DEF Session
<1>2. /\ screen(trm) \in Screen /\ screen(trm).fb = trm.fb /\ screen(trm).echo_ack = trm.echo_ack
      /\ screen(next) \in Screen /\ screen(next).fb = next.fb /\ screen(next).echo_ack = next.echo_ack
  BY <1>1, ScreenFact
<1>3. Below(Server, S.current, screen(next))
  <2>1. /\ S.current.fb \in Nat /\ S.current.echo_ack \in Nat /\ trm.fb \in Nat /\ trm.echo_ack \in Nat
        /\ next.fb \in Nat /\ next.echo_ack \in Nat
    BY <1>1, <1>2 DEF Screen
  <2>2. S.current.fb <= trm.fb /\ S.current.echo_ack <= trm.echo_ack
    BY <1>1, <1>2, ConstantsFact DEF Below
  <2>3. S.current.fb <= next.fb /\ S.current.echo_ack <= next.echo_ack
    BY <2>1, <2>2
  <2> QED BY <1>2, <2>3, ConstantsFact DEF Below
<1> QED BY <1>3 DEF Session

\* set_current_state.
LEMMA ServerCurrent ==
  ASSUME NEW y \in Seq(Int), NEW dl, NEW C, NEW S, NEW time, NEW toS, NEW toC, NEW trm, NEW n, NEW last,
         Session(y, dl, C, S, time, toS, toC, trm, n, last)
  PROVE  /\ Session(y, dl, C, set_current_state(S, trm), time, toS, toC, trm, n, last)
         /\ Newest(set_current_state(S, trm)) = Newest(S)
<1> DEFINE w == set_current_state(S, trm)
<1>1. /\ Linked(S, C, time, toC, toS) /\ Upstream(y, dl, C, S, toS, n, last) /\ Downstream(y, C, S, toC)
      /\ Echoed(trm, n, time) /\ S.current \in Screen /\ Below(Server, S.current, screen(trm))
  BY DEF Session
<1>2. Sending(S, time) /\ DOMAIN S = PeerFields /\ S.shutdown_in_progress \in BOOLEAN
  BY <1>1 DEF Linked, Sending
<1>3. CASE S.shutdown_in_progress
  BY <1>3 DEF set_current_state
<1>4. CASE ~S.shutdown_in_progress
  <2>1. w = [S EXCEPT !.current = screen(trm)]
    BY <1>4 DEF set_current_state
  <2>2. w.current = screen(trm) /\ DOMAIN w = PeerFields /\ \A f \in PeerFields \ {"current"} : w[f] = S[f]
    BY <1>2, <2>1 DEF PeerFields
  <2> HIDE DEF w
  <2>3. /\ w.sent_states = S.sent_states /\ w.last_instruction = S.last_instruction
        /\ Changed(S, w)
    BY <1>2, <2>2 DEF Changed, PeerFields
  <2>4. /\ Linked(w, C, time, toC, toS) /\ Newest(w) = Newest(S)
        /\ \A p, z, V, b, r, c : Content(p, z, V, b, r, c, C, S, toS) => Content(p, z, V, b, r, c, C, w, toS)
    BY <1>1, <2>3, ChangedFact
  <2>5. Upstream(y, dl, C, w, toS, n, last)
    BY <1>1, <2>4 DEF Upstream
  <2>6. screen(trm) \in Screen /\ screen(trm) \in Value(Server, y)
    BY <1>1, ScreenFact, ConstantsFact DEF Value
  <2>7. Downstream(y, C, w, toC)
    <3>1. PICK W, d, s : Content(Server, y, W, d, s, S.current, S, C, toC)
      BY <1>1 DEF Downstream
    <3>2. w.current = Form(Server, y, d, screen(trm))
      BY <2>2, ConstantsFact DEF Form
    <3>3. Content(Server, y, W, d, s, screen(trm), w, C, toC)
      BY <1>1, <1>2, <1>4, <2>3, <2>6, <3>1, <3>2, PeersFact, CurrentFact
    <3> QED BY <2>2, <3>3 DEF Downstream
  <2>8. Below(Server, w.current, screen(trm))
    BY <2>2, <2>6, PeersFact, BelowFact
  <2>9. Session(y, dl, C, w, time, toS, toC, trm, n, last)
    BY <2>2, <2>4, <2>5, <2>6, <2>7, <2>8 DEF Session
  <2> QED BY <2>4, <2>9 DEF w
<1> QED BY <1>2, <1>3, <1>4

\* A datagram for the server.
LEMMA ServerReceives ==
  ASSUME NEW y \in Seq(Int), NEW dl, NEW C, NEW S, NEW time \in Nat, NEW toS, NEW toC, NEW trm, NEW n, NEW last,
         Session(y, dl, C, S, time, toS, toC, trm, n, last), NEW inst \in toS, NEW old \in BOOLEAN
  PROVE  Session(y, dl, C, recv(Server, S, inst, time, old), time, toS, toC, trm, n, last)
<1> DEFINE w == recv(Server, S, inst, time, old)
<1>1. /\ Linked(S, C, time, toC, toS) /\ Upstream(y, dl, C, S, toS, n, last) /\ Downstream(y, C, S, toC)
      /\ n \in Nat /\ n <= Newest(S).num
  BY DEF Session
<1>2. PICK V, b, r : /\ Content(Client, y, V, b, r, Len(y), C, S, toS)
                     /\ Delivery(y, V, r, n, last) /\ dl = Cut(y, 0, V[n])
  BY <1>1 DEF Upstream
<1>3. PICK W, d, s : Content(Server, y, W, d, s, S.current, S, C, toC)
  BY <1>1 DEF Downstream
<1>4. /\ Linked(w, C, time, toC, toS) /\ RecvKept(S, w)
      /\ Content(Server, y, W, d, s, S.current, w, C, toC) /\ Content(Client, y, V, b, r, Len(y), C, w, toS)
  BY <1>1, <1>2, <1>3, PeersFact, RecvFact
<1> HIDE DEF w
<1>5. w.current = S.current /\ Newest(S).num <= Newest(w).num
  BY <1>4 DEF RecvKept
<1>6. n <= Newest(w).num
  <2>1. Newest(S).num \in Nat /\ Newest(w).num \in Nat
    BY <1>1, <1>4, ReceiverFact DEF Linked
  <2> QED BY <1>1, <1>5, <2>1
<1>7. Upstream(y, dl, C, w, toS, n, last)
  BY <1>2, <1>4 DEF Upstream
<1>8. Downstream(y, C, w, toC)
  BY <1>4, <1>5 DEF Downstream
<1>9. Session(y, dl, C, w, time, toS, toC, trm, n, last)
  BY <1>4, <1>5, <1>6, <1>7, <1>8 DEF Session
<1> QED BY <1>9 DEF w

\* The server's loop takes in the newest state: what it delivers goes on where
\* it ended.
Fetching(y, dl, C, S, time, toS, toC, trm, g) ==
  /\ Session(y, dl \o g.diff, C, g.peer, time, toS, toC, trm, Newest(S).num, g.last)
  /\ Newest(g.peer).num = Newest(S).num /\ g.diff \in Seq(Int)
  /\ \E k \in Len(dl)..Len(y) : dl \o g.diff = SubSeq(y, 1, k)

\* The server takes in the newest state and the typed events reach its child.
LEMMA ServerFetches ==
  ASSUME NEW y \in Seq(Int), NEW dl, NEW C, NEW S, NEW time \in Nat, NEW toS, NEW toC, NEW trm, NEW n, NEW last,
         Session(y, dl, C, S, time, toS, toC, trm, n, last)
  PROVE  Fetching(y, dl, C, S, time, toS, toC, trm, get_remote_diff(Server, S, last))
<1> DEFINE g == get_remote_diff(Server, S, last)
           N == Newest(S).num
<1>1. /\ Linked(S, C, time, toC, toS) /\ Upstream(y, dl, C, S, toS, n, last) /\ Downstream(y, C, S, toC)
      /\ n \in Nat /\ n <= N /\ Echoed(trm, n, time) /\ S.current \in Screen /\ Below(Server, S.current, screen(trm))
  BY DEF Session
<1>2. PICK V, b, r : /\ Content(Client, y, V, b, r, Len(y), C, S, toS)
                     /\ Delivery(y, V, r, n, last) /\ dl = Cut(y, 0, V[n])
  BY <1>1 DEF Upstream
<1>3. PICK W, d, s : Content(Server, y, W, d, s, S.current, S, C, toC)
  BY <1>1 DEF Downstream
<1>4. Fetched(y, V, b, Len(y), W, d, s, S.current, S, C, time, toC, toS, n, g)
  BY <1>1, <1>2, <1>3, FetchFact
<1> HIDE DEF g
<1>5. /\ Linked(g.peer, C, time, toC, toS) /\ Content(Server, y, W, d, s, S.current, g.peer, C, toC)
      /\ g.diff = Way(Client, y, V[n], V[N])
      /\ Newest(g.peer).num = N /\ g.peer.current = S.current
  BY <1>4 DEF Fetched
<1>6. PICK o : Content(Client, y, V, b, o, Len(y), C, g.peer, toS) /\ Delivery(y, V, o, N, g.last)
  BY <1>4 DEF Fetched
<1>7. N \in Nat
  BY <1>6 DEF Delivery
<1>8. V[n] \in 0..Len(y) /\ V[N] \in 0..Len(y) /\ V[n] <= V[N]
  <2>1. Growing(Client, y, V, Back(C).num, Len(y))
    BY <1>2 DEF Content
  <2>2. Back(C).num \in Nat /\ N <= Back(C).num
    <3>1. Sending(C, time) /\ Exchange(C, S, toS, toC) /\ Receiving(S)
      BY <1>1 DEF Linked
    <3>2. Back(C).num \in Nat /\ N \in Nums(S.received_states)
      BY <3>1, SenderFact, ReceiverFact
    <3> QED BY <3>1, <3>2 DEF Exchange
  <2> QED BY <1>1, <1>7, <2>1, <2>2 DEF Growing, Value, Below
<1> DEFINE v == V[n]
           x == V[N]
<1>9. v \in Nat /\ x \in Nat /\ v <= x /\ x <= Len(y) /\ g.diff = Cut(y, v, x) /\ dl = Cut(y, 0, v) /\ v <= Len(y)
  BY <1>2, <1>5, <1>8 DEF Way
<1> HIDE DEF v, x
<1>10. g.diff \in Seq(Int) /\ dl \o g.diff = Cut(y, 0, x) /\ Len(dl) = v
  <2>1. Cut(y, 0, v) \o Cut(y, v, x) = Cut(y, 0, x)
    <3>1. 0 <= v /\ 0 \in Nat
      BY <1>9
    <3> QED BY <1>9, <3>1, CutCut
  <2>2. Cut(y, v, x) \in Seq(Int)
    BY <1>9, CutFact
  <2>3. Len(Cut(y, 0, v)) = v
    <3>1. 0 <= v /\ 0 \in Nat
      BY <1>9
    <3>2. Len(Cut(y, 0, v)) = v - 0
      BY <1>9, <3>1, CutFact
    <3> QED BY <1>9, <3>2
  <2> QED BY <1>9, <2>1, <2>2, <2>3
<1>11. Upstream(y, dl \o g.diff, C, g.peer, toS, N, g.last)
  BY <1>6, <1>10 DEF Upstream, x
<1>12. Downstream(y, C, g.peer, toC)
  BY <1>5 DEF Downstream
<1>13. Echoed(trm, N, time)
  <2> HIDE DEF N
  <2>1. time <= time
    OBVIOUS
  <2> QED BY <1>1, <1>7, <2>1, EchoedLater
<1>14. Session(y, dl \o g.diff, C, g.peer, time, toS, toC, trm, N, g.last)
  BY <1>1, <1>5, <1>7, <1>11, <1>12, <1>13 DEF Session
<1>15. \E k \in Len(dl)..Len(y) : dl \o g.diff = SubSeq(y, 1, k)
  <2>1. x \in Len(dl)..Len(y)
    BY <1>9, <1>10
  <2>2. dl \o g.diff = SubSeq(y, 1, x)
    BY <1>10 DEF Cut
  <2> QED BY <2>1, <2>2
<1> QED BY <1>5, <1>10, <1>14, <1>15 DEF g, Fetching

\* The server's tick.
ServerTicked(y, dl, C, S, time, toS, toC, trm, n, last, k) ==
  Session(y, dl, C, k.peer, time, toS, toC \cup k.sent, trm, n, last) /\ Newest(k.peer) = Newest(S)

\* The turn of the server ends with a tick.
LEMMA ServerTicks ==
  ASSUME NEW y \in Seq(Int), NEW dl, NEW C, NEW S, NEW time \in Nat, NEW toS, NEW toC, NEW trm, NEW n, NEW last,
         Session(y, dl, C, S, time, toS, toC, trm, n, last), time <= MaxTime, ECHO_TIMEOUT <= time, NEW prophylactic \in BOOLEAN
  PROVE  ServerTicked(y, dl, C, S, time, toS, toC, trm, n, last, tick(Server, S, time, prophylactic))
<1> DEFINE k == tick(Server, S, time, prophylactic)
           w == k.peer
<1>1. /\ Linked(S, C, time, toC, toS) /\ Upstream(y, dl, C, S, toS, n, last) /\ Downstream(y, C, S, toC)
      /\ n \in Nat /\ n <= Newest(S).num
  BY DEF Session
<1>2. PICK V, b, r : /\ Content(Client, y, V, b, r, Len(y), C, S, toS)
                     /\ Delivery(y, V, r, n, last) /\ dl = Cut(y, 0, V[n])
  BY <1>1 DEF Upstream
<1>3. PICK W, d, s : Content(Server, y, W, d, s, S.current, S, C, toC)
  BY <1>1 DEF Downstream
<1>4. Ticked(Server, Client, y, W, s, S.current, V, b, r, Len(y), S, C, time, toC, toS, k)
  BY <1>1, <1>2, <1>3, PeersFact, TickFact
<1> HIDE DEF k
<1>5. /\ Linked(w, C, time, toC \cup k.sent, toS) /\ Content(Client, y, V, b, r, Len(y), C, w, toS)
      /\ w.received_states = S.received_states
  BY <1>4 DEF Ticked
<1>6. PICK X, x : Content(Server, y, X, x, s, S.current, w, C, toC \cup k.sent)
  BY <1>4 DEF Ticked
<1>7. Newest(w) = Newest(S)
  BY <1>5 DEF Newest
<1>8. w.current = S.current
  BY <1>6, ConstantsFact DEF Content, Form
<1>9. Upstream(y, dl, C, w, toS, n, last)
  BY <1>2, <1>5 DEF Upstream
<1>10. Downstream(y, C, w, toC \cup k.sent)
  BY <1>6, <1>8 DEF Downstream
<1>11. Session(y, dl, C, w, time, toS, toC \cup k.sent, trm, n, last)
  BY <1>5, <1>7, <1>8, <1>9, <1>10 DEF Session
<1> QED BY <1>7, <1>11 DEF k, ServerTicked

\* A client that shuts down.
LEMMA ClientShutdown ==
  ASSUME NEW y \in Seq(Int), NEW dl, NEW C, NEW S, NEW time, NEW toS, NEW toC, NEW trm, NEW n, NEW last,
         Session(y, dl, C, S, time, toS, toC, trm, n, last), NEW when
  PROVE  /\ Session(y, dl, start_shutdown(C, when), S, time, toS, toC, trm, n, last)
         /\ Newest(start_shutdown(C, when)) = Newest(C)
<1> DEFINE w == start_shutdown(C, when)
<1>1. Linked(C, S, time, toS, toC) /\ Upstream(y, dl, C, S, toS, n, last) /\ Downstream(y, C, S, toC)
  BY LinkedBoth DEF Session
<1>2. Changed(C, w) /\ w.current = C.current
  BY <1>1, ShutdownFact DEF Linked
<1> HIDE DEF w
<1>3. /\ Linked(w, S, time, toS, toC) /\ Newest(w) = Newest(C)
      /\ \A p, z, V, b, r, c : Content(p, z, V, b, r, c, S, C, toC) => Content(p, z, V, b, r, c, S, w, toC)
      /\ \A p, z, V, b, r, c : Content(p, z, V, b, r, c, C, S, toS) => Content(p, z, V, b, r, c, w, S, toS)
  BY <1>1, <1>2, ChangedFact
<1>4. Upstream(y, dl, w, S, toS, n, last)
  BY <1>1, <1>3 DEF Upstream
<1>5. Downstream(y, w, S, toC)
  BY <1>1, <1>3 DEF Downstream
<1>6. Session(y, dl, w, S, time, toS, toC, trm, n, last)
  BY <1>3, <1>4, <1>5, LinkedBoth DEF Session
<1> QED BY <1>3, <1>6 DEF w

\* A datagram for the client: the screen it shows is not older afterwards.
ClientHeard(y, dl, C, S, time, toS, toC, trm, n, last, w) ==
  /\ Session(y, dl, w, S, time, toS, toC, trm, n, last)
  /\ Newest(C).state.fb <= Newest(w).state.fb /\ w.shutdown_in_progress = C.shutdown_in_progress

\* The client receives an instruction: the screen it shows never gets older.
LEMMA ClientReceives ==
  ASSUME NEW y \in Seq(Int), NEW dl, NEW C, NEW S, NEW time \in Nat, NEW toS, NEW toC, NEW trm, NEW n, NEW last,
         Session(y, dl, C, S, time, toS, toC, trm, n, last), NEW inst \in toC
  PROVE  ClientHeard(y, dl, C, S, time, toS, toC, trm, n, last, recv(Client, C, inst, time, FALSE))
<1> DEFINE w == recv(Client, C, inst, time, FALSE)
<1>1. Linked(C, S, time, toS, toC) /\ Upstream(y, dl, C, S, toS, n, last) /\ Downstream(y, C, S, toC)
  BY LinkedBoth DEF Session
<1>2. PICK V, b, r : /\ Content(Client, y, V, b, r, Len(y), C, S, toS)
                     /\ Delivery(y, V, r, n, last) /\ dl = Cut(y, 0, V[n])
  BY <1>1 DEF Upstream
<1>3. PICK W, d, s : Content(Server, y, W, d, s, S.current, S, C, toC)
  BY <1>1 DEF Downstream
<1>4. /\ Linked(w, S, time, toS, toC) /\ RecvKept(C, w)
      /\ Content(Client, y, V, b, r, Len(y), w, S, toS) /\ Content(Server, y, W, d, s, S.current, S, w, toC)
  BY <1>1, <1>2, <1>3, PeersFact, RecvFact
<1> HIDE DEF w
<1>5. Upstream(y, dl, w, S, toS, n, last)
  BY <1>2, <1>4 DEF Upstream
<1>6. Downstream(y, w, S, toC)
  BY <1>4 DEF Downstream
<1>7. Session(y, dl, w, S, time, toS, toC, trm, n, last)
  BY <1>4, <1>5, <1>6, LinkedBoth DEF Session
<1>8. Newest(C).num \in Nat /\ Newest(w).num \in Nat /\ Newest(C).num <= Newest(w).num /\ Newest(w).num <= Back(S).num
  <2>1. Newest(C).num \in Nat /\ Newest(w).num \in Nat /\ Newest(w).num \in Nums(w.received_states)
    BY <1>1, <1>4, ReceiverFact DEF Linked
  <2>2. Newest(w).num <= Back(S).num
    BY <1>4, <2>1 DEF Linked, Exchange
  <2> QED BY <1>4, <2>1, <2>2 DEF RecvKept
<1>9. Below(Server, W[Newest(C).num], W[Newest(w).num])
  BY <1>3, <1>8 DEF Content, Growing
<1>10. Newest(C).state = W[Newest(C).num] /\ Newest(w).state = W[Newest(w).num]
  <2>1. Len(C.received_states) \in 1..Len(C.received_states) /\ Len(w.received_states) \in 1..Len(w.received_states)
    BY <1>1, <1>4, ReceiverFact DEF Linked
  <2> QED BY <1>3, <1>4, <2>1, ConstantsFact DEF Content, Listed, Form, Newest
<1>11. Newest(C).state.fb <= Newest(w).state.fb
  BY <1>9, <1>10, ConstantsFact DEF Below
<1> QED BY <1>4, <1>7, <1>11 DEF w, RecvKept, ClientHeard

\* The user types.
LEMMA ClientTypes ==
  ASSUME NEW y \in Seq(Int), NEW dl, NEW C, NEW S, NEW time, NEW toS, NEW toC, NEW trm, NEW n, NEW last,
         Session(y, dl, C, S, time, toS, toC, trm, n, last), ~C.shutdown_in_progress, NEW ev \in Int
  PROVE  LET w == [C EXCEPT !.current = Append(@, ev)] IN
         Session(Append(y, ev), dl, w, S, time, toS, toC, trm, n, last) /\ Newest(w) = Newest(C)
<1> DEFINE w == [C EXCEPT !.current = Append(@, ev)]
           z == Append(y, ev)
<1>1. /\ Linked(C, S, time, toS, toC) /\ Upstream(y, dl, C, S, toS, n, last) /\ Downstream(y, C, S, toC)
      /\ n \in Nat /\ n <= Newest(S).num
  BY LinkedBoth DEF Session
<1>2. PICK V, b, r : /\ Content(Client, y, V, b, r, Len(y), C, S, toS)
                     /\ Delivery(y, V, r, n, last) /\ dl = Cut(y, 0, V[n])
  BY <1>1 DEF Upstream
<1>3. PICK W, d, s : Content(Server, y, W, d, s, S.current, S, C, toC)
  BY <1>1 DEF Downstream
<1>4. Changed(C, w) /\ Content(Client, z, V, b, r, Len(y) + 1, w, S, toS)
  BY <1>1, <1>2, TypeFact
<1>5. Content(Server, z, W, d, s, S.current, S, C, toC)
  BY <1>1, <1>3, PeersFact, ContentMore DEF Linked
<1> HIDE DEF w
<1>6. /\ Linked(w, S, time, toS, toC) /\ Newest(w) = Newest(C)
      /\ Content(Server, z, W, d, s, S.current, S, w, toC)
  BY <1>1, <1>4, <1>5, ChangedFact
<1>7. Len(z) = Len(y) + 1 /\ z \in Seq(Int)
  OBVIOUS
<1>8. Delivery(z, V, r, n, last) /\ dl = Cut(z, 0, V[n])
  <2>1. n \in Nat /\ r \in Value(Client, y) /\ Below(Client, r, V[n]) /\ last = Form(Client, y, r, V[n]) /\ dl = Cut(y, 0, V[n])
    BY <1>2 DEF Delivery
  <2>2. V[n] \in Value(Client, y)
    BY <1>2, <2>1 DEF Content, Growing
  <2>3. /\ \A v \in Value(Client, y) : v \in Value(Client, z)
        /\ \A v, x \in Value(Client, y) : Form(Client, z, v, x) = Form(Client, y, v, x)
    BY PeersFact, TypedMore
  <2>4. 0 \in Value(Client, y)
    BY DEF Value
  <2>5. Form(Client, z, 0, V[n]) = Cut(z, 0, V[n]) /\ Form(Client, y, 0, V[n]) = Cut(y, 0, V[n])
    BY DEF Form
  <2> HIDE DEF z
  <2> QED BY <2>1, <2>2, <2>3, <2>4, <2>5 DEF Delivery
<1> HIDE DEF z
<1>9. Upstream(z, dl, w, S, toS, n, last)
  BY <1>4, <1>7, <1>8 DEF Upstream
<1>10. Downstream(z, w, S, toC)
  BY <1>6 DEF Downstream
<1>11. Session(z, dl, w, S, time, toS, toC, trm, n, last)
  BY <1>6, <1>9, <1>10, LinkedBoth DEF Session
<1> QED BY <1>6, <1>11 DEF w, z

\* The client's tick.
ClientTicked(y, dl, C, S, time, toS, toC, trm, n, last, k) ==
  Session(y, dl, k.peer, S, time, toS \cup k.sent, toC, trm, n, last) /\ Newest(k.peer) = Newest(C)

\* The turn of the client ends with a tick.
LEMMA ClientTicks ==
  ASSUME NEW y \in Seq(Int), NEW dl, NEW C, NEW S, NEW time \in Nat, NEW toS, NEW toC, NEW trm, NEW n, NEW last,
         Session(y, dl, C, S, time, toS, toC, trm, n, last), time <= MaxTime, ECHO_TIMEOUT <= time, NEW prophylactic \in BOOLEAN
  PROVE  ClientTicked(y, dl, C, S, time, toS, toC, trm, n, last, tick(Client, C, time, prophylactic))
<1> DEFINE k == tick(Client, C, time, prophylactic)
           w == k.peer
<1>1. /\ Linked(C, S, time, toS, toC) /\ Upstream(y, dl, C, S, toS, n, last) /\ Downstream(y, C, S, toC)
      /\ n \in Nat /\ n <= Newest(S).num
  BY LinkedBoth DEF Session
<1>2. PICK V, b, r : /\ Content(Client, y, V, b, r, Len(y), C, S, toS)
                     /\ Delivery(y, V, r, n, last) /\ dl = Cut(y, 0, V[n])
  BY <1>1 DEF Upstream
<1>3. PICK W, d, s : Content(Server, y, W, d, s, S.current, S, C, toC)
  BY <1>1 DEF Downstream
<1>4. Ticked(Client, Server, y, V, r, Len(y), W, d, s, S.current, C, S, time, toS, toC, k)
  BY <1>1, <1>2, <1>3, PeersFact, TickFact
<1> HIDE DEF k
<1>5. /\ Linked(w, S, time, toS \cup k.sent, toC) /\ Content(Server, y, W, d, s, S.current, S, w, toC)
      /\ w.received_states = C.received_states
  BY <1>4 DEF Ticked
<1>6. PICK X, x : /\ Content(Client, y, X, x, r, Len(y), w, S, toS \cup k.sent)
                  /\ \A i \in Nat : i <= Back(C).num => X[i] = V[i]
  BY <1>4 DEF Ticked
<1>7. Newest(w) = Newest(C)
  BY <1>5 DEF Newest
<1>8. X[n] = V[n]
  <2>1. Sending(C, time) /\ Exchange(C, S, toS, toC) /\ Receiving(S)
    BY <1>1 DEF Linked
  <2>2. Back(C).num \in Nat /\ Newest(S).num \in Nat /\ Newest(S).num \in Nums(S.received_states)
    BY <2>1, SenderFact, ReceiverFact
  <2>3. Newest(S).num <= Back(C).num
    BY <2>1, <2>2 DEF Exchange
  <2> QED BY <1>1, <1>6, <2>2, <2>3
<1>9. Upstream(y, dl, w, S, toS \cup k.sent, n, last)
  <2>1. Delivery(y, X, r, n, last) /\ dl = Cut(y, 0, X[n])
    BY <1>2, <1>8 DEF Delivery
  <2> QED BY <1>6, <2>1 DEF Upstream
<1>10. Downstream(y, w, S, toC)
  BY <1>5 DEF Downstream
<1>11. Session(y, dl, w, S, time, toS \cup k.sent, toC, trm, n, last)
  BY <1>5, <1>9, <1>10, LinkedBoth DEF Session
<1> QED BY <1>7, <1>11 DEF k, ClientTicked

\* What the invariant means for the screens: the client shows one that the
\* server has produced, with an echo acknowledgement of what it has taken in.
Mirrored(C, S, trm, n) ==
  /\ Newest(C).state \in Screen /\ Newest(C).state.fb <= trm.fb /\ Newest(C).state.echo_ack <= n
  /\ \A i \in 1..Len(C.received_states), j \in 1..Len(S.sent_states) :
       C.received_states[i].num = S.sent_states[j].num => C.received_states[i].state = S.sent_states[j].state
  /\ Newest(C).num = LastNum => Newest(C).state = S.current

\* It follows from the values that the numbers of the server's states stand for.
LEMMA ShownFact ==
  ASSUME NEW y \in Seq(Int), NEW dl, NEW C, NEW S, NEW time \in Nat, NEW toS, NEW toC, NEW trm, NEW n, NEW last,
         Session(y, dl, C, S, time, toS, toC, trm, n, last)
  PROVE  Mirrored(C, S, trm, n)
<1>1. /\ Linked(C, S, time, toS, toC) /\ Downstream(y, C, S, toC) /\ Echoed(trm, n, time) /\ n \in Nat
      /\ S.current \in Screen /\ Below(Server, S.current, screen(trm))
  BY LinkedBoth DEF Session
<1>2. PICK W, d, s : Content(Server, y, W, d, s, S.current, S, C, toC)
  BY <1>1 DEF Downstream
<1>3. /\ Growing(Server, y, W, Back(S).num, S.current)
      /\ \A i \in 1..Len(C.received_states) : C.received_states[i].state = W[C.received_states[i].num]
      /\ \A j \in 1..Len(S.sent_states) : S.sent_states[j].state = W[S.sent_states[j].num]
  BY <1>2, ConstantsFact DEF Content, Listed, Form
<1>4. /\ Len(C.received_states) \in 1..Len(C.received_states) /\ Newest(C).num \in Nat /\ Newest(C).num <= Back(S).num
      /\ Back(S).num \in Nat /\ Back(S).num <= LastNum
  <2>1. Receiving(C) /\ Sending(S, time) /\ Exchange(S, C, toC, toS)
    BY <1>1 DEF Linked
  <2>2. /\ Len(C.received_states) \in 1..Len(C.received_states) /\ Newest(C).num \in Nat
        /\ Newest(C).num \in Nums(C.received_states) /\ Back(S).num \in Nat /\ Back(S).num <= LastNum
    BY <2>1, ReceiverFact, SenderFact
  <2> QED BY <2>1, <2>2 DEF Exchange
<1>5. Newest(C).state = W[Newest(C).num]
  BY <1>3, <1>4 DEF Newest
<1>6. /\ W[Newest(C).num] \in Screen /\ W[Back(S).num] \in Screen
      /\ Below(Server, W[Newest(C).num], W[Back(S).num]) /\ Below(Server, W[Back(S).num], S.current)
      /\ Back(S).num = LastNum => W[Back(S).num] = S.current
  BY <1>3, <1>4, ConstantsFact DEF Growing, Value
<1>7. trm.fb \in Nat /\ trm.echo_ack \in Nat /\ trm.echo_ack <= n /\ screen(trm).fb = trm.fb /\ screen(trm).echo_ack = trm.echo_ack
  <2>1. n <= n /\ time <= time
    BY <1>1
  <2> QED BY <1>1, <2>1, EchoedLater, ScreenFact DEF Echoed
<1> DEFINE a == W[Newest(C).num]
           b == W[Back(S).num]
           c == S.current
<1>8. a \in Screen /\ b \in Screen /\ c \in Screen
  BY <1>1, <1>6
<1>9. /\ a.fb \in Nat /\ b.fb \in Nat /\ c.fb \in Nat /\ a.echo_ack \in Nat /\ b.echo_ack \in Nat /\ c.echo_ack \in Nat
  <2> HIDE DEF a, b, c
  <2> QED BY <1>8 DEF Screen
<1>10. /\ a.fb <= b.fb /\ b.fb <= c.fb /\ c.fb <= trm.fb
       /\ a.echo_ack <= b.echo_ack /\ b.echo_ack <= c.echo_ack /\ c.echo_ack <= trm.echo_ack
  BY <1>1, <1>6, <1>7, ConstantsFact DEF Below
<1> HIDE DEF a, b, c
<1>11. a.fb <= trm.fb /\ a.echo_ack <= n
  BY <1>1, <1>7, <1>9, <1>10
<1>12. Newest(C).num = LastNum => Newest(C).state = S.current
  <2>1. Newest(C).num = LastNum => Back(S).num = LastNum
    BY <1>4, ConstantsFact
  <2> QED BY <1>5, <1>6, <2>1
<1> QED BY <1>3, <1>5, <1>8, <1>11, <1>12 DEF a, Mirrored

(***************************************************************************)
(* The inductive invariant and the initial state.                          *)
(***************************************************************************)
SrvType(s) ==
  /\ DOMAIN s = {"running", "last_remote_num", "last_receiver_state", "child_released"}
  /\ s.running \in BOOLEAN /\ s.child_released \in BOOLEAN

SessionInv ==
  /\ now \in Nat /\ ECHO_TIMEOUT <= now /\ now <= MaxTime /\ scenario \in Scenarios
  /\ DOMAIN peer = Peers /\ DOMAIN net = Peers
  /\ cli \in [running : BOOLEAN, clean_shutdown : BOOLEAN] /\ SrvType(srv)
  /\ host \in {"alive", "closed"} /\ typed \in Seq(Int)
  /\ srv.last_remote_num = Newest(peer[Server]).num
  /\ Session(typed, delivered, peer[Client], peer[Server], now, net[Server], net[Client],
             term, srv.last_remote_num, srv.last_receiver_state)

\* The transport of a side as it is created.
LEMMA TransportFact ==
  ASSUME NEW p \in Peers, NEW time \in Nat, NEW first \in Objects, NEW remote \in Objects, NEW t, DOMAIN t = PeerFields,
         \A f \in PeerFields \ {"current"} : t[f] = Transport(p, time, first, remote)[f]
  PROVE  /\ Sending(t, time) /\ Receiving(t)
         /\ t.sent_states = <<TimestampedState(time, 0, first)>> /\ t.received_states = <<TimestampedState(time, 0, remote)>>
         /\ Known(t).num = 0 /\ Back(t).num = 0 /\ Newest(t).num = 0
         /\ t.last_instruction = [old |-> LastNum, new |-> LastNum, ack |-> 0, diff |-> <<>>]
<1>1. /\ t.sent_states = <<TimestampedState(time, 0, first)>> /\ t.received_states = <<TimestampedState(time, 0, remote)>>
      /\ t.next_ack_time = time /\ t.mindelay_clock = Never /\ t.shutdown_in_progress = FALSE /\ t.failed = FALSE
      /\ t.ack_num = 0 /\ t.has_remote_addr = (p = Client)
      /\ t.last_instruction = [old |-> LastNum, new |-> LastNum, ack |-> 0, diff |-> <<>>]
  BY DEF PeerFields, Transport
<1>2. ASSUME NEW x \in Objects
      PROVE  /\ TimestampedState(time, 0, x) \in Entry /\ TimestampedState(time, 0, x).num = 0
             /\ TimestampedState(time, 0, x).timestamp = time
  <2>1. 0 \in 0..LastNum
    BY ConstantsFact
  <2> QED BY <2>1 DEF TimestampedState, Entry
<1>3. ASSUME NEW x \in Objects
      PROVE  LET l == <<TimestampedState(time, 0, x)>> IN
             /\ l \in Seq(Entry) /\ Len(l) = 1 /\ l[1].num = 0 /\ l[1].timestamp = time
             /\ Ordered(l) /\ Timed(l) /\ Increasing(l)
  <2> DEFINE f == TimestampedState(time, 0, x)
             l == <<f>>
  <2>1. f \in Entry /\ f.num = 0 /\ f.timestamp = time
    BY <1>2
  <2> HIDE DEF f
  <2>2. l \in Seq(Entry) /\ Len(l) = 1 /\ l[1] = f
    BY <2>1
  <2> HIDE DEF l
  <2>3. Ordered(l) /\ Timed(l) /\ Increasing(l)
    BY <2>1, <2>2 DEF Ordered, Timed, Increasing
  <2> QED BY <2>1, <2>2, <2>3 DEF l, f
<1>4. /\ t.sent_states \in Seq(Entry) /\ Len(t.sent_states) = 1 /\ t.sent_states[1].num = 0 /\ t.sent_states[1].timestamp = time
      /\ Ordered(t.sent_states) /\ Timed(t.sent_states)
      /\ t.received_states \in Seq(Entry) /\ Len(t.received_states) = 1 /\ t.received_states[1].num = 0
      /\ Increasing(t.received_states)
  BY <1>1, <1>3
<1>5. Known(t).num = 0 /\ Back(t).num = 0 /\ Newest(t).num = 0 /\ Back(t).timestamp = time
  BY <1>4 DEF Known, Back, Newest
<1>6. Never \in Nat /\ 0 # LastNum
  BY ConstantsFact
<1>7. Sending(t, time)
  <2>1. t.has_remote_addr \in BOOLEAN
    BY <1>1, Zenon
  <2>2. Paced(t)
    BY <1>5, <1>6 DEF Paced
  <2>3. time <= time
    OBVIOUS
  <2>4. t.next_ack_time = time /\ t.mindelay_clock = Never /\ t.shutdown_in_progress = FALSE /\ t.failed = FALSE
    BY <1>1
  <2>5. 1 \in Nat \ {0}
    OBVIOUS
  <2> QED BY <1>4, <1>5, <1>6, <2>1, <2>2, <2>3, <2>4, <2>5 DEF Sending
<1>8. Receiving(t)
  BY <1>1, <1>4, <1>5 DEF Receiving
<1> QED BY <1>1, <1>5, <1>7, <1>8

\* At the beginning number 0 means the empty stream and the blank screen.
LEMMA FirstContent ==
  ASSUME NEW p \in Peers, NEW y \in Seq(Int), NEW v \in Value(p, y), NEW c \in Value(p, y), Below(p, v, c),
         NEW time, NEW first, first = Form(p, y, v, v), NEW t, NEW u,
         t.sent_states = <<TimestampedState(time, 0, first)>>, u.received_states = <<TimestampedState(time, 0, first)>>,
         Back(t).num = 0, t.current = Form(p, y, v, c),
         t.last_instruction = [old |-> LastNum, new |-> LastNum, ack |-> 0, diff |-> <<>>]
  PROVE  Content(p, y, [i \in Nat |-> v], v, v, c, t, u, {})
<1> DEFINE V == [i \in Nat |-> v]
<1>1. V \in [Nat -> Value(p, y)] /\ \A i \in Nat : V[i] = v
  OBVIOUS
<1> HIDE DEF V
<1>2. Below(p, v, v) /\ 0 # LastNum
  BY BelowFact, ConstantsFact
<1>3. Growing(p, y, V, 0, c)
  BY <1>1, <1>2 DEF Growing
<1> DEFINE l == <<TimestampedState(time, 0, first)>>
<1>4. Len(l) = 1 /\ l[1].num = 0 /\ l[1].state = first
  BY DEF TimestampedState
<1> HIDE DEF l
<1>5. Listed(p, y, V, v, l)
  BY <1>1, <1>2, <1>4 DEF Listed
<1>6. Told(p, y, V, 0, t.last_instruction)
  BY DEF Told
<1>7. Content(p, y, V, v, v, c, t, u, {})
  BY <1>3, <1>5, <1>6 DEF Content, l
<1> QED BY <1>7 DEF V

\* The invariant holds when the session starts.
LEMMA InitSession == Init => SessionInv
<1> SUFFICES ASSUME Init PROVE SessionInv
  OBVIOUS
<1> DEFINE C == peer[Client]
           S == peer[Server]
           blank == [fb |-> 0, echo_ack |-> 0]
           y == <<firstResize>>
<1>1. /\ now = ECHO_TIMEOUT /\ net[Server] = {} /\ net[Client] = {} /\ DOMAIN net = Peers /\ DOMAIN peer = Peers
      /\ C = [Transport(Client, now, <<>>, blank) EXCEPT !.current = y]
      /\ S = Transport(Server, now, blank, <<>>)
  BY PeersFact DEF Init
<1>2. /\ cli = [running |-> TRUE, clean_shutdown |-> FALSE] /\ host = "alive" /\ typed = y /\ delivered = <<>> /\ scenario \in Scenarios
      /\ srv = [running |-> TRUE, last_remote_num |-> 0, last_receiver_state |-> <<>>, child_released |-> FALSE]
      /\ term = [fb |-> 0, echo_ack |-> 0, input_history |-> <<>>]
  BY DEF Init
<1>3. now \in Nat /\ ECHO_TIMEOUT <= now /\ now <= MaxTime
  BY <1>1, ConstantsFact
<1>4. y \in Seq(Int) /\ Len(y) = 1
  BY DEF firstResize
<1>5. blank \in Screen /\ blank \in Objects /\ <<>> \in Objects
  BY DEF Screen, Objects
<1>6. /\ DOMAIN C = PeerFields /\ C.current = y
      /\ \A f \in PeerFields \ {"current"} : C[f] = Transport(Client, now, <<>>, blank)[f]
  <2>1. DOMAIN Transport(Client, now, <<>>, blank) = PeerFields
    BY DEF Transport, PeerFields
  <2> HIDE DEF C, y, blank
  <2> QED BY <1>1, <2>1 DEF PeerFields
<1>7. DOMAIN S = PeerFields /\ S.current = blank
  <2> HIDE DEF S, blank
  <2> QED BY <1>1 DEF Transport, PeerFields
<1> HIDE DEF C, S
<1>8. /\ Sending(C, now) /\ Receiving(C) /\ Known(C).num = 0 /\ Back(C).num = 0 /\ Newest(C).num = 0
      /\ C.sent_states = <<TimestampedState(now, 0, <<>>)>> /\ C.received_states = <<TimestampedState(now, 0, blank)>>
      /\ C.last_instruction = [old |-> LastNum, new |-> LastNum, ack |-> 0, diff |-> <<>>]
  <2> HIDE DEF blank
  <2> QED BY <1>3, <1>5, <1>6, PeersFact, TransportFact
<1>9. /\ Sending(S, now) /\ Receiving(S) /\ Known(S).num = 0 /\ Back(S).num = 0 /\ Newest(S).num = 0
      /\ S.sent_states = <<TimestampedState(now, 0, blank)>> /\ S.received_states = <<TimestampedState(now, 0, <<>>)>>
      /\ S.last_instruction = [old |-> LastNum, new |-> LastNum, ack |-> 0, diff |-> <<>>]
  <2> HIDE DEF blank
  <2>1. \A f \in PeerFields \ {"current"} : S[f] = Transport(Server, now, blank, <<>>)[f]
    BY <1>1 DEF S
  <2> QED BY <1>3, <1>5, <1>7, <2>1, PeersFact, TransportFact
<1>10. ASSUME NEW t, NEW u, Known(t).num = 0, Back(t).num = 0, NEW x, u.received_states = <<TimestampedState(now, 0, x)>>
       PROVE  Exchange(t, u, {}, {})
  <2>1. Nums(u.received_states) = {0}
    <3>1. Len(u.received_states) = 1 /\ u.received_states[1].num = 0
      BY <1>10 DEF TimestampedState
    <3> QED BY <3>1 DEF Nums
  <2> QED BY <1>10, <2>1 DEF Exchange
<1>11. Linked(S, C, now, net[Client], net[Server])
  <2>1. Exchange(S, C, {}, {}) /\ Exchange(C, S, {}, {})
    BY <1>8, <1>9, <1>10
  <2> QED BY <1>1, <1>8, <1>9, <2>1 DEF Linked
<1>12. Cut(y, 0, 0) = <<>> /\ Cut(y, 0, 1) = y
  <2>1. /\ Cut(y, 0, 0) \in Seq(Int) /\ Len(Cut(y, 0, 0)) = 0 - 0
        /\ Cut(y, 0, 1) \in Seq(Int) /\ Len(Cut(y, 0, 1)) = 1 - 0 /\ \A i \in 1..(1 - 0) : Cut(y, 0, 1)[i] = y[0 + i]
    <3>1. 0 \in Nat /\ 1 \in Nat /\ 0 <= 0 /\ 0 <= 1 /\ 0 <= Len(y) /\ 1 <= Len(y)
      BY <1>4
    <3> HIDE DEF y
    <3> QED BY <1>4, <3>1, CutFact
  <2> HIDE DEF y
  <2>2. Cut(y, 0, 0) = <<>>
    BY <2>1
  <2>3. \A i \in 1..Len(Cut(y, 0, 1)) : Cut(y, 0, 1)[i] = y[i]
    BY <2>1
  <2>4. Cut(y, 0, 1) = y
    BY <1>4, <2>1, <2>3, SeqEqual
  <2> QED BY <2>2, <2>4
<1>13. 0 \in Value(Client, y) /\ 1 \in Value(Client, y) /\ Below(Client, 0, 1) /\ Below(Client, 0, 0)
  BY <1>4 DEF Value, Below
<1> DEFINE V == [i \in Nat |-> 0]
           W == [i \in Nat |-> blank]
<1>14. Content(Client, y, V, 0, 0, 1, C, S, {})
  <2>1. <<>> = Form(Client, y, 0, 0) /\ C.current = Form(Client, y, 0, 1)
    BY <1>6, <1>12 DEF Form
  <2> HIDE DEF y
  <2> QED BY <1>4, <1>8, <1>9, <1>13, <2>1, PeersFact, FirstContent
<1>15. Upstream(y, <<>>, C, S, {}, 0, <<>>)
  <2>1. V[0] = 0
    OBVIOUS
  <2> HIDE DEF V
  <2>2. Delivery(y, V, 0, 0, <<>>)
    BY <1>12, <1>13, <2>1 DEF Delivery, Form
  <2>3. <<>> = Cut(y, 0, V[0])
    BY <1>12, <2>1
  <2> HIDE DEF y
  <2> QED BY <1>4, <1>14, <2>2, <2>3 DEF Upstream
<1>16. Content(Server, y, W, blank, blank, blank, S, C, {})
  <2>1. blank \in Value(Server, y) /\ Form(Server, y, blank, blank) = blank
    <3> HIDE DEF blank, y
    <3> QED BY <1>5, PeersFact DEF Value, Form
  <2> HIDE DEF y, blank
  <2>2. Below(Server, blank, blank)
    BY <1>4, <2>1, PeersFact, BelowFact
  <2> QED BY <1>4, <1>7, <1>8, <1>9, <2>1, <2>2, PeersFact, FirstContent
<1>17. Downstream(y, C, S, {})
  <2> HIDE DEF W, blank, y
  <2> QED BY <1>7, <1>16 DEF Downstream
<1>18. Echoed(term, 0, now) /\ screen(term) = blank
  <2>1. /\ DOMAIN term = {"fb", "echo_ack", "input_history"} /\ term.fb = 0 /\ term.echo_ack = 0 /\ term.input_history = <<>>
    BY <1>2
  <2>2. <<>> \in Seq(Frame) /\ Len(<<>>) = 0
    OBVIOUS
  <2>3. Ordered(<<>>) /\ Later(<<>>)
    BY <2>2 DEF Ordered, Later
  <2> QED BY <2>1, <2>2, <2>3 DEF Echoed, screen
<1>19. Below(Server, blank, blank)
  BY PeersFact DEF Below
<1>20. Session(y, <<>>, C, S, now, net[Server], net[Client], term, 0, <<>>)
  <2> HIDE DEF y, blank
  <2> QED BY <1>1, <1>5, <1>7, <1>9, <1>11, <1>15, <1>17, <1>18, <1>19 DEF Session
<1>21. SrvType(srv) /\ srv.last_remote_num = 0 /\ srv.last_receiver_state = <<>>
  BY <1>2 DEF SrvType
<1>22. cli \in [running : BOOLEAN, clean_shutdown : BOOLEAN] /\ host \in {"alive", "closed"}
  BY <1>2
<1> HIDE DEF y
<1> QED BY <1>1, <1>2, <1>3, <1>4, <1>9, <1>20, <1>21, <1>22 DEF SessionInv, C, S

(***************************************************************************)
(* The server's turn.                                                      *)
(***************************************************************************)
\* What has been delivered is the beginning of what was typed.
LEMMA DeliveredFact ==
  ASSUME NEW y \in Seq(Int), NEW dl, NEW C, NEW S, NEW time, NEW toS, NEW toC, NEW trm, NEW n, NEW last,
         Session(y, dl, C, S, time, toS, toC, trm, n, last)
  PROVE  /\ dl \in Seq(Int) /\ Len(dl) \in Len(dl)..Len(y) /\ dl = SubSeq(y, 1, Len(dl)) /\ dl \o <<>> = dl
<1>1. PICK V, b, r : /\ Content(Client, y, V, b, r, Len(y), C, S, toS)
                     /\ Delivery(y, V, r, n, last) /\ dl = Cut(y, 0, V[n])
  BY DEF Session, Upstream
<1> DEFINE v == V[n]
<1>2. v \in Nat /\ v <= Len(y) /\ dl = Cut(y, 0, v)
  BY <1>1 DEF Content, Growing, Value, Delivery
<1> HIDE DEF v
<1>3. dl \in Seq(Int) /\ Len(dl) = v
  <2>1. 0 <= v /\ 0 \in Nat
    BY <1>2
  <2>2. Cut(y, 0, v) \in Seq(Int) /\ Len(Cut(y, 0, v)) = v - 0
    BY <1>2, <2>1, CutFact
  <2> QED BY <1>2, <2>2
<1>4. dl = SubSeq(y, 1, Len(dl))
  BY <1>2, <1>3 DEF Cut
<1> QED BY <1>2, <1>3, <1>4

\* The host draws, or the window changes its size.
LEMMA DrawnFact ==
  ASSUME NEW trm, NEW n, NEW time, Echoed(trm, n, time), NEW k \in Nat
  PROVE  LET w == [trm EXCEPT !.fb = @ + k] IN
         Echoed(w, n, time) /\ trm.fb <= w.fb /\ w.echo_ack = trm.echo_ack
<1> DEFINE w == [trm EXCEPT !.fb = @ + k]
<1>1. DOMAIN trm = {"fb", "echo_ack", "input_history"} /\ trm.fb \in Nat
  BY DEF Echoed
<1>2. /\ DOMAIN w = {"fb", "echo_ack", "input_history"} /\ w.fb = trm.fb + k
      /\ w.echo_ack = trm.echo_ack /\ w.input_history = trm.input_history
  BY <1>1
<1> HIDE DEF w
<1>3. w.fb \in Nat /\ trm.fb <= w.fb
  BY <1>1, <1>2
<1>4. Echoed(w, n, time)
  BY <1>2, <1>3 DEF Echoed
<1> QED BY <1>2, <1>3, <1>4 DEF w

\* Reading the resizes leaves the screen its value.
LEMMA ResizesFact ==
  ASSUME NEW events \in Seq(Int)
  PROVE  Cardinality(appliedResizes(events)) \in Nat
<1>1. appliedResizes(events) \subseteq 1..Len(events)
  BY DEF appliedResizes
<1>2. IsFiniteSet(1..Len(events))
  BY FS_Interval
<1>3. IsFiniteSet(appliedResizes(events))
  BY <1>1, <1>2, FS_Subset
<1> QED BY <1>3, FS_CardinalityType

\* The state of a turn.
Turned(a) ==
  /\ DOMAIN a = {"peer", "term", "events", "srv"}
  /\ Session(typed, delivered \o a.events, peer[Client], a.peer, now, net[Server], net[Client],
             a.term, a.srv.last_remote_num, a.srv.last_receiver_state)
  /\ a.srv.last_remote_num = Newest(a.peer).num
  /\ term.fb <= a.term.fb /\ a.term.fb \in Nat /\ SrvType(a.srv)
  /\ \E k \in Len(delivered)..Len(typed) : delivered \o a.events = SubSeq(typed, 1, k)

\* The first part of the turn.
LEMMA NetworkTurn ==
  ASSUME SessionInv, NEW got \in {NoInstruction} \union {{m} : m \in net[Server]}, NEW old \in BOOLEAN, NEW fails \in BOOLEAN
  PROVE  Turned(serveNetwork(got, old, fails))
<1> DEFINE C == peer[Client]
           S == peer[Server]
           toS == net[Server]
           toC == net[Client]
           n == srv.last_remote_num
           last == srv.last_receiver_state
           t == IF got = NoInstruction THEN S ELSE recv(Server, S, CHOOSE m \in got : TRUE, now, old)
           N == Newest(t).num
           g == get_remote_diff(Server, t, last)
           resizes == appliedResizes(g.diff)
           told == IF fails /\ resizes # {} THEN start_shutdown(g.peer, now) ELSE g.peer
           sized == [term EXCEPT !.fb = @ + Cardinality(resizes)]
           fed == IF g.diff = <<>> THEN sized ELSE register_input_frame(sized, N)
           next == [srv EXCEPT !.last_remote_num = N, !.last_receiver_state = g.last, !.child_released = TRUE]
           new == [peer |-> set_current_state(told, fed), term |-> fed, events |-> g.diff, srv |-> next]
           same == [peer |-> t, term |-> term, events |-> <<>>, srv |-> srv]
<1>1. serveNetwork(got, old, fails) = IF N # n THEN new ELSE same
  BY DEF serveNetwork
<1>2. /\ now \in Nat /\ typed \in Seq(Int) /\ SrvType(srv)
      /\ Session(typed, delivered, C, S, now, toS, toC, term, n, last)
  BY DEF SessionInv
<1>3. Session(typed, delivered, C, t, now, toS, toC, term, n, last)
  <2>1. CASE got = NoInstruction
    BY <1>2, <2>1
  <2>2. CASE got # NoInstruction
    <3>1. PICK m \in toS : got = {m}
      BY <2>2
    <3>2. (CHOOSE x \in got : TRUE) = m
      BY <3>1
    <3>3. t = recv(Server, S, m, now, old)
      BY <2>2, <3>2
    <3> HIDE DEF t, C, S, toS, toC, n, last
    <3>4. Session(typed, delivered, C, recv(Server, S, m, now, old), now, toS, toC, term, n, last)
      BY <1>2, ServerReceives
    <3> QED BY <3>3, <3>4
  <2> QED BY <2>1, <2>2
<1> HIDE DEF t, C, S, toS, toC, n, last
<1>4. Echoed(term, n, now) /\ n \in Nat /\ n <= N /\ N \in Nat /\ term.fb \in Nat
  <2>1. Echoed(term, n, now) /\ n \in Nat /\ n <= N /\ Linked(t, C, now, toC, toS)
    BY <1>3 DEF Session
  <2>2. N \in Nat
    BY <2>1, ReceiverFact DEF Linked
  <2> QED BY <2>1, <2>2 DEF Echoed
<1>5. CASE N = n
  <2>1. Turned(same)
    <3>1. /\ DOMAIN same = {"peer", "term", "events", "srv"} /\ same.peer = t /\ same.term = term
          /\ same.events = <<>> /\ same.srv = srv
      OBVIOUS
    <3> HIDE DEF same
    <3>2. /\ delivered \o <<>> = delivered /\ Len(delivered) \in Len(delivered)..Len(typed)
          /\ delivered = SubSeq(typed, 1, Len(delivered))
      BY <1>2, <1>3, DeliveredFact
    <3>3. \E k \in Len(delivered)..Len(typed) : delivered \o <<>> = SubSeq(typed, 1, k)
      BY <3>2
    <3>4. Session(typed, delivered \o <<>>, peer[Client], t, now, net[Server], net[Client], term,
                  srv.last_remote_num, srv.last_receiver_state)
      BY <1>3, <3>2 DEF C, toS, toC, n, last
    <3>5. srv.last_remote_num = Newest(t).num /\ term.fb <= term.fb
      BY <1>4, <1>5 DEF n
    <3> QED BY <1>2, <1>4, <3>1, <3>3, <3>4, <3>5 DEF Turned
  <2> QED BY <1>1, <1>5, <2>1
<1>6. CASE N # n
  <2>1. /\ Session(typed, delivered \o g.diff, C, g.peer, now, toS, toC, term, N, g.last)
        /\ Newest(g.peer).num = N /\ g.diff \in Seq(Int)
        /\ \E k \in Len(delivered)..Len(typed) : delivered \o g.diff = SubSeq(typed, 1, k)
    <3>1. Fetching(typed, delivered, C, t, now, toS, toC, term, g)
      BY <1>2, <1>3, ServerFetches
    <3> HIDE DEF g
    <3> QED BY <3>1 DEF Fetching
  <2> HIDE DEF g
  <2>2. Cardinality(resizes) \in Nat
    BY <2>1, ResizesFact
  <2> HIDE DEF resizes, N
  <2>3. Session(typed, delivered \o g.diff, C, told, now, toS, toC, term, N, g.last) /\ Newest(told).num = N
    BY <1>2, <2>1, ServerShutdown
  <2> HIDE DEF told
  <2>4. Echoed(sized, n, now) /\ term.fb <= sized.fb /\ sized.echo_ack = term.echo_ack
    BY <1>4, <2>2, DrawnFact
  <2> HIDE DEF sized
  <2>5. Echoed(fed, N, now) /\ term.fb <= fed.fb /\ fed.echo_ack = term.echo_ack
    <3>1. CASE g.diff = <<>>
      <4>1. fed = sized
        BY <3>1
      <4>2. Echoed(sized, N, now)
        <5>1. now <= now
          BY <1>2
        <5> QED BY <1>2, <1>4, <2>4, <5>1, EchoedLater
      <4> QED BY <2>4, <4>1, <4>2
    <3>2. CASE g.diff # <<>>
      <4>1. fed = register_input_frame(sized, N)
        BY <3>2
      <4>2. /\ Echoed(register_input_frame(sized, N), N, now)
            /\ register_input_frame(sized, N).fb = sized.fb /\ register_input_frame(sized, N).echo_ack = sized.echo_ack
        BY <1>2, <1>4, <2>4, RegisterFact
      <4> HIDE DEF fed
      <4> QED BY <2>4, <4>1, <4>2
    <3> QED BY <3>1, <3>2
  <2> HIDE DEF fed
  <2>6. fed.fb \in Nat /\ term.echo_ack \in Nat
    BY <1>4, <2>5 DEF Echoed
  <2>7. Session(typed, delivered \o g.diff, C, told, now, toS, toC, fed, N, g.last)
    <3>1. term.echo_ack <= fed.echo_ack
      BY <2>5, <2>6
    <3> QED BY <1>2, <2>3, <2>5, <3>1, ServerTerminal
  <2> DEFINE w == set_current_state(told, fed)
  <2>8. Session(typed, delivered \o g.diff, C, w, now, toS, toC, fed, N, g.last) /\ Newest(w).num = N
    BY <1>2, <2>3, <2>7, ServerCurrent
  <2> HIDE DEF w
  <2>9. SrvType(next) /\ next.last_remote_num = N /\ next.last_receiver_state = g.last
    BY <1>2 DEF SrvType
  <2> HIDE DEF next
  <2>10. new = [peer |-> w, term |-> fed, events |-> g.diff, srv |-> next]
    BY DEF w
  <2>11. /\ DOMAIN new = {"peer", "term", "events", "srv"} /\ new.peer = w /\ new.term = fed /\ new.events = g.diff /\ new.srv = next
    BY <2>10
  <2> HIDE DEF new
  <2>12. Session(typed, delivered \o new.events, peer[Client], new.peer, now, net[Server], net[Client],
                 new.term, new.srv.last_remote_num, new.srv.last_receiver_state)
    BY <2>8, <2>9, <2>11 DEF C, toS, toC
  <2>13. Turned(new)
    BY <2>1, <2>5, <2>6, <2>8, <2>9, <2>11, <2>12 DEF Turned
  <2> QED BY <1>1, <1>6, <2>13
<1> QED BY <1>5, <1>6

\* The second part of the turn.
LEMMA HostTurn ==
  ASSUME SessionInv, NEW a, Turned(a), NEW output
  PROVE  Turned(serveHost(a, output))
<1> DEFINE reads == ~a.peer.shutdown_in_progress
           drawn == IF reads /\ output = "bytes" THEN [a.term EXCEPT !.fb = @ + 1] ELSE a.term
           shown == IF reads /\ output = "bytes" THEN set_current_state(a.peer, drawn) ELSE a.peer
           ended == IF reads /\ output = "eof" THEN start_shutdown(shown, now) ELSE shown
           broken == output = "eio"
           w == IF broken THEN start_shutdown(ended, now) ELSE ended
           dl == delivered \o a.events
           n == a.srv.last_remote_num
           last == a.srv.last_receiver_state
           C == peer[Client]
           toS == net[Server]
           toC == net[Client]
           next == [a EXCEPT !.term = drawn, !.peer = w]
<1>1. serveHost(a, output) = next
  BY DEF serveHost
<1>2. /\ typed \in Seq(Int) /\ DOMAIN a = {"peer", "term", "events", "srv"}
      /\ Session(typed, dl, C, a.peer, now, toS, toC, a.term, n, last) /\ n = Newest(a.peer).num
      /\ term.fb <= a.term.fb /\ a.term.fb \in Nat
  BY DEF SessionInv, Turned
<1>3. term.fb \in Nat
  BY DEF SessionInv, Session, Echoed
<1> HIDE DEF dl, n, last, C, toS, toC
<1>4. Echoed(a.term, n, now)
  BY <1>2 DEF Session
<1>5. Echoed(drawn, n, now) /\ a.term.fb <= drawn.fb /\ a.term.echo_ack <= drawn.echo_ack /\ drawn.fb \in Nat
  <2>1. Echoed([a.term EXCEPT !.fb = @ + 1], n, now) /\ a.term.fb <= [a.term EXCEPT !.fb = @ + 1].fb
        /\ [a.term EXCEPT !.fb = @ + 1].echo_ack = a.term.echo_ack
    BY <1>4, DrawnFact
  <2>2. a.term.echo_ack \in Nat /\ a.term.echo_ack <= a.term.echo_ack /\ a.term.fb <= a.term.fb
    BY <1>2, <1>4 DEF Echoed
  <2>3. Echoed(drawn, n, now) /\ a.term.fb <= drawn.fb /\ a.term.echo_ack <= drawn.echo_ack
    BY <1>4, <2>1, <2>2
  <2> HIDE DEF drawn
  <2> QED BY <2>3 DEF Echoed
<1>6. term.fb <= drawn.fb
  <2> HIDE DEF drawn
  <2> QED BY <1>2, <1>3, <1>5
<1> HIDE DEF drawn
<1>7. Session(typed, dl, C, a.peer, now, toS, toC, drawn, n, last)
  BY <1>2, <1>5, ServerTerminal
<1>8. Session(typed, dl, C, shown, now, toS, toC, drawn, n, last) /\ Newest(shown) = Newest(a.peer)
  BY <1>2, <1>7, ServerCurrent
<1> HIDE DEF shown
<1>9. Session(typed, dl, C, ended, now, toS, toC, drawn, n, last) /\ Newest(ended) = Newest(a.peer)
  BY <1>2, <1>8, ServerShutdown
<1> HIDE DEF ended
<1>10. Session(typed, dl, C, w, now, toS, toC, drawn, n, last) /\ Newest(w) = Newest(a.peer)
  BY <1>2, <1>9, ServerShutdown
<1> HIDE DEF w
<1>11. /\ DOMAIN next = {"peer", "term", "events", "srv"} /\ next.peer = w /\ next.term = drawn
       /\ next.events = a.events /\ next.srv = a.srv
  BY <1>2
<1> HIDE DEF next
<1>12. Session(typed, delivered \o next.events, peer[Client], next.peer, now, net[Server], net[Client],
               next.term, next.srv.last_remote_num, next.srv.last_receiver_state)
  BY <1>10, <1>11 DEF dl, C, toS, toC, n, last
<1>13. next.srv.last_remote_num = Newest(next.peer).num
  BY <1>2, <1>10, <1>11 DEF n
<1>14. SrvType(next.srv) /\ \E k \in Len(delivered)..Len(typed) : delivered \o next.events = SubSeq(typed, 1, k)
  BY <1>11 DEF Turned
<1>15. Turned(next)
  BY <1>5, <1>6, <1>11, <1>12, <1>13, <1>14 DEF Turned
<1> QED BY <1>1, <1>15

\* The last part of the turn.
Finished(a, b) ==
  /\ Session(typed, delivered \o a.events, peer[Client], b.peer, now, net[Server], net[Client] \cup b.sent,
             b.term, a.srv.last_remote_num, a.srv.last_receiver_state)
  /\ a.srv.last_remote_num = Newest(b.peer).num /\ term.fb <= b.term.fb /\ b.running \in BOOLEAN

\* The end of a turn of the server: signals, shutdown and the tick.
LEMMA EndTurn ==
  ASSUME SessionInv, NEW a, Turned(a), NEW signal, NEW since, NEW prophylactic \in BOOLEAN
  PROVE  Finished(a, serveEnd(a, signal, since, prophylactic))
<1> DEFINE idle == NetworkTimeout # 0 /\ NetworkTimeout <= since
           asked == \/ idle
                    \/ signal = "term"
                    \/ signal = "usr1" /\ NetworkSignaledTimeout <= since
           t == IF asked /\ a.peer.has_remote_addr THEN start_shutdown(a.peer, now) ELSE a.peer
           quits == \/ asked /\ (~a.peer.has_remote_addr \/ a.peer.shutdown_in_progress)
                    \/ shutdown_acknowledged(t)
                    \/ shutdown_ack_timed_out(t, now)
                    \/ counterparty_shutdown_ack_sent(t)
           acked == set_echo_ack(a.term)
           current == IF acked.echo_ack # a.term.echo_ack THEN set_current_state(t, acked) ELSE t
           lonely == Newest(t).num = 0 /\ since >= NoClientTimeout
           k == tick(Server, current, now, prophylactic)
           dl == delivered \o a.events
           n == a.srv.last_remote_num
           last == a.srv.last_receiver_state
           C == peer[Client]
           toS == net[Server]
           toC == net[Client]
           b == serveEnd(a, signal, since, prophylactic)
<1>1. b = (CASE quits -> [peer |-> t, sent |-> {}, term |-> a.term, running |-> FALSE]
             [] ~quits /\ lonely -> [peer |-> current, sent |-> {}, term |-> acked, running |-> FALSE]
             [] OTHER -> [peer |-> detach(k.peer, k.sent), sent |-> k.sent, term |-> acked, running |-> TRUE])
  BY DEF serveEnd
<1>2. /\ now \in Nat /\ ECHO_TIMEOUT <= now /\ now <= MaxTime /\ typed \in Seq(Int)
      /\ Session(typed, dl, C, a.peer, now, toS, toC, a.term, n, last) /\ n = Newest(a.peer).num
      /\ term.fb <= a.term.fb /\ a.term.fb \in Nat
  BY DEF SessionInv, Turned
<1> HIDE DEF b, dl, n, last, C, toS, toC, asked
<1>3. Session(typed, dl, C, t, now, toS, toC, a.term, n, last) /\ Newest(t) = Newest(a.peer)
  BY <1>2, ServerShutdown
<1> HIDE DEF t
<1>4. Echoed(a.term, n, now) /\ n \in Nat
  BY <1>2 DEF Session
<1>5. Echoed(acked, n, now) /\ acked.fb = a.term.fb /\ a.term.echo_ack <= acked.echo_ack
  BY <1>2, <1>4, EchoFact
<1> HIDE DEF acked
<1>6. Session(typed, dl, C, t, now, toS, toC, acked, n, last)
  <2>1. a.term.fb <= acked.fb
    BY <1>2, <1>5
  <2> QED BY <1>2, <1>3, <1>5, <2>1, ServerTerminal
<1>7. Session(typed, dl, C, current, now, toS, toC, acked, n, last) /\ Newest(current) = Newest(a.peer)
  <2>1. /\ Session(typed, dl, C, set_current_state(t, acked), now, toS, toC, acked, n, last)
        /\ Newest(set_current_state(t, acked)) = Newest(t)
    <3>1. typed \in Seq(Int)
      BY <1>2
    <3> HIDE DEF current, k, quits, lonely
    <3> QED BY <1>6, <3>1, ServerCurrent
  <2>2. current = t \/ current = set_current_state(t, acked)
    OBVIOUS
  <2> HIDE DEF current
  <2> QED BY <1>3, <1>6, <2>1, <2>2
<1> HIDE DEF current
<1>8. Session(typed, dl, C, k.peer, now, toS, toC \cup k.sent, acked, n, last) /\ Newest(k.peer) = Newest(a.peer)
  <2>1. ServerTicked(typed, dl, C, current, now, toS, toC, acked, n, last, k)
    BY <1>2, <1>7, ServerTicks
  <2> HIDE DEF k
  <2> QED BY <1>7, <2>1 DEF ServerTicked
<1> HIDE DEF k
<1> DEFINE w == detach(k.peer, k.sent)
<1>9. Session(typed, dl, C, w, now, toS, toC \cup k.sent, acked, n, last) /\ Newest(w) = Newest(a.peer)
  <2> DEFINE v == k.peer
  <2>1. DOMAIN v = PeerFields /\ v.has_remote_addr \in BOOLEAN
    BY <1>8 DEF Session, Linked, Sending
  <2>2. w = v \/ w = [v EXCEPT !.has_remote_addr = FALSE]
    BY DEF detach
  <2> HIDE DEF v, w
  <2>3. Kept(v, w) /\ w.current = v.current
    <3>1. CASE w = v
      BY <2>1, <3>1 DEF Kept, PeerFields
    <3>2. CASE w = [v EXCEPT !.has_remote_addr = FALSE]
      <4>1. DOMAIN w = PeerFields /\ w.has_remote_addr = FALSE /\ \A f \in PeerFields \ {"has_remote_addr"} : w[f] = v[f]
        BY <2>1, <3>2 DEF PeerFields
      <4> QED BY <4>1 DEF Kept, PeerFields
    <3> QED BY <2>2, <3>1, <3>2
  <2>4. Session(typed, dl, C, v, now, toS, toC \cup k.sent, acked, n, last) /\ Newest(v) = Newest(a.peer)
    BY <1>8 DEF v
  <2>5. Session(typed, dl, C, w, now, toS, toC \cup k.sent, acked, n, last) /\ Newest(w) = Newest(v)
    BY <1>2, <2>3, <2>4, ServerChanged
  <2> QED BY <2>4, <2>5
<1> HIDE DEF w, quits, lonely
<1>10. \/ b = [peer |-> t, sent |-> {}, term |-> a.term, running |-> FALSE]
       \/ b = [peer |-> current, sent |-> {}, term |-> acked, running |-> FALSE]
       \/ b = [peer |-> w, sent |-> k.sent, term |-> acked, running |-> TRUE]
  BY <1>1 DEF w
<1>11. toC \cup {} = toC
  OBVIOUS
<1>12. /\ Session(typed, dl, C, b.peer, now, toS, toC \cup b.sent, b.term, n, last)
       /\ Newest(b.peer) = Newest(a.peer) /\ b.running \in BOOLEAN /\ b.term.fb = a.term.fb
  <2>1. CASE b = [peer |-> t, sent |-> {}, term |-> a.term, running |-> FALSE]
    BY <1>3, <1>11, <2>1
  <2>2. CASE b = [peer |-> current, sent |-> {}, term |-> acked, running |-> FALSE]
    BY <1>5, <1>7, <1>11, <2>2
  <2>3. CASE b = [peer |-> w, sent |-> k.sent, term |-> acked, running |-> TRUE]
    BY <1>5, <1>9, <2>3
  <2> QED BY <1>10, <2>1, <2>2, <2>3
<1>13. Finished(a, b)
  BY <1>2, <1>12 DEF Finished, dl, n, last, C, toS, toC
<1> QED BY <1>13 DEF b

\* A step of the server: more of the input is delivered, in order, the screens
\* go on, and the client is as it was.
ServerStepped ==
  /\ SessionInv' /\ typed' = typed /\ peer'[Client] = peer[Client] /\ term.fb <= term'.fb
  /\ \E k \in Len(delivered)..Len(typed) : delivered' = SubSeq(typed, 1, k)

\* A turn of the server keeps the invariant.
LEMMA ServeStep ==
  ASSUME SessionInv, NEW got \in {NoInstruction} \union {{m} : m \in net[Server]}, NEW old \in BOOLEAN, NEW fails \in BOOLEAN,
         NEW output, NEW signal, NEW prophylactic \in BOOLEAN, serve(got, old, fails, output, signal, prophylactic)
  PROVE  ServerStepped
<1> DEFINE net0 == serveNetwork(got, old, fails)
           a == serveHost(net0, output)
           since == now - Newest(peer[Server]).timestamp
           b == serveEnd(a, signal, since, prophylactic)
<1>1. /\ peer' = [peer EXCEPT ![Server] = b.peer] /\ term' = b.term /\ srv' = [a.srv EXCEPT !.running = b.running]
      /\ net' = [net EXCEPT ![Client] = @ \union b.sent] /\ delivered' = delivered \o a.events
      /\ now' = now /\ cli' = cli /\ host' = host /\ typed' = typed /\ scenario' = scenario
  BY DEF serve
<1>2. Turned(net0)
  BY NetworkTurn
<1> HIDE DEF net0
<1>3. Turned(a)
  BY <1>2, HostTurn
<1> HIDE DEF a, since
<1>4. Finished(a, b)
  BY <1>3, EndTurn
<1> HIDE DEF b
<1>5. /\ now \in Nat /\ ECHO_TIMEOUT <= now /\ now <= MaxTime /\ scenario \in Scenarios /\ DOMAIN peer = Peers /\ DOMAIN net = Peers
      /\ cli \in [running : BOOLEAN, clean_shutdown : BOOLEAN] /\ host \in {"alive", "closed"} /\ typed \in Seq(Int)
  BY DEF SessionInv
<1>6. /\ DOMAIN peer' = Peers /\ peer'[Server] = b.peer /\ peer'[Client] = peer[Client]
      /\ DOMAIN net' = Peers /\ net'[Server] = net[Server] /\ net'[Client] = net[Client] \cup b.sent
  BY <1>1, <1>5, PeersFact
<1>7. /\ SrvType(srv') /\ srv'.last_remote_num = a.srv.last_remote_num /\ srv'.last_receiver_state = a.srv.last_receiver_state
  <2>1. SrvType(a.srv) /\ b.running \in BOOLEAN
    BY <1>3, <1>4 DEF Turned, Finished
  <2> QED BY <1>1, <2>1 DEF SrvType
<1>8. /\ Session(typed, delivered \o a.events, peer[Client], b.peer, now, net[Server], net[Client] \cup b.sent,
                 b.term, a.srv.last_remote_num, a.srv.last_receiver_state)
      /\ a.srv.last_remote_num = Newest(b.peer).num /\ term.fb <= b.term.fb
  BY <1>4 DEF Finished
<1>9. Session(typed', delivered', peer'[Client], peer'[Server], now', net'[Server], net'[Client],
              term', srv'.last_remote_num, srv'.last_receiver_state)
  BY <1>1, <1>6, <1>7, <1>8
<1>10. SessionInv'
  <2>1. srv'.last_remote_num = Newest(peer'[Server]).num
    BY <1>6, <1>7, <1>8
  <2> QED BY <1>1, <1>5, <1>6, <1>7, <1>9, <2>1 DEF SessionInv, Newest
<1>11. \E k \in Len(delivered)..Len(typed) : delivered' = SubSeq(typed, 1, k)
  BY <1>1, <1>3 DEF Turned
<1> QED BY <1>1, <1>6, <1>8, <1>10, <1>11 DEF ServerStepped

(***************************************************************************)
(* The client's turn.                                                      *)
(***************************************************************************)
ClientStepped ==
  /\ SessionInv' /\ (typed' = typed \/ \E e \in Event : typed' = Append(typed, e))
  /\ Newest(peer[Client]).state.fb <= Newest(peer'[Client]).state.fb
  /\ delivered' = delivered /\ term' = term

\* What a key or a resize adds to the stream is an event.
LEMMA EventFact ==
  ASSUME SessionInv, NEW kind, Len(typed) <= scenario.keys
  PROVE  nextEvent(kind) \in Event /\ nextEvent(kind) \in Int
<1>1. scenario.keys \in 0..MaxTyped /\ MaxTyped \in Nat /\ Len(typed) \in Nat
  <2>1. scenario \in Scenarios /\ typed \in Seq(Int)
    BY DEF SessionInv
  <2>2. scenario.keys \in 0..MaxTyped
    BY <2>1, ScenariosAssumption
  <2> QED BY <2>1, <2>2, ConstantsFact
<1> QED BY <1>1 DEF nextEvent, Event

\* A turn of the client keeps the invariant.
LEMMA ClientStep ==
  ASSUME SessionInv, NEW got \in {NoInstruction} \union {{m} : m \in net[Client]}, NEW kind,
         NEW prophylactic \in BOOLEAN, kind \in {"byte", "resize"} => Len(typed) <= scenario.keys,
         clientTurn(got, kind, prophylactic)
  PROVE  ClientStepped
<1> DEFINE C == peer[Client]
           S == peer[Server]
           toS == net[Server]
           toC == net[Client]
           n == srv.last_remote_num
           last == srv.last_receiver_state
           heard == IF got = NoInstruction THEN C ELSE recv(Client, C, CHOOSE m \in got : TRUE, now, FALSE)
           t == clientInput(heard, kind)
           acked == shutdown_acknowledged(t)
           counterparty == counterparty_shutdown_ack_sent(t)
           quits == acked \/ shutdown_ack_timed_out(t, now) \/ counterparty
           clean == acked \/ (counterparty /\ ~shutdown_ack_timed_out(t, now))
           late == Newest(t).num = 0 /\ now - Newest(t).timestamp > ConnectTimeout
           u == IF late THEN start_shutdown(t, now) ELSE t
           k == tick(Client, u, now, prophylactic)
           z == IF kind \in {"byte", "resize"} /\ ~heard.shutdown_in_progress THEN Append(typed, nextEvent(kind)) ELSE typed
<1>1. /\ peer' = [peer EXCEPT ![Client] = IF quits THEN t ELSE k.peer]
      /\ cli' = [running |-> ~quits, clean_shutdown |-> quits /\ clean]
      /\ net' = [net EXCEPT ![Server] = IF quits THEN @ ELSE @ \union k.sent]
      /\ typed' = z /\ now' = now /\ srv' = srv /\ term' = term /\ host' = host /\ delivered' = delivered /\ scenario' = scenario
  BY DEF clientTurn
<1>2. /\ now \in Nat /\ ECHO_TIMEOUT <= now /\ now <= MaxTime /\ scenario \in Scenarios /\ DOMAIN peer = Peers /\ DOMAIN net = Peers
      /\ SrvType(srv) /\ host \in {"alive", "closed"} /\ typed \in Seq(Int) /\ n = Newest(S).num
      /\ Session(typed, delivered, C, S, now, toS, toC, term, n, last)
  BY DEF SessionInv
<1>3. Session(typed, delivered, heard, S, now, toS, toC, term, n, last) /\ Newest(C).state.fb <= Newest(heard).state.fb
  <2>1. CASE got = NoInstruction
    <3>1. heard = C
      BY <2>1
    <3> HIDE DEF heard, C, S, toS, toC, n, last
    <3>2. Newest(C).state \in Screen
      BY <1>2, ShownFact DEF Mirrored
    <3>3. Newest(C).state.fb \in Nat
      BY <3>2 DEF Screen
    <3>4. Newest(C).state.fb <= Newest(C).state.fb
      BY <3>3
    <3> QED BY <1>2, <3>1, <3>4
  <2>2. CASE got # NoInstruction
    <3>1. PICK m \in toC : got = {m}
      BY <2>2
    <3>2. (CHOOSE x \in got : TRUE) = m
      BY <3>1
    <3>3. heard = recv(Client, C, m, now, FALSE)
      BY <2>2, <3>2
    <3> HIDE DEF heard, C, S, toS, toC, n, last
    <3>4. ClientHeard(typed, delivered, C, S, now, toS, toC, term, n, last, recv(Client, C, m, now, FALSE))
      BY <1>2, ClientReceives
    <3> QED BY <3>3, <3>4 DEF ClientHeard
  <2> QED BY <2>1, <2>2
<1> HIDE DEF heard, C, S, toS, toC, n, last
<1>4. Session(z, delivered, t, S, now, toS, toC, term, n, last) /\ Newest(t) = Newest(heard)
  <2>1. heard.shutdown_in_progress \in BOOLEAN
    BY <1>3 DEF Session, Linked, Sending
  <2>2. CASE kind \in {"byte", "resize"} /\ ~heard.shutdown_in_progress
    <3> DEFINE e == nextEvent(kind)
    <3>1. e \in Int
      BY <2>2, EventFact
    <3>2. t = [heard EXCEPT !.current = Append(@, e)] /\ z = Append(typed, e)
      BY <2>2 DEF clientInput
    <3> HIDE DEF e, t, z
    <3> DEFINE w == [heard EXCEPT !.current = Append(@, e)]
    <3>3. Session(Append(typed, e), delivered, w, S, now, toS, toC, term, n, last) /\ Newest(w) = Newest(heard)
      BY <1>2, <1>3, <2>2, <3>1, ClientTypes
    <3> HIDE DEF w
    <3>4. t = w
      BY <3>2 DEF w
    <3> QED BY <3>2, <3>3, <3>4
  <2>3. CASE kind = "quit"
    <3>1. t = start_shutdown(heard, now) /\ z = typed
      BY <2>3 DEF clientInput
    <3> HIDE DEF t, z
    <3> QED BY <1>2, <1>3, <3>1, ClientShutdown
  <2>4. CASE ~(kind \in {"byte", "resize"} /\ ~heard.shutdown_in_progress) /\ kind # "quit"
    <3>1. t = heard /\ z = typed
      BY <2>1, <2>4 DEF clientInput
    <3> HIDE DEF t, z
    <3> QED BY <1>3, <3>1
  <2> QED BY <2>2, <2>3, <2>4
<1>5. z \in Seq(Int) /\ (z = typed \/ \E e \in Event : z = Append(typed, e))
  <2>1. CASE kind \in {"byte", "resize"} /\ ~heard.shutdown_in_progress
    <3> DEFINE e == nextEvent(kind)
    <3>1. e \in Int /\ e \in Event
      BY <2>1, EventFact
    <3>2. z = Append(typed, e)
      BY <2>1
    <3> HIDE DEF e, z
    <3> QED BY <1>2, <3>1, <3>2
  <2>2. CASE ~(kind \in {"byte", "resize"} /\ ~heard.shutdown_in_progress)
    <3>1. z = typed
      BY <2>2
    <3> QED BY <1>2, <3>1
  <2> QED BY <2>1, <2>2
<1> HIDE DEF t, z, late
<1>6. Session(z, delivered, u, S, now, toS, toC, term, n, last) /\ Newest(u) = Newest(heard)
  <2>1. /\ Session(z, delivered, start_shutdown(t, now), S, now, toS, toC, term, n, last)
        /\ Newest(start_shutdown(t, now)) = Newest(t)
    BY <1>4, <1>5, ClientShutdown
  <2>2. u = t \/ u = start_shutdown(t, now)
    OBVIOUS
  <2> HIDE DEF u
  <2> QED BY <1>4, <2>1, <2>2
<1> HIDE DEF u
<1>7. Session(z, delivered, k.peer, S, now, toS \cup k.sent, toC, term, n, last) /\ Newest(k.peer) = Newest(heard)
  <2>1. ClientTicked(z, delivered, u, S, now, toS, toC, term, n, last, k)
    BY <1>2, <1>5, <1>6, ClientTicks
  <2> HIDE DEF k
  <2> QED BY <1>6, <2>1 DEF ClientTicked
<1> HIDE DEF k
<1>8. quits \in BOOLEAN /\ clean \in BOOLEAN
  BY Zenon DEF shutdown_acknowledged, shutdown_ack_timed_out, counterparty_shutdown_ack_sent
<1>9. cli' \in [running : BOOLEAN, clean_shutdown : BOOLEAN]
  <2> HIDE DEF quits, clean
  <2> QED BY <1>1, <1>8
<1> HIDE DEF quits, clean
<1>10. /\ DOMAIN peer' = Peers /\ peer'[Server] = S /\ peer'[Client] = (IF quits THEN t ELSE k.peer)
       /\ DOMAIN net' = Peers /\ net'[Client] = toC /\ net'[Server] = (IF quits THEN toS ELSE toS \cup k.sent)
  BY <1>1, <1>2, PeersFact DEF S, toC, toS
<1>11. /\ Session(z, delivered, peer'[Client], S, now, net'[Server], toC, term, n, last)
       /\ Newest(peer'[Client]) = Newest(heard)
  BY <1>4, <1>7, <1>8, <1>10
<1>12. Session(typed', delivered', peer'[Client], peer'[Server], now', net'[Server], net'[Client],
               term', srv'.last_remote_num, srv'.last_receiver_state)
  BY <1>1, <1>10, <1>11 DEF n, last
<1>13. SessionInv'
  <2>1. srv'.last_remote_num = Newest(peer'[Server]).num
    BY <1>1, <1>2, <1>10 DEF n
  <2> QED BY <1>1, <1>2, <1>5, <1>9, <1>10, <1>12, <2>1 DEF SessionInv, Newest
<1>14. Newest(C).state.fb <= Newest(peer'[Client]).state.fb
  BY <1>3, <1>11
<1> QED BY <1>1, <1>5, <1>13, <1>14 DEF ClientStepped, C

\* Time passes.
LEMMA TimeStep ==
  ASSUME SessionInv, TimePasses
  PROVE  SessionInv'
<1>1. /\ now \in Nat /\ ECHO_TIMEOUT <= now /\ now <= MaxTime /\ scenario \in Scenarios
      /\ Session(typed, delivered, peer[Client], peer[Server], now, net[Server], net[Client],
                 term, srv.last_remote_num, srv.last_receiver_state)
  BY DEF SessionInv
<1>2. /\ now' = now + 1 /\ now < scenario.until /\ peer' = peer /\ net' = net /\ cli' = cli /\ srv' = srv /\ term' = term
      /\ host' = host /\ typed' = typed /\ delivered' = delivered /\ scenario' = scenario
  BY DEF TimePasses
<1>3. now' \in Nat /\ ECHO_TIMEOUT <= now' /\ now' <= MaxTime /\ now <= now'
  <2>1. scenario.until \in 0..MaxTime
    BY <1>1, ScenariosAssumption
  <2> QED BY <1>1, <1>2, <2>1, ConstantsFact
<1>4. ASSUME NEW t, Sending(t, now) PROVE Sending(t, now')
  <2>1. Back(t).timestamp \in Nat
    BY <1>4, SenderFact
  <2>2. Back(t).timestamp <= now'
    BY <1>1, <1>3, <1>4, <2>1 DEF Sending
  <2> QED BY <1>4, <2>2 DEF Sending
<1>5. Linked(peer[Server], peer[Client], now', net[Client], net[Server])
  BY <1>1, <1>4 DEF Session, Linked
<1>6. Echoed(term, srv.last_remote_num, now')
  <2>1. srv.last_remote_num \in Nat /\ Echoed(term, srv.last_remote_num, now)
    BY <1>1 DEF Session
  <2>2. srv.last_remote_num <= srv.last_remote_num
    BY <2>1
  <2> QED BY <1>1, <1>3, <2>1, <2>2, EchoedLater
<1>7. Session(typed, delivered, peer[Client], peer[Server], now', net[Server], net[Client],
              term, srv.last_remote_num, srv.last_receiver_state)
  BY <1>1, <1>5, <1>6 DEF Session
<1>8. Session(typed', delivered', peer'[Client], peer'[Server], now', net'[Server], net'[Client],
              term', srv'.last_remote_num, srv'.last_receiver_state)
  BY <1>2, <1>7
<1> QED BY <1>2, <1>3, <1>8 DEF SessionInv, Newest

(***************************************************************************)
(* Theorems                                                                *)
(***************************************************************************)
\* Every step is a turn of the server, of the client, or neither side's.
Quiet == SessionInv' /\ UNCHANGED <<typed, delivered, term, peer>>

\* No other step touches what a side knows.
LEMMA StepFact == SessionInv /\ [Next]_vars => ServerStepped \/ ClientStepped \/ Quiet
<1> SUFFICES ASSUME SessionInv, [Next]_vars PROVE ServerStepped \/ ClientStepped \/ Quiet
  OBVIOUS
<1>1. CASE ClientTurn
  <2>1. PICK got \in {NoInstruction} \union {{m} : m \in net[Client]}, kind \in Kinds, prophylactic \in BOOLEAN :
          /\ kind \in {"byte", "resize"} => Len(typed) <= scenario.keys
          /\ clientTurn(got, kind, prophylactic)
    BY <1>1 DEF ClientTurn
  <2>2. ClientStepped
    BY <2>1, ClientStep
  <2> QED BY <2>2
<1>2. CASE ServerTurn
  <2>1. \E got \in {NoInstruction} \union {{m} : m \in net[Server]}, old \in BOOLEAN, fails \in BOOLEAN, prophylactic \in BOOLEAN :
           \E output : serve(got, old, fails, output, "none", prophylactic)
    <3>1. PICK got \in {NoInstruction} \union {{m} : m \in net[Server]},
               old \in IF peer[Server].has_remote_addr /\ "reorder" \in scenario.faults THEN BOOLEAN ELSE {FALSE},
               output \in {"none"} \union (IF host = "alive" THEN {"bytes"} ELSE {"eof", "eio"}),
               fails \in IF host = "closed" /\ "resize" \in scenario.faults THEN BOOLEAN ELSE {FALSE},
               prophylactic \in BOOLEAN : serve(got, old, fails, output, "none", prophylactic)
      BY <1>2 DEF ServerTurn
    <3>2. old \in BOOLEAN /\ fails \in BOOLEAN
      OBVIOUS
    <3> QED BY <3>1, <3>2
  <2>2. PICK got \in {NoInstruction} \union {{m} : m \in net[Server]}, old \in BOOLEAN, fails \in BOOLEAN, prophylactic \in BOOLEAN :
           \E output : serve(got, old, fails, output, "none", prophylactic)
    BY <2>1
  <2>3. ServerStepped
    BY <2>2, ServeStep
  <2> QED BY <2>3
<1>3. CASE ServerSignal
  <2>1. PICK signal \in scenario.faults \intersect {"term", "usr1"} : serve(NoInstruction, FALSE, FALSE, "none", signal, FALSE)
    BY <1>3 DEF ServerSignal
  <2>2. NoInstruction \in {NoInstruction} \union {{m} : m \in net[Server]} /\ FALSE \in BOOLEAN
    OBVIOUS
  <2>3. ServerStepped
    BY <2>1, <2>2, ServeStep
  <2> QED BY <2>3
<1>4. CASE ChildExit
  <2>1. /\ host' = "closed" /\ now' = now /\ peer' = peer /\ net' = net /\ cli' = cli /\ srv' = srv /\ term' = term
        /\ typed' = typed /\ delivered' = delivered /\ scenario' = scenario
    BY <1>4 DEF ChildExit
  <2>2. SessionInv'
    BY <2>1 DEF SessionInv, Newest
  <2> QED BY <2>1, <2>2 DEF Quiet
<1>5. CASE TimePasses
  <2>1. SessionInv'
    BY <1>5, TimeStep
  <2> QED BY <1>5, <2>1 DEF Quiet, TimePasses
<1>6. CASE UNCHANGED vars
  <2>1. /\ host' = host /\ now' = now /\ peer' = peer /\ net' = net /\ cli' = cli /\ srv' = srv /\ term' = term
        /\ typed' = typed /\ delivered' = delivered /\ scenario' = scenario
    BY <1>6 DEF vars
  <2>2. SessionInv'
    BY <2>1 DEF SessionInv, Newest
  <2> QED BY <2>1, <2>2 DEF Quiet
<1> QED BY <1>1, <1>2, <1>3, <1>4, <1>5, <1>6 DEF Next

\* The invariant of the session is inductive.
THEOREM SessionInvariant == Spec => []SessionInv
<1>1. SessionInv /\ [Next]_vars => SessionInv'
  BY StepFact DEF ServerStepped, ClientStepped, Quiet
<1> QED BY <1>1, InitSession, PTL DEF Spec

\* The invariant, for one of the sides.
LEMMA SideFact ==
  ASSUME SessionInv, NEW p \in Peers
  PROVE  /\ Sending(peer[p], now) /\ Receiving(peer[p])
         /\ Exchange(peer[p], peer[Other(p)], net[Other(p)], net[p])
         /\ Exchange(peer[Other(p)], peer[p], net[p], net[Other(p)])
         /\ Sending(peer[Other(p)], now)
<1>1. Linked(peer[Server], peer[Client], now, net[Client], net[Server])
  BY DEF SessionInv, Session
<1> QED BY <1>1, PeersFact DEF Linked, Peers

\* The invariant implies the agreement of the states.
LEMMA InvStates == SessionInv => StatesAgree
<1> SUFFICES ASSUME SessionInv PROVE StatesAgree
  OBVIOUS
<1>1. now \in Nat /\ ECHO_TIMEOUT <= now /\ now <= MaxTime
  BY DEF SessionInv
<1>2. /\ Newest(peer[Client]).state \in Screen /\ Newest(peer[Client]).state.fb <= term.fb
      /\ Newest(peer[Client]).state.echo_ack <= srv.last_remote_num
      /\ \A i \in 1..Len(peer[Client].received_states), j \in 1..Len(peer[Server].sent_states) :
           peer[Client].received_states[i].num = peer[Server].sent_states[j].num
             => peer[Client].received_states[i].state = peer[Server].sent_states[j].state
  <2>1. /\ now \in Nat /\ typed \in Seq(Int)
        /\ Session(typed, delivered, peer[Client], peer[Server], now, net[Server], net[Client],
                   term, srv.last_remote_num, srv.last_receiver_state)
    BY DEF SessionInv
  <2>2. Mirrored(peer[Client], peer[Server], term, srv.last_remote_num)
    BY <2>1, ShownFact
  <2> QED BY <2>2 DEF Mirrored
<1>3. ASSUME NEW p \in Peers
      PROVE  /\ peer[p].sent_states # <<>> /\ peer[p].received_states # <<>>
             /\ \A i, j \in DOMAIN peer[p].received_states :
                  i < j => peer[p].received_states[i].num < peer[p].received_states[j].num
             /\ peer[p].failed = FALSE /\ peer[p].has_remote_addr \in BOOLEAN
  <2>1. Sending(peer[p], now) /\ Receiving(peer[p])
    BY SideFact
  <2>2. /\ peer[p].sent_states \in Seq(Entry) /\ Len(peer[p].sent_states) \in Nat \ {0} /\ peer[p].failed = FALSE
        /\ peer[p].has_remote_addr \in BOOLEAN
    BY <2>1 DEF Sending
  <2>3. /\ peer[p].received_states \in Seq(Entry) /\ Len(peer[p].received_states) \in Nat \ {0}
        /\ Increasing(peer[p].received_states) /\ DOMAIN peer[p].received_states = 1..Len(peer[p].received_states)
    BY <2>1 DEF Receiving
  <2>4. peer[p].sent_states # <<>> /\ peer[p].received_states # <<>>
    BY <2>2, <2>3
  <2> QED BY <2>2, <2>3, <2>4 DEF Increasing
<1>4. ASSUME NEW p \in Peers, NEW m \in net[p]
      PROVE  {m.old, m.new, m.ack, m.throwaway} \subseteq 0..LastNum
  <2> DEFINE q == Other(p)
  <2>1. Exchange(peer[q], peer[p], net[p], net[q]) /\ Exchange(peer[p], peer[q], net[q], net[p]) /\ Sending(peer[q], now)
    BY SideFact
  <2> HIDE DEF q
  <2>2. /\ m.throwaway \in Nat /\ m.old \in Nat /\ m.new \in Nat
        /\ m.throwaway <= m.old /\ m.old <= m.new /\ m.new <= Back(peer[q]).num /\ m.ack \in 0..LastNum
    BY <2>1 DEF Exchange
  <2>3. Back(peer[q]).num \in Nat /\ Back(peer[q]).num <= LastNum
    BY <2>1, SenderFact
  <2> QED BY <2>2, <2>3, ConstantsFact
<1>5. TypeOK
  <2>1. now \in ECHO_TIMEOUT..MaxTime
    BY <1>1, ConstantsFact
  <2>2. cli \in [running : BOOLEAN, clean_shutdown : BOOLEAN] /\ srv.running \in BOOLEAN /\ srv.child_released \in BOOLEAN
        /\ term.fb \in Nat /\ host \in {"alive", "closed"}
    BY DEF SessionInv, SrvType, Session, Echoed
  <2>3. \A p \in Peers : peer[p].failed \in BOOLEAN
    BY <1>3
  <2> QED BY <1>3, <1>4, <2>1, <2>2, <2>3 DEF TypeOK
<1>6. NoAssertionFails
  BY <1>3 DEF NoAssertionFails
<1>7. NumbersAgree
  <2>1. /\ peer[Client].received_states \in Seq(Entry) /\ peer[Server].sent_states \in Seq(Entry)
    BY SideFact, PeersFact DEF Sending, Receiving
  <2>2. /\ DOMAIN peer[Client].received_states = 1..Len(peer[Client].received_states)
        /\ DOMAIN peer[Server].sent_states = 1..Len(peer[Server].sent_states)
    BY <2>1
  <2> QED BY <1>2, <2>2 DEF NumbersAgree, Range
<1>8. ReferenceKept
  <2> SUFFICES ASSUME NEW p \in Peers
               PROVE  \E r \in Range(peer[Other(p)].received_states) : r.num = Known(peer[p]).num
    BY DEF ReferenceKept
  <2> DEFINE q == Other(p)
  <2>1. q \in Peers
    BY PeersFact DEF Other
  <2>2. Known(peer[p]).num \in Nums(peer[q].received_states) /\ Receiving(peer[q])
    BY <2>1, SideFact DEF Exchange
  <2>3. Nums(peer[q].received_states) = {s.num : s \in Range(peer[q].received_states)}
    BY <2>2, ReceiverFact
  <2> QED BY <2>2, <2>3
<1>9. AssumedFirstOrLast
  <2> SUFFICES ASSUME NEW p \in Peers
               PROVE  assumed_receiver_state(peer[p], now) \in {1, Len(peer[p].sent_states)}
    BY DEF AssumedFirstOrLast
  <2>1. Sending(peer[p], now)
    BY SideFact
  <2> QED BY <1>1, <2>1, AssumedFact
<1>10. EchoAckHonest
  BY <1>2 DEF EchoAckHonest
<1> QED BY <1>5, <1>6, <1>7, <1>8, <1>9, <1>10 DEF StatesAgree

\* Safety of the session for every value of the constants: no assertion of the
\* transport fails, no state that is still needed as a reference is thrown
\* away, a number means the same screen on both sides, the assumed state is the
\* first or the last, and no echo acknowledgement is ahead of the input.
THEOREM StatesAlwaysAgree == Spec => []StatesAgree
BY SessionInvariant, InvStates, PTL

\* A state with the last number has the last value, on both sides.
LEMMA InvLast == SessionInv => LastStateArrives
<1> SUFFICES ASSUME SessionInv PROVE LastStateArrives
  OBVIOUS
<1> DEFINE C == peer[Client]
           S == peer[Server]
           y == typed
           n == srv.last_remote_num
           last == srv.last_receiver_state
<1>1. /\ now \in Nat /\ y \in Seq(Int) /\ n = Newest(S).num
      /\ Session(y, delivered, C, S, now, net[Server], net[Client], term, n, last)
  BY DEF SessionInv
<1>2. Linked(S, C, now, net[Client], net[Server])
  BY <1>1 DEF Session
<1> HIDE DEF C, S, y, n, last
<1>3. ASSUME NEW t, NEW u, NEW forth, NEW back, Sending(t, now), Receiving(u), Exchange(t, u, forth, back), shutdown_acknowledged(t)
      PROVE  Newest(u).num = LastNum /\ Back(t).num = LastNum
  <2>1. Known(t).num = LastNum
    BY <1>3 DEF shutdown_acknowledged
  <2>2. LastNum \in Nums(u.received_states)
    BY <1>3, <2>1 DEF Exchange
  <2>3. LastNum <= Newest(u).num /\ Newest(u).num <= LastNum /\ Newest(u).num \in Nat
    BY <1>3, <2>2, ReceiverFact
  <2>4. Back(t).num \in Nat /\ Back(t).num <= LastNum /\ Known(t).num <= Back(t).num
    BY <1>3, SenderFact
  <2> QED BY <2>1, <2>3, <2>4, ConstantsFact
<1>4. ASSUME shutdown_acknowledged(C) PROVE delivered = y
  <2>1. n = LastNum /\ Back(C).num = LastNum
    BY <1>1, <1>2, <1>3, <1>4 DEF Linked
  <2>2. PICK V, b, r : Content(Client, y, V, b, r, Len(y), C, S, net[Server]) /\ delivered = Cut(y, 0, V[n])
    BY <1>1 DEF Session, Upstream
  <2>3. V[n] = Len(y)
    BY <2>1, <2>2 DEF Content, Growing
  <2>4. delivered = SubSeq(y, 1, Len(y))
    BY <2>2, <2>3 DEF Cut
  <2> QED BY <1>1, <2>4, SubSeqFull
<1>5. ASSUME shutdown_acknowledged(S) PROVE Newest(C).state = S.current
  <2>1. Newest(C).num = LastNum
    BY <1>2, <1>3, <1>5 DEF Linked
  <2>2. /\ now \in Nat /\ y \in Seq(Int)
        /\ Session(y, delivered, C, S, now, net[Server], net[Client], term, n, last)
    BY <1>1
  <2>3. Mirrored(C, S, term, n)
    BY <2>2, ShownFact
  <2> QED BY <2>1, <2>3 DEF Mirrored
<1> QED BY <1>4, <1>5 DEF LastStateArrives, C, S, y

\* A shutdown that is acknowledged has lost nothing: all that was typed was
\* delivered, or the client shows the server's last screen.
THEOREM LastStateAlwaysArrives == Spec => []LastStateArrives
BY SessionInvariant, InvLast, PTL

\* What the client shows is a screen that the server has produced.
ShownProduced ==
  Newest(peer[Client]).state.fb \in Nat /\ term.fb \in Nat /\ Newest(peer[Client]).state.fb <= term.fb

\* The invariant implies it.
LEMMA InvShown == SessionInv => ShownProduced
<1> SUFFICES ASSUME SessionInv PROVE ShownProduced
  OBVIOUS
<1>1. /\ now \in Nat /\ typed \in Seq(Int)
      /\ Session(typed, delivered, peer[Client], peer[Server], now, net[Server], net[Client],
                 term, srv.last_remote_num, srv.last_receiver_state)
  BY DEF SessionInv
<1>2. Newest(peer[Client]).state \in Screen /\ Newest(peer[Client]).state.fb <= term.fb
  BY <1>1, ShownFact DEF Mirrored
<1>3. term.fb \in Nat
  BY <1>1 DEF Session, Echoed
<1> QED BY <1>2, <1>3 DEF Screen, ShownProduced

\* A session starts as MoshSync starts.
LEMMA SyncInit == Init => Sync!Init
<1> SUFFICES ASSUME Init PROVE Sync!Init
  OBVIOUS
<1>1. SessionInv
  BY InitSession
<1>2. typed = <<firstResize>> /\ delivered = <<>> /\ term.fb = 0
  BY DEF Init
<1>3. Newest(peer[Client]).state.fb = 0
  BY <1>1, <1>2, InvShown DEF ShownProduced
<1>4. firstResize \in Event
  BY ConstantsFact DEF firstResize, Event
<1> QED BY <1>2, <1>3, <1>4 DEF Sync!Init

\* Every step of the session is a step of MoshSync or leaves its variables alone.
LEMMA SyncStep == SessionInv /\ [Next]_vars => [Sync!Next]_(Sync!vars)
<1> SUFFICES ASSUME SessionInv, [Next]_vars PROVE [Sync!Next]_(Sync!vars)
  OBVIOUS
<1> DEFINE f == Newest(peer[Client]).state.fb
<1>1. f \in Nat /\ term.fb \in Nat
  BY InvShown DEF ShownProduced
<1>5. SessionInv' => ShownProduced'
  BY InvShown, PTL
<1>2. CASE ServerStepped
  <2>1. /\ typed' = typed /\ peer'[Client] = peer[Client] /\ term.fb <= term'.fb /\ SessionInv'
        /\ \E k \in Len(delivered)..Len(typed) : delivered' = SubSeq(typed, 1, k)
    BY <1>2 DEF ServerStepped
  <2>2. f' = f
    BY <2>1 DEF Newest
  <2>3. term'.fb >= term.fb
    <3>1. term'.fb \in Nat
      BY <2>1, <1>5 DEF ShownProduced
    <3> QED BY <1>1, <2>1, <3>1
  <2>4. Sync!ServerTurn
    BY <2>1, <2>2, <2>3 DEF Sync!ServerTurn
  <2> QED BY <2>4 DEF Sync!Next
<1>3. CASE ClientStepped
  <2>1. /\ typed' = typed \/ \E e \in Event : typed' = Append(typed, e)
        /\ f <= f' /\ delivered' = delivered /\ term' = term /\ SessionInv'
    BY <1>3 DEF ClientStepped, Newest
  <2>2. f' \in Nat /\ f' <= term'.fb
    <3>1. f' \in Nat /\ term'.fb \in Nat /\ f' <= term'.fb
      BY <2>1, <1>5 DEF ShownProduced
    <3> QED BY <3>1
  <2>3. f' \in f..term.fb
    <3> HIDE DEF f
    <3> QED BY <1>1, <2>1, <2>2
  <2>4. Sync!ClientTurn
    BY <2>1, <2>3 DEF Sync!ClientTurn
  <2> QED BY <2>4 DEF Sync!Next
<1>4. CASE Quiet
  <2>1. f' = f
    BY <1>4 DEF Quiet, Newest
  <2> QED BY <1>4, <2>1 DEF Quiet, Sync!vars
<1> QED BY <1>2, <1>3, <1>4, StepFact

\* The session implements MoshSync: whatever the network does, the input is
\* delivered once and in order, and the user never sees an older screen after
\* a newer one.
THEOREM SessionImplementsSync == Spec => SyncSpec
BY SessionInvariant, SyncInit, SyncStep, PTL DEF Spec, SyncSpec, Sync!Spec
=============================================================================
