------------------------ MODULE MoshConnection_proofs ------------------------
(***************************************************************************)
(* Proofs about MoshConnection, for every value of its constants: any      *)
(* sizes, MTUs, limits, widths of the timestamps, and any behaviour of the *)
(* network.  Four invariants, each inductive with the ones before it:      *)
(*   LinkInv   the numbers on the wire lie below the counter of their      *)
(*             sender, which the number of blocks sealed bounds;           *)
(*   ClockInv  the 16-bit timestamps are near the true times they stand    *)
(*             for, and those are not older than datagrams live;           *)
(*   FragInv   fragments with one id come from one cut of one instruction, *)
(*             and an assembly holds such fragments in their places;       *)
(*   PortInv   the ports that are known outside the client are those of    *)
(*             open sockets, unless they were seen long ago.               *)
(***************************************************************************)
EXTENDS MoshConnection, FiniteSetTheorems, WellFoundedInduction, TLAPS

\* Remainders.
LEMMA ModRange ==
  ASSUME NEW a \in Int, NEW n \in Nat \ {0}
  PROVE  a % n \in 0..(n - 1)
OBVIOUS

\* A small number is its own remainder.
LEMMA ModSmall ==
  ASSUME NEW a \in Nat, NEW n \in Nat \ {0}, a < n
  PROVE  a % n = a
OBVIOUS

\* A quotient is the greatest multiple that fits.
LEMMA DivFact ==
  ASSUME NEW a \in Nat, NEW n \in Nat \ {0}
  PROVE  /\ a \div n \in Nat
         /\ (a \div n) * n <= a
         /\ a < (a \div n) * n + n
OBVIOUS

\* Quotient and remainder.
LEMMA DivMod ==
  ASSUME NEW a \in Int, NEW n \in Nat \ {0}
  PROVE  a \div n \in Int /\ a = (a \div n) * n + (a % n)
OBVIOUS

\* The smaller of two numbers.
LEMMA MinTwo ==
  ASSUME NEW a \in Int, NEW b \in Int
  PROVE  Min({a, b}) = IF a <= b THEN a ELSE b
BY DEF Min

\* The greater of two numbers.
LEMMA MaxTwo ==
  ASSUME NEW a \in Int, NEW b \in Int
  PROVE  Max({a, b}) = IF a <= b THEN b ELSE a
BY DEF Max

\* Multiplication keeps the order.
LEMMA ProductOrder ==
  ASSUME NEW a \in Nat, NEW b \in Nat, NEW n \in Nat, a <= b
  PROVE  a * n <= b * n
OBVIOUS

(***************************************************************************)
(* One connection.                                                         *)
(***************************************************************************)
ConnFields ==
  {"socks", "has_remote_addr", "remote_addr", "MTU", "counter", "blocks", "saved_timestamp", "saved_at", "saved_true",
   "expected_receiver_seq", "last_heard", "last_port_choice", "last_roundtrip_success", "acked", "sample",
   "true_sample", "next_instruction_id", "last_instruction", "last_MTU", "failed", "dead"}

\* What sending changes.
SendFields ==
  {"socks", "has_remote_addr", "MTU", "counter", "blocks", "saved_timestamp", "saved_at", "saved_true",
   "last_port_choice", "dead"}

SocksOK(p, c) ==
  IF p = Client THEN c.socks \in Seq(Int) /\ Len(c.socks) \in 1..MAX_PORTS_OPEN ELSE Len(c.socks) \in {0, 1}

\* The number of a live connection is at most the number of blocks it sealed.
Fresh(p, c) ==
  /\ DOMAIN c = ConnFields
  /\ c.counter \in Nat /\ c.blocks \in Nat /\ c.dead \in BOOLEAN
  /\ c.MTU \in {DEFAULT_MTU, FALLBACK_MTU}
  /\ c.last_port_choice \in Int
  /\ c.counter <= BlockLimit
  /\ ~c.dead => c.counter <= c.blocks /\ c.blocks < BlockLimit
  /\ SocksOK(p, c)

\* c is the connection b after sending some datagrams.
Along(p, b, c) ==
  /\ Fresh(p, c)
  /\ b.counter <= c.counter
  /\ \A x \in ConnFields \ SendFields : c[x] = b[x]
  /\ \/ c.saved_timestamp = b.saved_timestamp /\ c.saved_at = b.saved_at /\ c.saved_true = b.saved_true
     \/ c.saved_timestamp = NoTimestamp /\ c.saved_at = 0 /\ c.saved_true = 0

\* prune_sockets changes the sockets only, and leaves at most MAX_PORTS_OPEN.
LEMMA PruneFact ==
  ASSUME NEW p \in Peers, NEW c, NEW t \in Int, DOMAIN c = ConnFields, c.last_port_choice \in Int,
         IF p = Client THEN c.socks \in Seq(Int) /\ Len(c.socks) > 0 ELSE Len(c.socks) \in {0, 1}
  PROVE  /\ DOMAIN prune_sockets(c, t) = ConnFields
         /\ SocksOK(p, prune_sockets(c, t))
         /\ \A x \in ConnFields \ {"socks"} : prune_sockets(c, t)[x] = c[x]
<1> DEFINE n == Len(c.socks)
           young == IF n > 1 /\ t - c.last_port_choice > MAX_OLD_SOCKET_AGE THEN <<c.socks[n]>> ELSE c.socks
           m == Len(young)
           kept == IF m > MAX_PORTS_OPEN THEN SubSeq(young, m - MAX_PORTS_OPEN + 1, m) ELSE young
<1>1. prune_sockets(c, t) = [c EXCEPT !.socks = kept]
  BY DEF prune_sockets
<1>2. MAX_PORTS_OPEN \in Nat \ {0}
  BY ConnectionAssumption
<1>3. CASE p = Client
  <2>1. c.socks \in Seq(Int) /\ n \in Nat \ {0}
    BY <1>3
  <2>2. young \in Seq(Int) /\ m \in Nat \ {0}
    BY <2>1
  <2> HIDE DEF young, m
  <2>3. kept \in Seq(Int) /\ Len(kept) \in 1..MAX_PORTS_OPEN
    <3>1. CASE m > MAX_PORTS_OPEN
      <4>1. m = Len(young)
        BY DEF m
      <4>2. m - MAX_PORTS_OPEN + 1 \in 1..m
        BY <1>2, <2>2, <3>1
      <4>3. SubSeq(young, m - MAX_PORTS_OPEN + 1, m) \in Seq(Int)
        BY <2>2, <4>1, <4>2
      <4>4. Len(SubSeq(young, m - MAX_PORTS_OPEN + 1, m)) = MAX_PORTS_OPEN
        BY <2>2, <4>1, <4>2, <1>2
      <4> QED BY <3>1, <4>3, <4>4, <1>2
    <3>2. CASE ~(m > MAX_PORTS_OPEN)
      BY <3>2, <2>2, <1>2 DEF m
    <3> QED BY <3>1, <3>2
  <2> HIDE DEF kept
  <2> QED BY <1>1, <2>3, <1>3 DEF SocksOK, ConnFields
<1>4. CASE p # Client
  <2>1. n \in {0, 1}
    BY <1>4
  <2>2. kept = c.socks
    BY <2>1, <1>2
  <2> HIDE DEF kept
  <2> QED BY <1>1, <2>1, <2>2, <1>4 DEF SocksOK, ConnFields
<1> QED BY <1>3, <1>4

\* encrypt takes the next number; the connection dies before a block limit is passed.
LEMMA EncryptFact ==
  ASSUME NEW p \in Peers, NEW c, Fresh(p, c), ~c.dead, NEW len \in Nat \ {0}
  PROVE  /\ Fresh(p, encrypt(c, len))
         /\ encrypt(c, len).counter = c.counter + 1
         /\ \A x \in ConnFields \ {"counter", "blocks", "dead"} : encrypt(c, len)[x] = c[x]
<1> DEFINE u == unique(c)
           e == encrypt(c, len)
<1>1. /\ c.counter \in Nat /\ c.blocks \in Nat /\ c.counter <= c.blocks /\ c.blocks < BlockLimit
      /\ BlockLimit \in Nat /\ CounterSpan \in Nat \ {0} /\ BlockLimit < CounterSpan
  BY ConnectionAssumption DEF Fresh
<1>2. (c.counter + 1) % CounterSpan = c.counter + 1
  BY <1>1, ModSmall
<1>3. DOMAIN c = ConnFields
  BY DEF Fresh
<1>4. u = [c EXCEPT !.counter = c.counter + 1, !.dead = FALSE]
  <2>1. ((c.counter + 1) % CounterSpan = 0) = FALSE
    BY <1>1, <1>2
  <2> QED BY <1>2, <2>1, Zenon DEF unique
<1>5. e = [u EXCEPT !.blocks = u.blocks + len, !.dead = u.dead \/ c.blocks + len >= BlockLimit]
  BY DEF encrypt
<1> HIDE DEF u, e
<1>6. /\ DOMAIN u = ConnFields /\ u.counter = c.counter + 1 /\ u.dead = FALSE /\ u.blocks = c.blocks
      /\ \A x \in ConnFields \ {"counter", "dead"} : u[x] = c[x]
  BY <1>3, <1>4 DEF ConnFields
<1>7. /\ DOMAIN e = ConnFields /\ e.counter = c.counter + 1 /\ e.blocks = c.blocks + len
      /\ e.dead = (FALSE \/ c.blocks + len >= BlockLimit)
      /\ \A x \in ConnFields \ {"counter", "blocks", "dead"} : e[x] = c[x]
  BY <1>5, <1>6 DEF ConnFields
<1>8. e.dead \in BOOLEAN /\ (~e.dead <=> c.blocks + len < BlockLimit)
  <2>1. (c.blocks + len >= BlockLimit) <=> ~(c.blocks + len < BlockLimit)
    BY <1>1
  <2> QED BY <1>7, <2>1, Zenon
<1>9. e.MTU = c.MTU /\ e.socks = c.socks /\ e.last_port_choice = c.last_port_choice
  BY <1>7 DEF ConnFields
<1>10. SocksOK(p, e)
  BY <1>9 DEF Fresh, SocksOK
<1>11. e.counter \in Nat /\ e.blocks \in Nat /\ e.counter <= BlockLimit
  BY <1>1, <1>7
<1>12. ~e.dead => e.counter <= e.blocks /\ e.blocks < BlockLimit
  BY <1>1, <1>7, <1>8
<1>13. Fresh(p, e)
  BY <1>7, <1>8, <1>9, <1>10, <1>11, <1>12 DEF Fresh
<1> QED BY <1>7, <1>13 DEF e

\* Sending composes.
LEMMA AlongSelf ==
  ASSUME NEW p \in Peers, NEW c, Fresh(p, c)
  PROVE  Along(p, c, c)
BY DEF Along, Fresh

\* Two pieces of the send loop make one.
LEMMA AlongMore ==
  ASSUME NEW p \in Peers, NEW a, NEW b, NEW c, a.counter \in Nat, Along(p, a, b), Along(p, b, c)
  PROVE  Along(p, a, c)
<1>1. a.counter <= c.counter
  BY DEF Along, Fresh
<1>2. \A x \in ConnFields \ SendFields : c[x] = a[x]
  BY DEF Along
<1> QED BY <1>1, <1>2 DEF Along

\* One fragment leaves under the number the connection had, or not at all.
LEMMA SendFact ==
  ASSUME NEW p \in Peers, NEW c, NEW sent, NEW t \in Int, NEW f, NEW pathMTU,
         Fresh(p, c), f.len \in Nat \ {0}
  PROVE  LET x == [c |-> c, sent |-> sent]
             y == send(x, p, t, f, pathMTU)
         IN  /\ y = [c |-> y.c, sent |-> y.sent]
             /\ Along(p, c, y.c)
             /\ \/ y.sent = sent
                \/ ~c.dead /\ y.sent = sent \union {new_packet(c, p, t, f)} /\ y.c.counter = c.counter + 1
<1> DEFINE x == [c |-> c, sent |-> sent]
           y == send(x, p, t, f, pathMTU)
           returned == t - c.saved_at < HoldLimit
           held == [c EXCEPT !.saved_timestamp = IF returned THEN NoTimestamp ELSE @,
                             !.saved_at = IF returned THEN 0 ELSE @, !.saved_true = IF returned THEN 0 ELSE @]
           e == encrypt(held, f.len)
           tooBig == f.len > pathMTU
           s == [e EXCEPT !.MTU = IF tooBig THEN FALLBACK_MTU ELSE @]
           detach == p = Server /\ t - c.last_heard > SERVER_ASSOCIATION_TIMEOUT
           hop == /\ p = Client /\ t - c.last_port_choice > PORT_HOP_INTERVAL
                  /\ t - c.last_roundtrip_success > PORT_HOP_INTERVAL
           open == IF hop THEN hop_port(s, t) ELSE [s EXCEPT !.has_remote_addr = ~detach]
<1>1. y = IF ~c.has_remote_addr \/ c.dead THEN x
          ELSE IF e.dead THEN [x EXCEPT !.c = e]
          ELSE [c |-> open, sent |-> IF tooBig THEN sent ELSE sent \union {new_packet(c, p, t, f)}]
  BY DEF send
<1> HIDE DEF y
<1>2. CASE ~c.has_remote_addr \/ c.dead
  <2>1. y = x
    BY <1>1, <1>2
  <2>2. y.c = c /\ y.sent = sent
    BY <2>1
  <2> QED BY <2>1, <2>2, AlongSelf DEF y
<1>3. CASE c.has_remote_addr /\ ~c.dead
  <2>1. DOMAIN held = ConnFields /\ \A z \in ConnFields \ {"saved_timestamp", "saved_at", "saved_true"} : held[z] = c[z]
    BY DEF Fresh, ConnFields
  <2>2. \/ held.saved_timestamp = c.saved_timestamp /\ held.saved_at = c.saved_at /\ held.saved_true = c.saved_true
        \/ held.saved_timestamp = NoTimestamp /\ held.saved_at = 0 /\ held.saved_true = 0
    BY DEF Fresh, ConnFields
  <2> HIDE DEF held
  <2>3. /\ held.counter = c.counter /\ held.blocks = c.blocks /\ held.dead = c.dead /\ held.MTU = c.MTU
        /\ held.last_port_choice = c.last_port_choice /\ held.socks = c.socks
    BY <2>1 DEF ConnFields
  <2>4. Fresh(p, held)
    BY <2>1, <2>3 DEF Fresh, SocksOK
  <2>5. ~held.dead
    BY <1>3, <2>3
  <2>6. /\ Fresh(p, e) /\ e.counter = c.counter + 1
        /\ \A z \in ConnFields \ {"counter", "blocks", "dead"} : e[z] = held[z]
    BY <2>3, <2>4, <2>5, EncryptFact
  <2> HIDE DEF e
  <2>7. Along(p, c, e)
    <3>1. c.counter <= e.counter
      BY <2>6 DEF Fresh
    <3>2. \A z \in ConnFields \ SendFields : e[z] = c[z]
      BY <2>1, <2>6 DEF SendFields
    <3>3. e.saved_timestamp = held.saved_timestamp /\ e.saved_at = held.saved_at /\ e.saved_true = held.saved_true
      BY <2>6 DEF ConnFields
    <3> QED BY <2>2, <2>6, <3>1, <3>2, <3>3 DEF Along
  <2>8. CASE e.dead
    <3>1. y = [x EXCEPT !.c = e]
      BY <1>1, <1>3, <2>8
    <3>2. y = [c |-> e, sent |-> sent]
      BY <3>1
    <3> QED BY <3>2, <2>7 DEF y
  <2>9. CASE ~e.dead
    <3>1. y = [c |-> open, sent |-> IF tooBig THEN sent ELSE sent \union {new_packet(c, p, t, f)}]
      BY <1>1, <1>3, <2>9
    <3>2. DOMAIN s = ConnFields /\ s.MTU \in {DEFAULT_MTU, FALLBACK_MTU} /\ \A z \in ConnFields \ {"MTU"} : s[z] = e[z]
      BY <2>6 DEF Fresh, ConnFields
    <3> HIDE DEF s
    <3>3. /\ s.counter = e.counter /\ s.blocks = e.blocks /\ s.dead = e.dead
          /\ s.last_port_choice = e.last_port_choice /\ s.socks = e.socks
      BY <3>2 DEF ConnFields
    <3>4. Fresh(p, s)
      BY <2>6, <3>2, <3>3 DEF Fresh, SocksOK
    <3>5. Fresh(p, open) /\ \A z \in ConnFields \ {"socks", "has_remote_addr", "last_port_choice"} : open[z] = s[z]
      <4>1. CASE hop
        <5> DEFINE u == setup(s, t)
                   v == addSocket(u)
                   w == prune_sockets(v, t)
        <5>1. p = Client /\ open = w
          BY <4>1 DEF hop_port
        <5>2. DOMAIN u = ConnFields /\ u.last_port_choice = t /\ \A z \in ConnFields \ {"last_port_choice"} : u[z] = s[z]
          BY <3>4 DEF setup, Fresh, ConnFields
        <5> HIDE DEF u
        <5>3. DOMAIN v = ConnFields /\ v.socks = Append(u.socks, Last1(u.socks) + 1) /\ \A z \in ConnFields \ {"socks"} : v[z] = u[z]
          BY <5>2 DEF addSocket, ConnFields
        <5> HIDE DEF v
        <5>4. u.socks = s.socks /\ v.last_port_choice = t
          BY <5>2, <5>3 DEF ConnFields
        <5>5. u.socks \in Seq(Int) /\ Len(u.socks) \in 1..MAX_PORTS_OPEN
          BY <5>1, <5>4, <3>4 DEF Fresh, SocksOK
        <5>6. u.socks[Len(u.socks)] \in Int
          BY <5>5, ConnectionAssumption
        <5>7. v.socks \in Seq(Int) /\ Len(v.socks) > 0
          BY <5>3, <5>5, <5>6 DEF Last1
        <5>8. /\ DOMAIN w = ConnFields /\ SocksOK(p, w)
              /\ \A z \in ConnFields \ {"socks"} : w[z] = v[z]
          <6>1. IF p = Client THEN v.socks \in Seq(Int) /\ Len(v.socks) > 0 ELSE Len(v.socks) \in {0, 1}
            BY <5>1, <5>7
          <6>2. DOMAIN v = ConnFields /\ v.last_port_choice \in Int
            BY <5>3, <5>4
          <6> QED BY <6>1, <6>2, PruneFact, Zenon
        <5> HIDE DEF w
        <5>9. \A z \in ConnFields \ {"socks", "has_remote_addr", "last_port_choice"} : w[z] = s[z]
          BY <5>2, <5>3, <5>8
        <5>10. /\ w.counter = s.counter /\ w.blocks = s.blocks /\ w.dead = s.dead /\ w.MTU = s.MTU
               /\ w.last_port_choice = t
          BY <5>8, <5>9, <5>4 DEF ConnFields
        <5> QED BY <5>1, <5>8, <5>9, <5>10, <3>4 DEF Fresh
      <4>2. CASE ~hop
        <5>1. open = [s EXCEPT !.has_remote_addr = ~detach]
          BY <4>2
        <5> HIDE DEF open, detach
        <5>2. DOMAIN open = ConnFields /\ \A z \in ConnFields \ {"has_remote_addr"} : open[z] = s[z]
          BY <5>1, <3>2 DEF ConnFields
        <5>3. /\ open.counter = s.counter /\ open.blocks = s.blocks /\ open.dead = s.dead /\ open.MTU = s.MTU
              /\ open.last_port_choice = s.last_port_choice /\ open.socks = s.socks
          BY <5>2 DEF ConnFields
        <5> QED BY <5>2, <5>3, <3>4 DEF Fresh, SocksOK
      <4> QED BY <4>1, <4>2
    <3> HIDE DEF open
    <3>6. Along(p, e, open) /\ open.counter = e.counter
      <4>1. open.counter = e.counter
        BY <3>3, <3>5 DEF ConnFields
      <4>2. \A z \in ConnFields \ SendFields : open[z] = e[z]
        BY <3>2, <3>5 DEF SendFields
      <4>3. open.saved_timestamp = e.saved_timestamp /\ open.saved_at = e.saved_at /\ open.saved_true = e.saved_true
        BY <3>2, <3>5 DEF ConnFields
      <4> QED BY <3>5, <4>1, <4>2, <4>3, <2>6 DEF Along, Fresh
    <3>7. Along(p, c, open)
      BY <2>7, <3>6, AlongMore DEF Fresh
    <3>8. y.c = open /\ y.sent = (IF tooBig THEN sent ELSE sent \union {new_packet(c, p, t, f)})
      BY <3>1
    <3> QED BY <3>1, <3>6, <3>7, <3>8, <2>6, <1>3 DEF y
  <2> QED BY <2>8, <2>9
<1>4. c.dead \in BOOLEAN
  BY DEF Fresh
<1> QED BY <1>2, <1>3

(***************************************************************************)
(* Induction: a set of natural numbers has a least element, a function     *)
(* defined by recursion over an interval exists.                           *)
(***************************************************************************)
\* Every non-empty set of natural numbers has a least element.
LEMMA Minimum ==
  ASSUME NEW T, T \subseteq Nat, T # {}
  PROVE  \E x \in T : \A y \in T : x <= y
<1> DEFINE R == OpToRel(<, Nat)
<1>1. IsWellFoundedOn(R, Nat)
  BY NatLessThanWellFounded
<1>2. R = {ss \in Nat \X Nat : ss[1] < ss[2]}
  BY DEF OpToRel
<1> HIDE DEF R
<1>3. PICK x \in T : \A y \in T : ~(<<y, x>> \in R)
  BY <1>1, WFMin
<1>4. \A y \in T : ~(y < x)
  <2> TAKE y \in T
  <2>1. <<y, x>> \in R <=> y < x
    BY <1>2
  <2> QED BY <1>3, <2>1
<1> QED BY <1>3, <1>4

\* The states of the loop of send_in_fragments.
Turns(d, start, fs, p, t, pathMTU, n) ==
  d = [k \in 0..n |-> IF k = 0 THEN start ELSE send(d[k - 1], p, t, fs[k], pathMTU)]

\* The loop has a run of every length.
LEMMA DoneExists ==
  ASSUME NEW start, NEW fs, NEW p, NEW t, NEW pathMTU, NEW n \in Nat
  PROVE  \E d : Turns(d, start, fs, p, t, pathMTU, n)
<1> DEFINE Loop(d, m) == d = [k \in 0..m |-> IF k = 0 THEN start ELSE send(d[k - 1], p, t, fs[k], pathMTU)]
           T == {m \in Nat : ~\E d : Loop(d, m)}
<1>1. SUFFICES T = {}
  <2>1. n \notin T
    BY <1>1
  <2> QED BY <2>1 DEF Turns
<1>2. SUFFICES ASSUME T # {} PROVE FALSE
  OBVIOUS
<1>3. PICK m \in T : \A y \in T : m <= y
  BY <1>2, Minimum
<1>4. m \in Nat /\ ~\E d : Loop(d, m)
  BY <1>3
<1>5. CASE m = 0
  <2> DEFINE d == [k \in 0..0 |-> start]
  <2>1. Loop(d, 0)
    OBVIOUS
  <2> QED BY <1>4, <1>5, <2>1
<1>6. CASE m # 0
  <2>1. m - 1 \in Nat /\ m - 1 \notin T
    <3> HIDE DEF T
    <3> QED BY <1>3, <1>4, <1>6
  <2>2. PICK d : Loop(d, m - 1)
    BY <2>1
  <2> DEFINE g == [k \in 0..m |-> IF k = m THEN send(d[m - 1], p, t, fs[m], pathMTU) ELSE d[k]]
             h == [k \in 0..m |-> IF k = 0 THEN start ELSE send(g[k - 1], p, t, fs[k], pathMTU)]
  <2>3. \A k \in 0..m : g[k] = h[k]
    <3> TAKE k \in 0..m
    <3>1. CASE k = m
      <4>1. g[k - 1] = d[m - 1]
        BY <3>1, <1>4, <1>6
      <4> QED BY <3>1, <4>1, <1>4, <1>6
    <3>2. CASE k = 0
      BY <3>2, <2>2, <1>4, <1>6
    <3>3. CASE k # 0 /\ k # m
      <4>1. g[k - 1] = d[k - 1] /\ g[k] = d[k] /\ k \in 0..(m - 1)
        BY <3>3, <1>4, <1>6
      <4>2. d[k] = send(d[k - 1], p, t, fs[k], pathMTU)
        BY <4>1, <2>2, <3>3
      <4> QED BY <4>1, <4>2, <3>3
    <3> QED BY <3>1, <3>2, <3>3
  <2>4. g = h
    BY <2>3
  <2>5. Loop(g, m)
    BY <2>4
  <2> QED BY <1>4, <2>5
<1> QED BY <1>5, <1>6

(***************************************************************************)
(* Cutting an instruction.                                                 *)
(***************************************************************************)
Count(size, m) == (size + m - 1) \div m

Piece(id, inst, m, i) ==
  [id |-> id, num |-> i - 1, final |-> i = Count(inst.size, m), inst |-> inst,
   from |-> (i - 1) * m, len |-> Min({m, inst.size - (i - 1) * m})]

\* The pieces are not empty, all but the last are full, and the last ends the text.
LEMMA CutFact ==
  ASSUME NEW size \in Nat \ {0}, NEW m \in Nat \ {0}
  PROVE  /\ Count(size, m) \in Nat \ {0}
         /\ \A i \in 1..Count(size, m) :
              /\ (i - 1) * m \in Nat
              /\ Min({m, size - (i - 1) * m}) \in Nat \ {0}
              /\ i < Count(size, m) => (i - 1) * m + Min({m, size - (i - 1) * m}) = i * m
              /\ i = Count(size, m) => (i - 1) * m + Min({m, size - (i - 1) * m}) = size
<1> DEFINE n == Count(size, m)
<1>1. n \in Nat /\ n * m <= size + m - 1 /\ size + m - 1 < n * m + m
  BY DivFact DEF Count
<1> HIDE DEF n
<1>2. n # 0
  BY <1>1
<1>3. ASSUME NEW i \in 1..n
      PROVE  /\ (i - 1) * m \in Nat
             /\ Min({m, size - (i - 1) * m}) \in Nat \ {0}
             /\ i < n => (i - 1) * m + Min({m, size - (i - 1) * m}) = i * m
             /\ i = n => (i - 1) * m + Min({m, size - (i - 1) * m}) = size
  <2> DEFINE b == (i - 1) * m
  <2>0. i \in Nat /\ i - 1 \in Nat /\ n - 1 \in Nat
    BY <1>1, <1>2
  <2>1. b \in Nat /\ i * m = b + m /\ n * m = (n - 1) * m + m
    BY <1>1, <2>0
  <2>2. b <= (n - 1) * m
    <3>1. i - 1 <= n - 1 /\ m \in Nat
      BY <1>1, <2>0
    <3> QED BY <2>0, <3>1, ProductOrder, Zenon
  <2>3. (n - 1) * m < size /\ size <= n * m
    BY <1>1, <2>0, <2>1
  <2>4. i < n => i * m <= (n - 1) * m
    BY <2>0, <1>1, ProductOrder
  <2>5. (n - 1) * m \in Nat /\ n * m \in Nat
    BY <2>0, <1>1
  <2>6. i = n => b = (n - 1) * m
    OBVIOUS
  <2> HIDE DEF b
  <2>7. Min({m, size - b}) = IF m <= size - b THEN m ELSE size - b
    BY <2>1, MinTwo
  <2> QED BY <2>1, <2>2, <2>3, <2>4, <2>5, <2>6, <2>7 DEF b
<1> QED BY <1>1, <1>2, <1>3 DEF n

\* make_fragments cuts the instruction at the MTU of the connection.
LEMMA MakeFact ==
  ASSUME NEW p \in Peers, NEW c, NEW inst, Fresh(p, c), inst.size \in Nat \ {0}
  PROVE  /\ make_fragments(c, inst) = [i \in 1..Count(inst.size, c.MTU) |-> Piece(next_id(c, inst), inst, c.MTU, i)]
         /\ Len(make_fragments(c, inst)) = Count(inst.size, c.MTU)
         /\ c.MTU \in Nat \ {0} /\ Count(inst.size, c.MTU) \in Nat \ {0}
         /\ \A i \in 1..Count(inst.size, c.MTU) : make_fragments(c, inst)[i].len \in Nat \ {0}
<1> DEFINE fs == make_fragments(c, inst)
           n == Count(inst.size, c.MTU)
<1>1. c.MTU \in Nat \ {0}
  BY ConnectionAssumption DEF Fresh
<1>2. n \in Nat \ {0}
  BY <1>1, CutFact
<1>3. fs = [i \in 1..n |-> Piece(next_id(c, inst), inst, c.MTU, i)]
  BY DEF make_fragments, Piece, Count
<1> HIDE DEF fs
<1>4. Len(fs) = n
  BY <1>2, <1>3 DEF n
<1>5. ASSUME NEW i \in 1..n PROVE fs[i].len \in Nat \ {0}
  <2>1. fs[i].len = Min({c.MTU, inst.size - (i - 1) * c.MTU})
    BY <1>3 DEF Piece
  <2>2. Min({c.MTU, inst.size - (i - 1) * c.MTU}) \in Nat \ {0}
    BY <1>1, CutFact, Zenon
  <2> QED BY <2>1, <2>2
<1> QED BY <1>1, <1>2, <1>3, <1>4, <1>5 DEF fs

\* The connection when the fragments are made.
Made(c, inst) ==
  [c EXCEPT !.next_instruction_id = next_id(c, inst), !.last_instruction = inst, !.last_MTU = c.MTU,
            !.failed = @ \/ Len(make_fragments(c, inst)) > FragmentLimit]

\* Making the fragments changes what the Fragmenter remembers only.
LEMMA MadeFact ==
  ASSUME NEW p \in Peers, NEW c, NEW inst, Fresh(p, c)
  PROVE  /\ Fresh(p, Made(c, inst))
         /\ \A x \in ConnFields \ {"next_instruction_id", "last_instruction", "last_MTU", "failed"} : Made(c, inst)[x] = c[x]
         /\ Made(c, inst).next_instruction_id = next_id(c, inst)
         /\ Made(c, inst).last_instruction = inst /\ Made(c, inst).last_MTU = c.MTU
         /\ Made(c, inst).failed = (c.failed \/ Len(make_fragments(c, inst)) > FragmentLimit)
<1> DEFINE b == Made(c, inst)
<1>1. DOMAIN c = ConnFields
  BY DEF Fresh
<1>2. /\ DOMAIN b = ConnFields
      /\ \A x \in ConnFields \ {"next_instruction_id", "last_instruction", "last_MTU", "failed"} : b[x] = c[x]
      /\ b.next_instruction_id = next_id(c, inst)
      /\ b.last_instruction = inst /\ b.last_MTU = c.MTU
      /\ b.failed = (c.failed \/ Len(make_fragments(c, inst)) > FragmentLimit)
  BY <1>1 DEF Made, ConnFields
<1> HIDE DEF b
<1>3. /\ b.counter = c.counter /\ b.blocks = c.blocks /\ b.dead = c.dead /\ b.MTU = c.MTU
      /\ b.last_port_choice = c.last_port_choice /\ b.socks = c.socks
  BY <1>2 DEF ConnFields
<1>4. Fresh(p, b)
  BY <1>2, <1>3 DEF Fresh, SocksOK
<1> QED BY <1>2, <1>4 DEF b

\* The number in a nonce is the number of the connection that sends it.
LEMMA SeqFact ==
  ASSUME NEW p \in Peers, NEW c, NEW t, NEW f, Fresh(p, c), ~c.dead
  PROVE  /\ new_packet(c, p, t, f).seq = c.counter
         /\ new_packet(c, p, t, f).dir = p /\ new_packet(c, p, t, f).at = t
         /\ new_packet(c, p, t, f).payload = f /\ new_packet(c, p, t, f).intact
<1>1. c.counter \in Nat /\ c.counter < SeqSpan /\ SeqSpan \in Nat \ {0}
  BY ConnectionAssumption DEF Fresh
<1>2. nonceSeq(c) = c.counter
  BY <1>1, ModSmall DEF nonceSeq
<1> QED BY <1>2 DEF new_packet

\* What a loop of sends has put on the wire.
Wire(p, b, x, t, fs, k) ==
  /\ x = [c |-> x.c, sent |-> x.sent]
  /\ Along(p, b, x.c)
  /\ \A d \in x.sent : \E a : \E i \in 1..k :
       Along(p, b, a) /\ ~a.dead /\ a.counter < x.c.counter /\ d = new_packet(a, p, t, fs[i])
  /\ \A d, e \in x.sent : d.seq = e.seq => d = e

\* One more fragment is sent.
LEMMA WireStep ==
  ASSUME NEW p \in Peers, NEW b, NEW x, NEW t \in Int, NEW fs, NEW k \in Nat, NEW pathMTU,
         b.counter \in Nat, Wire(p, b, x, t, fs, k), fs[k + 1].len \in Nat \ {0}
  PROVE  Wire(p, b, send(x, p, t, fs[k + 1], pathMTU), t, fs, k + 1)
<1> DEFINE y == send(x, p, t, fs[k + 1], pathMTU)
           new == new_packet(x.c, p, t, fs[k + 1])
<1>1. x = [c |-> x.c, sent |-> x.sent] /\ Fresh(p, x.c)
  BY DEF Wire, Along
<1>2. /\ y = [c |-> y.c, sent |-> y.sent]
      /\ Along(p, x.c, y.c)
      /\ \/ y.sent = x.sent
         \/ ~x.c.dead /\ y.sent = x.sent \union {new} /\ y.c.counter = x.c.counter + 1
  BY <1>1, SendFact
<1> HIDE DEF y
<1>3. Along(p, b, y.c)
  BY <1>2, AlongMore DEF Wire
<1>4. x.c.counter \in Nat /\ y.c.counter \in Nat /\ x.c.counter <= y.c.counter
  BY <1>1, <1>2 DEF Along, Fresh
<1>5. ASSUME NEW d \in x.sent
      PROVE  \E a : \E i \in 1..(k + 1) :
               Along(p, b, a) /\ ~a.dead /\ a.counter < y.c.counter /\ d = new_packet(a, p, t, fs[i])
  <2>1. PICK a : \E i \in 1..k :
               Along(p, b, a) /\ ~a.dead /\ a.counter < x.c.counter /\ d = new_packet(a, p, t, fs[i])
    BY DEF Wire
  <2>2. PICK i \in 1..k : Along(p, b, a) /\ ~a.dead /\ a.counter < x.c.counter /\ d = new_packet(a, p, t, fs[i])
    BY <2>1
  <2>3. i \in 1..(k + 1)
    OBVIOUS
  <2>4. a.counter < y.c.counter
    BY <2>2, <1>4 DEF Along, Fresh
  <2> QED BY <2>2, <2>3, <2>4
<1>6. ASSUME NEW d \in x.sent
      PROVE  d.seq < x.c.counter /\ d.seq \in Nat
  <2>1. PICK a : \E i \in 1..k :
               Along(p, b, a) /\ ~a.dead /\ a.counter < x.c.counter /\ d = new_packet(a, p, t, fs[i])
    BY DEF Wire
  <2>2. PICK i \in 1..k : Along(p, b, a) /\ ~a.dead /\ a.counter < x.c.counter /\ d = new_packet(a, p, t, fs[i])
    BY <2>1
  <2>3. d.seq = a.counter
    <3>1. Fresh(p, a)
      BY <2>2 DEF Along
    <3>2. new_packet(a, p, t, fs[i]).seq = a.counter
      BY <2>2, <3>1, SeqFact
    <3> QED BY <2>2, <3>2
  <2> QED BY <2>2, <2>3 DEF Along, Fresh
<1>7. CASE y.sent = x.sent
  BY <1>2, <1>3, <1>5, <1>7 DEF Wire, y
<1>8. CASE ~x.c.dead /\ y.sent = x.sent \union {new} /\ y.c.counter = x.c.counter + 1
  <2>1. new.seq = x.c.counter
    <3>1. Fresh(p, x.c) /\ ~x.c.dead
      BY <1>1, <1>8
    <3> QED BY <3>1, SeqFact
  <2>2. Along(p, b, x.c)
    BY DEF Wire
  <2>3. \A d \in y.sent : \E a : \E i \in 1..(k + 1) :
               Along(p, b, a) /\ ~a.dead /\ a.counter < y.c.counter /\ d = new_packet(a, p, t, fs[i])
    <3> TAKE d \in y.sent
    <3>1. CASE d \in x.sent
      BY <3>1, <1>5
    <3>2. CASE d = new
      <4>1. k + 1 \in 1..(k + 1) /\ x.c.counter < y.c.counter
        BY <1>4, <1>8
      <4> QED BY <3>2, <4>1, <2>2, <1>8
    <3> QED BY <1>8, <3>1, <3>2
  <2>4. \A d, e \in y.sent : d.seq = e.seq => d = e
    <3> TAKE d \in y.sent, e \in y.sent
    <3> HIDE DEF new
    <3>1. \A u \in x.sent : u.seq # new.seq
      BY <1>6, <2>1, <1>4
    <3>2. \A u, v \in x.sent : u.seq = v.seq => u = v
      BY DEF Wire
    <3> QED BY <1>8, <3>1, <3>2
  <2> QED BY <1>2, <1>3, <2>3, <2>4 DEF Wire, y
<1> QED BY <1>2, <1>7, <1>8

\* After the whole loop: by induction on the number of fragments.
LEMMA SendsFact ==
  ASSUME NEW p \in Peers, NEW c, NEW inst, NEW t \in Int, NEW pathMTU, Fresh(p, c), inst.size \in Nat \ {0}
  PROVE  Wire(p, Made(c, inst), send_in_fragments(c, p, t, inst, pathMTU), t, make_fragments(c, inst),
              Len(make_fragments(c, inst)))
<1> DEFINE fs == make_fragments(c, inst)
           n == Len(fs)
           start == [c |-> Made(c, inst), sent |-> {}]
           done == CHOOSE d : Turns(d, start, fs, p, t, pathMTU, n)
           T == {k \in 0..n : ~Wire(p, Made(c, inst), done[k], t, fs, k)}
<1>1. send_in_fragments(c, p, t, inst, pathMTU) = done[n]
  BY DEF send_in_fragments, Made, Turns
<1>2. n \in Nat /\ \A i \in 1..n : fs[i].len \in Nat \ {0}
  BY MakeFact
<1>3. Fresh(p, Made(c, inst)) /\ Made(c, inst).counter \in Nat
  BY MadeFact DEF Fresh
<1> HIDE DEF fs, n
<1>4. Turns(done, start, fs, p, t, pathMTU, n)
  <2> HIDE DEF start
  <2>1. \E d : Turns(d, start, fs, p, t, pathMTU, n)
    BY <1>2, DoneExists
  <2> QED BY <2>1
<1> HIDE DEF done
<1>5. Wire(p, Made(c, inst), done[0], t, fs, 0)
  <2>1. done[0] = start
    BY <1>4, <1>2 DEF Turns
  <2>2. start.c = Made(c, inst) /\ start.sent = {}
    OBVIOUS
  <2> QED BY <1>3, <2>1, <2>2, AlongSelf DEF Wire
<1>6. T = {}
  <2>1. SUFFICES ASSUME T # {} PROVE FALSE
    OBVIOUS
  <2>2. T \subseteq Nat
    OBVIOUS
  <2>3. PICK k \in T : \A l \in T : k <= l
    <3> HIDE DEF T
    <3> QED BY <2>1, <2>2, Minimum
  <2>4. k \in 0..n /\ ~Wire(p, Made(c, inst), done[k], t, fs, k)
    BY <2>3
  <2>5. k # 0
    BY <1>5, <2>4
  <2>6. k - 1 \in 0..n /\ k - 1 \notin T
    <3> HIDE DEF T
    <3> QED BY <2>3, <2>4, <2>5, <1>2
  <2>7. Wire(p, Made(c, inst), done[k - 1], t, fs, k - 1)
    BY <2>6
  <2>8. done[k] = send(done[k - 1], p, t, fs[k], pathMTU)
    BY <1>4, <2>4, <2>5 DEF Turns
  <2>9. k - 1 \in Nat /\ (k - 1) + 1 = k /\ fs[k].len \in Nat \ {0}
    BY <1>2, <2>4, <2>5
  <2>10. Wire(p, Made(c, inst), send(done[k - 1], p, t, fs[(k - 1) + 1], pathMTU), t, fs, (k - 1) + 1)
    <3> DEFINE j == k - 1
    <3>1. fs[j + 1].len \in Nat \ {0} /\ j \in Nat
      BY <2>9
    <3>2. Wire(p, Made(c, inst), done[j], t, fs, j)
      BY <2>7
    <3> HIDE DEF j
    <3>3. Wire(p, Made(c, inst), send(done[j], p, t, fs[j + 1], pathMTU), t, fs, j + 1)
      BY <3>1, <3>2, <1>3, WireStep
    <3> QED BY <3>3 DEF j
  <2> QED BY <2>4, <2>8, <2>9, <2>10
<1>7. Wire(p, Made(c, inst), done[n], t, fs, n)
  BY <1>6, <1>2
<1> QED BY <1>1, <1>7 DEF fs, n

(***************************************************************************)
(* The two ends and the datagrams between them.                            *)
(***************************************************************************)
OutFields == {"num", "at", "sends", "inst", "acked", "stamps"}

\* A side resends only what it sent.
OutOK(p) ==
  /\ DOMAIN out[p] = OutFields
  /\ out[p].num \in Nat
  /\ out[p].num > 0 => out[p].inst.num = out[p].num /\ out[p].inst.size \in setting.sizes

PacketFields == {"dir", "seq", "timestamp", "reply", "payload", "src", "dst", "at", "reply_at", "intact"}

\* The number of a datagram is below the counter of its sender.
Numbered(d) ==
  /\ DOMAIN d = PacketFields
  /\ d.dir \in Peers /\ d.seq \in Nat /\ d.seq < conn[d.dir].counter

\* Two copies of a datagram, of which one may be damaged.
Copies(d, e) == d.payload = e.payload /\ d.at = e.at /\ d.src = e.src

\* The receiver has passed no number its peer has not used.
LinkInv ==
  /\ setting \in Settings
  /\ now \in FirstTime..setting.until
  /\ DOMAIN conn = Peers /\ DOMAIN out = Peers
  /\ \A p \in Peers : Fresh(p, conn[p]) /\ OutOK(p)
  /\ \A p \in Peers : conn[p].expected_receiver_seq \in Nat /\ conn[p].expected_receiver_seq <= conn[Other(p)].counter
  /\ \A d \in net : Numbered(d)
  /\ \A d, e \in net : d.dir = e.dir /\ d.seq = e.seq => Copies(d, e)
  /\ TargetIsNewest

\* There are two ends.
LEMMA OtherFact ==
  ASSUME NEW p \in Peers
  PROVE  Other(p) \in Peers /\ Other(p) # p /\ Other(Other(p)) = p /\ Client # Server /\ Peers = {p, Other(p)}
BY ConnectionAssumption DEF Other, Peers

\* What a step of Send does.
Sends(p, inst, pathMTU) ==
  LET r == send_in_fragments(conn[p], p, now, inst, pathMTU)
  IN  /\ ~conn[p].dead
      /\ inst.size \in setting.sizes /\ inst.size \in Nat \ {0}
      /\ inst.num \in Nat \ {0} /\ inst.num >= out[p].num
      /\ Wire(p, Made(conn[p], inst), r, now, make_fragments(conn[p], inst), Len(make_fragments(conn[p], inst)))
      /\ conn' = [conn EXCEPT ![p] = r.c]
      /\ net' = net \union r.sent
      /\ DOMAIN out' = Peers /\ out'[Other(p)] = out[Other(p)]
      /\ DOMAIN out'[p] = OutFields /\ out'[p].num = inst.num /\ out'[p].inst = inst
      /\ setting' = setting /\ now' = now /\ asm' = asm /\ got' = got

\* A step of Send, taken apart.
LEMMA SendStep ==
  ASSUME NEW p \in Peers, LinkInv, Send(p)
  PROVE  \E inst, pathMTU : Sends(p, inst, pathMTU)
<1> DEFINE o == out[p]
<1>1. PICK again \in BOOLEAN, size \in setting.sizes,
           pathMTU \in IF "small" \in setting.faults THEN {FALLBACK_MTU, DEFAULT_MTU} ELSE {DEFAULT_MTU} :
           LET inst == IF again THEN o.inst ELSE [num |-> o.num + 1, acked |-> o.acked, size |-> size]
               r == send_in_fragments(conn[p], p, now, inst, pathMTU)
           IN  /\ again => o.num > 0 /\ ~setting.paced
               /\ inst.num <= setting.msgs
               /\ conn' = [conn EXCEPT ![p] = r.c]
               /\ net' = net \union r.sent
               /\ out' = [out EXCEPT ![p].num = inst.num, ![p].at = now, ![p].sends = @ + 1, ![p].inst = inst,
                                     ![p].stamps = IF again THEN [@ EXCEPT ![inst.num] = now] ELSE Append(@, now)]
  BY DEF Send
<1> DEFINE inst == IF again THEN o.inst ELSE [num |-> o.num + 1, acked |-> o.acked, size |-> size]
           r == send_in_fragments(conn[p], p, now, inst, pathMTU)
           stamps == IF again THEN [o.stamps EXCEPT ![inst.num] = now] ELSE Append(o.stamps, now)
<1>2. setting' = setting /\ now' = now /\ asm' = asm /\ got' = got
  BY DEF Send
<1>3. conn' = [conn EXCEPT ![p] = r.c] /\ net' = net \union r.sent
  BY <1>1
<1>4. /\ DOMAIN out = Peers /\ DOMAIN o = OutFields /\ o.num \in Nat
      /\ o.num > 0 => o.inst.num = o.num /\ o.inst.size \in setting.sizes
      /\ Fresh(p, conn[p]) /\ now \in Int /\ setting \in Settings
  BY SettingsAssumption, ConnectionAssumption DEF LinkInv, OutOK
<1>5. setting.sizes \subseteq Nat \ {0}
  <2>1. FragmentLimit * FALLBACK_MTU \in Nat
    BY ConnectionAssumption
  <2> QED BY <1>4, <2>1, SettingsAssumption
<1>6. inst.size \in setting.sizes /\ inst.size \in Nat \ {0} /\ inst.num \in Nat \ {0} /\ inst.num >= o.num
  <2>1. CASE again
    BY <2>1, <1>1, <1>4, <1>5
  <2>2. CASE ~again
    BY <2>2, <1>1, <1>4, <1>5
  <2> QED BY <2>1, <2>2
<1>7. out' = [out EXCEPT ![p] = [o EXCEPT !.num = inst.num, !.at = now, !.sends = @ + 1, !.inst = inst, !.stamps = stamps]]
  BY <1>1
<1> HIDE DEF inst, r, stamps
<1>8. /\ DOMAIN out' = Peers /\ out'[Other(p)] = out[Other(p)]
      /\ DOMAIN out'[p] = OutFields /\ out'[p].num = inst.num /\ out'[p].inst = inst
  BY <1>4, <1>7, OtherFact DEF OutFields
<1>9. Wire(p, Made(conn[p], inst), r, now, make_fragments(conn[p], inst), Len(make_fragments(conn[p], inst)))
  BY <1>4, <1>6, SendsFact DEF r
<1>10. ~conn[p].dead
  BY DEF Send, Running, Peers
<1> QED BY <1>2, <1>3, <1>6, <1>8, <1>9, <1>10 DEF Sends, r

\* What the new datagrams look like: sent now by p, under numbers of their own.
LEMMA SentFact ==
  ASSUME NEW p \in Peers, NEW inst, NEW pathMTU, LinkInv, Sends(p, inst, pathMTU)
  PROVE  LET r == send_in_fragments(conn[p], p, now, inst, pathMTU)
             fs == make_fragments(conn[p], inst)
         IN  /\ Fresh(p, r.c) /\ conn[p].counter <= r.c.counter
             /\ \A x \in ConnFields \ (SendFields \union {"next_instruction_id", "last_instruction", "last_MTU", "failed"}) :
                  r.c[x] = conn[p][x]
             /\ \A d \in r.sent :
                  /\ DOMAIN d = PacketFields /\ d.dir = p /\ d.at = now
                  /\ d.seq \in Nat /\ conn[p].counter <= d.seq /\ d.seq < r.c.counter
                  /\ \E i \in 1..Len(fs) : d.payload = fs[i]
             /\ \A d, e \in r.sent : d.seq = e.seq => d = e
<1> DEFINE r == send_in_fragments(conn[p], p, now, inst, pathMTU)
           fs == make_fragments(conn[p], inst)
           b == Made(conn[p], inst)
<1>1. Wire(p, b, r, now, fs, Len(fs))
  BY DEF Sends
<1>2. Fresh(p, conn[p])
  BY DEF LinkInv
<1>3. Fresh(p, b) /\ \A x \in ConnFields \ {"next_instruction_id", "last_instruction", "last_MTU", "failed"} : b[x] = conn[p][x]
  BY <1>2, MadeFact
<1> HIDE DEF r, b, fs
<1>4. b.counter = conn[p].counter
  BY <1>3 DEF ConnFields
<1>5. Along(p, b, r.c)
  BY <1>1 DEF Wire
<1>6. Fresh(p, r.c) /\ conn[p].counter <= r.c.counter
  BY <1>4, <1>5 DEF Along
<1>7. \A x \in ConnFields \ (SendFields \union {"next_instruction_id", "last_instruction", "last_MTU", "failed"}) :
        r.c[x] = conn[p][x]
  BY <1>3, <1>5 DEF Along
<1>8. ASSUME NEW d \in r.sent
      PROVE  /\ DOMAIN d = PacketFields /\ d.dir = p /\ d.at = now
             /\ d.seq \in Nat /\ conn[p].counter <= d.seq /\ d.seq < r.c.counter
             /\ \E i \in 1..Len(fs) : d.payload = fs[i]
  <2>1. PICK a : \E i \in 1..Len(fs) :
               Along(p, b, a) /\ ~a.dead /\ a.counter < r.c.counter /\ d = new_packet(a, p, now, fs[i])
    BY <1>1 DEF Wire
  <2>2. PICK i \in 1..Len(fs) : Along(p, b, a) /\ ~a.dead /\ a.counter < r.c.counter /\ d = new_packet(a, p, now, fs[i])
    BY <2>1
  <2>3. Fresh(p, a) /\ b.counter <= a.counter
    BY <2>2 DEF Along
  <2>4. d.seq = a.counter /\ d.dir = p /\ d.at = now /\ d.payload = fs[i]
    <3>1. /\ new_packet(a, p, now, fs[i]).seq = a.counter /\ new_packet(a, p, now, fs[i]).dir = p
          /\ new_packet(a, p, now, fs[i]).at = now /\ new_packet(a, p, now, fs[i]).payload = fs[i]
      BY <2>2, <2>3, SeqFact
    <3> QED BY <2>2, <3>1
  <2>5. DOMAIN d = PacketFields
    BY <2>2 DEF new_packet, PacketFields
  <2> QED BY <1>4, <2>2, <2>3, <2>4, <2>5 DEF Fresh
<1>9. \A d, e \in r.sent : d.seq = e.seq => d = e
  BY <1>1 DEF Wire
<1> QED BY <1>6, <1>7, <1>8, <1>9 DEF r, fs

\* Sending keeps the numbers in order: new ones are above all that were used.
LEMMA SendLink ==
  ASSUME NEW p \in Peers, NEW inst, NEW pathMTU, LinkInv, Sends(p, inst, pathMTU)
  PROVE  LinkInv'
<1> DEFINE r == send_in_fragments(conn[p], p, now, inst, pathMTU)
           fs == make_fragments(conn[p], inst)
           q == Other(p)
<1>1. /\ conn' = [conn EXCEPT ![p] = r.c] /\ net' = net \union r.sent
      /\ DOMAIN out' = Peers /\ out'[q] = out[q]
      /\ DOMAIN out'[p] = OutFields /\ out'[p].num = inst.num /\ out'[p].inst = inst
      /\ inst.size \in setting.sizes /\ inst.num \in Nat \ {0}
      /\ setting' = setting /\ now' = now
  BY DEF Sends
<1>2. /\ Fresh(p, r.c) /\ conn[p].counter <= r.c.counter
      /\ \A x \in ConnFields \ (SendFields \union {"next_instruction_id", "last_instruction", "last_MTU", "failed"}) :
           r.c[x] = conn[p][x]
  BY SentFact
<1>3. \A d \in r.sent :
        /\ DOMAIN d = PacketFields /\ d.dir = p
        /\ d.seq \in Nat /\ conn[p].counter <= d.seq /\ d.seq < r.c.counter
  BY SentFact
<1>4. \A d, e \in r.sent : d.seq = e.seq => d = e
  BY SentFact
<1> HIDE DEF r
<1>5. q \in Peers /\ q # p /\ Peers = {p, q} /\ Other(q) = p
  BY OtherFact
<1>6. DOMAIN conn' = Peers /\ conn'[p] = r.c /\ conn'[q] = conn[q]
  BY <1>1, <1>5 DEF LinkInv
<1>7. r.c.expected_receiver_seq = conn[p].expected_receiver_seq /\ r.c.remote_addr = conn[p].remote_addr
  BY <1>2 DEF ConnFields, SendFields
<1>8. /\ conn[p].counter \in Nat /\ conn[q].counter \in Nat /\ r.c.counter \in Nat
      /\ conn[p].expected_receiver_seq \in Nat /\ conn[q].expected_receiver_seq \in Nat
      /\ conn[p].expected_receiver_seq <= conn[q].counter /\ conn[q].expected_receiver_seq <= conn[p].counter
  BY <1>2, <1>5 DEF LinkInv, Fresh
<1>9. \A z \in Peers : Fresh(z, conn'[z]) /\ OutOK(z)'
  <2>1. Fresh(q, conn'[q]) /\ OutOK(q)'
    BY <1>1, <1>5, <1>6 DEF LinkInv, OutOK
  <2>2. Fresh(p, conn'[p]) /\ OutOK(p)'
    BY <1>1, <1>2, <1>6 DEF OutOK
  <2> QED BY <2>1, <2>2, <1>5
<1>10. \A z \in Peers : conn'[z].expected_receiver_seq \in Nat /\ conn'[z].expected_receiver_seq <= conn'[Other(z)].counter
  <2>1. conn'[q].expected_receiver_seq <= conn'[p].counter
    BY <1>2, <1>6, <1>8
  <2>2. conn'[p].expected_receiver_seq <= conn'[q].counter
    BY <1>6, <1>7, <1>8
  <2> QED BY <2>1, <2>2, <1>5, <1>6, <1>7, <1>8
<1>11. \A d \in net : d.dir \in Peers /\ DOMAIN d = PacketFields /\ d.seq \in Nat /\ d.seq < conn[d.dir].counter
  BY DEF LinkInv, Numbered
<1>12. \A d \in net' : Numbered(d)'
  <2> TAKE d \in net'
  <2>1. CASE d \in r.sent
    BY <2>1, <1>3, <1>6 DEF Numbered
  <2>2. CASE d \in net
    <3>1. d.seq < conn'[d.dir].counter
      BY <2>2, <1>2, <1>5, <1>6, <1>8, <1>11
    <3> QED BY <2>2, <3>1, <1>11 DEF Numbered
  <2> QED BY <1>1, <2>1, <2>2
<1>13. \A d, e \in net' : d.dir = e.dir /\ d.seq = e.seq => Copies(d, e)
  <2> TAKE d \in net', e \in net'
  <2> HAVE d.dir = e.dir /\ d.seq = e.seq
  <2>1. CASE d \in net /\ e \in net
    BY <2>1 DEF LinkInv
  <2>2. CASE d \in r.sent /\ e \in r.sent
    BY <2>2, <1>4 DEF Copies
  <2>3. ASSUME NEW u \in net, NEW v \in r.sent, u.dir = v.dir, u.seq = v.seq PROVE FALSE
    BY <2>3, <1>3, <1>8, <1>11
  <2> QED BY <1>1, <2>1, <2>2, <2>3
<1>14. TargetIsNewest'
  <2> SUFFICES ASSUME NEW d \in net', d.dir = Client, d.intact, d.seq + 1 = conn'[Server].expected_receiver_seq
               PROVE  conn'[Server].remote_addr = d.src
    BY DEF TargetIsNewest
  <2>1. /\ conn'[Server].expected_receiver_seq = conn[Server].expected_receiver_seq
        /\ conn'[Server].remote_addr = conn[Server].remote_addr
    BY <1>5, <1>6, <1>7 DEF Peers
  <2>2. CASE d \in net
    BY <2>1, <2>2 DEF LinkInv, TargetIsNewest
  <2>3. CASE d \in r.sent
    <3>1. p = Client /\ q = Server
      BY <2>3, <1>3 DEF Other
    <3> QED BY <3>1, <2>1, <2>3, <1>3, <1>8
  <2> QED BY <1>1, <2>2, <2>3
<1>15. setting' \in Settings /\ now' \in FirstTime..setting'.until
  BY <1>1 DEF LinkInv
<1> QED BY <1>1, <1>6, <1>9, <1>10, <1>12, <1>13, <1>14, <1>15 DEF LinkInv

\* What receiving changes.
RecvFields ==
  {"socks", "expected_receiver_seq", "saved_timestamp", "saved_at", "saved_true", "sample", "true_sample",
   "has_remote_addr", "last_heard", "remote_addr"}

\* The connection after Connection::recv.
Heard(p, d, ce) == prune_sockets(recv_one(conn[p], p, d, now, ce), now)

\* What receiving makes of a connection: nothing, when the datagram was overtaken.
LEMMA HeardFact ==
  ASSUME NEW p \in Peers, NEW d, NEW ce, Fresh(p, conn[p]), now \in Int
  PROVE  LET b == conn[p]
             c == Heard(p, d, ce)
             R == timestamp_diff(timestamp16(now), d.reply)
             saves == d.timestamp # NoTimestamp
             measured == d.reply # NoTimestamp /\ R < RTTLimit
             late == IF ce THEN PENALTY ELSE 0
         IN  /\ Fresh(p, c)
             /\ \A x \in ConnFields \ RecvFields : c[x] = b[x]
             /\ d.seq < b.expected_receiver_seq => \A x \in ConnFields \ {"socks"} : c[x] = b[x]
             /\ ~(d.seq < b.expected_receiver_seq) =>
                  /\ c.expected_receiver_seq = d.seq + 1 /\ c.last_heard = now
                  /\ c.remote_addr = (IF p = Server THEN d.src ELSE b.remote_addr)
                  /\ c.saved_timestamp = (IF saves THEN (d.timestamp - late) % Wrap ELSE b.saved_timestamp)
                  /\ c.saved_at = (IF saves THEN now ELSE b.saved_at)
                  /\ c.saved_true = (IF saves THEN d.at - late ELSE b.saved_true)
                  /\ c.sample = (IF measured THEN R ELSE b.sample)
                  /\ c.true_sample = (IF measured THEN now - d.reply_at ELSE b.true_sample)
<1> DEFINE b == conn[p]
           u == recv_one(b, p, d, now, ce)
           c == prune_sockets(u, now)
           R == timestamp_diff(timestamp16(now), d.reply)
           saves == d.timestamp # NoTimestamp
           measured == d.reply # NoTimestamp /\ R < RTTLimit
           late == IF ce THEN PENALTY ELSE 0
<1> DEFINE new == [b EXCEPT !.expected_receiver_seq = d.seq + 1,
                     !.saved_timestamp = IF saves THEN (d.timestamp - late) % Wrap ELSE @,
                     !.saved_at = IF saves THEN now ELSE @,
                     !.saved_true = IF saves THEN d.at - late ELSE @,
                     !.sample = IF measured THEN R ELSE @,
                     !.true_sample = IF measured THEN now - d.reply_at ELSE @,
                     !.has_remote_addr = TRUE, !.last_heard = now,
                     !.remote_addr = IF p = Server THEN d.src ELSE @]
<1>1. u = IF d.seq < b.expected_receiver_seq THEN b ELSE new
  BY DEF recv_one
<1>2. DOMAIN b = ConnFields
  BY DEF Fresh
<1> HIDE DEF u, R, saves, measured, late
<1>3. /\ DOMAIN new = ConnFields
      /\ \A x \in (ConnFields \ RecvFields) \union {"socks"} : new[x] = b[x]
      /\ new.expected_receiver_seq = d.seq + 1 /\ new.last_heard = now
      /\ new.remote_addr = (IF p = Server THEN d.src ELSE b.remote_addr)
      /\ new.saved_timestamp = (IF saves THEN (d.timestamp - late) % Wrap ELSE b.saved_timestamp)
      /\ new.saved_at = (IF saves THEN now ELSE b.saved_at)
      /\ new.saved_true = (IF saves THEN d.at - late ELSE b.saved_true)
      /\ new.sample = (IF measured THEN R ELSE b.sample)
      /\ new.true_sample = (IF measured THEN now - d.reply_at ELSE b.true_sample)
  BY <1>2 DEF ConnFields, RecvFields
<1> HIDE DEF new
<1>4. DOMAIN u = ConnFields /\ \A x \in (ConnFields \ RecvFields) \union {"socks"} : u[x] = b[x]
  BY <1>1, <1>2, <1>3
<1>5. /\ u.socks = b.socks /\ u.last_port_choice = b.last_port_choice /\ u.counter = b.counter /\ u.blocks = b.blocks
      /\ u.dead = b.dead /\ u.MTU = b.MTU
  BY <1>4 DEF ConnFields, RecvFields
<1>6. /\ DOMAIN c = ConnFields /\ SocksOK(p, c)
      /\ \A x \in ConnFields \ {"socks"} : c[x] = u[x]
  <2>1. IF p = Client THEN u.socks \in Seq(Int) /\ Len(u.socks) > 0 ELSE Len(u.socks) \in {0, 1}
    BY <1>5, ConnectionAssumption DEF Fresh, SocksOK
  <2>2. DOMAIN u = ConnFields /\ u.last_port_choice \in Int
    BY <1>4, <1>5 DEF Fresh
  <2> QED BY <2>1, <2>2, PruneFact, Zenon
<1> HIDE DEF c
<1>7. /\ c.last_port_choice = b.last_port_choice /\ c.counter = b.counter /\ c.blocks = b.blocks
      /\ c.dead = b.dead /\ c.MTU = b.MTU
  BY <1>5, <1>6 DEF ConnFields
<1>8. Fresh(p, c)
  BY <1>6, <1>7 DEF Fresh
<1>9. \A x \in ConnFields \ RecvFields : c[x] = b[x]
  BY <1>4, <1>6 DEF RecvFields
<1>10. CASE d.seq < b.expected_receiver_seq
  <2>1. \A x \in ConnFields \ {"socks"} : c[x] = b[x]
    BY <1>1, <1>6, <1>10
  <2> QED BY <2>1, <1>8, <1>9, <1>10 DEF Heard, c, u
<1>11. CASE ~(d.seq < b.expected_receiver_seq)
  <2>1. \A x \in ConnFields \ {"socks"} : c[x] = new[x]
    BY <1>1, <1>6, <1>11
  <2>2. /\ c.expected_receiver_seq = new.expected_receiver_seq /\ c.remote_addr = new.remote_addr
        /\ c.last_heard = new.last_heard
        /\ c.saved_timestamp = new.saved_timestamp /\ c.saved_at = new.saved_at /\ c.saved_true = new.saved_true
        /\ c.sample = new.sample /\ c.true_sample = new.true_sample
    BY <2>1 DEF ConnFields
  <2> QED BY <2>2, <1>3, <1>8, <1>9, <1>11 DEF Heard, c, u, R, saves, measured, late
<1> QED BY <1>10, <1>11

\* What a step of Receive does.
Receives(p, d, ce) ==
  LET c == Heard(p, d, ce)
      a == add_fragment(asm[p], d.payload)
  IN  /\ d \in net /\ d.dir = Other(p) /\ d.intact
      /\ DOMAIN conn' = Peers /\ conn'[Other(p)] = conn[Other(p)]
      /\ DOMAIN conn'[p] = ConnFields
      /\ \A x \in ConnFields \ {"last_roundtrip_success", "acked"} : conn'[p][x] = c[x]
      /\ DOMAIN out' = Peers /\ out'[Other(p)] = out[Other(p)]
      /\ DOMAIN out'[p] = OutFields /\ \A x \in OutFields \ {"acked"} : out'[p][x] = out[p][x]
      /\ IF complete(a)
         THEN asm' = [asm EXCEPT ![p] = get_assembly(a)] /\ got' = [got EXCEPT ![p] = {parse(Assembly(a))}]
         ELSE asm' = [asm EXCEPT ![p] = a] /\ got' = got
      /\ setting' = setting /\ now' = now /\ net' = net

\* A step of Receive, taken apart.
LEMMA ReceiveStep ==
  ASSUME NEW p \in Peers, NEW d \in net, LinkInv, Receive(p, d)
  PROVE  \E ce : Receives(p, d, ce)
<1>0. d.dir = Other(p) /\ d.intact /\ setting' = setting /\ now' = now /\ net' = net
  BY DEF Receive, decrypts
<1> DEFINE a == add_fragment(asm[p], d.payload)
           inst == parse(Assembly(a))
<1>1. PICK ce \in IF "congest" \in setting.faults THEN BOOLEAN ELSE {FALSE} :
         IF complete(a)
           THEN /\ asm' = [asm EXCEPT ![p] = get_assembly(a)]
                /\ got' = [got EXCEPT ![p] = {inst}]
                /\ out' = [out EXCEPT ![p].acked = Max({@, inst.num})]
                /\ conn' = [conn EXCEPT ![p] = [Heard(p, d, ce) EXCEPT !.last_roundtrip_success = stampAcked(p, inst.acked),
                                                         !.acked = Max({@, inst.acked})]]
           ELSE /\ asm' = [asm EXCEPT ![p] = a]
                /\ conn' = [conn EXCEPT ![p] = Heard(p, d, ce)]
                /\ UNCHANGED <<got, out>>
  BY DEF Receive, Heard
<1> DEFINE c == Heard(p, d, ce)
<1>2. /\ DOMAIN conn = Peers /\ DOMAIN out = Peers /\ DOMAIN out[p] = OutFields /\ Fresh(p, conn[p]) /\ now \in Int
      /\ setting \in Settings
  BY ConnectionAssumption, SettingsAssumption DEF LinkInv, OutOK
<1>3. DOMAIN c = ConnFields
  BY <1>2, HeardFact DEF Fresh
<1>4. Other(p) \in Peers /\ Other(p) # p
  BY OtherFact
<1> HIDE DEF a, c, inst
<1>5. CASE complete(a)
  <2>1. asm' = [asm EXCEPT ![p] = get_assembly(a)] /\ got' = [got EXCEPT ![p] = {inst}]
    BY <1>1, <1>5
  <2>2. out' = [out EXCEPT ![p] = [out[p] EXCEPT !.acked = Max({out[p].acked, inst.num})]]
    BY <1>1, <1>5
  <2>3. /\ DOMAIN out' = Peers /\ out'[Other(p)] = out[Other(p)]
        /\ DOMAIN out'[p] = OutFields /\ \A x \in OutFields \ {"acked"} : out'[p][x] = out[p][x]
    BY <2>2, <1>2, <1>4
  <2>4. conn' = [conn EXCEPT ![p] = [c EXCEPT !.last_roundtrip_success = stampAcked(p, inst.acked),
                                              !.acked = Max({c.acked, inst.acked})]]
    BY <1>1, <1>5 DEF c
  <2>5. /\ DOMAIN conn' = Peers /\ conn'[Other(p)] = conn[Other(p)]
        /\ DOMAIN conn'[p] = ConnFields
        /\ \A x \in ConnFields \ {"last_roundtrip_success", "acked"} : conn'[p][x] = c[x]
    BY <2>4, <1>2, <1>3, <1>4
  <2> QED BY <1>0, <1>5, <2>1, <2>3, <2>5 DEF Receives, a, c, inst
<1>6. CASE ~complete(a)
  <2>1. asm' = [asm EXCEPT ![p] = a] /\ got' = got /\ out' = out /\ conn' = [conn EXCEPT ![p] = c]
    BY <1>1, <1>6 DEF c
  <2>2. /\ DOMAIN conn' = Peers /\ conn'[Other(p)] = conn[Other(p)]
        /\ conn'[p] = c
    BY <2>1, <1>2, <1>4
  <2> QED BY <1>0, <1>2, <1>3, <1>6, <2>1, <2>2 DEF Receives, a, c
<1> QED BY <1>5, <1>6

\* Receiving keeps the numbers in order, and the target that of the newest datagram.
LEMMA ReceiveLink ==
  ASSUME NEW p \in Peers, NEW d, NEW ce, LinkInv, Receives(p, d, ce)
  PROVE  LinkInv'
<1> DEFINE b == conn[p]
           c == Heard(p, d, ce)
           q == Other(p)
<1>1. /\ d \in net /\ d.dir = q
      /\ DOMAIN conn' = Peers /\ conn'[q] = conn[q]
      /\ DOMAIN conn'[p] = ConnFields
      /\ \A x \in ConnFields \ {"last_roundtrip_success", "acked"} : conn'[p][x] = c[x]
      /\ DOMAIN out' = Peers /\ out'[q] = out[q]
      /\ DOMAIN out'[p] = OutFields /\ \A x \in OutFields \ {"acked"} : out'[p][x] = out[p][x]
      /\ setting' = setting /\ now' = now /\ net' = net
  BY DEF Receives
<1>2. Fresh(p, b) /\ now \in Int
  BY ConnectionAssumption, SettingsAssumption DEF LinkInv
<1>3. /\ Fresh(p, c) /\ \A x \in ConnFields \ RecvFields : c[x] = b[x]
      /\ d.seq < b.expected_receiver_seq => \A x \in ConnFields \ {"socks"} : c[x] = b[x]
      /\ ~(d.seq < b.expected_receiver_seq) =>
           c.expected_receiver_seq = d.seq + 1 /\ c.remote_addr = (IF p = Server THEN d.src ELSE b.remote_addr)
  BY <1>2, HeardFact
<1> HIDE DEF c
<1>4. q \in Peers /\ q # p /\ Peers = {p, q} /\ Other(q) = p
  BY OtherFact
<1>5. /\ conn'[p].counter = c.counter /\ conn'[p].blocks = c.blocks /\ conn'[p].dead = c.dead /\ conn'[p].MTU = c.MTU
      /\ conn'[p].last_port_choice = c.last_port_choice /\ conn'[p].socks = c.socks
      /\ conn'[p].expected_receiver_seq = c.expected_receiver_seq /\ conn'[p].remote_addr = c.remote_addr
  BY <1>1 DEF ConnFields
<1>6. Fresh(p, conn'[p])
  BY <1>1, <1>3, <1>5 DEF Fresh, SocksOK
<1>7. out'[p].num = out[p].num /\ out'[p].inst = out[p].inst
  BY <1>1 DEF OutFields
<1>8. \A z \in Peers : Fresh(z, conn'[z]) /\ OutOK(z)'
  BY <1>1, <1>4, <1>6, <1>7 DEF LinkInv, OutOK
<1>9. c.counter = b.counter
  BY <1>3 DEF ConnFields, RecvFields
<1>10. /\ b.counter \in Nat /\ conn[q].counter \in Nat /\ d.seq \in Nat /\ d.seq < conn[q].counter
       /\ b.expected_receiver_seq \in Nat /\ b.expected_receiver_seq <= conn[q].counter
       /\ conn[q].expected_receiver_seq \in Nat /\ conn[q].expected_receiver_seq <= b.counter
  BY <1>1, <1>4 DEF LinkInv, Fresh, Numbered
<1>11. d.seq < b.expected_receiver_seq => c.expected_receiver_seq = b.expected_receiver_seq /\ c.remote_addr = b.remote_addr
  BY <1>3 DEF ConnFields
<1>12. \A z \in Peers : conn'[z].expected_receiver_seq \in Nat /\ conn'[z].expected_receiver_seq <= conn'[Other(z)].counter
  <2>1. conn'[q].expected_receiver_seq \in Nat /\ conn'[q].expected_receiver_seq <= conn'[p].counter
    BY <1>1, <1>5, <1>9, <1>10
  <2>2. conn'[p].expected_receiver_seq \in Nat /\ conn'[p].expected_receiver_seq <= conn'[q].counter
    BY <1>1, <1>3, <1>5, <1>10, <1>11
  <2> QED BY <2>1, <2>2, <1>4
<1>13. \A e \in net' : Numbered(e)'
  <2> TAKE e \in net'
  <2>1. Numbered(e)
    BY <1>1 DEF LinkInv
  <2>2. conn'[e.dir].counter = conn[e.dir].counter
    BY <2>1, <1>1, <1>4, <1>5, <1>9 DEF Numbered
  <2> QED BY <2>1, <2>2 DEF Numbered
<1>14. TargetIsNewest'
  <2> SUFFICES ASSUME NEW e \in net, e.dir = Client, e.intact, e.seq + 1 = conn'[Server].expected_receiver_seq
               PROVE  conn'[Server].remote_addr = e.src
    BY <1>1 DEF TargetIsNewest
  <2>1. CASE p # Server \/ d.seq < b.expected_receiver_seq
    <3>1. /\ conn'[Server].expected_receiver_seq = conn[Server].expected_receiver_seq
          /\ conn'[Server].remote_addr = conn[Server].remote_addr
      BY <2>1, <1>1, <1>4, <1>5, <1>11 DEF Peers
    <3> QED BY <3>1 DEF LinkInv, TargetIsNewest
  <2>2. CASE p = Server /\ ~(d.seq < b.expected_receiver_seq)
    <3>1. conn'[Server].expected_receiver_seq = d.seq + 1 /\ conn'[Server].remote_addr = d.src
      BY <2>2, <1>3, <1>5
    <3>2. e.seq \in Nat
      BY DEF LinkInv, Numbered
    <3>3. e.seq = d.seq /\ e.dir = d.dir
      BY <3>1, <3>2, <1>1, <1>10, <2>2, ConnectionAssumption DEF Other
    <3>4. Copies(e, d)
      BY <3>3, <1>1 DEF LinkInv
    <3> QED BY <3>1, <3>4 DEF Copies
  <2> QED BY <2>1, <2>2
<1> QED BY <1>1, <1>8, <1>12, <1>13, <1>14 DEF LinkInv

\* A new connection.
LEMMA ConnectionFact ==
  ASSUME NEW p \in Peers, NEW port, p = Client => port = 1
  PROVE  Fresh(p, Connection(p, FirstTime, port))
<1> DEFINE c == Connection(p, FirstTime, port)
<1>1. /\ DOMAIN c = ConnFields /\ c.counter = 0 /\ c.blocks = 0 /\ c.MTU = DEFAULT_MTU /\ c.last_port_choice = FirstTime
      /\ c.socks = (IF port = Bad THEN <<>> ELSE <<port>>) /\ c.dead = (port = Bad)
  BY DEF Connection, ConnFields
<1> HIDE DEF c
<1>2. c.dead \in BOOLEAN
  BY <1>1, Zenon
<1>3. SocksOK(p, c)
  <2>1. CASE p = Client
    <3>1. c.socks = <<1>>
      BY <1>1, <2>1 DEF Bad
    <3> QED BY <3>1, <2>1, ConnectionAssumption DEF SocksOK
  <2>2. CASE p # Client
    BY <1>1, <2>2 DEF SocksOK
  <2> QED BY <2>1, <2>2
<1>4. FirstTime \in Int /\ 0 <= BlockLimit /\ 0 < BlockLimit
  BY ConnectionAssumption
<1>5. Fresh(p, c)
  BY <1>1, <1>2, <1>3, <1>4 DEF Fresh
<1> QED BY <1>5 DEF c

\* The invariant holds at the start.
LEMMA LinkInitial == Init => LinkInv
<1> SUFFICES ASSUME Init PROVE LinkInv
  OBVIOUS
<1>1. PICK port : conn = [p \in Peers |-> Connection(p, FirstTime, IF p = Client THEN 1 ELSE port)]
  BY DEF Init
<1>2. setting \in Settings /\ now = FirstTime /\ net = {}
  BY DEF Init
<1>3. now \in FirstTime..setting.until
  BY <1>2, SettingsAssumption, ConnectionAssumption
<1>4. DOMAIN conn = Peers /\ \A p \in Peers : conn[p] = Connection(p, FirstTime, IF p = Client THEN 1 ELSE port)
  BY <1>1
<1>5. \A p \in Peers : Fresh(p, conn[p])
  <2> TAKE p \in Peers
  <2>1. CASE p = Client
    BY <2>1, <1>4, ConnectionFact
  <2>2. CASE p # Client
    BY <2>2, <1>4, ConnectionFact
  <2> QED BY <2>1, <2>2
<1>6. \A p \in Peers : conn[p].expected_receiver_seq = 0
  BY <1>4 DEF Connection
<1>7. \A p \in Peers : conn[p].expected_receiver_seq \in Nat /\ conn[p].expected_receiver_seq <= conn[Other(p)].counter
  BY <1>5, <1>6, OtherFact DEF Fresh
<1>8. DOMAIN out = Peers /\ \A p \in Peers : DOMAIN out[p] = OutFields /\ out[p].num = 0
  BY DEF Init, OutFields
<1>9. \A p \in Peers : OutOK(p)
  BY <1>8 DEF OutOK
<1> QED BY <1>2, <1>3, <1>4, <1>5, <1>7, <1>8, <1>9 DEF LinkInv, TargetIsNewest

\* A damaged datagram keeps its number.
LEMMA DamageLink ==
  ASSUME LinkInv, NEW d \in net, Damage(d)
  PROVE  LinkInv'
<1> DEFINE e == [d EXCEPT !.intact = FALSE]
<1>1. /\ net' = (net \ {d}) \union {e}
      /\ setting' = setting /\ now' = now /\ conn' = conn /\ out' = out
  BY DEF Damage
<1>2. Numbered(d)
  BY DEF LinkInv
<1>3. /\ DOMAIN e = PacketFields /\ e.dir = d.dir /\ e.seq = d.seq /\ e.payload = d.payload /\ e.at = d.at
      /\ e.src = d.src /\ ~e.intact
  BY <1>2 DEF Numbered, PacketFields
<1> HIDE DEF e
<1>4. \A u \in net' : Numbered(u)'
  BY <1>1, <1>2, <1>3 DEF LinkInv, Numbered
<1>5. \A u, v \in net' : u.dir = v.dir /\ u.seq = v.seq => Copies(u, v)
  <2>1. \A u, v \in net : u.dir = v.dir /\ u.seq = v.seq => Copies(u, v)
    BY DEF LinkInv
  <2> QED BY <2>1, <1>1, <1>3 DEF Copies
<1>6. TargetIsNewest'
  BY <1>1, <1>3 DEF LinkInv, TargetIsNewest
<1>7. \A p \in Peers : OutOK(p)'
  BY <1>1 DEF LinkInv, OutOK
<1> QED BY <1>1, <1>4, <1>5, <1>6, <1>7 DEF LinkInv

\* Nothing new arrives on the wire.
LEMMA FewerLink ==
  ASSUME LinkInv, net' \subseteq net, setting' = setting, conn' = conn, out' = out, now' \in FirstTime..setting.until
  PROVE  LinkInv'
<1>1. \A u \in net' : Numbered(u)'
  BY DEF LinkInv, Numbered
<1>2. \A u, v \in net' : u.dir = v.dir /\ u.seq = v.seq => Copies(u, v)
  BY DEF LinkInv
<1>3. TargetIsNewest'
  BY DEF LinkInv, TargetIsNewest
<1>4. \A p \in Peers : OutOK(p)'
  BY DEF LinkInv, OutOK
<1> QED BY <1>1, <1>2, <1>3, <1>4 DEF LinkInv

\* The clock stays within its bound.
LEMMA TickTime ==
  ASSUME LinkInv, Tick
  PROVE  now' = now + 1 /\ now' \in FirstTime..setting.until
<1>1. setting \in Settings /\ now \in FirstTime..setting.until
  BY DEF LinkInv
<1>2. setting.until \in Nat /\ FirstTime \in Nat
  BY <1>1, SettingsAssumption, ConnectionAssumption
<1>3. now < setting.until /\ now' = now + 1
  BY DEF Tick
<1> QED BY <1>1, <1>2, <1>3

\* Every step keeps the invariant.
LEMMA LinkInductive == LinkInv /\ [Next]_vars => LinkInv'
<1> SUFFICES ASSUME LinkInv, [Next]_vars PROVE LinkInv'
  OBVIOUS
<1>1. CASE \E p \in Peers : Send(p)
  BY <1>1, SendStep, SendLink
<1>2. CASE \E p \in Peers : \E d \in net : Receive(p, d)
  BY <1>2, ReceiveStep, ReceiveLink
<1>3. CASE \E p \in Peers : \E d \in net : Refuse(p, d)
  <2>1. UNCHANGED vars
    BY <1>3 DEF Refuse
  <2> QED BY <2>1, FewerLink DEF vars, LinkInv
<1>4. CASE \E d \in net : Damage(d)
  BY <1>4, DamageLink
<1>5. CASE Roam
  BY <1>5, FewerLink DEF Roam, LinkInv
<1>6. CASE Tick
  <2>1. net' \subseteq net /\ setting' = setting /\ conn' = conn /\ out' = out
    BY <1>6 DEF Tick
  <2> QED BY <1>6, <2>1, TickTime, FewerLink
<1>7. CASE UNCHANGED vars
  BY <1>7, FewerLink DEF vars, LinkInv
<1> QED BY <1>1, <1>2, <1>3, <1>4, <1>5, <1>6, <1>7 DEF Next

\* The numbers on the wire stay below the counters, for any sizes, any number
\* of datagrams and any network (crypto.cc, network.cc).
THEOREM LinkInvariant == Spec => []LinkInv
BY LinkInitial, LinkInductive, PTL DEF Spec

\* No nonce is used twice with one key: the limit on blocks ends the session
\* before the number in the nonce wraps (crypto.cc:64-72, 217-237).
THEOREM NoncesUnique == Spec => []NonceNeverRepeats
<1>1. LinkInv => NonceNeverRepeats
  BY DEF LinkInv, NonceNeverRepeats, Copies
<1> QED BY <1>1, LinkInvariant, PTL

\* A datagram that was overtaken never moves the server's target back
\* (network.cc:471-476, 522-527).
THEOREM TargetFollows == Spec => []TargetIsNewest
<1>1. LinkInv => TargetIsNewest
  BY DEF LinkInv
<1> QED BY <1>1, LinkInvariant, PTL

(***************************************************************************)
(* Timestamps.                                                             *)
(***************************************************************************)

\* x is y, or one more, modulo the span of the timestamps.
Near(x, y) == \E k \in Int : x - y - k * Wrap \in {0, 1}

\* The span of the timestamps exceeds the longest sample.
LEMMA WrapFact == Wrap \in Nat \ {0} /\ Wrap - 2 \in Nat /\ RTTLimit \in Nat /\ RTTLimit <= Wrap - 1
BY ConnectionAssumption

\* A remainder differs from its number by a multiple of the span.
LEMMA ModNear ==
  ASSUME NEW a \in Int
  PROVE  a % Wrap \in 0..(Wrap - 1) /\ \E k \in Int : a % Wrap = a + k * Wrap
<1>1. a \div Wrap \in Int /\ a = (a \div Wrap) * Wrap + (a % Wrap)
  BY WrapFact, DivMod
<1>2. -(a \div Wrap) \in Int /\ a % Wrap \in Int
  BY <1>1, WrapFact
<1>3. a % Wrap = a + (-(a \div Wrap)) * Wrap
  BY <1>1, <1>2, WrapFact
<1> QED BY <1>2, <1>3, WrapFact, ModRange

\* A timestamp stands for its time, or for one tick later when that value means none.
LEMMA StampFact ==
  ASSUME NEW t \in Int
  PROVE  timestamp16(t) \in 0..(Wrap - 2) /\ Near(timestamp16(t), t)
<1>1. t % Wrap \in 0..(Wrap - 1)
  BY ModNear
<1>2. PICK k \in Int : t % Wrap = t + k * Wrap
  BY ModNear
<1>3. k * Wrap \in Int /\ (k - 1) * Wrap = k * Wrap - Wrap /\ k - 1 \in Int
  BY WrapFact
<1>4. CASE t % Wrap = Wrap - 1
  <2>1. timestamp16(t) = 0
    BY <1>4 DEF timestamp16, NoTimestamp
  <2>2. 0 - t - (k - 1) * Wrap = 1
    BY <1>2, <1>3, <1>4, WrapFact
  <2>3. 0 - t - (k - 1) * Wrap \in {0, 1}
    BY <2>2
  <2>4. Near(0, t)
    BY <2>3, <1>3, Zenon DEF Near
  <2> QED BY <2>1, <2>4, WrapFact
<1>5. CASE t % Wrap # Wrap - 1
  <2>1. timestamp16(t) = t % Wrap
    BY <1>5 DEF timestamp16, NoTimestamp
  <2>2. (t % Wrap) - t - k * Wrap = 0
    BY <1>1, <1>2, <1>3, WrapFact
  <2>3. (t % Wrap) - t - k * Wrap \in {0, 1}
    BY <2>2
  <2>4. Near(t % Wrap, t)
    BY <2>3, Zenon DEF Near
  <2>5. t % Wrap \in 0..(Wrap - 2)
    BY <1>1, <1>5, WrapFact
  <2> QED BY <2>1, <2>4, <2>5
<1> QED BY <1>4, <1>5

\* Advancing a timestamp advances the time it stands for.
LEMMA ShiftNear ==
  ASSUME NEW x \in Int, NEW y \in Int, NEW h \in Int, Near(x, y)
  PROVE  Near((x + h) % Wrap, y + h)
<1>1. PICK k \in Int : x - y - k * Wrap \in {0, 1}
  BY DEF Near
<1>2. PICK l \in Int : (x + h) % Wrap = x + h + l * Wrap
  BY ModNear
<1>3. k * Wrap \in Int /\ l * Wrap \in Int /\ (k + l) * Wrap = k * Wrap + l * Wrap /\ k + l \in Int
  BY WrapFact
<1>4. ((x + h) % Wrap) - (y + h) - (k + l) * Wrap = x - y - k * Wrap
  BY <1>2, <1>3
<1> QED BY <1>1, <1>3, <1>4 DEF Near

\* The difference of two timestamps is that of their times, unless these are far apart.
LEMMA NearSample ==
  ASSUME NEW x \in Int, NEW t \in Int, NEW z \in Int, NEW y \in Int, Near(x, t), Near(z, y),
         timestamp_diff(x, z) < RTTLimit, 0 <= t - y, t - y <= Wrap - 2
  PROVE  timestamp_diff(x, z) - (t - y) \in {-1, 0, 1}
<1> DEFINE R == timestamp_diff(x, z)
<1>1. PICK i \in Int : x - t - i * Wrap \in {0, 1}
  BY DEF Near
<1>2. PICK j \in Int : z - y - j * Wrap \in {0, 1}
  BY DEF Near
<1>3. x - z \in Int
  OBVIOUS
<1>4. R \in 0..(Wrap - 1)
  BY <1>3, ModNear DEF timestamp_diff
<1>5. PICK l \in Int : R = x - z + l * Wrap
  BY <1>3, ModNear DEF timestamp_diff
<1> HIDE DEF R
<1> DEFINE K == i - j + l
<1>6. K \in Int /\ K * Wrap = i * Wrap - j * Wrap + l * Wrap /\ i * Wrap \in Int /\ j * Wrap \in Int /\ l * Wrap \in Int
  BY WrapFact
<1> HIDE DEF K
<1>7. R - (t - y) - K * Wrap \in {-1, 0, 1}
  BY <1>1, <1>2, <1>4, <1>5, <1>6
<1>8. R < RTTLimit
  BY DEF R
<1>9. K * Wrap \in Int /\ (K >= 1 => K * Wrap >= Wrap) /\ (K <= -1 => K * Wrap <= -Wrap)
  BY <1>6, WrapFact
<1>10. K = 0
  BY <1>4, <1>6, <1>7, <1>8, <1>9, WrapFact
<1>11. K * Wrap = 0
  BY <1>10, WrapFact
<1> QED BY <1>4, <1>7, <1>11 DEF R

\* The timestamp that waits to be returned: none, or one of a datagram that
\* did not travel longer than datagrams do.
SavedOK(c) ==
  /\ c.saved_timestamp \in 0..(Wrap - 1) /\ c.saved_at \in Int /\ c.saved_true \in Int
  /\ \/ c.saved_timestamp = NoTimestamp /\ c.saved_at = 0 /\ c.saved_true = 0
     \/ /\ Near(c.saved_timestamp, c.saved_true)
        /\ 0 <= c.saved_at - c.saved_true /\ c.saved_at - c.saved_true <= setting.life + PENALTY

HonestOK(c) == c.sample # -1 => c.sample - c.true_sample \in {-1, 0, 1}

\* A datagram carries the time it was sent, and that of the datagram it
\* answers, advanced by the time that one was held.
Clocked(d) ==
  /\ d.at \in Int /\ d.at <= now /\ now - d.at <= setting.life
  /\ d.timestamp \in 0..(Wrap - 2) /\ Near(d.timestamp, d.at)
  /\ d.reply \in 0..(Wrap - 1) /\ d.reply_at \in Int
  /\ d.reply # NoTimestamp =>
       Near(d.reply, d.reply_at) /\ 0 <= d.at - d.reply_at /\ d.at - d.reply_at <= setting.life + PENALTY

ClockInv ==
  /\ \A p \in Peers : SavedOK(conn[p]) /\ HonestOK(conn[p])
  /\ \A d \in net : Clocked(d)

\* What the bounds of an instance say about the clock.
LEMMA TimeFact ==
  ASSUME LinkInv
  PROVE  /\ now \in Int /\ now >= HoldLimit /\ HoldLimit \in Int
         /\ setting.life \in Nat /\ PENALTY \in Nat /\ 2 * setting.life + PENALTY + 1 < Wrap
<1>1. setting \in Settings /\ now \in FirstTime..setting.until
  BY DEF LinkInv
<1>2. setting.life \in Nat /\ 2 * setting.life + PENALTY + 1 < Wrap /\ setting.until \in Nat
  BY <1>1, SettingsAssumption
<1>3. FirstTime \in Nat /\ HoldLimit \in Nat /\ FirstTime >= HoldLimit /\ PENALTY \in Nat
  BY ConnectionAssumption
<1> QED BY <1>1, <1>2, <1>3

\* A new datagram carries its time, and returns the saved one.
LEMMA PacketClock ==
  ASSUME LinkInv, NEW p \in Peers, NEW a, NEW f, SavedOK(a)
  PROVE  Clocked(new_packet(a, p, now, f))
<1> DEFINE d == new_packet(a, p, now, f)
<1>1. /\ d.at = now /\ d.timestamp = timestamp16(now) /\ d.reply = reply(a, now)
      /\ d.reply_at = a.saved_true + (now - a.saved_at)
  BY DEF new_packet
<1> HIDE DEF d
<1>2. /\ now \in Int /\ now >= HoldLimit /\ HoldLimit \in Int /\ setting.life \in Nat /\ PENALTY \in Nat
  BY TimeFact
<1>3. d.timestamp \in 0..(Wrap - 2) /\ Near(d.timestamp, d.at)
  BY <1>1, <1>2, StampFact
<1>4. a.saved_timestamp \in Int /\ a.saved_at \in Int /\ a.saved_true \in Int
  BY WrapFact DEF SavedOK
<1>5. d.reply_at \in Int /\ d.at - d.reply_at = a.saved_at - a.saved_true
  BY <1>1, <1>2, <1>4
<1>6. CASE now - a.saved_at < HoldLimit
  <2>1. d.reply = (a.saved_timestamp + (now - a.saved_at)) % Wrap
    BY <1>1, <1>6 DEF reply
  <2>2. now - a.saved_at \in Int
    BY <1>2, <1>4
  <2>3. d.reply \in 0..(Wrap - 1)
    BY <2>1, <2>2, <1>4, ModNear
  <2>4. a.saved_at # 0
    BY <1>2, <1>6
  <2>5. /\ Near(a.saved_timestamp, a.saved_true)
        /\ 0 <= a.saved_at - a.saved_true /\ a.saved_at - a.saved_true <= setting.life + PENALTY
    BY <2>4 DEF SavedOK
  <2>6. Near(d.reply, d.reply_at)
    BY <1>1, <1>4, <2>1, <2>2, <2>5, ShiftNear
  <2> QED BY <1>1, <1>2, <1>3, <1>5, <2>3, <2>5, <2>6 DEF Clocked, d
<1>7. CASE ~(now - a.saved_at < HoldLimit)
  <2>1. d.reply = NoTimestamp
    BY <1>1, <1>7 DEF reply
  <2>2. d.reply \in 0..(Wrap - 1)
    BY <2>1, WrapFact DEF NoTimestamp
  <2> QED BY <1>1, <1>2, <1>3, <1>5, <2>1, <2>2 DEF Clocked, d
<1> QED BY <1>6, <1>7

\* Sending keeps the saved timestamp or drops it.
LEMMA SavedAlong ==
  ASSUME NEW p, NEW b, NEW c, Along(p, b, c), SavedOK(b)
  PROVE  SavedOK(c)
BY WrapFact DEF Along, SavedOK, NoTimestamp

\* Sending keeps the timestamps right.
LEMMA SendClock ==
  ASSUME NEW p \in Peers, NEW inst, NEW pathMTU, LinkInv, ClockInv, Sends(p, inst, pathMTU)
  PROVE  ClockInv'
<1> DEFINE r == send_in_fragments(conn[p], p, now, inst, pathMTU)
           fs == make_fragments(conn[p], inst)
           b == Made(conn[p], inst)
           q == Other(p)
<1>1. /\ conn' = [conn EXCEPT ![p] = r.c] /\ net' = net \union r.sent
      /\ setting' = setting /\ now' = now /\ Wire(p, b, r, now, fs, Len(fs))
  BY DEF Sends
<1>2. Fresh(p, conn[p]) /\ DOMAIN conn = Peers
  BY DEF LinkInv
<1>3. \A x \in ConnFields \ {"next_instruction_id", "last_instruction", "last_MTU", "failed"} : b[x] = conn[p][x]
  BY <1>2, MadeFact
<1> HIDE DEF r, b, fs
<1>4. /\ b.saved_timestamp = conn[p].saved_timestamp /\ b.saved_at = conn[p].saved_at /\ b.saved_true = conn[p].saved_true
      /\ b.sample = conn[p].sample /\ b.true_sample = conn[p].true_sample
  BY <1>3 DEF ConnFields
<1>5. SavedOK(b)
  BY <1>4 DEF ClockInv, SavedOK
<1>6. Along(p, b, r.c)
  BY <1>1 DEF Wire
<1>7. SavedOK(r.c)
  BY <1>5, <1>6, SavedAlong
<1>8. r.c.sample = conn[p].sample /\ r.c.true_sample = conn[p].true_sample
  BY <1>4, <1>6 DEF Along, ConnFields, SendFields
<1>9. HonestOK(r.c)
  BY <1>8 DEF ClockInv, HonestOK
<1>10. q \in Peers /\ q # p /\ Peers = {p, q}
  BY OtherFact
<1>11. conn'[p] = r.c /\ conn'[q] = conn[q]
  BY <1>1, <1>2, <1>10
<1>12. \A z \in Peers : SavedOK(conn[z])' /\ HonestOK(conn[z])'
  <2>1. SavedOK(conn[p])' /\ HonestOK(conn[p])'
    BY <1>1, <1>7, <1>9, <1>11 DEF SavedOK, HonestOK
  <2>2. SavedOK(conn[q])' /\ HonestOK(conn[q])'
    BY <1>1, <1>10, <1>11 DEF ClockInv, SavedOK, HonestOK
  <2> QED BY <2>1, <2>2, <1>10
<1>13. \A d \in net' : Clocked(d)
  <2> TAKE d \in net'
  <2>1. CASE d \in net
    BY <2>1 DEF ClockInv
  <2>2. CASE d \in r.sent
    <3>1. PICK a : \E i \in 1..Len(fs) :
                 Along(p, b, a) /\ ~a.dead /\ a.counter < r.c.counter /\ d = new_packet(a, p, now, fs[i])
      BY <1>1, <2>2 DEF Wire
    <3>2. PICK i \in 1..Len(fs) : Along(p, b, a) /\ d = new_packet(a, p, now, fs[i])
      BY <3>1
    <3>3. SavedOK(a)
      BY <3>2, <1>5, SavedAlong
    <3> QED BY <3>2, <3>3, PacketClock
  <2> QED BY <1>1, <2>1, <2>2
<1>14. \A d \in net' : Clocked(d)'
  BY <1>1, <1>13 DEF Clocked
<1> QED BY <1>12, <1>14 DEF ClockInv

\* Receiving keeps them right, and samples are honest.
LEMMA ReceiveClock ==
  ASSUME NEW p \in Peers, NEW d, NEW ce, LinkInv, ClockInv, Receives(p, d, ce)
  PROVE  ClockInv'
<1> DEFINE b == conn[p]
           c == Heard(p, d, ce)
           q == Other(p)
           R == timestamp_diff(timestamp16(now), d.reply)
           saves == d.timestamp # NoTimestamp
           measured == d.reply # NoTimestamp /\ R < RTTLimit
           late == IF ce THEN PENALTY ELSE 0
<1>1. /\ d \in net /\ conn'[q] = conn[q]
      /\ \A x \in ConnFields \ {"last_roundtrip_success", "acked"} : conn'[p][x] = c[x]
      /\ setting' = setting /\ now' = now /\ net' = net
  BY DEF Receives
<1>2. /\ now \in Int /\ setting.life \in Nat /\ PENALTY \in Nat /\ 2 * setting.life + PENALTY + 1 < Wrap /\ Fresh(p, b)
  BY TimeFact DEF LinkInv
<1>3. Clocked(d) /\ SavedOK(b) /\ HonestOK(b)
  BY <1>1 DEF ClockInv
<1>4. /\ d.seq < b.expected_receiver_seq => \A x \in ConnFields \ {"socks"} : c[x] = b[x]
      /\ ~(d.seq < b.expected_receiver_seq) =>
                  /\ c.saved_timestamp = (IF saves THEN (d.timestamp - late) % Wrap ELSE b.saved_timestamp)
                  /\ c.saved_at = (IF saves THEN now ELSE b.saved_at)
                  /\ c.saved_true = (IF saves THEN d.at - late ELSE b.saved_true)
                  /\ c.sample = (IF measured THEN R ELSE b.sample)
                  /\ c.true_sample = (IF measured THEN now - d.reply_at ELSE b.true_sample)
  BY <1>2, HeardFact
<1>5. late \in {0, PENALTY}
  OBVIOUS
<1> HIDE DEF c, late
<1>6. SavedOK(c) /\ HonestOK(c)
  <2>1. CASE d.seq < b.expected_receiver_seq
    <3>1. /\ c.saved_timestamp = b.saved_timestamp /\ c.saved_at = b.saved_at /\ c.saved_true = b.saved_true
          /\ c.sample = b.sample /\ c.true_sample = b.true_sample
      BY <1>4, <2>1 DEF ConnFields
    <3> QED BY <3>1, <1>3 DEF SavedOK, HonestOK
  <2>2. CASE ~(d.seq < b.expected_receiver_seq)
    <3>1. SavedOK(c)
      <4>1. CASE saves
        <5>1. c.saved_timestamp = (d.timestamp - late) % Wrap /\ c.saved_at = now /\ c.saved_true = d.at - late
          BY <1>4, <2>2, <4>1
        <5>2. /\ d.timestamp \in Int /\ d.at \in Int /\ d.at <= now /\ now - d.at <= setting.life /\ Near(d.timestamp, d.at)
          BY <1>3, WrapFact DEF Clocked
        <5>3. -late \in Int /\ d.timestamp + (-late) = d.timestamp - late /\ d.at + (-late) = d.at - late
          BY <1>2, <1>5, <5>2
        <5>4. Near((d.timestamp + (-late)) % Wrap, d.at + (-late))
          BY <5>2, <5>3, ShiftNear
        <5>5. Near(c.saved_timestamp, c.saved_true)
          BY <5>1, <5>3, <5>4
        <5>6. c.saved_timestamp \in 0..(Wrap - 1)
          <6>1. d.timestamp - late \in Int
            BY <5>2, <1>2, <1>5
          <6> QED BY <6>1, <5>1, ModNear
        <5>7. /\ c.saved_at \in Int /\ c.saved_true \in Int
              /\ 0 <= c.saved_at - c.saved_true /\ c.saved_at - c.saved_true <= setting.life + PENALTY
          BY <1>2, <1>5, <5>1, <5>2
        <5> QED BY <5>5, <5>6, <5>7 DEF SavedOK
      <4>2. CASE ~saves
        BY <1>3, <1>4, <2>2, <4>2 DEF SavedOK
      <4> QED BY <4>1, <4>2
    <3>2. HonestOK(c)
      <4>1. CASE measured
        <5>1. c.sample = R /\ c.true_sample = now - d.reply_at
          BY <1>4, <2>2, <4>1
        <5>2. /\ d.reply \in Int /\ d.reply_at \in Int /\ Near(d.reply, d.reply_at)
              /\ 0 <= d.at - d.reply_at /\ d.at - d.reply_at <= setting.life + PENALTY
              /\ d.at \in Int /\ d.at <= now /\ now - d.at <= setting.life
          BY <1>3, <4>1, WrapFact DEF Clocked
        <5>3. 0 <= now - d.reply_at /\ now - d.reply_at <= Wrap - 2
          BY <1>2, <5>2, WrapFact
        <5>4. timestamp16(now) \in Int /\ Near(timestamp16(now), now)
          BY <1>2, StampFact, WrapFact
        <5>5. R - (now - d.reply_at) \in {-1, 0, 1}
          BY <1>2, <4>1, <5>2, <5>3, <5>4, NearSample
        <5> QED BY <5>1, <5>5 DEF HonestOK
      <4>2. CASE ~measured
        BY <1>3, <1>4, <2>2, <4>2 DEF HonestOK
      <4> QED BY <4>1, <4>2
    <3> QED BY <3>1, <3>2
  <2> QED BY <2>1, <2>2
<1>7. /\ conn'[p].saved_timestamp = c.saved_timestamp /\ conn'[p].saved_at = c.saved_at
      /\ conn'[p].saved_true = c.saved_true
      /\ conn'[p].sample = c.sample /\ conn'[p].true_sample = c.true_sample
  BY <1>1 DEF ConnFields
<1>8. SavedOK(conn[p])' /\ HonestOK(conn[p])'
  BY <1>1, <1>6, <1>7 DEF SavedOK, HonestOK
<1>9. SavedOK(conn[q])' /\ HonestOK(conn[q])'
  BY <1>1, OtherFact DEF ClockInv, SavedOK, HonestOK
<1>10. \A e \in net' : Clocked(e)'
  BY <1>1 DEF ClockInv, Clocked
<1> QED BY <1>8, <1>9, <1>10, OtherFact DEF ClockInv

\* No timestamp is saved at the start.
LEMMA ClockInitial == Init => ClockInv
<1> SUFFICES ASSUME Init PROVE ClockInv
  OBVIOUS
<1>1. PICK port : conn = [p \in Peers |-> Connection(p, FirstTime, IF p = Client THEN 1 ELSE port)]
  BY DEF Init
<1>2. \A p \in Peers : /\ conn[p].saved_timestamp = NoTimestamp /\ conn[p].saved_at = 0 /\ conn[p].saved_true = 0
                       /\ conn[p].sample = -1
  BY <1>1 DEF Connection
<1>3. net = {}
  BY DEF Init
<1> QED BY <1>2, <1>3, WrapFact DEF ClockInv, SavedOK, HonestOK, NoTimestamp

\* Every step keeps the timestamps right.
LEMMA ClockInductive == LinkInv /\ ClockInv /\ [Next]_vars => ClockInv'
<1> SUFFICES ASSUME LinkInv, ClockInv, [Next]_vars PROVE ClockInv'
  OBVIOUS
<1>1. CASE \E p \in Peers : Send(p)
  BY <1>1, SendStep, SendClock
<1>2. CASE \E p \in Peers : \E d \in net : Receive(p, d)
  BY <1>2, ReceiveStep, ReceiveClock
<1>3. CASE \E d \in net : Damage(d)
  <2>1. PICK d \in net : Damage(d)
    BY <1>3
  <2> DEFINE e == [d EXCEPT !.intact = FALSE]
  <2>2. net' = (net \ {d}) \union {e} /\ setting' = setting /\ now' = now /\ conn' = conn
    BY <2>1 DEF Damage
  <2>3. e.at = d.at /\ e.timestamp = d.timestamp /\ e.reply = d.reply /\ e.reply_at = d.reply_at
    BY DEF LinkInv, Numbered, PacketFields
  <2> HIDE DEF e
  <2>4. Clocked(e)
    BY <2>3 DEF ClockInv, Clocked
  <2>5. \A u \in net' : Clocked(u)
    BY <2>2, <2>4 DEF ClockInv
  <2> QED BY <2>2, <2>5 DEF ClockInv, Clocked, SavedOK, HonestOK
<1>4. CASE Tick
  <2>1. /\ net' = {d \in net : now + 1 - d.at <= setting.life} /\ setting' = setting /\ conn' = conn /\ now' = now + 1
    BY <1>4 DEF Tick
  <2>2. now \in Int
    BY TimeFact
  <2>3. \A u \in net' : Clocked(u)'
    BY <2>1, <2>2 DEF ClockInv, Clocked
  <2> QED BY <2>1, <2>3 DEF ClockInv, SavedOK, HonestOK
<1>5. CASE \/ \E p \in Peers : \E d \in net : Refuse(p, d)
           \/ Roam
           \/ UNCHANGED vars
  <2>1. net' = net /\ setting' = setting /\ conn' = conn /\ now' = now
    BY <1>5 DEF Refuse, Roam, vars
  <2> QED BY <2>1 DEF ClockInv, Clocked, SavedOK, HonestOK
<1> QED BY <1>1, <1>2, <1>3, <1>4, <1>5 DEF Next

\* The timestamps stay near the times they stand for (network.cc:98-115).
THEOREM ClockInvariant == Spec => [](LinkInv /\ ClockInv)
BY LinkInitial, LinkInductive, ClockInitial, ClockInductive, PTL DEF Spec

\* A round-trip sample that is accepted is right to one tick, across wraps of
\* the 16 bits, held and penalised timestamps (network.cc:98-115, 480-520).
THEOREM SamplesHonest == Spec => []SampleHonest
<1>1. ClockInv => SampleHonest
  BY DEF ClockInv, HonestOK, SampleHonest
<1> QED BY <1>1, ClockInvariant, PTL

(***************************************************************************)
(* Fragments.                                                              *)
(***************************************************************************)
MTUs == {DEFAULT_MTU, FALLBACK_MTU}

\* f is a piece of its instruction cut at m.
IsPiece(f, m) ==
  /\ f.inst.size \in Nat \ {0} /\ f.num \in Nat /\ f.num + 1 <= Count(f.inst.size, m)
  /\ f = Piece(f.id, f.inst, m, f.num + 1)

\* Fragments of one id come from one cut of one instruction.
Alike(f, g) == f.id = g.id => f.inst = g.inst /\ \E m \in MTUs : IsPiece(f, m) /\ IsPiece(g, m)

Present(a) == {i \in 1..Len(a.fragments) : a.fragments[i] # Missing}
Held(a) == {a.fragments[i] : i \in Present(a)}

AsmFields == {"fragments", "current_id", "arrived", "total", "failed"}

\* An assembly: fragments of one id in their places, none beyond the last, and
\* the total known exactly when the final one is there.
Gathered(a) ==
  /\ DOMAIN a = AsmFields
  /\ Len(a.fragments) \in Nat /\ DOMAIN a.fragments = 1..Len(a.fragments)
  /\ a.arrived = Cardinality(Present(a))
  /\ \A i \in Present(a) : a.fragments[i].id = a.current_id /\ a.fragments[i].num = i - 1
  /\ Len(a.fragments) > 0 => Len(a.fragments) \in Present(a)
  /\ a.total = -1 => \A i \in Present(a) : ~a.fragments[i].final
  /\ a.total # -1 => a.total = Len(a.fragments) /\ a.total > 0 /\ a.fragments[a.total].final

\* As many fragments have arrived as there are in the list.
LEMMA PresentFact ==
  ASSUME NEW a, Gathered(a)
  PROVE  /\ IsFiniteSet(Present(a)) /\ a.arrived \in Nat /\ a.arrived <= Len(a.fragments)
         /\ a.arrived = Len(a.fragments) => Present(a) = 1..Len(a.fragments)
<1> DEFINE n == Len(a.fragments)
<1>1. n \in Nat /\ Present(a) \subseteq 1..n /\ a.arrived = Cardinality(Present(a))
  BY DEF Gathered, Present
<1>2. IsFiniteSet(1..n) /\ Cardinality(1..n) = n
  BY <1>1, FS_Interval
<1>3. IsFiniteSet(Present(a)) /\ Cardinality(Present(a)) <= n
  BY <1>1, <1>2, FS_Subset
<1>4. Cardinality(Present(a)) = n => Present(a) = 1..n
  BY <1>1, <1>2, FS_Subset
<1>5. Cardinality(Present(a)) \in Nat
  BY <1>3, FS_CardinalityType
<1> QED BY <1>1, <1>3, <1>4, <1>5

\* Two pieces of one cut: the place says which they are, and the final one is
\* the last.
LEMMA PieceFact ==
  ASSUME NEW f, NEW g, f.id = g.id, Alike(f, g)
  PROVE  /\ f.num = g.num => f = g
         /\ f.num \in Nat /\ g.num \in Nat
         /\ g.final => f.num <= g.num /\ (f.final => f.num = g.num)
         /\ f.inst = g.inst
<1>1. f.inst = g.inst
  BY DEF Alike
<1>2. PICK m \in MTUs : IsPiece(f, m) /\ IsPiece(g, m)
  BY DEF Alike
<1> DEFINE n == Count(f.inst.size, m)
<1>3. m \in Nat \ {0}
  BY ConnectionAssumption DEF MTUs
<1>4. n \in Nat
  BY <1>2, <1>3, CutFact DEF IsPiece
<1>5. /\ f.num \in Nat /\ g.num \in Nat /\ f.num + 1 <= n /\ g.num + 1 <= n
      /\ f = Piece(f.id, f.inst, m, f.num + 1) /\ g = Piece(f.id, f.inst, m, g.num + 1)
  BY <1>1, <1>2 DEF IsPiece
<1>6. f.final = (f.num + 1 = n) /\ g.final = (g.num + 1 = n)
  <2>1. Piece(f.id, f.inst, m, f.num + 1).final = (f.num + 1 = n)
    BY DEF Piece
  <2>2. Piece(f.id, f.inst, m, g.num + 1).final = (g.num + 1 = n)
    BY DEF Piece
  <2> QED BY <1>5, <2>1, <2>2
<1>7. f.num = g.num => f = g
  BY <1>5
<1> HIDE DEF n
<1>8. (g.final => g.num + 1 = n) /\ (f.final => f.num + 1 = n)
  BY <1>6, Zenon
<1> QED BY <1>1, <1>4, <1>5, <1>7, <1>8

\* A fragment that was sent is not the empty one.
LEMMA MissingFact ==
  ASSUME NEW f, f.id \in Nat
  PROVE  f # Missing
BY DEF Missing, NoId

\* resize keeps what fits and fills up with empty fragments.
LEMMA ResizeFact ==
  ASSUME NEW s, NEW n \in Nat, Len(s) \in Nat, DOMAIN s = 1..Len(s)
  PROVE  /\ DOMAIN resize(s, n) = 1..n /\ Len(resize(s, n)) = n
         /\ \A i \in 1..n : resize(s, n)[i] = (IF i <= Len(s) THEN s[i] ELSE Missing)
<1>1. resize(s, n) = [i \in 1..n |-> IF i <= Len(s) THEN s[i] ELSE Missing]
  BY DEF resize
<1> QED BY <1>1

\* The list after the fragment f took its place: b is a with f in place j.
Joined(a, b, f) ==
  LET j == f.num + 1
      n == IF Len(a.fragments) >= j THEN Len(a.fragments) ELSE j
  IN  /\ Len(b.fragments) = n /\ DOMAIN b.fragments = 1..n
      /\ \A i \in 1..n : b.fragments[i] = (IF i = j THEN f ELSE IF i <= Len(a.fragments) THEN a.fragments[i] ELSE Missing)

\* A fragment that takes its place keeps the assembly in order.
LEMMA JoinFact ==
  ASSUME NEW a, NEW b, NEW f, Gathered(a), DOMAIN b = AsmFields, a.current_id = f.id, b.current_id = f.id,
         f.id \in Nat, Alike(f, f), \A g \in Held(a) : Alike(f, g) /\ Alike(g, f), Joined(a, b, f),
         b.arrived = (IF f.num + 1 \in Present(a) THEN a.arrived ELSE a.arrived + 1),
         b.total = (IF f.final THEN f.num + 1 ELSE a.total),
         f.final => Len(a.fragments) <= f.num + 1
  PROVE  Gathered(b) /\ Held(b) \subseteq Held(a) \union {f}
<1> DEFINE j == f.num + 1
           k == Len(a.fragments)
           n == IF k >= j THEN k ELSE j
<1>1. f.num \in Nat /\ f # Missing
  BY PieceFact, MissingFact
<1>2. /\ k \in Nat /\ DOMAIN a.fragments = 1..k
      /\ \A i \in Present(a) : a.fragments[i].id = a.current_id /\ a.fragments[i].num = i - 1
      /\ k > 0 => k \in Present(a)
  BY DEF Gathered
<1>3. j \in Nat \ {0} /\ n \in Nat /\ j \in 1..n /\ k <= n
  BY <1>1, <1>2
<1>4. /\ Len(b.fragments) = n /\ DOMAIN b.fragments = 1..n
      /\ \A i \in 1..n : b.fragments[i] = (IF i = j THEN f ELSE IF i <= k THEN a.fragments[i] ELSE Missing)
  BY DEF Joined
<1>5. \A i \in Present(a) : i \in 1..k /\ a.fragments[i] # Missing /\ a.fragments[i] \in Held(a)
  BY DEF Present, Held
<1>5a. \A i \in 1..k : a.fragments[i] # Missing => i \in Present(a)
  BY DEF Present
<1> HIDE DEF n, k, j
<1>6. Present(b) = Present(a) \union {j}
  <2>1. ASSUME NEW i \in Present(b) PROVE i \in Present(a) \union {j}
    <3>1. i \in 1..n /\ b.fragments[i] # Missing
      BY <1>4 DEF Present
    <3> QED BY <3>1, <1>2, <1>3, <1>4, <1>5a
  <2>2. ASSUME NEW i \in Present(a) \union {j} PROVE i \in Present(b)
    <3>1. i \in 1..n
      BY <1>2, <1>3, <1>5
    <3>2. b.fragments[i] # Missing
      BY <3>1, <1>1, <1>2, <1>3, <1>4, <1>5
    <3> QED BY <3>1, <3>2, <1>4 DEF Present
  <2> QED BY <2>1, <2>2
<1>7. \A i \in Present(a) : b.fragments[i] = (IF i = j THEN f ELSE a.fragments[i])
  BY <1>2, <1>3, <1>4, <1>5
<1>8. b.fragments[j] = f
  BY <1>3, <1>4
<1>9. Held(b) \subseteq Held(a) \union {f}
  <2> SUFFICES ASSUME NEW i \in Present(b) PROVE b.fragments[i] \in Held(a) \union {f}
    BY DEF Held
  <2> QED BY <1>5, <1>6, <1>7, <1>8
<1>10. b.arrived = Cardinality(Present(b))
  <2>1. IsFiniteSet(Present(a)) /\ a.arrived = Cardinality(Present(a))
    BY PresentFact DEF Gathered
  <2> QED BY <2>1, <1>6, FS_AddElement DEF j
<1>11. \A i \in Present(b) : b.fragments[i].id = b.current_id /\ b.fragments[i].num = i - 1
  <2> TAKE i \in Present(b)
  <2>1. CASE i = j
    BY <2>1, <1>1, <1>8 DEF j
  <2>2. CASE i # j
    BY <2>2, <1>2, <1>6, <1>7
  <2> QED BY <2>1, <2>2
<1>12. Len(b.fragments) > 0 => Len(b.fragments) \in Present(b)
  BY <1>2, <1>3, <1>4, <1>6 DEF n
<1>13. b.total = -1 => \A i \in Present(b) : ~b.fragments[i].final
  <2> SUFFICES ASSUME b.total = -1, NEW i \in Present(b) PROVE ~b.fragments[i].final
    OBVIOUS
  <2>1. ~f.final /\ a.total = -1
    BY <1>1
  <2>2. \A l \in Present(a) : ~a.fragments[l].final
    BY <2>1 DEF Gathered
  <2> QED BY <2>1, <2>2, <1>6, <1>7, <1>8
<1>14. b.total # -1 => b.total = Len(b.fragments) /\ b.total > 0 /\ b.fragments[b.total].final
  <2> SUFFICES ASSUME b.total # -1 PROVE b.total = n /\ n > 0 /\ b.fragments[n].final
    BY <1>4
  <2>1. CASE f.final
    <3>1. k <= j /\ b.total = j
      BY <2>1 DEF k, j
    <3>2. n = j
      BY <3>1, <1>2, <1>3 DEF n
    <3> QED BY <2>1, <3>1, <3>2, <1>3, <1>8
  <2>2. CASE ~f.final
    <3>1. b.total = a.total /\ a.total = k /\ k > 0 /\ a.fragments[k].final
      BY <2>2 DEF Gathered, k
    <3> DEFINE h == a.fragments[k]
    <3>2. k \in Present(a) /\ h \in Held(a) /\ h.id = f.id /\ h.num = k - 1
      BY <3>1, <1>2, <1>5
    <3>3. Alike(f, h) /\ h.final
      BY <3>1, <3>2
    <3> HIDE DEF h
    <3>4. f.num <= h.num /\ h.num \in Nat /\ (f.num = h.num => f = h)
      BY <3>2, <3>3, PieceFact
    <3>5. j # k
      BY <3>2, <3>3, <3>4, <2>2, <1>1, <1>2 DEF j
    <3>6. n = k
      BY <3>2, <3>4, <1>1, <1>2, <1>3 DEF n, j
    <3>7. b.fragments[k] = h
      BY <3>2, <3>5, <1>7 DEF h
    <3> QED BY <3>1, <3>3, <3>6, <3>7
  <2> QED BY <2>1, <2>2
<1> QED BY <1>3, <1>4, <1>9, <1>10, <1>11, <1>12, <1>13, <1>14 DEF Gathered

\* An empty assembly is in order.
LEMMA EmptyGathered ==
  ASSUME NEW a, DOMAIN a = AsmFields, a.fragments = <<>>, a.arrived = 0, a.total = -1
  PROVE  Gathered(a) /\ Held(a) = {}
<1>1. Len(a.fragments) = 0 /\ DOMAIN a.fragments = 1..0
  OBVIOUS
<1>2. Present(a) = {}
  BY <1>1 DEF Present
<1>3. Held(a) = {}
  BY <1>2 DEF Held
<1>4. a.arrived = Cardinality(Present(a))
  BY <1>2, FS_EmptySet
<1> QED BY <1>1, <1>2, <1>3, <1>4 DEF Gathered

\* No assertion of add_fragment fails, and the assembly stays in order.
LEMMA AddFact ==
  ASSUME NEW a, NEW f, Gathered(a), ~a.failed, f.id \in Nat, Alike(f, f), \A g \in Held(a) : Alike(f, g) /\ Alike(g, f)
  PROVE  LET b == add_fragment(a, f)
         IN  Gathered(b) /\ ~b.failed /\ Held(b) \subseteq Held(a) \union {f}
<1> DEFINE new == a.current_id # f.id
           base == IF new THEN [a EXCEPT !.fragments = <<>>, !.arrived = 0, !.total = -1, !.current_id = f.id] ELSE a
           j == f.num + 1
           known == j <= Len(base.fragments) /\ base.fragments[j] # Missing
           differs == known /\ base.fragments[j] # f
           longer == resize(base.fragments, Max({Len(base.fragments), j}))
           added == IF known THEN base
                    ELSE [base EXCEPT !.fragments = [longer EXCEPT ![j] = f], !.arrived = base.arrived + 1]
           tooLong == f.final /\ Len(added.fragments) > j
           whole == IF ~f.final THEN added
                    ELSE [added EXCEPT !.total = j, !.fragments = resize(added.fragments, j)]
           tooMany == whole.total # -1 /\ whole.arrived > whole.total
           b == [whole EXCEPT !.failed = whole.failed \/ differs \/ tooLong \/ tooMany]
           k == Len(base.fragments)
           n == IF k >= j THEN k ELSE j
<1>1. add_fragment(a, f) = b
  BY DEF add_fragment
<1>2. f.num \in Nat /\ f # Missing
  BY PieceFact, MissingFact
<1>3. /\ Gathered(base) /\ ~base.failed /\ base.current_id = f.id /\ Held(base) \subseteq Held(a)
  <2>1. CASE new
    <3>1. /\ DOMAIN base = AsmFields /\ base.fragments = <<>> /\ base.arrived = 0 /\ base.total = -1
          /\ base.current_id = f.id /\ base.failed = a.failed
      BY <2>1 DEF Gathered, AsmFields
    <3> HIDE DEF base
    <3> QED BY <3>1, EmptyGathered
  <2>2. CASE ~new
    BY <2>2
  <2> QED BY <2>1, <2>2
<1> HIDE DEF base
<1>4. /\ k \in Nat /\ DOMAIN base.fragments = 1..k /\ DOMAIN base = AsmFields
      /\ k > 0 => k \in Present(base)
      /\ \A i \in Present(base) : base.fragments[i].id = f.id /\ base.fragments[i].num = i - 1
  BY <1>3 DEF Gathered
<1>5. \A i \in Present(base) : base.fragments[i] \in Held(base)
  BY DEF Held
<1>6. j \in Nat \ {0} /\ n \in Nat /\ j \in 1..n /\ k <= n /\ Max({k, j}) = n
  BY <1>2, <1>4, MaxTwo
<1>7. known <=> j \in Present(base)
  BY <1>6, <1>4 DEF Present
<1>8. known => base.fragments[j] = f
  <2> SUFFICES ASSUME known PROVE base.fragments[j] = f
    OBVIOUS
  <2> DEFINE g == base.fragments[j]
  <2>1. g \in Held(a) /\ g.id = f.id /\ g.num = j - 1
    BY <1>3, <1>4, <1>5, <1>7
  <2> HIDE DEF g
  <2>2. g.num = f.num
    BY <2>1, <1>2
  <2> QED BY <2>1, <2>2, PieceFact DEF g
<1>9. f.final => k <= j
  <2> SUFFICES ASSUME f.final, k > 0 PROVE k <= j
    BY <1>4, <1>6
  <2> DEFINE g == base.fragments[k]
  <2>1. g \in Held(a) /\ g.id = f.id /\ g.num = k - 1
    BY <1>3, <1>4, <1>5
  <2> HIDE DEF g
  <2>2. g.num <= f.num
    BY <2>1, PieceFact
  <2> QED BY <2>1, <2>2, <1>2, <1>4
<1> HIDE DEF n, j
<1>10. /\ DOMAIN longer = 1..n /\ Len(longer) = n
       /\ \A i \in 1..n : longer[i] = (IF i <= k THEN base.fragments[i] ELSE Missing)
  BY <1>4, <1>6, ResizeFact
<1> HIDE DEF longer
<1>11. /\ Joined(base, added, f) /\ DOMAIN added = AsmFields /\ added.current_id = f.id /\ ~added.failed
       /\ added.total = base.total /\ added.arrived = (IF j \in Present(base) THEN base.arrived ELSE base.arrived + 1)
       /\ Len(added.fragments) = n /\ DOMAIN added.fragments = 1..n
       /\ \A i \in 1..n : added.fragments[i] = (IF i = j THEN f ELSE IF i <= k THEN base.fragments[i] ELSE Missing)
  <2>1. CASE known
    <3>1. n = k
      BY <2>1, <1>4, <1>6 DEF n
    <3>2. added = base
      BY <2>1
    <3>3. \A i \in 1..n : base.fragments[i] = (IF i = j THEN f ELSE IF i <= k THEN base.fragments[i] ELSE Missing)
      BY <2>1, <1>4, <1>8, <3>1
    <3> QED BY <2>1, <3>1, <3>2, <3>3, <1>3, <1>4, <1>7 DEF Joined, n, j
  <2>2. CASE ~known
    <3> DEFINE placed == [longer EXCEPT ![j] = f]
    <3>1. added = [base EXCEPT !.fragments = placed, !.arrived = base.arrived + 1]
      BY <2>2
    <3>2. /\ DOMAIN placed = 1..n
          /\ \A i \in 1..n : placed[i] = (IF i = j THEN f ELSE IF i <= k THEN base.fragments[i] ELSE Missing)
      BY <1>6, <1>10
    <3>3. Len(placed) = n
      BY <3>2, <1>6
    <3> HIDE DEF placed, added
    <3>4. /\ DOMAIN added = AsmFields /\ added.fragments = placed /\ added.arrived = base.arrived + 1
          /\ added.current_id = base.current_id /\ added.total = base.total /\ added.failed = base.failed
      BY <3>1, <1>4 DEF AsmFields
    <3> QED BY <2>2, <3>2, <3>3, <3>4, <1>3, <1>7 DEF Joined, n, j
  <2> QED BY <2>1, <2>2
<1> HIDE DEF added
<1>12. /\ Joined(base, whole, f) /\ DOMAIN whole = AsmFields /\ whole.current_id = f.id /\ ~whole.failed
       /\ whole.total = (IF f.final THEN j ELSE base.total)
       /\ whole.arrived = (IF j \in Present(base) THEN base.arrived ELSE base.arrived + 1)
  <2>1. CASE ~f.final
    BY <2>1, <1>11
  <2>2. CASE f.final
    <3>1. n = j
      BY <2>2, <1>4, <1>6, <1>9 DEF n
    <3> DEFINE cut == resize(added.fragments, j)
    <3>2. DOMAIN cut = 1..n /\ Len(cut) = n /\ \A i \in 1..n : cut[i] = added.fragments[i]
      <4>1. Len(added.fragments) \in Nat /\ DOMAIN added.fragments = 1..Len(added.fragments)
        BY <1>6, <1>11
      <4>2. /\ DOMAIN cut = 1..j /\ Len(cut) = j
            /\ \A i \in 1..j : cut[i] = (IF i <= Len(added.fragments) THEN added.fragments[i] ELSE Missing)
        BY <4>1, <1>6, ResizeFact
      <4> QED BY <4>2, <3>1, <1>11, <1>6
    <3> HIDE DEF cut
    <3>3. whole = [added EXCEPT !.total = j, !.fragments = cut]
      BY <2>2 DEF cut
    <3>4. /\ DOMAIN whole = AsmFields /\ whole.fragments = cut /\ whole.total = j /\ whole.arrived = added.arrived
          /\ whole.current_id = added.current_id /\ whole.failed = added.failed
      BY <3>3, <1>11 DEF AsmFields
    <3>5. Joined(base, whole, f)
      BY <3>2, <3>4, <1>11 DEF Joined, n, j
    <3> QED BY <2>2, <3>4, <3>5, <1>11
  <2> QED BY <2>1, <2>2
<1> HIDE DEF whole
<1>13. Gathered(whole) /\ Held(whole) \subseteq Held(base) \union {f}
  <2>1. \A g \in Held(base) : Alike(f, g) /\ Alike(g, f)
    BY <1>3
  <2> QED BY <1>3, <1>9, <1>12, <2>1, JoinFact DEF j, k
<1>14. ~tooMany
  <2>1. whole.arrived \in Nat /\ whole.arrived <= Len(whole.fragments)
    BY <1>13, PresentFact
  <2>2. whole.total # -1 => whole.total = Len(whole.fragments)
    BY <1>13 DEF Gathered
  <2> QED BY <2>1, <2>2, <1>13 DEF Gathered
<1>15. ~tooLong
  BY <1>4, <1>6, <1>9, <1>11 DEF n
<1>16. ~differs
  BY <1>8
<1> HIDE DEF tooMany, tooLong, differs
<1>17. /\ DOMAIN b = AsmFields /\ b.fragments = whole.fragments /\ b.total = whole.total /\ b.arrived = whole.arrived
       /\ b.current_id = whole.current_id /\ b.failed = (whole.failed \/ differs \/ tooLong \/ tooMany)
  BY <1>12 DEF AsmFields
<1> HIDE DEF b
<1>18. ~b.failed
  BY <1>12, <1>14, <1>15, <1>16, <1>17
<1>19. Present(b) = Present(whole)
  BY <1>17 DEF Present
<1>20. Held(b) = Held(whole)
  BY <1>17, <1>19 DEF Held
<1>21. Gathered(b)
  BY <1>13, <1>17, <1>19 DEF Gathered
<1> QED BY <1>1, <1>3, <1>13, <1>18, <1>20, <1>21

\* What is complete parses as the instruction its fragments come from.
LEMMA CompleteFact ==
  ASSUME NEW a, Gathered(a), complete(a), \A f, g \in Held(a) : Alike(f, g)
  PROVE  /\ \E f \in Held(a) : parse(Assembly(a)) = f.inst
         /\ \A i \in 1..a.total : a.fragments[i] # Missing
<1> DEFINE n == a.total
           fs == Assembly(a)
           inst == fs[1].inst
<1>1. a.arrived \in Nat /\ a.arrived = n
  BY PresentFact DEF complete
<1>2. n = Len(a.fragments) /\ n > 0 /\ a.fragments[n].final /\ n \in Nat
  BY <1>1 DEF Gathered
<1>3. Present(a) = 1..n
  BY <1>1, <1>2, PresentFact
<1>4. \A i \in 1..n : /\ a.fragments[i] \in Held(a) /\ a.fragments[i] # Missing
                      /\ a.fragments[i].id = a.current_id /\ a.fragments[i].num = i - 1
  BY <1>3 DEF Gathered, Held, Present
<1>5. DOMAIN fs = 1..n /\ Len(fs) = n /\ \A i \in 1..n : fs[i] = a.fragments[i]
  BY <1>2 DEF Assembly
<1> HIDE DEF n, fs
<1>6. \A i, k \in 1..n : Alike(fs[i], fs[k]) /\ fs[i].id = fs[k].id
  BY <1>4, <1>5
<1>7. \A i \in 1..n : fs[i].inst = inst /\ fs[i].num = i - 1
  <2> TAKE i \in 1..n
  <2>1. 1 \in 1..n
    BY <1>2
  <2>2. Alike(fs[i], fs[1]) /\ fs[i].id = fs[1].id
    BY <1>6, <2>1
  <2>3. fs[i].inst = fs[1].inst
    BY <2>2 DEF Alike
  <2> QED BY <2>3, <1>4, <1>5
<1>8. ASSUME NEW i \in 1..n, NEW k \in 1..n
      PROVE  \E m \in Nat \ {0} :
               /\ inst.size \in Nat \ {0} /\ i <= Count(inst.size, m) /\ k <= Count(inst.size, m)
               /\ fs[i] = Piece(fs[i].id, inst, m, i) /\ fs[k] = Piece(fs[k].id, inst, m, k)
  <2>1. PICK m \in MTUs : IsPiece(fs[i], m) /\ IsPiece(fs[k], m)
    BY <1>6 DEF Alike
  <2>2. m \in Nat \ {0}
    BY ConnectionAssumption DEF MTUs
  <2>3. fs[i].num + 1 = i /\ fs[k].num + 1 = k /\ fs[i].inst = inst /\ fs[k].inst = inst
    BY <1>2, <1>7
  <2> QED BY <2>1, <2>2, <2>3 DEF IsPiece
<1>9. ASSUME NEW i \in 1..n, NEW m \in Nat \ {0}, fs[i] = Piece(fs[i].id, inst, m, i)
      PROVE  /\ fs[i].from = (i - 1) * m /\ fs[i].len = Min({m, inst.size - (i - 1) * m})
             /\ fs[i].final = (i = Count(inst.size, m))
  <2>1. /\ Piece(fs[i].id, inst, m, i).from = (i - 1) * m
        /\ Piece(fs[i].id, inst, m, i).len = Min({m, inst.size - (i - 1) * m})
        /\ Piece(fs[i].id, inst, m, i).final = (i = Count(inst.size, m))
    BY DEF Piece
  <2> QED BY <1>9, <2>1
<1> HIDE DEF inst
<1>10. fs[1].from = 0
  <2>1. 1 \in 1..n
    BY <1>2
  <2>2. PICK m \in Nat \ {0} : fs[1] = Piece(fs[1].id, inst, m, 1)
    BY <1>8, <2>1
  <2>3. fs[1].from = (1 - 1) * m
    BY <1>9, <2>1, <2>2
  <2> QED BY <2>3
<1>11. fs[n].from + fs[n].len = inst.size
  <2>1. n \in 1..n
    BY <1>2
  <2>2. PICK m \in Nat \ {0} : inst.size \in Nat \ {0} /\ n <= Count(inst.size, m) /\ fs[n] = Piece(fs[n].id, inst, m, n)
    BY <1>8, <2>1
  <2>3. /\ fs[n].from = (n - 1) * m /\ fs[n].len = Min({m, inst.size - (n - 1) * m})
        /\ fs[n].final = (n = Count(inst.size, m))
    BY <1>9, <2>1, <2>2
  <2>4. fs[n].final
    BY <1>2, <1>5, <2>1 DEF n
  <2>5. n = Count(inst.size, m)
    BY <2>3, <2>4
  <2>6. n \in 1..Count(inst.size, m)
    BY <2>1, <2>5
  <2>7. (n - 1) * m + Min({m, inst.size - (n - 1) * m}) = inst.size
    BY <2>2, <2>5, <2>6, CutFact, Zenon
  <2> QED BY <2>3, <2>7
<1>12. \A i \in 2..n : fs[i].from = fs[i - 1].from + fs[i - 1].len
  <2> TAKE i \in 2..n
  <2>1. i \in 1..n /\ i - 1 \in 1..n /\ i \in Nat
    BY <1>2
  <2>2. PICK m \in Nat \ {0} :
               /\ inst.size \in Nat \ {0} /\ i - 1 <= Count(inst.size, m) /\ i <= Count(inst.size, m)
               /\ fs[i - 1] = Piece(fs[i - 1].id, inst, m, i - 1) /\ fs[i] = Piece(fs[i].id, inst, m, i)
    BY <1>8, <2>1
  <2>3. fs[i].from = (i - 1) * m
    BY <1>9, <2>1, <2>2
  <2> DEFINE k == i - 1
  <2>4. k \in 1..n /\ fs[k] = Piece(fs[k].id, inst, m, k)
    BY <2>1, <2>2
  <2>5. Count(inst.size, m) \in Nat
    BY <2>2, CutFact
  <2>6. k \in 1..Count(inst.size, m) /\ k < Count(inst.size, m)
    BY <2>1, <2>2, <2>5
  <2> HIDE DEF k
  <2>7. fs[k].from = (k - 1) * m /\ fs[k].len = Min({m, inst.size - (k - 1) * m})
    BY <1>9, <2>4
  <2>8. (k - 1) * m + Min({m, inst.size - (k - 1) * m}) = k * m
    <3>1. inst.size \in Nat \ {0}
      BY <2>2
    <3>2. \A l \in 1..Count(inst.size, m) :
            l < Count(inst.size, m) => (l - 1) * m + Min({m, inst.size - (l - 1) * m}) = l * m
      BY <3>1, CutFact, Zenon
    <3> QED BY <2>6, <3>2, Zenon
  <2> QED BY <2>3, <2>7, <2>8 DEF k
<1> DEFINE ends == [i \in DOMAIN fs |-> fs[i].from + fs[i].len]
           sound == /\ \A i \in DOMAIN fs : fs[i].inst = inst
                    /\ fs[1].from = 0 /\ ends[Len(fs)] = inst.size
                    /\ \A i \in DOMAIN fs \ {1} : fs[i].from = ends[i - 1]
<1>13. parse(fs) = IF sound THEN inst ELSE NotParsed
  BY DEF parse, inst
<1>14. sound
  <2>1. \A i \in 1..n : ends[i] = fs[i].from + fs[i].len
    BY <1>5
  <2>2. \A i \in DOMAIN fs \ {1} : i \in 2..n /\ i - 1 \in 1..n
    BY <1>2, <1>5
  <2>3. n \in 1..n
    BY <1>2
  <2> QED BY <2>1, <2>2, <2>3, <1>5, <1>7, <1>10, <1>11, <1>12 DEF inst
<1>15. parse(fs) = inst
  BY <1>13, <1>14
<1>16. fs[1] \in Held(a) /\ inst = fs[1].inst
  BY <1>2, <1>4, <1>5 DEF inst
<1> QED BY <1>4, <1>15, <1>16 DEF fs, n

\* No instruction needs more fragments than there may be.
LEMMA CountLimit ==
  ASSUME NEW size \in 1..(FragmentLimit * FALLBACK_MTU), NEW m \in MTUs
  PROVE  Count(size, m) <= FragmentLimit
<1> DEFINE n == Count(size, m)
<1>1. /\ m \in Nat \ {0} /\ FragmentLimit \in Nat /\ FALLBACK_MTU \in Nat /\ FALLBACK_MTU <= m
  BY ConnectionAssumption DEF MTUs
<1>2. FragmentLimit * FALLBACK_MTU \in Nat /\ FragmentLimit * FALLBACK_MTU <= FragmentLimit * m /\ FragmentLimit * m \in Nat
  <2>1. FALLBACK_MTU * FragmentLimit <= m * FragmentLimit
    BY <1>1, ProductOrder
  <2>2. FALLBACK_MTU * FragmentLimit = FragmentLimit * FALLBACK_MTU /\ m * FragmentLimit = FragmentLimit * m
    BY <1>1
  <2> QED BY <1>1, <2>1, <2>2
<1>3. size \in Nat /\ size <= FragmentLimit * m
  BY <1>2
<1>4. n \in Nat /\ n * m <= size + m - 1
  BY <1>1, <1>3, DivFact DEF Count
<1> HIDE DEF n
<1>5. SUFFICES ASSUME n >= FragmentLimit + 1 PROVE FALSE
  BY <1>1, <1>4 DEF n
<1>6. (FragmentLimit + 1) * m <= n * m
  BY <1>1, <1>4, <1>5, ProductOrder
<1>7. (FragmentLimit + 1) * m = FragmentLimit * m + m /\ n * m \in Nat
  BY <1>1, <1>4
<1> QED BY <1>1, <1>2, <1>3, <1>4, <1>6, <1>7

\* The fragments of p on their way, and those the other side holds.
Travelling(p) == {d.payload : d \in {e \in net : e.dir = p}} \union Held(asm[Other(p)])

\* A fragment of p: its id was given out, and the newest id is that of the
\* last instruction and the last MTU.
SoundFrag(p, f) ==
  /\ f.id \in Nat \ {0} /\ f.id <= conn[p].next_instruction_id
  /\ f.inst.num \in Nat \ {0} /\ f.inst.num <= out[p].num /\ f.inst.size \in setting.sizes
  /\ f.id = conn[p].next_instruction_id =>
       f.inst = conn[p].last_instruction /\ conn[p].last_MTU \in MTUs /\ IsPiece(f, conn[p].last_MTU)

IdOK(c) == c.next_instruction_id \in Nat /\ (c.next_instruction_id = 0 => c.last_MTU = -1) /\ ~c.failed

GotOK(p) == \A i \in got[p] : i # NotParsed /\ i.num \in Nat /\ i.num <= out[Other(p)].num /\ i.size \in setting.sizes

FragInv ==
  /\ DOMAIN asm = Peers /\ DOMAIN got = Peers
  /\ \A p \in Peers : IdOK(conn[p]) /\ GotOK(p) /\ Gathered(asm[p]) /\ ~asm[p].failed
  /\ \A p \in Peers : \A f \in Travelling(p) : SoundFrag(p, f)
  /\ \A p \in Peers : \A f, g \in Travelling(p) : Alike(f, g)

\* Sending keeps ids apart: a new cut has a new id.
LEMMA SendFrag ==
  ASSUME NEW p \in Peers, NEW inst, NEW pathMTU, LinkInv, FragInv, Sends(p, inst, pathMTU)
  PROVE  FragInv'
<1> DEFINE b == conn[p]
           r == send_in_fragments(b, p, now, inst, pathMTU)
           fs == make_fragments(b, inst)
           made == Made(b, inst)
           id == next_id(b, inst)
           q == Other(p)
<1>1. /\ conn' = [conn EXCEPT ![p] = r.c] /\ net' = net \union r.sent
      /\ inst.size \in setting.sizes /\ inst.size \in Nat \ {0}
      /\ inst.num \in Nat \ {0} /\ inst.num >= out[p].num
      /\ out'[q] = out[q] /\ out'[p].num = inst.num
      /\ setting' = setting /\ asm' = asm /\ got' = got
      /\ Wire(p, made, r, now, fs, Len(fs))
  BY DEF Sends
<1>2. Fresh(p, b) /\ DOMAIN conn = Peers /\ b.MTU \in MTUs /\ out[p].num \in Nat /\ setting \in Settings
  BY DEF LinkInv, Fresh, MTUs, OutOK
<1>3. q \in Peers /\ q # p /\ Peers = {p, q} /\ Other(q) = p
  BY OtherFact
<1>4. /\ made.next_instruction_id = id /\ made.last_instruction = inst /\ made.last_MTU = b.MTU
      /\ made.failed = (b.failed \/ Len(fs) > FragmentLimit)
  BY <1>2, MadeFact
<1>5. Len(fs) = Count(inst.size, b.MTU) /\ \A i \in 1..Len(fs) : fs[i] = Piece(id, inst, b.MTU, i)
  BY <1>1, <1>2, MakeFact
<1>6. \A d \in r.sent : d.dir = p /\ \E i \in 1..Len(fs) : d.payload = fs[i]
  BY SentFact
<1>7. Along(p, made, r.c)
  BY <1>1 DEF Wire
<1> HIDE DEF r, fs, made, id
<1>8. /\ r.c.next_instruction_id = id /\ r.c.last_instruction = inst /\ r.c.last_MTU = b.MTU
      /\ r.c.failed = made.failed
  BY <1>4, <1>7 DEF Along, ConnFields, SendFields
<1>9. conn'[p] = r.c /\ conn'[q] = conn[q]
  BY <1>1, <1>2, <1>3
<1>10. b.next_instruction_id \in Nat /\ (b.next_instruction_id = 0 => b.last_MTU = -1) /\ ~b.failed
  BY DEF FragInv, IdOK
<1>11. \/ id = b.next_instruction_id + 1
       \/ id = b.next_instruction_id /\ inst = b.last_instruction /\ b.MTU = b.last_MTU
  BY DEF id, next_id
<1>12. id \in Nat \ {0}
  BY <1>2, <1>10, <1>11, ConnectionAssumption DEF MTUs
<1>13. Len(fs) <= FragmentLimit /\ Len(fs) \in Nat /\ FragmentLimit \in Nat
  <2>1. inst.size \in 1..(FragmentLimit * FALLBACK_MTU)
    BY <1>1, <1>2, SettingsAssumption
  <2>2. Count(inst.size, b.MTU) \in Nat
    BY <1>1, <1>2, CutFact, ConnectionAssumption DEF MTUs
  <2> QED BY <1>2, <1>5, <2>1, <2>2, CountLimit, ConnectionAssumption
<1>14. ~made.failed
  <2>1. ~(Len(fs) > FragmentLimit)
    BY <1>13
  <2> QED BY <1>4, <1>10, <2>1, Zenon
<1>15. IdOK(conn'[p]) /\ IdOK(conn'[q])
  BY <1>3, <1>8, <1>9, <1>12, <1>14 DEF IdOK, FragInv
<1>16. GotOK(p)' /\ GotOK(q)'
  BY <1>1, <1>2, <1>3 DEF GotOK, FragInv
<1>17. Travelling(q)' = Travelling(q)
  <2>1. {d.payload : d \in {e \in net' : e.dir = q}} = {d.payload : d \in {e \in net : e.dir = q}}
    <3>1. {e \in net' : e.dir = q} = {e \in net : e.dir = q}
      BY <1>1, <1>3, <1>6
    <3> QED BY <3>1
  <2> QED BY <2>1, <1>1 DEF Travelling
<1> DEFINE Cut == {fs[i] : i \in 1..Len(fs)}
<1>18. Travelling(p)' \subseteq Travelling(p) \union Cut
  <2> SUFFICES ASSUME NEW f \in Travelling(p)' PROVE f \in Travelling(p) \union Cut
    OBVIOUS
  <2>1. CASE f \in Held(asm'[q])
    BY <2>1, <1>1 DEF Travelling
  <2>2. CASE f \in {d.payload : d \in {e \in net' : e.dir = p}}
    <3>1. PICK d \in net' : d.dir = p /\ f = d.payload
      BY <2>2
    <3>2. CASE d \in net
      BY <3>1, <3>2 DEF Travelling
    <3>3. CASE d \in r.sent
      BY <3>1, <3>3, <1>6
    <3> QED BY <1>1, <3>2, <3>3
  <2> QED BY <2>1, <2>2 DEF Travelling
<1>19. ASSUME NEW f \in Cut PROVE f.id = id /\ f.inst = inst /\ IsPiece(f, b.MTU)
  <2>1. PICK i \in 1..Len(fs) : f = Piece(id, inst, b.MTU, i)
    BY <1>5
  <2>2. f.id = id /\ f.inst = inst /\ f.num = i - 1
    BY <2>1 DEF Piece
  <2>3. i \in Nat /\ f.num + 1 = i /\ f.num \in Nat /\ i <= Count(inst.size, b.MTU)
    BY <2>2, <1>5, <1>13
  <2> QED BY <2>1, <2>2, <2>3, <1>1 DEF IsPiece
<1> HIDE DEF Cut
<1>20. ASSUME NEW f \in Travelling(p)
       PROVE  /\ SoundFrag(p, f)' /\ (f.id = id => f.inst = inst /\ IsPiece(f, b.MTU))
  <2>1. /\ f.id \in Nat \ {0} /\ f.id <= b.next_instruction_id
        /\ f.inst.num \in Nat \ {0} /\ f.inst.num <= out[p].num /\ f.inst.size \in setting.sizes
        /\ f.id = b.next_instruction_id =>
             f.inst = b.last_instruction /\ b.last_MTU \in MTUs /\ IsPiece(f, b.last_MTU)
    BY DEF FragInv, SoundFrag
  <2>2. f.id <= id /\ f.inst.num <= inst.num
    BY <2>1, <1>1, <1>2, <1>10, <1>11
  <2>3. f.id = id => f.inst = inst /\ IsPiece(f, b.MTU)
    BY <2>1, <1>10, <1>11
  <2> QED BY <2>1, <2>2, <2>3, <1>1, <1>2, <1>8, <1>9 DEF SoundFrag
<1>21. ASSUME NEW f \in Cut PROVE SoundFrag(p, f)'
  BY <1>1, <1>2, <1>8, <1>9, <1>12, <1>19 DEF SoundFrag
<1>22. \A f \in Travelling(p)' : SoundFrag(p, f)'
  BY <1>18, <1>20, <1>21
<1>23. \A f, g \in Travelling(p)' : Alike(f, g)
  <2> SUFFICES ASSUME NEW f \in Travelling(p) \union Cut, NEW g \in Travelling(p) \union Cut PROVE Alike(f, g)
    BY <1>18
  <2>1. CASE f \in Travelling(p) /\ g \in Travelling(p)
    BY <2>1 DEF FragInv
  <2>2. CASE f \in Cut \/ g \in Cut
    <3> SUFFICES ASSUME f.id = g.id PROVE f.inst = g.inst /\ \E m \in MTUs : IsPiece(f, m) /\ IsPiece(g, m)
      BY DEF Alike
    <3>1. f.id = id /\ g.id = id
      BY <2>2, <1>19
    <3>2. f.inst = inst /\ IsPiece(f, b.MTU)
      BY <3>1, <1>19, <1>20
    <3>3. g.inst = inst /\ IsPiece(g, b.MTU)
      BY <3>1, <1>19, <1>20
    <3> QED BY <3>2, <3>3, <1>2
  <2> QED BY <2>1, <2>2
<1>24. \A f \in Travelling(q)' : SoundFrag(q, f)'
  <2> TAKE f \in Travelling(q)'
  <2>1. SoundFrag(q, f)
    BY <1>3, <1>17 DEF FragInv
  <2> QED BY <2>1, <1>1, <1>9 DEF SoundFrag
<1>25. \A f, g \in Travelling(q)' : Alike(f, g)
  BY <1>3, <1>17 DEF FragInv
<1>26. \A z \in Peers : Gathered(asm'[z]) /\ ~asm'[z].failed
  BY <1>1 DEF FragInv
<1>27. DOMAIN asm' = Peers /\ DOMAIN got' = Peers
  BY <1>1 DEF FragInv
<1>28. \A z \in Peers : IdOK(conn'[z]) /\ GotOK(z)'
  BY <1>3, <1>15, <1>16
<1>29. \A z \in Peers : \A f \in Travelling(z)' : SoundFrag(z, f)'
  BY <1>3, <1>22, <1>24
<1>30. \A z \in Peers : \A f, g \in Travelling(z)' : Alike(f, g)
  BY <1>3, <1>23, <1>25
<1> QED BY <1>26, <1>27, <1>28, <1>29, <1>30 DEF FragInv

\* Receiving keeps the assembly in order.
LEMMA ReceiveFrag ==
  ASSUME NEW p \in Peers, NEW d, NEW ce, LinkInv, FragInv, Receives(p, d, ce)
  PROVE  FragInv'
<1> DEFINE b == conn[p]
           c == Heard(p, d, ce)
           q == Other(p)
           f == d.payload
           a == add_fragment(asm[p], f)
<1>1. /\ d \in net /\ d.dir = q /\ conn'[q] = conn[q]
      /\ \A x \in ConnFields \ {"last_roundtrip_success", "acked"} : conn'[p][x] = c[x]
      /\ out'[q] = out[q] /\ \A x \in OutFields \ {"acked"} : out'[p][x] = out[p][x]
      /\ IF complete(a)
         THEN asm' = [asm EXCEPT ![p] = get_assembly(a)] /\ got' = [got EXCEPT ![p] = {parse(Assembly(a))}]
         ELSE asm' = [asm EXCEPT ![p] = a] /\ got' = got
      /\ setting' = setting /\ net' = net
  BY DEF Receives
<1>2. q \in Peers /\ q # p /\ Peers = {p, q} /\ Other(q) = p
  BY OtherFact
<1>3. Fresh(p, b) /\ now \in Int
  BY TimeFact DEF LinkInv
<1>4. \A x \in ConnFields \ RecvFields : c[x] = b[x]
  BY <1>3, HeardFact
<1> HIDE DEF c
<1>5. /\ conn'[p].next_instruction_id = b.next_instruction_id /\ conn'[p].last_instruction = b.last_instruction
      /\ conn'[p].last_MTU = b.last_MTU /\ conn'[p].failed = b.failed
  BY <1>1, <1>4 DEF ConnFields, RecvFields
<1>6. out'[p].num = out[p].num
  BY <1>1 DEF OutFields
<1>7. f \in Travelling(q) /\ Held(asm[p]) \subseteq Travelling(q)
  BY <1>1, <1>2 DEF Travelling
<1>8. SoundFrag(q, f) /\ \A g, h \in Travelling(q) : Alike(g, h)
  BY <1>2, <1>7 DEF FragInv
<1>9. /\ Gathered(a) /\ ~a.failed /\ Held(a) \subseteq Held(asm[p]) \union {f}
  <2>1. Gathered(asm[p]) /\ ~asm[p].failed /\ DOMAIN asm = Peers
    BY DEF FragInv
  <2>2. f.id \in Nat /\ Alike(f, f)
    BY <1>7, <1>8 DEF SoundFrag
  <2>3. \A g \in Held(asm[p]) : Alike(f, g) /\ Alike(g, f)
    BY <1>7, <1>8
  <2> QED BY <2>1, <2>2, <2>3, AddFact
<1> HIDE DEF a
<1>10. Held(a) \subseteq Travelling(q)
  BY <1>7, <1>9
<1>11. /\ DOMAIN asm' = Peers /\ DOMAIN got' = Peers /\ asm'[q] = asm[q] /\ got'[q] = got[q]
       /\ Gathered(asm'[p]) /\ ~asm'[p].failed /\ Held(asm'[p]) \subseteq Travelling(q)
       /\ \A i \in got'[p] : i # NotParsed /\ i.num \in Nat /\ i.num <= out[q].num /\ i.size \in setting.sizes
  <2>1. DOMAIN asm = Peers /\ DOMAIN got = Peers
    BY DEF FragInv
  <2>2. CASE ~complete(a)
    <3>1. asm' = [asm EXCEPT ![p] = a] /\ got' = got
      BY <1>1, <2>2
    <3>2. asm'[p] = a /\ asm'[q] = asm[q] /\ DOMAIN asm' = Peers
      BY <3>1, <2>1, <1>2
    <3> QED BY <2>1, <3>1, <3>2, <1>9, <1>10 DEF FragInv, GotOK
  <2>3. CASE complete(a)
    <3> DEFINE i == parse(Assembly(a))
               e == get_assembly(a)
    <3>1. asm' = [asm EXCEPT ![p] = e] /\ got' = [got EXCEPT ![p] = {i}]
      BY <1>1, <2>3
    <3>2. \A g, h \in Held(a) : Alike(g, h)
      BY <1>8, <1>10
    <3>3. (\E g \in Held(a) : i = g.inst) /\ \A k \in 1..a.total : a.fragments[k] # Missing
      BY <2>3, <1>9, <3>2, CompleteFact
    <3>4. e = [a EXCEPT !.fragments = <<>>, !.arrived = 0, !.total = -1,
                        !.failed = a.failed \/ (\E k \in 1..a.total : a.fragments[k] = Missing)]
      BY DEF get_assembly
    <3>5. DOMAIN a = AsmFields
      BY <1>9 DEF Gathered
    <3> HIDE DEF i, e
    <3>6. /\ DOMAIN e = AsmFields /\ e.fragments = <<>> /\ e.arrived = 0 /\ e.total = -1
      BY <3>4, <3>5 DEF AsmFields
    <3>7. ~e.failed
      <4>1. e.failed = (a.failed \/ (\E k \in 1..a.total : a.fragments[k] = Missing))
        BY <3>4, <3>5 DEF AsmFields
      <4> QED BY <4>1, <3>3, <1>9
    <3>8. Gathered(e) /\ Held(e) = {}
      BY <3>6, EmptyGathered
    <3>9. i.num \in Nat \ {0} /\ i.num <= out[q].num /\ i.size \in setting.sizes
      <4>1. PICK g \in Held(a) : i = g.inst
        BY <3>3
      <4>2. SoundFrag(q, g)
        BY <4>1, <1>2, <1>10 DEF FragInv
      <4> QED BY <4>1, <4>2 DEF SoundFrag
    <3>10. i # NotParsed
      <4>1. NotParsed.num = -1
        BY DEF NotParsed
      <4> QED BY <4>1, <3>9
    <3>11. /\ asm'[p] = e /\ asm'[q] = asm[q] /\ DOMAIN asm' = Peers
           /\ got'[p] = {i} /\ got'[q] = got[q] /\ DOMAIN got' = Peers
      BY <3>1, <2>1, <1>2
    <3> QED BY <3>7, <3>8, <3>9, <3>10, <3>11
  <2> QED BY <2>2, <2>3
<1>12. Travelling(q)' \subseteq Travelling(q)
  BY <1>1, <1>2, <1>11 DEF Travelling
<1>13. Travelling(p)' = Travelling(p)
  BY <1>1, <1>11 DEF Travelling
<1>14. \A z \in Peers : \A g \in Travelling(z)' : SoundFrag(z, g)'
  <2>1. ASSUME NEW g \in Travelling(q)' PROVE SoundFrag(q, g)'
    <3>1. SoundFrag(q, g)
      BY <1>2, <1>12 DEF FragInv
    <3> QED BY <3>1, <1>1 DEF SoundFrag
  <2>2. ASSUME NEW g \in Travelling(p)' PROVE SoundFrag(p, g)'
    <3>1. SoundFrag(p, g)
      BY <1>13 DEF FragInv
    <3> QED BY <3>1, <1>1, <1>5, <1>6 DEF SoundFrag
  <2> QED BY <2>1, <2>2, <1>2
<1>15. \A z \in Peers : \A g, h \in Travelling(z)' : Alike(g, h)
  BY <1>2, <1>12, <1>13 DEF FragInv
<1>16. \A z \in Peers : IdOK(conn'[z])
  BY <1>1, <1>2, <1>5 DEF FragInv, IdOK
<1>17. \A z \in Peers : GotOK(z)'
  <2>1. GotOK(p)'
    BY <1>1, <1>11 DEF GotOK
  <2>2. GotOK(q)'
    BY <1>1, <1>2, <1>6, <1>11 DEF FragInv, GotOK
  <2> QED BY <2>1, <2>2, <1>2
<1>18. \A z \in Peers : Gathered(asm'[z]) /\ ~asm'[z].failed
  BY <1>2, <1>11 DEF FragInv
<1> QED BY <1>11, <1>14, <1>15, <1>16, <1>17, <1>18 DEF FragInv

\* No new fragment arrives on the wire.
LEMMA FewerFrag ==
  ASSUME FragInv, setting' = setting, conn' = conn, out' = out, asm' = asm, got' = got,
         \A d \in net' : \E e \in net : d.dir = e.dir /\ d.payload = e.payload
  PROVE  FragInv'
<1>1. \A p \in Peers : Travelling(p)' \subseteq Travelling(p)
  <2> SUFFICES ASSUME NEW p \in Peers, NEW f \in Travelling(p)' PROVE f \in Travelling(p)
    OBVIOUS
  <2>1. CASE f \in Held(asm'[Other(p)])
    BY <2>1 DEF Travelling
  <2>2. CASE f \in {d.payload : d \in {e \in net' : e.dir = p}}
    <3>1. PICK d \in net' : d.dir = p /\ f = d.payload
      BY <2>2
    <3>2. PICK e \in net : e.dir = p /\ f = e.payload
      BY <3>1
    <3> QED BY <3>2 DEF Travelling
  <2> QED BY <2>1, <2>2 DEF Travelling
<1>2. \A p \in Peers : \A f \in Travelling(p)' : SoundFrag(p, f)'
  BY <1>1 DEF FragInv, SoundFrag
<1>3. \A p \in Peers : \A f, g \in Travelling(p)' : Alike(f, g)
  BY <1>1 DEF FragInv
<1>4. \A p \in Peers : IdOK(conn'[p]) /\ GotOK(p)' /\ Gathered(asm'[p]) /\ ~asm'[p].failed
  BY DEF FragInv, GotOK
<1> QED BY <1>2, <1>3, <1>4 DEF FragInv

\* Nothing travels at the start.
LEMMA FragInitial == Init => FragInv
<1> SUFFICES ASSUME Init PROVE FragInv
  OBVIOUS
<1>1. PICK port : conn = [p \in Peers |-> Connection(p, FirstTime, IF p = Client THEN 1 ELSE port)]
  BY DEF Init
<1>2. \A p \in Peers : IdOK(conn[p])
  BY <1>1 DEF Connection, IdOK
<1>3. net = {} /\ asm = [p \in Peers |-> FragmentAssembly] /\ got = [p \in Peers |-> {}]
  BY DEF Init
<1>4. \A p \in Peers : Gathered(asm[p]) /\ Held(asm[p]) = {} /\ ~asm[p].failed
  <2>1. /\ DOMAIN FragmentAssembly = AsmFields /\ FragmentAssembly.fragments = <<>> /\ FragmentAssembly.arrived = 0
        /\ FragmentAssembly.total = -1 /\ ~FragmentAssembly.failed
    BY DEF FragmentAssembly, AsmFields
  <2>2. Gathered(FragmentAssembly) /\ Held(FragmentAssembly) = {}
    BY <2>1, EmptyGathered
  <2> QED BY <1>3, <2>1, <2>2
<1>5. \A p \in Peers : Travelling(p) = {}
  BY <1>3, <1>4, OtherFact DEF Travelling
<1> QED BY <1>2, <1>3, <1>4, <1>5 DEF FragInv, GotOK

\* Every step keeps the fragments apart.
LEMMA FragInductive == LinkInv /\ FragInv /\ [Next]_vars => FragInv'
<1> SUFFICES ASSUME LinkInv, FragInv, [Next]_vars PROVE FragInv'
  OBVIOUS
<1>1. CASE \E p \in Peers : Send(p)
  BY <1>1, SendStep, SendFrag
<1>2. CASE \E p \in Peers : \E d \in net : Receive(p, d)
  BY <1>2, ReceiveStep, ReceiveFrag
<1>3. CASE \E d \in net : Damage(d)
  <2>1. PICK d \in net : Damage(d)
    BY <1>3
  <2> DEFINE e == [d EXCEPT !.intact = FALSE]
  <2>2. /\ net' = (net \ {d}) \union {e} /\ setting' = setting /\ conn' = conn /\ out' = out /\ asm' = asm /\ got' = got
    BY <2>1 DEF Damage
  <2>3. e.dir = d.dir /\ e.payload = d.payload
    BY DEF LinkInv, Numbered, PacketFields
  <2> HIDE DEF e
  <2>4. \A u \in net' : \E v \in net : u.dir = v.dir /\ u.payload = v.payload
    BY <2>2, <2>3
  <2> QED BY <2>2, <2>4, FewerFrag
<1>4. CASE \/ \E p \in Peers : \E d \in net : Refuse(p, d)
           \/ Roam
           \/ Tick
           \/ UNCHANGED vars
  <2>1. net' \subseteq net /\ setting' = setting /\ conn' = conn /\ out' = out /\ asm' = asm /\ got' = got
    BY <1>4 DEF Refuse, Roam, Tick, vars
  <2> QED BY <2>1, FewerFrag
<1> QED BY <1>1, <1>2, <1>3, <1>4 DEF Next

\* Numbers, timestamps and fragments together (network.cc, transportfragment.cc).
THEOREM ConnectionInvariant == Spec => [](LinkInv /\ ClockInv /\ FragInv)
BY LinkInitial, LinkInductive, ClockInitial, ClockInductive, FragInitial, FragInductive, PTL DEF Spec

\* The types follow from the invariants.
LEMMA TypesFollow == LinkInv /\ ClockInv /\ FragInv => TypeOK
<1> SUFFICES ASSUME LinkInv, ClockInv, FragInv PROVE TypeOK
  OBVIOUS
<1>1. now \in FirstTime..setting.until /\ setting \in Settings
  BY DEF LinkInv
<1>2. ASSUME NEW p \in Peers
      PROVE  /\ conn[p].MTU \in {DEFAULT_MTU, FALLBACK_MTU}
             /\ conn[p].saved_timestamp \in 0..(Wrap - 1)
             /\ conn[p].counter \in 0..(CounterSpan - 1)
             /\ conn[p].expected_receiver_seq \in 0..SeqSpan
             /\ Len(conn[p].socks) <= MAX_PORTS_OPEN
             /\ asm[p].arrived \in Nat /\ asm[p].total \in Num
  <2>1. Fresh(p, conn[p]) /\ Fresh(Other(p), conn[Other(p)]) /\ Other(p) \in Peers
    BY OtherFact DEF LinkInv
  <2>2. conn[p].expected_receiver_seq \in Nat /\ conn[p].expected_receiver_seq <= conn[Other(p)].counter
    BY DEF LinkInv
  <2>3. /\ BlockLimit < SeqSpan /\ SeqSpan < CounterSpan /\ BlockLimit \in Nat /\ SeqSpan \in Nat /\ CounterSpan \in Nat
        /\ FragmentLimit \in Nat /\ FragmentLimit < CounterSpan /\ MAX_PORTS_OPEN \in Nat \ {0}
    BY ConnectionAssumption
  <2>4. conn[p].counter \in 0..(CounterSpan - 1) /\ conn[p].expected_receiver_seq \in 0..SeqSpan
    BY <2>1, <2>2, <2>3 DEF Fresh
  <2>5. Len(conn[p].socks) <= MAX_PORTS_OPEN
    <3> DEFINE k == Len(conn[p].socks)
    <3>1. k \in 1..MAX_PORTS_OPEN \/ k = 0 \/ k = 1
      BY <2>1 DEF Fresh, SocksOK
    <3> HIDE DEF k
    <3>2. k <= MAX_PORTS_OPEN
      BY <3>1, <2>3
    <3> QED BY <3>2 DEF k
  <2>6. Gathered(asm[p]) /\ asm[p].arrived \in Nat
    BY PresentFact DEF FragInv
  <2>7. asm[p].total \in Num
    <3>1. CASE asm[p].total = -1
      BY <3>1, <2>3 DEF Num
    <3>2. CASE asm[p].total # -1
      <4> DEFINE n == Len(asm[p].fragments)
                 f == asm[p].fragments[n]
      <4>1. n \in Nat /\ n > 0 /\ asm[p].total = n /\ n \in Present(asm[p]) /\ f.num = n - 1
        BY <2>6, <3>2 DEF Gathered
      <4>2. f \in Travelling(Other(p))
        BY <4>1, OtherFact DEF Travelling, Held
      <4> HIDE DEF f
      <4>3. SoundFrag(Other(p), f) /\ Alike(f, f)
        BY <4>2, <2>1 DEF FragInv
      <4>4. f.inst.size \in 1..(FragmentLimit * FALLBACK_MTU)
        BY <4>3, <1>1, SettingsAssumption DEF SoundFrag
      <4>5. PICK m \in MTUs : IsPiece(f, m)
        BY <4>3 DEF Alike
      <4>6. Count(f.inst.size, m) <= FragmentLimit
        BY <4>4, CountLimit
      <4>7. Count(f.inst.size, m) \in Nat
        BY <4>5, CutFact, ConnectionAssumption DEF IsPiece, MTUs
      <4>8. n <= Count(f.inst.size, m)
        BY <4>1, <4>5 DEF IsPiece
      <4> QED BY <4>1, <4>6, <4>7, <4>8, <2>3 DEF Num
    <3> QED BY <3>1, <3>2
  <2> QED BY <2>1, <2>4, <2>5, <2>6, <2>7 DEF Fresh, ClockInv, SavedOK
<1>3. \A d \in net : d.dir \in Peers /\ d.timestamp \in 0..(Wrap - 2) /\ d.reply \in 0..(Wrap - 1)
  BY DEF LinkInv, Numbered, ClockInv, Clocked
<1> QED BY <1>1, <1>2, <1>3 DEF TypeOK

\* Whatever the network does, no assertion of add_fragment, get_assembly and
\* tostring fails and what is put together was sent, whole: every assembly
\* holds fragments of one cut of one instruction (transportfragment.cc).
THEOREM FragmentsStayWhole == Spec => []FragmentsWhole
<1>1. FragInv => NoAssertionFails
  BY DEF FragInv, IdOK, NoAssertionFails
<1>2. FragInv => AssembledWasSent
  BY DEF FragInv, GotOK, AssembledWasSent
<1> QED BY <1>1, <1>2, TypesFollow, ConnectionInvariant, PTL DEF FragmentsWhole

(***************************************************************************)
(* The sockets of the client and the server's target.                      *)
(***************************************************************************)
\* The ports of the open sockets follow each other: the system gives a port
\* that was not used before.
Newest(c) == c.socks[Len(c.socks)]
Consecutive(c) ==
  /\ c.socks \in Seq(Int) /\ Len(c.socks) \in 1..MAX_PORTS_OPEN
  /\ \A i \in 1..Len(c.socks) : c.socks[i] = Newest(c) - Len(c.socks) + i

\* Someone saw port, not before the time a: hops since then are apart, and it
\* is closed only when that is long ago.
Followed(c, port, a, t) ==
  /\ port \in Int /\ port <= Newest(c)
  /\ port < Newest(c) => c.last_port_choice >= a + (Newest(c) - port - 1) * (PORT_HOP_INTERVAL + 1)
  /\ t - a <= MAX_OLD_SOCKET_AGE => port > Newest(c) - Len(c.socks)

\* The sockets of c at time t: everything that was followed in b still is.
Hopped(b, c, t) ==
  /\ Consecutive(c) /\ c.last_port_choice \in Int /\ c.last_port_choice <= t
  /\ \A port, a \in Int : a <= t /\ Followed(b, port, a, t) => Followed(c, port, a, t)

\* The lists of the sockets that follow each other.
LEMMA ConsecutiveTypes ==
  ASSUME NEW c, Consecutive(c)
  PROVE  /\ c.socks \in Seq(Int) /\ Len(c.socks) \in Nat \ {0}
         /\ MAX_PORTS_OPEN \in Nat \ {0} /\ Len(c.socks) <= MAX_PORTS_OPEN
<1>1. c.socks \in Seq(Int) /\ Len(c.socks) \in 1..MAX_PORTS_OPEN
  BY DEF Consecutive
<1>2. MAX_PORTS_OPEN \in Nat \ {0}
  BY ConnectionAssumption
<1> QED BY <1>1, <1>2

\* A port that is followed and not long ago is that of an open socket.
LEMMA FollowedOpen ==
  ASSUME NEW c, NEW port, NEW a \in Int, NEW t \in Int, Consecutive(c), Followed(c, port, a, t), t - a <= MAX_OLD_SOCKET_AGE
  PROVE  Contains(c.socks, port)
<1> DEFINE n == Len(c.socks)
           i == port - Newest(c) + n
<1>1. c.socks \in Seq(Int) /\ n \in Nat \ {0}
  BY ConsecutiveTypes
<1>2. Newest(c) \in Int /\ port \in Int
  BY <1>1 DEF Newest, Followed
<1>3. i \in 1..n
  BY <1>1, <1>2 DEF Followed
<1>4. c.socks[i] = Newest(c) - n + i
  BY <1>3 DEF Consecutive
<1>5. c.socks[i] = port
  BY <1>4, <1>1, <1>2
<1> QED BY <1>3, <1>5, <1>1 DEF Contains

\* What was seen later was also seen earlier.
LEMMA FollowedEarlier ==
  ASSUME NEW c, NEW port, NEW a \in Int, NEW b \in Int, NEW t \in Int, NEW u \in Int, b <= a, t <= u,
         Consecutive(c), c.last_port_choice \in Int, Followed(c, port, a, t)
  PROVE  Followed(c, port, b, u)
<1>1. Newest(c) \in Int /\ port \in Int /\ PORT_HOP_INTERVAL \in Nat /\ MAX_OLD_SOCKET_AGE \in Nat /\ Len(c.socks) \in Nat
  <2>1. c.socks \in Seq(Int) /\ Len(c.socks) \in Nat \ {0}
    BY ConsecutiveTypes
  <2>2. Newest(c) \in Int
    BY <2>1 DEF Newest
  <2> QED BY <2>1, <2>2, ConnectionAssumption DEF Followed
<1> DEFINE gap == (Newest(c) - port - 1) * (PORT_HOP_INTERVAL + 1)
<1>2. gap \in Int
  BY <1>1
<1>3. port < Newest(c) => c.last_port_choice >= a + gap
  BY DEF Followed
<1> HIDE DEF gap
<1>4. port < Newest(c) => c.last_port_choice >= b + gap
  BY <1>1, <1>2, <1>3
<1>5. u - b <= MAX_OLD_SOCKET_AGE => port > Newest(c) - Len(c.socks)
  BY <1>1 DEF Followed
<1> QED BY <1>1, <1>4, <1>5 DEF Followed, gap

\* Sockets that nothing touched.
LEMMA HoppedSame ==
  ASSUME NEW b, NEW c, NEW t \in Int, Consecutive(b), b.last_port_choice \in Int, b.last_port_choice <= t,
         c.socks = b.socks, c.last_port_choice = b.last_port_choice
  PROVE  Hopped(b, c, t)
BY DEF Hopped, Consecutive, Followed, Newest

\* Two stretches of one moment make one.
LEMMA HoppedMore ==
  ASSUME NEW a, NEW b, NEW c, NEW t \in Int, Hopped(a, b, t), Hopped(b, c, t)
  PROVE  Hopped(a, c, t)
BY DEF Hopped

\* The end of a run of consecutive ports is one.
LEMMA SuffixRun ==
  ASSUME NEW s \in Seq(Int), NEW m \in Nat \ {0}, NEW k \in 1..m, Len(s) = m,
         \A i \in 1..m : s[i] = s[m] - m + i
  PROVE  LET w == SubSeq(s, m - k + 1, m)
         IN  /\ w \in Seq(Int) /\ Len(w) = k /\ w[k] = s[m]
             /\ \A i \in 1..k : w[i] = s[m] - k + i
<1> DEFINE w == SubSeq(s, m - k + 1, m)
<1>1. m - k + 1 \in 1..m
  OBVIOUS
<1>2. w \in Seq(Int) /\ Len(w) = k
  BY <1>1
<1>3. \A i \in 1..k : w[i] = s[m - k + i]
  BY <1>1
<1>4. \A i \in 1..k : m - k + i \in 1..m
  OBVIOUS
<1> HIDE DEF w
<1>5. s[m] \in Int
  OBVIOUS
<1>6. \A i \in 1..k : w[i] = s[m] - k + i
  <2> TAKE i \in 1..k
  <2>1. m - k + i \in 1..m
    BY <1>4
  <2>2. s[m - k + i] = s[m] - m + (m - k + i)
    BY <2>1
  <2> QED BY <1>3, <1>5, <2>2
<1>7. w[k] = s[m]
  BY <1>5, <1>6
<1> QED BY <1>2, <1>6, <1>7 DEF w

\* The intervals are numbers.
LEMMA HopTypes ==
  PORT_HOP_INTERVAL \in Nat \ {0} /\ MAX_OLD_SOCKET_AGE \in Nat /\ MAX_PORTS_OPEN \in Nat \ {0}
BY ConnectionAssumption

\* The time between hops, and what it adds up to.
LEMMA HopGap ==
  /\ PORT_HOP_INTERVAL + 1 \in Nat \ {0} /\ MAX_OLD_SOCKET_AGE \in Nat /\ MAX_PORTS_OPEN \in Nat \ {0}
  /\ MAX_OLD_SOCKET_AGE < (MAX_PORTS_OPEN - 1) * (PORT_HOP_INTERVAL + 1)
  /\ \A k \in Nat : k * (PORT_HOP_INTERVAL + 1) \in Nat /\ (k + 1) * (PORT_HOP_INTERVAL + 1) = k * (PORT_HOP_INTERVAL + 1) + (PORT_HOP_INTERVAL + 1)
  /\ \A k \in Nat : k >= MAX_PORTS_OPEN - 1 => k * (PORT_HOP_INTERVAL + 1) > MAX_OLD_SOCKET_AGE
<1> DEFINE h == PORT_HOP_INTERVAL + 1
           m == MAX_PORTS_OPEN - 1
<1>1. h \in Nat \ {0} /\ MAX_OLD_SOCKET_AGE \in Nat /\ MAX_PORTS_OPEN \in Nat \ {0} /\ m \in Nat
  BY ConnectionAssumption
<1>2. MAX_OLD_SOCKET_AGE < m * h
  BY PortAssumption
<1> HIDE DEF h, m
<1>3. \A k \in Nat : k * h \in Nat /\ (k + 1) * h = k * h + h
  BY <1>1
<1>4. \A k \in Nat : k >= m => k * h > MAX_OLD_SOCKET_AGE
  <2> TAKE k \in Nat
  <2> HAVE k >= m
  <2>1. m * h <= k * h
    BY <1>1, ProductOrder
  <2>2. m * h \in Nat /\ k * h \in Nat
    BY <1>1, <1>3
  <2> QED BY <1>1, <1>2, <2>1, <2>2
<1> QED BY <1>1, <1>2, <1>3, <1>4 DEF h, m

\* Old sockets are closed when the newest has been in use for long.
LEMMA PruneHop ==
  ASSUME NEW c, NEW t \in Int, DOMAIN c = ConnFields, Consecutive(c), c.last_port_choice \in Int, c.last_port_choice <= t
  PROVE  Hopped(c, prune_sockets(c, t), t)
<1> DEFINE w == prune_sockets(c, t)
           n == Len(c.socks)
           young == IF n > 1 /\ t - c.last_port_choice > MAX_OLD_SOCKET_AGE THEN <<c.socks[n]>> ELSE c.socks
<1>1. c.socks \in Seq(Int) /\ n \in Nat \ {0} /\ n <= MAX_PORTS_OPEN /\ MAX_PORTS_OPEN \in Nat \ {0}
  BY ConsecutiveTypes
<1>2. c.socks[n] \in Int
  BY <1>1
<1>3. young \in Seq(Int) /\ Len(young) \in 1..n
  BY <1>1, <1>2
<1>4. ~(Len(young) > MAX_PORTS_OPEN)
  BY <1>1, <1>3
<1>5. w = [c EXCEPT !.socks = young]
  BY <1>4 DEF prune_sockets
<1>6. w.socks = young /\ w.last_port_choice = c.last_port_choice
  BY <1>5 DEF ConnFields
<1> HIDE DEF w
<1>7. CASE ~(n > 1 /\ t - c.last_port_choice > MAX_OLD_SOCKET_AGE)
  <2>1. w.socks = c.socks
    BY <1>6, <1>7
  <2> QED BY <2>1, <1>6, HoppedSame DEF w
<1>8. CASE n > 1 /\ t - c.last_port_choice > MAX_OLD_SOCKET_AGE
  <2>1. w.socks = <<c.socks[n]>>
    BY <1>6, <1>8
  <2>2. w.socks \in Seq(Int) /\ Len(w.socks) = 1 /\ Newest(w) = c.socks[n] /\ Newest(c) = c.socks[n]
    BY <2>1, <1>2 DEF Newest
  <2>3. Consecutive(w)
    BY <2>2, <1>1, <1>2 DEF Consecutive, Newest
  <2>4. ASSUME NEW port \in Int, NEW a \in Int, a <= t, Followed(c, port, a, t)
        PROVE  Followed(w, port, a, t)
    <3> DEFINE k == Newest(c) - port - 1
               gap == k * (PORT_HOP_INTERVAL + 1)
    <3>1. port <= Newest(c) /\ (port < Newest(c) => c.last_port_choice >= a + gap)
      BY <2>4 DEF Followed
    <3>2. port < Newest(c) => gap \in Nat
      <4>1. port < Newest(c) => k \in Nat
        BY <1>2, <2>2
      <4> HIDE DEF k
      <4> QED BY <4>1, HopGap
    <3> HIDE DEF gap
    <3>3. port < Newest(c) => t - a > MAX_OLD_SOCKET_AGE
      BY <1>8, <3>1, <3>2, HopTypes
    <3>4. t - a <= MAX_OLD_SOCKET_AGE => port > Newest(w) - Len(w.socks)
      BY <3>1, <3>3, <2>2, <1>2, HopTypes
    <3> QED BY <3>1, <3>4, <1>6, <2>2 DEF Followed, gap
  <2> QED BY <2>3, <2>4, <1>6 DEF Hopped, w
<1> QED BY <1>7, <1>8

\* A hop opens a socket and closes the oldest of too many.
LEMMA HopHop ==
  ASSUME NEW c, NEW t \in Int, DOMAIN c = ConnFields, Consecutive(c), c.last_port_choice \in Int,
         t - c.last_port_choice > PORT_HOP_INTERVAL
  PROVE  Hopped(c, hop_port(c, t), t)
<1> DEFINE u == setup(c, t)
           v == addSocket(u)
           w == prune_sockets(v, t)
           n == Len(c.socks)
           s == Append(c.socks, c.socks[n] + 1)
           m == n + 1
           M == MAX_PORTS_OPEN
           kept == IF m > M THEN SubSeq(s, m - M + 1, m) ELSE s
<1>1. c.socks \in Seq(Int) /\ n \in Nat \ {0} /\ n <= M /\ M \in Nat \ {0} /\ c.socks[n] \in Int
  <2>1. c.socks \in Seq(Int) /\ n \in Nat \ {0} /\ n <= M /\ M \in Nat \ {0}
    BY ConsecutiveTypes
  <2> QED BY <2>1
<1>2. DOMAIN u = ConnFields /\ u.last_port_choice = t /\ u.socks = c.socks
  BY DEF setup, ConnFields
<1> HIDE DEF u
<1>3. v = [u EXCEPT !.socks = s]
  BY <1>2 DEF addSocket, Last1
<1>4. DOMAIN v = ConnFields /\ v.socks = s /\ v.last_port_choice = t
  BY <1>2, <1>3 DEF ConnFields
<1> HIDE DEF v
<1>5. s \in Seq(Int) /\ Len(s) = m /\ s[m] = c.socks[n] + 1 /\ \A i \in 1..n : s[i] = c.socks[i]
  BY <1>1
<1> HIDE DEF s
<1>6. \A i \in 1..m : s[i] = s[m] - m + i
  <2> TAKE i \in 1..m
  <2>1. CASE i = m
    BY <2>1, <1>1, <1>5
  <2>2. CASE i # m
    <3>1. i \in 1..n
      BY <2>2, <1>1
    <3>2. c.socks[i] = c.socks[n] - n + i
      BY <3>1 DEF Consecutive, Newest
    <3>3. s[i] = c.socks[i] /\ s[m] = c.socks[n] + 1
      BY <3>1, <1>5
    <3>4. i \in Int /\ n \in Int /\ c.socks[n] \in Int
      BY <3>1, <1>1
    <3>5. c.socks[n] - n + i = (c.socks[n] + 1) - (n + 1) + i
      BY <3>4
    <3> QED BY <3>2, <3>3, <3>5
  <2> QED BY <2>1, <2>2
<1>7. w = [v EXCEPT !.socks = kept]
  <2>1. ~(t - t > MAX_OLD_SOCKET_AGE)
    BY HopGap
  <2> QED BY <2>1, <1>4, <1>5 DEF prune_sockets
<1>8. w.socks = kept /\ w.last_port_choice = t
  BY <1>4, <1>7 DEF ConnFields
<1> HIDE DEF w
<1> DEFINE k == Len(w.socks)
<1>9. /\ w.socks \in Seq(Int) /\ k \in 1..M /\ (k = m \/ k = M) /\ w.socks[k] = s[m]
      /\ \A i \in 1..k : w.socks[i] = s[m] - k + i
  <2>1. CASE m > M
    <3>1. M \in 1..m /\ m \in Nat \ {0}
      BY <2>1, <1>1
    <3> DEFINE z == SubSeq(s, m - M + 1, m)
    <3>2. /\ z \in Seq(Int) /\ Len(z) = M /\ z[M] = s[m]
          /\ \A i \in 1..M : z[i] = s[m] - M + i
      <4> HIDE DEF M, m
      <4> QED BY <3>1, <1>5, <1>6, SuffixRun
    <3>3. w.socks = z /\ k = M
      BY <2>1, <1>8, <3>2
    <3> HIDE DEF z, k
    <3> QED BY <3>1, <3>2, <3>3
  <2>2. CASE ~(m > M)
    <3>1. w.socks = s /\ k = m
      BY <2>2, <1>5, <1>8
    <3>2. m \in 1..M
      BY <2>2, <1>1
    <3> HIDE DEF k, m
    <3> QED BY <3>1, <3>2, <1>5, <1>6
  <2> QED BY <2>1, <2>2
<1>10. Newest(w) = c.socks[n] + 1 /\ Newest(c) = c.socks[n]
  BY <1>5, <1>9 DEF Newest
<1> HIDE DEF k
<1>11. Consecutive(w)
  BY <1>9, <1>10, <1>5 DEF Consecutive, k
<1>12. ASSUME NEW port \in Int, NEW a \in Int, a <= t, Followed(c, port, a, t)
       PROVE  Followed(w, port, a, t)
  <2> DEFINE H == PORT_HOP_INTERVAL + 1
             j == Newest(c) - port - 1
             gap == j * H
             g == (Newest(w) - port - 1) * H
  <2>0. Newest(c) \in Int /\ Newest(w) = Newest(c) + 1 /\ c.last_port_choice + H <= t /\ H \in Nat \ {0}
    BY <1>1, <1>10, HopTypes
  <2>1. port <= Newest(c) /\ (port < Newest(c) => c.last_port_choice >= a + gap)
    BY <1>12 DEF Followed
  <2>2. port < Newest(c) => gap \in Nat /\ g = gap + H
    <3>1. port < Newest(c) => j \in Nat /\ Newest(w) - port - 1 = j + 1
      BY <2>0
    <3> HIDE DEF j, H
    <3>2. \A i \in Nat : i * H \in Nat /\ (i + 1) * H = i * H + H
      BY HopGap DEF H
    <3> QED BY <3>1, <3>2
  <2>3. port = Newest(c) => g = 0
    <3>1. port = Newest(c) => Newest(w) - port - 1 = 0
      BY <2>0
    <3>2. 0 * H = 0
      BY <2>0
    <3> QED BY <3>1, <3>2
  <2> HIDE DEF gap, H
  <2>4. g \in Nat /\ t >= a + g
    <3> HIDE DEF g
    <3>1. CASE port < Newest(c)
      BY <3>1, <2>0, <2>1, <2>2
    <3>2. CASE port = Newest(c)
      BY <3>2, <2>3, <1>12
    <3> QED BY <3>1, <3>2, <2>0, <2>1
  <2>5. t - a <= MAX_OLD_SOCKET_AGE => port > Newest(w) - k
    <3>1. CASE k = m
      <4>1. t - a <= MAX_OLD_SOCKET_AGE => port > Newest(c) - n
        BY <1>12 DEF Followed
      <4> QED BY <3>1, <4>1, <2>0, <1>1
    <3>2. CASE k = M
      <4> SUFFICES ASSUME port <= Newest(w) - k PROVE t - a > MAX_OLD_SOCKET_AGE
        BY <2>0, <1>9, HopTypes
      <4> DEFINE i == Newest(w) - port - 1
      <4>1. i \in Nat /\ i >= M - 1
        BY <2>0, <3>2, <1>1
      <4>2. g = i * (PORT_HOP_INTERVAL + 1)
        BY DEF H
      <4> HIDE DEF i, g
      <4>3. g > MAX_OLD_SOCKET_AGE
        BY <4>1, <4>2, HopGap
      <4> QED BY <4>3, <2>4, HopTypes
    <3> QED BY <3>1, <3>2, <1>9
  <2> HIDE DEF g
  <2>6. w.last_port_choice >= a + g
    BY <2>4, <1>8
  <2>7. port <= Newest(w)
    BY <2>0, <2>1
  <2> QED BY <2>5, <2>6, <2>7 DEF Followed, g, H, k
<1> QED BY <1>8, <1>11, <1>12 DEF Hopped, hop_port, w, v, u

\* What one fragment does to the sockets: only the client hops, and the
\* datagram names the newest port.
LEMMA SendSockets ==
  ASSUME NEW p \in Peers, NEW c, NEW sent, NEW t \in Int, NEW f, NEW pathMTU, Fresh(p, c),
         p = Client => Consecutive(c) /\ c.last_port_choice <= t
  PROVE  LET y == send([c |-> c, sent |-> sent], p, t, f, pathMTU)
         IN  /\ IF p = Client THEN Hopped(c, y.c, t) ELSE y.c.socks = c.socks
             /\ \A d \in y.sent : d \in sent \/ d = new_packet(c, p, t, f)
<1> DEFINE x == [c |-> c, sent |-> sent]
           y == send(x, p, t, f, pathMTU)
           returned == t - c.saved_at < HoldLimit
           held == [c EXCEPT !.saved_timestamp = IF returned THEN NoTimestamp ELSE @,
                             !.saved_at = IF returned THEN 0 ELSE @, !.saved_true = IF returned THEN 0 ELSE @]
           e == encrypt(held, f.len)
           tooBig == f.len > pathMTU
           s == [e EXCEPT !.MTU = IF tooBig THEN FALLBACK_MTU ELSE @]
           detach == p = Server /\ t - c.last_heard > SERVER_ASSOCIATION_TIMEOUT
           hop == /\ p = Client /\ t - c.last_port_choice > PORT_HOP_INTERVAL
                  /\ t - c.last_roundtrip_success > PORT_HOP_INTERVAL
           open == IF hop THEN hop_port(s, t) ELSE [s EXCEPT !.has_remote_addr = ~detach]
<1>1. y = IF ~c.has_remote_addr \/ c.dead THEN x
          ELSE IF e.dead THEN [x EXCEPT !.c = e]
          ELSE [c |-> open, sent |-> IF tooBig THEN sent ELSE sent \union {new_packet(c, p, t, f)}]
  BY DEF send
<1> HIDE DEF y
<1>2. DOMAIN c = ConnFields /\ c.last_port_choice \in Int
  BY DEF Fresh
<1>3. DOMAIN held = ConnFields /\ held.socks = c.socks /\ held.last_port_choice = c.last_port_choice
  BY <1>2 DEF ConnFields
<1> HIDE DEF held
<1>4. DOMAIN e = ConnFields /\ e.socks = c.socks /\ e.last_port_choice = c.last_port_choice
  BY <1>3 DEF encrypt, unique, ConnFields
<1> HIDE DEF e
<1>5. DOMAIN s = ConnFields /\ s.socks = c.socks /\ s.last_port_choice = c.last_port_choice
  BY <1>4 DEF ConnFields
<1> HIDE DEF s, tooBig, detach
<1>6. ~hop => open.socks = c.socks /\ open.last_port_choice = c.last_port_choice
  BY <1>5 DEF ConnFields
<1>7. y.c = c \/ y.c = e \/ y.c = open
  BY <1>1
<1>8. \A d \in y.sent : d \in sent \/ d = new_packet(c, p, t, f)
  <2> HIDE DEF open
  <2>1. y.sent = sent \/ y.sent = sent \union {new_packet(c, p, t, f)}
    BY <1>1
  <2> QED BY <2>1
<1>9. CASE p = Client
  <2>1. Consecutive(c) /\ c.last_port_choice <= t
    BY <1>9
  <2>2. Hopped(c, c, t) /\ Hopped(c, e, t) /\ Hopped(c, s, t)
    BY <2>1, <1>2, <1>4, <1>5, HoppedSame
  <2>3. Hopped(c, open, t)
    <3>1. CASE hop
      <4>1. Consecutive(s)
        BY <2>2 DEF Hopped
      <4>2. t - s.last_port_choice > PORT_HOP_INTERVAL /\ s.last_port_choice \in Int
        BY <3>1, <1>2, <1>5
      <4>3. Hopped(s, hop_port(s, t), t)
        BY <4>1, <4>2, <1>5, HopHop
      <4> QED BY <4>3, <2>2, <3>1, HoppedMore
    <3>2. CASE ~hop
      <4> HIDE DEF open
      <4> QED BY <3>2, <1>2, <1>6, <2>1, HoppedSame
    <3> QED BY <3>1, <3>2
  <2> HIDE DEF open
  <2>4. Hopped(c, y.c, t)
    BY <1>7, <2>2, <2>3
  <2> QED BY <2>4, <1>8, <1>9 DEF y
<1>10. CASE p # Client
  <2>1. y.c.socks = c.socks
    BY <1>4, <1>6, <1>7, <1>10
  <2> QED BY <2>1, <1>8, <1>10 DEF y
<1> QED BY <1>9, <1>10

\* The sockets of b after sending for a while at time t.
Sockets(p, b, x, t) ==
  /\ x = [c |-> x.c, sent |-> x.sent] /\ Fresh(p, x.c)
  /\ IF p = Client
     THEN Hopped(b, x.c, t) /\ \A d \in x.sent : Followed(x.c, d.src[2], t, t)
     ELSE x.c.socks = b.socks

\* One more fragment.
LEMMA SocketsStep ==
  ASSUME NEW p \in Peers, NEW b, NEW x, NEW t \in Int, NEW f, NEW pathMTU, f.len \in Nat \ {0}, Sockets(p, b, x, t)
  PROVE  Sockets(p, b, send(x, p, t, f, pathMTU), t)
<1> DEFINE y == send(x, p, t, f, pathMTU)
<1>1. x = [c |-> x.c, sent |-> x.sent] /\ Fresh(p, x.c)
  BY DEF Sockets
<1>2. y = [c |-> y.c, sent |-> y.sent] /\ Fresh(p, y.c)
  <2> DEFINE z == send([c |-> x.c, sent |-> x.sent], p, t, f, pathMTU)
  <2>0. z = [c |-> z.c, sent |-> z.sent] /\ Along(p, x.c, z.c)
    BY <1>1, SendFact
  <2>1. y = [c |-> y.c, sent |-> y.sent] /\ Along(p, x.c, y.c)
    BY <1>1, <2>0, Zenon
  <2> QED BY <2>1 DEF Along
<1>3. p = Client => Hopped(b, x.c, t) /\ \A d \in x.sent : Followed(x.c, d.src[2], t, t)
  BY DEF Sockets
<1>4. p = Client => Consecutive(x.c) /\ x.c.last_port_choice <= t
  BY <1>3 DEF Hopped
<1>5. /\ IF p = Client THEN Hopped(x.c, y.c, t) ELSE y.c.socks = x.c.socks
      /\ \A d \in y.sent : d \in x.sent \/ d = new_packet(x.c, p, t, f)
  BY <1>1, <1>4, SendSockets
<1> HIDE DEF y
<1>6. CASE p = Client
  <2>1. Hopped(b, y.c, t)
    BY <1>3, <1>5, <1>6, HoppedMore
  <2>2. ASSUME NEW d \in y.sent PROVE Followed(y.c, d.src[2], t, t)
    <3>1. Followed(x.c, d.src[2], t, t)
      <4>1. CASE d \in x.sent
        BY <4>1, <1>3, <1>6
      <4>2. CASE d = new_packet(x.c, p, t, f)
        <5>1. d.src = <<ip, Newest(x.c)>>
          BY <4>2, <1>6 DEF new_packet, Last1, Newest
        <5>2. d.src[2] = Newest(x.c)
          BY <5>1
        <5>3. x.c.socks \in Seq(Int) /\ Len(x.c.socks) \in Nat \ {0}
          BY <1>4, <1>6, HopTypes DEF Consecutive
        <5>4. Newest(x.c) \in Int
          BY <5>3 DEF Newest
        <5> QED BY <5>2, <5>3, <5>4 DEF Followed
      <4> QED BY <1>5, <4>1, <4>2
    <3>2. d.src[2] \in Int
      BY <3>1 DEF Followed
    <3> QED BY <3>1, <3>2, <1>5, <1>6 DEF Hopped
  <2> QED BY <1>2, <1>6, <2>1, <2>2 DEF Sockets, y
<1>7. CASE p # Client
  BY <1>2, <1>5, <1>7 DEF Sockets, y
<1> QED BY <1>6, <1>7

\* The whole instruction: by induction on the number of fragments.
LEMMA SocketsFact ==
  ASSUME NEW p \in Peers, NEW c, NEW inst, NEW t \in Int, NEW pathMTU, Fresh(p, c), inst.size \in Nat \ {0},
         p = Client => Consecutive(c) /\ c.last_port_choice <= t
  PROVE  Sockets(p, c, send_in_fragments(c, p, t, inst, pathMTU), t)
<1> DEFINE fs == make_fragments(c, inst)
           n == Len(fs)
           start == [c |-> Made(c, inst), sent |-> {}]
           done == CHOOSE d : Turns(d, start, fs, p, t, pathMTU, n)
           T == {k \in 0..n : ~Sockets(p, c, done[k], t)}
<1>1. send_in_fragments(c, p, t, inst, pathMTU) = done[n]
  BY DEF send_in_fragments, Made, Turns
<1>2. n \in Nat /\ \A i \in 1..n : fs[i].len \in Nat \ {0}
  BY MakeFact
<1>3. Fresh(p, Made(c, inst)) /\ Made(c, inst).socks = c.socks /\ Made(c, inst).last_port_choice = c.last_port_choice
  BY MadeFact DEF ConnFields
<1> HIDE DEF fs, n
<1>4. Turns(done, start, fs, p, t, pathMTU, n)
  <2> HIDE DEF start
  <2>1. \E d : Turns(d, start, fs, p, t, pathMTU, n)
    BY <1>2, DoneExists
  <2> QED BY <2>1
<1> HIDE DEF done
<1>5. Sockets(p, c, done[0], t)
  <2>1. done[0] = start
    BY <1>4, <1>2 DEF Turns
  <2>2. start.c = Made(c, inst) /\ start.sent = {}
    OBVIOUS
  <2>3. p = Client => Hopped(c, Made(c, inst), t)
    BY <1>3, HoppedSame DEF Fresh
  <2> QED BY <1>3, <2>1, <2>2, <2>3 DEF Sockets
<1>6. T = {}
  <2>1. SUFFICES ASSUME T # {} PROVE FALSE
    OBVIOUS
  <2>2. T \subseteq Nat
    OBVIOUS
  <2>3. PICK k \in T : \A l \in T : k <= l
    <3> HIDE DEF T
    <3> QED BY <2>1, <2>2, Minimum
  <2>4. k \in 0..n /\ ~Sockets(p, c, done[k], t)
    BY <2>3
  <2>5. k # 0
    BY <1>5, <2>4
  <2>6. k - 1 \in 0..n /\ k - 1 \notin T
    <3> HIDE DEF T
    <3> QED BY <2>3, <2>4, <2>5, <1>2
  <2>7. Sockets(p, c, done[k - 1], t)
    BY <2>6
  <2>8. done[k] = send(done[k - 1], p, t, fs[k], pathMTU)
    BY <1>4, <2>4, <2>5 DEF Turns
  <2>9. fs[k].len \in Nat \ {0}
    BY <1>2, <2>4, <2>5
  <2>10. Sockets(p, c, send(done[k - 1], p, t, fs[k], pathMTU), t)
    BY <2>7, <2>9, SocketsStep
  <2> QED BY <2>4, <2>8, <2>10
<1>7. Sockets(p, c, done[n], t)
  BY <1>6, <1>2
<1> QED BY <1>1, <1>7

\* The ports in datagrams and the server's target are followed at the client.
PortInv ==
  /\ Consecutive(conn[Client]) /\ conn[Client].last_port_choice <= now
  /\ \A d \in net : d.dir = Client => Followed(conn[Client], d.src[2], d.at, now)
  /\ conn[Server].remote_addr # NoAddr =>
       /\ conn[Server].last_heard \in Int /\ conn[Server].last_heard <= now
       /\ Followed(conn[Client], conn[Server].remote_addr[2], conn[Server].last_heard - setting.life, now)

\* Sending follows the port of every new datagram.
LEMMA SendPort ==
  ASSUME NEW p \in Peers, NEW inst, NEW pathMTU, LinkInv, ClockInv, PortInv, Sends(p, inst, pathMTU)
  PROVE  PortInv' /\ conn'[Server].socks = conn[Server].socks
<1> DEFINE r == send_in_fragments(conn[p], p, now, inst, pathMTU)
<1>1. /\ conn' = [conn EXCEPT ![p] = r.c] /\ net' = net \union r.sent
      /\ inst.size \in Nat \ {0} /\ setting' = setting /\ now' = now
  BY DEF Sends
<1>2. Fresh(p, conn[p]) /\ now \in Int /\ setting.life \in Nat /\ DOMAIN conn = Peers
  BY TimeFact DEF LinkInv
<1>3. p = Client => Consecutive(conn[p]) /\ conn[p].last_port_choice <= now
  BY DEF PortInv
<1>4. Sockets(p, conn[p], r, now)
  BY <1>1, <1>2, <1>3, SocketsFact
<1>5. /\ \A x \in ConnFields \ (SendFields \union {"next_instruction_id", "last_instruction", "last_MTU", "failed"}) :
           r.c[x] = conn[p][x]
      /\ \A d \in r.sent : d.dir = p /\ d.at = now
  BY SentFact
<1>6. Client \in Peers /\ Server \in Peers /\ Client # Server
  BY ConnectionAssumption DEF Peers
<1> HIDE DEF r
<1>7. r.c.last_heard = conn[p].last_heard /\ r.c.remote_addr = conn[p].remote_addr
  BY <1>5 DEF ConnFields, SendFields
<1>8. \A d \in net : d.at \in Int /\ d.at <= now
  BY DEF ClockInv, Clocked
<1>9. CASE p = Client
  <2>1. conn'[Client] = r.c /\ conn'[Server] = conn[Server]
    BY <1>1, <1>2, <1>6, <1>9
  <2>2. Hopped(conn[Client], r.c, now) /\ \A d \in r.sent : Followed(r.c, d.src[2], now, now)
    BY <1>4, <1>9 DEF Sockets
  <2>3. Consecutive(r.c) /\ r.c.last_port_choice <= now
    BY <2>2 DEF Hopped
  <2>4. ASSUME NEW d \in net', d.dir = Client PROVE Followed(r.c, d.src[2], d.at, now)
    <3>1. CASE d \in net
      <4>1. Followed(conn[Client], d.src[2], d.at, now)
        BY <2>4, <3>1 DEF PortInv
      <4>2. d.src[2] \in Int
        BY <4>1 DEF Followed
      <4> QED BY <4>1, <4>2, <3>1, <1>8, <2>2 DEF Hopped
    <3>2. CASE d \in r.sent
      BY <3>2, <1>5, <2>2
    <3> QED BY <3>1, <3>2, <1>1
  <2>5. ASSUME conn[Server].remote_addr # NoAddr
        PROVE  Followed(r.c, conn[Server].remote_addr[2], conn[Server].last_heard - setting.life, now)
    <3>1. /\ conn[Server].last_heard \in Int /\ conn[Server].last_heard <= now
          /\ Followed(conn[Client], conn[Server].remote_addr[2], conn[Server].last_heard - setting.life, now)
      BY <2>5 DEF PortInv
    <3>2. conn[Server].last_heard - setting.life \in Int /\ conn[Server].last_heard - setting.life <= now
      BY <3>1, <1>2
    <3>3. conn[Server].remote_addr[2] \in Int
      BY <3>1 DEF Followed
    <3> QED BY <3>1, <3>2, <3>3, <2>2 DEF Hopped
  <2>6. PortInv'
    BY <1>1, <2>1, <2>3, <2>4, <2>5 DEF PortInv
  <2> QED BY <2>1, <2>6
<1>10. CASE p = Server
  <2>1. conn'[Server] = r.c /\ conn'[Client] = conn[Client]
    BY <1>1, <1>2, <1>6, <1>10
  <2>2. r.c.socks = conn[Server].socks
    BY <1>4, <1>6, <1>10 DEF Sockets
  <2>3. \A d \in net' : d.dir = Client => d \in net
    BY <1>1, <1>5, <1>6, <1>10
  <2>4. PortInv'
    BY <1>1, <1>7, <1>10, <2>1, <2>3 DEF PortInv
  <2> QED BY <2>1, <2>2, <2>4
<1> QED BY <1>9, <1>10 DEF Peers

\* The server follows the datagram it heard; the client closes what is old.
LEMMA ReceivePort ==
  ASSUME NEW p \in Peers, NEW d, NEW ce, LinkInv, ClockInv, PortInv, Receives(p, d, ce)
  PROVE  PortInv' /\ conn'[Server].socks = conn[Server].socks
<1> DEFINE b == conn[p]
           u == recv_one(b, p, d, now, ce)
           c == Heard(p, d, ce)
           q == Other(p)
<1>1. /\ d \in net /\ d.dir = q
      /\ conn'[q] = conn[q]
      /\ \A x \in ConnFields \ {"last_roundtrip_success", "acked"} : conn'[p][x] = c[x]
      /\ setting' = setting /\ now' = now /\ net' = net
  BY DEF Receives
<1>2. Fresh(p, b) /\ now \in Int /\ setting.life \in Nat
  BY TimeFact DEF LinkInv
<1>3. /\ \A x \in ConnFields \ RecvFields : c[x] = b[x]
      /\ d.seq < b.expected_receiver_seq => \A x \in ConnFields \ {"socks"} : c[x] = b[x]
      /\ ~(d.seq < b.expected_receiver_seq) =>
           c.last_heard = now /\ c.remote_addr = (IF p = Server THEN d.src ELSE b.remote_addr)
  BY <1>2, HeardFact
<1>4. conn'[p].last_port_choice = c.last_port_choice /\ conn'[p].socks = c.socks /\ conn'[p].last_heard = c.last_heard
      /\ conn'[p].remote_addr = c.remote_addr
  BY <1>1 DEF ConnFields
<1>5. DOMAIN b = ConnFields /\ b.last_port_choice \in Int
  BY <1>2 DEF Fresh
<1>6. DOMAIN u = ConnFields /\ u.socks = b.socks /\ u.last_port_choice = b.last_port_choice
  BY <1>5 DEF recv_one, ConnFields
<1>7. Client \in Peers /\ Server \in Peers /\ Client # Server
  BY ConnectionAssumption DEF Peers
<1>8. c = prune_sockets(u, now)
  BY DEF Heard
<1>9. \A e \in net : e.at \in Int /\ e.at <= now /\ now - e.at <= setting.life
  BY DEF ClockInv, Clocked
<1> HIDE DEF u, c
<1>10. CASE p = Client
  <2>1. q = Server /\ conn'[Server] = conn[Server]
    BY <1>1, <1>10 DEF Other
  <2>2. Consecutive(b) /\ b.last_port_choice <= now
    BY <1>10 DEF PortInv
  <2>3. Hopped(b, u, now)
    BY <2>2, <1>2, <1>5, <1>6, HoppedSame
  <2>4. Hopped(u, c, now)
    <3>1. Consecutive(u) /\ u.last_port_choice <= now /\ u.last_port_choice \in Int
      BY <2>3 DEF Hopped
    <3> QED BY <3>1, <1>2, <1>6, <1>8, PruneHop
  <2>5. Hopped(b, c, now)
    BY <2>3, <2>4, <1>2, HoppedMore
  <2>6. Hopped(c, conn'[p], now)
    BY <2>5, <1>2, <1>4, HoppedSame DEF Hopped
  <2>7. Hopped(conn[Client], conn'[Client], now)
    BY <2>5, <2>6, <1>2, <1>10, HoppedMore
  <2>8. ASSUME NEW e \in net, e.dir = Client PROVE Followed(conn'[Client], e.src[2], e.at, now)
    <3>1. Followed(conn[Client], e.src[2], e.at, now)
      BY <2>8 DEF PortInv
    <3>2. e.src[2] \in Int
      BY <3>1 DEF Followed
    <3> QED BY <3>1, <3>2, <1>9, <2>7 DEF Hopped
  <2>9. ASSUME conn[Server].remote_addr # NoAddr
        PROVE  Followed(conn'[Client], conn[Server].remote_addr[2], conn[Server].last_heard - setting.life, now)
    <3>1. /\ conn[Server].last_heard \in Int /\ conn[Server].last_heard <= now
          /\ Followed(conn[Client], conn[Server].remote_addr[2], conn[Server].last_heard - setting.life, now)
      BY <2>9 DEF PortInv
    <3>2. conn[Server].last_heard - setting.life \in Int /\ conn[Server].last_heard - setting.life <= now
      BY <3>1, <1>2
    <3>3. conn[Server].remote_addr[2] \in Int
      BY <3>1 DEF Followed
    <3> QED BY <3>1, <3>2, <3>3, <2>7 DEF Hopped
  <2>10. Consecutive(conn'[Client]) /\ conn'[Client].last_port_choice <= now
    BY <2>7 DEF Hopped
  <2>11. PortInv'
    BY <1>1, <2>1, <2>8, <2>9, <2>10 DEF PortInv
  <2> QED BY <2>1, <2>11
<1>11. CASE p = Server
  <2>1. q = Client /\ conn'[Client] = conn[Client] /\ d.dir = Client
    BY <1>1, <1>7, <1>11 DEF Other
  <2>2. conn'[Server].socks = conn[Server].socks
    <3>1. Len(u.socks) \in {0, 1}
      BY <1>2, <1>6, <1>7, <1>11 DEF Fresh, SocksOK
    <3>2. c.socks = u.socks
      BY <3>1, <1>6, <1>8, HopTypes DEF prune_sockets, ConnFields
    <3> QED BY <3>2, <1>4, <1>6, <1>11
  <2>3. CASE d.seq < b.expected_receiver_seq
    <3>1. conn'[Server].last_heard = conn[Server].last_heard /\ conn'[Server].remote_addr = conn[Server].remote_addr
      BY <1>3, <1>4, <1>11, <2>3 DEF ConnFields
    <3>2. PortInv'
      BY <3>1, <1>1, <2>1 DEF PortInv
    <3> QED BY <3>2, <2>2
  <2>4. CASE ~(d.seq < b.expected_receiver_seq)
    <3>1. conn'[Server].last_heard = now /\ conn'[Server].remote_addr = d.src
      BY <1>3, <1>4, <1>11, <2>4
    <3>2. Followed(conn[Client], d.src[2], d.at, now) /\ Consecutive(conn[Client])
      BY <1>1, <2>1 DEF PortInv
    <3>3. conn[Client].last_port_choice \in Int
      BY <1>7 DEF LinkInv, Fresh
    <3>4. d.at \in Int /\ now - setting.life \in Int /\ now - setting.life <= d.at
      BY <1>1, <1>2, <1>9
    <3>5. Followed(conn[Client], d.src[2], now - setting.life, now)
      BY <3>2, <3>3, <3>4, <1>2, FollowedEarlier
    <3>6. PortInv'
      BY <3>1, <3>5, <1>1, <1>2, <2>1 DEF PortInv
    <3> QED BY <3>6, <2>2
  <2> QED BY <2>3, <2>4
<1> QED BY <1>10, <1>11 DEF Peers

\* Time passes: what was followed stays followed.
LEMMA LaterPort ==
  ASSUME LinkInv, ClockInv, PortInv, conn' = conn, setting' = setting, now' \in Int, now' >= now, net' \subseteq net
  PROVE  PortInv'
<1>1. now \in Int /\ setting.life \in Nat
  BY TimeFact
<1>2. conn[Client].last_port_choice \in Int /\ conn[Client].last_port_choice <= now /\ Consecutive(conn[Client])
  BY DEF LinkInv, Fresh, PortInv, Peers
<1>3. \A d \in net' : d.dir = Client => Followed(conn[Client], d.src[2], d.at, now')
  <2> TAKE d \in net'
  <2> HAVE d.dir = Client
  <2>1. d.at \in Int /\ Followed(conn[Client], d.src[2], d.at, now)
    BY DEF PortInv, ClockInv, Clocked
  <2> QED BY <2>1, <1>1, <1>2, FollowedEarlier
<1>4. ASSUME conn[Server].remote_addr # NoAddr
      PROVE  /\ conn[Server].last_heard \in Int /\ conn[Server].last_heard <= now'
             /\ Followed(conn[Client], conn[Server].remote_addr[2], conn[Server].last_heard - setting.life, now')
  <2>1. /\ conn[Server].last_heard \in Int /\ conn[Server].last_heard <= now
        /\ Followed(conn[Client], conn[Server].remote_addr[2], conn[Server].last_heard - setting.life, now)
    BY <1>4 DEF PortInv
  <2>2. conn[Server].last_heard - setting.life \in Int
    BY <2>1, <1>1
  <2> QED BY <2>1, <2>2, <1>1, <1>2, FollowedEarlier
<1>5. conn[Client].last_port_choice <= now'
  BY <1>1, <1>2
<1> QED BY <1>2, <1>3, <1>4, <1>5 DEF PortInv

\* A damaged datagram names the port it did.
LEMMA DamagePort ==
  ASSUME LinkInv, PortInv, NEW d \in net, Damage(d)
  PROVE  PortInv'
<1> DEFINE e == [d EXCEPT !.intact = FALSE]
<1>1. net' = (net \ {d}) \union {e} /\ setting' = setting /\ now' = now /\ conn' = conn
  BY DEF Damage
<1>2. e.dir = d.dir /\ e.at = d.at /\ e.src = d.src
  BY DEF LinkInv, Numbered, PacketFields
<1> HIDE DEF e
<1> QED BY <1>1, <1>2 DEF PortInv

\* At the start the client has one socket and the server no target.
LEMMA PortInitial == Init => PortInv
<1> SUFFICES ASSUME Init PROVE PortInv
  OBVIOUS
<1>1. PICK port : conn = [p \in Peers |-> Connection(p, FirstTime, IF p = Client THEN 1 ELSE port)]
  BY DEF Init
<1>2. now = FirstTime /\ net = {} /\ FirstTime \in Int
  BY ConnectionAssumption DEF Init
<1>3. conn[Client] = Connection(Client, FirstTime, 1)
  BY <1>1 DEF Peers
<1>4. conn[Client].socks = <<1>> /\ conn[Client].last_port_choice = FirstTime
  BY <1>3 DEF Connection, Bad
<1>5. Consecutive(conn[Client])
  BY <1>4, HopTypes DEF Consecutive, Newest
<1>6. conn[Server].remote_addr = NoAddr
  BY <1>1 DEF Connection, Peers
<1> QED BY <1>2, <1>4, <1>5, <1>6 DEF PortInv

\* Every step keeps the ports followed and the server's socket.
LEMMA PortInductive ==
  LinkInv /\ ClockInv /\ PortInv /\ [Next]_vars => PortInv' /\ conn'[Server].socks = conn[Server].socks /\ asked' = asked
<1> SUFFICES ASSUME LinkInv, ClockInv, PortInv, [Next]_vars
             PROVE  PortInv' /\ conn'[Server].socks = conn[Server].socks /\ asked' = asked
  OBVIOUS
<1>0. now \in Int
  BY TimeFact
<1>1. CASE \E p \in Peers : Send(p)
  <2>1. asked' = asked
    BY <1>1 DEF Send
  <2> QED BY <1>1, <2>1, SendStep, SendPort
<1>2. CASE \E p \in Peers : \E d \in net : Receive(p, d)
  <2>1. asked' = asked
    BY <1>2 DEF Receive
  <2> QED BY <1>2, <2>1, ReceiveStep, ReceivePort
<1>3. CASE \E p \in Peers : \E d \in net : Refuse(p, d)
  <2>1. UNCHANGED vars
    BY <1>3 DEF Refuse
  <2> QED BY <1>0, <2>1, LaterPort DEF vars
<1>4. CASE \E d \in net : Damage(d)
  BY <1>4, DamagePort DEF Damage
<1>5. CASE Roam
  BY <1>0, <1>5, LaterPort DEF Roam
<1>6. CASE Tick
  <2>1. net' \subseteq net /\ setting' = setting /\ conn' = conn /\ asked' = asked /\ now' = now + 1
    BY <1>6 DEF Tick
  <2> QED BY <1>0, <2>1, LaterPort
<1>7. CASE UNCHANGED vars
  BY <1>0, <1>7, LaterPort DEF vars
<1> QED BY <1>1, <1>2, <1>3, <1>4, <1>5, <1>6, <1>7 DEF Next

\* The first free port of a range is free, and there is one if any is.
LEMMA BindFact ==
  ASSUME NEW low \in Nat, NEW high \in Int, NEW busy
  PROVE  /\ try_bind(low, high, busy) = Bad => low..high \subseteq busy
         /\ try_bind(low, high, busy) # Bad =>
              \/ try_bind(low, high, busy) \in (low..high) \ busy
              \/ low = 0 /\ try_bind(low, high, busy) = Ephemeral
<1> DEFINE free == {i \in low..high : i \notin busy}
           x == Min(free)
           port == IF x = 0 THEN Ephemeral ELSE x
<1>1. try_bind(low, high, busy) = IF free = {} THEN Bad ELSE port
  BY DEF try_bind
<1>2. CASE free = {}
  BY <1>1, <1>2
<1>3. CASE free # {}
  <2>1. free \subseteq Nat
    OBVIOUS
  <2> HIDE DEF free
  <2>2. \E i \in free : \A j \in free : i <= j
    BY <1>3, <2>1, Minimum
  <2>3. x \in free
    BY <2>2 DEF Min
  <2> HIDE DEF x
  <2>4. x \in low..high /\ x \notin busy
    BY <2>3 DEF free
  <2>5. port # Bad
    BY <2>4, ConnectionAssumption DEF Bad, Ephemeral
  <2>6. try_bind(low, high, busy) = port
    BY <1>1, <1>3
  <2>7. x = 0 => low = 0
    BY <2>4
  <2> QED BY <2>4, <2>5, <2>6, <2>7
<1> QED BY <1>2, <1>3

\* The constructor of the server's connection binds as it was asked to.
LEMMA PortInitially == Init => PortAsAsked
<1> SUFFICES ASSUME Init PROVE PortAsAsked
  OBVIOUS
<1>1. PICK r \in setting.requests, busyIP \in setting.busy, busyAny \in setting.busy :
        /\ asked = [request |-> r, busy |-> busyIP \intersect busyAny]
        /\ conn = [p \in Peers |-> Connection(p, FirstTime, IF p = Client THEN 1 ELSE bindServer(r, busyIP, busyAny))]
  BY DEF Init
<1> DEFINE port == bindServer(r, busyIP, busyAny)
           high == IF r = <<>> THEN PORT_RANGE_HIGH ELSE IF r[2] = NoHigh THEN r[1] ELSE r[2]
           low == IF r = <<>> THEN PORT_RANGE_LOW ELSE r[1]
           range == low..high
           busy == busyIP \intersect busyAny
           first == try_bind(low, high, busyIP)
           second == try_bind(low, high, busyAny)
<1>2. asked.request = r /\ asked.busy = busy
  BY <1>1
<1>3. conn[Server].socks = IF port = Bad THEN <<>> ELSE <<port>>
  <2>1. Server \in Peers /\ Server # Client
    BY ConnectionAssumption DEF Peers
  <2>2. conn[Server] = Connection(Server, FirstTime, port)
    BY <1>1, <2>1
  <2> QED BY <2>2 DEF Connection
<1>4. r = <<>> \/ r \in (-1..(CounterSpan - 1)) \X (-2..(CounterSpan - 1))
  <2>1. setting \in Settings
    BY DEF Init
  <2> QED BY <2>1, RequestAssumption
<1>5. SUFFICES IF port = Bad THEN Bad \in Range(r) \/ range = {} \/ range \subseteq busy \/ 0 \in range
               ELSE port \in range \ busy \/ (r = <<0, NoHigh>> /\ port = Ephemeral)
  <2>1. (IF r = <<>> THEN PORT_RANGE_LOW..PORT_RANGE_HIGH ELSE r[1]..(IF r[2] = NoHigh THEN r[1] ELSE r[2])) = range
    OBVIOUS
  <2>2. CASE port = Bad
    <3>1. conn[Server].socks = <<>>
      BY <1>3, <2>2
    <3> HIDE DEF range, busy, port
    <3> QED BY <1>2, <1>5, <2>1, <2>2, <3>1 DEF PortAsAsked
  <2>3. CASE port # Bad
    <3>1. conn[Server].socks = <<port>>
      BY <1>3, <2>3
    <3>2. conn[Server].socks # <<>> /\ conn[Server].socks[1] = port
      BY <3>1
    <3> HIDE DEF range, busy, port
    <3> QED BY <1>2, <1>5, <2>1, <2>3, <3>2 DEF PortAsAsked
  <2> QED BY <2>2, <2>3
<1>6. port = IF r # <<>> /\ ~parse_portrange(r[1], r[2]) THEN Bad ELSE IF first # Bad THEN first ELSE second
  BY DEF bindServer
<1>7. CASE r # <<>> /\ ~parse_portrange(r[1], r[2])
  <2>1. r[1] \in -1..(CounterSpan - 1) /\ r[2] \in -2..(CounterSpan - 1) /\ r = <<r[1], r[2]>>
    BY <1>4, <1>7
  <2>2. {r[1], r[2]} \subseteq Range(r)
    <3>1. DOMAIN r = 1..2
      BY <2>1
    <3> QED BY <3>1 DEF Range
  <2>3. CounterSpan \in Nat
    BY ConnectionAssumption
  <2>4. CASE r[1] = Bad \/ r[2] = Bad
    BY <2>2, <2>4, <1>6, <1>7
  <2>5. CASE r[1] # Bad /\ r[2] # Bad
    <3>1. r[1] \in 0..(CounterSpan - 1) /\ (r[2] = NoHigh \/ r[2] \in 0..(CounterSpan - 1))
      BY <2>1, <2>3, <2>5 DEF Bad, NoHigh
    <3>2. r[2] # NoHigh /\ (r[1] > r[2] \/ r[1] = 0)
      BY <1>7, <3>1 DEF parse_portrange, ValidPort
    <3>3. low = r[1] /\ high = r[2]
      BY <1>7, <3>2
    <3>4. range = {} \/ 0 \in range
      BY <3>1, <3>2, <3>3, <2>3
    <3> HIDE DEF range, busy
    <3> QED BY <3>4, <1>6, <1>7
  <2> QED BY <2>4, <2>5
<1>8. CASE ~(r # <<>> /\ ~parse_portrange(r[1], r[2]))
  <2>1. low \in Nat /\ high \in Int /\ (low = 0 => r = <<0, NoHigh>>)
    <3>1. CASE r = <<>>
      BY <3>1, PortAssumption
    <3>2. CASE r # <<>>
      <4>1. r[1] \in -1..(CounterSpan - 1) /\ r[2] \in -2..(CounterSpan - 1) /\ r = <<r[1], r[2]>>
        BY <1>4, <3>2
      <4>2. ValidPort(r[1]) /\ (r[2] = NoHigh \/ (ValidPort(r[2]) /\ r[1] # 0))
        BY <1>8, <3>2 DEF parse_portrange
      <4>3. r[1] \in Nat /\ r[2] \in Int
        BY <4>1, <4>2, ConnectionAssumption DEF ValidPort
      <4>4. low = r[1] /\ high \in {r[1], r[2]}
        BY <3>2
      <4>5. r[1] = 0 => r[2] = NoHigh
        BY <4>2
      <4> HIDE DEF low, high
      <4> QED BY <4>1, <4>3, <4>4, <4>5
    <3> QED BY <3>1, <3>2
  <2>2. /\ first = Bad => range \subseteq busyIP
        /\ first # Bad => first \in range \ busyIP \/ (low = 0 /\ first = Ephemeral)
        /\ second = Bad => range \subseteq busyAny
        /\ second # Bad => second \in range \ busyAny \/ (low = 0 /\ second = Ephemeral)
    <3> HIDE DEF low, high
    <3> QED BY <2>1, BindFact
  <2>3. port = IF first # Bad THEN first ELSE second
    BY <1>6, <1>8
  <2> HIDE DEF range, first, second, port, low
  <2> QED BY <2>1, <2>2, <2>3
<1> QED BY <1>7, <1>8

\* The four invariants together.
THEOREM PortInvariant == Spec => [](LinkInv /\ ClockInv /\ PortInv /\ PortAsAsked)
<1>1. Init => PortInv /\ PortAsAsked
  BY PortInitial, PortInitially
<1>2. LinkInv /\ ClockInv /\ (PortInv /\ PortAsAsked) /\ [Next]_vars => (PortInv /\ PortAsAsked)'
  <2> SUFFICES ASSUME LinkInv, ClockInv, PortInv, PortAsAsked, [Next]_vars PROVE PortInv' /\ PortAsAsked'
    OBVIOUS
  <2>1. PortInv' /\ conn'[Server].socks = conn[Server].socks /\ asked' = asked
    BY PortInductive
  <2>2. PortAsAsked'
    BY <2>1 DEF PortAsAsked
  <2> QED BY <2>1, <2>2
<1> QED BY <1>1, <1>2, ClockInvariant, PTL DEF Spec

\* Client and server find each other: the server has a port it was asked for,
\* it sends to where the newest datagram came from, and the client still has a
\* socket there, for any intervals of hopping and closing that fit together
\* (network.cc:120-148, 227-335, 385-398, 471-527).
THEOREM AddressesStayRight == Spec => []AddressesRight
<1>1. LinkInv /\ ClockInv /\ PortInv /\ PortAsAsked => AddressesRight
  <2> SUFFICES ASSUME LinkInv, ClockInv, PortInv,
                      conn[Server].remote_addr # NoAddr,
                      SERVER_ASSOCIATION_TIMEOUT + setting.life <= MAX_OLD_SOCKET_AGE,
                      now - conn[Server].last_heard <= SERVER_ASSOCIATION_TIMEOUT
               PROVE  Contains(conn[Client].socks, conn[Server].remote_addr[2])
    BY DEF AddressesRight, TargetOpen, LinkInv
  <2> DEFINE a == conn[Server].last_heard - setting.life
  <2>1. now \in Int /\ setting.life \in Nat
    BY TimeFact
  <2>2. conn[Server].last_heard \in Int /\ Followed(conn[Client], conn[Server].remote_addr[2], a, now)
    BY DEF PortInv
  <2>3. a \in Int /\ now - a <= MAX_OLD_SOCKET_AGE
    BY <2>1, <2>2, ConnectionAssumption
  <2>4. Consecutive(conn[Client])
    BY DEF PortInv
  <2> HIDE DEF a
  <2> QED BY <2>1, <2>2, <2>3, <2>4, FollowedOpen
<1> QED BY <1>1, PortInvariant, PTL
=============================================================================
