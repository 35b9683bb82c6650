--------------------------- MODULE MoshConnection ---------------------------
(***************************************************************************)
(* The datagram layer of mosh (src/mosh/src/network/network.cc,            *)
(* transportfragment.cc and src/mosh/src/crypto/crypto.cc): instructions   *)
(* are cut into fragments, every fragment travels in a datagram of its own *)
(* under a nonce of its own, and the receiver puts them together again.    *)
(* Datagrams are lost, repeated, delayed, reordered and damaged; the       *)
(* client changes its address (roams) and its port (hops); the server      *)
(* follows the newest datagram it has authenticated.                       *)
(*                                                                         *)
(* An instruction is its number, the number it acknowledges and the size   *)
(* of its compressed text; a fragment carries a range of that text.  The   *)
(* cipher is abstract: a datagram is intact or it is not.  Times and       *)
(* counters are small; the constants keep the order of the real ones.      *)
(***************************************************************************)
EXTENDS Integers, Sequences, SequencesExt, FiniteSetsExt

CONSTANTS
  Client, Server,
  Settings,                    \* bounds of an instance, see Setting below
  Wrap,                        \* 65536: timestamps are 16 bits wide
  FirstTime,                   \* the clock when the session starts
  HoldLimit,                   \* 1000: a timestamp older than this is not returned
  RTTLimit,                    \* 5000: a longer round trip is not a sample
  PENALTY,                     \* CONGESTION_TIMESTAMP_PENALTY
  SERVER_ASSOCIATION_TIMEOUT, PORT_HOP_INTERVAL,
  MAX_PORTS_OPEN, MAX_OLD_SOCKET_AGE,
  CounterSpan, SeqSpan,        \* 2^64 numbers, of which a nonce holds 2^63
  BlockLimit,                  \* 2^47 blocks under one key
  FragmentLimit,               \* 0x8000 fragments
  DEFAULT_MTU, FALLBACK_MTU,   \* set_MTU, DEFAULT_SEND_MTU
  PORT_RANGE_LOW, PORT_RANGE_HIGH

ASSUME ConnectionAssumption ==
  /\ Client # Server
  /\ {Wrap, HoldLimit, RTTLimit, PENALTY, SERVER_ASSOCIATION_TIMEOUT, PORT_HOP_INTERVAL,
      MAX_PORTS_OPEN, MAX_OLD_SOCKET_AGE, CounterSpan, SeqSpan, BlockLimit, FragmentLimit,
      DEFAULT_MTU, FALLBACK_MTU} \subseteq Nat \ {0}
  /\ FirstTime \in Nat /\ FirstTime >= HoldLimit  \* the machine is up for more than a second
  /\ RTTLimit + HoldLimit <= Wrap
  /\ BlockLimit < SeqSpan /\ SeqSpan < CounterSpan /\ FragmentLimit < CounterSpan
  /\ FALLBACK_MTU < DEFAULT_MTU

\* 9 hops of 10 s take longer than the 60 s an old socket lives.
ASSUME PortAssumption ==
  /\ PORT_RANGE_LOW \in Nat \ {0} /\ PORT_RANGE_HIGH \in Nat
  /\ MAX_OLD_SOCKET_AGE < (MAX_PORTS_OPEN - 1) * (PORT_HOP_INTERVAL + 1)

\* Compressed text is never empty and fits the fragments there may be; no
\* datagram travels for half the span of the timestamps.
ASSUME SettingsAssumption ==
  \A s \in Settings :
    /\ s.sizes \subseteq 1..(FragmentLimit * FALLBACK_MTU)
    /\ s.until \in Nat /\ s.until >= FirstTime
    /\ s.life \in Nat /\ 2 * s.life + PENALTY + 1 < Wrap

\* The server is asked for any port, for one, or for a range (-1: no number,
\* -2: no upper end).
ASSUME RequestAssumption ==
  \A s \in Settings : \A r \in s.requests : r = <<>> \/ r \in (-1..(CounterSpan - 1)) \X (-2..(CounterSpan - 1))

VARIABLES
  setting,    \* the chosen bounds: never changes
  now,        \* timestamp()
  conn,       \* the two Connection objects with their Fragmenter and Session
  asm,        \* their FragmentAssembly objects
  net,        \* every datagram that may still arrive (again)
  ip,         \* the client's current network address
  asked,      \* what the server was asked to bind to, and the ports in use
  out,        \* number of the newest instruction of each side, and when it was sent
  got         \* the last instruction each side has assembled, if any

vars == <<setting, asked, now, conn, asm, net, ip, out, got>>

Peers == {Client, Server}
Other(p) == IF p = Client THEN Server ELSE Client
Last1(s) == s[Len(s)]

(***************************************************************************)
(* Fragments                                                               *)
(***************************************************************************)
NoId == -1
Missing == [id |-> NoId, num |-> 0, final |-> FALSE, inst |-> <<>>, from |-> 0, len |-> 0]

FragmentAssembly == [fragments |-> <<>>, current_id |-> NoId, arrived |-> 0, total |-> -1, failed |-> FALSE]

\* fragments.resize: longer with default fragments, or shorter.
resize(s, n) == [i \in 1..n |-> IF i <= Len(s) THEN s[i] ELSE Missing]

\* A mutant: what is left of another instruction stays in the list.
add_fragmentKeep(a, f) ==
  LET known == f.num + 1 <= Len(a.fragments) /\ a.fragments[f.num + 1] # Missing
      longer == resize(a.fragments, Max({Len(a.fragments), f.num + 1}))
      added == IF known THEN a
               ELSE [a EXCEPT !.fragments = [longer EXCEPT ![f.num + 1] = f], !.arrived = @ + 1, !.current_id = f.id]
  IN  IF f.final
      THEN [added EXCEPT !.total = f.num + 1, !.fragments = resize(added.fragments, f.num + 1)]
      ELSE added

\* FragmentAssembly::add_fragment; a failed assertion sets failed.
add_fragment(a, f) ==
  LET new == a.current_id # f.id
      base == IF new THEN [a EXCEPT !.fragments = <<>>, !.arrived = 0, !.total = -1, !.current_id = f.id] ELSE a
      known == f.num + 1 <= Len(base.fragments) /\ base.fragments[f.num + 1] # Missing
      differs == known /\ base.fragments[f.num + 1] # f
      longer == resize(base.fragments, Max({Len(base.fragments), f.num + 1}))
      added == IF known THEN base
               ELSE [base EXCEPT !.fragments = [longer EXCEPT ![f.num + 1] = f], !.arrived = @ + 1]
      tooLong == f.final /\ Len(added.fragments) > f.num + 1
      whole == IF ~f.final THEN added
               ELSE [added EXCEPT !.total = f.num + 1, !.fragments = resize(@, f.num + 1)]
      tooMany == whole.total # -1 /\ whole.arrived > whole.total
  IN  [whole EXCEPT !.failed = @ \/ differs \/ tooLong \/ tooMany]

complete(a) == a.arrived = a.total

\* FragmentAssembly::get_assembly: the texts in a row; current_id stays.
Assembly(a) == [i \in 1..a.total |-> a.fragments[i]]
get_assembly(a) ==
  [a EXCEPT !.fragments = <<>>, !.arrived = 0, !.total = -1,
            !.failed = @ \/ (\E i \in 1..a.total : a.fragments[i] = Missing)]

\* What ParseFromString and uncompress_str need: the whole text of one
\* instruction, in order.  NotParsed is the fatal_assert.
NotParsed == [num |-> -1, acked |-> 0, size |-> 0]
parse(fs) ==
  LET inst == fs[1].inst
      ends == [i \in DOMAIN fs |-> fs[i].from + fs[i].len]
      sound == /\ \A i \in DOMAIN fs : fs[i].inst = inst
               /\ fs[1].from = 0 /\ ends[Len(fs)] = inst.size
               /\ \A i \in DOMAIN fs \ {1} : fs[i].from = ends[i - 1]
  IN  IF sound THEN inst ELSE NotParsed

\* Fragmenter::make_fragments: the id changes with the instruction or the MTU.
next_id(c, inst) ==
  IF inst # c.last_instruction \/ c.last_MTU # c.MTU THEN c.next_instruction_id + 1 ELSE c.next_instruction_id

make_fragments(c, inst) ==
  LET count == (inst.size + c.MTU - 1) \div c.MTU
  IN  [i \in 1..count |->
        [id |-> next_id(c, inst), num |-> i - 1, final |-> i = count, inst |-> inst,
         from |-> (i - 1) * c.MTU, len |-> Min({c.MTU, inst.size - (i - 1) * c.MTU})]]

(***************************************************************************)
(* Timestamps of 16 bits; the largest number means that there is none.     *)
(***************************************************************************)
NoTimestamp == Wrap - 1

\* timestamp16 and timestamp_diff
timestamp16(t) == IF t % Wrap = NoTimestamp THEN 0 ELSE t % Wrap
timestamp_diff(tsnew, tsold) == (tsnew - tsold) % Wrap

(***************************************************************************)
(* The server's port: the first free one of the range it was asked for, on *)
(* the address it was asked for or else on any.  A request is absent or a  *)
(* pair of parsed numbers; Bad is one that is not a number, NoHigh a       *)
(* missing upper end.                                                      *)
(***************************************************************************)
Bad == -1
NoHigh == -2
ValidPort(v) == v \in 0..(CounterSpan - 1)

parse_portrange(low, high) ==
  /\ ValidPort(low)
  /\ high = NoHigh \/ (ValidPort(high) /\ low <= high /\ low # 0)

\* Ports the operating system gives for a bind to port 0.
Ephemeral == CounterSpan

\* try_bind: one socket, tried on every port of the range in turn.
try_bind(low, high, busy) ==
  LET free == {i \in low..high : i \notin busy}
  IN  IF free = {} THEN Bad ELSE IF Min(free) = 0 THEN Ephemeral ELSE Min(free)

\* The constructor of the server's Connection: the port, or Bad.
bindServer(request, busyIP, busyAny) ==
  LET default == request = <<>>
      high == IF default THEN PORT_RANGE_HIGH ELSE IF request[2] = NoHigh THEN request[1] ELSE request[2]
      low == IF default THEN PORT_RANGE_LOW ELSE request[1]
      first == try_bind(low, high, busyIP)
  IN  IF ~default /\ ~parse_portrange(request[1], request[2]) THEN Bad
      ELSE IF first # Bad THEN first ELSE try_bind(low, high, busyAny)

(***************************************************************************)
(* Connection.  Sockets are named by their local port; the last one sends. *)
(***************************************************************************)
NoAddr == <<>>

Connection(p, t, port) ==
  [socks |-> IF port = Bad THEN <<>> ELSE <<port>>,
   has_remote_addr |-> p = Client, remote_addr |-> NoAddr,
   MTU |-> DEFAULT_MTU, counter |-> 0, blocks |-> 0,
   saved_timestamp |-> NoTimestamp, saved_at |-> 0, saved_true |-> 0,
   expected_receiver_seq |-> 0, last_heard |-> -1, last_port_choice |-> t, last_roundtrip_success |-> -1, acked |-> 0,
   sample |-> -1, true_sample |-> -1,
   next_instruction_id |-> 0, last_instruction |-> NotParsed, last_MTU |-> -1,
   failed |-> FALSE, dead |-> port = Bad]

\* A mutant: the old sockets go as soon as there is a new one.
prune_socketsAtOnce(c, t) == [c EXCEPT !.socks = <<@[Len(@)]>>]

\* prune_sockets
prune_sockets(c, t) ==
  LET n == Len(c.socks)
      young == IF n > 1 /\ t - c.last_port_choice > MAX_OLD_SOCKET_AGE THEN <<c.socks[n]>> ELSE c.socks
      m == Len(young)
  IN  [c EXCEPT !.socks = IF m > MAX_PORTS_OPEN THEN SubSeq(young, m - MAX_PORTS_OPEN + 1, m) ELSE young]

\* setup: the moment of the last choice of a port.
setup(c, t) == [c EXCEPT !.last_port_choice = t]

\* Socket: the operating system binds it to a port that was not used before.
addSocket(c) == [c EXCEPT !.socks = Append(@, Last1(@) + 1)]

\* hop_port
hop_port(c, t) == prune_sockets(addSocket(setup(c, t)), t)

\* A mutant: the counter is the only limit.
encryptUnlimited(c, len) ==
  [c EXCEPT !.blocks = @ + len, !.counter = @ + 1, !.dead = (c.counter + 1) % CounterSpan = 0]

\* Crypto::unique: a number of its own for every datagram; none is left when
\* the counter wraps.
unique(c) == [c EXCEPT !.counter = (@ + 1) % CounterSpan, !.dead = (c.counter + 1) % CounterSpan = 0]

\* Session::encrypt: the session ends before the key is worn out.
encrypt(c, len) ==
  [unique(c) EXCEPT !.blocks = @ + len, !.dead = @ \/ c.blocks + len >= BlockLimit]

\* Session::decrypt and the test of the direction in recv_one.
decrypts(p, d) == d.intact /\ d.dir = Other(p)

\* A mutant: the timestamp comes back as it was received.
replyUncorrected(c, t) == IF t - c.saved_at < HoldLimit THEN c.saved_timestamp ELSE NoTimestamp

\* new_packet: the newest timestamp of the peer, advanced by the time it was held.
reply(c, t) ==
  IF t - c.saved_at < HoldLimit THEN (c.saved_timestamp + (t - c.saved_at)) % Wrap ELSE NoTimestamp

\* toMessage: the nonce is the direction and as much of the number as fits.
nonceSeq(c) == c.counter % SeqSpan

new_packet(c, p, t, f) ==
  [dir |-> p, seq |-> nonceSeq(c), timestamp |-> timestamp16(t), reply |-> reply(c, t), payload |-> f,
   src |-> IF p = Client THEN <<ip, Last1(c.socks)>> ELSE NoAddr, dst |-> c.remote_addr,
   at |-> t, reply_at |-> c.saved_true + (t - c.saved_at), intact |-> TRUE]

\* Connection::send of one fragment.  x carries the connection and what was
\* sent; sendto refuses a fragment that the path does not take.
send(x, p, t, f, pathMTU) ==
  LET c == x.c
      d == new_packet(c, p, t, f)
      returned == t - c.saved_at < HoldLimit
      held == [c EXCEPT !.saved_timestamp = IF returned THEN NoTimestamp ELSE @,
                        !.saved_at = IF returned THEN 0 ELSE @, !.saved_true = IF returned THEN 0 ELSE @]
      e == encrypt(held, f.len)
      tooBig == f.len > pathMTU
      s == [e EXCEPT !.MTU = IF tooBig THEN FALLBACK_MTU ELSE @]
      detach == p = Server /\ t - c.last_heard > SERVER_ASSOCIATION_TIMEOUT
      hop == /\ p = Client /\ t - c.last_port_choice > PORT_HOP_INTERVAL
             /\ t - c.last_roundtrip_success > PORT_HOP_INTERVAL
  IN  IF ~c.has_remote_addr \/ c.dead THEN x
      ELSE IF e.dead THEN [x EXCEPT !.c = e]
      ELSE [c |-> IF hop THEN hop_port(s, t) ELSE [s EXCEPT !.has_remote_addr = ~detach],
            sent |-> IF tooBig THEN x.sent ELSE x.sent \union {d}]

\* TransportSender::send_in_fragments: one datagram for each fragment.
send_in_fragments(c, p, t, inst, pathMTU) ==
  LET fs == make_fragments(c, inst)
      made == [c EXCEPT !.next_instruction_id = next_id(c, inst), !.last_instruction = inst, !.last_MTU = c.MTU,
                        !.failed = @ \/ Len(fs) > FragmentLimit]
      done[k \in 0..Len(fs)] == IF k = 0 THEN [c |-> made, sent |-> {}] ELSE send(done[k - 1], p, t, fs[k], pathMTU)
  IN  done[Len(fs)]

\* recv_one: what is not the newest is only passed on, what is authentic and
\* new updates the timestamps, the round-trip sample and the target.
recv_one(c, p, d, t, ce) ==
  LET R == timestamp_diff(timestamp16(t), d.reply)
      saves == d.timestamp # NoTimestamp
      measured == d.reply # NoTimestamp /\ R < RTTLimit
      late == IF ce THEN PENALTY ELSE 0
  IN  IF d.seq < c.expected_receiver_seq THEN c
      ELSE [c EXCEPT !.expected_receiver_seq = d.seq + 1,
                     !.saved_timestamp = IF saves THEN (d.timestamp - late) % Wrap ELSE @,
                     !.saved_at = IF saves THEN t ELSE @,
                     !.saved_true = IF saves THEN d.at - late ELSE @,
                     !.sample = IF measured THEN R ELSE @,
                     !.true_sample = IF measured THEN t - d.reply_at ELSE @,
                     !.has_remote_addr = TRUE, !.last_heard = t,
                     !.remote_addr = IF p = Server THEN d.src ELSE @]

(***************************************************************************)
(* The instance: what a run bounds.                                        *)
(*   msgs, sends   instructions of each side, and times they are sent      *)
(*   sizes         sizes an instruction may have                           *)
(*   until         the last moment of the clock                            *)
(*   life          how long a datagram may stay in the network             *)
(*   faults        what may happen: roam, damage, reflect, congest, small  *)
(*                 (a path that takes no long datagram), deaf (all is      *)
(*                 lost)                                                   *)
(*   paced         the client sends at every moment (it does so at least   *)
(*                 every ACK_INTERVAL)                                     *)
(*   requests, busy  what the server is asked to bind to, taken ports      *)
(***************************************************************************)
Init ==
  /\ setting \in Settings
  /\ now = FirstTime
  /\ \E request \in setting.requests, busyIP \in setting.busy, busyAny \in setting.busy :
       LET port == bindServer(request, busyIP, busyAny)
       IN  asked = [request |-> request, busy |-> busyIP \intersect busyAny] /\
           conn = [p \in Peers |-> Connection(p, FirstTime, IF p = Client THEN 1 ELSE port)]
  /\ asm = [p \in Peers |-> FragmentAssembly]
  /\ net = {}
  /\ ip = 0
  /\ out = [p \in Peers |-> [num |-> 0, at |-> FirstTime, sends |-> 0, inst |-> NotParsed, acked |-> 0,
                             stamps |-> <<>>]]
  /\ got = [p \in Peers |-> {}]

Running == ~conn[Server].dead /\ ~conn[Client].dead

\* The sender's part: a new instruction, or the last one again, as
\* TransportSender::tick has it.  Its number and its acknowledgement are
\* those of MoshTransport.
Send(p) ==
  LET o == out[p]
  IN  /\ Running /\ conn[p].has_remote_addr
      /\ o.sends < setting.sends[p]
      /\ setting.paced => (p = Client => o.at # now \/ o.num = 0) /\ (p = Server => \A d \in net : d.dir = p => d.at # now)
      /\ \E again \in BOOLEAN, size \in setting.sizes,
            pathMTU \in IF "small" \in setting.faults THEN {FALLBACK_MTU, DEFAULT_MTU} ELSE {DEFAULT_MTU} :
           LET inst == IF again THEN o.inst ELSE [num |-> o.num + 1, acked |-> o.acked, size |-> size]
               r == send_in_fragments(conn[p], p, now, inst, pathMTU)
           IN  /\ again => o.num > 0 /\ ~setting.paced
               /\ inst.num <= setting.msgs
               /\ conn' = [conn EXCEPT ![p] = r.c]
               /\ net' = net \union r.sent
               /\ out' = [out EXCEPT ![p].num = inst.num, ![p].at = now, ![p].sends = @ + 1, ![p].inst = inst,
                                     ![p].stamps = IF again THEN [@ EXCEPT ![inst.num] = now] ELSE Append(@, now)]
  /\ UNCHANGED <<setting, asked, now, asm, ip, got>>

\* The datagram gets to an open socket of p.
Reaches(d, p) ==
  p = Client => d.dst # NoAddr /\ d.dst[1] = ip /\ Contains(conn[Client].socks, d.dst[2])

\* get_sent_state_acked_timestamp: when the newest acknowledged state was sent.
stampAcked(p, num) ==
  LET known == Max({conn[p].acked, num})
  IN  IF known = 0 THEN FirstTime ELSE out[p].stamps[known]

\* Connection::recv and Transport::recv: the datagram is authentic and of the
\* right direction, its fragment joins the others, and a whole instruction is
\* processed: its acknowledgement tells when a round trip succeeded.
Receive(p, d) ==
  /\ Running /\ decrypts(p, d) /\ Reaches(d, p) /\ "deaf" \notin setting.faults
  /\ \E ce \in IF "congest" \in setting.faults THEN BOOLEAN ELSE {FALSE} :
       LET c == prune_sockets(recv_one(conn[p], p, d, now, ce), now)
           a == add_fragment(asm[p], d.payload)
           inst == parse(Assembly(a))
       IN  IF complete(a)
           THEN /\ asm' = [asm EXCEPT ![p] = get_assembly(a)]
                /\ got' = [got EXCEPT ![p] = {inst}]
                /\ out' = [out EXCEPT ![p].acked = Max({@, inst.num})]
                /\ conn' = [conn EXCEPT ![p] = [c EXCEPT !.last_roundtrip_success = stampAcked(p, inst.acked),
                                                         !.acked = Max({@, inst.acked})]]
           ELSE /\ asm' = [asm EXCEPT ![p] = a]
                /\ conn' = [conn EXCEPT ![p] = c]
                /\ UNCHANGED <<got, out>>
  /\ UNCHANGED <<setting, asked, now, net, ip>>

\* decrypt or the test of the direction throws: the datagram changes nothing.
Refuse(p, d) ==
  /\ Running
  /\ ~decrypts(p, d) /\ (d.dir = p => "reflect" \in setting.faults)
  /\ UNCHANGED vars

\* The network damages a datagram.
Damage(d) ==
  /\ "damage" \in setting.faults /\ d.intact
  /\ net' = (net \ {d}) \union {[d EXCEPT !.intact = FALSE]}
  /\ UNCHANGED <<setting, asked, now, conn, asm, ip, out, got>>

\* The client's machine moves to another network.
Roam ==
  /\ "roam" \in setting.faults /\ ip < 2
  /\ ip' = ip + 1
  /\ UNCHANGED <<setting, asked, now, conn, asm, net, out, got>>

Tick ==
  /\ now < setting.until /\ Running
  /\ setting.paced => out[Client].num > 0 /\ out[Client].at = now
  /\ now' = now + 1
  /\ net' = {d \in net : now + 1 - d.at <= setting.life}
  /\ UNCHANGED <<setting, asked, conn, asm, ip, out, got>>

Next ==
  \/ \E p \in Peers : Send(p)
  \/ \E p \in Peers : \E d \in net : Receive(p, d)
  \/ \E p \in Peers : \E d \in net : Refuse(p, d)
  \/ \E d \in net : Damage(d)
  \/ Roam
  \/ Tick

Spec == Init /\ [][Next]_vars

(***************************************************************************)
(* Properties                                                              *)
(***************************************************************************)

Num == -1..CounterSpan

\* The objects have the shapes of their classes; a sequence number never
\* exceeds what a nonce holds.
TypeOK ==
  /\ now \in FirstTime..setting.until
  /\ \A p \in Peers :
       /\ conn[p].MTU \in {DEFAULT_MTU, FALLBACK_MTU}
       /\ conn[p].saved_timestamp \in 0..(Wrap - 1)
       /\ conn[p].counter \in 0..(CounterSpan - 1)
       /\ conn[p].expected_receiver_seq \in 0..SeqSpan
       /\ Len(conn[p].socks) <= MAX_PORTS_OPEN
       /\ asm[p].arrived \in Nat /\ asm[p].total \in Num
  /\ \A d \in net : d.dir \in Peers /\ d.timestamp \in 0..(Wrap - 2) /\ d.reply \in 0..(Wrap - 1)

\* However datagrams of several instructions are mixed, repeated and lost, no
\* assertion of add_fragment, get_assembly and tostring fails
\* (transportfragment.cc:60-64, 106-133).
NoAssertionFails == \A p \in Peers : ~conn[p].failed /\ ~asm[p].failed

\* Whatever arrives, in whatever order, an assembled instruction is one that
\* the other side sent, whole (transportfragment.cc:129-148; the identity of
\* next_instruction_id, 159-165, is what keeps two cuts of the same text apart).
AssembledWasSent ==
  \A p \in Peers : \A inst \in got[p] :
    /\ inst # NotParsed
    /\ inst.num <= out[Other(p)].num /\ inst.size \in setting.sizes

\* No two datagrams of one direction carry the same nonce: the session ends
\* before the 63 bits in toMessage wrap (crypto.cc:64-72, 217-237,
\* network.cc:88).
NonceNeverRepeats ==
  \A d, e \in net : d.dir = e.dir /\ d.seq = e.seq => d.payload = e.payload /\ d.at = e.at

\* The server sends to where its newest authentic datagram came from: one
\* that was overtaken never moves it back (network.cc:471-476, 522-527).
TargetIsNewest ==
  \A d \in net :
    d.dir = Client /\ d.intact /\ d.seq + 1 = conn[Server].expected_receiver_seq =>
      conn[Server].remote_addr = d.src

\* As long as the server is associated with a client that did not roam, the
\* port it sends to is still open there: sockets are closed late enough, if
\* no datagram travels longer than the old sockets outlive the association
\* (network.cc:128-148, 385-398).
TargetOpen ==
  (/\ conn[Server].has_remote_addr /\ conn[Server].remote_addr # NoAddr
   /\ SERVER_ASSOCIATION_TIMEOUT + setting.life <= MAX_OLD_SOCKET_AGE
   /\ now - conn[Server].last_heard <= SERVER_ASSOCIATION_TIMEOUT)
  => Contains(conn[Client].socks, conn[Server].remote_addr[2])

\* An accepted round-trip sample is the time since the timestamp was taken less
\* the time it was held, to one tick, also when the 16 bits wrap and when a
\* value that means none is skipped (network.cc:98-115, 480-520, 570-590).
SampleHonest ==
  \A p \in Peers : conn[p].sample # -1 => conn[p].sample - conn[p].true_sample \in {-1, 0, 1}

\* The server gets a port of the range it was asked for, and fails only when
\* the request is malformed or no port of the range is free
\* (network.cc:227-335, 624-673).
PortAsAsked ==
  LET r == asked.request
      range == IF r = <<>> THEN PORT_RANGE_LOW..PORT_RANGE_HIGH ELSE r[1]..(IF r[2] = NoHigh THEN r[1] ELSE r[2])
  IN  IF conn[Server].socks = <<>> THEN Bad \in Range(r) \/ range = {} \/ range \subseteq asked.busy \/ 0 \in range
      ELSE \/ conn[Server].socks[1] \in range \ asked.busy
           \/ r = <<0, NoHigh>> /\ conn[Server].socks[1] = Ephemeral

\* Instructions are cut and put together without a failed assertion, and come
\* out as they went in.
FragmentsWhole == TypeOK /\ NoAssertionFails /\ AssembledWasSent

\* Client and server find each other: the port asked for, the newest address,
\* and a socket that is still open there.
AddressesRight == PortAsAsked /\ TargetIsNewest /\ TargetOpen
=============================================================================
