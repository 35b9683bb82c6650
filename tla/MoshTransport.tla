--------------------------- MODULE MoshTransport ---------------------------
(***************************************************************************)
(* The transport layer of mosh (src/mosh/src/network, src/mosh/src/        *)
(* statesync): how one side brings the other's copy of an object up to     *)
(* date with numbered states, differences between them, acknowledgements   *)
(* and throw-away numbers.  Everything here is a function of a peer's      *)
(* record; module MoshSession puts two peers, their event loops, the clock *)
(* and an unreliable network together.                                     *)
(*                                                                         *)
(* The client's object is a UserStream (the user's keystrokes and resizes  *)
(* that the server may still miss), the server's a Complete terminal: a    *)
(* version of its framebuffer and its echo acknowledgement.  What the      *)
(* bytes of a screen difference are is the matter of MoshDisplay: here     *)
(* a difference between screens names the two screens, and applying it     *)
(* to any other screen than its first one gives Garbage.                   *)
(***************************************************************************)
EXTENDS Integers, Sequences, SequencesExt, FiniteSetsExt, FiniteSets

CONSTANTS
  Client, Server,        \* the two peers
  SEND_INTERVAL,         \* send_interval(): time between frames
  ACK_INTERVAL,          \* time between empty acknowledgements
  ACK_DELAY,             \* delay of an acknowledgement of data
  SEND_MINDELAY,         \* time to collect changes before they are sent
  RTO,                   \* Connection::timeout()
  ACTIVE_RETRY_TIMEOUT,  \* how long to go on sending without being heard
  SHUTDOWN_RETRIES,      \* shutdown packets sent before giving up
  SentLimit, EraseBack,  \* 32 states are kept; the 16th from the end goes
  ReceivedLimit, Quench, \* 1024 states; the pause before one more is taken
  LastNum,                  \* uint64_t(-1): the number of the shutdown state
  Never,                 \* a time that does not come (uint64_t(-1))
  Garbage                \* a screen that was never the server's

ASSUME TransportAssumption ==
  /\ Client # Server
  /\ {SEND_INTERVAL, ACK_INTERVAL, ACK_DELAY, RTO, SHUTDOWN_RETRIES,
      SentLimit, ReceivedLimit} \subseteq Nat \ {0}
  /\ {SEND_MINDELAY, ACTIVE_RETRY_TIMEOUT, Quench} \subseteq Nat
  /\ EraseBack \in 3..SentLimit
  /\ {LastNum, Never} \subseteq Nat

Peers == {Client, Server}
Other(p) == IF p = Client THEN Server ELSE Client

(***************************************************************************)
(* The synchronised objects.  Extends is what their assertions demand of   *)
(* the older one: a prefix of the stream, an echo acknowledgement that is  *)
(* not newer.  An event of the user is a number, negative for a change of  *)
(* the window's size.                                                      *)
(***************************************************************************)
Extends(p, st, existing) ==
  IF p = Client THEN IsPrefix(existing, st) ELSE st.echo_ack >= existing.echo_ack

\* UserStream::subtract removes a common prefix; a terminal keeps everything.
subtract(p, st, prefix) ==
  IF p = Client THEN SubSeq(st, Len(prefix) + 1, Len(st)) ELSE st

\* diff_from: the events after the common prefix, or the way between two screens.
diff_from(p, st, existing) ==
  IF p = Client THEN SubSeq(st, Len(existing) + 1, Len(st))
  ELSE IF st = existing THEN <<>> ELSE <<existing.fb, st.fb, st.echo_ack>>

\* apply_string
apply_string(p, st, diff) ==
  IF p = Client THEN st \o diff
  ELSE [fb |-> IF st.fb = diff[1] THEN diff[2] ELSE Garbage, echo_ack |-> diff[3]]

(***************************************************************************)
(* A peer.  sent_states and received_states are sequences of timestamped,  *)
(* numbered states; their first elements are the oldest.                   *)
(***************************************************************************)
TimestampedState(ts, num, st) == [timestamp |-> ts, num |-> num, state |-> st]

Transport(p, now, initial, initial_remote) ==
  [current |-> initial,
   sent_states |-> <<TimestampedState(now, 0, initial)>>,
   next_ack_time |-> now, next_send_time |-> now, mindelay_clock |-> Never,
   shutdown_in_progress |-> FALSE, shutdown_tries |-> 0, shutdown_start |-> Never,
   ack_num |-> 0, pending_data_ack |-> FALSE, last_heard |-> 0,
   last_instruction |-> [old |-> LastNum, new |-> LastNum, ack |-> 0, diff |-> <<>>],
   received_states |-> <<TimestampedState(now, 0, initial_remote)>>,
   quench_timer |-> 0,
   has_remote_addr |-> p = Client, heard_at |-> now,
   failed |-> FALSE]

Known(t) == t.sent_states[1]
Back(t) == t.sent_states[Len(t.sent_states)]
Newest(t) == t.received_states[Len(t.received_states)]

\* The next number: the addition of 64-bit integers wraps.
Following(n) == IF n = LastNum THEN 0 ELSE n + 1

(***************************************************************************)
(* Sending                                                                 *)
(***************************************************************************)

\* update_assumed_receiver_state: the last of the states, from the second
\* on, of which none was sent too long ago.
assumed_receiver_state(t, now) ==
  LET stale == {i \in 2..Len(t.sent_states) :
                  now - t.sent_states[i].timestamp >= RTO + ACK_DELAY}
  IN  IF stale = {} THEN Len(t.sent_states) ELSE Min(stale) - 1

\* The loops that cut a common prefix off the states of a list.
subtractAll(p, list, prefix) == [i \in DOMAIN list |-> [list[i] EXCEPT !.state = subtract(p, @, prefix)]]

\* rationalize_states: cut the acknowledged prefix off every state.
rationalize_states(p, t) ==
  LET known == Known(t).state
      streams == {t.current} \union {s.state : s \in Range(t.sent_states)}
  IN  IF \E st \in streams : p = Client /\ ~Extends(p, st, known)
      THEN [t EXCEPT !.failed = TRUE]
      ELSE [t EXCEPT !.current = subtract(p, @, known),
                     !.sent_states = subtractAll(p, @, known)]

\* What calculate_timers does after the assumed state has been updated.
timers(t, now, assumed) ==
  LET ackTime == IF t.pending_data_ack THEN Min({t.next_ack_time, now + ACK_DELAY})
                                       ELSE t.next_ack_time
      fresh == t.current # Back(t).state
      delay == IF fresh /\ t.mindelay_clock = Never THEN now ELSE t.mindelay_clock
      frame == Back(t).timestamp + SEND_INTERVAL
      active == t.last_heard + ACTIVE_RETRY_TIMEOUT > now
      sendTime ==
        CASE fresh -> Max({delay + SEND_MINDELAY, frame})
          [] ~fresh /\ active /\ t.current # t.sent_states[assumed].state ->
               IF delay = Never THEN frame ELSE Max({frame, delay + SEND_MINDELAY})
          [] ~fresh /\ active /\ t.current = t.sent_states[assumed].state /\ t.current # Known(t).state ->
               Back(t).timestamp + RTO + ACK_DELAY
          [] OTHER -> Never
  IN  [t EXCEPT !.mindelay_clock = delay,
                !.next_send_time = sendTime,
                !.next_ack_time = IF t.shutdown_in_progress \/ t.ack_num = LastNum THEN frame ELSE ackTime]

calculate_timers(p, t, now) ==
  LET r == rationalize_states(p, t)
  IN  timers(r, now, assumed_receiver_state(r, now))

\* add_sent_state: beyond the limit one state goes from the middle of the queue.
add_sent_state(t, now, num) ==
  LET longer == Append(t.sent_states, TimestampedState(now, num, t.current))
  IN  IF Len(longer) > SentLimit THEN RemoveAt(longer, Len(longer) - EraseBack + 1) ELSE longer

\* send_in_fragments and the assertion of Fragmenter::make_fragments: what
\* leads from one number to another is always the same difference.
\* Connection::send gives up on a client not heard of for too long (the
\* server's side of that is in MoshSession!detach).
send_in_fragments(t, old, num, diff) ==
  LET inst == [old |-> old, new |-> num, ack |-> t.ack_num, throwaway |-> Known(t).num, diff |-> diff]
      last == t.last_instruction
      bad == old = last.old /\ num = last.new /\ diff # last.diff
  IN  [peer |-> [t EXCEPT !.pending_data_ack = FALSE,
                          !.shutdown_tries = IF num = LastNum THEN @ + 1 ELSE @,
                          !.last_instruction = [old |-> old, new |-> num, ack |-> t.ack_num, diff |-> diff],
                          !.failed = @ \/ bad],
       sent |-> {inst}]

\* send_empty_ack: an empty acknowledgement is a state of its own.
send_empty_ack(t, now, old) ==
  LET num == IF t.shutdown_in_progress THEN LastNum ELSE Following(Back(t).num)
      added == [t EXCEPT !.sent_states = add_sent_state(t, now, num),
                         !.next_ack_time = now + ACK_INTERVAL, !.next_send_time = Never,
                         !.mindelay_clock = Never]
  IN  send_in_fragments(added, old, num, <<>>)

\* send_to_receiver
send_to_receiver(t, now, old, diff) ==
  LET same == IF t.current = Back(t).state THEN Back(t).num ELSE Following(Back(t).num)
      num == IF t.shutdown_in_progress THEN LastNum ELSE same
      states == IF num = Back(t).num
                THEN [t.sent_states EXCEPT ![Len(t.sent_states)].timestamp = now]
                ELSE add_sent_state(t, now, num)
      added == [t EXCEPT !.sent_states = states,
                         !.next_ack_time = now + ACK_INTERVAL, !.next_send_time = Never,
                         !.mindelay_clock = Never]
  IN  send_in_fragments(added, old, num, diff)

\* attempt_prospective_resend_optimization: start from the acknowledged state
\* when that difference is not longer, or only a little (prophylactic).  The
\* sizes of two screen differences do not follow from anything modelled here.
resends(p, assumed, diff, resend_diff, prophylactic) ==
  /\ assumed # 1
  /\ \/ prophylactic
     \/ resend_diff \in {<<>>, diff}
     \/ p = Client /\ Len(resend_diff) <= Len(diff)

\* The part of tick that sends: the difference, or an empty acknowledgement.
send(p, t, now, prophylactic) ==
  LET assumed == assumed_receiver_state(t, now)
      proposed == diff_from(p, t.current, t.sent_states[assumed].state)
      whole == diff_from(p, t.current, Known(t).state)
      again == resends(p, assumed, proposed, whole, prophylactic)
      diff == IF again THEN whole ELSE proposed
      old == IF again THEN Known(t).num ELSE t.sent_states[assumed].num
      ackDue == now >= t.next_ack_time
      sound == Extends(p, t.current, t.sent_states[assumed].state) /\ Extends(p, t.current, Known(t).state)
  IN  CASE ~sound -> [peer |-> [t EXCEPT !.failed = TRUE], sent |-> {}]
        [] sound /\ diff = <<>> /\ ackDue -> send_empty_ack(t, now, old)
        [] sound /\ diff = <<>> /\ ~ackDue ->
             [peer |-> [t EXCEPT !.next_send_time = Never, !.mindelay_clock = Never], sent |-> {}]
        [] sound /\ diff # <<>> -> send_to_receiver(t, now, old, diff)

\* TransportSender::tick: the peer after it and the instructions it sent.
tick(p, before, now, prophylactic) ==
  LET t == calculate_timers(p, before, now)
      due == now >= t.next_ack_time \/ now >= t.next_send_time
  IN  IF t.has_remote_addr /\ due /\ ~t.failed THEN send(p, t, now, prophylactic)
      ELSE [peer |-> t, sent |-> {}]

\* start_shutdown
start_shutdown(t, now) ==
  IF t.shutdown_in_progress THEN t
  ELSE [t EXCEPT !.shutdown_in_progress = TRUE, !.shutdown_start = now]

\* A mutant: any acknowledgement after the start of the shutdown will do.
shutdown_acknowledgedEarly(t) == t.shutdown_in_progress /\ t.shutdown_tries > 0 /\ Known(t).num > 0

shutdown_acknowledged(t) == t.shutdown_in_progress /\ Known(t).num = LastNum

shutdown_ack_timed_out(t, now) ==
  /\ t.shutdown_in_progress
  /\ \/ t.shutdown_tries >= SHUTDOWN_RETRIES
     \/ now - t.shutdown_start >= ACTIVE_RETRY_TIMEOUT

counterparty_shutdown_ack_sent(t) == t.last_instruction.ack = LastNum

(***************************************************************************)
(* Receiving                                                               *)
(***************************************************************************)

\* What is left of a list when every element with a smaller number is erased.
From(list, num) ==
  LET kept == {i \in DOMAIN list : list[i].num >= num}
      place(k) == CHOOSE i \in kept : Cardinality({j \in kept : j <= i}) = k
  IN  IF kept = DOMAIN list THEN list ELSE [k \in 1..Cardinality(kept) |-> list[place(k)]]

\* process_acknowledgment_through: an acknowledgement of a state that was
\* culled is ignored.
process_acknowledgment_through(t, ack) ==
  IF \E i \in DOMAIN t.sent_states : t.sent_states[i].num = ack
  THEN [t EXCEPT !.sent_states = From(@, ack)]
  ELSE t

\* A mutant: everything up to the number goes, the number included.
process_throwaway_untilAll(t, num) ==
  [t EXCEPT !.received_states = From(@, num + 1)]

\* process_throwaway_until
process_throwaway_until(t, num) ==
  [t EXCEPT !.received_states = From(@, num)]

\* The new state goes in front of the first one with a larger number.
insertAt(states, num) ==
  LET larger == {i \in DOMAIN states : states[i].num > num}
  IN  IF larger = {} THEN Len(states) + 1 ELSE Min(larger)

\* A mutant: a state that arrives out of order is acknowledged too, as the newest.
acceptStateAnyOrder(p, t, inst, now) ==
  LET ref == CHOOSE s \in Range(t.received_states) : s.num = inst.old
      kept == process_throwaway_until(t, inst.throwaway)
      st == IF inst.diff = <<>> THEN ref.state ELSE apply_string(Other(p), ref.state, inst.diff)
  IN  [kept EXCEPT !.received_states = Append(@, TimestampedState(now, inst.new, st)),
                   !.ack_num = inst.new, !.last_heard = now,
                   !.pending_data_ack = @ \/ inst.diff # <<>>]

\* What recv does with an instruction whose new state is not known and whose
\* old state is: discard, apply, insert, and remember to acknowledge.
acceptState(p, t, inst, now) ==
  LET ref == CHOOSE s \in Range(t.received_states) : s.num = inst.old
      kept == process_throwaway_until(t, inst.throwaway)
      full == Len(kept.received_states) > ReceivedLimit
      st == IF inst.diff = <<>> THEN ref.state ELSE apply_string(Other(p), ref.state, inst.diff)
      at == insertAt(kept.received_states, inst.new)
      inserted == [kept EXCEPT !.received_states =
                                 InsertAt(@, at, TimestampedState(now, inst.new, st)),
                               !.quench_timer = IF full THEN now + Quench ELSE @]
  IN  CASE inst.old < inst.throwaway -> [kept EXCEPT !.failed = TRUE]  \* the reference is gone
        [] inst.old >= inst.throwaway /\ full /\ now < kept.quench_timer -> kept
        [] OTHER ->
             IF at <= Len(kept.received_states) THEN inserted
             ELSE [inserted EXCEPT !.ack_num = inst.new, !.last_heard = now,
                                   !.pending_data_ack = @ \/ inst.diff # <<>>]

\* Transport::recv, and the part of Connection::recv_one that attaches the
\* server to its client: an older datagram than the last one does not.
recv(p, before, inst, now, old_datagram) ==
  LET heard == IF old_datagram THEN before
               ELSE [before EXCEPT !.has_remote_addr = TRUE, !.heard_at = now]
      t == process_acknowledgment_through(heard, inst.ack)
      nums == {s.num : s \in Range(t.received_states)}
  IN  IF inst.new \in nums \/ inst.old \notin nums THEN t
      ELSE acceptState(p, t, inst, now)

\* get_remote_diff: what is new since the last call, after which the common
\* prefix goes.  The last state handed out is the newest one, cut as well.
get_remote_diff(p, t, last_receiver_state) ==
  LET q == Other(p)
      oldest == t.received_states[1].state
      newest == Newest(t).state
      sound == Extends(q, newest, last_receiver_state)
               /\ \A r \in Range(t.received_states) : q = Client => Extends(q, r.state, oldest)
  IN  IF sound
      THEN [diff |-> diff_from(q, newest, last_receiver_state),
            peer |-> [t EXCEPT !.received_states = subtractAll(q, @, oldest)],
            last |-> subtract(q, newest, oldest)]
      ELSE [diff |-> <<>>, peer |-> [t EXCEPT !.failed = TRUE], last |-> last_receiver_state]

=============================================================================
