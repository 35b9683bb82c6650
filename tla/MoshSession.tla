---------------------------- MODULE MoshSession ----------------------------
(***************************************************************************)
(* A mosh session: the event loops of mosh-client (STMClient::main) and    *)
(* mosh-server (serve), each turn of which is one action, over the         *)
(* transport of MoshTransport, a clock, and a network that may lose,       *)
(* repeat, delay and reorder what is sent: a datagram once sent can be     *)
(* received at any later time, any number of times, or never.              *)
(***************************************************************************)
EXTENDS MoshTransport

CONSTANTS
  ECHO_TIMEOUT,               \* late acknowledgement of input
  SERVER_ASSOCIATION_TIMEOUT, \* a client not heard of for longer is dropped
  NoClientTimeout,            \* timeout_if_no_client of serve
  ConnectTimeout,             \* the client gives up its first connection
  NetworkTimeout,             \* MOSH_SERVER_NETWORK_TMOUT, 0 for none
  NetworkSignaledTimeout,     \* MOSH_SERVER_SIGNAL_TMOUT, 0 for none
  MaxTime,                    \* bound of the model: the last moment
  MaxTyped,                   \* bound of the model: the user's events after the first
  Scenarios                   \* what may happen in a behaviour, see Scenario

ASSUME SessionAssumption ==
  /\ {ECHO_TIMEOUT, SERVER_ASSOCIATION_TIMEOUT, NoClientTimeout, ConnectTimeout,
      NetworkTimeout, NetworkSignaledTimeout, MaxTime, MaxTyped} \subseteq Nat
  /\ ECHO_TIMEOUT <= MaxTime /\ MaxTime < Never
  /\ MaxTime + 1 < LastNum          \* one number a moment does not use them up

\* A scenario bounds what a behaviour contains: the keys and changes of size,
\* the screens of the host, the last moment, and the events of other kinds.
Faults == {"resize", "quit", "term", "usr1", "childExit", "reorder"}

ASSUME ScenariosAssumption ==
  \A s \in Scenarios :
    /\ DOMAIN s = {"keys", "screens", "until", "faults"}
    /\ s.keys \in 0..MaxTyped /\ s.screens \in Nat /\ s.until \in 0..MaxTime /\ s.faults \subseteq Faults

VARIABLES
  now,       \* the clock; each loop freezes it for one turn
  peer,      \* the transport of each side
  net,       \* per receiver, the instructions sent to it
  cli,       \* the client's loop: running, clean_shutdown
  srv,       \* the server's loop: running, last_remote_num, last_receiver_state, child_released
  term,      \* the server's terminal: fb, echo_ack, input_history
  host,      \* the program on the server's pty: alive or not
  typed,     \* history: the events of the user that entered the stream
  delivered, \* history: the events that reached the server's terminal
  scenario   \* the scenario of this behaviour

vars == <<now, peer, net, cli, srv, term, host, typed, delivered, scenario>>

\* The events of the user are numbered; a resize is negative.
Event == (-(MaxTyped + 1)..(MaxTyped + 1)) \ {0}
isResize(e) == e < 0
nextEvent(kind) == IF kind = "resize" THEN -(Len(typed) + 1) ELSE Len(typed) + 1
firstResize == -1
NoInstruction == {}       \* no datagram is read in this turn

screen(trm) == [fb |-> trm.fb, echo_ack |-> trm.echo_ack]

Init ==
  /\ now = ECHO_TIMEOUT
  /\ peer = [p \in Peers |->
       IF p = Client
       THEN [Transport(p, now, <<>>, [fb |-> 0, echo_ack |-> 0]) EXCEPT !.current = <<firstResize>>]
       ELSE Transport(p, now, [fb |-> 0, echo_ack |-> 0], <<>>)]
  /\ net = [p \in Peers |-> {}]
  /\ cli = [running |-> TRUE, clean_shutdown |-> FALSE]
  /\ srv = [running |-> TRUE, last_remote_num |-> 0, last_receiver_state |-> <<>>,
            child_released |-> FALSE]
  /\ term = [fb |-> 0, echo_ack |-> 0, input_history |-> <<>>]
  /\ host = "alive"
  /\ typed = <<firstResize>>
  /\ delivered = <<>>
  /\ scenario \in Scenarios

(***************************************************************************)
(* The server's terminal                                                   *)
(***************************************************************************)

\* Complete::set_echo_ack: the newest input frame that is old enough.
set_echo_ack(trm) ==
  LET due == {i \in DOMAIN trm.input_history : trm.input_history[i].time <= now - ECHO_TIMEOUT}
      newest == IF due = {} THEN 0 ELSE trm.input_history[Max(due)].num
  IN  [trm EXCEPT !.echo_ack = newest,
                  !.input_history = From(@, newest)]

\* Complete::register_input_frame
register_input_frame(trm, num) ==
  [trm EXCEPT !.input_history = Append(@, [num |-> num, time |-> now])]

\* The resizes that serve applies: of consecutive ones only the last.
appliedResizes(events) ==
  {i \in DOMAIN events : isResize(events[i]) /\ (i < Len(events) => ~isResize(events[i + 1]))}

set_current_state(t, trm) ==
  IF t.shutdown_in_progress THEN t ELSE [t EXCEPT !.current = screen(trm)]

(***************************************************************************)
(* serve: one turn of the server's loop.  A turn reads a datagram, the     *)
(* host's output, both or neither, or is woken by a signal.                *)
(***************************************************************************)

\* The first part of the turn: a datagram, and the input it brings.
serveNetwork(got, old_datagram, ioctlFails) ==
  LET t == IF got = NoInstruction THEN peer[Server]
           ELSE recv(Server, peer[Server], CHOOSE m \in got : TRUE, now, old_datagram)
      isNew == Newest(t).num # srv.last_remote_num
      g == get_remote_diff(Server, t, srv.last_receiver_state)
      resizes == appliedResizes(g.diff)
      told == IF ioctlFails /\ resizes # {} THEN start_shutdown(g.peer, now) ELSE g.peer
      sized == [term EXCEPT !.fb = @ + Cardinality(resizes)]
      fed == IF g.diff = <<>> THEN sized ELSE register_input_frame(sized, Newest(t).num)
  IN  IF isNew
      THEN [peer |-> set_current_state(told, fed), term |-> fed, events |-> g.diff,
            srv |-> [srv EXCEPT !.last_remote_num = Newest(t).num,
                                !.last_receiver_state = g.last, !.child_released = TRUE]]
      ELSE [peer |-> t, term |-> term, events |-> <<>>, srv |-> srv]

\* The second part: output or the end of the host, and the user's input to it.
serveHost(a, output) ==
  LET reads == ~a.peer.shutdown_in_progress
      drawn == IF reads /\ output = "bytes" THEN [a.term EXCEPT !.fb = @ + 1] ELSE a.term
      shown == IF reads /\ output = "bytes" THEN set_current_state(a.peer, drawn) ELSE a.peer
      ended == IF reads /\ output = "eof" THEN start_shutdown(shown, now) ELSE shown
      broken == output = "eio"       \* swrite fails: the slave side is closed
  IN  [a EXCEPT !.term = drawn,
                !.peer = IF broken THEN start_shutdown(ended, now) ELSE ended]

\* Connection::send detaches the server from a client it has not heard of.
detach(t, sent) ==
  IF sent # {} /\ now - t.heard_at > SERVER_ASSOCIATION_TIMEOUT
  THEN [t EXCEPT !.has_remote_addr = FALSE] ELSE t

\* The last part: the reasons to stop, the echo acknowledgement, and tick.
serveEnd(a, signal, time_since_remote_state, prophylactic) ==
  LET idle == NetworkTimeout # 0 /\ NetworkTimeout <= time_since_remote_state
      asked == \/ idle
               \/ signal = "term"
               \/ signal = "usr1" /\ NetworkSignaledTimeout <= time_since_remote_state
      t == IF asked /\ a.peer.has_remote_addr THEN start_shutdown(a.peer, now) ELSE a.peer
      quits == \/ asked /\ (~a.peer.has_remote_addr \/ a.peer.shutdown_in_progress)
               \/ shutdown_acknowledged(t)
               \/ shutdown_ack_timed_out(t, now)
               \/ counterparty_shutdown_ack_sent(t)
      acked == set_echo_ack(a.term)
      current == IF acked.echo_ack # a.term.echo_ack THEN set_current_state(t, acked) ELSE t
      lonely == Newest(t).num = 0 /\ time_since_remote_state >= NoClientTimeout
      k == tick(Server, current, now, prophylactic)
  IN  CASE quits -> [peer |-> t, sent |-> {}, term |-> a.term, running |-> FALSE]
        [] ~quits /\ lonely -> [peer |-> current, sent |-> {}, term |-> acked, running |-> FALSE]
        [] OTHER -> [peer |-> detach(k.peer, k.sent), sent |-> k.sent, term |-> acked, running |-> TRUE]

serve(got, old_datagram, ioctlFails, output, signal, prophylactic) ==
  /\ srv.running
  /\ \E a \in {serveHost(serveNetwork(got, old_datagram, ioctlFails), output)} :
     \E b \in {serveEnd(a, signal, now - Newest(peer[Server]).timestamp, prophylactic)} :
       /\ peer' = [peer EXCEPT ![Server] = b.peer]
       /\ term' = b.term
       /\ srv' = [a.srv EXCEPT !.running = b.running]
       /\ net' = [net EXCEPT ![Client] = @ \union b.sent]
       /\ delivered' = delivered \o a.events
  /\ UNCHANGED <<now, cli, host, typed, scenario>>

(***************************************************************************)
(* STMClient::main: one turn of the client's loop.                         *)
(***************************************************************************)

\* process_user_input and process_resize, as far as the network sees them.
clientInput(t, kind) ==
  CASE kind \in {"byte", "resize"} /\ ~t.shutdown_in_progress ->
         [t EXCEPT !.current = Append(@, nextEvent(kind))]
    [] kind = "quit" -> start_shutdown(t, now)
    [] OTHER -> t

clientTurn(got, kind, prophylactic) ==
  \E heard \in {IF got = NoInstruction THEN peer[Client]
                ELSE recv(Client, peer[Client], CHOOSE m \in got : TRUE, now, FALSE)} :
  LET t == clientInput(heard, kind)
      acked == shutdown_acknowledged(t)
      counterparty == counterparty_shutdown_ack_sent(t)
      quits == acked \/ shutdown_ack_timed_out(t, now) \/ counterparty
      clean == acked \/ (counterparty /\ ~shutdown_ack_timed_out(t, now))
      late == Newest(t).num = 0 /\ now - Newest(t).timestamp > ConnectTimeout
      k == tick(Client, IF late THEN start_shutdown(t, now) ELSE t, now, prophylactic)
  IN  /\ cli.running
      /\ peer' = [peer EXCEPT ![Client] = IF quits THEN t ELSE k.peer]
      /\ cli' = [running |-> ~quits, clean_shutdown |-> quits /\ clean]
      /\ net' = [net EXCEPT ![Server] = IF quits THEN @ ELSE @ \union k.sent]
      /\ typed' = IF kind \in {"byte", "resize"} /\ ~heard.shutdown_in_progress
                  THEN Append(typed, nextEvent(kind)) ELSE typed
      /\ UNCHANGED <<now, srv, term, host, delivered, scenario>>

(***************************************************************************)
(* What can happen                                                         *)
(***************************************************************************)
Kinds == {"none", "byte"} \union (scenario.faults \intersect {"resize", "quit"})

ClientTurn ==
  \E got \in {NoInstruction} \union {{m} : m \in net[Client]}, kind \in Kinds, prophylactic \in BOOLEAN :
    /\ kind \in {"byte", "resize"} => Len(typed) <= scenario.keys
    /\ clientTurn(got, kind, prophylactic)

\* A turn in which the server reads its two descriptors, one of them or none.
\* Only a server that has heard a datagram can be given an older one.
ServerTurn ==
  \E got \in {NoInstruction} \union {{m} : m \in net[Server]},
     old_datagram \in IF peer[Server].has_remote_addr /\ "reorder" \in scenario.faults THEN BOOLEAN ELSE {FALSE},
     output \in {"none"} \union (IF host = "alive" THEN {"bytes"} ELSE {"eof", "eio"}),
     ioctlFails \in IF host = "closed" /\ "resize" \in scenario.faults THEN BOOLEAN ELSE {FALSE},
     prophylactic \in BOOLEAN :
    /\ output = "bytes" => term.fb < scenario.screens
    /\ serve(got, old_datagram, ioctlFails, output, "none", prophylactic)

\* SIGTERM, SIGINT or SIGUSR1 wakes the server; a turn reports a signal or descriptors.
ServerSignal ==
  \E signal \in scenario.faults \intersect {"term", "usr1"} :
    serve(NoInstruction, FALSE, FALSE, "none", signal, FALSE)

\* The program on the pty ends; it was started when the first client came.
ChildExit ==
  /\ "childExit" \in scenario.faults
  /\ host = "alive" /\ srv.child_released
  /\ host' = "closed"
  /\ UNCHANGED <<now, peer, net, cli, srv, term, typed, delivered, scenario>>

\* freeze_timestamp finds a later time.
TimePasses ==
  /\ now < scenario.until
  /\ now' = now + 1
  /\ UNCHANGED <<peer, net, cli, srv, term, host, typed, delivered, scenario>>

Next == ClientTurn \/ ServerTurn \/ ServerSignal \/ ChildExit \/ TimePasses

Spec == Init /\ [][Next]_vars

(***************************************************************************)
(* Properties                                                              *)
(***************************************************************************)

\* The queues are never empty, what was received is kept in the order of its
\* numbers and once, and the numbers sent are those of instructions.
TypeOK ==
  /\ now \in ECHO_TIMEOUT..MaxTime
  /\ \A p \in Peers :
       /\ peer[p].sent_states # <<>> /\ peer[p].received_states # <<>>
       /\ \A i, j \in DOMAIN peer[p].received_states :
            i < j => peer[p].received_states[i].num < peer[p].received_states[j].num
       /\ peer[p].failed \in BOOLEAN /\ peer[p].has_remote_addr \in BOOLEAN
       /\ \A m \in net[p] : {m.old, m.new, m.ack, m.throwaway} \subseteq 0..LastNum
  /\ cli \in [running : BOOLEAN, clean_shutdown : BOOLEAN]
  /\ srv.running \in BOOLEAN /\ srv.child_released \in BOOLEAN
  /\ term.fb \in Nat /\ host \in {"alive", "closed"}

\* No assertion of the transport fails and no list is used after an element it
\* points to is erased: every diff is taken from a prefix (UserStream::subtract,
\* diff_from), a pair of numbers always means the same difference
\* (Fragmenter::make_fragments), and the reference of an instruction outlives
\* the throw-away number that comes with it (Transport::recv).
NoAssertionFails == \A p \in Peers : ~peer[p].failed

\* A state number means the same screen on both sides, whatever was lost,
\* repeated or reordered on the way: the client never applies a difference to
\* another screen than the one it was computed from.
NumbersAgree ==
  \A r \in Range(peer[Client].received_states), s \in Range(peer[Server].sent_states) :
    r.num = s.num => r.state = s.state

\* The state a sender believes acknowledged is still held by its receiver, so
\* that a difference from it can always be applied (throw-away numbers and
\* acknowledgements cross on the network).
ReferenceKept ==
  \A p \in Peers : \E r \in Range(peer[Other(p)].received_states) : r.num = Known(peer[p]).num

\* The assumed receiver state is the oldest or the newest of the sent states.
\* add_sent_state erases one from the middle while the iterator to the assumed
\* one is still in use: it never points there.
AssumedFirstOrLast ==
  \A p \in Peers : assumed_receiver_state(peer[p], now) \in {1, Len(peer[p].sent_states)}

\* A shutdown that is acknowledged loses nothing: a client whose shutdown the
\* server acknowledged has had all its input delivered, and a server whose
\* shutdown the client acknowledged has had its last screen shown.
LastStateArrives ==
  /\ shutdown_acknowledged(peer[Client]) => delivered = typed
  /\ shutdown_acknowledged(peer[Server]) => Newest(peer[Client]).state = peer[Server].current

\* The client is never told of an echo acknowledgement for input that the
\* server has not taken in (Complete::set_echo_ack and the late
\* acknowledgement that the predictions of the client rely on).
EchoAckHonest ==
  Newest(peer[Client]).state.echo_ack <= srv.last_remote_num

\* The two ends agree on every state they can still refer to.
StatesAgree ==
  TypeOK /\ NoAssertionFails /\ NumbersAgree /\ ReferenceKept /\ AssumedFirstOrLast /\ EchoAckHonest

\* What the session promises: MoshSync.
Sync == INSTANCE MoshSync WITH produced <- term.fb, shown <- Newest(peer[Client]).state.fb
SyncSpec == Sync!Spec
=============================================================================
