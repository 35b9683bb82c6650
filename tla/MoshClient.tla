----------------------------- MODULE MoshClient -----------------------------
(***************************************************************************)
(* mosh-client around its transport: main and STMClient (start, the event  *)
(* loop, the keys it keeps for itself, suspension, the end), Select, and   *)
(* the NotificationEngine that tells the user about the connection.        *)
(*                                                                         *)
(* One turn of the loop, from the return of pselect to its next call, is   *)
(* one action, but for the bytes of the user, which are one action each:   *)
(* the client can suspend itself between two of them.                      *)
(* The transport (see MoshSession) is an environment that answers as its   *)
(* interface allows.  Times are ages: the clock is read once a turn, and   *)
(* behind is how far it is behind since.                                   *)
(***************************************************************************)
EXTENDS Integers, Sequences, SequencesExt

CONSTANTS
  CLIENT_WAKE,      \* the transport wakes the client at least that often
  MESSAGE_TIME,      \* 1000 ms: the life of a message, and the count-up
  ERROR_TIME,        \* CLIENT_WAKE + 100 ms: the life of a network error
  SERVER_LATE,       \* 6500 ms without a state of the server
  REPLY_LATE,        \* 10000 ms without an acknowledgement
  LONG_SILENCE,      \* 60000 ms: count up less often
  CONNECT_TIMEOUT,   \* 15000 ms: no first state
  Uses               \* what happens in a behaviour: sets of kinds of event

ASSUME ClientAssumption ==
  /\ {CLIENT_WAKE, MESSAGE_TIME, ERROR_TIME, SERVER_LATE, REPLY_LATE, LONG_SILENCE, CONNECT_TIMEOUT} \subseteq Nat \ {0}
  /\ ERROR_TIME > CLIENT_WAKE /\ MESSAGE_TIME <= ERROR_TIME /\ REPLY_LATE < LONG_SILENCE /\ CONNECT_TIMEOUT < LONG_SILENCE

\* The user types bytes, some at a time.
ASSUME UsesAssumption == \A u \in Uses : u.bytes \subseteq Seq(STRING)

VARIABLES
  client,    \* STMClient, its NotificationEngine and the states of its process
  outer,     \* the terminal it runs in: raw, opened, and garbled since the last full frame
  bar,       \* the notification bar of the last frame: message, and what it counts
  behind,    \* real time minus the frozen time
  waiting,   \* of the current pselect: time waited and timeout
  signals,   \* signals sent and not yet delivered: they are blocked outside pselect
  told,      \* (history) it was told to end by a signal
  keystrokes,     \* (history) the bytes read from the user before the shutdown
  uses       \* the events of this behaviour

clientVars == <<client, outer, bar, behind, waiting, signals, told, keystrokes, uses>>

MaxAge == LONG_SILENCE + CLIENT_WAKE  \* ages are not told apart beyond
Forever == MaxAge + 1                 \* message_expiration = -1
Gone == -1                            \* an expiration in the past
NoMessage == ""
older(age, d) == IF age + d > MaxAge THEN MaxAge ELSE age + d

(***************************************************************************)
(* STMClient::init: the escape key.                                        *)
(***************************************************************************)
\* Bytes: "^" is the escape key, "p" the character of a control key, "." quits,
\* "Z" (Ctrl-Z) suspends, "n" ends a line, "L" (Ctrl-L) repaints, "x" is any other.
\* MOSH_ESCAPE_KEY: unset, empty, one control character, one of those that are
\* refused (Ctrl-C, D, J, L, M), one printable character, anything else
\* on: is there a key; lf: only at the start of a line; pass: the byte that,
\* after the key, types the key (a printable key is typed by itself)
escapeKey(env) ==
  [on |-> env # "empty", lf |-> env = "printable", pass |-> IF env = "printable" THEN "^" ELSE "p"]

(***************************************************************************)
(* NotificationEngine.                                                     *)
(***************************************************************************)
NotificationEngine == [heard |-> 0, acked |-> 0, message |-> NoMessage, error |-> FALSE, left |-> Forever, key |-> TRUE]

set_notification_string(c, m, permanent, key) ==
  [c EXCEPT !.note = [@ EXCEPT !.message = m, !.error = FALSE, !.key = key,
                               !.left = IF permanent THEN Forever ELSE MESSAGE_TIME]]

set_network_error(c) == [c EXCEPT !.note = [@ EXCEPT !.message = "error", !.error = TRUE, !.left = ERROR_TIME]]

\* A message that is no error keeps its time
clear_network_error(c) ==
  [c EXCEPT !.note.left = IF c.note.error /\ @ > MESSAGE_TIME THEN MESSAGE_TIME ELSE @]

server_late(n) == n.heard > SERVER_LATE
reply_late(n) == n.acked > REPLY_LATE
need_countup(n) == server_late(n) \/ reply_late(n)

adjust_message(c) == IF c.note.left <= 0 THEN [c EXCEPT !.note.message = NoMessage] ELSE c

\* NotificationEngine::apply: the bar over the first row
apply(n) ==
  [message |-> n.message,
   counts |-> IF ~need_countup(n) THEN "nothing" ELSE IF reply_late(n) /\ ~server_late(n) THEN "reply" ELSE "contact"]

\* Counts up without regard for the message
wait_timeNoMessage(n) == IF need_countup(n) THEN MESSAGE_TIME ELSE Forever

\* message_expiration - now wraps around when the expiration is past
wait_time(n) ==
  LET expiry == IF n.left = Gone THEN Forever ELSE n.left
      interval == IF n.heard > LONG_SILENCE THEN CLIENT_WAKE ELSE MESSAGE_TIME
  IN IF need_countup(n) /\ interval < expiry THEN interval ELSE expiry

older_note(n, d, left) == [n EXCEPT !.heard = older(@, d), !.acked = older(@, d), !.left = left]

\* The clock is read: every age grows by what has passed
freeze(c, d) ==
  LET n == c.note IN
  [c EXCEPT !.heard = older(@, d),
            !.note = older_note(n, d, IF n.left \in {Forever, Gone} THEN n.left ELSE IF n.left < d THEN Gone ELSE n.left - d)]

(***************************************************************************)
(* The states of the outer terminal.                                       *)
(***************************************************************************)
\* Forgets that the screen is unknown
resumeNoRepaint(c) == [c EXCEPT !.raw = TRUE, !.open = TRUE]

\* resume: raw mode, display.open(), and the next frame is a full one
resume(c) == [c EXCEPT !.raw = TRUE, !.open = TRUE, !.repaint = TRUE]

closeTerminal(c) == [c EXCEPT !.raw = FALSE, !.open = FALSE]

(***************************************************************************)
(* process_user_input                                                      *)
(***************************************************************************)
startShutdown(c, m) == [set_notification_string(c, m, TRUE, TRUE) EXCEPT !.shutdown = TRUE]

push(c, bytes) == [c EXCEPT !.sent = @ \o bytes]

\* The second byte of an escape sequence
command(c, b) ==
  LET done == [c EXCEPT !.started = FALSE]
      quiet == IF c.note.message = "help" THEN set_notification_string(done, NoMessage, FALSE, TRUE) ELSE done
  IN IF b = "." THEN [startShutdown(c, "exit") EXCEPT !.buf = <<>>]
     ELSE IF b = "Z" THEN [closeTerminal(c) EXCEPT !.proc = "suspended"]
     ELSE push(quiet, IF b = c.escape.pass THEN <<"^">> ELSE <<"^", b>>)

\* Sends the escape key as soon as it is typed
userByteEager(c, b) ==
  IF c.started THEN (IF b \in {".", "Z", c.escape.pass} THEN command(c, b) ELSE push([c EXCEPT !.started = FALSE], <<b>>))
  ELSE IF c.escape.on /\ b = "^" /\ (c.lf \/ ~c.escape.lf)
  THEN [push(set_notification_string(c, "help", TRUE, FALSE), <<"^">>) EXCEPT !.started = TRUE, !.lf = FALSE]
  ELSE push([c EXCEPT !.lf = (b = "n"), !.repaint = @ \/ b = "L"], <<b>>)

userByte(c, b) ==
  IF c.started THEN command(c, b)
  ELSE IF c.escape.on /\ b = "^" /\ (c.lf \/ ~c.escape.lf)
  THEN [set_notification_string(c, "help", TRUE, FALSE) EXCEPT !.started = TRUE, !.lf = FALSE]
  ELSE push([c EXCEPT !.lf = (b = "n"), !.repaint = @ \/ b = "L"], <<b>>)

\* kill(0, SIGSTOP) has returned, in the middle of the bytes
afterSuspension(c) ==
  LET r == resume([c EXCEPT !.proc = "input", !.started = FALSE])
  IN IF c.note.message = "help" THEN set_notification_string(r, NoMessage, FALSE, TRUE) ELSE r

(***************************************************************************)
(* The end.                                                                *)
(***************************************************************************)
Ended(c) == [c EXCEPT !.proc = "ended"]

\* STMClient::shutdown, then main returns
shutdown(c) ==
  Ended(closeTerminal([set_notification_string(c, NoMessage, FALSE, TRUE) EXCEPT !.note.heard = 0]))

(***************************************************************************)
(* STMClient::main                                                         *)
(***************************************************************************)
still_connecting(c) == c.num = 0

\* The first state brings its number; an old datagram changes nothing
process_network_input(c, isNew, acked) ==
  LET h == IF isNew THEN 0 ELSE c.heard
  IN [c EXCEPT !.num = IF isNew THEN 1 ELSE @, !.heard = h, !.note.heard = h,
               !.note.acked = IF acked THEN 0 ELSE @]

\* "Nothing received from server": said, turned into a shutdown, taken back
connecting(c) ==
  IF still_connecting(c) /\ ~c.shutdown /\ c.heard > 0
  THEN IF c.heard > CONNECT_TIMEOUT THEN startShutdown(c, "timeout")
       ELSE set_notification_string(c, "connecting", FALSE, TRUE)
  ELSE IF c.num # 0 /\ c.note.message = "connecting" THEN set_notification_string(c, NoMessage, FALSE, TRUE)
  ELSE c

\* output_new_frame, and the call of pselect with its timeout
nextTurn(c) ==
  LET a == adjust_message(c)
  IN /\ client' = [a EXCEPT !.repaint = FALSE]
     /\ bar' = apply(a.note)
     /\ outer' = [raw |-> c.raw, open |-> c.open, garbled |-> outer.garbled /\ ~c.repaint]
     /\ \E t \in IF still_connecting(c) THEN {1} ELSE {1, CLIENT_WAKE} :
          waiting' = [time |-> 0, timeout |-> IF wait_time(a.note) < t THEN wait_time(a.note) ELSE t]

leave(c) ==
  /\ client' = shutdown(c)
  /\ outer' = [raw |-> client'.raw, open |-> client'.open, garbled |-> FALSE]
  /\ bar' = apply(client'.note)
  /\ waiting' = [time |-> 0, timeout |-> 0]

\* The rest of a turn once the input is processed; got: the signals delivered
rest(c, got) ==
  \/ "winch" \in got /\ leave(c)                            \* process_resize fails
  \/ LET c1 == IF "cont" \in got THEN resume(c) ELSE c
         c2 == IF "term" \in got /\ ~c1.shutdown THEN startShutdown(c1, "signal") ELSE c1
     IN \/ c2.shutdown /\ leave([c2 EXCEPT !.clean = TRUE])   \* acknowledged
        \/ c2.shutdown /\ leave(c2)                          \* not in time
        \/ "peerEnds" \in uses.kinds /\ leave([c2 EXCEPT !.clean = TRUE])
        \/ LET c3 == connecting(c2)
           IN \E failed \in (IF "sendError" \in uses.kinds THEN BOOLEAN ELSE {FALSE}) :
                nextTurn(IF failed THEN set_network_error(c3) ELSE clear_network_error(c3))

\* What pselect and the rest of Select::select may return; signals that are
\* delivered are in got, which the next call clears
returnsStale ==
  {r \in [net : BOOLEAN, input : BOOLEAN, got : {{}, signals}] :
     ~r.net /\ ~r.input /\ r.got = {} => signals = {} /\ waiting.time = waiting.timeout}

\* When a signal was delivered no descriptor is ready
returns ==
  {r \in [net : BOOLEAN, input : BOOLEAN, got : {{}, signals}] :
     /\ r.got # {} => ~r.net /\ ~r.input
     /\ ~r.net /\ ~r.input /\ r.got = {} => signals = {} /\ waiting.time = waiting.timeout}

Datagrams == {"new", "acked", "old", "exception", "crypto", "fatal"} \cap uses.kinds
Inputs == {b \in uses.bytes : Len(keystrokes) + Len(b) <= uses.length}

\* process_user_input has read some bytes
reads(c, bytes) ==
  /\ keystrokes' = IF c.shutdown THEN keystrokes ELSE keystrokes \o bytes
  /\ client' = [c EXCEPT !.proc = "input", !.buf = IF c.shutdown THEN <<>> ELSE bytes]
  /\ UNCHANGED <<outer, bar, waiting>>

loopTurn ==
  /\ client.proc = "loop"
  /\ LET c == freeze(client, behind)
     IN \E r \in returns :
          /\ signals' = signals \ r.got
          /\ \/ \E d \in Datagrams :
                  /\ r.net
                  /\ \/ d = "exception" /\ nextTurn(IF c.shutdown THEN c ELSE set_network_error(c)) /\ UNCHANGED keystrokes
                     \/ d = "crypto" /\ nextTurn(set_notification_string(c, "crypto", FALSE, TRUE)) /\ UNCHANGED keystrokes
                     \/ d = "fatal" /\ leave(c) /\ UNCHANGED keystrokes
                     \/ /\ d \in {"new", "acked", "old"}
                        /\ LET n == process_network_input(c, d # "old", d = "acked")
                           IN IF r.input THEN \E b \in Inputs : reads(n, b)
                              ELSE rest(n, r.got) /\ UNCHANGED keystrokes
             \/ ~r.net /\ r.input /\ \E b \in Inputs : reads(c, b)
             \/ /\ ~r.net /\ r.input /\ "eof" \in uses.kinds
                /\ rest(IF c.shutdown THEN c ELSE startShutdown(c, "exiting"), r.got)
                /\ UNCHANGED keystrokes
             \/ ~r.net /\ ~r.input /\ rest(c, r.got) /\ UNCHANGED keystrokes
  /\ behind' = 0
  /\ UNCHANGED <<told, uses>>

\* One of the bytes; the process is stopped when it is the suspend key
inputByte ==
  /\ client.proc = "input" /\ client.buf # <<>>
  /\ client' = userByte([client EXCEPT !.buf = Tail(@)], Head(client.buf))
  /\ outer' = [outer EXCEPT !.raw = client'.raw, !.open = client'.open]
  /\ UNCHANGED <<bar, behind, waiting, signals, told, keystrokes, uses>>

\* The rest of the turn after them
inputDone ==
  /\ client.proc = "input" /\ client.buf = <<>>
  /\ rest([client EXCEPT !.proc = "loop"], {})
  /\ UNCHANGED <<behind, signals, told, keystrokes, uses>>

(***************************************************************************)
(* main of mosh-client.cc, init and main_init                              *)
(***************************************************************************)
\* Arguments, MOSH_KEY, locale, terminal description or termios are refused
refuse ==
  /\ client.proc = "start"
  /\ client' = Ended(client)
  /\ UNCHANGED <<outer, bar, behind, waiting, signals, told, keystrokes, uses>>

init ==
  /\ client.proc = "start"
  /\ client' = [client EXCEPT !.raw = TRUE, !.open = TRUE, !.proc = "opened"]
  /\ outer' = [outer EXCEPT !.raw = TRUE, !.open = TRUE]
  /\ UNCHANGED <<bar, behind, waiting, signals, told, keystrokes, uses>>

\* Without the window size there is no transport, which main then uses; a
\* transport that cannot be made throws
main_init ==
  /\ client.proc = "opened"
  /\ \/ nextTurn([client EXCEPT !.proc = "loop", !.repaint = TRUE])
     \/ client' = [client EXCEPT !.proc = "crashed"] /\ UNCHANGED <<outer, bar, waiting>>
     \/ leave(client)
  /\ UNCHANGED <<behind, signals, told, keystrokes, uses>>

(***************************************************************************)
(* The user, the shell and the clock.                                      *)
(***************************************************************************)
\* Before main_init a signal has its default action
sendSignal ==
  /\ \E g \in {"term", "winch"} \cap uses.kinds :
       /\ client.proc \in {"opened", "loop", "input", "suspended", "halted"}
       /\ told' = (told \/ g = "term")
       /\ IF client.proc = "opened"
          THEN client' = [client EXCEPT !.proc = IF g = "term" THEN "killed" ELSE @] /\ UNCHANGED signals
          ELSE signals' = signals \cup {g} /\ UNCHANGED client
  /\ UNCHANGED <<outer, bar, behind, waiting, keystrokes, uses>>

\* SIGSTOP from outside: the shell takes the terminal back as it was
halt ==
  /\ "stop" \in uses.kinds /\ client.proc = "loop"
  /\ client' = [client EXCEPT !.proc = "halted"]
  /\ outer' = [outer EXCEPT !.raw = FALSE, !.garbled = TRUE]
  /\ UNCHANGED <<bar, behind, waiting, signals, told, keystrokes, uses>>

\* SIGCONT; a client that stopped itself goes on in process_user_input
continue ==
  /\ \/ /\ client.proc = "halted"
        /\ client' = [client EXCEPT !.proc = "loop"]
        /\ signals' = signals \cup {"cont"}
        /\ UNCHANGED <<outer, bar, waiting>>
     \/ /\ client.proc = "suspended"
        /\ client' = afterSuspension(client)
        /\ outer' = [outer EXCEPT !.raw = TRUE, !.open = TRUE]
        /\ signals' = signals \cup {"cont"}
        /\ UNCHANGED <<bar, waiting>>
  /\ UNCHANGED <<behind, told, keystrokes, uses>>

\* The shell of a suspended client draws over the screen
garble ==
  /\ client.proc = "suspended" /\ ~outer.garbled
  /\ outer' = [outer EXCEPT !.garbled = TRUE]
  /\ UNCHANGED <<client, bar, behind, waiting, signals, told, keystrokes, uses>>

tickClock ==
  /\ "time" \in uses.kinds
  /\ \/ /\ client.proc = "loop" /\ signals = {} /\ waiting.time < waiting.timeout
        /\ waiting' = [waiting EXCEPT !.time = @ + 1]
     \/ client.proc \in {"suspended", "halted"} /\ behind < MaxAge /\ UNCHANGED waiting
  /\ behind' = behind + 1
  /\ UNCHANGED <<client, outer, bar, signals, told, keystrokes, uses>>

\* STMClient::STMClient
ClientInit ==
  /\ uses \in Uses
  /\ \E env \in uses.escape :
       client = [proc |-> "start", raw |-> FALSE, open |-> FALSE, repaint |-> FALSE, note |-> NotificationEngine,
                 escape |-> escapeKey(env), num |-> 0, heard |-> 0, shutdown |-> FALSE, clean |-> FALSE,
                 started |-> FALSE, lf |-> FALSE, buf |-> <<>>, sent |-> <<>>]
  /\ outer = [raw |-> FALSE, open |-> FALSE, garbled |-> FALSE]
  /\ bar = apply(NotificationEngine)
  /\ behind = 0 /\ waiting = [time |-> 0, timeout |-> 0] /\ signals = {}
  /\ told = FALSE /\ keystrokes = <<>>

ClientNext == loopTurn \/ inputByte \/ inputDone \/ refuse \/ init \/ main_init \/ sendSignal \/ halt \/ continue \/ garble \/ tickClock

ClientSpec == ClientInit /\ [][ClientNext]_clientVars

(***************************************************************************)
(* Properties.                                                             *)
(***************************************************************************)
InLoop == client.proc = "loop"

\* Ages, the timer of the message and the timeout of pselect are in range,
\* through the wrap-around of message_expiration - now.
ClientTypeOK ==
  /\ client.proc \in {"start", "opened", "loop", "input", "suspended", "halted", "ended", "killed", "crashed"}
  /\ {client.heard, client.note.heard, client.note.acked, behind} \subseteq 0..MaxAge
  /\ client.note.left \in Gone..ERROR_TIME \cup {Forever}
  /\ waiting.time \in 0..waiting.timeout /\ waiting.timeout \in 0..CLIENT_WAKE
  /\ client.buf # <<>> => client.proc \in {"input", "suspended"}

\* The user sees that the server is silent at most CLIENT_WAKE after it is
\* late, although no wait of the loop is for that moment (STMClient::main,
\* NotificationEngine::wait_time), and that only its replies are missing.
SilenceShown ==
  InLoop /\ signals = {} =>
    /\ older(client.heard, behind) > SERVER_LATE + CLIENT_WAKE => bar.counts = "contact"
    /\ older(client.note.acked, behind) > REPLY_LATE + CLIENT_WAKE => bar.counts # "nothing"

\* A message leaves the screen when its time is over (adjust_message is only
\* called when a frame is drawn, so the loop has to wake up for it).
MessageExpires ==
  InLoop /\ signals = {} /\ bar.message # NoMessage => client.note.left = Forever \/ behind <= client.note.left

\* However the program ends by itself, refused, thrown out of the loop or shut
\* down, the user's terminal is as it was.
TerminalRestored == client.proc = "ended" => ~outer.raw /\ ~outer.open

\* While the loop runs the terminal is raw, and no frame is drawn as a
\* difference from a screen that a stopped client did not see (resume,
\* SIGCONT, repaint_requested).
ScreenKnown == InLoop /\ "cont" \notin signals => outer.raw /\ outer.open /\ ~outer.garbled

\* A signal to end is never lost, although Select clears what was delivered
\* on its next call and an exception skips the rest of a turn.
SignalActedOn == told => "term" \in signals \/ client.shutdown \/ client.proc \in {"ended", "killed"}

\* "Nothing received from server" is gone once something was received.
ConnectingTakenBack == InLoop /\ client.num # 0 => client.note.message # "connecting"

\* Positions of the escape keys that begin a command
begins(bytes, escape) ==
  LET upto[i \in 0..Len(bytes)] ==
        IF i = 0 THEN {}
        ELSE IF /\ escape.on /\ bytes[i] = "^" /\ i - 1 \notin upto[i - 1]
                /\ escape.lf => i > 1 /\ bytes[i - 1] = "n" /\ i - 2 \notin upto[i - 1]
             THEN upto[i - 1] \cup {i} ELSE upto[i - 1]
  IN upto[Len(bytes)]

\* What is to be sent for one of the bytes
said(bytes, escape, i) ==
  LET begun == begins(bytes, escape)
      quits == {q \in 1..Len(bytes) : q - 1 \in begun /\ bytes[q] = "."}
  IN IF i \in begun \/ \E q \in quits : q <= i THEN <<>>
     ELSE IF i - 1 \notin begun THEN <<bytes[i]>>
     ELSE IF bytes[i] = "Z" THEN <<>> ELSE IF bytes[i] = escape.pass THEN <<"^">> ELSE <<"^", bytes[i]>>

\* What reaches the server is what was typed but for the escape sequences,
\* wherever the bytes are split into reads and suspensions come between; and
\* nothing after a quit.
TypedIsSent ==
  InLoop => client.sent = FlattenSeq([i \in 1..Len(keystrokes) |-> said(keystrokes, client.escape, i)])

\* The notification bar tells the truth, in time.
MessagesHonest == ClientTypeOK /\ SilenceShown /\ MessageExpires /\ ConnectingTakenBack

\* The user's terminal is in the right state while the client runs and after.
TerminalSafe == TerminalRestored /\ ScreenKnown
=============================================================================
