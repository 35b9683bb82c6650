-------------------------- MODULE MoshClient_proofs --------------------------
(***************************************************************************)
(* mosh-client for every value of its timeouts and whatever the user, the  *)
(* network and the signals do: the notification bar tells the truth in     *)
(* time, the terminal is restored, no frame is drawn on an unknown screen, *)
(* a signal to end is never lost, and what is sent is what was typed.      *)
(***************************************************************************)
EXTENDS MoshClient, SequenceTheorems, WellFoundedInduction, TLAPS

(***************************************************************************)
(* The inductive invariant.                                                *)
(***************************************************************************)
Messages == {NoMessage, "help", "exit", "exiting", "signal", "timeout", "connecting", "crypto", "error"}

Notes == [heard : 0..MaxAge, acked : 0..MaxAge, message : Messages, error : BOOLEAN,
          left : (Gone..ERROR_TIME) \cup {Forever}, key : BOOLEAN]

Places == {"start", "opened", "loop", "input", "suspended", "halted", "ended", "killed", "crashed"}

\* The bytes are only moved about.
IsClient(c) ==
  c \in [proc : Places, raw : BOOLEAN, open : BOOLEAN, repaint : BOOLEAN, note : Notes, escape : {c.escape}, num : {0, 1},
         heard : 0..MaxAge, shutdown : BOOLEAN, clean : BOOLEAN, started : BOOLEAN, lf : BOOLEAN,
         buf : {c.buf}, sent : {c.sent}]

ClientOK ==
  /\ IsClient(client)
  /\ client.buf # <<>> => client.proc \in {"input", "suspended"}
  /\ client.proc # "ended" => client.heard = client.note.heard
  /\ client.proc \in {"start", "opened"} => client.num = 0

\* A client that was told to end has the signal, knows it, or has ended;
\* before the handlers are set the signal ends it.
SignalOK ==
  /\ told \in BOOLEAN /\ SignalActedOn
  /\ client.proc \in {"start", "opened", "crashed"} => ~told

\* The screen is known unless the continuation of a stopped client is still
\* to be delivered.
ScreenOK ==
  /\ outer \in [raw : BOOLEAN, open : BOOLEAN, garbled : BOOLEAN]
  /\ client.proc \in {"opened", "loop", "input", "halted"} => client.raw /\ client.open
  /\ client.proc \in {"loop", "input"} /\ "cont" \notin signals => outer.raw /\ outer.open /\ ~outer.garbled
  /\ client.proc \in {"start", "ended"} => ~outer.raw /\ ~outer.open

\* The clock is behind by what was waited, unless the client was stopped.
ClockOK ==
  /\ behind \in 0..MaxAge
  /\ waiting \in [time : Nat, timeout : Nat] /\ waiting.time <= waiting.timeout /\ waiting.timeout <= CLIENT_WAKE
  /\ client.proc \in {"start", "opened"} => behind = 0
  /\ client.proc = "loop" /\ "cont" \notin signals => behind = waiting.time
  /\ client.proc = "input" /\ "cont" \notin signals => behind = 0

\* What the bar shows is what the engine knew, and the loop wakes up before
\* that is no longer true.
BarOK ==
  client.proc \in {"loop", "halted"} =>
    /\ bar = apply(client.note)
    /\ waiting.timeout <= wait_time(client.note)
    /\ client.note.message # NoMessage => client.note.left > 0
    /\ client.num # 0 => client.note.message # "connecting"

LoopInv == ClientOK /\ SignalOK /\ ScreenOK /\ ClockOK /\ BarOK
-----------------------------------------------------------------------------
(***************************************************************************)
(* What the operators on the client do.                                    *)
(***************************************************************************)
LEMMA ConstantsFact ==
  /\ CLIENT_WAKE \in Nat /\ MESSAGE_TIME \in Nat /\ ERROR_TIME \in Nat /\ SERVER_LATE \in Nat /\ REPLY_LATE \in Nat
  /\ LONG_SILENCE \in Nat /\ CONNECT_TIMEOUT \in Nat
  /\ CLIENT_WAKE > 0 /\ MESSAGE_TIME > 0 /\ ERROR_TIME > CLIENT_WAKE /\ MESSAGE_TIME <= ERROR_TIME
  /\ MaxAge \in Nat /\ MaxAge >= CLIENT_WAKE /\ Forever = MaxAge + 1 /\ Gone = -1
  /\ Forever \in Nat
BY ClientAssumption DEF ClientAssumption, MaxAge, Forever, Gone

\* d is c but for its message, and what was told to end still is.
Same(c, d) ==
  /\ IsClient(d)
  /\ d.proc = c.proc /\ d.raw = c.raw /\ d.open = c.open /\ d.repaint = c.repaint /\ d.num = c.num /\ d.buf = c.buf
  /\ d.heard = c.heard /\ d.note.heard = c.note.heard
  /\ c.shutdown => d.shutdown

\* A notification changes nothing but the note.
LEMMA NotifyFact ==
  ASSUME NEW c, IsClient(c), NEW m \in Messages, NEW permanent \in BOOLEAN, NEW key \in BOOLEAN
  PROVE  /\ Same(c, set_notification_string(c, m, permanent, key))
         /\ set_notification_string(c, m, permanent, key).note.message = m
<1> DEFINE left == IF permanent THEN Forever ELSE MESSAGE_TIME
           n == [c.note EXCEPT !.message = m, !.error = FALSE, !.key = key, !.left = left]
<1>1. left \in (Gone..ERROR_TIME) \cup {Forever}
  BY ConstantsFact
<1> HIDE DEF left
<1>2. n \in Notes /\ n.heard = c.note.heard /\ n.message = m
  BY <1>1 DEF IsClient, Notes
<1>3. set_notification_string(c, m, permanent, key) = [c EXCEPT !.note = n]
  BY DEF IsClient, set_notification_string, left
<1> HIDE DEF n
<1> QED
  BY <1>2, <1>3 DEF IsClient, Same

\* So do setting and clearing a network error.
LEMMA ErrorFact ==
  ASSUME NEW c, IsClient(c)
  PROVE  /\ Same(c, set_network_error(c)) /\ set_network_error(c).note.message = "error"
         /\ Same(c, clear_network_error(c)) /\ clear_network_error(c).note.message = c.note.message
<1> DEFINE e == [c.note EXCEPT !.message = "error", !.error = TRUE, !.left = ERROR_TIME]
           left == IF c.note.error /\ c.note.left > MESSAGE_TIME THEN MESSAGE_TIME ELSE c.note.left
           n == [c.note EXCEPT !.left = left]
<1>1. ERROR_TIME \in (Gone..ERROR_TIME) \cup {Forever} /\ left \in (Gone..ERROR_TIME) \cup {Forever}
  BY ConstantsFact DEF IsClient, Notes
<1>2. e \in Notes /\ e.heard = c.note.heard /\ e.message = "error" /\ set_network_error(c) = [c EXCEPT !.note = e]
  BY <1>1 DEF IsClient, Notes, Messages, set_network_error
<1>3. clear_network_error(c) = [c EXCEPT !.note = n]
  BY DEF IsClient, Notes, clear_network_error
<1> HIDE DEF left
<1>4. n \in Notes /\ n.heard = c.note.heard /\ n.message = c.note.message
  BY <1>1 DEF IsClient, Notes
<1> HIDE DEF e, n
<1> QED
  BY <1>2, <1>3, <1>4 DEF IsClient, Same

\* adjust_message removes a message whose time is over.
LEMMA AdjustFact ==
  ASSUME NEW c, IsClient(c)
  PROVE  /\ Same(c, adjust_message(c)) /\ adjust_message(c).shutdown = c.shutdown
         /\ adjust_message(c).note.message # NoMessage =>
              adjust_message(c).note.left > 0 /\ adjust_message(c).note.message = c.note.message
<1> DEFINE n == [c.note EXCEPT !.message = NoMessage]
<1>1. n \in Notes /\ n.heard = c.note.heard /\ n.message = NoMessage
  BY DEF IsClient, Notes, Messages
<1>2. c.note.left <= 0 => adjust_message(c) = [c EXCEPT !.note = n]
  BY DEF IsClient, adjust_message
<1>3. ~(c.note.left <= 0) => adjust_message(c) = c /\ c.note.left > 0
  BY ConstantsFact DEF IsClient, Notes, adjust_message
<1> HIDE DEF n
<1> QED
  BY <1>1, <1>2, <1>3 DEF IsClient, Same

\* A shutdown that is started says so and changes nothing else the invariant
\* is about.
LEMMA ShutdownFact ==
  ASSUME NEW c, IsClient(c), NEW m \in Messages
  PROVE  Same(c, startShutdown(c, m)) /\ startShutdown(c, m).shutdown
<1> DEFINE d == set_notification_string(c, m, TRUE, TRUE)
<1>1. Same(c, d)
  BY NotifyFact
<1>2. startShutdown(c, m) = [d EXCEPT !.shutdown = TRUE]
  BY DEF startShutdown
<1> HIDE DEF d
<1> QED
  BY <1>1, <1>2 DEF Same, IsClient

\* connecting says or takes back what it says.
LEMMA ConnectingFact ==
  ASSUME NEW c, IsClient(c)
  PROVE  Same(c, connecting(c)) /\ (c.num # 0 => connecting(c).note.message # "connecting")
<1>1. Same(c, c)
  BY DEF Same
<1>2. /\ Same(c, startShutdown(c, "timeout"))
      /\ Same(c, set_notification_string(c, "connecting", FALSE, TRUE))
      /\ Same(c, set_notification_string(c, NoMessage, FALSE, TRUE))
      /\ set_notification_string(c, NoMessage, FALSE, TRUE).note.message = NoMessage
  <2>1. "timeout" \in Messages /\ "connecting" \in Messages /\ NoMessage \in Messages
    BY DEF Messages
  <2> QED
    BY <2>1, NotifyFact, ShutdownFact
<1> QED
  BY <1>1, <1>2 DEF connecting, still_connecting, NoMessage

\* After resume the terminal is raw and open, and a full frame is due.
LEMMA ResumeFact ==
  ASSUME NEW c, IsClient(c)
  PROVE  /\ IsClient(resume(c)) /\ resume(c).proc = c.proc /\ resume(c).num = c.num /\ resume(c).buf = c.buf
         /\ resume(c).heard = c.heard /\ resume(c).note = c.note /\ resume(c).shutdown = c.shutdown
         /\ resume(c).raw /\ resume(c).open /\ resume(c).repaint
BY DEF IsClient, resume

\* The clock: the two ages of the server's last state stay the same.
LEMMA FreezeFact ==
  ASSUME NEW c, IsClient(c), NEW d \in 0..MaxAge, c.heard = c.note.heard
  PROVE  /\ IsClient(freeze(c, d)) /\ freeze(c, d).heard = freeze(c, d).note.heard
         /\ freeze(c, d).proc = c.proc /\ freeze(c, d).raw = c.raw /\ freeze(c, d).open = c.open
         /\ freeze(c, d).repaint = c.repaint /\ freeze(c, d).num = c.num /\ freeze(c, d).buf = c.buf
         /\ freeze(c, d).shutdown = c.shutdown /\ freeze(c, d).note.message = c.note.message
<1> DEFINE h == older(c.heard, d)
           a == older(c.note.acked, d)
           left == IF c.note.left \in {Forever, Gone} THEN c.note.left ELSE IF c.note.left < d THEN Gone ELSE c.note.left - d
           n == [c.note EXCEPT !.heard = h, !.acked = a, !.left = left]
<1>1. h \in 0..MaxAge /\ a \in 0..MaxAge
  BY ConstantsFact DEF IsClient, Notes, older
<1>2. left \in (Gone..ERROR_TIME) \cup {Forever}
  BY ConstantsFact DEF IsClient, Notes
<1>3. freeze(c, d) = [c EXCEPT !.heard = h, !.note = n]
  <2>1. n = older_note(c.note, d, left)
    BY DEF IsClient, Notes, older_note
  <2> QED
    BY <2>1 DEF freeze
<1> HIDE DEF h, a, left
<1>4. n \in Notes /\ n.heard = h /\ n.message = c.note.message
  BY <1>1, <1>2 DEF IsClient, Notes
<1> HIDE DEF n
<1> QED
  BY <1>1, <1>3, <1>4 DEF IsClient

\* A datagram that was received makes the transport and the bar younger
\* together.
LEMMA NetworkFact ==
  ASSUME NEW c, IsClient(c), c.heard = c.note.heard, NEW isNew \in BOOLEAN, NEW acked \in BOOLEAN
  PROVE  /\ IsClient(process_network_input(c, isNew, acked))
         /\ process_network_input(c, isNew, acked).heard = process_network_input(c, isNew, acked).note.heard
         /\ process_network_input(c, isNew, acked).proc = c.proc /\ process_network_input(c, isNew, acked).raw = c.raw
         /\ process_network_input(c, isNew, acked).open = c.open /\ process_network_input(c, isNew, acked).buf = c.buf
         /\ process_network_input(c, isNew, acked).shutdown = c.shutdown
<1> DEFINE h == IF isNew THEN 0 ELSE c.heard
           a == IF acked THEN 0 ELSE c.note.acked
           n == [c.note EXCEPT !.heard = h, !.acked = a]
<1>1. h \in 0..MaxAge /\ a \in 0..MaxAge
  BY ConstantsFact DEF IsClient, Notes
<1>2. process_network_input(c, isNew, acked) = [c EXCEPT !.num = IF isNew THEN 1 ELSE @, !.heard = h, !.note = n]
  BY DEF IsClient, Notes, process_network_input
<1> HIDE DEF h, a
<1>3. n \in Notes /\ n.heard = h
  BY <1>1 DEF IsClient, Notes
<1> HIDE DEF n
<1> QED
  BY <1>1, <1>2, <1>3 DEF IsClient

\* A byte of the user: the client goes on, or suspends itself.
LEMMA ByteFact ==
  ASSUME NEW c, IsClient(c), NEW b
  PROVE  /\ IsClient(userByte(c, b)) /\ userByte(c, b).heard = c.heard /\ userByte(c, b).note.heard = c.note.heard
         /\ c.shutdown => userByte(c, b).shutdown
         /\ \/ userByte(c, b).proc = c.proc /\ userByte(c, b).raw = c.raw /\ userByte(c, b).open = c.open
            \/ userByte(c, b).proc = "suspended"
<1>0. NoMessage \in Messages /\ "help" \in Messages /\ "exit" \in Messages
  BY DEF Messages
<1> DEFINE Goes(d) == /\ IsClient(d) /\ d.heard = c.heard /\ d.note.heard = c.note.heard
                      /\ c.shutdown => d.shutdown
                      /\ d.proc = c.proc /\ d.raw = c.raw /\ d.open = c.open
<1>1. ASSUME NEW d, Goes(d), NEW bytes PROVE Goes(push(d, bytes))
  BY <1>1 DEF IsClient, push
<1>2. ASSUME c.started PROVE userByte(c, b) = command(c, b)
  BY <1>2 DEF userByte
<1>3. CASE c.started /\ b = "."
  <2>1. Same(c, startShutdown(c, "exit"))
    BY <1>0, ShutdownFact
  <2>2. userByte(c, b) = [startShutdown(c, "exit") EXCEPT !.buf = <<>>]
    BY <1>2, <1>3 DEF command
  <2> QED
    BY <2>1, <2>2 DEF Same, IsClient
<1>4. CASE c.started /\ b = "Z"
  <2>1. userByte(c, b) = [closeTerminal(c) EXCEPT !.proc = "suspended"]
    BY <1>2, <1>4 DEF command
  <2> QED
    BY <2>1 DEF IsClient, closeTerminal, Places
<1>5. CASE c.started /\ b \notin {".", "Z"}
  <2> DEFINE done == [c EXCEPT !.started = FALSE]
             quiet == IF c.note.message = "help" THEN set_notification_string(done, NoMessage, FALSE, TRUE) ELSE done
  <2>1. IsClient(done) /\ Goes(done)
    BY DEF IsClient
  <2> HIDE DEF done
  <2>2. Goes(quiet)
    <3>1. Same(done, set_notification_string(done, NoMessage, FALSE, TRUE))
      BY <1>0, <2>1, NotifyFact
    <3>2. Goes(set_notification_string(done, NoMessage, FALSE, TRUE))
      BY <2>1, <3>1 DEF Same
    <3> HIDE DEF Goes
    <3> QED
      BY <2>1, <3>2
  <2> HIDE DEF quiet, Goes
  <2>3. userByte(c, b) = push(quiet, <<"^">>) \/ userByte(c, b) = push(quiet, <<"^", b>>)
    BY <1>2, <1>5 DEF command, quiet, done
  <2>4. Goes(userByte(c, b))
    BY <1>1, <2>2, <2>3
  <2> QED
    BY <2>4 DEF Goes
<1>6. CASE ~c.started
  <2>1. Same(c, set_notification_string(c, "help", TRUE, FALSE))
    BY <1>0, NotifyFact
  <2>2. Goes([set_notification_string(c, "help", TRUE, FALSE) EXCEPT !.started = TRUE, !.lf = FALSE])
    BY <2>1 DEF Same, IsClient
  <2>3. Goes([c EXCEPT !.lf = (b = "n"), !.repaint = @ \/ b = "L"])
    BY DEF IsClient
  <2> HIDE DEF Goes
  <2>4. Goes(push([c EXCEPT !.lf = (b = "n"), !.repaint = @ \/ b = "L"], <<b>>))
    BY <1>1, <2>3
  <2>5. Goes(userByte(c, b))
    BY <1>6, <2>2, <2>4 DEF userByte
  <2> QED
    BY <2>5 DEF Goes
<1> QED
  BY <1>3, <1>4, <1>5, <1>6

\* A suspended client goes on in process_user_input with the rest of its bytes.
LEMMA SuspensionFact ==
  ASSUME NEW c, IsClient(c)
  PROVE  /\ IsClient(afterSuspension(c)) /\ afterSuspension(c).proc = "input"
         /\ afterSuspension(c).raw /\ afterSuspension(c).open
         /\ afterSuspension(c).heard = c.heard /\ afterSuspension(c).note.heard = c.note.heard
         /\ c.shutdown => afterSuspension(c).shutdown
<1> DEFINE r == resume([c EXCEPT !.proc = "input", !.started = FALSE])
<1>1. IsClient([c EXCEPT !.proc = "input", !.started = FALSE])
  BY DEF IsClient, Places
<1>2. /\ IsClient(r) /\ r.proc = "input" /\ r.raw /\ r.open /\ r.heard = c.heard /\ r.note = c.note
      /\ r.shutdown = c.shutdown
  BY <1>1, ResumeFact DEF IsClient
<1> HIDE DEF r
<1>3. NoMessage \in Messages
  BY DEF Messages
<1>4. Same(r, set_notification_string(r, NoMessage, FALSE, TRUE))
  BY <1>2, <1>3, NotifyFact
<1>5. afterSuspension(c) = IF c.note.message = "help" THEN set_notification_string(r, NoMessage, FALSE, TRUE) ELSE r
  BY DEF afterSuspension, r
<1> QED
  BY <1>2, <1>4, <1>5 DEF Same

-----------------------------------------------------------------------------
(***************************************************************************)
(* How a turn ends: with the next call of pselect, or with the program.    *)
(***************************************************************************)
\* c is a client in its loop.
Turning(c) ==
  /\ IsClient(c) /\ c.proc = "loop" /\ c.raw /\ c.open /\ c.buf = <<>> /\ c.heard = c.note.heard

\* The next turn of a client begins.
Waits(shut, clean) ==
  /\ ClientOK' /\ client'.proc = "loop" /\ (shut => client'.shutdown)
  /\ client'.raw /\ client'.open
  /\ outer' \in [raw : {TRUE}, open : {TRUE}, garbled : BOOLEAN] /\ (clean => ~outer'.garbled)
  /\ waiting' \in [time : {0}, timeout : Nat] /\ waiting'.timeout <= CLIENT_WAKE
  /\ BarOK'

\* It is over.
Leaves ==
  /\ ClientOK' /\ client'.proc = "ended"
  /\ outer' = [raw |-> FALSE, open |-> FALSE, garbled |-> FALSE]
  /\ waiting' = [time |-> 0, timeout |-> 0]

\* A turn that goes on ends in a wait whose bar and timeout fit.
LEMMA WaitsFact ==
  ASSUME NEW c, Turning(c), c.num # 0 => c.note.message # "connecting", outer.garbled \in BOOLEAN, nextTurn(c)
  PROVE  Waits(c.shutdown, ~outer.garbled \/ c.repaint)
<1> DEFINE a == adjust_message(c)
<1>1. /\ Same(c, a) /\ a.shutdown = c.shutdown
      /\ a.note.message # NoMessage => a.note.left > 0 /\ a.note.message = c.note.message
  BY AdjustFact DEF Turning
<1>2. PICK t \in {1, CLIENT_WAKE} :
        /\ client' = [a EXCEPT !.repaint = FALSE] /\ bar' = apply(a.note)
        /\ outer' = [raw |-> c.raw, open |-> c.open, garbled |-> outer.garbled /\ ~c.repaint]
        /\ waiting' = [time |-> 0, timeout |-> IF wait_time(a.note) < t THEN wait_time(a.note) ELSE t]
  BY DEF nextTurn
<1> HIDE DEF a
<1>3. IsClient(client)' /\ client'.note = a.note /\ client'.proc = "loop" /\ client'.shutdown = c.shutdown
      /\ client'.raw = c.raw /\ client'.open = c.open /\ client'.buf = <<>> /\ client'.heard = a.note.heard
      /\ client'.num = c.num
  BY <1>1, <1>2 DEF Same, IsClient, Turning
<1>4. wait_time(a.note) \in Nat
  BY <1>1, ConstantsFact DEF Same, IsClient, Notes, wait_time, need_countup, server_late, reply_late
<1>5. waiting' \in [time : {0}, timeout : Nat] /\ waiting'.timeout <= CLIENT_WAKE /\ waiting'.timeout <= wait_time(a.note)
  BY <1>2, <1>4, ConstantsFact
<1>6. ClientOK'
  BY <1>3 DEF ClientOK
<1>7. BarOK'
  <2>1. a.note.message = "connecting" => a.note.message # NoMessage
    BY DEF NoMessage
  <2>2. client'.num # 0 => client'.note.message # "connecting"
    BY <1>1, <1>3, <2>1
  <2>3. bar' = apply(client'.note) /\ waiting'.timeout <= wait_time(client'.note)
    BY <1>2, <1>3, <1>5
  <2>4. client'.note.message # NoMessage => client'.note.left > 0
    BY <1>1, <1>3
  <2>5. apply(client.note)' = apply(client'.note) /\ wait_time(client.note)' = wait_time(client'.note)
    BY DEF apply, wait_time, need_countup, server_late, reply_late
  <2> QED
    BY <2>2, <2>3, <2>4, <2>5 DEF BarOK
<1>8. outer' \in [raw : {TRUE}, open : {TRUE}, garbled : BOOLEAN] /\ (~outer.garbled \/ c.repaint => ~outer'.garbled)
  BY <1>2 DEF Turning, IsClient
<1> QED
  BY <1>3, <1>5, <1>6, <1>7, <1>8 DEF Waits, Turning

\* A turn that leaves the loop restores the terminal.
LEMMA LeavesFact ==
  ASSUME NEW c, IsClient(c), c.buf = <<>>, leave(c)
  PROVE  Leaves
<1> DEFINE s == set_notification_string(c, NoMessage, FALSE, TRUE)
           h == [s EXCEPT !.note.heard = 0]
<1>1. NoMessage \in Messages /\ 0 \in 0..MaxAge
  BY ConstantsFact DEF Messages
<1>2. IsClient(s) /\ s.buf = <<>>
  BY <1>1, NotifyFact DEF Same
<1> HIDE DEF s
<1>3. IsClient(h) /\ h.buf = <<>>
  BY <1>1, <1>2 DEF IsClient, Notes
<1> HIDE DEF h
<1>4. shutdown(c) = [[h EXCEPT !.raw = FALSE, !.open = FALSE] EXCEPT !.proc = "ended"]
  BY DEF shutdown, Ended, closeTerminal, s, h
<1>5. /\ IsClient(shutdown(c)) /\ shutdown(c).proc = "ended" /\ shutdown(c).buf = <<>>
      /\ shutdown(c).raw = FALSE /\ shutdown(c).open = FALSE
  BY <1>3, <1>4 DEF IsClient, Places
<1> QED
  BY <1>5 DEF leave, Leaves, ClientOK

\* The rest of a turn: a delivered SIGTERM ends the client or is remembered,
\* a delivered SIGCONT repaints the screen.
LEMMA RestFact ==
  ASSUME NEW c, Turning(c), outer.garbled \in BOOLEAN, NEW got, rest(c, got)
  PROVE  \/ Leaves
         \/ Waits(c.shutdown \/ "term" \in got, ~outer.garbled \/ "cont" \in got)
<1> DEFINE c1 == IF "cont" \in got THEN resume(c) ELSE c
           c2 == IF "term" \in got /\ ~c1.shutdown THEN startShutdown(c1, "signal") ELSE c1
           c3 == connecting(c2)
<1>1. Turning(c1) /\ c1.shutdown = c.shutdown /\ ("cont" \in got => c1.repaint)
  BY ResumeFact DEF Turning
<1> HIDE DEF c1
<1>2. /\ Turning(c2) /\ (c.shutdown \/ "term" \in got => c2.shutdown) /\ ("cont" \in got => c2.repaint)
      /\ \A d : d = [c2 EXCEPT !.clean = TRUE] => IsClient(d) /\ d.buf = <<>>
  <2>1. "signal" \in Messages
    BY DEF Messages
  <2>2. Same(c1, startShutdown(c1, "signal")) /\ startShutdown(c1, "signal").shutdown
    BY <1>1, <2>1, ShutdownFact DEF Turning
  <2>3. Turning(c2) /\ (c.shutdown \/ "term" \in got => c2.shutdown) /\ ("cont" \in got => c2.repaint)
    BY <1>1, <2>2 DEF Turning, Same
  <2> HIDE DEF c2
  <2> QED
    BY <2>3 DEF Turning, IsClient
<1> HIDE DEF c2
<1>3. Same(c2, c3) /\ (c2.num # 0 => c3.note.message # "connecting")
  BY <1>2, ConnectingFact DEF Turning
<1> HIDE DEF c3
<1>4. /\ Turning(c3) /\ (c2.shutdown => c3.shutdown) /\ c3.repaint = c2.repaint /\ c3.num = c2.num
      /\ Same(c3, set_network_error(c3)) /\ set_network_error(c3).note.message = "error"
      /\ Same(c3, clear_network_error(c3)) /\ clear_network_error(c3).note.message = c3.note.message
  BY <1>2, <1>3, ErrorFact DEF Turning, Same
<1>5. ASSUME NEW d, Same(c3, d), d.note.message \in {"error", c3.note.message}, nextTurn(d)
      PROVE  Waits(c.shutdown \/ "term" \in got, ~outer.garbled \/ "cont" \in got)
  <2>1. Turning(d) /\ (d.num # 0 => d.note.message # "connecting")
    BY <1>3, <1>4, <1>5 DEF Turning, Same
  <2>2. Waits(d.shutdown, ~outer.garbled \/ d.repaint)
    BY <1>5, <2>1, WaitsFact
  <2> QED
    BY <1>2, <1>4, <1>5, <2>2 DEF Waits, Same
<1>6. \/ leave(c)
      \/ leave([c2 EXCEPT !.clean = TRUE]) \/ leave(c2)
      \/ nextTurn(set_network_error(c3)) \/ nextTurn(clear_network_error(c3))
  BY DEF rest, c1, c2, c3
<1> QED
  BY <1>2, <1>4, <1>5, <1>6, LeavesFact DEF Turning

-----------------------------------------------------------------------------
(***************************************************************************)
(* The invariant is kept.                                                  *)
(***************************************************************************)
\* A client in its loop has nothing left to read.
LEMMA LoopingFact ==
  ASSUME LoopInv, client.proc = "loop"
  PROVE  /\ Turning(freeze(client, behind)) /\ freeze(client, behind).shutdown = client.shutdown
         /\ freeze(client, behind).num = client.num /\ freeze(client, behind).note.message = client.note.message
         /\ outer.garbled \in BOOLEAN
<1>1. IsClient(client) /\ behind \in 0..MaxAge /\ client.heard = client.note.heard /\ client.buf = <<>> /\ client.raw /\ client.open
  BY DEF LoopInv, ClientOK, ScreenOK, ClockOK
<1> QED
  BY <1>1, FreezeFact DEF Turning, LoopInv, ScreenOK

\* What a turn that ends leaves behind, whatever was delivered in it.
LEMMA TurnFact ==
  ASSUME LoopInv, client.proc \in {"loop", "input", "opened"}, NEW got, got \subseteq signals, signals' = signals \ got,
         behind' \in 0..MaxAge, UNCHANGED told,
         "cont" \notin signals' => behind' = 0 /\ (~outer.garbled \/ "cont" \in got),
         NEW shut, told => shut \/ "term" \in signals',
         \/ Leaves
         \/ Waits(shut, ~outer.garbled \/ "cont" \in got)
  PROVE  LoopInv'
<1>1. CASE Leaves
  <2>1. SignalOK'
    BY <1>1 DEF Leaves, LoopInv, SignalOK, SignalActedOn
  <2>2. ScreenOK'
    BY <1>1 DEF Leaves, ScreenOK
  <2>3. ClockOK'
    BY <1>1, ConstantsFact DEF Leaves, ClockOK
  <2>4. BarOK'
    BY <1>1 DEF Leaves, BarOK
  <2> QED
    BY <1>1, <2>1, <2>2, <2>3, <2>4 DEF LoopInv, Leaves
<1>2. CASE Waits(shut, ~outer.garbled \/ "cont" \in got)
  <2>1. SignalOK'
    BY <1>2 DEF Waits, LoopInv, SignalOK, SignalActedOn
  <2>2. ScreenOK'
    BY <1>2 DEF Waits, ScreenOK
  <2>3. ClockOK'
    BY <1>2, ConstantsFact DEF Waits, ClockOK
  <2> QED
    BY <1>2, <2>1, <2>2, <2>3 DEF LoopInv, Waits
<1> QED
  BY <1>1, <1>2

\* process_user_input has read: nothing was delivered, and the bytes wait.
LEMMA ReadsFact ==
  ASSUME LoopInv, client.proc = "loop", NEW c, Turning(c), c.shutdown = client.shutdown, NEW bytes, reads(c, bytes),
         UNCHANGED <<signals, told>>, behind' = 0
  PROVE  LoopInv'
<1>1. /\ IsClient(client)' /\ client'.proc = "input" /\ client'.raw /\ client'.open /\ client'.heard = client'.note.heard
      /\ client'.shutdown = client.shutdown /\ UNCHANGED <<outer, waiting>>
  BY DEF reads, Turning, IsClient, Places
<1>2. ClientOK'
  BY <1>1 DEF ClientOK
<1>3. SignalOK'
  BY <1>1 DEF LoopInv, SignalOK, SignalActedOn
<1>4. ScreenOK'
  BY <1>1 DEF LoopInv, ScreenOK
<1>5. ClockOK'
  BY <1>1, ConstantsFact DEF LoopInv, ClockOK
<1>6. BarOK'
  BY <1>1 DEF BarOK
<1> QED
  BY <1>2, <1>3, <1>4, <1>5, <1>6 DEF LoopInv

\* One turn of STMClient::main, from the return of pselect on.
LEMMA LoopTurnInductive ==
  ASSUME LoopInv, loopTurn
  PROVE  LoopInv'
<1> DEFINE c == freeze(client, behind)
<1>1. /\ client.proc = "loop" /\ behind' = 0 /\ UNCHANGED told
      /\ Turning(c) /\ c.shutdown = client.shutdown /\ c.num = client.num /\ c.note.message = client.note.message
      /\ outer.garbled \in BOOLEAN
  BY LoopingFact DEF loopTurn
<1>2. PICK r \in returns :
        /\ signals' = signals \ r.got
        /\ \/ \E d \in Datagrams :
                /\ r.net
                /\ \/ d = "exception" /\ nextTurn(IF c.shutdown THEN c ELSE set_network_error(c))
                   \/ d = "crypto" /\ nextTurn(set_notification_string(c, "crypto", FALSE, TRUE))
                   \/ d = "fatal" /\ leave(c)
                   \/ LET n == process_network_input(c, d # "old", d = "acked")
                      IN IF r.input THEN \E b \in Inputs : reads(n, b) ELSE rest(n, r.got)
           \/ ~r.net /\ r.input /\ \E b \in Inputs : reads(c, b)
           \/ ~r.net /\ r.input /\ rest(IF c.shutdown THEN c ELSE startShutdown(c, "exiting"), r.got)
           \/ ~r.net /\ ~r.input /\ rest(c, r.got)
  BY DEF loopTurn
<1>3. r.got \in {{}, signals} /\ (r.net \/ r.input => r.got = {})
  BY <1>2 DEF returns
<1> HIDE DEF c
<1>4. ASSUME NEW s, told => s \/ "term" \in signals', Leaves \/ Waits(s, ~outer.garbled \/ "cont" \in r.got) PROVE LoopInv'
  <2>1. "cont" \notin signals' => ~outer.garbled \/ "cont" \in r.got
    BY <1>1, <1>2, <1>3 DEF LoopInv, ScreenOK
  <2>2. behind' \in 0..MaxAge
    BY <1>1, ConstantsFact
  <2>3. r.got \subseteq signals
    BY <1>3
  <2> QED
    BY <1>1, <1>2, <1>4, <2>1, <2>2, <2>3, TurnFact
<1>5. told => client.shutdown \/ "term" \in signals
  BY <1>1 DEF LoopInv, SignalOK, SignalActedOn
<1>6. ASSUME NEW d, Turning(d), c.shutdown => d.shutdown, rest(d, r.got) PROVE LoopInv'
  <2>1. Leaves \/ Waits(d.shutdown \/ "term" \in r.got, ~outer.garbled \/ "cont" \in r.got)
    BY <1>1, <1>6, RestFact
  <2>2. told => (d.shutdown \/ "term" \in r.got) \/ "term" \in signals'
    BY <1>1, <1>2, <1>5, <1>6
  <2> QED
    BY <1>4, <2>1, <2>2
<1>7. ASSUME NEW d, Same(c, d), d.num # 0 => d.note.message # "connecting", nextTurn(d), r.net PROVE LoopInv'
  <2>1. Turning(d) /\ (c.shutdown => d.shutdown)
    BY <1>1, <1>7 DEF Turning, Same
  <2>2. Waits(d.shutdown, ~outer.garbled \/ d.repaint)
    BY <1>1, <1>7, <2>1, WaitsFact
  <2>3. Waits(d.shutdown, ~outer.garbled \/ "cont" \in r.got)
    BY <1>3, <1>7, <2>2 DEF Waits
  <2>4. told => d.shutdown \/ "term" \in signals'
    BY <1>1, <1>2, <1>3, <1>5, <1>7, <2>1
  <2> QED
    BY <1>4, <2>3, <2>4
<1>8. ASSUME NEW d, IsClient(d), d.buf = <<>>, leave(d), r.got = {} PROVE LoopInv'
  <2>1. Leaves
    BY <1>8, LeavesFact
  <2>2. told => client.shutdown \/ "term" \in signals'
    BY <1>2, <1>5, <1>8
  <2> QED
    BY <1>4, <2>1, <2>2
<1>9. ASSUME NEW d, Turning(d), d.shutdown = client.shutdown, NEW b, reads(d, b), r.input PROVE LoopInv'
  <2>1. UNCHANGED <<signals, told>>
    BY <1>1, <1>2, <1>3, <1>9
  <2> QED
    BY <1>1, <1>9, <2>1, ReadsFact
<1>10. CASE r.net /\ nextTurn(IF c.shutdown THEN c ELSE set_network_error(c))
  <2>1. Same(c, c) /\ Same(c, set_network_error(c)) /\ set_network_error(c).note.message = "error"
    BY <1>1, ErrorFact DEF Turning, Same
  <2>2. c.num # 0 => c.note.message # "connecting"
    BY <1>1 DEF LoopInv, BarOK
  <2> QED
    BY <1>7, <1>10, <2>1, <2>2
<1>11. CASE r.net /\ nextTurn(set_notification_string(c, "crypto", FALSE, TRUE))
  <2>1. "crypto" \in Messages
    BY DEF Messages
  <2>2. /\ Same(c, set_notification_string(c, "crypto", FALSE, TRUE))
        /\ set_notification_string(c, "crypto", FALSE, TRUE).note.message = "crypto"
    BY <1>1, <2>1, NotifyFact DEF Turning
  <2> QED
    BY <1>7, <1>11, <2>2
<1>12. CASE r.net /\ leave(c)
  BY <1>1, <1>3, <1>8, <1>12 DEF Turning
<1>13. ASSUME NEW isNew \in BOOLEAN, NEW acked \in BOOLEAN
       PROVE  Turning(process_network_input(c, isNew, acked)) /\ process_network_input(c, isNew, acked).shutdown = client.shutdown
  <2> DEFINE n == process_network_input(c, isNew, acked)
  <2>1. IsClient(c) /\ c.heard = c.note.heard /\ c.proc = "loop" /\ c.raw /\ c.open /\ c.buf = <<>>
    BY <1>1 DEF Turning
  <2>2. IsClient(n) /\ n.heard = n.note.heard /\ n.proc = c.proc /\ n.raw = c.raw /\ n.open = c.open
        /\ n.buf = c.buf /\ n.shutdown = c.shutdown
    BY <2>1, NetworkFact
  <2> HIDE DEF n
  <2>3. Turning(n) /\ n.shutdown = client.shutdown
    BY <1>1, <2>1, <2>2 DEF Turning
  <2> QED
    BY <2>3 DEF n
<1>14. ASSUME NEW d \in Datagrams, r.net,
              LET n == process_network_input(c, d # "old", d = "acked")
              IN IF r.input THEN \E b \in Inputs : reads(n, b) ELSE rest(n, r.got)
       PROVE  LoopInv'
  <2> DEFINE n == process_network_input(c, d # "old", d = "acked")
  <2>1. Turning(n) /\ n.shutdown = client.shutdown
    BY <1>13
  <2> HIDE DEF n
  <2>2. IF r.input THEN \E b \in Inputs : reads(n, b) ELSE rest(n, r.got)
    BY <1>14 DEF n
  <2> QED
    BY <1>1, <1>6, <1>9, <2>1, <2>2
<1>15. CASE rest(IF c.shutdown THEN c ELSE startShutdown(c, "exiting"), r.got)
  <2>1. "exiting" \in Messages
    BY DEF Messages
  <2>2. Same(c, startShutdown(c, "exiting"))
    BY <1>1, <2>1, ShutdownFact DEF Turning
  <2>3. Turning(startShutdown(c, "exiting")) /\ (c.shutdown => startShutdown(c, "exiting").shutdown)
    BY <1>1, <2>2 DEF Turning, Same
  <2> QED
    BY <1>1, <1>6, <1>15, <2>3
<1>16. CASE r.input /\ \E b \in Inputs : reads(c, b)
  BY <1>1, <1>9, <1>16
<1>17. CASE rest(c, r.got)
  BY <1>1, <1>6, <1>17
<1> QED
  BY <1>2, <1>10, <1>11, <1>12, <1>14, <1>15, <1>16, <1>17

\* The bytes of the user and the end of the turn after them.
LEMMA InputInductive ==
  ASSUME LoopInv, inputByte \/ inputDone
  PROVE  LoopInv'
<1>1. CASE inputByte
  <2> DEFINE c == [client EXCEPT !.buf = Tail(@)]
             b == Head(client.buf)
  <2>1. /\ client.proc = "input" /\ client' = userByte(c, b)
        /\ outer' = [outer EXCEPT !.raw = client'.raw, !.open = client'.open] /\ UNCHANGED <<behind, waiting, signals, told>>
    BY <1>1 DEF inputByte
  <2>2. /\ IsClient(c) /\ c.heard = client.heard /\ c.note.heard = client.note.heard /\ c.shutdown = client.shutdown
        /\ c.proc = "input" /\ c.raw = client.raw /\ c.open = client.open
        /\ client.heard = client.note.heard /\ client.raw /\ client.open
    BY <2>1 DEF LoopInv, ClientOK, IsClient, ScreenOK
  <2> HIDE DEF c, b
  <2>3. /\ IsClient(client') /\ client'.heard = client'.note.heard /\ (client.shutdown => client'.shutdown)
        /\ \/ client'.proc = "input" /\ client'.raw /\ client'.open
           \/ client'.proc = "suspended"
    BY <2>1, <2>2, ByteFact
  <2>4. ClientOK'
    BY <2>3 DEF ClientOK, IsClient
  <2>5. SignalOK'
    BY <2>1, <2>3 DEF LoopInv, SignalOK, SignalActedOn
  <2>6. ScreenOK'
    BY <2>1, <2>3 DEF LoopInv, ScreenOK, IsClient
  <2>7. ClockOK'
    BY <2>1, <2>3 DEF LoopInv, ClockOK
  <2>8. BarOK'
    BY <2>3 DEF BarOK
  <2> QED
    BY <2>4, <2>5, <2>6, <2>7, <2>8 DEF LoopInv
<1>2. CASE inputDone
  <2> DEFINE c == [client EXCEPT !.proc = "loop"]
  <2>1. /\ client.proc = "input" /\ client.buf = <<>> /\ rest(c, {}) /\ UNCHANGED <<behind, signals, told>>
    BY <1>2 DEF inputDone
  <2>2. Turning(c) /\ c.shutdown = client.shutdown /\ outer.garbled \in BOOLEAN
    BY <2>1 DEF LoopInv, ClientOK, ScreenOK, IsClient, Turning, Places
  <2> HIDE DEF c
  <2> DEFINE got == {}
  <2>0. rest(c, got) /\ "term" \notin got /\ "cont" \notin got
    BY <2>1
  <2> HIDE DEF got
  <2>3. Leaves \/ Waits(c.shutdown, ~outer.garbled \/ "cont" \in got)
    <3>1. Leaves \/ Waits(c.shutdown \/ "term" \in got, ~outer.garbled \/ "cont" \in got)
      BY <2>0, <2>2, RestFact
    <3> QED
      BY <2>0, <3>1 DEF Waits
  <2>4. told => c.shutdown \/ "term" \in signals'
    BY <2>1, <2>2 DEF LoopInv, SignalOK, SignalActedOn
  <2>5. "cont" \notin signals' => behind' = 0 /\ (~outer.garbled \/ "cont" \in got)
    BY <2>1 DEF LoopInv, ClockOK, ScreenOK
  <2>6. behind' \in 0..MaxAge /\ got \subseteq signals /\ signals' = signals \ got
    BY <2>1 DEF LoopInv, ClockOK, got
  <2> QED
    BY <2>1, <2>3, <2>4, <2>5, <2>6, TurnFact
<1> QED
  BY <1>1, <1>2

\* The start: refused, opened, and into the loop.
LEMMA StartInductive ==
  ASSUME LoopInv, refuse \/ init \/ main_init
  PROVE  LoopInv'
<1>1. CASE refuse \/ init
  <2>1. /\ client.proc = "start" /\ UNCHANGED <<behind, waiting, signals, told>>
        /\ \/ client' = [client EXCEPT !.proc = "ended"] /\ UNCHANGED outer
           \/ /\ client' = [client EXCEPT !.raw = TRUE, !.open = TRUE, !.proc = "opened"]
              /\ outer' = [outer EXCEPT !.raw = TRUE, !.open = TRUE]
    BY <1>1 DEF refuse, init, Ended
  <2>2. ClientOK'
    BY <2>1 DEF LoopInv, ClientOK, IsClient, Places
  <2>3. \/ client'.proc = "ended" /\ UNCHANGED outer
        \/ client'.proc = "opened" /\ client'.raw /\ client'.open /\ outer' = [outer EXCEPT !.raw = TRUE, !.open = TRUE]
    BY <2>1 DEF LoopInv, ClientOK, IsClient
  <2>4. SignalOK'
    BY <2>1, <2>3 DEF LoopInv, SignalOK, SignalActedOn
  <2>5. ScreenOK'
    BY <2>1, <2>3 DEF LoopInv, ScreenOK
  <2>6. ClockOK' /\ BarOK'
    BY <2>1, <2>3 DEF LoopInv, ClockOK, BarOK
  <2> QED
    BY <2>2, <2>4, <2>5, <2>6 DEF LoopInv
<1>2. CASE main_init
  <2>1. client.proc = "opened" /\ UNCHANGED <<behind, signals, told>>
    BY <1>2 DEF main_init
  <2>2. /\ IsClient(client) /\ client.buf = <<>> /\ client.heard = client.note.heard /\ client.raw /\ client.open
        /\ behind = 0 /\ ~told /\ outer.garbled \in BOOLEAN
    BY <2>1 DEF LoopInv, ClientOK, ScreenOK, ClockOK, SignalOK
  <2>3. CASE client' = [client EXCEPT !.proc = "crashed"] /\ UNCHANGED <<outer, bar, waiting>>
    <3>1. ClientOK' /\ client'.proc = "crashed"
      BY <2>2, <2>3 DEF ClientOK, IsClient, Places
    <3>2. SignalOK' /\ ScreenOK' /\ ClockOK' /\ BarOK'
      BY <2>1, <2>2, <2>3, <3>1 DEF LoopInv, SignalOK, SignalActedOn, ScreenOK, ClockOK, BarOK
    <3> QED
      BY <3>1, <3>2 DEF LoopInv
  <2>4. CASE leave(client)
    <3>1. Leaves
      BY <2>2, <2>4, LeavesFact
    <3>2. ScreenOK' /\ BarOK' /\ ClientOK'
      BY <3>1 DEF Leaves, ScreenOK, BarOK
    <3>3. SignalOK'
      BY <2>1, <2>2, <3>1 DEF LoopInv, Leaves, SignalOK, SignalActedOn
    <3>4. ClockOK'
      BY <2>1, <2>2, <3>1, ConstantsFact DEF Leaves, ClockOK
    <3> QED
      BY <3>2, <3>3, <3>4 DEF LoopInv
  <2>5. CASE nextTurn([client EXCEPT !.proc = "loop", !.repaint = TRUE])
    <3> DEFINE c == [client EXCEPT !.proc = "loop", !.repaint = TRUE]
    <3>1. Turning(c) /\ c.repaint /\ c.note = client.note /\ c.num = client.num
      BY <2>2 DEF IsClient, Turning, Places
    <3> HIDE DEF c
    <3>2. client.num = 0
      BY <2>1 DEF LoopInv, ClientOK
    <3>3. Waits(c.shutdown, ~outer.garbled \/ c.repaint)
      BY <2>2, <2>5, <3>1, <3>2, WaitsFact DEF c
    <3>4. ScreenOK' /\ BarOK' /\ ClientOK'
      BY <3>1, <3>3 DEF Waits, ScreenOK
    <3>5. SignalOK'
      BY <2>1, <2>2, <3>3 DEF LoopInv, Waits, SignalOK, SignalActedOn
    <3>6. ClockOK'
      BY <2>1, <2>2, <3>3, ConstantsFact DEF Waits, ClockOK
    <3> QED
      BY <3>4, <3>5, <3>6 DEF LoopInv
  <2> QED
    BY <1>2, <2>3, <2>4, <2>5 DEF main_init
<1> QED
  BY <1>1, <1>2

\* Signals, stops, continuations and the clock.
LEMMA OutsideInductive ==
  ASSUME LoopInv, sendSignal \/ halt \/ continue \/ garble \/ tickClock
  PROVE  LoopInv'
<1>1. CASE sendSignal
  <2>1. PICK g \in {"term", "winch"} :
          /\ client.proc \in {"opened", "loop", "input", "suspended", "halted"}
          /\ told' = (told \/ g = "term")
          /\ IF client.proc = "opened"
             THEN client' = [client EXCEPT !.proc = IF g = "term" THEN "killed" ELSE @] /\ UNCHANGED signals
             ELSE signals' = signals \cup {g} /\ UNCHANGED client
    BY <1>1 DEF sendSignal
  <2>2. UNCHANGED <<outer, bar, behind, waiting>>
    BY <1>1 DEF sendSignal
  <2>3. CASE client.proc = "opened"
    <3>1. ClientOK' /\ UNCHANGED signals /\ client'.raw = client.raw /\ client'.open = client.open
          /\ client'.proc = IF g = "term" THEN "killed" ELSE "opened"
      BY <2>1, <2>3 DEF LoopInv, ClientOK, IsClient, Places
    <3>2. SignalOK'
      BY <2>1, <2>3, <3>1 DEF LoopInv, SignalOK, SignalActedOn
    <3>3. ScreenOK' /\ ClockOK' /\ BarOK'
      BY <2>2, <2>3, <3>1 DEF LoopInv, ScreenOK, ClockOK, BarOK
    <3> QED
      BY <3>1, <3>2, <3>3 DEF LoopInv
  <2>4. CASE client.proc # "opened"
    <3>1. UNCHANGED client /\ signals' = signals \cup {g}
      BY <2>1, <2>4
    <3>2. SignalOK'
      BY <2>1, <2>4, <3>1 DEF LoopInv, SignalOK, SignalActedOn
    <3>3. ScreenOK' /\ ClockOK' /\ ClientOK'
      BY <2>1, <2>2, <3>1 DEF LoopInv, ScreenOK, ClockOK, ClientOK, IsClient
    <3>4. BarOK'
      BY <2>2, <3>1 DEF LoopInv, BarOK, apply, wait_time, need_countup, server_late, reply_late
    <3> QED
      BY <3>2, <3>3, <3>4 DEF LoopInv
  <2> QED
    BY <2>3, <2>4
<1>2. CASE halt
  <2>1. /\ client.proc = "loop" /\ client' = [client EXCEPT !.proc = "halted"]
        /\ outer' = [outer EXCEPT !.raw = FALSE, !.garbled = TRUE] /\ UNCHANGED <<bar, behind, waiting, signals, told>>
    BY <1>2 DEF halt
  <2>2. ClientOK' /\ client'.proc = "halted" /\ client'.raw = client.raw /\ client'.open = client.open
        /\ client'.note = client.note /\ client'.num = client.num /\ client'.shutdown = client.shutdown
    BY <2>1 DEF LoopInv, ClientOK, IsClient, Places
  <2>3. SignalOK'
    BY <2>1, <2>2 DEF LoopInv, SignalOK, SignalActedOn
  <2>4. ScreenOK' /\ ClockOK'
    BY <2>1, <2>2 DEF LoopInv, ScreenOK, ClockOK
  <2>5. BarOK'
    BY <2>1, <2>2 DEF LoopInv, BarOK, apply, wait_time, need_countup, server_late, reply_late
  <2> QED
    BY <2>2, <2>3, <2>4, <2>5 DEF LoopInv
<1>3. CASE continue
  <2>1. CASE client.proc = "halted"
    <3>1. /\ client' = [client EXCEPT !.proc = "loop"] /\ signals' = signals \cup {"cont"}
          /\ UNCHANGED <<outer, bar, waiting, behind, told>>
      BY <1>3, <2>1 DEF continue
    <3>2. ClientOK' /\ client'.proc = "loop" /\ client'.raw = client.raw /\ client'.open = client.open
          /\ client'.note = client.note /\ client'.num = client.num /\ client'.shutdown = client.shutdown
      BY <2>1, <3>1 DEF LoopInv, ClientOK, IsClient, Places
    <3>3. SignalOK'
      BY <2>1, <3>1, <3>2 DEF LoopInv, SignalOK, SignalActedOn
    <3>4. ScreenOK' /\ ClockOK'
      BY <2>1, <3>1, <3>2 DEF LoopInv, ScreenOK, ClockOK
    <3>5. BarOK'
      BY <2>1, <3>1, <3>2 DEF LoopInv, BarOK, apply, wait_time, need_countup, server_late, reply_late
    <3> QED
      BY <3>2, <3>3, <3>4, <3>5 DEF LoopInv
  <2>2. CASE client.proc = "suspended"
    <3>1. /\ client' = afterSuspension(client) /\ outer' = [outer EXCEPT !.raw = TRUE, !.open = TRUE]
          /\ signals' = signals \cup {"cont"} /\ UNCHANGED <<waiting, behind, told>>
      BY <1>3, <2>2 DEF continue
    <3>2. /\ IsClient(client') /\ client'.proc = "input" /\ client'.raw /\ client'.open
          /\ client'.heard = client'.note.heard /\ (client.shutdown => client'.shutdown)
      BY <2>2, <3>1, SuspensionFact DEF LoopInv, ClientOK
    <3>3. SignalOK'
      BY <2>2, <3>1, <3>2 DEF LoopInv, SignalOK, SignalActedOn
    <3>4. ClientOK' /\ ScreenOK' /\ ClockOK' /\ BarOK'
      BY <3>1, <3>2 DEF LoopInv, ClientOK, IsClient, ScreenOK, ClockOK, BarOK
    <3> QED
      BY <3>3, <3>4 DEF LoopInv
  <2> QED
    BY <1>3, <2>1, <2>2 DEF continue
<1>4. CASE garble
  <2>1. /\ client.proc = "suspended" /\ outer' = [outer EXCEPT !.garbled = TRUE]
        /\ UNCHANGED <<client, bar, behind, waiting, signals, told>>
    BY <1>4 DEF garble
  <2> QED
    BY <2>1 DEF LoopInv, ClientOK, IsClient, SignalOK, SignalActedOn, ScreenOK, ClockOK, BarOK
<1>5. CASE tickClock
  <2>1. /\ UNCHANGED <<client, outer, bar, signals, told>> /\ behind' = behind + 1
        /\ \/ /\ client.proc = "loop" /\ signals = {} /\ waiting.time < waiting.timeout
              /\ waiting' = [waiting EXCEPT !.time = @ + 1]
           \/ client.proc \in {"suspended", "halted"} /\ behind < MaxAge /\ UNCHANGED waiting
    BY <1>5 DEF tickClock
  <2>2. ClockOK' /\ waiting'.timeout = waiting.timeout
    BY <2>1, ConstantsFact DEF LoopInv, ClockOK
  <2>3. ClientOK' /\ SignalOK' /\ ScreenOK'
    BY <2>1 DEF LoopInv, ClientOK, IsClient, SignalOK, SignalActedOn, ScreenOK
  <2>4. BarOK'
    BY <2>1, <2>2 DEF LoopInv, BarOK, apply, wait_time, need_countup, server_late, reply_late
  <2> QED
    BY <2>2, <2>3, <2>4 DEF LoopInv
<1> QED
  BY <1>1, <1>2, <1>3, <1>4, <1>5

-----------------------------------------------------------------------------
\* The invariant holds in every state of the client.
THEOREM LoopInvariant == ClientSpec => []LoopInv
<1>1. ClientInit => LoopInv
  <2> SUFFICES ASSUME ClientInit PROVE LoopInv
    OBVIOUS
  <2>1. NotificationEngine \in Notes /\ NotificationEngine.heard = 0
    BY ConstantsFact DEF NotificationEngine, Notes, Messages
  <2>2. PICK e : client = [proc |-> "start", raw |-> FALSE, open |-> FALSE, repaint |-> FALSE, note |-> NotificationEngine,
                           escape |-> e, num |-> 0, heard |-> 0, shutdown |-> FALSE, clean |-> FALSE,
                           started |-> FALSE, lf |-> FALSE, buf |-> <<>>, sent |-> <<>>]
    BY DEF ClientInit
  <2>3. 0 \in 0..MaxAge /\ 0 <= CLIENT_WAKE
    BY ConstantsFact
  <2>4. ClientOK
    BY <2>1, <2>2, <2>3 DEF ClientOK, IsClient, Places
  <2>5. SignalOK /\ ScreenOK
    BY <2>2 DEF ClientInit, SignalOK, SignalActedOn, ScreenOK
  <2>6. ClockOK /\ BarOK
    BY <2>2, <2>3 DEF ClientInit, ClockOK, BarOK
  <2> QED
    BY <2>4, <2>5, <2>6 DEF LoopInv
<1>2. LoopInv /\ [ClientNext]_clientVars => LoopInv'
  <2> SUFFICES ASSUME LoopInv, [ClientNext]_clientVars PROVE LoopInv'
    OBVIOUS
  <2>1. CASE UNCHANGED clientVars
    BY <2>1 DEF clientVars, LoopInv, ClientOK, IsClient, SignalOK, SignalActedOn, ScreenOK, ClockOK, BarOK,
                apply, wait_time, need_countup, server_late, reply_late
  <2> QED
    BY <2>1, LoopTurnInductive, InputInductive, StartInductive, OutsideInductive DEF ClientNext
<1> QED
  BY <1>1, <1>2, PTL DEF ClientSpec

\* A signal to end is never lost (Select, STMClient::main).
THEOREM SignalNeverLost == ClientSpec => []SignalActedOn
<1>1. LoopInv => SignalActedOn
  BY DEF LoopInv, SignalOK
<1> QED
  BY <1>1, LoopInvariant, PTL

\* The terminal is raw and its screen known while the loop runs, and as it
\* was when the program has ended (resume, STMClient::shutdown).
THEOREM TerminalStaysSafe == ClientSpec => []TerminalSafe
<1>1. LoopInv => TerminalSafe
  BY DEF LoopInv, ScreenOK, TerminalSafe, TerminalRestored, ScreenKnown, InLoop
<1> QED
  BY <1>1, LoopInvariant, PTL

\* The bar says that the server is silent at most CLIENT_WAKE late, no message
\* outlives its time, and the diagnostic of a start is taken back
\* (NotificationEngine, STMClient::main).
THEOREM BarIsHonest == ClientSpec => []MessagesHonest
<1>1. ASSUME LoopInv PROVE MessagesHonest
  <2>1. IsClient(client) /\ client.note \in Notes /\ behind \in 0..MaxAge
    BY <1>1 DEF LoopInv, ClientOK, IsClient, ClockOK
  <2>2. ClientTypeOK
    <3>1. {client.heard, client.note.heard, client.note.acked, behind} \subseteq 0..MaxAge
      BY <2>1 DEF IsClient, Notes
    <3>2. client.note.left \in Gone..ERROR_TIME \cup {Forever} /\ client.proc \in Places
      BY <2>1 DEF IsClient, Notes
    <3>3. waiting.time \in 0..waiting.timeout /\ waiting.timeout \in 0..CLIENT_WAKE
      BY <1>1, ConstantsFact DEF LoopInv, ClockOK
    <3> QED
      BY <1>1, <3>1, <3>2, <3>3 DEF LoopInv, ClientOK, ClientTypeOK, Places
  <2>3. ASSUME InLoop, signals = {}
        PROVE  behind = waiting.time /\ bar = apply(client.note) /\ waiting.timeout <= wait_time(client.note)
               /\ client.heard = client.note.heard
    BY <1>1, <2>3 DEF InLoop, LoopInv, ClientOK, ClockOK, BarOK
  <2>4. SilenceShown
    <3> SUFFICES ASSUME InLoop, signals = {}
                 PROVE  /\ older(client.heard, behind) > SERVER_LATE + CLIENT_WAKE => bar.counts = "contact"
                        /\ older(client.note.acked, behind) > REPLY_LATE + CLIENT_WAKE => bar.counts # "nothing"
      BY DEF SilenceShown
    <3>1. behind <= CLIENT_WAKE /\ behind \in Nat
      BY <1>1, <2>3, ConstantsFact DEF LoopInv, ClockOK
    <3>2. client.heard \in 0..MaxAge /\ client.note.acked \in 0..MaxAge /\ client.heard = client.note.heard
      BY <2>1, <2>3 DEF IsClient, Notes
    <3>3. older(client.heard, behind) > SERVER_LATE + CLIENT_WAKE => server_late(client.note)
      BY <3>1, <3>2, ConstantsFact DEF older, server_late
    <3>4. older(client.note.acked, behind) > REPLY_LATE + CLIENT_WAKE => reply_late(client.note)
      BY <3>1, <3>2, ConstantsFact DEF older, reply_late
    <3> QED
      BY <2>3, <3>3, <3>4 DEF apply, need_countup
  <2>5. MessageExpires
    <3> SUFFICES ASSUME InLoop, signals = {}, bar.message # NoMessage, client.note.left # Forever
                 PROVE  behind <= client.note.left
      BY DEF MessageExpires
    <3>1. client.note.message # NoMessage
      BY <2>3 DEF apply
    <3>2. client.note.left > 0 /\ client.note.left \in Int
      BY <1>1, <2>1, <3>1, ConstantsFact DEF InLoop, LoopInv, BarOK, Notes
    <3>3. wait_time(client.note) <= client.note.left
      BY <2>1, <3>2, ConstantsFact DEF wait_time, Notes
    <3>4. behind <= waiting.timeout /\ waiting.timeout <= wait_time(client.note) /\ behind \in Nat /\ waiting.timeout \in Nat
          /\ wait_time(client.note) \in Int
      BY <1>1, <2>1, <2>3, <3>2, ConstantsFact DEF LoopInv, ClockOK, wait_time, Notes
    <3> QED
      BY <3>2, <3>3, <3>4
  <2>6. ConnectingTakenBack
    BY <1>1 DEF LoopInv, BarOK, InLoop, ConnectingTakenBack
  <2> QED
    BY <2>2, <2>4, <2>5, <2>6 DEF MessagesHonest
<1> QED
  BY <1>1, LoopInvariant, PTL

-----------------------------------------------------------------------------
(***************************************************************************)
(* What was typed is what was sent.                                        *)
(***************************************************************************)
\* Every non-empty set of natural numbers has a least element.
LEMMA Minimum ==
  ASSUME NEW T, T \subseteq Nat, T # {}
  PROVE  \E x \in T : \A y \in T : x <= y
<1> DEFINE R == OpToRel(<, Nat)
<1>1. IsWellFoundedOn(R, Nat)
  BY NatLessThanWellFounded
<1>2. R = {ss \in Nat \X Nat : ss[1] < ss[2]}
  BY DEF OpToRel
<1> HIDE DEF R
<1>3. PICK x \in T : \A y \in T : ~(<<y, x>> \in R)
  BY <1>1, WFMin
<1>4. \A y \in T : ~(y < x)
  <2> TAKE y \in T
  <2>1. <<y, x>> \in R <=> y < x
    BY <1>2
  <2> QED BY <1>3, <2>1
<1> QED BY <1>3, <1>4

\* The byte at i begins a command when S has the earlier ones that do.
First(bytes, escape, S, i) ==
  /\ escape.on /\ bytes[i] = "^" /\ i - 1 \notin S
  /\ escape.lf => i > 1 /\ bytes[i - 1] = "n" /\ i - 2 \notin S

\* The functions that the definitions of begins and FlattenSeq choose.
Upto(u, bytes, escape, n) ==
  u = [i \in 0..n |-> IF i = 0 THEN {} ELSE IF First(bytes, escape, u[i - 1], i) THEN u[i - 1] \cup {i} ELSE u[i - 1]]

Joins(f, seqs, n) == f = [i \in 1..n |-> IF i = 1 THEN seqs[i] ELSE f[i - 1] \o seqs[i]]

\* They exist.
LEMMA UptoExists ==
  ASSUME NEW bytes, NEW escape, NEW n \in Nat
  PROVE  \E u : Upto(u, bytes, escape, n)
<1> DEFINE G(S, i) == IF First(bytes, escape, S, i) THEN S \cup {i} ELSE S
           Loop(u, m) == u = [i \in 0..m |-> IF i = 0 THEN {} ELSE G(u[i - 1], i)]
           T == {m \in Nat : ~\E u : Loop(u, m)}
<1>1. SUFFICES T = {}
  <2>1. n \notin T
    BY <1>1
  <2> QED BY <2>1 DEF Upto
<1> HIDE DEF G
<1>2. SUFFICES ASSUME T # {} PROVE FALSE
  OBVIOUS
<1>3. PICK m \in T : \A y \in T : m <= y
  BY <1>2, Minimum
<1>4. m \in Nat /\ ~\E u : Loop(u, m)
  BY <1>3
<1>5. CASE m = 0
  <2> DEFINE u == [i \in 0..0 |-> {}]
  <2>1. Loop(u, 0)
    OBVIOUS
  <2> QED BY <1>4, <1>5, <2>1
<1>6. CASE m # 0
  <2>1. m - 1 \in Nat /\ m - 1 \notin T
    <3> HIDE DEF T
    <3> QED BY <1>3, <1>4, <1>6
  <2>2. PICK u : Loop(u, m - 1)
    BY <2>1
  <2> DEFINE g == [i \in 0..m |-> IF i = m THEN G(u[m - 1], m) ELSE u[i]]
             h == [i \in 0..m |-> IF i = 0 THEN {} ELSE G(g[i - 1], i)]
  <2>3. \A i \in 0..m : g[i] = h[i]
    <3> TAKE i \in 0..m
    <3>1. CASE i = m
      <4>1. g[i - 1] = u[m - 1]
        BY <3>1, <1>4, <1>6
      <4> QED BY <3>1, <4>1, <1>4, <1>6
    <3>2. CASE i = 0
      BY <3>2, <2>2, <1>4, <1>6
    <3>3. CASE i # 0 /\ i # m
      <4>1. g[i - 1] = u[i - 1] /\ g[i] = u[i] /\ i \in 0..(m - 1)
        BY <3>3, <1>4, <1>6
      <4>2. u[i] = G(u[i - 1], i)
        BY <4>1, <2>2, <3>3
      <4> QED BY <4>1, <4>2, <3>3
    <3> QED BY <3>1, <3>2, <3>3
  <2>4. g = h
    BY <2>3
  <2>5. Loop(g, m)
    BY <2>4
  <2> QED BY <1>4, <2>5
<1> QED BY <1>5, <1>6

\* They exist: FlattenSeq.
LEMMA JoinsExists ==
  ASSUME NEW seqs, NEW n \in Nat
  PROVE  \E f : Joins(f, seqs, n)
<1> DEFINE Loop(f, m) == f = [i \in 1..m |-> IF i = 1 THEN seqs[i] ELSE f[i - 1] \o seqs[i]]
           T == {m \in Nat : ~\E f : Loop(f, m)}
<1>1. SUFFICES T = {}
  <2>1. n \notin T
    BY <1>1
  <2> QED BY <2>1 DEF Joins
<1>2. SUFFICES ASSUME T # {} PROVE FALSE
  OBVIOUS
<1>3. PICK m \in T : \A y \in T : m <= y
  BY <1>2, Minimum
<1>4. m \in Nat /\ ~\E f : Loop(f, m)
  BY <1>3
<1>5. CASE m = 0
  <2> DEFINE f == [i \in 1..0 |-> {}]
  <2>1. Loop(f, 0)
    OBVIOUS
  <2> QED BY <1>4, <1>5, <2>1
<1>6. CASE m # 0
  <2>1. m - 1 \in Nat /\ m - 1 \notin T
    <3> HIDE DEF T
    <3> QED BY <1>3, <1>4, <1>6
  <2>2. PICK f : Loop(f, m - 1)
    BY <2>1
  <2> DEFINE last == IF m = 1 THEN seqs[1] ELSE f[m - 1] \o seqs[m]
             g == [i \in 1..m |-> IF i = m THEN last ELSE f[i]]
             h == [i \in 1..m |-> IF i = 1 THEN seqs[i] ELSE g[i - 1] \o seqs[i]]
  <2>3. \A i \in 1..m : g[i] = h[i]
    <3> TAKE i \in 1..m
    <3>1. CASE i = m /\ m = 1
      BY <3>1, <1>4, <1>6
    <3>2. CASE i = m /\ m # 1
      <4>1. g[i - 1] = f[m - 1]
        BY <3>2, <1>4, <1>6
      <4> QED BY <3>2, <4>1, <1>4, <1>6
    <3>3. CASE i # m
      <4>1. g[i] = f[i] /\ i \in 1..(m - 1) /\ (i # 1 => g[i - 1] = f[i - 1])
        BY <3>3, <1>4, <1>6
      <4>2. f[i] = IF i = 1 THEN seqs[i] ELSE f[i - 1] \o seqs[i]
        BY <4>1, <2>2
      <4> QED BY <4>1, <4>2
    <3> QED BY <3>1, <3>2, <3>3
  <2>4. g = h
    BY <2>3
  <2>5. Loop(g, m)
    BY <2>4
  <2> QED BY <1>4, <2>5
<1> QED BY <1>5, <1>6

\* Which bytes begin a command, byte by byte.
LEMMA BeginsFact ==
  ASSUME NEW bytes, Len(bytes) \in Nat, NEW escape
  PROVE  /\ begins(bytes, escape) \subseteq 1..Len(bytes)
         /\ \A i \in 1..Len(bytes) : i \in begins(bytes, escape) <=> First(bytes, escape, begins(bytes, escape), i)
<1> DEFINE n == Len(bytes)
           u == CHOOSE v : Upto(v, bytes, escape, n)
           Right(S, m) == S \subseteq 1..m /\ \A i \in 1..m : i \in S <=> First(bytes, escape, S, i)
           T == {m \in 0..n : ~Right(u[m], m)}
<1>1. begins(bytes, escape) = u[n]
  BY DEF begins, Upto, First
<1>2. Upto(u, bytes, escape, n)
  <2>1. \E v : Upto(v, bytes, escape, n)
    BY UptoExists
  <2> QED BY <2>1
<1>0. n \in Nat
  OBVIOUS
<1> HIDE DEF u, n
<1>3. /\ u[0] = {}
      /\ \A i \in 1..n : u[i] = IF First(bytes, escape, u[i - 1], i) THEN u[i - 1] \cup {i} ELSE u[i - 1]
  <2> DEFINE G(i) == IF i = 0 THEN {} ELSE IF First(bytes, escape, u[i - 1], i) THEN u[i - 1] \cup {i} ELSE u[i - 1]
  <2>1. u = [i \in 0..n |-> G(i)]
    BY <1>2 DEF Upto
  <2> HIDE DEF G
  <2>2. \A i \in 0..n : u[i] = G(i)
    BY <2>1
  <2>3. 0 \in 0..n /\ \A i \in 1..n : i \in 0..n /\ i # 0
    BY <1>0
  <2>4. G(0) = {} /\ \A i \in 1..n : G(i) = IF First(bytes, escape, u[i - 1], i) THEN u[i - 1] \cup {i} ELSE u[i - 1]
    BY <2>3 DEF G
  <2> QED BY <2>2, <2>3, <2>4
<1>4. T = {}
  <2> SUFFICES ASSUME T # {} PROVE FALSE
    OBVIOUS
  <2>1. PICK m \in T : \A y \in T : m <= y
    <3>1. T \subseteq Nat
      OBVIOUS
    <3> HIDE DEF T
    <3> QED BY <3>1, Minimum
  <2>2. m \in 0..n /\ ~Right(u[m], m)
    BY <2>1
  <2>3. m # 0
    BY <2>2, <1>3
  <2>4. m - 1 \in 0..n /\ m - 1 \notin T /\ m \in 1..n
    <3> HIDE DEF T
    <3> QED BY <1>0, <2>1, <2>2, <2>3
  <2> DEFINE S == u[m - 1]
             U == u[m]
  <2>5. S \subseteq 1..(m - 1) /\ \A i \in 1..(m - 1) : i \in S <=> First(bytes, escape, S, i)
    BY <2>4
  <2>6. U = IF First(bytes, escape, S, m) THEN S \cup {m} ELSE S
    BY <1>3, <2>4
  <2> HIDE DEF S, U, T
  <2>7. U \subseteq 1..m /\ \A i \in 0..(m - 1) : i \in U <=> i \in S
    BY <2>4, <2>5, <2>6
  <2>8. ASSUME NEW i \in 1..m PROVE First(bytes, escape, U, i) <=> First(bytes, escape, S, i)
    <3>1. i - 1 \in U <=> i - 1 \in S
      BY <2>4, <2>7
    <3>2. i - 2 \in U <=> i - 2 \in S
      <4>1. CASE i = 1
        BY <4>1, <2>4, <2>5, <2>7
      <4>2. CASE i # 1
        <5>1. i - 2 \in 0..(m - 1)
          BY <4>2, <2>4
        <5> QED BY <5>1, <2>7
      <4> QED BY <4>1, <4>2
    <3> QED BY <3>1, <3>2 DEF First
  <2>9. ASSUME NEW i \in 1..m PROVE i \in U <=> First(bytes, escape, U, i)
    <3>1. CASE i = m
      <4>1. m \in U <=> First(bytes, escape, S, m)
        <5>1. m \notin S
          BY <2>4, <2>5
        <5> QED BY <5>1, <2>6
      <4> QED BY <3>1, <4>1, <2>8
    <3>2. CASE i # m
      <4>1. i \in 1..(m - 1) /\ i \in 0..(m - 1)
        BY <3>2, <2>4
      <4> QED BY <4>1, <2>5, <2>7, <2>8
    <3> QED BY <3>1, <3>2
  <2>10. Right(u[m], m)
    BY <2>7, <2>9 DEF U
  <2> QED BY <2>2, <2>10
<1>5. n \in 0..n
  BY <1>0
<1>6. Right(u[n], n)
  BY <1>4, <1>5
<1> QED BY <1>1, <1>6 DEF n

\* More bytes change nothing for the ones before.
LEMMA BeginsPrefix ==
  ASSUME NEW k \in Seq(STRING), NEW l \in Seq(STRING), Len(k) <= Len(l), \A i \in 1..Len(k) : l[i] = k[i], NEW escape
  PROVE  \A i \in 1..Len(k) : i \in begins(l, escape) <=> i \in begins(k, escape)
<1> DEFINE S == begins(k, escape)
           U == begins(l, escape)
           T == {i \in 1..Len(k) : ~(i \in U <=> i \in S)}
<1>1. /\ S \subseteq 1..Len(k) /\ \A i \in 1..Len(k) : i \in S <=> First(k, escape, S, i)
      /\ U \subseteq 1..Len(l) /\ \A i \in 1..Len(l) : i \in U <=> First(l, escape, U, i)
  BY BeginsFact
<1> HIDE DEF S, U
<1>2. T = {}
  <2> SUFFICES ASSUME T # {} PROVE FALSE
    OBVIOUS
  <2>1. PICK m \in T : \A y \in T : m <= y
    <3>1. T \subseteq Nat
      OBVIOUS
    <3> HIDE DEF T
    <3> QED BY <3>1, Minimum
  <2>2. m \in 1..Len(k) /\ m \in 1..Len(l) /\ l[m] = k[m] /\ ~(m \in U <=> m \in S)
    BY <2>1
  <2>3. ASSUME NEW i \in Int, i < m PROVE i \in U <=> i \in S
    <3>1. CASE i >= 1
      <4>1. i \in 1..Len(k) /\ i \notin T
        <5> HIDE DEF T
        <5> QED BY <3>1, <2>1, <2>2, <2>3
      <4> QED BY <4>1
    <3>2. CASE ~(i >= 1)
      BY <3>2, <1>1
    <3> QED BY <3>1, <3>2
  <2>4. /\ m - 1 \in U <=> m - 1 \in S
        /\ m - 2 \in U <=> m - 2 \in S
    BY <2>2, <2>3
  <2>5. m > 1 => l[m - 1] = k[m - 1]
    BY <2>2
  <2>6. First(l, escape, U, m) <=> First(k, escape, S, m)
    BY <2>2, <2>4, <2>5 DEF First
  <2> QED BY <1>1, <2>2, <2>6
<1> QED BY <1>2 DEF S, U

\* So they mean what they meant.
LEMMA SaidPrefix ==
  ASSUME NEW k \in Seq(STRING), NEW l \in Seq(STRING), Len(k) <= Len(l), \A i \in 1..Len(k) : l[i] = k[i],
         NEW escape, NEW i \in 1..Len(k)
  PROVE  said(l, escape, i) = said(k, escape, i)
<1> DEFINE S == begins(k, escape)
           U == begins(l, escape)
<1>1. /\ S \subseteq 1..Len(k) /\ U \subseteq 1..Len(l) /\ \A j \in 1..Len(k) : j \in U <=> j \in S
  BY BeginsFact, BeginsPrefix
<1> HIDE DEF S, U
<1>2. \A j \in 0..Len(k) : j \in U <=> j \in S
  BY <1>1
<1>3. (i \in U <=> i \in S) /\ (i - 1 \in U <=> i - 1 \in S) /\ l[i] = k[i]
  BY <1>2
<1>4. (\E q \in {j \in 1..Len(l) : j - 1 \in U /\ l[j] = "."} : q <= i) <=> (\E q \in {j \in 1..Len(k) : j - 1 \in S /\ k[j] = "."} : q <= i)
  <2>1. ASSUME NEW j \in 1..Len(l), j <= i
        PROVE  j \in 1..Len(k) /\ l[j] = k[j] /\ (j - 1 \in U <=> j - 1 \in S)
    <3>1. j \in 1..Len(k) /\ j - 1 \in 0..Len(k)
      BY <2>1
    <3> QED BY <3>1, <1>2
  <2>2. \A j \in 1..Len(k) : j \in 1..Len(l)
    OBVIOUS
  <2> QED BY <2>1, <2>2
<1> QED BY <1>3, <1>4 DEF said, S, U

\* A sequence of sequences, joined with one more.
LEMMA FlattenStep ==
  ASSUME NEW B, NEW s \in Seq(Seq(B)), NEW x \in Seq(B)
  PROVE  FlattenSeq(s) \in Seq(B) /\ FlattenSeq(Append(s, x)) = FlattenSeq(s) \o x
<1> DEFINE t == Append(s, x)
           n == Len(s)
           f == CHOOSE h : Joins(h, s, n)
           g == CHOOSE h : Joins(h, t, Len(t))
           T == {i \in 1..n : ~(g[i] = f[i] /\ f[i] \in Seq(B))}
<1>1. n \in Nat /\ Len(t) = n + 1 /\ t[n + 1] = x /\ \A i \in 1..n : t[i] = s[i] /\ s[i] \in Seq(B)
  OBVIOUS
<1>2. FlattenSeq(s) = IF n = 0 THEN s ELSE f[n]
  BY DEF FlattenSeq, Joins
<1>3. FlattenSeq(t) = IF Len(t) = 0 THEN t ELSE g[Len(t)]
  BY DEF FlattenSeq, Joins
<1>4. Joins(f, s, n) /\ Joins(g, t, n + 1)
  <2>1. \E h : Joins(h, s, n)
    BY <1>1, JoinsExists
  <2>2. \E h : Joins(h, t, Len(t))
    <3> HIDE DEF t
    <3>1. Len(t) \in Nat
      BY <1>1
    <3> QED BY <3>1, JoinsExists
  <2> QED BY <1>1, <2>1, <2>2
<1> HIDE DEF f, g, t
<1>5. /\ \A i \in 1..n : f[i] = IF i = 1 THEN s[i] ELSE f[i - 1] \o s[i]
      /\ \A i \in 1..(n + 1) : g[i] = IF i = 1 THEN t[i] ELSE g[i - 1] \o t[i]
  BY <1>4 DEF Joins
<1>6. T = {}
  <2> SUFFICES ASSUME T # {} PROVE FALSE
    OBVIOUS
  <2>1. PICK m \in T : \A y \in T : m <= y
    <3>1. T \subseteq Nat
      OBVIOUS
    <3> HIDE DEF T
    <3> QED BY <3>1, Minimum
  <2>2. m \in 1..n /\ m \in 1..(n + 1) /\ ~(g[m] = f[m] /\ f[m] \in Seq(B))
    BY <1>1, <2>1
  <2>3. CASE m = 1
    BY <1>1, <1>5, <2>2, <2>3
  <2>4. CASE m # 1
    <3>1. m - 1 \in 1..n /\ m - 1 \notin T
      <4> HIDE DEF T
      <4> QED BY <2>1, <2>2, <2>4, <1>1
    <3>2. g[m - 1] = f[m - 1] /\ f[m - 1] \in Seq(B)
      BY <3>1
    <3>3. f[m] = f[m - 1] \o s[m] /\ g[m] = g[m - 1] \o t[m] /\ t[m] = s[m] /\ s[m] \in Seq(B)
      BY <1>1, <1>5, <2>2, <2>4
    <3>4. f[m - 1] \o s[m] \in Seq(B)
      BY <3>2, <3>3, ConcatProperties
    <3> QED BY <2>2, <3>2, <3>3, <3>4
  <2> QED BY <2>3, <2>4
<1>7. CASE n = 0
  <2>1. FlattenSeq(s) = <<>> /\ s = <<>>
    BY <1>2, <1>7
  <2>2. FlattenSeq(t) = x
    BY <1>1, <1>3, <1>5, <1>7
  <2>3. <<>> \o x = x
    BY ConcatEmptySeq
  <2> QED BY <2>1, <2>2, <2>3 DEF t
<1>8. CASE n # 0
  <2>1. n \in 1..n /\ n + 1 \in 1..(n + 1) /\ n + 1 # 1
    BY <1>1, <1>8
  <2>2. g[n] = f[n] /\ f[n] \in Seq(B)
    BY <1>6, <2>1
  <2>3. g[n + 1] = g[(n + 1) - 1] \o x
    BY <1>1, <1>5, <2>1
  <2>4. (n + 1) - 1 = n
    BY <1>1
  <2>5. FlattenSeq(s) = f[n]
    BY <1>2, <1>8
  <2>6. FlattenSeq(t) = g[n + 1]
    BY <1>1, <1>3
  <2>7. FlattenSeq(t) = FlattenSeq(s) \o x
    BY <2>2, <2>3, <2>4, <2>5, <2>6
  <2> QED BY <2>2, <2>5, <2>7 DEF t
<1> QED BY <1>7, <1>8

\* What is to be sent for the first m bytes.
Said(k, e, m) == FlattenSeq([i \in 1..m |-> said(k, e, i)])

\* The byte at q quits.
Quits(k, e, q) == q - 1 \in begins(k, e) /\ k[q] = "."

\* The escape key is a byte (the provers do not know that a string is one).
Bytes == STRING \cup {"^"}

\* What is said for a byte is a sequence of bytes.
LEMMA SaidType ==
  ASSUME NEW k \in Seq(STRING), NEW e, NEW i \in 1..Len(k)
  PROVE  said(k, e, i) \in Seq(Bytes)
<1>1. k[i] \in Bytes /\ "^" \in Bytes
  BY DEF Bytes
<1>2. ASSUME NEW B, NEW a \in B, NEW b \in B PROVE <<>> \in Seq(B) /\ <<a>> \in Seq(B) /\ <<b>> \in Seq(B) /\ <<b, a>> \in Seq(B)
  OBVIOUS
<1>3. /\ <<>> \in Seq(Bytes) /\ <<k[i]>> \in Seq(Bytes) /\ <<"^">> \in Seq(Bytes) /\ <<"^", k[i]>> \in Seq(Bytes)
  BY <1>1, <1>2
<1> QED BY <1>3 DEF said

\* Byte by byte.
LEMMA SaidStep ==
  ASSUME NEW k \in Seq(STRING), NEW e, NEW m \in Nat, m < Len(k)
  PROVE  /\ Said(k, e, m) \in Seq(Bytes)
         /\ Said(k, e, m + 1) = Said(k, e, m) \o said(k, e, m + 1)
<1> DEFINE s == [i \in 1..m |-> said(k, e, i)]
           t == [i \in 1..(m + 1) |-> said(k, e, i)]
           x == said(k, e, m + 1)
<1>1. \A i \in 1..(m + 1) : said(k, e, i) \in Seq(Bytes)
  BY SaidType
<1>2. s \in Seq(Seq(Bytes)) /\ x \in Seq(Bytes) /\ Len(s) = m
  BY <1>1
<1>3. t = Append(s, x)
  <2>1. t \in Seq(Seq(Bytes)) /\ Len(t) = m + 1
    BY <1>1
  <2>2. Append(s, x) \in Seq(Seq(Bytes)) /\ Len(Append(s, x)) = m + 1
    BY <1>2
  <2>3. \A i \in 1..(m + 1) : t[i] = Append(s, x)[i]
    <3> TAKE i \in 1..(m + 1)
    <3>1. CASE i = m + 1
      BY <1>2, <3>1
    <3>2. CASE i # m + 1
      BY <1>2, <3>2
    <3> QED BY <3>1, <3>2
  <2> HIDE DEF s, t, x
  <2> QED BY <2>1, <2>2, <2>3, SeqEqual
<1> HIDE DEF s, t, x
<1>4. FlattenSeq(s) \in Seq(Bytes) /\ FlattenSeq(t) = FlattenSeq(s) \o x
  BY <1>2, <1>3, FlattenStep
<1> QED BY <1>4 DEF Said, s, t, x

\* Nothing is said for no bytes.
LEMMA SaidNothing ==
  ASSUME NEW k, NEW e
  PROVE  Said(k, e, 0) = <<>>
<1>1. [i \in 1..0 |-> said(k, e, i)] = <<>>
  OBVIOUS
<1>2. FlattenSeq(<<>>) = <<>>
  BY DEF FlattenSeq
<1> QED BY <1>1, <1>2 DEF Said

\* More bytes change nothing for the ones before.
LEMMA SaidExtend ==
  ASSUME NEW k \in Seq(STRING), NEW l \in Seq(STRING), Len(k) <= Len(l), \A i \in 1..Len(k) : l[i] = k[i],
         NEW e, NEW m \in 0..Len(k)
  PROVE  Said(l, e, m) = Said(k, e, m)
<1>1. \A i \in 1..m : said(l, e, i) = said(k, e, i)
  <2> TAKE i \in 1..m
  <2>1. i \in 1..Len(k)
    OBVIOUS
  <2> QED BY <2>1, SaidPrefix
<1>2. [i \in 1..m |-> said(l, e, i)] = [i \in 1..m |-> said(k, e, i)]
  BY <1>1
<1> QED BY <1>2 DEF Said

\* Nothing after a quit.
LEMMA SaidQuit ==
  ASSUME NEW k \in Seq(STRING), NEW e, NEW m \in Nat, m < Len(k), Quits(k, e, m + 1)
  PROVE  Said(k, e, Len(k)) = Said(k, e, m)
<1> DEFINE n == Len(k)
           T == {i \in m..n : Said(k, e, i) # Said(k, e, m)}
<1>1. n \in Nat /\ m + 1 \in 1..n
  OBVIOUS
<1>2. ASSUME NEW i \in 1..n, i > m PROVE said(k, e, i) = <<>>
  <2> DEFINE S == begins(k, e)
             Q == {q \in 1..n : q - 1 \in S /\ k[q] = "."}
  <2>1. m + 1 \in Q
    <3>1. (m + 1) - 1 \in S /\ k[m + 1] = "."
      BY DEF Quits
    <3> QED BY <1>1, <3>1
  <2>2. m + 1 <= i
    BY <1>2
  <2>3. \E q \in Q : q <= i
    BY <2>1, <2>2
  <2> QED BY <2>3 DEF said
<1>3. T = {}
  <2> SUFFICES ASSUME T # {} PROVE FALSE
    OBVIOUS
  <2>1. PICK j \in T : \A y \in T : j <= y
    <3>1. T \subseteq Nat
      BY <1>1
    <3> HIDE DEF T
    <3> QED BY <3>1, Minimum
  <2>2. j \in m..n /\ Said(k, e, j) # Said(k, e, m) /\ j # m
    BY <2>1
  <2>3. j - 1 \in m..n /\ j - 1 \notin T /\ j \in 1..n /\ j > m
    <3> HIDE DEF T
    <3> QED BY <1>1, <2>1, <2>2
  <2>4. Said(k, e, j - 1) = Said(k, e, m)
    BY <2>3
  <2>5. said(k, e, j) = <<>>
    BY <1>2, <2>3
  <2> DEFINE p == j - 1
  <2>6. p \in Nat /\ p < Len(k) /\ p + 1 = j
    BY <1>1, <2>3
  <2>7. Said(k, e, p) \in Seq(Bytes) /\ Said(k, e, p + 1) = Said(k, e, p) \o said(k, e, p + 1)
    <3> HIDE DEF p
    <3> QED BY <2>6, SaidStep
  <2>8. Said(k, e, p) \o <<>> = Said(k, e, p)
    BY <2>7, ConcatEmptySeq
  <2>9. Said(k, e, j) = Said(k, e, p) \o <<>>
    <3> HIDE DEF p
    <3> QED BY <2>5, <2>6, <2>7
  <2> QED BY <2>2, <2>4, <2>8, <2>9
<1>4. n \in m..n
  BY <1>1
<1> QED BY <1>3, <1>4

\* A client, whatever its fields are.
IsRecord(c) ==
  c \in [proc : {c.proc}, raw : {c.raw}, open : {c.open}, repaint : {c.repaint}, note : {c.note}, escape : {c.escape},
         num : {c.num}, heard : {c.heard}, shutdown : {c.shutdown}, clean : {c.clean}, started : {c.started}, lf : {c.lf},
         buf : {c.buf}, sent : {c.sent}]

\* From c to d no byte was read, taken or sent.
Kept(c, d) ==
  /\ IsRecord(d)
  /\ d.escape = c.escape /\ d.started = c.started /\ d.lf = c.lf /\ d.buf = c.buf /\ d.sent = c.sent
  /\ c.shutdown => d.shutdown

\* A message, the clock, the network and the terminal have nothing to do with the bytes.
LEMMA KeptFact ==
  ASSUME NEW c, IsRecord(c)
  PROVE  /\ \A m, p, y : Kept(c, set_notification_string(c, m, p, y)) /\ set_notification_string(c, m, p, y).proc = c.proc
         /\ \A m : Kept(c, startShutdown(c, m)) /\ startShutdown(c, m).proc = c.proc
         /\ Kept(c, set_network_error(c)) /\ set_network_error(c).proc = c.proc
         /\ Kept(c, clear_network_error(c)) /\ clear_network_error(c).proc = c.proc
         /\ Kept(c, adjust_message(c)) /\ adjust_message(c).proc = c.proc
         /\ Kept(c, resume(c)) /\ resume(c).proc = c.proc
         /\ \A d : Kept(c, freeze(c, d)) /\ freeze(c, d).proc = c.proc
         /\ \A n, a : Kept(c, process_network_input(c, n, a)) /\ process_network_input(c, n, a).proc = c.proc
<1>1. ASSUME NEW d, NEW n, d = [c EXCEPT !.note = n] PROVE Kept(c, d) /\ d.proc = c.proc
  BY <1>1 DEF IsRecord, Kept
<1>2. \A m, p, y : Kept(c, set_notification_string(c, m, p, y)) /\ set_notification_string(c, m, p, y).proc = c.proc
  BY <1>1 DEF set_notification_string
<1>3. ASSUME NEW m PROVE Kept(c, startShutdown(c, m)) /\ startShutdown(c, m).proc = c.proc
  <2> DEFINE d == set_notification_string(c, m, TRUE, TRUE)
  <2>1. Kept(c, d) /\ d.proc = c.proc
    BY <1>2
  <2>2. startShutdown(c, m) = [d EXCEPT !.shutdown = TRUE]
    BY DEF startShutdown
  <2> HIDE DEF d
  <2> QED BY <2>1, <2>2 DEF Kept, IsRecord
<1>4. Kept(c, set_network_error(c)) /\ set_network_error(c).proc = c.proc
  BY <1>1 DEF set_network_error
<1>5. Kept(c, clear_network_error(c)) /\ clear_network_error(c).proc = c.proc
  BY <1>1 DEF clear_network_error, IsRecord
<1>6. Kept(c, adjust_message(c)) /\ adjust_message(c).proc = c.proc
  <2>1. Kept(c, c)
    BY DEF Kept
  <2> QED BY <1>1, <2>1 DEF adjust_message, IsRecord
<1>7. Kept(c, resume(c)) /\ resume(c).proc = c.proc
  BY DEF resume, Kept, IsRecord
<1>8. ASSUME NEW d, NEW h, NEW n, d = [c EXCEPT !.heard = h, !.note = n] PROVE Kept(c, d) /\ d.proc = c.proc
  BY <1>8 DEF IsRecord, Kept
<1>9. ASSUME NEW d PROVE Kept(c, freeze(c, d)) /\ freeze(c, d).proc = c.proc
  <2> DEFINE n == older_note(c.note, d, IF c.note.left \in {Forever, Gone} THEN c.note.left ELSE IF c.note.left < d THEN Gone ELSE c.note.left - d)
             h == older(c.heard, d)
  <2>1. freeze(c, d) = [c EXCEPT !.heard = h, !.note = n]
    BY DEF freeze, IsRecord
  <2> HIDE DEF n, h
  <2> QED BY <1>8, <2>1
<1>10. ASSUME NEW x, NEW a PROVE Kept(c, process_network_input(c, x, a)) /\ process_network_input(c, x, a).proc = c.proc
  <2> DEFINE h == IF x THEN 0 ELSE c.heard
  <2>1. process_network_input(c, x, a) = [c EXCEPT !.num = IF x THEN 1 ELSE @, !.heard = h, !.note.heard = h, !.note.acked = IF a THEN 0 ELSE @]
    BY DEF process_network_input
  <2> HIDE DEF h
  <2> QED BY <2>1 DEF Kept, IsRecord
<1> QED BY <1>2, <1>3, <1>4, <1>5, <1>6, <1>7, <1>9, <1>10

\* Nor has what connecting says.
LEMMA ConnectingKept ==
  ASSUME NEW c, IsRecord(c)
  PROVE  Kept(c, connecting(c)) /\ connecting(c).proc = c.proc
<1>1. Kept(c, c)
  BY DEF Kept
<1>2. /\ Kept(c, startShutdown(c, "timeout")) /\ startShutdown(c, "timeout").proc = c.proc
      /\ Kept(c, set_notification_string(c, "connecting", FALSE, TRUE)) /\ set_notification_string(c, "connecting", FALSE, TRUE).proc = c.proc
      /\ Kept(c, set_notification_string(c, NoMessage, FALSE, TRUE)) /\ set_notification_string(c, NoMessage, FALSE, TRUE).proc = c.proc
  <2>1. \A m, p, y : Kept(c, set_notification_string(c, m, p, y)) /\ set_notification_string(c, m, p, y).proc = c.proc
    BY KeptFact, Zenon
  <2>2. \A m : Kept(c, startShutdown(c, m)) /\ startShutdown(c, m).proc = c.proc
    BY KeptFact, Zenon
  <2> QED BY <2>1, <2>2, Zenon
<1>3. connecting(c) \in {c, startShutdown(c, "timeout"), set_notification_string(c, "connecting", FALSE, TRUE),
                         set_notification_string(c, NoMessage, FALSE, TRUE)}
  BY DEF connecting
<1> QED BY <1>1, <1>2, <1>3

\* The end of a turn.
LEMMA NextTurnKept ==
  ASSUME NEW c, IsRecord(c), nextTurn(c)
  PROVE  Kept(c, client') /\ client'.proc = c.proc
<1> DEFINE a == adjust_message(c)
<1>1. Kept(c, a) /\ a.proc = c.proc
  BY KeptFact
<1>2. client' = [a EXCEPT !.repaint = FALSE]
  BY DEF nextTurn
<1> HIDE DEF a
<1> QED BY <1>1, <1>2 DEF Kept, IsRecord

\* The end of the program.
LEMMA LeaveKept ==
  ASSUME NEW c, IsRecord(c), leave(c)
  PROVE  Kept(c, client') /\ client'.proc = "ended"
<1> DEFINE s == set_notification_string(c, NoMessage, FALSE, TRUE)
           h == [s EXCEPT !.note.heard = 0]
<1>1. Kept(c, s)
  BY KeptFact
<1>2. client' = [[h EXCEPT !.raw = FALSE, !.open = FALSE] EXCEPT !.proc = "ended"]
  BY DEF leave, shutdown, Ended, closeTerminal
<1> HIDE DEF s
<1>3. Kept(c, h)
  BY <1>1 DEF Kept, IsRecord
<1> HIDE DEF h
<1> QED BY <1>2, <1>3 DEF Kept, IsRecord

\* The rest of a turn.
LEMMA RestKept ==
  ASSUME NEW c, IsRecord(c), NEW got, rest(c, got)
  PROVE  Kept(c, client') /\ client'.proc \in {c.proc, "ended"}
<1> DEFINE c1 == IF "cont" \in got THEN resume(c) ELSE c
           c2 == IF "term" \in got /\ ~c1.shutdown THEN startShutdown(c1, "signal") ELSE c1
           c3 == connecting(c2)
           c4 == [c2 EXCEPT !.clean = TRUE]
           c5 == set_network_error(c3)
           c6 == clear_network_error(c3)
<1>0. \/ leave(c) \/ leave(c4) \/ leave(c2) \/ nextTurn(c5) \/ nextTurn(c6)
  BY DEF rest
<1>1. Kept(c, c1) /\ c1.proc = c.proc
  <2>1. Kept(c, c)
    BY DEF Kept
  <2> QED BY <2>1, KeptFact
<1> HIDE DEF c1
<1>2. IsRecord(c1)
  BY <1>1 DEF Kept
<1>3. Kept(c, c2) /\ c2.proc = c.proc
  <2>1. Kept(c1, startShutdown(c1, "signal")) /\ startShutdown(c1, "signal").proc = c1.proc
    BY <1>2, KeptFact
  <2> QED BY <1>1, <2>1 DEF Kept
<1> HIDE DEF c2
<1>4. IsRecord(c2)
  BY <1>3 DEF Kept
<1>5. Kept(c, c3) /\ c3.proc = c.proc
  <2>1. Kept(c2, c3) /\ c3.proc = c2.proc
    BY <1>4, ConnectingKept
  <2> HIDE DEF c3
  <2> QED BY <1>3, <2>1 DEF Kept
<1>6. Kept(c, c4)
  BY <1>3, <1>4 DEF Kept, IsRecord
<1> HIDE DEF c3, c4
<1>7. Kept(c3, c5) /\ c5.proc = c3.proc /\ Kept(c3, c6) /\ c6.proc = c3.proc
  <2>1. IsRecord(c3)
    BY <1>5 DEF Kept
  <2> QED BY <2>1, KeptFact
<1> HIDE DEF c5, c6
<1>8. Kept(c, c5) /\ c5.proc = c.proc /\ Kept(c, c6) /\ c6.proc = c.proc
  BY <1>5, <1>7 DEF Kept
<1>9. ASSUME NEW d, Kept(c, d), leave(d) PROVE Kept(c, client') /\ client'.proc = "ended"
  <2>1. Kept(d, client') /\ client'.proc = "ended"
    BY <1>9, LeaveKept DEF Kept
  <2> QED BY <1>9, <2>1 DEF Kept
<1>10. ASSUME NEW d, Kept(c, d), d.proc = c.proc, nextTurn(d) PROVE Kept(c, client') /\ client'.proc = c.proc
  <2>1. Kept(d, client') /\ client'.proc = d.proc
    BY <1>10, NextTurnKept DEF Kept
  <2> QED BY <1>10, <2>1 DEF Kept
<1>11. Kept(c, c)
  BY DEF Kept
<1> QED BY <1>0, <1>3, <1>6, <1>8, <1>9, <1>10, <1>11

\* c has taken the first m of the bytes k.
Taken(c, k, m) ==
  /\ c.sent = Said(k, c.escape, m)
  /\ \A q \in 1..m : ~Quits(k, c.escape, q)
  /\ IF c.proc = "suspended" THEN m \notin begins(k, c.escape) ELSE c.started <=> m \in begins(k, c.escape)
  /\ c.lf <=> m > 0 /\ k[m] = "n" /\ m \notin begins(k, c.escape) /\ m - 1 \notin begins(k, c.escape)

\* What is said for the next byte while nothing has quit.
LEMMA SaidByte ==
  ASSUME NEW k \in Seq(STRING), NEW e, NEW m \in Nat, m < Len(k), \A q \in 1..m : ~Quits(k, e, q), ~Quits(k, e, m + 1)
  PROVE  said(k, e, m + 1) =
           IF m + 1 \in begins(k, e) THEN <<>>
           ELSE IF m \notin begins(k, e) THEN <<k[m + 1]>>
           ELSE IF k[m + 1] = "Z" THEN <<>> ELSE IF k[m + 1] = e.pass THEN <<"^">> ELSE <<"^", k[m + 1]>>
<1> DEFINE S == begins(k, e)
           Q == {q \in 1..Len(k) : q - 1 \in S /\ k[q] = "."}
<1>1. ~\E q \in Q : q <= m + 1
  <2> SUFFICES ASSUME NEW q \in Q, q <= m + 1 PROVE FALSE
    OBVIOUS
  <2>1. q \in 1..Len(k) /\ Quits(k, e, q)
    BY DEF Quits
  <2>2. q \in 1..m \/ q = m + 1
    BY <2>1
  <2> QED BY <2>1, <2>2
<1>2. (m + 1) - 1 = m
  OBVIOUS
<1>3. said(k, e, m + 1) = IF m + 1 \in S \/ \E q \in Q : q <= m + 1 THEN <<>>
                          ELSE IF (m + 1) - 1 \notin S THEN <<k[m + 1]>>
                          ELSE IF k[m + 1] = "Z" THEN <<>> ELSE IF k[m + 1] = e.pass THEN <<"^">> ELSE <<"^", k[m + 1]>>
  BY DEF said
<1> HIDE DEF Q, S
<1>4. said(k, e, m + 1) = IF m + 1 \in S THEN <<>>
                          ELSE IF m \notin S THEN <<k[m + 1]>>
                          ELSE IF k[m + 1] = "Z" THEN <<>> ELSE IF k[m + 1] = e.pass THEN <<"^">> ELSE <<"^", k[m + 1]>>
  BY <1>1, <1>2, <1>3
<1> QED BY <1>4 DEF S

\* A byte that the client takes does what begins and said say of it.
LEMMA ByteTyped ==
  ASSUME NEW c, IsRecord(c), c.started \in BOOLEAN, c.lf \in BOOLEAN, c.escape \in [on : BOOLEAN, lf : BOOLEAN, pass : {"^", "p"}],
         ~c.shutdown, c.proc = "input", NEW k \in Seq(STRING), NEW m \in Nat, m < Len(k), Taken(c, k, m)
  PROVE  /\ userByte(c, k[m + 1]).escape = c.escape
         /\ \/ /\ userByte(c, k[m + 1]).shutdown /\ userByte(c, k[m + 1]).buf = <<>>
               /\ userByte(c, k[m + 1]).sent = Said(k, c.escape, Len(k))
            \/ /\ ~userByte(c, k[m + 1]).shutdown /\ userByte(c, k[m + 1]).buf = c.buf
               /\ Taken(userByte(c, k[m + 1]), k, m + 1)
<1> DEFINE e == c.escape
           S == begins(k, e)
           b == k[m + 1]
           d == userByte(c, b)
<1>1. /\ c.sent = Said(k, e, m) /\ (\A q \in 1..m : ~Quits(k, e, q)) /\ (c.started <=> m \in S)
      /\ c.lf <=> m > 0 /\ k[m] = "n" /\ m \notin S /\ m - 1 \notin S
  BY DEF Taken
<1>2. /\ S \subseteq 1..Len(k)
      /\ m + 1 \in S <=> /\ e.on /\ b = "^" /\ m \notin S
                         /\ e.lf => m > 0 /\ k[m] = "n" /\ m - 1 \notin S
  <2>1. S \subseteq 1..Len(k) /\ \A i \in 1..Len(k) : i \in S <=> First(k, e, S, i)
    BY BeginsFact
  <2> HIDE DEF S, e
  <2>2. m + 1 \in 1..Len(k) /\ (m + 1) - 1 = m /\ (m + 1) - 2 = m - 1 /\ (m + 1 > 1 <=> m > 0)
    OBVIOUS
  <2>3. m + 1 \in S <=> First(k, e, S, m + 1)
    BY <2>1, <2>2
  <2> QED BY <2>1, <2>2, <2>3 DEF First
<1>3. Said(k, e, m) \in Seq(Bytes) /\ Said(k, e, m + 1) = Said(k, e, m) \o said(k, e, m + 1)
  BY SaidStep
<1>4. Said(k, e, m) \o <<>> = Said(k, e, m)
  BY <1>3, ConcatEmptySeq
<1>5. ASSUME ~Quits(k, e, m + 1)
      PROVE  said(k, e, m + 1) = IF m + 1 \in S THEN <<>> ELSE IF m \notin S THEN <<b>>
                                 ELSE IF b = "Z" THEN <<>> ELSE IF b = e.pass THEN <<"^">> ELSE <<"^", b>>
  BY <1>1, <1>5, SaidByte
<1>6. Quits(k, e, m + 1) <=> m \in S /\ b = "."
  <2>1. (m + 1) - 1 = m
    OBVIOUS
  <2> QED BY <2>1 DEF Quits
<1>7. ASSUME NEW s, d.escape = e, ~d.shutdown, d.buf = c.buf, ~Quits(k, e, m + 1),
             d.sent = c.sent \o s, s = said(k, e, m + 1),
             IF d.proc = "suspended" THEN m + 1 \notin S ELSE d.started <=> m + 1 \in S,
             d.lf <=> b = "n" /\ m + 1 \notin S /\ m \notin S
      PROVE  d.escape = e /\ ~d.shutdown /\ d.buf = c.buf /\ Taken(d, k, m + 1)
  <2>1. \A q \in 1..(m + 1) : ~Quits(k, e, q)
    <3> TAKE q \in 1..(m + 1)
    <3>1. q \in 1..m \/ q = m + 1
      OBVIOUS
    <3> QED BY <1>1, <1>7, <3>1
  <2>2. d.sent = Said(k, e, m + 1)
    BY <1>1, <1>3, <1>7
  <2>3. m + 1 > 0 /\ (m + 1) - 1 = m
    OBVIOUS
  <2> HIDE DEF d, e, S, b
  <2>4. d.lf <=> m + 1 > 0 /\ k[m + 1] = "n" /\ m + 1 \notin S /\ (m + 1) - 1 \notin S
    BY <1>7, <2>3 DEF b
  <2>5. Taken(d, k, m + 1)
    BY <1>7, <2>1, <2>2, <2>4 DEF Taken, S
  <2> QED BY <1>7, <2>5
<1>8. CASE c.started /\ b = "."
  <2> DEFINE x == startShutdown(c, "exit")
  <2>1. Kept(c, x) /\ x.shutdown
    <3>1. Kept(c, x)
      BY KeptFact
    <3>2. Kept(c, set_notification_string(c, "exit", TRUE, TRUE))
      <4>1. \A mm, p, y : Kept(c, set_notification_string(c, mm, p, y))
        BY KeptFact, Zenon
      <4> QED BY <4>1, Zenon
    <3>3. x = [set_notification_string(c, "exit", TRUE, TRUE) EXCEPT !.shutdown = TRUE]
      BY DEF startShutdown
    <3> QED BY <3>1, <3>2, <3>3 DEF Kept, IsRecord
  <2>2. d = [x EXCEPT !.buf = <<>>]
    BY <1>8 DEF userByte, command
  <2> HIDE DEF x, d, b, e
  <2>3. d.escape = c.escape /\ d.shutdown /\ d.buf = <<>> /\ d.sent = c.sent
    BY <2>1, <2>2 DEF Kept, IsRecord
  <2>4. Said(k, e, Len(k)) = Said(k, e, m)
    BY <1>1, <1>6, <1>8, SaidQuit
  <2> QED BY <1>1, <2>3, <2>4 DEF d, b, e
<1>9. CASE c.started /\ b = "Z"
  <2>1. d = [[c EXCEPT !.raw = FALSE, !.open = FALSE] EXCEPT !.proc = "suspended"]
    BY <1>9 DEF userByte, command, closeTerminal
  <2> HIDE DEF d, b, S, e
  <2>2. d.escape = c.escape /\ d.shutdown = c.shutdown /\ d.buf = c.buf /\ d.sent = c.sent /\ d.proc = "suspended" /\ d.lf = c.lf
    BY <2>1 DEF IsRecord
  <2>3. m \in S /\ m + 1 \notin S /\ ~c.lf /\ ~Quits(k, e, m + 1)
    BY <1>1, <1>2, <1>6, <1>9
  <2>4. said(k, e, m + 1) = <<>>
    BY <1>5, <1>9, <2>3
  <2>5. d.sent = c.sent \o <<>>
    BY <1>1, <1>4, <2>2
  <2>6. d.escape = e
    BY <2>2 DEF e
  <2>7. d.escape = e /\ ~d.shutdown /\ d.buf = c.buf /\ Taken(d, k, m + 1)
    BY <1>7, <2>2, <2>3, <2>4, <2>5, <2>6
  <2> QED BY <2>7 DEF d, b, e
<1>10. CASE c.started /\ b \notin {".", "Z"}
  <2> DEFINE done == [c EXCEPT !.started = FALSE]
             hush == set_notification_string(done, NoMessage, FALSE, TRUE)
             quiet == IF c.note.message = "help" THEN hush ELSE done
             s == IF b = e.pass THEN <<"^">> ELSE <<"^", b>>
  <2>1. IsRecord(done) /\ done.escape = c.escape /\ done.shutdown = c.shutdown /\ done.buf = c.buf /\ done.sent = c.sent /\ done.lf = c.lf
        /\ done.started = FALSE /\ done.proc = "input"
    BY DEF IsRecord
  <2> HIDE DEF done
  <2>2. Kept(done, hush) /\ hush.proc = "input"
    <3>1. \A mm, p, y : Kept(done, set_notification_string(done, mm, p, y)) /\ set_notification_string(done, mm, p, y).proc = done.proc
      BY <2>1, KeptFact, Zenon
    <3>2. Kept(done, hush) /\ hush.proc = done.proc
      BY <3>1, Zenon
    <3> QED BY <2>1, <3>2
  <2>3. hush.shutdown = done.shutdown
    BY <2>1 DEF set_notification_string, IsRecord
  <2> HIDE DEF hush
  <2>4. IsRecord(quiet) /\ quiet.escape = c.escape /\ quiet.shutdown = c.shutdown /\ quiet.buf = c.buf /\ quiet.sent = c.sent
        /\ quiet.lf = c.lf /\ quiet.started = FALSE /\ quiet.proc = "input"
    BY <2>1, <2>2, <2>3 DEF Kept
  <2>5. d = push(quiet, s)
    BY <1>10 DEF userByte, command, done, hush
  <2> HIDE DEF quiet, d, b, S, e, s
  <2>6. /\ d.escape = c.escape /\ d.shutdown = c.shutdown /\ d.buf = c.buf /\ d.sent = c.sent \o s
        /\ d.lf = c.lf /\ d.started = FALSE /\ d.proc = "input"
    BY <2>4, <2>5 DEF push, IsRecord
  <2>7. m \in S /\ m + 1 \notin S /\ ~c.lf /\ ~Quits(k, e, m + 1)
    BY <1>1, <1>2, <1>6, <1>10
  <2>8. s = said(k, e, m + 1)
    BY <1>5, <1>10, <2>7 DEF s
  <2>9. d.escape = e
    BY <2>6 DEF e
  <2>10. d.escape = e /\ ~d.shutdown /\ d.buf = c.buf /\ Taken(d, k, m + 1)
    BY <1>7, <2>6, <2>7, <2>8, <2>9
  <2> QED BY <2>10 DEF d, b, e
<1>11. CASE ~c.started /\ m + 1 \in S
  <2> DEFINE x == set_notification_string(c, "help", TRUE, FALSE)
  <2>1. Kept(c, x) /\ x.proc = "input" /\ x.shutdown = c.shutdown
    <3>1. \A mm, p, y : Kept(c, set_notification_string(c, mm, p, y)) /\ set_notification_string(c, mm, p, y).proc = c.proc
      BY KeptFact, Zenon
    <3>2. x.shutdown = c.shutdown
      BY DEF set_notification_string, IsRecord
    <3> QED BY <3>1, <3>2
  <2>2. d = [x EXCEPT !.started = TRUE, !.lf = FALSE]
    <3>1. c.escape.on /\ b = "^" /\ (c.lf \/ ~c.escape.lf)
      BY <1>1, <1>2, <1>11
    <3> HIDE DEF b
    <3> QED BY <1>11, <3>1 DEF userByte
  <2> HIDE DEF x, d, b, S, e
  <2>3. /\ d.escape = c.escape /\ d.shutdown = c.shutdown /\ d.buf = c.buf /\ d.sent = c.sent
        /\ d.lf = FALSE /\ d.started = TRUE /\ d.proc = "input"
    BY <2>1, <2>2 DEF Kept, IsRecord
  <2>4. ~Quits(k, e, m + 1)
    BY <1>2, <1>6, <1>11
  <2>5. said(k, e, m + 1) = <<>> /\ d.sent = c.sent \o <<>> /\ d.escape = e
    BY <1>1, <1>4, <1>5, <1>11, <2>3, <2>4 DEF e
  <2>6. d.escape = e /\ ~d.shutdown /\ d.buf = c.buf /\ Taken(d, k, m + 1)
    BY <1>7, <1>11, <2>3, <2>4, <2>5
  <2> QED BY <2>6 DEF d, b, e
<1>12. CASE ~c.started /\ m + 1 \notin S
  <2> DEFINE x == [c EXCEPT !.lf = (b = "n"), !.repaint = @ \/ b = "L"]
  <2>1. /\ IsRecord(x) /\ x.escape = c.escape /\ x.shutdown = c.shutdown /\ x.buf = c.buf /\ x.sent = c.sent
        /\ x.lf = (b = "n") /\ x.started = c.started /\ x.proc = "input"
    BY DEF IsRecord
  <2>2. d = push(x, <<b>>)
    <3>1. ~(c.escape.on /\ b = "^" /\ (c.lf \/ ~c.escape.lf))
      BY <1>1, <1>2, <1>12
    <3> HIDE DEF b
    <3> QED BY <1>12, <3>1 DEF userByte
  <2> HIDE DEF x, d, b, S, e
  <2>3. /\ d.escape = c.escape /\ d.shutdown = c.shutdown /\ d.buf = c.buf /\ d.sent = c.sent \o <<b>>
        /\ d.lf = (b = "n") /\ d.started = c.started /\ d.proc = "input"
    BY <2>1, <2>2 DEF push, IsRecord
  <2>4. m \notin S /\ ~Quits(k, e, m + 1)
    BY <1>1, <1>6, <1>12
  <2>5. said(k, e, m + 1) = <<b>> /\ d.escape = e
    BY <1>5, <1>12, <2>3, <2>4 DEF e
  <2>6. d.escape = e /\ ~d.shutdown /\ d.buf = c.buf /\ Taken(d, k, m + 1)
    BY <1>7, <1>12, <2>3, <2>4, <2>5
  <2> QED BY <2>6 DEF d, b, e
<1> QED BY <1>8, <1>9, <1>10, <1>11, <1>12

\* The bytes: those of the buffer are the last that were read, and the client
\* has done with the ones before what is to be done with them; a client that
\* shuts down has done with all of them.
TypedInv ==
  /\ client.escape \in [on : BOOLEAN, lf : BOOLEAN, pass : {"^", "p"}]
  /\ keystrokes \in Seq(STRING) /\ client.buf \in Seq(STRING) /\ uses \in Uses
  /\ client.shutdown => client.buf = <<>> /\ client.sent = Said(keystrokes, client.escape, Len(keystrokes))
  /\ ~client.shutdown => \E m \in Nat :
       /\ Len(keystrokes) = m + Len(client.buf)
       /\ \A i \in 1..Len(client.buf) : client.buf[i] = keystrokes[m + i]
       /\ Taken(client, keystrokes, m)

\* A client is a record.
LEMMA RecordFact ==
  ASSUME NEW c, IsClient(c)
  PROVE  IsRecord(c)
BY DEF IsClient, IsRecord

\* More bytes change nothing for the ones taken.
LEMMA TakenExtend ==
  ASSUME NEW k \in Seq(STRING), NEW l \in Seq(STRING), Len(k) <= Len(l), \A i \in 1..Len(k) : l[i] = k[i],
         NEW c, NEW d, d.escape = c.escape, d.sent = c.sent, d.started = c.started, d.lf = c.lf,
         c.proc # "suspended", d.proc # "suspended", Taken(c, k, Len(k))
  PROVE  Taken(d, l, Len(k))
<1> DEFINE e == c.escape
           m == Len(k)
           S == begins(k, e)
           U == begins(l, e)
<1>1. /\ S \subseteq 1..Len(k) /\ U \subseteq 1..Len(l) /\ \A i \in 1..Len(k) : i \in U <=> i \in S
  BY BeginsFact, BeginsPrefix
<1>2. c.sent = Said(l, e, m)
  <2>1. m \in 0..Len(k)
    OBVIOUS
  <2> HIDE DEF m, e
  <2>2. Said(l, e, m) = Said(k, e, m)
    BY <2>1, SaidExtend
  <2> QED BY <2>2 DEF Taken, m, e
<1>3. /\ \A q \in 1..m : ~(q - 1 \in S /\ k[q] = ".")
      /\ c.started <=> m \in S
      /\ c.lf <=> m > 0 /\ k[m] = "n" /\ m \notin S /\ m - 1 \notin S
  BY DEF Taken, Quits
<1>4. m \in Nat /\ m = Len(k)
  OBVIOUS
<1> HIDE DEF S, U, m
<1>5. \A i \in 0..m : i \in U <=> i \in S
  BY <1>1, <1>4
<1>6. (m \in U <=> m \in S) /\ (m > 0 => (m - 1 \in U <=> m - 1 \in S) /\ l[m] = k[m])
  <2>1. m \in 0..m /\ (m > 0 => m - 1 \in 0..m /\ m \in 1..Len(k))
    BY <1>4
  <2> QED BY <1>5, <2>1
<1>7. \A q \in 1..m : ~(q - 1 \in U /\ l[q] = ".")
  <2> TAKE q \in 1..m
  <2>1. q - 1 \in 0..m /\ q \in 1..Len(k)
    BY <1>4
  <2> QED BY <1>3, <1>5, <2>1
<1>8. c.started <=> m \in U
  BY <1>3, <1>6
<1>9. c.lf <=> m > 0 /\ l[m] = "n" /\ m \notin U /\ m - 1 \notin U
  BY <1>3, <1>6
<1>10. \A q \in 1..m : ~Quits(l, e, q)
  BY <1>7 DEF Quits, U
<1> HIDE DEF e
<1>11. d.escape = e
  BY DEF e
<1>12. Taken(d, l, m)
  BY <1>2, <1>8, <1>9, <1>10, <1>11 DEF Taken, U
<1> QED BY <1>12 DEF m

\* A step that leaves the bytes alone.
LEMMA KeptTyped ==
  ASSUME TypedInv, Kept(client, client'), UNCHANGED <<keystrokes, uses>>, client.shutdown \in BOOLEAN, client'.shutdown \in BOOLEAN,
         client.buf = <<>> \/ client'.shutdown = client.shutdown, client.proc # "suspended", client'.proc # "suspended"
  PROVE  TypedInv'
<1> DEFINE k == keystrokes
           e == client.escape
<1>1. /\ client'.escape = e /\ client'.started = client.started /\ client'.lf = client.lf /\ client'.buf = client.buf
      /\ client'.sent = client.sent /\ (client.shutdown => client'.shutdown)
  BY DEF Kept
<1>2. /\ e \in [on : BOOLEAN, lf : BOOLEAN, pass : {"^", "p"}] /\ k \in Seq(STRING) /\ client.buf \in Seq(STRING) /\ uses \in Uses
  BY DEF TypedInv
<1>3. CASE client.shutdown
  <2>1. client.buf = <<>> /\ client.sent = Said(k, e, Len(k))
    BY <1>3 DEF TypedInv
  <2> QED BY <1>1, <1>2, <1>3, <2>1 DEF TypedInv
<1>4. CASE ~client.shutdown
  <2>1. PICK m \in Nat : /\ Len(k) = m + Len(client.buf)
                         /\ \A i \in 1..Len(client.buf) : client.buf[i] = k[m + i]
                         /\ Taken(client, k, m)
    BY <1>4 DEF TypedInv
  <2>2. Taken(client', k, m)
    BY <1>1, <2>1 DEF Taken
  <2>3. client'.shutdown => client'.buf = <<>> /\ client'.sent = Said(k, e, Len(k))
    <3> SUFFICES ASSUME client'.shutdown PROVE client.buf = <<>> /\ client.sent = Said(k, e, Len(k))
      BY <1>1
    <3>1. client.buf = <<>>
      BY <1>4
    <3>2. Len(k) = m
      BY <2>1, <3>1
    <3>3. client.sent = Said(k, e, m)
      BY <2>1 DEF Taken
    <3> QED BY <3>1, <3>2, <3>3
  <2>4. /\ Len(k) = m + Len(client'.buf)
        /\ \A i \in 1..Len(client'.buf) : client'.buf[i] = k[m + i]
    BY <1>1, <2>1
  <2> HIDE DEF e
  <2>5. /\ client'.escape \in [on : BOOLEAN, lf : BOOLEAN, pass : {"^", "p"}] /\ k' \in Seq(STRING) /\ client'.buf \in Seq(STRING) /\ uses' \in Uses
        /\ k' = k
    BY <1>1, <1>2
  <2>6. client'.shutdown => client'.buf = <<>> /\ client'.sent = Said(k', client'.escape, Len(k'))
    BY <1>1, <2>3, <2>5
  <2>7. \E j \in Nat : /\ Len(k') = j + Len(client'.buf)
                       /\ \A i \in 1..Len(client'.buf) : client'.buf[i] = k'[j + i]
                       /\ Taken(client', k', j)
    BY <2>2, <2>4, <2>5
  <2> QED BY <2>5, <2>6, <2>7 DEF TypedInv
<1> QED BY <1>3, <1>4

\* process_user_input has read some bytes.
LEMMA ReadsTyped ==
  ASSUME TypedInv, client.buf = <<>>, client.proc = "loop", client.shutdown \in BOOLEAN,
         NEW c, Kept(client, c), c.shutdown = client.shutdown, NEW b \in Inputs, reads(c, b), UNCHANGED uses
  PROVE  TypedInv'
<1> DEFINE k == keystrokes
           e == client.escape
<1>1. /\ client'.escape = e /\ client'.started = client.started /\ client'.lf = client.lf
      /\ client'.sent = client.sent /\ client'.shutdown = client.shutdown /\ client'.proc = "input"
      /\ client'.buf = IF client.shutdown THEN <<>> ELSE b
      /\ keystrokes' = IF client.shutdown THEN keystrokes ELSE keystrokes \o b
  BY DEF Kept, IsRecord, reads
<1>2. /\ e \in [on : BOOLEAN, lf : BOOLEAN, pass : {"^", "p"}] /\ k \in Seq(STRING) /\ uses \in Uses /\ b \in Seq(STRING)
  BY UsesAssumption DEF TypedInv, Inputs
<1>3. CASE client.shutdown
  <2>1. client.sent = Said(k, e, Len(k))
    BY <1>3 DEF TypedInv
  <2> QED BY <1>1, <1>2, <1>3, <2>1 DEF TypedInv
<1>4. CASE ~client.shutdown
  <2> DEFINE l == k \o b
             m == Len(k)
  <2>1. PICK j \in Nat : Len(k) = j + Len(client.buf) /\ Taken(client, k, j)
    BY <1>4 DEF TypedInv
  <2>2. Len(k) = j
    BY <2>1
  <2>3. Taken(client, k, Len(k))
    BY <2>1, <2>2
  <2>4. /\ l \in Seq(STRING) /\ Len(l) = Len(k) + Len(b) /\ Len(k) <= Len(l)
        /\ \A i \in 1..Len(k) : l[i] = k[i]
        /\ \A i \in 1..Len(b) : b[i] = l[Len(k) + i]
    <3>1. Len(k) \in Nat /\ Len(b) \in Nat
      BY <1>2
    <3>2. l \in Seq(STRING) /\ Len(l) = Len(k) + Len(b)
      BY <1>2, ConcatProperties
    <3>3. \A i \in 1..Len(l) : l[i] = IF i <= Len(k) THEN k[i] ELSE b[i - Len(k)]
      BY <1>2, ConcatProperties
    <3> HIDE DEF l
    <3>4. \A i \in 1..Len(k) : l[i] = k[i]
      BY <3>1, <3>2, <3>3
    <3>5. ASSUME NEW i \in 1..Len(b) PROVE b[i] = l[Len(k) + i]
      <4>1. Len(k) + i \in 1..Len(l) /\ ~(Len(k) + i <= Len(k)) /\ (Len(k) + i) - Len(k) = i
        BY <3>1, <3>2
      <4> QED BY <3>3, <4>1
    <3> QED BY <3>1, <3>2, <3>4, <3>5
  <2>5. k' = l /\ client'.buf = b
    BY <1>1, <1>4
  <2> HIDE DEF l
  <2>6. Taken(client', l, Len(k))
    BY <1>1, <1>2, <2>3, <2>4, TakenExtend
  <2>7. Len(k) \in Nat
    BY <1>2
  <2> HIDE DEF e
  <2>8. /\ client'.escape \in [on : BOOLEAN, lf : BOOLEAN, pass : {"^", "p"}] /\ k' \in Seq(STRING) /\ client'.buf \in Seq(STRING) /\ uses' \in Uses
    BY <1>1, <1>2, <2>4, <2>5
  <2>9. \E j2 \in Nat : /\ Len(k') = j2 + Len(client'.buf)
                        /\ \A i \in 1..Len(client'.buf) : client'.buf[i] = k'[j2 + i]
                        /\ Taken(client', k', j2)
    BY <2>4, <2>5, <2>6, <2>7
  <2> QED BY <1>1, <1>4, <2>8, <2>9 DEF TypedInv
<1> QED BY <1>3, <1>4

\* One turn of the loop.
LEMMA LoopTurnTyped ==
  ASSUME LoopInv, LoopInv', TypedInv, loopTurn
  PROVE  TypedInv'
<1> DEFINE c == freeze(client, behind)
<1>1. /\ client.proc = "loop" /\ UNCHANGED uses /\ client.buf = <<>> /\ client.shutdown \in BOOLEAN /\ client'.shutdown \in BOOLEAN
      /\ IsClient(client) /\ IsRecord(client)
  BY RecordFact DEF loopTurn, LoopInv, ClientOK, IsClient
<1>2. Kept(client, c) /\ c.proc = "loop" /\ c.shutdown = client.shutdown
  <2>1. \A d : Kept(client, freeze(client, d)) /\ freeze(client, d).proc = client.proc
    BY <1>1, KeptFact, Zenon
  <2>2. c.shutdown = client.shutdown
    BY <1>1, LoopingFact
  <2> QED BY <1>1, <2>1, <2>2
<1>3. PICK r \in returns :
        \/ \E d \in Datagrams :
             /\ r.net
             /\ \/ d = "exception" /\ nextTurn(IF c.shutdown THEN c ELSE set_network_error(c)) /\ UNCHANGED keystrokes
                \/ d = "crypto" /\ nextTurn(set_notification_string(c, "crypto", FALSE, TRUE)) /\ UNCHANGED keystrokes
                \/ d = "fatal" /\ leave(c) /\ UNCHANGED keystrokes
                \/ LET n == process_network_input(c, d # "old", d = "acked")
                   IN IF r.input THEN \E b \in Inputs : reads(n, b) ELSE rest(n, r.got) /\ UNCHANGED keystrokes
        \/ ~r.net /\ r.input /\ \E b \in Inputs : reads(c, b)
        \/ ~r.net /\ r.input /\ rest(IF c.shutdown THEN c ELSE startShutdown(c, "exiting"), r.got) /\ UNCHANGED keystrokes
        \/ ~r.net /\ ~r.input /\ rest(c, r.got) /\ UNCHANGED keystrokes
  BY DEF loopTurn
<1> HIDE DEF c
<1>4. IsRecord(c)
  BY <1>2 DEF Kept
<1>5. ASSUME NEW d, Kept(c, d), d.proc = "loop", UNCHANGED keystrokes, nextTurn(d) \/ leave(d) \/ rest(d, r.got) PROVE TypedInv'
  <2>1. IsRecord(d)
    BY <1>5 DEF Kept
  <2>2. Kept(d, client') /\ client'.proc \in {"loop", "ended"}
    BY <1>5, <2>1, NextTurnKept, LeaveKept, RestKept
  <2>3. Kept(client, client')
    BY <1>2, <1>5, <2>2 DEF Kept
  <2> QED BY <1>1, <1>5, <2>2, <2>3, KeptTyped
<1>6. ASSUME NEW d, Kept(c, d), d.shutdown = c.shutdown, NEW b \in Inputs, reads(d, b) PROVE TypedInv'
  <2>1. Kept(client, d) /\ d.shutdown = client.shutdown
    BY <1>2, <1>6 DEF Kept
  <2> QED BY <1>1, <1>6, <2>1, ReadsTyped
<1>7. /\ Kept(c, c) /\ Kept(c, set_network_error(c)) /\ set_network_error(c).proc = "loop"
      /\ Kept(c, set_notification_string(c, "crypto", FALSE, TRUE)) /\ set_notification_string(c, "crypto", FALSE, TRUE).proc = "loop"
      /\ Kept(c, startShutdown(c, "exiting")) /\ startShutdown(c, "exiting").proc = "loop"
  <2>1. Kept(c, c)
    BY <1>4 DEF Kept
  <2>2. Kept(c, set_network_error(c)) /\ set_network_error(c).proc = c.proc
    BY <1>4, KeptFact, Zenon
  <2>3. \A m, p, y : Kept(c, set_notification_string(c, m, p, y)) /\ set_notification_string(c, m, p, y).proc = c.proc
    BY <1>4, KeptFact, Zenon
  <2>4. \A m : Kept(c, startShutdown(c, m)) /\ startShutdown(c, m).proc = c.proc
    BY <1>4, KeptFact, Zenon
  <2> QED BY <1>2, <2>1, <2>2, <2>3, <2>4
<1>8. ASSUME NEW x, NEW a
      PROVE  /\ Kept(c, process_network_input(c, x, a)) /\ process_network_input(c, x, a).proc = "loop"
             /\ process_network_input(c, x, a).shutdown = c.shutdown
  <2>1. \A n, y : Kept(c, process_network_input(c, n, y)) /\ process_network_input(c, n, y).proc = c.proc
    BY <1>4, KeptFact, Zenon
  <2>2. process_network_input(c, x, a).shutdown = c.shutdown
    BY <1>4 DEF process_network_input, IsRecord
  <2> QED BY <1>2, <2>1, <2>2
<1>9. CASE nextTurn(IF c.shutdown THEN c ELSE set_network_error(c)) /\ UNCHANGED keystrokes
  BY <1>2, <1>5, <1>7, <1>9
<1>10. CASE nextTurn(set_notification_string(c, "crypto", FALSE, TRUE)) /\ UNCHANGED keystrokes
  BY <1>5, <1>7, <1>10
<1>11. CASE (leave(c) \/ rest(c, r.got)) /\ UNCHANGED keystrokes
  BY <1>2, <1>5, <1>7, <1>11
<1>12. CASE rest(IF c.shutdown THEN c ELSE startShutdown(c, "exiting"), r.got) /\ UNCHANGED keystrokes
  BY <1>2, <1>5, <1>7, <1>12
<1>13. CASE \E b \in Inputs : reads(c, b)
  BY <1>6, <1>7, <1>13
<1>14. ASSUME NEW d, LET n == process_network_input(c, d # "old", d = "acked")
                     IN IF r.input THEN \E b \in Inputs : reads(n, b) ELSE rest(n, r.got) /\ UNCHANGED keystrokes
       PROVE  TypedInv'
  <2> DEFINE n == process_network_input(c, d # "old", d = "acked")
  <2>1. Kept(c, n) /\ n.proc = "loop" /\ n.shutdown = c.shutdown
    BY <1>8
  <2> HIDE DEF n
  <2>2. IF r.input THEN \E b \in Inputs : reads(n, b) ELSE rest(n, r.got) /\ UNCHANGED keystrokes
    BY <1>14 DEF n
  <2> QED BY <1>5, <1>6, <2>1, <2>2
<1> QED BY <1>3, <1>9, <1>10, <1>11, <1>12, <1>13, <1>14

\* One of the bytes.
LEMMA InputByteTyped ==
  ASSUME LoopInv, TypedInv, inputByte
  PROVE  TypedInv'
<1> DEFINE k == keystrokes
           c == [client EXCEPT !.buf = Tail(@)]
<1>1. /\ client.proc = "input" /\ client.buf # <<>> /\ client' = userByte(c, Head(client.buf)) /\ UNCHANGED <<keystrokes, uses>>
  BY DEF inputByte
<1>2. IsClient(client) /\ IsRecord(client)
  BY RecordFact DEF LoopInv, ClientOK
<1>3. /\ client.escape \in [on : BOOLEAN, lf : BOOLEAN, pass : {"^", "p"}] /\ k \in Seq(STRING) /\ client.buf \in Seq(STRING) /\ uses \in Uses
      /\ ~client.shutdown
  BY <1>1 DEF TypedInv
<1>4. PICK m \in Nat : /\ Len(k) = m + Len(client.buf)
                       /\ \A i \in 1..Len(client.buf) : client.buf[i] = k[m + i]
                       /\ Taken(client, k, m)
  BY <1>3 DEF TypedInv
<1>5. /\ Len(client.buf) \in Nat /\ Len(client.buf) > 0 /\ Head(client.buf) = client.buf[1]
      /\ Tail(client.buf) \in Seq(STRING) /\ Len(Tail(client.buf)) = Len(client.buf) - 1
      /\ \A i \in 1..Len(Tail(client.buf)) : Tail(client.buf)[i] = client.buf[i + 1]
  <2> DEFINE s == client.buf
  <2>1. s \in Seq(STRING) /\ s # <<>>
    BY <1>1, <1>3
  <2> HIDE DEF s
  <2>2. Head(s) = s[1] /\ Len(s) \in Nat /\ Len(s) > 0
    BY <2>1, EmptySeq
  <2>3. /\ Tail(s) \in Seq(STRING) /\ Len(Tail(s)) = Len(s) - 1
        /\ \A i \in 1..Len(Tail(s)) : Tail(s)[i] = s[i + 1]
    BY <2>1, HeadTailProperties
  <2> QED BY <2>2, <2>3 DEF s
<1>6. Head(client.buf) = k[m + 1] /\ m < Len(k)
  BY <1>4, <1>5
<1>7. /\ IsRecord(c) /\ c.started \in BOOLEAN /\ c.lf \in BOOLEAN /\ c.escape = client.escape /\ ~c.shutdown /\ c.proc = "input"
      /\ c.sent = client.sent /\ c.started = client.started /\ c.lf = client.lf /\ c.buf = Tail(client.buf)
  BY <1>1, <1>2, <1>3 DEF IsClient, IsRecord
<1> HIDE DEF c
<1>8. Taken(c, k, m)
  BY <1>1, <1>4, <1>7 DEF Taken
<1> DEFINE d == userByte(c, k[m + 1])
<1>9. /\ d.escape = c.escape
      /\ \/ d.shutdown /\ d.buf = <<>> /\ d.sent = Said(k, c.escape, Len(k))
         \/ ~d.shutdown /\ d.buf = c.buf /\ Taken(d, k, m + 1)
  BY <1>3, <1>6, <1>7, <1>8, ByteTyped
<1>10. client' = d
  BY <1>1, <1>6
<1> HIDE DEF d
<1>11. /\ client'.escape = client.escape /\ k' = k /\ uses' = uses
       /\ \/ client'.shutdown /\ client'.buf = <<>> /\ client'.sent = Said(k, client.escape, Len(k))
          \/ ~client'.shutdown /\ client'.buf = Tail(client.buf) /\ Taken(client', k, m + 1)
  BY <1>1, <1>7, <1>9, <1>10
<1>12. CASE client'.shutdown /\ client'.buf = <<>> /\ client'.sent = Said(k, client.escape, Len(k))
  <2>1. client'.buf \in Seq(STRING)
    BY <1>12
  <2> QED BY <1>3, <1>11, <1>12, <2>1 DEF TypedInv
<1>13. CASE ~client'.shutdown /\ client'.buf = Tail(client.buf) /\ Taken(client', k, m + 1)
  <2> DEFINE j == m + 1
  <2>1. j \in Nat /\ Len(k) = j + Len(client'.buf)
    <3>1. Len(client'.buf) = Len(client.buf) - 1
      BY <1>5, <1>13
    <3> DEFINE p == Len(client.buf)
               q == Len(client'.buf)
               n == Len(k)
    <3>2. n = m + p /\ q = p - 1 /\ p \in Nat /\ p > 0 /\ m \in Nat
      BY <1>4, <1>5, <3>1
    <3> HIDE DEF p, q, n
    <3>3. j \in Nat /\ n = j + q
      BY <3>2
    <3> QED BY <3>3 DEF n, q
  <2>2. \A i \in 1..Len(client'.buf) : client'.buf[i] = k[j + i]
    <3> TAKE i \in 1..Len(client'.buf)
    <3>1. client'.buf[i] = client.buf[i + 1] /\ i + 1 \in 1..Len(client.buf)
      BY <1>5, <1>13
    <3>2. client.buf[i + 1] = k[m + (i + 1)] /\ m + (i + 1) = j + i
      BY <1>4, <1>5, <1>13, <3>1
    <3> QED BY <3>1, <3>2
  <2> HIDE DEF j
  <2>3. Taken(client', k, j)
    BY <1>13 DEF j
  <2>4. \E n \in Nat : /\ Len(k') = n + Len(client'.buf)
                       /\ \A i \in 1..Len(client'.buf) : client'.buf[i] = k'[n + i]
                       /\ Taken(client', k', n)
    BY <1>11, <2>1, <2>2, <2>3
  <2>5. client'.escape \in [on : BOOLEAN, lf : BOOLEAN, pass : {"^", "p"}] /\ k' \in Seq(STRING) /\ client'.buf \in Seq(STRING) /\ uses' \in Uses
    BY <1>3, <1>5, <1>11, <1>13
  <2> QED BY <1>13, <2>4, <2>5 DEF TypedInv
<1> QED BY <1>11, <1>12, <1>13

\* kill(0, SIGSTOP) returns in the middle of the bytes, and the escape
\* sequence is over.
LEMMA SuspensionTyped ==
  ASSUME LoopInv, TypedInv, client.proc = "suspended", client' = afterSuspension(client), UNCHANGED <<keystrokes, uses>>
  PROVE  TypedInv'
<1> DEFINE k == keystrokes
           x == [client EXCEPT !.proc = "input", !.started = FALSE]
           r == resume(x)
           h == set_notification_string(r, NoMessage, FALSE, TRUE)
<1>1. IsClient(client) /\ IsRecord(client) /\ client.shutdown \in BOOLEAN
  BY RecordFact DEF LoopInv, ClientOK, IsClient
<1>2. IsRecord(r) /\ r.proc = "input" /\ r.started = FALSE /\ r.lf = client.lf /\ r.escape = client.escape /\ r.sent = client.sent
      /\ r.buf = client.buf /\ r.shutdown = client.shutdown
  BY <1>1 DEF resume, IsRecord
<1>3. client' = IF client.note.message = "help" THEN h ELSE r
  BY DEF afterSuspension
<1> HIDE DEF r
<1>4. Kept(r, h) /\ h.proc = r.proc /\ h.shutdown = r.shutdown
  <2>1. \A m, p, y : Kept(r, set_notification_string(r, m, p, y)) /\ set_notification_string(r, m, p, y).proc = r.proc
    BY <1>2, KeptFact, Zenon
  <2>2. Kept(r, h) /\ h.proc = r.proc
    BY <2>1, Zenon
  <2>3. h.shutdown = r.shutdown
    BY <1>2 DEF set_notification_string, IsRecord
  <2> QED BY <2>2, <2>3
<1> HIDE DEF h
<1>5. /\ client'.proc = "input" /\ client'.started = FALSE /\ client'.lf = client.lf /\ client'.escape = client.escape
      /\ client'.sent = client.sent /\ client'.buf = client.buf /\ client'.shutdown = client.shutdown
  BY <1>2, <1>3, <1>4 DEF Kept
<1>6. /\ client.escape \in [on : BOOLEAN, lf : BOOLEAN, pass : {"^", "p"}] /\ k \in Seq(STRING) /\ client.buf \in Seq(STRING) /\ uses \in Uses
      /\ client.shutdown => client.buf = <<>> /\ client.sent = Said(k, client.escape, Len(k))
  BY DEF TypedInv
<1>7. CASE client.shutdown
  BY <1>5, <1>6, <1>7 DEF TypedInv
<1>8. CASE ~client.shutdown
  <2>1. PICK m \in Nat : /\ Len(k) = m + Len(client.buf)
                         /\ \A i \in 1..Len(client.buf) : client.buf[i] = k[m + i]
                         /\ Taken(client, k, m)
    BY <1>8 DEF TypedInv
  <2>2. Taken(client', k, m)
    BY <1>5, <2>1 DEF Taken
  <2>3. \E n \in Nat : /\ Len(k') = n + Len(client'.buf)
                       /\ \A i \in 1..Len(client'.buf) : client'.buf[i] = k'[n + i]
                       /\ Taken(client', k', n)
    BY <1>5, <2>1, <2>2
  <2> QED BY <1>5, <1>6, <1>8, <2>3 DEF TypedInv
<1> QED BY <1>7, <1>8

\* The other steps.
LEMMA OthersTyped ==
  ASSUME LoopInv, LoopInv', TypedInv, inputDone \/ refuse \/ init \/ main_init \/ sendSignal \/ halt \/ continue \/ garble \/ tickClock
  PROVE  TypedInv'
<1>1. IsClient(client) /\ IsRecord(client) /\ client.shutdown \in BOOLEAN /\ client'.shutdown \in BOOLEAN
  BY RecordFact DEF LoopInv, ClientOK, IsClient
<1>2. UNCHANGED <<keystrokes, uses>>
  BY DEF inputDone, refuse, init, main_init, sendSignal, halt, continue, garble, tickClock
<1>3. ASSUME client.proc # "suspended", client'.proc # "suspended", Kept(client, client'), client.buf = <<>> PROVE TypedInv'
  BY <1>1, <1>2, <1>3, KeptTyped
<1>4. client.proc \notin {"input", "suspended"} => client.buf = <<>>
  BY DEF LoopInv, ClientOK
<1>5. ASSUME UNCHANGED client PROVE TypedInv'
  BY <1>2, <1>5 DEF TypedInv, Taken
<1>6. ASSUME NEW p, client' = [client EXCEPT !.proc = p], p # "suspended", client.proc # "suspended", client.buf = <<>> PROVE TypedInv'
  <2>1. Kept(client, client') /\ client'.proc = p
    BY <1>1, <1>6 DEF Kept, IsRecord
  <2> QED BY <1>3, <1>6, <2>1
<1>7. CASE inputDone
  <2> DEFINE c == [client EXCEPT !.proc = "loop"]
  <2>1. client.proc = "input" /\ client.buf = <<>> /\ rest(c, {})
    BY <1>7 DEF inputDone
  <2>2. Kept(client, c) /\ c.proc = "loop" /\ IsRecord(c)
    BY <1>1 DEF Kept, IsRecord
  <2> HIDE DEF c
  <2>3. Kept(c, client') /\ client'.proc \in {"loop", "ended"}
    BY <2>1, <2>2, RestKept
  <2>4. Kept(client, client')
    BY <2>2, <2>3 DEF Kept
  <2> QED BY <1>3, <2>1, <2>3, <2>4
<1>8. CASE refuse
  BY <1>4, <1>6, <1>8 DEF refuse, Ended
<1>9. CASE init
  <2>1. client.proc = "start" /\ client' = [client EXCEPT !.raw = TRUE, !.open = TRUE, !.proc = "opened"]
    BY <1>9 DEF init
  <2>2. Kept(client, client') /\ client'.proc = "opened"
    BY <1>1, <2>1 DEF Kept, IsRecord
  <2> QED BY <1>3, <1>4, <2>1, <2>2
<1>10. CASE main_init
  <2> DEFINE c == [client EXCEPT !.proc = "loop", !.repaint = TRUE]
  <2>1. client.proc = "opened" /\ (nextTurn(c) \/ client' = [client EXCEPT !.proc = "crashed"] \/ leave(client))
    BY <1>10 DEF main_init
  <2>2. Kept(client, c) /\ c.proc = "loop" /\ IsRecord(c)
    BY <1>1 DEF Kept, IsRecord
  <2> HIDE DEF c
  <2>3. CASE nextTurn(c)
    <3>1. Kept(c, client') /\ client'.proc = "loop"
      BY <2>2, <2>3, NextTurnKept
    <3>2. Kept(client, client')
      BY <2>2, <3>1 DEF Kept
    <3> QED BY <1>3, <1>4, <2>1, <3>1, <3>2
  <2>4. CASE client' = [client EXCEPT !.proc = "crashed"]
    BY <1>4, <1>6, <2>1, <2>4
  <2>5. CASE leave(client)
    <3>1. Kept(client, client') /\ client'.proc = "ended"
      BY <1>1, <2>5, LeaveKept
    <3> QED BY <1>3, <1>4, <2>1, <3>1
  <2> QED BY <2>1, <2>3, <2>4, <2>5
<1>11. CASE sendSignal
  <2>1. CASE client.proc = "opened"
    <3>1. \E g \in {"term", "winch"} : client' = [client EXCEPT !.proc = IF g = "term" THEN "killed" ELSE @]
      BY <1>11, <2>1 DEF sendSignal
    <3>2. \E p \in {"killed", "opened"} : client' = [client EXCEPT !.proc = p]
      BY <2>1, <3>1
    <3> QED BY <1>4, <1>6, <2>1, <3>2
  <2>2. CASE client.proc # "opened"
    <3>1. UNCHANGED client
      BY <1>11, <2>2 DEF sendSignal
    <3> QED BY <1>5, <3>1
  <2> QED BY <2>1, <2>2
<1>12. CASE halt
  BY <1>4, <1>6, <1>12 DEF halt
<1>13. CASE continue
  <2>1. CASE client.proc = "suspended"
    <3>1. client' = afterSuspension(client)
      BY <1>13, <2>1 DEF continue
    <3> QED BY <1>2, <2>1, <3>1, SuspensionTyped
  <2>2. CASE client.proc = "halted"
    <3>1. client' = [client EXCEPT !.proc = "loop"]
      BY <1>13, <2>2 DEF continue
    <3> QED BY <1>4, <1>6, <2>2, <3>1
  <2> QED BY <1>13, <2>1, <2>2 DEF continue
<1>14. CASE garble \/ tickClock
  <2>1. UNCHANGED client
    BY <1>14 DEF garble, tickClock
  <2> QED BY <1>5, <2>1
<1> QED BY <1>7, <1>8, <1>9, <1>10, <1>11, <1>12, <1>13, <1>14

\* The bytes in every state of the client.
THEOREM TypedInvariant == ClientSpec => []TypedInv
<1>1. ClientInit => TypedInv
  <2> SUFFICES ASSUME ClientInit PROVE TypedInv
    OBVIOUS
  <2>1. PICK env : client = [proc |-> "start", raw |-> FALSE, open |-> FALSE, repaint |-> FALSE, note |-> NotificationEngine,
                             escape |-> escapeKey(env), num |-> 0, heard |-> 0, shutdown |-> FALSE, clean |-> FALSE,
                             started |-> FALSE, lf |-> FALSE, buf |-> <<>>, sent |-> <<>>]
    BY DEF ClientInit
  <2>2. /\ client.escape = escapeKey(env) /\ client.proc = "start" /\ client.shutdown = FALSE /\ client.started = FALSE /\ client.lf = FALSE
        /\ client.buf = <<>> /\ client.sent = <<>> /\ keystrokes = <<>> /\ uses \in Uses
    BY <2>1 DEF ClientInit
  <2>3. escapeKey(env) \in [on : BOOLEAN, lf : BOOLEAN, pass : {"^", "p"}]
    BY DEF escapeKey
  <2> DEFINE e == client.escape
  <2>4. begins(keystrokes, e) = {}
    <3>1. Len(<<>>) = 0
      OBVIOUS
    <3>2. begins(<<>>, e) \subseteq 1..Len(<<>>)
      <4> DEFINE z == <<>>
      <4>1. Len(z) \in Nat
        BY <3>1
      <4> HIDE DEF z, e
      <4>2. begins(z, e) \subseteq 1..Len(z)
        BY <4>1, BeginsFact
      <4> QED BY <4>2 DEF z
    <3> QED BY <2>2, <3>1, <3>2
  <2>5. client.sent = Said(keystrokes, e, 0)
    BY <2>2, SaidNothing
  <2>6. Taken(client, keystrokes, 0)
    BY <2>2, <2>4, <2>5 DEF Taken
  <2>7. <<>> \in Seq(STRING) /\ Len(<<>>) = 0
    OBVIOUS
  <2>8. \E m \in Nat : /\ Len(keystrokes) = m + Len(client.buf)
                       /\ \A i \in 1..Len(client.buf) : client.buf[i] = keystrokes[m + i]
                       /\ Taken(client, keystrokes, m)
    <3>1. Len(keystrokes) = 0 + Len(client.buf) /\ \A i \in 1..Len(client.buf) : client.buf[i] = keystrokes[0 + i]
      BY <2>2, <2>7
    <3> QED BY <2>6, <3>1
  <2> QED BY <2>2, <2>3, <2>7, <2>8 DEF TypedInv
<1>2. LoopInv /\ LoopInv' /\ TypedInv /\ [ClientNext]_clientVars => TypedInv'
  <2> SUFFICES ASSUME LoopInv, LoopInv', TypedInv, [ClientNext]_clientVars PROVE TypedInv'
    OBVIOUS
  <2>1. CASE UNCHANGED clientVars
    BY <2>1 DEF clientVars, TypedInv, Taken
  <2> QED BY <2>1, LoopTurnTyped, InputByteTyped, OthersTyped DEF ClientNext
<1> QED BY <1>1, <1>2, LoopInvariant, PTL DEF ClientSpec

\* What is sent is what was typed, however the bytes are split into reads and
\* whatever comes between them (process_user_input).
THEOREM TypedAlwaysSent == ClientSpec => []TypedIsSent
<1>1. ASSUME LoopInv, TypedInv PROVE TypedIsSent
  <2> SUFFICES ASSUME client.proc = "loop" PROVE client.sent = Said(keystrokes, client.escape, Len(keystrokes))
    BY DEF TypedIsSent, InLoop, Said
  <2>1. client.buf = <<>>
    BY <1>1 DEF LoopInv, ClientOK
  <2>2. CASE client.shutdown
    BY <1>1, <2>2 DEF TypedInv
  <2>3. CASE ~client.shutdown
    <3>1. PICK m \in Nat : Len(keystrokes) = m + Len(client.buf) /\ Taken(client, keystrokes, m)
      BY <1>1, <2>3 DEF TypedInv
    <3>2. Len(keystrokes) = m
      BY <2>1, <3>1
    <3> QED BY <3>1, <3>2 DEF Taken
  <2> QED BY <2>2, <2>3
<1> QED BY <1>1, LoopInvariant, TypedInvariant, PTL
=============================================================================
