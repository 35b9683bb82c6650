--------------------------- MODULE MoshPrediction ---------------------------
(***************************************************************************)
(* The local echo of mosh-client: PredictionEngine of terminaloverlay.cc   *)
(* guesses what a key will do to the screen, shows the guess over the      *)
(* server's screen once its epoch has been confirmed, and withdraws it     *)
(* when the server's late acknowledgement (the echo acknowledgement of     *)
(* Complete) covers the frame the key was sent in.  The keys, frames,      *)
(* screens and acknowledgements come from a client, a server and a program *)
(* that need not echo.                                                     *)
(*                                                                         *)
(* A key is what the engine's parser makes of its bytes; the parser is     *)
(* MoshParser's.  Renditions (the underlining of guesses) are left out.    *)
(***************************************************************************)
EXTENDS Integers, Sequences, SequencesExt, FiniteSetsExt

CONSTANTS
  Letter, Secret,     \* what a program echoes, and what it is typed blindly for
  NoFrame,            \* uint64_t(-1)
  SRTT_TRIGGER_LOW, SRTT_TRIGGER_HIGH,
  GLITCH_THRESHOLD, GLITCH_FLAG_THRESHOLD, GLITCH_REPAIR_COUNT, GLITCH_REPAIR_MININTERVAL,
  MaxKeys, MaxNow,    \* bounds of the model
  EchoSettings        \* the settings and events of a behaviour, see PredictionInit

ASSUME PredictionAssumption ==
  /\ {SRTT_TRIGGER_LOW, SRTT_TRIGGER_HIGH, GLITCH_THRESHOLD, GLITCH_FLAG_THRESHOLD, GLITCH_REPAIR_COUNT,
      GLITCH_REPAIR_MININTERVAL, MaxKeys, MaxNow} \subseteq Nat
  /\ SRTT_TRIGGER_LOW <= SRTT_TRIGGER_HIGH
  /\ NoFrame \in Nat /\ NoFrame > 2 * MaxKeys + 2

VARIABLES
  eng,      \* the PredictionEngine of the client
  shown,    \* local_framebuffer: what is on the user's screen
  remote,   \* the newest screen and echo acknowledgement received
  unsent,   \* keys that are in the stream but in no frame yet
  frames,   \* the frames sent: frame n holds the keys of state n
  host,     \* the server: its screen, frames taken, keys not read yet, echo, echo_ack
  user,     \* quit_sequence_started; the number of keys, whether a line has ended, the last output
  clock,
  echoing

predictionVars == <<eng, shown, remote, unsent, frames, host, user, clock, echoing>>

Blank == "_"

(***************************************************************************)
(* Screens                                                                 *)
(***************************************************************************)
Screen(w, h) == [width |-> w, height |-> h, row |-> 0, col |-> 0,
                 cells |-> [r \in 0..(h - 1) |-> [c \in 0..(w - 1) |-> Blank]]]

inside(fb, row, col) == row < fb.height /\ col < fb.width

(***************************************************************************)
(* One prediction                                                          *)
(***************************************************************************)
OverlayCell(epoch) ==
  [expiration_frame |-> 0, active |-> FALSE, tentative_until_epoch |-> epoch, prediction_time |-> 0,
   replacement |-> Blank, unknown |-> FALSE, original_contents |-> {}]

CursorMove(frame, row, col, epoch, time) ==
  [expiration_frame |-> frame, row |-> row, col |-> col, active |-> TRUE,
   tentative_until_epoch |-> epoch, prediction_time |-> time]

tentative(o, confirmed_epoch) == o.tentative_until_epoch > confirmed_epoch

expire(o, frame, time) == [o EXCEPT !.expiration_frame = frame, !.prediction_time = time]

resetCell(o) == [o EXCEPT !.unknown = FALSE, !.original_contents = {}, !.active = FALSE,
                          !.expiration_frame = NoFrame, !.tentative_until_epoch = NoFrame]

reset_with_orig(o) ==
  IF ~o.active \/ o.unknown THEN resetCell(o)
  ELSE [o EXCEPT !.original_contents = @ \union {o.replacement}, !.active = FALSE,
                 !.expiration_frame = NoFrame, !.tentative_until_epoch = NoFrame]

\* A mutant: a prediction stays while the frame itself is the last acknowledged.
cellValidityLate(o, fb, row, col, late_ack) ==
  CASE ~o.active -> "Inactive"
    [] o.active /\ late_ack <= o.expiration_frame -> "Pending"
    [] OTHER -> IF o.unknown \/ o.replacement = Blank \/ fb.cells[row][col] = o.replacement
                THEN "CorrectNoCredit" ELSE "IncorrectOrExpired"

\* ConditionalOverlayCell::get_validity
cellValidity(o, fb, row, col, late_ack) ==
  CASE ~o.active -> "Inactive"
    [] o.active /\ ~inside(fb, row, col) -> "IncorrectOrExpired"
    [] o.active /\ inside(fb, row, col) /\ late_ack < o.expiration_frame -> "Pending"
    [] OTHER ->
         IF o.unknown \/ o.replacement = Blank THEN "CorrectNoCredit"
         ELSE IF fb.cells[row][col] # o.replacement THEN "IncorrectOrExpired"
         ELSE IF o.replacement \in o.original_contents THEN "CorrectNoCredit" ELSE "Correct"

\* ConditionalCursorMove::get_validity
cursorValidity(o, fb, late_ack) ==
  CASE ~o.active -> "Inactive"
    [] o.active /\ ~inside(fb, o.row, o.col) -> "IncorrectOrExpired"
    [] o.active /\ inside(fb, o.row, o.col) /\ late_ack < o.expiration_frame -> "Pending"
    [] OTHER -> IF fb.row = o.row /\ fb.col = o.col THEN "Correct" ELSE "IncorrectOrExpired"

(***************************************************************************)
(* The engine                                                              *)
(***************************************************************************)
PredictionEngine(s) ==
  [overlays |-> <<>>, cursors |-> <<>>, sent |-> 0, late_acked |-> 0,
   prediction_epoch |-> 1, confirmed_epoch |-> 0, srtt_trigger |-> FALSE, glitch_trigger |-> 0,
   last_quick_confirmation |-> 0, send_interval |-> Max(s.intervals),
   last_height |-> 0, last_width |-> 0, display_preference |-> s.preference,
   predict_overwrite |-> s.overwrite, returned |-> FALSE, failed |-> FALSE]

\* A mutant: the epoch never ends.
become_tentativeNever(e) == e

become_tentative(e) ==
  IF e.display_preference = "Experimental" THEN e ELSE [e EXCEPT !.prediction_epoch = @ + 1]

resetEngine(e) == become_tentative([e EXCEPT !.cursors = <<>>, !.overlays = <<>>])

predictsAnything(e) ==
  e.cursors # <<>> \/ \E i \in DOMAIN e.overlays : \E c \in DOMAIN e.overlays[i].cells : e.overlays[i].cells[c].active

cursor(e) == Last(e.cursors)
setCursor(e, o) == [e EXCEPT !.cursors[Len(e.cursors)] = o]

\* init_cursor: a new epoch starts from where the last one leaves the cursor.
init_cursor(e, fb) ==
  LET here == IF e.cursors = <<>> THEN <<fb.row, fb.col>> ELSE <<cursor(e).row, cursor(e).col>>
  IN  IF e.cursors # <<>> /\ cursor(e).tentative_until_epoch = e.prediction_epoch THEN e
      ELSE [e EXCEPT !.cursors = Append(@, CursorMove(e.sent + 1, here[1], here[2], e.prediction_epoch, NoFrame))]

\* kill_epoch: nothing of this epoch or a later one is believed any more.
kill_epoch(e, epoch, fb) ==
  LET kept == SelectSeq(e.cursors, LAMBDA o : ~tentative(o, epoch - 1))
      here == CursorMove(e.sent + 1, fb.row, fb.col, e.prediction_epoch, NoFrame)
  IN  become_tentative(
        [e EXCEPT !.cursors = Append(kept, here),
                  !.overlays = [i \in DOMAIN @ |->
                     [@[i] EXCEPT !.cells = [c \in DOMAIN @ |->
                        IF tentative(@[c], epoch - 1) THEN resetCell(@[c]) ELSE @[c]]]]])

\* The two triggers that show predictions at all, in the adaptive mode.
srttTrigger(e) ==
  CASE e.send_interval > SRTT_TRIGGER_HIGH -> TRUE
    [] e.srtt_trigger /\ e.send_interval <= SRTT_TRIGGER_LOW /\ ~predictsAnything(e) -> FALSE
    [] OTHER -> e.srtt_trigger

pendingTrigger(e, age) ==
  CASE age >= GLITCH_FLAG_THRESHOLD -> 2 * GLITCH_REPAIR_COUNT
    [] age >= GLITCH_THRESHOLD /\ age < GLITCH_FLAG_THRESHOLD /\ e.glitch_trigger < GLITCH_REPAIR_COUNT -> GLITCH_REPAIR_COUNT
    [] OTHER -> e.glitch_trigger

\* A prediction that came true confirms its epoch.
confirm(e, o, time) ==
  LET quick == /\ time - o.prediction_time < GLITCH_THRESHOLD /\ e.glitch_trigger > 0
               /\ time - GLITCH_REPAIR_MININTERVAL >= e.last_quick_confirmation
  IN  [e EXCEPT !.confirmed_epoch = IF o.tentative_until_epoch > @ THEN o.tentative_until_epoch ELSE @,
                !.glitch_trigger = IF quick THEN @ - 1 ELSE @,
                !.last_quick_confirmation = IF quick THEN time ELSE @]

\* The cells of cull's loop: row i of the list, column c.
cullCell(e, fb, time, i, c) ==
  LET o == e.overlays[i].cells[c]
      validity == cellValidity(o, fb, e.overlays[i].row_num, c, e.late_acked)
      withdrawn(x) == [x EXCEPT !.overlays[i].cells[c] = resetCell(@)]
  IN  CASE validity = "IncorrectOrExpired" ->
             IF e.display_preference = "Experimental" THEN withdrawn(e)
             ELSE IF tentative(o, e.confirmed_epoch) THEN kill_epoch(e, o.tentative_until_epoch, fb)
             ELSE [resetEngine(e) EXCEPT !.returned = TRUE]
        [] validity = "Correct" -> withdrawn(confirm(e, o, time))
        [] validity = "CorrectNoCredit" -> withdrawn(e)
        [] validity = "Pending" -> [e EXCEPT !.glitch_trigger = pendingTrigger(e, time - o.prediction_time)]
        [] validity = "Inactive" -> e

cullCells(e, fb, time) ==
  FoldLeft(LAMBDA x, at : IF x.returned THEN x ELSE cullCell(x, fb, time, (at - 1) \div fb.width + 1, (at - 1) % fb.width),
           e, [at \in 1..(Len(e.overlays) * fb.width) |-> at])

cullCursors(e, fb) ==
  LET wrong == e.cursors # <<>> /\ cursorValidity(cursor(e), fb, e.late_acked) = "IncorrectOrExpired"
  IN  IF wrong /\ e.display_preference = "Experimental" THEN [e EXCEPT !.cursors = <<>>]
      ELSE IF wrong THEN resetEngine(e)
      ELSE [e EXCEPT !.cursors = SelectSeq(@, LAMBDA o : cursorValidity(o, fb, e.late_acked) = "Pending")]

cull(e, fb, time) ==
  LET resized == e.last_height # fb.height \/ e.last_width # fb.width
      sized == IF resized THEN resetEngine([e EXCEPT !.last_height = fb.height, !.last_width = fb.width]) ELSE e
      rows == SelectSeq(sized.overlays, LAMBDA r : r.row_num \in 0..(fb.height - 1))
      done == cullCells([sized EXCEPT !.srtt_trigger = srttTrigger(sized), !.overlays = rows], fb, time)
  IN  IF e.display_preference = "Never" THEN e
      ELSE IF done.returned THEN [done EXCEPT !.returned = FALSE] ELSE cullCursors(done, fb)

\* PredictionEngine::apply and the applies of its parts.
applyPredictions(e, fb) ==
  LET shows == \/ e.display_preference \in {"Always", "Experimental"}
               \/ e.display_preference = "Adaptive" /\ (e.srtt_trigger \/ e.glitch_trigger > 0)
      moves == SelectSeq(e.cursors, LAMBDA o : o.active /\ ~tentative(o, e.confirmed_epoch))
      draws(r, c) == {i \in DOMAIN e.overlays :
                        /\ e.overlays[i].row_num = r /\ c \in DOMAIN e.overlays[i].cells
                        /\ LET o == e.overlays[i].cells[c]
                           IN  o.active /\ ~tentative(o, e.confirmed_epoch) /\ ~o.unknown}
      at == IF moves = <<>> THEN <<fb.row, fb.col>> ELSE <<Last(moves).row, Last(moves).col>>
  IN  IF ~shows THEN fb
      ELSE [fb EXCEPT !.row = at[1], !.col = at[2],
                      !.cells = [r \in DOMAIN @ |-> [c \in DOMAIN @[r] |->
                         IF draws(r, c) = {} THEN @[r][c]
                         ELSE e.overlays[CHOOSE i \in draws(r, c) : TRUE].cells[c].replacement]]]

\* The assertions of ConditionalCursorMove::apply.
applyAsserts(e, fb) ==
  \A i \in DOMAIN e.cursors : e.cursors[i].active /\ ~tentative(e.cursors[i], e.confirmed_epoch)
                              => inside(fb, e.cursors[i].row, e.cursors[i].col)

(***************************************************************************)
(* What a key is expected to do                                            *)
(***************************************************************************)
rowIndex(e, row) == CHOOSE i \in DOMAIN e.overlays : e.overlays[i].row_num = row

get_or_make_row(e, row, num_cols) ==
  IF \E i \in DOMAIN e.overlays : e.overlays[i].row_num = row THEN e
  ELSE [e EXCEPT !.overlays = Append(@, [row_num |-> row,
                                         cells |-> [c \in 0..(num_cols - 1) |-> OverlayCell(e.prediction_epoch)]])]

\* A cell that is predicted again, with what it showed until now.
predicted(e, o, before, time) ==
  [expire(reset_with_orig(o), e.sent + 1, time) EXCEPT
     !.active = TRUE, !.tentative_until_epoch = e.prediction_epoch,
     !.original_contents = @ \union {before}]

\* The contents of a neighbour move into a cell, if they are known.
shifted(o, neighbour, actual) ==
  IF neighbour.active /\ neighbour.unknown THEN [o EXCEPT !.unknown = TRUE]
  ELSE [o EXCEPT !.unknown = FALSE, !.replacement = IF neighbour.active THEN neighbour.replacement ELSE actual]

newline_carriage_return(e0, fb, time) ==
  LET e == init_cursor(e0, fb)
      first == setCursor(e, [cursor(e) EXCEPT !.col = 0])
      made == get_or_make_row(first, cursor(e).row, fb.width)
      blank(o) == [expire(o, e.sent + 1, time) EXCEPT !.active = TRUE, !.replacement = Blank,
                                                      !.tentative_until_epoch = e.prediction_epoch]
  IN  IF cursor(e).row # fb.height - 1 THEN setCursor(first, [cursor(first) EXCEPT !.row = @ + 1])
      ELSE [made EXCEPT !.overlays[rowIndex(made, cursor(e).row)].cells = [c \in DOMAIN @ |-> blank(@[c])]]

backspace(e0, fb, time) ==
  LET e == get_or_make_row(e0, cursor(e0).row, fb.width)
      row == cursor(e).row
      col == cursor(e).col - 1
      actual == fb.cells[row]
      moved == setCursor(e, expire([cursor(e) EXCEPT !.col = col], e.sent + 1, time))
      erased(cells) ==
        [i \in DOMAIN cells |->
           IF i = col THEN [predicted(e, cells[i], fb.cells[fb.row][fb.col], time) EXCEPT !.replacement = Blank]
           ELSE cells[i]]
      pulled(cells) ==
        [i \in DOMAIN cells |->
           IF i < col THEN cells[i]
           ELSE IF i + 2 < fb.width THEN shifted(predicted(e, cells[i], actual[i], time), cells[i + 1], actual[i + 1])
           ELSE [predicted(e, cells[i], actual[i], time) EXCEPT !.unknown = TRUE]]
  IN  IF col < 0 THEN e
      ELSE [moved EXCEPT !.overlays[rowIndex(e, row)].cells = IF e.predict_overwrite THEN erased(@) ELSE pulled(@)]

insert(e0, fb, ch, time) ==
  LET row == cursor(e0).row
      col == cursor(e0).col
      made == get_or_make_row(e0, row, fb.width)
      e == IF col + 1 >= fb.width THEN become_tentative(made) ELSE made
      actual == fb.cells[row]
      pushed(cells) ==
        [i \in DOMAIN cells |->
           CASE i = col -> [predicted(e, cells[i], actual[i], time) EXCEPT !.replacement = ch]
             [] i > col /\ ~e.predict_overwrite ->
                  IF i = fb.width - 1 THEN [predicted(e, cells[i], actual[i], time) EXCEPT !.unknown = TRUE]
                  ELSE shifted(predicted(e, cells[i], actual[i], time), cells[i - 1], actual[i - 1])
             [] OTHER -> cells[i]]
      drawn == [e EXCEPT !.overlays[rowIndex(e, row)].cells = pushed(@)]
      cur == expire(cursor(drawn), e.sent + 1, time)
  IN  IF ~inside(fb, row, col) THEN [e0 EXCEPT !.failed = TRUE]      \* the assertions on the cursor
      ELSE IF col < fb.width - 1 THEN setCursor(drawn, [cur EXCEPT !.col = @ + 1])
      ELSE newline_carriage_return(become_tentative(setCursor(drawn, cur)), fb, time)

arrow(e0, fb, step, time) ==
  LET e == init_cursor(e0, fb)
      col == cursor(e).col + step
  IN  IF col \notin 0..(fb.width - 1) THEN e
      ELSE setCursor(e, expire([cursor(e) EXCEPT !.col = col], e.sent + 1, time))

\* new_user_byte: the screen is the user's, with the predictions on it.
new_user_byte(e0, key, fb, time) ==
  LET fixed == IF e0.display_preference = "Experimental" THEN [e0 EXCEPT !.prediction_epoch = e0.confirmed_epoch] ELSE e0
      e == cull(fixed, fb, time)
  IN  CASE e0.display_preference = "Never" -> e0
        [] e0.display_preference # "Never" /\ key \in {Letter, Secret} -> insert(init_cursor(e, fb), fb, key, time)
        [] e0.display_preference # "Never" /\ key = "DEL" -> backspace(init_cursor(e, fb), fb, time)
        [] e0.display_preference # "Never" /\ key = "CR" -> newline_carriage_return(become_tentative(e), fb, time)
        [] e0.display_preference # "Never" /\ key = "LEFT" -> arrow(e, fb, -1, time)
        [] e0.display_preference # "Never" /\ key = "RIGHT" -> arrow(e, fb, 1, time)
        [] e0.display_preference # "Never" /\ key = "WIDE" -> become_tentative(init_cursor(e, fb))
        [] OTHER -> become_tentative(e)

(***************************************************************************)
(* The program on the server.  It echoes a line; the line after the first  *)
(* it may read blindly, as for a password.                                 *)
(***************************************************************************)
newLine(fb) ==
  IF fb.row < fb.height - 1 THEN [fb EXCEPT !.row = @ + 1, !.col = 0]
  ELSE [fb EXCEPT !.col = 0,
                  !.cells = [r \in DOMAIN @ |-> IF r < fb.height - 1 THEN @[r + 1] ELSE [c \in DOMAIN @[r] |-> Blank]]]

echoed(fb, key) ==
  CASE key \in {Letter, Secret} ->
         IF fb.col < fb.width - 1 THEN [fb EXCEPT !.cells[fb.row][fb.col] = key, !.col = @ + 1]
         ELSE newLine([fb EXCEPT !.cells[fb.row][fb.col] = key])
    [] key = "CR" -> newLine(fb)
    [] key = "DEL" /\ fb.col > 0 -> [fb EXCEPT !.cells[fb.row][fb.col - 1] = Blank, !.col = @ - 1]
    [] key = "LEFT" /\ fb.col > 0 -> [fb EXCEPT !.col = @ - 1]
    [] key = "RIGHT" /\ fb.col < fb.width - 1 -> [fb EXCEPT !.col = @ + 1]
    [] OTHER -> fb

\* The server takes the next frame and hands its keys to the program.
TakeFrame ==
  /\ host.taken < Len(frames)
  /\ host' = [host EXCEPT !.taken = @ + 1, !.input = @ \o frames[host.taken + 1]]
  /\ UNCHANGED <<eng, shown, remote, unsent, frames, user, clock, echoing>>

\* The program reads a key, and stops echoing at the end of the line.
Echo ==
  /\ host.input # <<>>
  /\ \E echo \in IF Head(host.input) = "CR" /\ echoing.blind THEN {FALSE} ELSE {host.echo} :
       host' = [host EXCEPT !.input = Tail(@), !.echo = echo,
                            !.fb = IF host.echo THEN echoed(@, Head(host.input)) ELSE @]
  /\ UNCHANGED <<eng, shown, remote, unsent, frames, user, clock, echoing>>

\* The echo timeout of a frame that was taken has passed, echoed or not; a
\* prompt program has read its keys by then.
AckEcho ==
  /\ host.echo_ack < host.taken
  /\ echoing.prompt => host.input = <<>>
  /\ host' = [host EXCEPT !.echo_ack = host.taken]
  /\ UNCHANGED <<eng, shown, remote, unsent, frames, user, clock, echoing>>

(***************************************************************************)
(* The client                                                              *)
(***************************************************************************)
\* OverlayManager::apply and output_new_frame
output(e, fb, time) ==
  LET c == cull(e, fb, time)
  IN  /\ eng' = [c EXCEPT !.failed = @ \/ ~applyAsserts(c, fb)]
      /\ shown' = applyPredictions(c, fb)

\* process_user_input: the keys that go to the server, and the quit sequence
\* (Letter is the escape_pass_key).
passedOn(key) ==
  CASE user.quit_sequence_started -> IF key = Letter THEN <<"ESCAPE">> ELSE <<"ESCAPE", key>>
    [] ~user.quit_sequence_started /\ key = "ESCAPE" -> <<>>
    [] OTHER -> <<key>>

\* A turn of STMClient::main: the network, a key or a new size, tick, and the
\* output at the top of the next turn.
Turn(heard, key, send) ==
  LET interval == IF heard THEN echoing.intervals ELSE {eng.send_interval}
      e(i) == IF heard THEN [eng EXCEPT !.late_acked = host.echo_ack, !.send_interval = i] ELSE eng
      r == IF heard THEN [fb |-> host.fb, echo_ack |-> host.echo_ack] ELSE remote
      sent(i) == [e(i) EXCEPT !.sent = Len(frames)]
      typed(i) == CASE key = "none" -> e(i)
                    [] key \in {"PASTE", "RESIZE"} -> resetEngine(IF key = "PASTE" THEN sent(i) ELSE e(i))
                    [] OTHER -> new_user_byte(sent(i), key, shown, clock)
      stream == IF key \in {"none", "RESIZE"} THEN unsent ELSE unsent \o passedOn(IF key = "PASTE" THEN Letter ELSE key)
  IN  /\ remote' = r
      /\ user' = [quit_sequence_started |-> IF key \in {"none", "RESIZE"} THEN user.quit_sequence_started
                                            ELSE key = "ESCAPE" /\ ~user.quit_sequence_started,
                  keys |-> IF key = "none" THEN user.keys ELSE user.keys + 1,
                  ended |-> user.ended \/ key = "CR", drawn |-> clock]
      /\ IF send /\ stream # <<>> THEN frames' = Append(frames, stream) /\ unsent' = <<>>
         ELSE frames' = frames /\ unsent' = stream
      /\ \E i \in interval : output(typed(i), r.fb, clock)
      /\ UNCHANGED <<host, clock, echoing>>

ClientTurn ==
  \E heard \in BOOLEAN, key \in {"none"} \union echoing.keys, send \in BOOLEAN :
    /\ key # "none" => user.keys < echoing.count
    /\ key = Secret => user.ended
    /\ Turn(heard, key, send)

\* The server's terminal takes the new size: the screen keeps its corner.
ResizeServer ==
  /\ "RESIZE" \in echoing.keys /\ host.fb.width = echoing.width
  /\ host' = [host EXCEPT !.fb = [Screen(echoing.width - 1, echoing.height) EXCEPT
                                    !.row = host.fb.row, !.col = IF host.fb.col < echoing.width - 1 THEN host.fb.col ELSE echoing.width - 2]]
  /\ UNCHANGED <<eng, shown, remote, unsent, frames, user, clock, echoing>>

TimePasses ==
  /\ clock < echoing.until
  /\ clock' = clock + 1
  /\ UNCHANGED <<eng, shown, remote, unsent, frames, host, user, echoing>>

PredictionInit ==
  /\ echoing \in EchoSettings
  /\ eng = PredictionEngine(echoing)
  /\ shown = Screen(echoing.width, echoing.height)
  /\ remote = [fb |-> Screen(echoing.width, echoing.height), echo_ack |-> 0]
  /\ unsent = <<>>
  /\ frames = <<>>
  /\ host = [fb |-> Screen(echoing.width, echoing.height), taken |-> 0, input |-> <<>>, echo |-> TRUE, echo_ack |-> 0]
  /\ user = [quit_sequence_started |-> FALSE, keys |-> 0, ended |-> FALSE, drawn |-> 0]
  /\ clock = 0

PredictionNext == ClientTurn \/ TakeFrame \/ Echo \/ AckEcho \/ ResizeServer \/ TimePasses

PredictionSpec == PredictionInit /\ [][PredictionNext]_predictionVars
(***************************************************************************)
(* Properties                                                              *)
(***************************************************************************)
Cells == {<<i, c>> \in (DOMAIN eng.overlays) \X (0..echoing.width) : c \in DOMAIN eng.overlays[i].cells}
CellAt(at) == eng.overlays[at[1]].cells[at[2]]

\* No assertion of the engine fails: a cursor that is predicted or shown lies
\* on the screen, also when the screen has become smaller in the meantime.
\* An epoch that is confirmed has begun.
EngineTypeOK ==
  /\ ~eng.failed
  /\ eng.confirmed_epoch <= eng.prediction_epoch
  /\ eng.glitch_trigger \in 0..(2 * GLITCH_REPAIR_COUNT)
  /\ shown.row \in 0..(shown.height - 1) /\ shown.col \in 0..(shown.width - 1)

\* No prediction outlives the acknowledgement of the frame its key was sent
\* in: after an output everything still predicted is waiting for a frame.
NothingOutlivesItsAck ==
  /\ \A at \in Cells : CellAt(at).active => CellAt(at).expiration_frame > eng.late_acked
  /\ \A i \in DOMAIN eng.cursors : eng.cursors[i].expiration_frame > eng.late_acked

\* When every key has been sent and acknowledged, the user sees the server's
\* screen and nothing else, whatever was guessed on the way.
AckedShowsServer ==
  unsent = <<>> /\ eng.late_acked = Len(frames) => shown = remote.fb

\* What is typed after the end of a line is not shown by a guess before the
\* server has echoed something of that line: a password that the program does
\* not echo never appears.  (The experimental mode gives this up, and so does
\* a program slower than the echo timeout: the late echo of one line then
\* confirms a guess for the next.)
PasswordHidden ==
  echoing.blind /\ echoing.prompt /\ echoing.preference # "Experimental"
    => \A r \in DOMAIN shown.cells : \A c \in DOMAIN shown.cells[r] : shown.cells[r][c] # Secret

\* In the adaptive mode a guess that has waited for GLITCH_THRESHOLD makes an
\* output show the guesses, however short the round trips are believed to be.
LateIsShown ==
  eng.display_preference = "Adaptive" /\ eng.glitch_trigger = 0
    => \A at \in Cells : CellAt(at).active => CellAt(at).prediction_time + GLITCH_THRESHOLD > user.drawn

\* Predictions come on time and go with their acknowledgement.
PredictionsEnd == EngineTypeOK /\ NothingOutlivesItsAck /\ AckedShowsServer /\ LateIsShown
=============================================================================
