---------------------------- MODULE MoshTerminal ----------------------------
(***************************************************************************)
(* The two terminals of a mosh session: the server's, which the host       *)
(* writes to, and the client's copy of it, which only ever receives the    *)
(* differences that Complete::diff_from (completeterminal.cc) computes     *)
(* with Display::new_frame between an earlier screen of the server and its *)
(* present one.  The transport (MoshSession) guarantees that a difference  *)
(* is applied to the copy of the screen it starts from; this module is     *)
(* about what the difference does there.                                   *)
(***************************************************************************)
EXTENDS MoshDisplay

CONSTANTS
  Tokens,        \* what the host may write
  Sizes,         \* the sizes of the window, <<width, height>>
  MaxTokens      \* bound: how much the host writes

VARIABLES
  emu,      \* the server's emulator
  known,    \* the server's screen that the client's copy stands for
  remote,   \* the client's emulator
  written   \* how much the host has written

vars == <<emu, known, remote, written>>

initialSize == CHOOSE s \in Sizes : \A t \in Sizes : s[1] * s[2] >= t[1] * t[2]

Init ==
  /\ emu = Emulator(initialSize[1], initialSize[2])
  /\ known = emu.fb
  /\ remote = emu
  /\ written = 0

\* Complete::act: the replies to the host are taken out by the caller.
HostWrites ==
  /\ written < MaxTokens
  /\ \E token \in Tokens : emu' = [act(emu, token) EXCEPT !.to_host = <<>>]
  /\ written' = written + 1
  /\ UNCHANGED <<known, remote>>

\* Complete::act of a Resize, which the user's stream brought.
Resized ==
  /\ written < MaxTokens
  /\ \E size \in Sizes : size # <<emu.fb.ds.width, emu.fb.ds.height>> /\
       emu' = [emu EXCEPT !.fb = resizeFramebuffer(@, size[1], size[2])]
  /\ written' = written + 1
  /\ UNCHANGED <<known, remote>>

\* diff_from names the new size when it differs, then the frame.
resizeTo(e, ds) ==
  IF ds.width = e.fb.ds.width /\ ds.height = e.fb.ds.height THEN e
  ELSE [e EXCEPT !.fb = resizeFramebuffer(@, ds.width, ds.height)]

apply_frame(e, from, to) ==
  IF sameScreen(from, to) THEN e ELSE actAll(resizeTo(e, to.ds), new_frame(TRUE, from, to))

\* diff_from on the server and apply_string on the client.
Update ==
  /\ remote' = apply_frame(remote, known, emu.fb)
  /\ known' = emu.fb
  /\ UNCHANGED <<emu, written>>

Next == HostWrites \/ Resized \/ Update

Spec == Init /\ [][Next]_vars

(***************************************************************************)
(* Properties                                                              *)
(***************************************************************************)

DrawStateOK(ds) ==
  /\ ds.cursor_col \in 0..(ds.width - 1) /\ ds.cursor_row \in 0..(ds.height - 1)
  /\ 0 <= ds.top /\ ds.top <= ds.bottom /\ ds.bottom < ds.height
  /\ ds.tabs \subseteq 0..(ds.width - 1)

FramebufferOK(fb) ==
  /\ DrawStateOK(fb.ds)
  /\ DOMAIN fb.rows = 0..(fb.ds.height - 1)
  /\ \A r \in DOMAIN fb.rows : DOMAIN fb.rows[r].cells = 0..(fb.ds.width - 1)

\* The type invariant.  It includes that the cursor and the scrolling region
\* are on the screen, which get_cell and the rows' at() rely on: a save, a
\* resize and a restore of the cursor must not leave it outside.
TypeOK == FramebufferOK(emu.fb) /\ FramebufferOK(remote.fb) /\ written \in 0..MaxTokens

\* Complete::compare: the cells and the cursor.
compareGrid(a, b) ==
  \/ a.ds.width # b.ds.width \/ a.ds.height # b.ds.height
  \/ \E r \in DOMAIN a.rows : \E c \in DOMAIN a.rows[r].cells : compareCells(a.rows[r].cells[c], b.rows[r].cells[c])
compareCursor(a, b) == a.ds.cursor_row # b.ds.cursor_row \/ a.ds.cursor_col # b.ds.cursor_col
compare(a, b) == compareGrid(a, b) \/ compareCursor(a, b)

\* "Verify diff has round-trip identity": the client's copy, brought up to
\* date with the difference that new_frame computed, compares equal to the
\* screen it stands for (TransportSender::tick with verbose > 1).
RoundTrip == ~compare(remote.fb, known)

\* The columns of a row that can be seen: not the one a wide cell covers.
visibleColumns(row) ==
  LET width == Cardinality(DOMAIN row.cells)
      step(st, c) == IF c # st.x THEN st
                     ELSE [x |-> c + get_width(row.cells[c]), seen |-> st.seen \union {c}]
  IN  FoldLeft(step, [x |-> 0, seen |-> {}], [i \in 1..width |-> i - 1]).seen

\* Cells that look the same; wrap is a hint for selecting text, and a cell
\* that begins with a combining character is shown on a space.
sameLook(a, b) ==
  b.fallback \/ ~compareCells(a, [b EXCEPT !.wrap = a.wrap])

looksSame(a, b) ==
  /\ a.ds.width = b.ds.width /\ a.ds.height = b.ds.height
  /\ \A r \in DOMAIN a.rows : \A c \in visibleColumns(b.rows[r]) :
       sameLook(a.rows[r].cells[c], b.rows[r].cells[c])

\* No wide cell hangs over the right edge of the screen.
widesFit(fb) == \A r \in DOMAIN fb.rows : ~fb.rows[r].cells[fb.ds.width - 1].wide

\* The first character of a row that the row above wraps into is written with
\* no move before it (put_row), and a hyperlink that begins or ends there puts
\* an ST between, which takes the pending wrap back: the character is drawn
\* over the last one of the row above.
linkAcrossWrap(fb) ==
  \E r \in DOMAIN fb.rows \ {fb.ds.height - 1} :
    /\ get_wrap(fb.rows[r])
    /\ fb.rows[r].cells[Max(visibleColumns(fb.rows[r]))].hyperlink # fb.rows[r + 1].cells[0].hyperlink

inStep(a, b) == ~compareCursor(a, b) /\ looksSame(a, b)

\* Screens between which a frame is expected to carry everything
carriable(from, to) == widesFit(from) /\ widesFit(to) /\ ~linkAcrossWrap(to)

\* A frame draws: a copy that looks like the old screen looks like the new
\* one after the tokens of new_frame, whatever was printed, erased, scrolled,
\* inserted or resized in between, when no wide character hangs over the edge
\* and no hyperlink begins or ends where a row wraps.
FrameDraws ==
  [][inStep(remote.fb, known) /\ carriable(known, known') => looksSame(remote'.fb, known')]_<<known, remote>>

\* A frame leaves the cursor where the server's is, unless it ends to the
\* right of the first column of the bottom row (where RoundTrip shows
\* append_move to be wrong).
CursorCarried ==
  [][inStep(remote.fb, known) /\ carriable(known, known')
       /\ (known'.ds.cursor_row < known'.ds.height - 1 \/ known'.ds.cursor_col = 0)
     => ~compareCursor(remote'.fb, known')]_<<known, remote>>

\* Titles, clipboard, renditions, hyperlink and modes are those of the screen
\* the copy stands for, after every frame and every change of size: all that
\* DrawState::operator== compares, but for the cursor and for the alternate
\* scroll mode, which new_frame never sends.
StateCarried ==
  /\ remote.fb.window_title = known.window_title /\ remote.fb.clipboard = known.clipboard
  /\ shownState([remote.fb.ds EXCEPT !.cursor_col = 0, !.cursor_row = 0])
       = shownState([known.ds EXCEPT !.cursor_col = 0, !.cursor_row = 0, !.mouse_alternate_scroll = FALSE])

\* The assertion of Emulator::print on a combining character: the cell it
\* finds empty is not a wide one, on either side, after any erasing, deleting
\* and resizing.
EmptyIsNarrow == combineAsserts(emu.fb) /\ combineAsserts(remote.fb)

\* Both screens are well formed, no assertion about their cells fails, and
\* the client's has the state of the server's.
ScreensAgree == TypeOK /\ EmptyIsNarrow /\ StateCarried

\* A frame carries the screen and the cursor.
FrameCarries == FrameDraws /\ CursorCarried
=============================================================================
