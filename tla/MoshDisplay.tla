---------------------------- MODULE MoshDisplay ----------------------------
(***************************************************************************)
(* mosh's Display::new_frame (terminaldisplay.cc): the sequence of         *)
(* characters, control characters and control sequences that turns one     *)
(* screen into another one.  The frame under construction is a record of   *)
(* what has been emitted and of where the cursor, the rendition and the    *)
(* hyperlink of the receiving terminal are believed to be; -1 is a         *)
(* position that is not known.                                             *)
(***************************************************************************)
EXTENDS MoshEmulator

CONSTANTS
  HasEch, HasBce, HasTitle,  \* what the receiving terminal can do
  EchMinimum                 \* 4: blanks that are not worth an erase

ASSUME DisplayAssumption ==
  {HasEch, HasBce, HasTitle} \subseteq BOOLEAN /\ EchMinimum \in Nat

FrameState(last) ==
  [str |-> <<>>, cursor_x |-> 0, cursor_y |-> 0, rendition |-> Renditions(0), hyperlink |-> NoLink,
   cursor_visible |-> last.ds.cursor_visible]

emit(frame, tokens) == [frame EXCEPT !.str = @ \o tokens]
times(n, token) == [i \in 1..n |-> token]
mode(number, on) == CSI(IF on THEN "?h" ELSE "?l", <<number>>)
graphemes(chars) == [i \in DOMAIN chars |-> Glyph(chars[i])]

\* append_move: carriage return, line feeds and backspaces where they do.
append_move(frame, y, x) ==
  LET known == frame.cursor_x # -1 /\ frame.cursor_y # -1
      down == y - frame.cursor_y
      right == x - frame.cursor_x
      how == CASE known /\ x = 0 /\ down \in 0..4 ->
                    (IF frame.cursor_x # 0 THEN <<Control("CR")>> ELSE <<>>) \o times(down, Control("LF"))
               [] known /\ ~(x = 0 /\ down \in 0..4) /\ down = 0 /\ right \in -4..-1 ->
                    times(-right, Control("BS"))
               [] OTHER -> <<CSI("H", <<y + 1, x + 1>>)>>
  IN  [emit(frame, how) EXCEPT !.cursor_x = x, !.cursor_y = y]

append_silent_move(frame, y, x) ==
  IF frame.cursor_x = x /\ frame.cursor_y = y THEN frame
  ELSE append_move([emit(frame, IF frame.cursor_visible THEN <<mode(25, FALSE)>> ELSE <<>>)
                      EXCEPT !.cursor_visible = FALSE], y, x)

update_rendition(frame, r, force) ==
  IF force \/ frame.rendition # r THEN [emit(frame, <<CSI("m", sgr(r))>>) EXCEPT !.rendition = r] ELSE frame

\* Hyperlink::osc8 ends with ESC \, which is a command of its own to the receiver.
osc8(h) == <<OSC(8, IF h = NoLink THEN <<>> ELSE h), Control("ST")>>

update_hyperlink(frame, h, force) ==
  IF force \/ frame.hyperlink # h THEN [emit(frame, osc8(h)) EXCEPT !.hyperlink = h] ELSE frame

can_use_erase(frame) == HasBce \/ (frame.rendition = Renditions(0) /\ frame.hyperlink = NoLink)

styled(frame, cell) == update_hyperlink(update_rendition(frame, cell.renditions, FALSE), cell.hyperlink, FALSE)

drawCell(frame, cell) ==
  [emit(styled(frame, cell), graphemes(print_grapheme(cell))) EXCEPT !.cursor_x = @ + get_width(cell)]

(***************************************************************************)
(* put_row: one row, column by column.  The state of the loop is the frame,*)
(* the next column x, the number of blanks not yet written with the cell   *)
(* that began them, and whether the last column has been written.          *)
(***************************************************************************)

\* The blanks before column x, erased or written.
flushBlanks(st, y) ==
  LET moved == styled(append_silent_move(st.frame, y, st.x - st.clear_count), st.blank)
      erased == emit(moved, <<CSI("X", <<st.clear_count>>)>>)
      spaced == [emit(moved, times(st.clear_count, Glyph(Space))) EXCEPT !.cursor_x = st.x]
  IN  [st EXCEPT !.frame = IF can_use_erase(moved) /\ HasEch /\ st.clear_count > EchMinimum
                           THEN erased ELSE spaced,
                 !.clear_count = 0]

\* The last character of a row that wraps is positioned explicitly.
drawColumn(st, y, cell, wrap_this, width) ==
  LET trashed == IF wrap_this /\ st.x + get_width(cell) >= width
                 THEN [st.frame EXCEPT !.cursor_x = -1, !.cursor_y = -1] ELSE st.frame
  IN  [st EXCEPT !.frame = drawCell(append_silent_move(trashed, y, st.x), cell),
                 !.x = @ + get_width(cell),
                 !.wrote_last_cell = st.x + get_width(cell) >= width]

sameBlank(a, b) == a.renditions = b.renditions /\ a.hyperlink = b.hyperlink

putColumn(st, y, cell, old_cell, initialized, wrap_this, width) ==
  LET startsBlank == [st EXCEPT !.clear_count = 1, !.blank = cell, !.x = @ + 1]
      flushed == IF st.clear_count > 0 THEN flushBlanks(st, y) ELSE st
  IN  CASE initialized /\ st.clear_count = 0 /\ cell = old_cell -> [st EXCEPT !.x = @ + get_width(cell)]
        [] empty(cell) /\ st.clear_count = 0 /\ ~(initialized /\ cell = old_cell) -> startsBlank
        [] empty(cell) /\ st.clear_count > 0 /\ sameBlank(cell, st.blank) ->
             [st EXCEPT !.clear_count = @ + 1, !.x = @ + 1]
        [] empty(cell) /\ st.clear_count > 0 /\ ~sameBlank(cell, st.blank) ->
             [flushed EXCEPT !.clear_count = 1, !.blank = cell, !.x = @ + 1]
        [] OTHER -> drawColumn(flushed, y, cell, wrap_this, width)

\* The end of the row: the blanks that are left are erased up to the edge or
\* written, and after the last column the cursor is on the next line, which
\* the row wraps into or which is moved to.
endRow(st, y, wrap_this, height) ==
  LET atEnd == styled(append_silent_move(st.frame, y, st.x - st.clear_count), st.blank)
      erases == can_use_erase(atEnd) /\ ~wrap_this
      cleared == CASE st.clear_count = 0 -> st.frame
                   [] st.clear_count > 0 /\ erases -> emit(atEnd, <<CSI("K", <<-1>>)>>)
                   [] OTHER -> [emit(atEnd, times(st.clear_count, Glyph(Space))) EXCEPT !.cursor_x = st.x]
      wrote == st.wrote_last_cell \/ (st.clear_count > 0 /\ ~erases)
      next == [cleared EXCEPT !.cursor_x = 0, !.cursor_y = @ + 1]
  IN  CASE ~(wrote /\ y < height - 1) -> [st EXCEPT !.frame = cleared]
        [] wrote /\ y < height - 1 /\ wrap_this -> [st EXCEPT !.frame = next, !.wrap = TRUE]
        [] OTHER -> [st EXCEPT !.frame = emit(next, <<Control("CR"), Control("LF")>>)]

put_row(initialized, frame, f, y, old_row, wrap) ==
  LET row == f.rows[y]
      width == f.ds.width
      first == row.cells[0]
      start == [frame |-> IF wrap THEN drawCell(frame, first) ELSE frame, wrap |-> FALSE,
                x |-> IF wrap THEN get_width(first) ELSE 0,
                clear_count |-> 0, blank |-> Cell(0), wrote_last_cell |-> FALSE]
      column(st, x) ==
        CASE x = width -> endRow(st, y, get_wrap(row), f.ds.height)
          [] x < width /\ x # st.x -> st
          [] OTHER -> putColumn(st, y, row.cells[x], old_row.cells[x], initialized, get_wrap(row), width)
  IN  FoldLeft(column, start, IF initialized /\ row = old_row THEN <<>> ELSE [i \in 1..(width + 1) |-> i - 1])

(***************************************************************************)
(* new_frame                                                               *)
(***************************************************************************)

\* The bell, the titles, the clipboard and reverse video.
putTitles(frame, initialized, last, f) ==
  LET titled == HasTitle /\ f.title_initialized
                /\ (~initialized \/ f.icon_name # last.icon_name \/ f.window_title # last.window_title)
      names == IF f.icon_name = f.window_title THEN <<OSC(0, f.window_title)>>
               ELSE <<OSC(1, f.icon_name), OSC(2, f.window_title)>>
  IN  emit(frame,
           (IF f.bell_count # last.bell_count THEN <<Control("BEL")>> ELSE <<>>)
           \o (IF titled THEN names ELSE <<>>)
           \o (IF f.clipboard # last.clipboard THEN <<OSC(52, f.clipboard)>> ELSE <<>>)
           \o (IF ~initialized \/ f.ds.reverse_video # last.ds.reverse_video
               THEN <<mode(5, f.ds.reverse_video)>> ELSE <<>>))

\* After a change of size the screen is cleared and drawn from nothing.
putSize(frame, initialized, last) ==
  IF initialized
  THEN [frame EXCEPT !.cursor_x = last.ds.cursor_col, !.cursor_y = last.ds.cursor_row,
                     !.rendition = last.ds.renditions, !.hyperlink = last.ds.hyperlink]
  ELSE [emit(frame, <<CSI("r", <<-1>>), CSI("m", <<0>>), CSI("H", <<-1>>), CSI("J", <<2>>), mode(25, FALSE)>>)
          EXCEPT !.cursor_x = 0, !.cursor_y = 0, !.rendition = Renditions(0), !.hyperlink = NoLink,
                 !.cursor_visible = FALSE]

\* The old rows, filled up to the new size.
oldRows(last, f) ==
  [r \in 0..(Max({last.ds.height, f.ds.height}) - 1) |->
     IF r \in DOMAIN last.rows
     THEN [last.rows[r] EXCEPT !.cells =
             [c \in 0..(Max({last.ds.width, f.ds.width}) - 1) |->
                IF c \in DOMAIN @ THEN @[c] ELSE Cell(background(f))]]
     ELSE Row(-1, f.ds.width, 0)]

\* How far the display has moved up: the first old row that is the new row 0.
lines_scrolled(rows, f) ==
  LET same == {r \in 0..(f.ds.height - 1) : rows[r] = f.rows[0]}
  IN  IF same = {} \/ 0 \in same THEN 0 ELSE Min(same)

scroll_height(rows, f, lines) ==
  Min({h \in 1..(f.ds.height - lines) : h = f.ds.height - lines \/ rows[lines + h] # f.rows[h]})

\* The scroll: line feeds on the bottom line, or inside a scrolling region.
putScroll(frame, f, lines, height) ==
  LET plain == update_hyperlink(update_rendition(frame, Renditions(0), TRUE), NoLink, TRUE)
      bottom == lines + height - 1
      feeds == times(lines, Control("LF"))
      region == append_silent_move([emit(plain, <<CSI("r", <<1, bottom + 1>>)>>)
                                      EXCEPT !.cursor_x = -1, !.cursor_y = -1], bottom, 0)
  IN  IF bottom + 1 = f.ds.height /\ frame.cursor_y + 1 = f.ds.height
      THEN [emit(plain, <<Control("CR")>> \o feeds) EXCEPT !.cursor_x = 0]
      ELSE [emit(region, feeds \o <<CSI("r", <<-1>>)>>) EXCEPT !.cursor_x = -1, !.cursor_y = -1]

\* A mutant: the rows that scrolled in are believed to be the old ones.
scrolledRowsStale(rows, f, lines, height) ==
  [r \in DOMAIN rows |-> IF r < height THEN rows[r + lines] ELSE rows[r]]

scrolledRows(rows, f, lines, height) ==
  [r \in DOMAIN rows |-> CASE r + lines < lines + height -> rows[r + lines]
                           [] r + lines >= lines + height /\ r < lines + height -> Row(-1, f.ds.width, 0)
                           [] OTHER -> rows[r]]

putRows(frame, initialized, rows, f, from) ==
  FoldLeft(LAMBDA st, y : put_row(initialized, st.frame, f, y, rows[y], st.wrap),
           [frame |-> frame, wrap |-> FALSE],
           [i \in 1..(f.ds.height - from) |-> from + i - 1]).frame

putCursor(frame, initialized, f) ==
  LET moved == IF ~initialized \/ f.ds.cursor_row # frame.cursor_y \/ f.ds.cursor_col # frame.cursor_x
               THEN append_move(frame, f.ds.cursor_row, f.ds.cursor_col) ELSE frame
      seen == IF ~initialized \/ f.ds.cursor_visible # moved.cursor_visible
              THEN emit(moved, <<mode(25, f.ds.cursor_visible)>>) ELSE moved
  IN  update_hyperlink(update_rendition(seen, f.ds.renditions, ~initialized), f.ds.hyperlink, ~initialized)

\* A mouse mode that changes: the old one is switched off first.
mouseTokens(initialized, old, new, off) ==
  CASE initialized /\ old = new -> <<>>
    [] ~(initialized /\ old = new) /\ new = 0 -> [i \in DOMAIN off |-> mode(off[i], FALSE)]
    [] OTHER -> (IF old # 0 THEN <<mode(old, FALSE)>> ELSE <<>>) \o <<mode(new, TRUE)>>

\* A mutant: bracketed paste and the focus event are forgotten.
putModesMouse(frame, initialized, last, f) ==
  emit(frame, mouseTokens(initialized, last.ds.mouse_reporting_mode, f.ds.mouse_reporting_mode,
                          <<1003, 1002, 1001, 1000>>)
              \o mouseTokens(initialized, last.ds.mouse_encoding_mode, f.ds.mouse_encoding_mode,
                             <<1015, 1006, 1005>>))

putModes(frame, initialized, last, f) ==
  LET changed(field, number) ==
        IF ~initialized \/ f.ds[field] # last.ds[field] THEN <<mode(number, f.ds[field])>> ELSE <<>>
  IN  emit(frame,
           changed("bracketed_paste", 2004)
           \o mouseTokens(initialized, last.ds.mouse_reporting_mode, f.ds.mouse_reporting_mode,
                          <<1003, 1002, 1001, 1000>>)
           \o changed("mouse_focus_event", 1004)
           \o mouseTokens(initialized, last.ds.mouse_encoding_mode, f.ds.mouse_encoding_mode,
                          <<1015, 1006, 1005>>))

\* The parts of a frame, in the order in which they are written.
FrameParts == <<"titles", "size", "scroll", "rows", "cursor", "modes">>

new_frame(wasInitialized, last, f) ==
  LET initialized == wasInitialized /\ f.ds.width = last.ds.width /\ f.ds.height = last.ds.height
      rows == oldRows(last, f)
      lines == IF initialized THEN lines_scrolled(rows, f) ELSE 0
      height == IF lines > 0 THEN scroll_height(rows, f, lines) ELSE 0
      put(frame, part) ==
        CASE part = "titles" -> putTitles(frame, wasInitialized, last, f)
          [] part = "size" -> putSize(frame, initialized, last)
          [] part = "scroll" -> IF lines > 0 THEN putScroll(frame, f, lines, height) ELSE frame
          [] part = "rows" -> putRows(frame, initialized,
                                      IF lines > 0 THEN scrolledRows(rows, f, lines, height) ELSE rows, f, height)
          [] part = "cursor" -> putCursor(frame, initialized, f)
          [] part = "modes" -> putModes(frame, initialized, last, f)
  IN  FoldLeft(put, FrameState(last), FrameParts).str

\* open() and close(): what the client writes around its frames.
open == <<mode(1, TRUE)>>
close == <<mode(1, FALSE), CSI("m", <<0>>), mode(25, TRUE)>>
         \o [i \in 1..7 |-> mode(<<1003, 1002, 1001, 1000, 1015, 1006, 1005>>[i], FALSE)]

=============================================================================
