-------------------------- MODULE MoshFramebuffer --------------------------
(***************************************************************************)
(* The screen of mosh's terminal emulator (terminalframebuffer.cc and .h): *)
(* cells, rows, the drawing state and the framebuffer, as functions from a *)
(* framebuffer to the next one.  Rows and columns count from 0 as they do  *)
(* in the code.                                                            *)
(*                                                                         *)
(* A character is a model value of the parameters' kind; a cell's contents *)
(* are a sequence of them.  A hyperlink is a value, NoLink for none.  Rows *)
(* carry the generation that Row::operator== compares; the shared pointers *)
(* between framebuffers are not modelled: they make copies cheap, and two  *)
(* rows that are one object are equal.                                     *)
(***************************************************************************)
EXTENDS Integers, Sequences, SequencesExt, FiniteSets, FiniteSetsExt

CONSTANTS
  Narrow, Wide, Combining, Unprintable, \* characters by their width: 1, 2, 0, -1
  Space,                     \* the narrow character " "
  NoLink,                    \* the empty Hyperlink
  CellLimit                  \* 32: the size at which a cell is full

ASSUME CharacterAssumption ==
  /\ Cardinality(Narrow) + Cardinality(Wide) + Cardinality(Combining) + Cardinality(Unprintable)
       = Cardinality(UNION {Narrow, Wide, Combining, Unprintable})
  /\ Space \in Narrow
  /\ CellLimit \in Nat \ {0}

chwidth(ch) == CASE ch \in Narrow -> 1 [] ch \in Wide -> 2 [] ch \in Combining -> 0 [] OTHER -> -1

(***************************************************************************)
(* Renditions                                                              *)
(***************************************************************************)
Renditions(background) == [fg |-> 0, bg |-> background, attributes |-> {}]

true_color_mask == 16777216
is_true_color(color) == (color \div true_color_mask) % 2 = 1
make_true_color(r, g, b) == true_color_mask + r * 65536 + g * 256 + b

\* The attributes that set_rendition knows: n sets one, 20 + n clears it.
Attributes == {1, 3, 4, 5, 7, 8}

set_rendition(r, num) ==
  CASE num = 0 -> Renditions(0)
    [] num = 39 -> [r EXCEPT !.fg = 0]
    [] num = 49 -> [r EXCEPT !.bg = 0]
    [] num \in 30..37 -> [r EXCEPT !.fg = num]
    [] num \in 40..47 -> [r EXCEPT !.bg = num]
    [] num \in 90..97 -> [r EXCEPT !.fg = num - 90 + 38]
    [] num \in 100..107 -> [r EXCEPT !.bg = num - 100 + 48]
    [] num \in Attributes -> [r EXCEPT !.attributes = @ \union {num}]
    [] num - 20 \in Attributes \ {1} \/ num = 22 ->
         [r EXCEPT !.attributes = @ \ {IF num = 22 THEN 1 ELSE num - 20}]
    [] OTHER -> r

set_foreground_color(r, num) ==
  CASE num \in 0..255 -> [r EXCEPT !.fg = 30 + num]
    [] is_true_color(num) -> [r EXCEPT !.fg = num]
    [] OTHER -> r

set_background_color(r, num) ==
  CASE num \in 0..255 -> [r EXCEPT !.bg = 40 + num]
    [] is_true_color(num) -> [r EXCEPT !.bg = num]
    [] OTHER -> r

\* Renditions::sgr: the parameters of the SGR sequence that sets r.
channels(color) == <<(color \div 65536) % 256, (color \div 256) % 256, color % 256>>
colorParams(color, selector, base) ==
  CASE color = 0 -> <<>>
    [] color # 0 /\ is_true_color(color) -> <<selector, 2>> \o channels(color)
    [] color # 0 /\ ~is_true_color(color) /\ color > base + 7 -> <<selector, 5, color - base>>
    [] OTHER -> <<color>>

sgr(r) ==
  <<0>> \o SetToSortSeq(r.attributes, <) \o colorParams(r.fg, 38, 30) \o colorParams(r.bg, 48, 40)

(***************************************************************************)
(* Cells and rows                                                          *)
(***************************************************************************)
Cell(background) ==
  [contents |-> <<>>, renditions |-> Renditions(background), hyperlink |-> NoLink,
   wide |-> FALSE, fallback |-> FALSE, wrap |-> FALSE]

empty(cell) == cell.contents = <<>>
full(cell) == Len(cell.contents) >= CellLimit
get_width(cell) == IF cell.wide THEN 2 ELSE 1
append(cell, ch) == [cell EXCEPT !.contents = Append(@, ch)]

\* print_grapheme: what is written to show a cell.  A cell that begins with a
\* combining character is shown on a no-break space, a narrow character too.
print_grapheme(cell) ==
  CASE empty(cell) -> <<Space>>
    [] ~empty(cell) /\ cell.fallback -> <<Space>> \o cell.contents
    [] OTHER -> cell.contents

\* Cell::compare, FALSE when the two cells look the same.
compareCells(a, b) ==
  \/ print_grapheme(a) # print_grapheme(b)
  \/ a.wide # b.wide \/ a.renditions # b.renditions \/ a.wrap # b.wrap

Row(gen, width, background) ==
  [gen |-> gen, cells |-> [c \in 0..(width - 1) |-> Cell(background)]]

get_wrap(row) == row.cells[Cardinality(DOMAIN row.cells) - 1].wrap
set_wrap(row, w) == [row EXCEPT !.cells[Cardinality(DOMAIN row.cells) - 1].wrap = w]

\* insert_cell and delete_cell: what falls off the end is lost.
rowInsertCell(row, col, background) ==
  [row EXCEPT !.cells = [c \in DOMAIN @ |->
     CASE c < col -> @[c] [] c = col -> Cell(background) [] OTHER -> @[c - 1]]]
rowDeleteCell(row, col, background) ==
  [row EXCEPT !.cells = [c \in DOMAIN @ |->
     CASE c < col -> @[c] [] c >= col /\ c + 1 \in DOMAIN @ -> @[c + 1] [] OTHER -> Cell(background)]]

(***************************************************************************)
(* The drawing state                                                       *)
(***************************************************************************)
SavedCursor ==
  [cursor_col |-> 0, cursor_row |-> 0, renditions |-> Renditions(0),
   auto_wrap_mode |-> TRUE, origin_mode |-> FALSE]

defaultTabs(from, width) == {c \in from..(width - 1) : c % 8 = 0}

DrawState(width, height) ==
  [width |-> width, height |-> height, cursor_col |-> 0, cursor_row |-> 0,
   combining_char_col |-> 0, combining_char_row |-> 0,
   default_tabs |-> TRUE, tabs |-> defaultTabs(0, width),
   top |-> 0, bottom |-> height - 1,
   renditions |-> Renditions(0), hyperlink |-> NoLink, save |-> SavedCursor,
   next_print_will_wrap |-> FALSE, origin_mode |-> FALSE, auto_wrap_mode |-> TRUE,
   insert_mode |-> FALSE, cursor_visible |-> TRUE, reverse_video |-> FALSE,
   bracketed_paste |-> FALSE, mouse_reporting_mode |-> 0, mouse_focus_event |-> FALSE,
   mouse_alternate_scroll |-> FALSE, mouse_encoding_mode |-> 0,
   application_mode_cursor_keys |-> FALSE]

\* DrawState::operator==: the fields that affect the display.
shownState(ds) ==
  <<ds.width, ds.height, ds.cursor_col, ds.cursor_row, ds.cursor_visible, ds.reverse_video,
    ds.renditions, ds.bracketed_paste, ds.mouse_reporting_mode, ds.mouse_focus_event,
    ds.mouse_alternate_scroll, ds.mouse_encoding_mode, ds.hyperlink>>

limit_top(ds) == IF ds.origin_mode THEN ds.top ELSE 0
limit_bottom(ds) == IF ds.origin_mode THEN ds.bottom ELSE ds.height - 1

new_grapheme(ds) == [ds EXCEPT !.combining_char_col = ds.cursor_col, !.combining_char_row = ds.cursor_row]

between(low, n, high) == IF n > high THEN high ELSE IF n < low THEN low ELSE n

snap_cursor_to_border(ds) ==
  [ds EXCEPT !.cursor_row = between(limit_top(ds), @, limit_bottom(ds)),
             !.cursor_col = between(0, @, ds.width - 1)]

move_row(ds, n, relative) ==
  LET moved == [ds EXCEPT !.cursor_row = IF relative THEN @ + n ELSE n + limit_top(ds)]
  IN  [new_grapheme(snap_cursor_to_border(moved)) EXCEPT !.next_print_will_wrap = FALSE]

\* An implicit move is the one that follows a printed character.
move_col(ds, n, relative, implicit) ==
  LET start == IF implicit THEN new_grapheme(ds) ELSE ds
      col == IF relative THEN ds.cursor_col + n ELSE n
      there == snap_cursor_to_border([start EXCEPT !.cursor_col = col])
  IN  IF implicit THEN [there EXCEPT !.next_print_will_wrap = col >= ds.width]
      ELSE [new_grapheme(there) EXCEPT !.next_print_will_wrap = FALSE]

\* get_next_tab: -1 when there is no stop to the right, 0 when none to the left.
get_next_tab(ds, count) ==
  LET right == SetToSortSeq({c \in ds.tabs : c > ds.cursor_col}, <)
      left == SetToSortSeq({c \in ds.tabs : c < ds.cursor_col /\ c > 0}, >)
  IN  IF count >= 0 THEN IF count \in DOMAIN right THEN right[count] ELSE -1
      ELSE IF -count \in DOMAIN left THEN left[-count] ELSE 0

set_scrolling_region(ds, top, bottom) ==
  LET t == IF top < 0 THEN 0 ELSE top
      b == IF bottom >= ds.height THEN ds.height - 1 ELSE bottom
      region == [ds EXCEPT !.top = t, !.bottom = IF b < t THEN t ELSE b]
  IN  IF ds.height < 1 THEN ds
      ELSE IF ds.origin_mode THEN new_grapheme(snap_cursor_to_border(region)) ELSE region

save_cursor(ds) ==
  [ds EXCEPT !.save = [f \in DOMAIN SavedCursor |-> ds[f]]]

\* The screen may have become smaller since the cursor was saved.
restore_cursor(ds) ==
  new_grapheme(snap_cursor_to_border([f \in DOMAIN ds |-> IF f \in DOMAIN ds.save THEN ds.save[f] ELSE ds[f]]))

resizeState(ds, width, height) ==
  LET same == ds.width = width /\ ds.height = height
      kept == ds.tabs \intersect 0..(width - 1)
      sized == snap_cursor_to_border(
        [ds EXCEPT !.top = IF same THEN @ ELSE 0, !.bottom = IF same THEN @ ELSE height - 1,
                   !.tabs = IF ds.default_tabs THEN kept \union defaultTabs(ds.width, width) ELSE kept,
                   !.width = width, !.height = height])
      offscreen == ds.combining_char_col >= width \/ ds.combining_char_row >= height
  IN  IF offscreen THEN [sized EXCEPT !.combining_char_col = -1, !.combining_char_row = -1] ELSE sized

(***************************************************************************)
(* The framebuffer                                                         *)
(***************************************************************************)
Framebuffer(width, height) ==
  [rows |-> [r \in 0..(height - 1) |-> Row(0, width, 0)], gens |-> 1,
   icon_name |-> <<>>, window_title |-> <<>>, clipboard |-> <<>>, bell_count |-> 0,
   title_initialized |-> FALSE, ds |-> DrawState(width, height)]

\* Framebuffer::operator==.  The code compares pointers to rows; between two
\* screens whose rows are equal new_frame writes nothing but an icon name.
sameScreen(a, b) ==
  /\ a.rows = b.rows /\ a.window_title = b.window_title /\ a.clipboard = b.clipboard
  /\ a.bell_count = b.bell_count /\ shownState(a.ds) = shownState(b.ds)

background(fb) == fb.ds.renditions.bg
newrow(fb) == Row(fb.gens, fb.ds.width, background(fb))

\* insert_line and delete_line move rows inside the scrolling region only.
insert_line(fb, before, count) ==
  LET scroll == Min({fb.ds.bottom + 1 - before, count})
  IN  IF before < fb.ds.top \/ before > fb.ds.bottom + 1 \/ scroll = 0 THEN fb
      ELSE [fb EXCEPT !.gens = @ + 1,
                      !.rows = [r \in DOMAIN @ |->
                        CASE r < before \/ r > fb.ds.bottom -> @[r]
                          [] r \in before..(before + scroll - 1) -> newrow(fb)
                          [] OTHER -> @[r - scroll]]]

delete_line(fb, row, count) ==
  LET scroll == Min({fb.ds.bottom + 1 - row, count})
  IN  IF row < fb.ds.top \/ row > fb.ds.bottom \/ scroll = 0 THEN fb
      ELSE [fb EXCEPT !.gens = @ + 1,
                      !.rows = [r \in DOMAIN @ |->
                        CASE r < row \/ r > fb.ds.bottom -> @[r]
                          [] r \in row..(fb.ds.bottom - scroll) -> @[r + scroll]
                          [] OTHER -> newrow(fb)]]

scrollBy(fb, n) == IF n >= 0 THEN delete_line(fb, fb.ds.top, n) ELSE insert_line(fb, fb.ds.top, -n)

moveRow(fb, n) == [fb EXCEPT !.ds = move_row(@, n, TRUE)]

\* move_rows_autoscroll: outside the region the cursor moves and nothing scrolls.
move_rows_autoscroll(fb, n) ==
  LET to == fb.ds.cursor_row + n
      outside == fb.ds.cursor_row < fb.ds.top \/ fb.ds.cursor_row > fb.ds.bottom
      over == CASE to > fb.ds.bottom -> to - fb.ds.bottom
                [] to < fb.ds.top -> to - fb.ds.top
                [] OTHER -> 0
  IN  IF outside \/ over = 0 THEN moveRow(fb, n)
      ELSE moveRow(moveRow(scrollBy(fb, over), -over), n)

reset_cells(fb, row, from, to) ==
  [fb EXCEPT !.rows[row].cells = [c \in DOMAIN @ |-> IF c \in from..to THEN Cell(background(fb)) ELSE @[c]]]

\* Each row that is reset gets a generation of its own.
reset_rows(fb, from, to) ==
  IF from > to THEN fb
  ELSE [fb EXCEPT !.gens = @ + (to - from + 1),
                  !.rows = [r \in DOMAIN @ |->
                     IF r \in from..to THEN Row(fb.gens + r - from, fb.ds.width, background(fb)) ELSE @[r]]]

resetFramebuffer(fb) ==
  LET ds == DrawState(fb.ds.width, fb.ds.height)
  IN  [fb EXCEPT !.ds = ds, !.rows = [r \in DOMAIN @ |-> Row(fb.gens, ds.width, 0)], !.gens = @ + 1,
                 !.window_title = <<>>, !.clipboard = <<>>]

soft_reset(fb) ==
  LET ds == [fb.ds EXCEPT !.insert_mode = FALSE, !.origin_mode = FALSE, !.cursor_visible = TRUE,
                          !.application_mode_cursor_keys = FALSE]
      whole == set_scrolling_region(ds, 0, ds.height - 1)
  IN  [fb EXCEPT !.ds = [whole EXCEPT !.renditions = set_rendition(@, 0), !.hyperlink = NoLink,
                                      !.save = SavedCursor]]

\* A row that is cut or filled up loses its wrap flag; a new one is blank.
resizeFramebuffer(fb, width, height) ==
  LET ds == resizeState(fb.ds, width, height)
      blank == Row(fb.gens, width, ds.renditions.bg)
      fitted(row) ==
        [row EXCEPT !.cells = [c \in 0..(width - 1) |->
           IF c \in DOMAIN row.cells THEN set_wrap(row, FALSE).cells[c] ELSE Cell(ds.renditions.bg)]]
  IN  [fb EXCEPT !.ds = ds, !.gens = @ + 1,
                 !.rows = [r \in 0..(height - 1) |->
                    CASE r \notin DOMAIN fb.rows -> blank
                      [] r \in DOMAIN fb.rows /\ fb.ds.width # width -> fitted(fb.rows[r])
                      [] OTHER -> fb.rows[r]]]

=============================================================================
