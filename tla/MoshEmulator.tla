---------------------------- MODULE MoshEmulator ----------------------------
(***************************************************************************)
(* The functions of mosh's terminal emulator (terminal.cc,                 *)
(* terminalfunctions.cc and the dispatch of terminaldispatcher.cc): what a *)
(* printed character, a control character, an escape or control sequence   *)
(* and an operating system command do to the framebuffer.  How bytes       *)
(* become these is the matter of MoshParser: here a function is a token,   *)
(* its parameters already parsed, -1 for an empty one.                     *)
(*                                                                         *)
(* An emulator is a record of a framebuffer and the replies to the host.   *)
(***************************************************************************)
EXTENDS MoshFramebuffer

Emulator(width, height) == [fb |-> Framebuffer(width, height), to_host |-> <<>>]

Glyph(ch) == [type |-> "print", ch |-> ch]
Control(key) == [type |-> "control", key |-> key]
Escape(key) == [type |-> "escape", key |-> key]
CSI(key, params) == [type |-> "csi", key |-> key, params |-> params]
OSC(command, text) == [type |-> "osc", command |-> command, text |-> text]

\* Dispatcher::getparam: an absent or empty parameter, and 0, is the default.
getparam(params, n, default) ==
  IF n < Len(params) /\ params[n + 1] >= 1 THEN params[n + 1] ELSE default

(***************************************************************************)
(* Printing                                                                *)
(***************************************************************************)
cursorRow(fb) == fb.rows[fb.ds.cursor_row]
setCell(fb, row, col, cell) == [fb EXCEPT !.rows[row].cells[col] = cell]
newLine(fb) == move_rows_autoscroll([fb EXCEPT !.ds = move_col(@, 0, FALSE, FALSE)], 1)

\* A character that does not fit goes to the next line: the row wraps, or,
\* when a wide character leaves a blank at its end, does not.
wrapped(fb, width) ==
  CASE fb.ds.auto_wrap_mode /\ fb.ds.next_print_will_wrap ->
         newLine([fb EXCEPT !.rows[fb.ds.cursor_row] = set_wrap(@, TRUE)])
    [] fb.ds.auto_wrap_mode /\ ~fb.ds.next_print_will_wrap /\ width = 2
       /\ fb.ds.cursor_col = fb.ds.width - 1 ->
         newLine([reset_cells(fb, fb.ds.cursor_row, fb.ds.cursor_col, fb.ds.cursor_col)
                    EXCEPT !.rows[fb.ds.cursor_row] = set_wrap(@, FALSE)])
    [] OTHER -> fb

insertCells(fb, count) ==
  [fb EXCEPT !.rows[fb.ds.cursor_row] =
     FoldLeft(LAMBDA row, i : rowInsertCell(row, fb.ds.cursor_col, background(fb)), @, [i \in 1..count |-> i])]

printCharacter(before, ch) ==
  LET w == chwidth(ch)
      line == wrapped(before, w)
      fb == IF line.ds.insert_mode THEN insertCells(line, w) ELSE line
      row == fb.ds.cursor_row
      col == fb.ds.cursor_col
      cell == [append(Cell(0), ch) EXCEPT !.wide = w = 2, !.renditions = fb.ds.renditions,
                                          !.hyperlink = fb.ds.hyperlink]
      put == setCell(fb, row, col, cell)
      over == IF w = 2 /\ col + 1 < fb.ds.width THEN reset_cells(put, row, col + 1, col + 1) ELSE put
  IN  [over EXCEPT !.ds = move_col(@, w, TRUE, TRUE)]

\* get_combining_cell finds none after a resize.
combine(fb, ch) ==
  LET row == fb.ds.combining_char_row
      col == fb.ds.combining_char_col
      cell == fb.rows[row].cells[col]
      first == IF empty(cell) THEN [cell EXCEPT !.fallback = TRUE] ELSE cell
      put == setCell(fb, row, col, IF full(first) THEN first ELSE append(first, ch))
  IN  CASE ~(row \in 0..(fb.ds.height - 1) /\ col \in 0..(fb.ds.width - 1)) -> fb
        [] OTHER -> IF empty(cell) THEN [put EXCEPT !.ds = move_col(@, 1, TRUE, TRUE)] ELSE put

\* What print asserts: a cell without contents is never a wide one.
combineAsserts(fb) ==
  \A r \in DOMAIN fb.rows : \A c \in DOMAIN fb.rows[r].cells :
    empty(fb.rows[r].cells[c]) => ~fb.rows[r].cells[c].wide

print(fb, ch) ==
  CASE ch \in Narrow \union Wide -> printCharacter(fb, ch)
    [] ch \in Combining -> combine(fb, ch)
    [] OTHER -> fb

(***************************************************************************)
(* Erasing, moving, scrolling                                              *)
(***************************************************************************)
CSI_EL(fb, params) ==
  LET row == fb.ds.cursor_row
  IN  CASE getparam(params, 0, 0) = 0 -> reset_cells(fb, row, fb.ds.cursor_col, fb.ds.width - 1)
        [] getparam(params, 0, 0) = 1 -> reset_cells(fb, row, 0, fb.ds.cursor_col)
        [] getparam(params, 0, 0) = 2 -> reset_rows(fb, row, row)
        [] OTHER -> fb

CSI_ED(fb, params) ==
  LET row == fb.ds.cursor_row
      last == fb.ds.height - 1
  IN  CASE getparam(params, 0, 0) = 0 ->
             reset_rows(reset_cells(fb, row, fb.ds.cursor_col, fb.ds.width - 1), row + 1, last)
        [] getparam(params, 0, 0) = 1 ->
             reset_cells(reset_rows(fb, 0, row - 1), row, 0, fb.ds.cursor_col)
        [] getparam(params, 0, 0) = 2 -> reset_rows(fb, 0, last)
        [] OTHER -> fb

moveTo(ds, row, col) == move_col(move_row(ds, row, FALSE), col, FALSE, FALSE)

CSI_cursormove(ds, key, params) ==
  LET num == getparam(params, 0, 1)
  IN  CASE key = "A" -> move_row(ds, -num, TRUE)
        [] key = "B" -> move_row(ds, num, TRUE)
        [] key = "C" -> move_col(ds, num, TRUE, FALSE)
        [] key = "D" -> move_col(ds, -num, TRUE, FALSE)
        [] key \in {"H", "f"} -> moveTo(ds, num - 1, getparam(params, 1, 1) - 1)
        [] key = "d" -> move_row(ds, num - 1, FALSE)
        [] key \in {"G", "HPA"} -> move_col(ds, num - 1, FALSE, FALSE)

Esc_DECALN(fb) ==
  [fb EXCEPT !.rows = [r \in DOMAIN @ |-> [@[r] EXCEPT !.cells =
     [c \in DOMAIN @ |-> append(Cell(background(fb)), CHOOSE ch \in Narrow : ch # Space)]]]]

\* HT_n: a tab keeps the wrap state, whatever it was.
HT_n(ds, count) ==
  LET col == get_next_tab(ds, count)
  IN  [move_col(ds, IF col = -1 THEN ds.width - 1 ELSE col, FALSE, FALSE)
         EXCEPT !.next_print_will_wrap = ds.next_print_will_wrap]

CSI_CxT(ds, key, params) ==
  LET n == getparam(params, 0, 1) IN HT_n(ds, IF key = "Z" THEN -n ELSE n)

CSI_TBC(ds, params) ==
  CASE getparam(params, 0, 0) = 0 -> [ds EXCEPT !.tabs = @ \ {ds.cursor_col}]
    [] getparam(params, 0, 0) = 3 -> [ds EXCEPT !.default_tabs = FALSE, !.tabs = {}]
    [] OTHER -> ds

CSI_DECSTBM(ds, params) ==
  LET top == getparam(params, 0, 1)
      bottom == getparam(params, 1, ds.height)
  IN  IF bottom <= top \/ top > ds.height \/ (top = 0 /\ bottom = 1) THEN ds
      ELSE moveTo(set_scrolling_region(ds, top - 1, bottom - 1), 0, 0)

\* CSI_IL and CSI_DL also go to the first column.
CSI_lines(fb, key, params) ==
  LET n == getparam(params, 0, 1)
      moved == IF key = "L" THEN insert_line(fb, fb.ds.cursor_row, n) ELSE delete_line(fb, fb.ds.cursor_row, n)
  IN  [moved EXCEPT !.ds = move_col(@, 0, FALSE, FALSE)]

CSI_ICH(fb, params) == insertCells(fb, Min({getparam(params, 0, 1), fb.ds.width}))
CSI_DCH(fb, params) ==
  [fb EXCEPT !.rows[fb.ds.cursor_row] =
     FoldLeft(LAMBDA row, i : rowDeleteCell(row, fb.ds.cursor_col, background(fb)), @,
              [i \in 1..Min({getparam(params, 0, 1), fb.ds.width}) |-> i])]

CSI_ECH(fb, params) ==
  reset_cells(fb, fb.ds.cursor_row, fb.ds.cursor_col,
              Min({fb.ds.cursor_col + getparam(params, 0, 1) - 1, fb.ds.width - 1}))

(***************************************************************************)
(* Modes and renditions                                                    *)
(***************************************************************************)
modeOf == [m \in {1, 5, 6, 7, 25, 1004, 1007, 2004} |->
  CASE m = 1 -> "application_mode_cursor_keys" [] m = 5 -> "reverse_video" [] m = 6 -> "origin_mode"
    [] m = 7 -> "auto_wrap_mode" [] m = 25 -> "cursor_visible" [] m = 1004 -> "mouse_focus_event"
    [] m = 1007 -> "mouse_alternate_scroll" [] m = 2004 -> "bracketed_paste"]

mouseReporting == {9} \union 1000..1003
mouseEncoding == {1005, 1006, 1015}

\* get_DEC_mode and set_if_available for one parameter: mode 3 clears the
\* screen, and 3 and 6 send the cursor home before the mode changes.
setMode(fb, param, value) ==
  LET home == moveTo(fb.ds, 0, 0)
  IN  CASE param \in mouseReporting -> [fb EXCEPT !.ds.mouse_reporting_mode = IF value THEN param ELSE 0]
        [] param \in mouseEncoding -> [fb EXCEPT !.ds.mouse_encoding_mode = IF value THEN param ELSE 0]
        [] param = 3 -> reset_rows([fb EXCEPT !.ds = home], 0, fb.ds.height - 1)
        [] param = 6 -> [fb EXCEPT !.ds = [home EXCEPT !.origin_mode = value]]
        [] param \in DOMAIN modeOf \ {6} -> [fb EXCEPT !.ds[modeOf[param]] = value]
        [] OTHER -> fb

CSI_DECSM(fb, params, value) ==
  FoldLeft(LAMBDA f, p : setMode(f, getparam(<<p>>, 0, 0), value), fb, params)

CSI_SM(ds, params, value) ==
  IF \E i \in DOMAIN params : getparam(params, i - 1, 0) = 4 THEN [ds EXCEPT !.insert_mode = value] ELSE ds

\* CSI_SGR takes the parameters from left to right; 38 and 48 may take the
\* two or four that follow with them.
CSI_SGR(ds, params) ==
  LET p(i) == getparam(params, i - 1, 0)
      left(i) == Len(params) - i + 1
      setColor(i, r, color) == IF p(i) = 38 THEN set_foreground_color(r, color) ELSE set_background_color(r, color)
      step(st, i) ==
        CASE i < st.next -> st
          [] i >= st.next /\ p(i) \in {38, 48} /\ left(i) >= 3 /\ getparam(params, i, -1) = 5 ->
               [next |-> i + 3, r |-> setColor(i, st.r, p(i + 2))]
          [] i >= st.next /\ p(i) \in {38, 48} /\ left(i) >= 5 /\ getparam(params, i, -1) = 2 ->
               [next |-> i + 5, r |-> setColor(i, st.r, make_true_color(p(i + 2), p(i + 3), p(i + 4)))]
          [] OTHER -> [next |-> i + 1, r |-> set_rendition(st.r, p(i))]
  IN  [ds EXCEPT !.renditions = FoldLeft(step, [next |-> 1, r |-> ds.renditions], [i \in DOMAIN params |-> i]).r]

(***************************************************************************)
(* Dispatcher::dispatch, OSC_dispatch and act_on_terminal                  *)
(***************************************************************************)
cursorKeys == {"A", "B", "C", "D", "H", "f", "d", "G", "HPA"}
keepsWrapState == {"I", "Z", "g", "?h", "?l", "m", "HT"}

onState(fb, ds) == [fb EXCEPT !.ds = ds]

csi(fb, key, params) ==
  CASE key = "K" -> CSI_EL(fb, params)
    [] key = "J" -> CSI_ED(fb, params)
    [] key \in cursorKeys -> onState(fb, CSI_cursormove(fb.ds, key, params))
    [] key \in {"I", "Z"} -> onState(fb, CSI_CxT(fb.ds, key, params))
    [] key = "g" -> onState(fb, CSI_TBC(fb.ds, params))
    [] key \in {"?h", "?l"} -> CSI_DECSM(fb, params, key = "?h")
    [] key \in {"h", "l"} -> onState(fb, CSI_SM(fb.ds, params, key = "h"))
    [] key = "r" -> onState(fb, CSI_DECSTBM(fb.ds, params))
    [] key = "m" -> onState(fb, CSI_SGR(fb.ds, params))
    [] key \in {"L", "M"} -> CSI_lines(fb, key, params)
    [] key = "@" -> CSI_ICH(fb, params)
    [] key = "P" -> CSI_DCH(fb, params)
    [] key = "X" -> CSI_ECH(fb, params)
    [] key = "!p" -> soft_reset(fb)
    [] key \in {"S", "T"} -> scrollBy(fb, IF key = "S" THEN getparam(params, 0, 1) ELSE -getparam(params, 0, 1))
    [] OTHER -> fb

\* CSI_DA, CSI_SDA and CSI_DSR answer the host.
reply(fb, key, params) ==
  CASE key = "c" -> <<"vt220">>
    [] key = ">c" -> <<"vt220 secondary">>
    [] key = "n" /\ getparam(params, 0, 0) = 5 -> <<"ok">>
    [] key = "n" /\ getparam(params, 0, 0) = 6 -> <<<<fb.ds.cursor_row + 1, fb.ds.cursor_col + 1>>>>
    [] OTHER -> <<>>

control(fb, key) ==
  CASE key \in {"LF", "IND", "VT", "FF"} -> move_rows_autoscroll(fb, 1)
    [] key = "CR" -> onState(fb, move_col(fb.ds, 0, FALSE, FALSE))
    [] key = "BS" -> onState(fb, move_col(fb.ds, -1, TRUE, FALSE))
    [] key = "RI" -> move_rows_autoscroll(fb, -1)
    [] key = "NEL" -> newLine(fb)
    [] key = "HT" -> onState(fb, HT_n(fb.ds, 1))
    [] key = "HTS" -> onState(fb, [fb.ds EXCEPT !.tabs = @ \union {fb.ds.cursor_col}])
    [] key = "BEL" -> [fb EXCEPT !.bell_count = @ + 1]
    [] OTHER -> fb

escape(fb, key) ==
  CASE key = "#8" -> Esc_DECALN(fb)
    [] key = "7" -> onState(fb, save_cursor(fb.ds))
    [] key = "8" -> onState(fb, restore_cursor(fb.ds))
    [] key = "c" -> resetFramebuffer(fb)
    [] OTHER -> fb

\* OSC_dispatch: 52;c is the clipboard, 8 a hyperlink, 0, 1 and 2 the titles.
osc(fb, command, text) ==
  CASE command = 52 -> [fb EXCEPT !.clipboard = text]
    [] command = 8 -> [fb EXCEPT !.ds.hyperlink = IF text = <<>> THEN NoLink ELSE text]
    [] command \in 0..2 -> [fb EXCEPT !.title_initialized = TRUE,
                                      !.icon_name = IF command \in {0, 1} THEN text ELSE @,
                                      !.window_title = IF command \in {0, 2} THEN text ELSE @]
    [] OTHER -> fb

\* A function that is not known, such as the ST after a hyperlink, clears it too.
clearsWrap(fb, token) ==
  IF token.type \in {"control", "escape", "csi"} /\ token.key \notin keepsWrapState
  THEN [fb EXCEPT !.ds.next_print_will_wrap = FALSE] ELSE fb

act(emu, token) ==
  LET fb == clearsWrap(emu.fb, token)
  IN  CASE token.type = "print" -> [emu EXCEPT !.fb = print(fb, token.ch)]
        [] token.type = "control" -> [emu EXCEPT !.fb = control(fb, token.key)]
        [] token.type = "escape" -> [emu EXCEPT !.fb = escape(fb, token.key)]
        [] token.type = "csi" -> [emu EXCEPT !.fb = csi(fb, token.key, token.params),
                                             !.to_host = @ \o reply(fb, token.key, token.params)]
        [] token.type = "osc" -> [emu EXCEPT !.fb = osc(fb, token.command, token.text)]

actAll(emu, tokens) == FoldLeft(act, emu, tokens)

=============================================================================
