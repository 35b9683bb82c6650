-------------------------- MODULE TerminalHistory --------------------------
(***************************************************************************)
(* The scrollback, the viewport on it and the selection in it: the scroll, *)
(* selection and prompt functions of ghostty_jni.cpp, and the handlers of  *)
(* TerminalView that combine them (onDraw with updateSelectionState, the   *)
(* selection handles, previous and next prompt, copy last output).         *)
(*                                                                         *)
(* Each native call holds the session's mutex and is one step; output may  *)
(* be read from the PTY between the calls of a handler.  A selection ends  *)
(* on rows: columns are carried along and never decide anything here.      *)
(* Rows are numbered from 0, the top of the scrollback.                    *)
(***************************************************************************)
EXTENDS Integers, Sequences, FiniteSetsExt, SequencesExt

CONSTANTS
  Height,      \* rows of the viewport
  MaxRows,     \* bound on the rows of the history
  Marks        \* semantic marks of the rows that are written

ASSUME HistoryAssumption ==
  /\ Height \in Nat \ {0} /\ MaxRows \in Nat
  /\ Marks \subseteq {"prompt", "continuation", "output", "blank"}

VARIABLES
  rows,        \* the mark of each row; "blank": no prompt, and no text
  following,   \* the viewport is on the active area
  pinTop,      \* else: the row on its top
  alt,         \* the alternate screen is active
  selection,   \* the emulator's selection: <<row, row>>, or <<>>
  handler,     \* where the main thread is in its handler
  scrollbar,   \* the scrollbar in renderFrame: total and offset
  prev,        \* prevScrollTotal, prevScrollOffset
  selectionActive,
  handles,     \* selStartHandleY, selEndHandleY and their visibility
  sel,         \* what applyHandleDrag has read
  dragging,    \* draggingHandle
  finger,      \* the row under the finger
  anchor,      \* (history) the end of the selection that is not dragged
  copied       \* the last command's output as copied; of, history: the rows there were

historyVars == <<rows, following, pinTop, alt, selection, handler, scrollbar, prev, selectionActive, handles, dragging,
                 sel, finger, anchor, copied>>
viewVars == <<scrollbar, prev, selectionActive, handles>>
dragVars == <<dragging, sel, finger, anchor>>

NoSelection == <<>>
NoHandles == [k \in 1..2 |-> [row |-> 0, visible |-> FALSE]]
total == IF alt THEN Height ELSE Len(rows)  \* of the active screen
bottom == total - Height
offset == IF alt THEN 0 ELSE IF following THEN bottom ELSE pinTop
mark(y) == rows[y + 1]
clamp(lo, x, hi) == IF x < lo THEN lo ELSE IF x > hi THEN hi ELSE x

(***************************************************************************)
(* The native functions.                                                   *)
(***************************************************************************)
\* ghostty_terminal_scroll_viewport to a row; the alternate screen has no history
scrollTo(y) ==
  IF alt THEN UNCHANGED <<following, pinTop>>
  ELSE /\ following' = (y >= bottom)
       /\ pinTop' = IF y >= bottom THEN 0 ELSE clamp(0, y, bottom)

\* Clamps one row too late
selectionViewportLate ==
  LET y(k) == (IF k = 1 THEN Min(ToSet(selection)) ELSE Max(ToSet(selection))) - offset
  IN [k \in 1..2 |-> [row |-> clamp(0, y(k), Height), visible |-> y(k) \in 0..(Height - 1)]]

\* The ends in order, clamped to the viewport
nativeGetSelectionViewport ==
  LET y(k) == (IF k = 1 THEN Min(ToSet(selection)) ELSE Max(ToSet(selection))) - offset
  IN [k \in 1..2 |-> [row |-> clamp(0, y(k), Height - 1), visible |-> y(k) \in 0..(Height - 1)]]

collectPromptRows == IF alt THEN {} ELSE {y \in 0..(total - 1) : mark(y) = "prompt"}

\* Takes the first prompt of the history, not the nearest
previousPromptFirst ==
  LET above == {y \in collectPromptRows : y < offset} IN IF above # {} THEN Min(above) ELSE -1

\* The nearest prompt above the top; with none, the last but one of all
previousPrompt ==
  LET prompts == collectPromptRows
      above == {y \in prompts : y < offset}
  IN IF above # {} THEN Max(above)
     ELSE IF Cardinality(prompts) >= 2 THEN Max(prompts \ {Max(prompts)})
     ELSE IF offset > 0 /\ prompts # {} THEN Max(prompts)
     ELSE -1

nextPrompt ==
  LET below == {y \in collectPromptRows : y > offset} IN IF below # {} THEN Min(below) ELSE -1

\* The end of the block of continuation rows behind a prompt
promptEnd(start, end) ==
  Max({y \in start..(end - 1) : \A z \in (start + 1)..y : mark(z) = "continuation"})

\* The rows between the last prompt and the block of the one before
outputRange ==
  LET prompts == collectPromptRows
      end == Max(prompts)
      start == Max(prompts \ {end})
  IN IF Cardinality(prompts) < 2 THEN {} ELSE (promptEnd(start, end) + 1)..(end - 1)

\* Nothing to collect: the whole range is selected and formatted, then the
\* selection is cleared
fallsBack == outputRange # {} /\ \A y \in outputRange : mark(y) # "output"

\* nativeGetLastCommandOutput: the rows whose text is returned
lastCommandOutput ==
  IF fallsBack THEN {y \in outputRange : mark(y) # "blank"} ELSE {y \in outputRange : mark(y) = "output"}

(***************************************************************************)
(* The program.                                                            *)
(***************************************************************************)
\* A row scrolls into the history; a viewport that follows moves with it
output(m) ==
  /\ total < MaxRows /\ ~alt
  /\ rows' = Append(rows, m)
  /\ UNCHANGED <<following, pinTop, alt, selection, handler, viewVars, dragVars, copied>>

\* The program switches the screen, which ends the selection
switchScreen ==
  /\ alt' = ~alt /\ selection' = NoSelection
  /\ UNCHANGED <<rows, following, pinTop, handler, viewVars, dragVars, copied>>

(***************************************************************************)
(* The view: onDraw.                                                       *)
(***************************************************************************)
ViewIdle == handler = "idle"

onDraw ==
  /\ ViewIdle
  /\ scrollbar' = <<total, offset>>
  /\ handler' = IF selectionActive THEN "pin" ELSE "idle"
  /\ prev' = IF selectionActive THEN prev ELSE scrollbar'
  /\ UNCHANGED <<rows, following, pinTop, alt, selection, selectionActive, handles, dragVars, copied>>

\* updateSelectionState: where to keep a viewport that followed the output
pinTarget ==
  IF prev[1] > 0 /\ scrollbar[1] > prev[1] /\ prev[2] + Height >= prev[1]
  THEN Min({prev[2], Max({0, scrollbar[1] - Height})})
  ELSE -1

pin ==
  /\ handler = "pin" /\ handler' = "handles"
  /\ IF pinTarget >= 0 THEN scrollTo(pinTarget) ELSE UNCHANGED <<following, pinTop>>
  /\ UNCHANGED <<rows, alt, selection, viewVars, dragVars, copied>>

\* setSelectionActive(false), which ends a drag
deactivate ==
  /\ selectionActive' = FALSE
  /\ dragging' = 0 /\ sel' = NoHandles /\ finger' = 0 /\ anchor' = 0
  /\ handles' = IF selectionActive THEN [k \in 1..2 |-> [handles[k] EXCEPT !.visible = FALSE]] ELSE handles

placeHandles ==
  /\ handler = "handles" /\ handler' = "idle"
  /\ prev' = scrollbar
  /\ IF selection = NoSelection THEN deactivate
     ELSE /\ handles' = nativeGetSelectionViewport
          /\ UNCHANGED <<selectionActive, dragVars>>
  /\ UNCHANGED <<rows, following, pinTop, alt, selection, scrollbar, copied>>

(***************************************************************************)
(* The view: gestures.                                                     *)
(***************************************************************************)
\* session.scroll(2, delta); a drag of a handle takes every event
scrollView ==
  /\ ViewIdle /\ dragging = 0
  /\ \E delta \in {-1, 1} : scrollTo(clamp(0, offset + delta, bottom))
  /\ UNCHANGED <<rows, alt, selection, handler, viewVars, dragVars, copied>>

\* startTextSelection: a word of a row of the viewport
startTextSelection ==
  /\ ViewIdle /\ dragging = 0
  /\ \E y \in 0..(Height - 1) : selection' = <<offset + y, offset + y>>
  /\ selectionActive' = TRUE
  /\ UNCHANGED <<rows, following, pinTop, alt, handler, scrollbar, prev, handles, dragVars, copied>>

\* clearSelection, also behind copySelection
clearSelection ==
  /\ ViewIdle
  /\ selection' = NoSelection
  /\ deactivate
  /\ UNCHANGED <<rows, following, pinTop, alt, handler, scrollbar, prev, copied>>

\* The finger lands on a handle that is drawn
startHandleDrag ==
  /\ ViewIdle /\ selectionActive /\ dragging = 0
  /\ \E k \in 1..2 : /\ handles[k].visible
                     /\ dragging' = k
                     /\ anchor' = IF selection = NoSelection THEN 0
                                  ELSE IF k = 1 THEN Max(ToSet(selection)) ELSE Min(ToSet(selection))
  /\ UNCHANGED <<rows, following, pinTop, alt, selection, handler, viewVars, sel, finger, copied>>

HANDLE_AUTO_SCROLL_STEP_ROWS == 3

\* applyHandleDrag: at an edge of the primary screen the viewport scrolls
dragMove ==
  /\ ViewIdle /\ dragging # 0
  /\ \E y \in 0..(Height - 1) :
       /\ finger' = y
       /\ \/ UNCHANGED <<following, pinTop>>
          \/ y = 0 /\ scrollTo(clamp(0, offset - HANDLE_AUTO_SCROLL_STEP_ROWS, bottom))
          \/ y = Height - 1 /\ scrollTo(clamp(0, offset + HANDLE_AUTO_SCROLL_STEP_ROWS, bottom))
  /\ handler' = "read"
  /\ UNCHANGED <<rows, alt, selection, viewVars, dragging, sel, anchor, copied>>

\* getSelectionViewport
dragRead ==
  /\ handler = "read"
  /\ IF selection = NoSelection
     THEN handler' = "idle" /\ deactivate
     ELSE /\ sel' = nativeGetSelectionViewport
          /\ handler' = "set"
          /\ UNCHANGED <<selectionActive, handles, dragging, finger, anchor>>
  /\ UNCHANGED <<rows, following, pinTop, alt, selection, scrollbar, prev, copied>>

\* setSelection in the coordinates of the viewport as it is now
dragSet ==
  /\ handler = "set" /\ handler' = "idle"
  /\ selection' = IF dragging = 1 THEN <<offset + finger, offset + sel[2].row>>
                                  ELSE <<offset + sel[1].row, offset + finger>>
  /\ sel' = NoHandles
  /\ UNCHANGED <<rows, following, pinTop, alt, viewVars, dragging, finger, anchor, copied>>

stopHandleDrag ==
  /\ ViewIdle /\ dragging # 0
  /\ dragging' = 0 /\ finger' = 0 /\ anchor' = 0
  /\ UNCHANGED <<rows, following, pinTop, alt, selection, handler, viewVars, sel, copied>>

scrollToPreviousPrompt ==
  /\ ViewIdle /\ previousPrompt >= 0
  /\ scrollTo(previousPrompt)
  /\ UNCHANGED <<rows, alt, selection, handler, viewVars, dragVars, copied>>

scrollToNextPrompt ==
  /\ ViewIdle /\ nextPrompt >= 0
  /\ scrollTo(nextPrompt)
  /\ UNCHANGED <<rows, alt, selection, handler, viewVars, dragVars, copied>>

copyLastCommandOutput ==
  /\ ViewIdle
  /\ copied' = [lines |-> lastCommandOutput, of |-> total, alt |-> alt]
  /\ selection' = IF fallsBack THEN NoSelection ELSE selection
  /\ UNCHANGED <<rows, following, pinTop, alt, handler, viewVars, dragVars>>

HistoryInit ==
  /\ rows = [y \in 1..Height |-> "output"]
  /\ following = TRUE /\ pinTop = 0 /\ alt = FALSE
  /\ selection = NoSelection /\ handler = "idle"
  /\ scrollbar = <<0, 0>> /\ prev = <<0, 0>> /\ selectionActive = FALSE
  /\ handles = NoHandles /\ sel = NoHandles
  /\ dragging = 0 /\ finger = 0 /\ anchor = 0
  /\ copied = [lines |-> {}, of |-> 0, alt |-> FALSE]

UserNext ==
  \/ scrollView \/ startTextSelection \/ clearSelection
  \/ startHandleDrag \/ dragMove \/ dragRead \/ dragSet \/ stopHandleDrag
  \/ scrollToPreviousPrompt \/ scrollToNextPrompt \/ copyLastCommandOutput

\* Selecting, and navigating: each is checked with the other's steps left out
SelectNext ==
  \/ output("output")
  \/ switchScreen \/ onDraw \/ pin \/ placeHandles
  \/ scrollView \/ startTextSelection \/ clearSelection
  \/ startHandleDrag \/ dragMove \/ dragRead \/ dragSet \/ stopHandleDrag
NavigateNext ==
  \/ \E m \in Marks : output(m)
  \/ switchScreen \/ scrollView \/ scrollToPreviousPrompt \/ scrollToNextPrompt \/ copyLastCommandOutput
HistoryNext == SelectNext \/ NavigateNext

HistorySpec == HistoryInit /\ [][HistoryNext]_historyVars

(***************************************************************************)
(* Properties.                                                             *)
(***************************************************************************)
\* The viewport stays on the history, and the rows that
\* nativeGetSelectionViewport hands to the view are rows of the viewport.
HistoryTypeOK ==
  /\ Len(rows) \in Height..(IF MaxRows > Height THEN MaxRows ELSE Height)
  /\ offset \in 0..bottom
  /\ handler \in {"idle", "pin", "handles", "read", "set"}
  /\ dragging \in 0..2 /\ finger \in 0..(Height - 1)
  /\ \A k \in 1..2 : {handles[k].row, sel[k].row} \subseteq 0..(Height - 1)
  /\ selectionActive \in BOOLEAN

\* The selection ends on rows of the active screen, although the handlers set
\* it in coordinates that they read from another position of the viewport, or
\* on the other screen.
SelectionInHistory == \A y \in ToSet(selection) : y \in 0..(total - 1)

offOutput == ~alt /\ ~following /\ prev[2] + Height < prev[1] /\ (handler \in {"pin", "handles"} => scrollbar[2] + Height < scrollbar[1])

\* Once a frame has been drawn with the viewport off the output, no output and
\* no later frame moves it while a selection is active ("pin it to keep the
\* same content (and selection) on screen"), until the user does.
SettledStep == selectionActive /\ offOutput /\ alt' = alt /\ ~UserNext => offOutput' /\ offset' = offset
SettledPin == [][SettledStep]_historyVars

\* A jump to the next prompt, or to one above the viewport, passes no prompt
\* by and ends on a prompt or, clamped, on the active area.
lands == offset' \in collectPromptRows \/ offset' = bottom
JumpStep ==
  /\ scrollToNextPrompt =>
       lands /\ offset' >= offset /\ collectPromptRows \cap ((offset + 1)..(offset' - 1)) = {}
  /\ scrollToPreviousPrompt /\ (\E y \in collectPromptRows : y < offset) =>
       lands /\ offset' < offset /\ collectPromptRows \cap ((offset' + 1)..(offset - 1)) = {}
PromptJump == [][JumpStep]_historyVars

\* The rows of the first n that lie between the last prompt and the one before
between(n) ==
  LET prompts(lo, hi) == {y \in lo..hi : mark(y) = "prompt"}
  IN {y \in 0..(n - 1) : mark(y) # "prompt" /\ Cardinality(prompts(y, n - 1)) = 1 /\ prompts(0, y) # {}}
written(n) == {y \in between(n) : mark(y) = "output"}
strayPrompts(n) == {y \in between(n) : mark(y) = "continuation" /\ \E z \in between(n) : z < y /\ mark(z) # "continuation"}

\* What is copied as the last command's output is every row of output between
\* the last prompt and the one before, and nothing else; when there is none,
\* it is the prompt's continuation rows that do not follow it at once (which
\* the README's "only the last command's output without the prompt or command"
\* leaves no room for).
LastOutputRight ==
  ~alt => copied.lines = IF copied.alt THEN {}
                         ELSE IF written(copied.of) # {} THEN written(copied.of) ELSE strayPrompts(copied.of)

\* Dragging a handle moves its end of the selection and leaves the other one
\* ("Move the dragged selection endpoint to the finger position, scrolling the
\* viewport [...] so the selection can extend into scrollback history").
DragKeepsOtherEnd == handler = "idle" /\ dragging # 0 /\ selection # NoSelection => anchor \in ToSet(selection)

\* What is selected and what is copied are the rows the user means.
HistorySound == HistoryTypeOK /\ SelectionInHistory /\ LastOutputRight

\* The viewport moves only where it should: not by itself under a selection,
\* and from prompt to prompt.
ViewportKept == SettledPin /\ PromptJump
=============================================================================
