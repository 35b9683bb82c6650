----------------------- MODULE TerminalHistory_proofs -----------------------
(***************************************************************************)
(* The scrollback for every height of the viewport, length of the history  *)
(* and sequence of marks: the selection stays on rows that exist, the      *)
(* viewport stays on the history and under a selection where it is, a jump *)
(* passes no prompt by, and what is copied is the last command's output,   *)
(* if there is any.                                                        *)
(***************************************************************************)
EXTENDS TerminalHistory, FiniteSetTheorems, WellFoundedInduction, TLAPS

(***************************************************************************)
(* The inductive invariant.                                                *)
(***************************************************************************)
RowMarks == {"prompt", "continuation", "output", "blank"}
Handles == [1..2 -> [row : 0..(Height - 1), visible : BOOLEAN]]

\* A viewport that does not follow is above the active area, also while the
\* other screen is shown.
ScreenOK ==
  /\ rows \in Seq(RowMarks) /\ Len(rows) \in Height..(IF MaxRows > Height THEN MaxRows ELSE Height)
  /\ following \in BOOLEAN /\ alt \in BOOLEAN
  /\ pinTop \in 0..(Len(rows) - Height) /\ (~following => pinTop < Len(rows) - Height)

ViewOK ==
  /\ handler \in {"idle", "pin", "handles", "read", "set"}
  /\ selectionActive \in BOOLEAN
  /\ scrollbar \in Nat \X Nat /\ prev \in Nat \X Nat
  /\ handles \in Handles /\ sel \in Handles
  /\ dragging \in 0..2 /\ finger \in 0..(Height - 1)

SelectionOK ==
  selection = NoSelection \/ selection \in (0..(total - 1)) \X (0..(total - 1))

\* The rows that were there when the output was copied have not changed.
CopiedRows(n) == IF written(n) # {} THEN written(n) ELSE strayPrompts(n)
CopiedOK ==
  /\ copied.of \in 0..Len(rows) /\ copied.alt \in BOOLEAN
  /\ copied.lines = IF copied.alt THEN {} ELSE CopiedRows(copied.of)

HistoryInv == ScreenOK /\ ViewOK /\ SelectionOK /\ CopiedOK
-----------------------------------------------------------------------------
(***************************************************************************)
(* Least and greatest elements.                                            *)
(***************************************************************************)
\* The constants.
LEMMA HeightFact == Height \in Nat /\ Height > 0 /\ MaxRows \in Nat /\ Marks \subseteq RowMarks
BY HistoryAssumption DEF RowMarks

\* A set of natural numbers has a least element.
LEMMA LeastRow ==
  ASSUME NEW S, S \subseteq Nat, S # {}
  PROVE  Min(S) \in S /\ \A y \in S : Min(S) <= y
<1> DEFINE R == OpToRel(<, Nat)
<1>1. IsWellFoundedOn(R, Nat)
  BY NatLessThanWellFounded
<1>2. R = {ss \in Nat \X Nat : ss[1] < ss[2]}
  BY DEF OpToRel
<1> HIDE DEF R
<1>3. PICK x \in S : \A y \in S : ~(<<y, x>> \in R)
  BY <1>1, WFMin
<1>4. \A y \in S : x <= y
  <2> TAKE y \in S
  <2>1. <<y, x>> \in R <=> y < x
    BY <1>2
  <2> QED BY <1>3, <2>1
<1> QED BY <1>4 DEF Min

\* A bounded set of natural numbers has a greatest one.
LEMMA GreatestRow ==
  ASSUME NEW n \in Nat, NEW S, S \subseteq 0..n, S # {}
  PROVE  Max(S) \in S /\ \A y \in S : Max(S) >= y
<1> DEFINE T == {m \in 0..n : n - m \in S}
<1>1. T \subseteq Nat /\ T # {}
  <2>1. PICK y \in S : TRUE
    OBVIOUS
  <2>2. n - y \in 0..n /\ n - (n - y) = y
    BY <2>1
  <2>3. n - y \in T
    BY <2>1, <2>2
  <2>4. T \subseteq Nat
    OBVIOUS
  <2> HIDE DEF T
  <2> QED BY <2>3, <2>4
<1>2. Min(T) \in T /\ \A m \in T : Min(T) <= m
  BY <1>1, LeastRow
<1>3. n - Min(T) \in S
  BY <1>2
<1>4. \A y \in S : n - Min(T) >= y
  <2> TAKE y \in S
  <2>1. n - y \in 0..n /\ n - (n - y) = y
    OBVIOUS
  <2>2. n - y \in T
    BY <2>1
  <2>3. Min(T) <= n - y /\ Min(T) \in 0..n /\ y \in 0..n
    BY <1>2, <2>2
  <2>4. \A m \in 0..n : m <= n - y => n - m >= y
    BY <2>3
  <2> HIDE DEF T
  <2> QED BY <2>3, <2>4
<1> HIDE DEF T
<1> QED BY <1>3, <1>4 DEF Max

\* The ends of a selection in order.
LEMMA EndsInOrder ==
  ASSUME NEW n \in Nat, NEW s \in (0..n) \X (0..n)
  PROVE  Min(ToSet(s)) \in 0..n /\ Max(ToSet(s)) \in 0..n
<1>1. ToSet(s) \subseteq 0..n /\ ToSet(s) # {}
  BY DEF ToSet
<1>2. ToSet(s) \subseteq Nat
  BY <1>1
<1> QED BY <1>1, <1>2, LeastRow, GreatestRow

-----------------------------------------------------------------------------
(***************************************************************************)
(* The native functions.                                                   *)
(***************************************************************************)
\* The viewport is on the active screen.
LEMMA ViewportOnScreen ==
  ASSUME ScreenOK
  PROVE  total \in Nat /\ total >= Height /\ bottom = total - Height /\ offset \in 0..bottom
BY HeightFact DEF ScreenOK, total, bottom, offset

\* Scrolling to a row leaves the viewport on the history.
LEMMA ScrollKeeps ==
  ASSUME ScreenOK, NEW y \in Nat, scrollTo(y), UNCHANGED <<rows, alt>>
  PROVE  ScreenOK'
<1>1. /\ rows' = rows /\ alt' = alt /\ Len(rows) - Height \in Nat
      /\ rows \in Seq(RowMarks) /\ Len(rows) \in Height..(IF MaxRows > Height THEN MaxRows ELSE Height)
  BY HeightFact DEF ScreenOK
<1>2. CASE alt
  BY <1>1, <1>2 DEF ScreenOK, scrollTo
<1>3. CASE ~alt
  <2>1. bottom = Len(rows) - Height
    BY <1>3 DEF bottom, total
  <2>2. following' = (y >= Len(rows) - Height) /\ pinTop' = IF y >= Len(rows) - Height THEN 0 ELSE y
    BY <1>1, <1>3, <2>1 DEF scrollTo, clamp
  <2>3. CASE y >= Len(rows) - Height
    <3>1. following' = TRUE /\ pinTop' = 0
      BY <2>2, <2>3
    <3> QED BY <1>1, <1>3, <3>1 DEF ScreenOK
  <2>4. CASE ~(y >= Len(rows) - Height)
    <3>1. pinTop' = y
      BY <2>2, <2>4
    <3>2. following' \in BOOLEAN
      <4>1. (y >= Len(rows) - Height) \in BOOLEAN
        OBVIOUS
      <4> QED BY <2>2, <4>1
    <3>3. alt' \in BOOLEAN
      BY <1>1 DEF ScreenOK
    <3> QED BY <1>1, <2>4, <3>1, <3>2, <3>3 DEF ScreenOK
  <2> QED BY <2>3, <2>4
<1> QED BY <1>2, <1>3

\* The rows of the viewport that are returned for a selection exist.
LEMMA ViewportOfSelection ==
  ASSUME ScreenOK, SelectionOK, selection # NoSelection
  PROVE  nativeGetSelectionViewport \in Handles
<1>1. total - 1 \in Nat /\ offset \in Int
  BY HeightFact, ViewportOnScreen
<1>2. Min(ToSet(selection)) \in Int /\ Max(ToSet(selection)) \in Int
  BY <1>1, EndsInOrder DEF SelectionOK
<1>3. \A y \in Int : clamp(0, y, Height - 1) \in 0..(Height - 1)
  BY HeightFact DEF clamp
<1> QED BY <1>1, <1>2, <1>3 DEF nativeGetSelectionViewport, Handles

\* Prompts are rows of the active screen.
LEMMA PromptRows ==
  ASSUME ScreenOK
  PROVE  /\ collectPromptRows \subseteq 0..(total - 1) /\ total - 1 \in Nat
         /\ IsFiniteSet(collectPromptRows)
         /\ collectPromptRows # {} => ~alt
<1>1. collectPromptRows \subseteq 0..(total - 1) /\ total - 1 \in Nat
  BY HeightFact, ViewportOnScreen DEF collectPromptRows
<1>2. IsFiniteSet(0..(total - 1))
  BY <1>1, FS_Interval
<1>3. IsFiniteSet(collectPromptRows)
  BY <1>1, <1>2, FS_Subset
<1> QED BY <1>1, <1>3 DEF collectPromptRows

\* A jump forward goes to the nearest prompt below the top.
LEMMA NextPrompt ==
  ASSUME ScreenOK, nextPrompt >= 0
  PROVE  /\ nextPrompt \in collectPromptRows /\ nextPrompt > offset
         /\ \A y \in collectPromptRows : y > offset => y >= nextPrompt
<1> DEFINE below == {y \in collectPromptRows : y > offset}
<1>1. below \subseteq Nat
  BY PromptRows
<1>2. below # {} /\ nextPrompt = Min(below)
  BY DEF nextPrompt
<1>3. Min(below) \in below /\ \A y \in below : Min(below) <= y
  BY <1>1, <1>2, LeastRow
<1> QED BY <1>1, <1>2, <1>3, PromptRows, ViewportOnScreen

\* A jump back goes to the nearest prompt above the top, if there is one.
LEMMA PromptAbove ==
  ASSUME ScreenOK, NEW z \in collectPromptRows, z < offset
  PROVE  /\ previousPrompt \in collectPromptRows /\ previousPrompt < offset
         /\ \A y \in collectPromptRows : y < offset => y <= previousPrompt
<1> DEFINE above == {y \in collectPromptRows : y < offset}
<1>1. above \subseteq 0..(total - 1) /\ above # {} /\ total - 1 \in Nat
  BY PromptRows
<1>2. previousPrompt = Max(above)
  BY <1>1 DEF previousPrompt
<1>3. Max(above) \in above /\ \A y \in above : Max(above) >= y
  BY <1>1, GreatestRow
<1> QED BY <1>1, <1>2, <1>3, PromptRows, ViewportOnScreen

\* With two prompts, the last and the last but one.
LEMMA LastTwo ==
  ASSUME ScreenOK, Cardinality(collectPromptRows) >= 2
  PROVE  LET end == Max(collectPromptRows)
             start == Max(collectPromptRows \ {end})
         IN /\ end \in collectPromptRows /\ start \in collectPromptRows /\ start < end
            /\ \A y \in collectPromptRows : y = end \/ y <= start
<1> DEFINE P == collectPromptRows
           end == Max(P)
           start == Max(P \ {end})
<1>1. P \subseteq 0..(total - 1) /\ total - 1 \in Nat /\ IsFiniteSet(P)
  BY PromptRows
<1>2. P # {}
  BY FS_EmptySet
<1>3. end \in P /\ \A y \in P : end >= y
  BY <1>1, <1>2, GreatestRow
<1>4. P \ {end} # {}
  <2>1. Cardinality(P \ {end}) = Cardinality(P) - 1
    BY <1>1, <1>3, FS_RemoveElement
  <2>2. Cardinality(P) \in Nat
    BY <1>1, FS_CardinalityType
  <2>3. Cardinality(P \ {end}) # 0
    BY <2>1, <2>2
  <2> QED BY <2>3, FS_EmptySet
<1>5. start \in P \ {end} /\ \A y \in P \ {end} : start >= y
  BY <1>1, <1>4, GreatestRow
<1> HIDE DEF P, end, start
<1>6. start < end /\ \A y \in P : y = end \/ y <= start
  BY <1>1, <1>3, <1>5
<1> QED BY <1>3, <1>5, <1>6 DEF P, end, start

\* A previous prompt that is found is a prompt.
LEMMA PreviousPrompt ==
  ASSUME ScreenOK, previousPrompt >= 0
  PROVE  previousPrompt \in collectPromptRows
<1> DEFINE P == collectPromptRows
<1>1. CASE \E y \in P : y < offset
  BY <1>1, PromptAbove
<1>2. CASE ~\E y \in P : y < offset
  <2>1. {y \in P : y < offset} = {}
    BY <1>2
  <2>2. P \subseteq 0..(total - 1) /\ total - 1 \in Nat
    BY PromptRows
  <2>3. P # {} => Max(P) \in P
    BY <2>2, GreatestRow
  <2>4. Cardinality(P) >= 2 => Max(P \ {Max(P)}) \in P
    BY LastTwo
  <2>5. \/ Cardinality(P) >= 2 /\ previousPrompt = Max(P \ {Max(P)})
        \/ P # {} /\ previousPrompt = Max(P)
        \/ previousPrompt = -1
    BY <2>1 DEF previousPrompt
  <2> QED BY <2>3, <2>4, <2>5
<1> QED BY <1>1, <1>2

-----------------------------------------------------------------------------
(***************************************************************************)
(* nativeGetLastCommandOutput.                                             *)
(***************************************************************************)
\* The block of a prompt begins with it, has no row of output, and goes on as
\* long as there are continuation rows.
LEMMA BlockOfPrompt ==
  ASSUME NEW start \in Nat, NEW end \in Nat, start < end
  PROVE  /\ promptEnd(start, end) \in start..(end - 1)
         /\ \A z \in (start + 1)..promptEnd(start, end) : mark(z) = "continuation"
         /\ promptEnd(start, end) + 1 < end => mark(promptEnd(start, end) + 1) # "continuation"
<1> DEFINE S == {y \in start..(end - 1) : \A z \in (start + 1)..y : mark(z) = "continuation"}
           e == promptEnd(start, end)
<1>1. S \subseteq 0..end /\ start \in S
  OBVIOUS
<1>2. Max(S) \in S /\ \A y \in S : Max(S) >= y
  BY <1>1, GreatestRow
<1>3. e = Max(S)
  BY DEF promptEnd
<1> HIDE DEF S, e
<1>4. e \in S /\ \A y \in S : e >= y
  BY <1>2, <1>3
<1>5. e \in start..(end - 1) /\ \A z \in (start + 1)..e : mark(z) = "continuation"
  BY <1>4 DEF S
<1>6. ASSUME e + 1 < end, mark(e + 1) = "continuation" PROVE FALSE
  <2>1. \A z \in (start + 1)..(e + 1) : z = e + 1 \/ z \in (start + 1)..e
    BY <1>5
  <2>2. \A z \in (start + 1)..(e + 1) : mark(z) = "continuation"
    BY <1>5, <1>6, <2>1
  <2>3. e + 1 \in start..(end - 1)
    BY <1>5, <1>6
  <2>4. e + 1 \in S
    BY <2>2, <2>3 DEF S
  <2> QED BY <1>4, <1>5, <2>4
<1> QED BY <1>5, <1>6 DEF e

\* The rows of the range lie between the last two prompts and begin with one
\* that is no continuation; those that lie before it are continuation rows.
LEMMA RangeIsBetween ==
  ASSUME ScreenOK, ~alt
  PROVE  /\ outputRange \subseteq between(total)
         /\ outputRange # {} => \E x \in outputRange : mark(x) # "continuation" /\ \A y \in outputRange : x <= y
         /\ \A y \in between(total) \ outputRange :
              \A z \in between(total) : z <= y => mark(z) = "continuation"
<1> DEFINE P == collectPromptRows
           Mid == between(total)
<1>1. P = {y \in 0..(total - 1) : mark(y) = "prompt"} /\ total - 1 \in Nat /\ IsFiniteSet(P)
  BY PromptRows DEF collectPromptRows
<1> HIDE DEF P
<1>2. \A y \in 0..(total - 1) : IsFiniteSet({z \in y..(total - 1) : mark(z) = "prompt"})
  <2> TAKE y \in 0..(total - 1)
  <2>1. IsFiniteSet(y..(total - 1))
    BY <1>1, FS_Interval
  <2> QED BY <2>1, FS_Subset
<1>3. \A y \in Mid :
        /\ y \in 0..(total - 1) /\ mark(y) # "prompt"
        /\ \E z \in P : z < y
        /\ \E x \in P : x > y /\ \A w \in P : w >= y => w = x
  <2> TAKE y \in Mid
  <2> DEFINE B == {z \in y..(total - 1) : mark(z) = "prompt"}
  <2>1. /\ y \in 0..(total - 1) /\ mark(y) # "prompt" /\ Cardinality(B) = 1
        /\ {z \in 0..y : mark(z) = "prompt"} # {}
    BY DEF between
  <2>2. PICK x : B = {x}
    BY <1>2, <2>1, FS_Singleton
  <2>3. PICK z \in 0..y : mark(z) = "prompt"
    BY <2>1
  <2>4. z \in P /\ z < y
    <3>1. z # y
      BY <2>1, <2>3
    <3> QED BY <1>1, <2>1, <2>3, <3>1
  <2>5. x \in y..(total - 1) /\ mark(x) = "prompt"
    BY <2>2
  <2>6. x \in P /\ x > y
    <3>1. x # y
      BY <2>1, <2>5
    <3> QED BY <1>1, <2>1, <2>5, <3>1
  <2>7. \A w \in P : w >= y => w \in B
    BY <1>1, <2>1
  <2> QED BY <2>1, <2>2, <2>4, <2>6, <2>7
<1> HIDE DEF Mid
<1>4. CASE ~(Cardinality(P) >= 2)
  <2>1. Mid = {}
    <3> SUFFICES ASSUME NEW y \in Mid PROVE FALSE
      OBVIOUS
    <3>1. PICK z \in P : z < y
      BY <1>3
    <3>2. PICK x \in P : x > y
      BY <1>3
    <3>3. z # x /\ {z, x} \subseteq P
      BY <1>1, <1>3, <3>1, <3>2
    <3>4. Cardinality({z, x}) = 2
      <4>1. IsFiniteSet({z}) /\ Cardinality({z}) = 1
        BY FS_Singleton
      <4>2. Cardinality({z} \cup {x}) = IF x \in {z} THEN Cardinality({z}) ELSE Cardinality({z}) + 1
        BY <4>1, FS_AddElement
      <4>3. {z} \cup {x} = {z, x}
        OBVIOUS
      <4> QED BY <3>3, <4>1, <4>2, <4>3
    <3>5. Cardinality({z, x}) <= Cardinality(P) /\ Cardinality(P) \in Nat
      BY <1>1, <3>3, FS_Subset, FS_CardinalityType
    <3> QED BY <1>4, <3>4, <3>5
  <2>2. Cardinality(P) < 2
    <3>1. Cardinality(P) \in Nat
      BY <1>1, FS_CardinalityType
    <3> QED BY <1>4, <3>1
  <2>3. outputRange = {}
    BY <2>2 DEF outputRange, P
  <2> QED BY <2>1, <2>3 DEF Mid
<1>5. CASE Cardinality(P) >= 2
  <2> DEFINE end == Max(P)
             start == Max(P \ {end})
             e == promptEnd(start, end)
  <2>1. /\ end \in P /\ start \in P /\ start < end
        /\ \A y \in P : y = end \/ y <= start
    BY <1>5, LastTwo DEF P
  <2>2. ~(Cardinality(P) < 2)
    <3>1. Cardinality(P) \in Nat
      BY <1>1, FS_CardinalityType
    <3> QED BY <1>5, <3>1
  <2>3. outputRange = (e + 1)..(end - 1)
    BY <2>2 DEF outputRange, P
  <2> HIDE DEF end, start
  <2>4. /\ e \in start..(end - 1)
        /\ \A z \in (start + 1)..e : mark(z) = "continuation"
        /\ e + 1 < end => mark(e + 1) # "continuation"
    BY <1>1, <2>1, BlockOfPrompt
  <2> HIDE DEF e
  <2>5. start \in 0..(total - 1) /\ end \in 0..(total - 1) /\ mark(start) = "prompt" /\ mark(end) = "prompt"
    BY <1>1, <2>1
  <2>6. ASSUME NEW y \in outputRange PROVE y \in Mid
    <3> DEFINE B == {z \in y..(total - 1) : mark(z) = "prompt"}
    <3>1. y \in (e + 1)..(end - 1)
      BY <2>3, <2>6
    <3>2. y \in 0..(total - 1) /\ start < y /\ y < end
      BY <1>1, <2>4, <2>5, <3>1
    <3>3. B = {end}
      <4>1. end \in B
        BY <2>5, <3>2
      <4>2. ASSUME NEW w \in B PROVE w = end
        <5>1. w \in P /\ w >= y
          BY <1>1, <3>2
        <5> QED BY <2>1, <2>5, <3>2, <5>1
      <4> QED BY <4>1, <4>2
    <3>4. Cardinality(B) = 1
      BY <3>3, FS_Singleton
    <3>5. start \in {z \in 0..y : mark(z) = "prompt"}
      BY <2>5, <3>2
    <3>6. mark(y) # "prompt"
      <4>1. y \notin P
        BY <2>1, <2>5, <3>2
      <4> QED BY <1>1, <3>2, <4>1
    <3> QED BY <3>2, <3>4, <3>5, <3>6 DEF Mid, between
  <2>7. ASSUME outputRange # {}
        PROVE  \E x \in outputRange : mark(x) # "continuation" /\ \A y \in outputRange : x <= y
    <3>1. PICK y \in outputRange : TRUE
      BY <2>7
    <3>2. e \in Int /\ end \in Int /\ y \in (e + 1)..(end - 1)
      BY <2>3, <2>4, <2>5, <3>1
    <3>3. e + 1 \in (e + 1)..(end - 1) /\ e + 1 < end
      BY <3>2
    <3>4. \A w \in outputRange : e + 1 <= w
      BY <2>3, <3>2
    <3> QED BY <2>3, <2>4, <3>3, <3>4
  <2>8. ASSUME NEW y \in Mid \ outputRange, NEW z \in Mid, z <= y PROVE mark(z) = "continuation"
    <3>0. \A w \in Mid : w \in 0..(total - 1) /\ start < w /\ w < end
      <4> TAKE w \in Mid
      <4>1. w \in 0..(total - 1) /\ P \subseteq 0..(total - 1)
        BY <1>1, <1>3
      <4>2. PICK x \in P : x > w /\ \A v \in P : v >= w => v = x
        BY <1>3
      <4>3. end = x
        BY <2>1, <2>5, <4>1, <4>2
      <4>4. start < w
        BY <2>1, <2>5, <4>1, <4>2, <4>3
      <4> QED BY <4>1, <4>2, <4>3, <4>4
    <3>1. y \in 0..(total - 1) /\ start < y /\ y < end
      BY <2>8, <3>0
    <3>2. ~(y \in (e + 1)..(end - 1))
      BY <2>3, <2>8
    <3>3. y <= e
      BY <2>4, <2>5, <3>1, <3>2
    <3>4. z \in (start + 1)..e
      BY <2>4, <2>5, <2>8, <3>0, <3>1, <3>3
    <3> QED BY <2>4, <3>4
  <2> QED BY <2>6, <2>7, <2>8 DEF Mid
<1> QED BY <1>4, <1>5

\* What is copied is the output between the last two prompts, or else the
\* continuation rows that the fallback formats.
LEMMA CopiesLastOutput ==
  ASSUME ScreenOK
  PROVE  lastCommandOutput = IF alt THEN {} ELSE CopiedRows(total)
<1> DEFINE R == outputRange
           Mid == between(total)
<1>1. CASE alt
  <2>1. Cardinality(collectPromptRows) < 2
    BY <1>1, FS_EmptySet DEF collectPromptRows
  <2>2. R = {}
    BY <2>1 DEF outputRange
  <2> QED BY <1>1, <2>2 DEF lastCommandOutput
<1>2. CASE ~alt
  <2>1. /\ R \subseteq Mid
        /\ R # {} => \E x \in R : mark(x) # "continuation" /\ \A y \in R : x <= y
        /\ \A y \in Mid \ R : \A z \in Mid : z <= y => mark(z) = "continuation"
    BY <1>2, RangeIsBetween
  <2>2. /\ \A y \in Mid : y \in 0..(total - 1) /\ mark(y) # "prompt"
        /\ \A y \in 0..(total - 1) : mark(y) \in RowMarks
    <3>1. total = Len(rows) /\ rows \in Seq(RowMarks)
      BY <1>2 DEF ScreenOK, total
    <3> QED BY <3>1 DEF between, mark
  <2>3. written(total) = {y \in Mid : mark(y) = "output"}
    BY DEF written
  <2>4. strayPrompts(total) = {y \in Mid : mark(y) = "continuation" /\ \E z \in Mid : z < y /\ mark(z) # "continuation"}
    BY DEF strayPrompts
  <2>5. lastCommandOutput = IF fallsBack THEN {y \in R : mark(y) # "blank"} ELSE {y \in R : mark(y) = "output"}
    BY DEF lastCommandOutput
  <2>6. fallsBack <=> R # {} /\ \A y \in R : mark(y) # "output"
    BY DEF fallsBack
  <2> HIDE DEF R, Mid
  <2>7. \A y \in Mid \ R : mark(y) = "continuation" /\ y \notin strayPrompts(total)
    <3> SUFFICES ASSUME NEW y \in Mid \ R PROVE mark(y) = "continuation" /\ y \notin strayPrompts(total)
      OBVIOUS
    <3>1. \A z \in Mid : z <= y => mark(z) = "continuation"
      BY <2>1
    <3>2. mark(y) = "continuation"
      BY <2>2, <3>1
    <3>3. \A z \in Mid : z < y => z <= y
      BY <2>2
    <3>4. \A z \in Mid : z < y => mark(z) = "continuation"
      BY <3>1, <3>3
    <3> QED BY <2>4, <3>2, <3>4
  <2>8. written(total) = {y \in R : mark(y) = "output"}
    BY <2>1, <2>3, <2>7
  <2>9. CASE fallsBack
    <3>1. written(total) = {}
      BY <2>6, <2>8, <2>9
    <3>2. PICK x \in R : mark(x) # "continuation" /\ \A y \in R : x <= y
      BY <2>1, <2>6, <2>9
    <3>3. ASSUME NEW y \in R, mark(y) # "blank" PROVE y \in strayPrompts(total)
      <4>1. y \in Mid /\ x \in Mid /\ y \in 0..(total - 1) /\ x \in 0..(total - 1)
        BY <2>1, <2>2, <3>2, <3>3
      <4>2. mark(y) = "continuation"
        BY <2>2, <2>6, <2>9, <3>3, <4>1 DEF RowMarks
      <4>3. x # y
        BY <3>2, <4>2
      <4>4. x < y
        BY <3>2, <3>3, <4>1, <4>3
      <4> QED BY <2>4, <3>2, <4>1, <4>2, <4>4
    <3>4. ASSUME NEW y \in strayPrompts(total) PROVE y \in R /\ mark(y) # "blank"
      <4>1. y \in Mid /\ mark(y) = "continuation"
        BY <2>4, <3>4
      <4> QED BY <2>7, <3>4, <4>1
    <3>5. lastCommandOutput = strayPrompts(total)
      BY <2>5, <2>9, <3>3, <3>4
    <3> QED BY <1>2, <3>1, <3>5 DEF CopiedRows
  <2>10. CASE ~fallsBack
    <3>1. lastCommandOutput = written(total)
      BY <2>5, <2>8, <2>10
    <3>2. written(total) = {} => strayPrompts(total) = {}
      <4> SUFFICES ASSUME written(total) = {}, NEW y \in strayPrompts(total) PROVE FALSE
        OBVIOUS
      <4>1. R = {}
        BY <2>6, <2>8, <2>10
      <4>2. y \in Mid
        BY <2>4
      <4> QED BY <2>7, <4>1, <4>2
    <3> QED BY <1>2, <3>1, <3>2 DEF CopiedRows
  <2> QED BY <2>9, <2>10
<1> QED BY <1>1, <1>2

-----------------------------------------------------------------------------
(***************************************************************************)
(* The actions.                                                            *)
(***************************************************************************)
\* What was copied stays right while the rows are what they are.
LEMMA CopiedStays ==
  ASSUME CopiedOK, UNCHANGED <<rows, copied>>
  PROVE  CopiedOK'
<1>1. between(copied.of)' = between(copied.of)
  BY DEF between, mark
<1>2. \A y : mark(y)' = mark(y)
  BY DEF mark
<1>3. written(copied.of)' = written(copied.of)
  BY <1>1, <1>2 DEF written
<1>4. strayPrompts(copied.of)' = strayPrompts(copied.of)
  BY <1>1, <1>2 DEF strayPrompts
<1> QED BY <1>3, <1>4 DEF CopiedOK, CopiedRows

\* What is not on the screen is left alone by scrolling.
LEMMA ScrollsOnly ==
  ASSUME HistoryInv, ScreenOK', UNCHANGED <<rows, alt, selection, copied>>, ViewOK'
  PROVE  HistoryInv'
<1>1. SelectionOK'
  BY DEF HistoryInv, SelectionOK, total, NoSelection
<1>2. CopiedOK'
  BY CopiedStays DEF HistoryInv
<1> QED BY <1>1, <1>2 DEF HistoryInv

\* No handles.
LEMMA NoneShown == NoHandles \in Handles
BY HeightFact DEF Handles, NoHandles

\* Ending the selection keeps the types of the view.
LEMMA DeactivateKeeps ==
  ASSUME handles \in Handles, deactivate
  PROVE  /\ selectionActive' = FALSE /\ handles' \in Handles /\ sel' \in Handles
         /\ dragging' \in 0..2 /\ finger' \in 0..(Height - 1)
<1>1. handles' \in Handles
  <2>1. [k \in 1..2 |-> [handles[k] EXCEPT !.visible = FALSE]] \in Handles
    BY DEF Handles
  <2> QED BY <2>1 DEF deactivate
<1> QED BY <1>1, NoneShown, HeightFact DEF deactivate

\* A row is added: what was copied before stays right.
LEMMA OutputKeeps ==
  ASSUME HistoryInv, NEW m \in RowMarks, output(m)
  PROVE  HistoryInv'
<1>1. /\ rows \in Seq(RowMarks) /\ rows' = Append(rows, m) /\ Len(rows') = Len(rows) + 1
      /\ \A i \in 1..Len(rows) : rows'[i] = rows[i]
  BY DEF HistoryInv, ScreenOK, output
<1>2. UNCHANGED <<following, pinTop, alt, selection, handler, viewVars, dragVars, copied>> /\ ~alt /\ Len(rows) < MaxRows
  BY DEF output, total
<1>3. ScreenOK'
  <2>1. rows' \in Seq(RowMarks)
    BY <1>1
  <2>2. Len(rows') \in Height..(IF MaxRows > Height THEN MaxRows ELSE Height)
    BY <1>1, <1>2, HeightFact DEF HistoryInv, ScreenOK
  <2>3. pinTop \in 0..(Len(rows') - Height) /\ (~following => pinTop < Len(rows') - Height)
    BY <1>1, HeightFact DEF HistoryInv, ScreenOK
  <2> QED BY <1>2, <2>1, <2>2, <2>3 DEF HistoryInv, ScreenOK
<1>4. ViewOK'
  BY <1>2 DEF HistoryInv, ViewOK, viewVars, dragVars
<1>5. SelectionOK'
  <2>1. total = Len(rows) /\ total' = Len(rows) + 1 /\ Len(rows) \in Nat
    BY <1>1, <1>2 DEF total
  <2> QED BY <1>2, <2>1 DEF HistoryInv, SelectionOK, NoSelection
<1>6. CopiedOK'
  <2>1. copied' = copied /\ copied.of \in 0..Len(rows) /\ Len(rows) \in Nat
    BY <1>1, <1>2 DEF HistoryInv, CopiedOK
  <2>2. \A y \in 0..(copied.of - 1) : mark(y)' = mark(y)
    BY <1>1, <2>1 DEF mark
  <2>3. between(copied.of)' = between(copied.of)
    <3> DEFINE n == copied.of
    <3>1. \A y \in 0..(n - 1) :
            /\ {z \in y..(n - 1) : mark(z)' = "prompt"} = {z \in y..(n - 1) : mark(z) = "prompt"}
            /\ {z \in 0..y : mark(z)' = "prompt"} = {z \in 0..y : mark(z) = "prompt"}
      BY <2>1, <2>2
    <3> QED BY <2>1, <2>2, <3>1 DEF between
  <2>4. between(copied.of) \subseteq 0..(copied.of - 1)
    BY DEF between
  <2>5. written(copied.of)' = written(copied.of)
    BY <2>1, <2>2, <2>3, <2>4 DEF written
  <2>6. strayPrompts(copied.of)' = strayPrompts(copied.of)
    BY <2>1, <2>2, <2>3, <2>4 DEF strayPrompts
  <2> QED BY <1>1, <2>1, <2>5, <2>6 DEF HistoryInv, CopiedOK, CopiedRows
<1> QED BY <1>3, <1>4, <1>5, <1>6 DEF HistoryInv

\* The initial state.
LEMMA HistoryInitial == HistoryInit => HistoryInv
<1> SUFFICES ASSUME HistoryInit PROVE HistoryInv
  OBVIOUS
<1>1. rows \in Seq(RowMarks) /\ Len(rows) = Height
  BY HeightFact DEF HistoryInit, RowMarks
<1>2. ScreenOK
  <2>1. Len(rows) \in Height..(IF MaxRows > Height THEN MaxRows ELSE Height) /\ Len(rows) - Height = 0
    BY <1>1, HeightFact
  <2>2. following = TRUE /\ pinTop = 0
    BY DEF HistoryInit
  <2>3. alt \in BOOLEAN
    BY Zenon DEF HistoryInit
  <2> QED BY <1>1, <2>1, <2>2, <2>3 DEF ScreenOK
<1>3. ViewOK
  <2>1. selectionActive \in BOOLEAN
    BY Zenon DEF HistoryInit
  <2> QED BY <2>1, HeightFact, NoneShown DEF HistoryInit, ViewOK
<1>4. SelectionOK
  BY DEF HistoryInit, SelectionOK
<1>5. CopiedOK
  <2>1. CopiedRows(0) = {}
    BY DEF CopiedRows, written, strayPrompts, between
  <2> QED BY <1>1, <2>1, HeightFact DEF HistoryInit, CopiedOK
<1> QED BY <1>2, <1>3, <1>4, <1>5 DEF HistoryInv

\* Every step keeps the invariant.
LEMMA HistoryInductive == HistoryInv /\ [HistoryNext]_historyVars => HistoryInv'
<1> SUFFICES ASSUME HistoryInv, [HistoryNext]_historyVars PROVE HistoryInv'
  OBVIOUS
<1> USE HeightFact
<1>0. ScreenOK /\ ViewOK /\ SelectionOK /\ CopiedOK
  BY DEF HistoryInv
<1>a. total \in Nat /\ total >= Height /\ bottom = total - Height /\ offset \in 0..bottom
  BY <1>0, ViewportOnScreen
<1>b. \A x \in Int : clamp(0, x, bottom) \in Nat
  BY <1>a DEF clamp
<1>1. CASE UNCHANGED historyVars
  <2>1. ScreenOK' /\ ViewOK'
    BY <1>0, <1>1 DEF historyVars, ScreenOK, ViewOK
  <2> QED BY <1>1, <2>1, ScrollsOnly DEF historyVars
<1>2. ASSUME NEW m \in Marks, output(m) PROVE HistoryInv'
  BY <1>2, OutputKeeps
<1>3. CASE output("output")
  BY <1>3, OutputKeeps DEF RowMarks
<1>4. CASE switchScreen
  <2>1. ScreenOK'
    BY <1>0, <1>4 DEF switchScreen, ScreenOK
  <2>2. ViewOK'
    BY <1>0, <1>4 DEF switchScreen, ViewOK, viewVars, dragVars
  <2>3. SelectionOK'
    BY <1>4 DEF switchScreen, SelectionOK
  <2>4. CopiedOK'
    BY <1>0, <1>4, CopiedStays DEF switchScreen
  <2> QED BY <2>1, <2>2, <2>3, <2>4 DEF HistoryInv
<1>5. CASE onDraw
  <2>1. ScreenOK'
    BY <1>0, <1>5 DEF onDraw, ScreenOK
  <2>2. scrollbar' \in Nat \X Nat
    BY <1>a, <1>5 DEF onDraw
  <2>3. ViewOK'
    BY <1>0, <1>5, <2>2 DEF onDraw, ViewOK, dragVars
  <2> QED BY <1>5, <2>1, <2>3, ScrollsOnly DEF onDraw
<1>6. CASE pin
  <2>1. ScreenOK'
    <3>1. pinTarget \in Int
      <4>1. scrollbar[1] \in Nat /\ prev[2] \in Nat
        BY <1>0 DEF ViewOK
      <4>2. \A a \in Int, b \in Int : Min({a, b}) \in Int /\ Max({a, b}) \in Int
        <5> TAKE a \in Int, b \in Int
        <5>1. CASE a <= b
          <6>1. \E x \in {a, b} : \A y \in {a, b} : x <= y
            BY <5>1
          <6>2. \E x \in {a, b} : \A y \in {a, b} : x >= y
            BY <5>1
          <6> QED BY <6>1, <6>2 DEF Min, Max
        <5>2. CASE ~(a <= b)
          <6>1. \E x \in {a, b} : \A y \in {a, b} : x <= y
            BY <5>2
          <6>2. \E x \in {a, b} : \A y \in {a, b} : x >= y
            BY <5>2
          <6> QED BY <6>1, <6>2 DEF Min, Max
        <5> QED BY <5>1, <5>2
      <4>3. Max({0, scrollbar[1] - Height}) \in Int
        <5>1. scrollbar[1] - Height \in Int
          BY <4>1
        <5>2. 0 \in Int
          OBVIOUS
        <5> QED BY <4>2, <5>1, <5>2, Zenon
      <4>4. Min({prev[2], Max({0, scrollbar[1] - Height})}) \in Int
        <5>1. prev[2] \in Int
          BY <4>1
        <5> QED BY <4>2, <4>3, <5>1
      <4> QED BY <4>4 DEF pinTarget
    <3>2. CASE pinTarget >= 0
      BY <1>0, <1>6, <3>1, <3>2, ScrollKeeps DEF pin
    <3>3. CASE ~(pinTarget >= 0)
      BY <1>0, <1>6, <3>3 DEF pin, ScreenOK
    <3> QED BY <3>2, <3>3
  <2>2. ViewOK'
    BY <1>0, <1>6 DEF pin, ViewOK, viewVars, dragVars
  <2> QED BY <1>6, <2>1, <2>2, ScrollsOnly DEF pin
<1>7. CASE placeHandles
  <2>1. ScreenOK'
    BY <1>0, <1>7 DEF placeHandles, ScreenOK
  <2>2. CASE selection = NoSelection
    <3>1. ViewOK'
      BY <1>0, <1>7, <2>2, DeactivateKeeps DEF placeHandles, ViewOK
    <3> QED BY <1>7, <2>1, <3>1, ScrollsOnly DEF placeHandles
  <2>3. CASE selection # NoSelection
    <3>1. nativeGetSelectionViewport \in Handles
      BY <1>0, <2>3, ViewportOfSelection
    <3>2. ViewOK'
      BY <1>0, <1>7, <2>3, <3>1 DEF placeHandles, ViewOK, dragVars
    <3> QED BY <1>7, <2>1, <3>2, ScrollsOnly DEF placeHandles
  <2> QED BY <2>2, <2>3
<1>8. CASE scrollView
  <2>1. PICK delta \in {-1, 1} : scrollTo(clamp(0, offset + delta, bottom))
    BY <1>8 DEF scrollView
  <2>2. clamp(0, offset + delta, bottom) \in Nat
    BY <1>a, <1>b
  <2>3. ScreenOK'
    BY <1>0, <1>8, <2>1, <2>2, ScrollKeeps DEF scrollView
  <2>4. ViewOK'
    BY <1>0, <1>8 DEF scrollView, ViewOK, viewVars, dragVars
  <2> QED BY <1>8, <2>3, <2>4, ScrollsOnly DEF scrollView
<1>9. CASE startTextSelection
  <2>1. ScreenOK' /\ ViewOK'
    BY <1>0, <1>9 DEF startTextSelection, ScreenOK, ViewOK, dragVars
  <2>2. SelectionOK'
    <3>1. PICK y \in 0..(Height - 1) : selection' = <<offset + y, offset + y>>
      BY <1>9 DEF startTextSelection
    <3>2. total' = total /\ offset + y \in 0..(total - 1)
      BY <1>9, <1>a DEF startTextSelection, total
    <3> QED BY <3>1, <3>2 DEF SelectionOK
  <2>3. CopiedOK'
    BY <1>0, <1>9, CopiedStays DEF startTextSelection
  <2> QED BY <2>1, <2>2, <2>3 DEF HistoryInv
<1>10. CASE clearSelection
  <2>1. ScreenOK' /\ SelectionOK'
    BY <1>0, <1>10 DEF clearSelection, ScreenOK, SelectionOK
  <2>2. ViewOK'
    BY <1>0, <1>10, DeactivateKeeps DEF clearSelection, ViewOK
  <2>3. CopiedOK'
    BY <1>0, <1>10, CopiedStays DEF clearSelection
  <2> QED BY <2>1, <2>2, <2>3 DEF HistoryInv
<1>11. CASE startHandleDrag
  <2>1. ScreenOK' /\ ViewOK'
    BY <1>0, <1>11 DEF startHandleDrag, ScreenOK, ViewOK, viewVars
  <2> QED BY <1>11, <2>1, ScrollsOnly DEF startHandleDrag
<1>12. CASE dragMove
  <2>1. PICK y \in 0..(Height - 1) :
          /\ finger' = y
          /\ \/ UNCHANGED <<following, pinTop>>
             \/ y = 0 /\ scrollTo(clamp(0, offset - HANDLE_AUTO_SCROLL_STEP_ROWS, bottom))
             \/ y = Height - 1 /\ scrollTo(clamp(0, offset + HANDLE_AUTO_SCROLL_STEP_ROWS, bottom))
    BY <1>12 DEF dragMove
  <2>2. /\ clamp(0, offset - HANDLE_AUTO_SCROLL_STEP_ROWS, bottom) \in Nat
        /\ clamp(0, offset + HANDLE_AUTO_SCROLL_STEP_ROWS, bottom) \in Nat
    BY <1>a, <1>b DEF HANDLE_AUTO_SCROLL_STEP_ROWS
  <2>3. UNCHANGED <<rows, alt, selection, viewVars, dragging, sel, anchor, copied>> /\ handler' = "read"
    BY <1>12 DEF dragMove
  <2>4. CASE UNCHANGED <<following, pinTop>>
    BY <1>0, <2>3, <2>4, <2>1, ScrollsOnly DEF ScreenOK, ViewOK, viewVars
  <2>5. ASSUME NEW z \in Nat, scrollTo(z) PROVE HistoryInv'
    <3>1. ScreenOK'
      BY <1>0, <2>3, <2>5, ScrollKeeps
    <3>2. ViewOK'
      BY <1>0, <2>1, <2>3 DEF ViewOK, viewVars
    <3> QED BY <2>3, <3>1, <3>2, ScrollsOnly
  <2> QED BY <2>1, <2>2, <2>4, <2>5
<1>13. CASE dragRead
  <2>1. ScreenOK'
    BY <1>0, <1>13 DEF dragRead, ScreenOK
  <2>2. CASE selection = NoSelection
    <3>1. ViewOK'
      BY <1>0, <1>13, <2>2, DeactivateKeeps DEF dragRead, ViewOK
    <3> QED BY <1>13, <2>1, <3>1, ScrollsOnly DEF dragRead
  <2>3. CASE selection # NoSelection
    <3>1. nativeGetSelectionViewport \in Handles
      BY <1>0, <2>3, ViewportOfSelection
    <3>2. ViewOK'
      BY <1>0, <1>13, <2>3, <3>1 DEF dragRead, ViewOK
    <3> QED BY <1>13, <2>1, <3>2, ScrollsOnly DEF dragRead
  <2> QED BY <2>2, <2>3
<1>14. CASE dragSet
  <2>1. ScreenOK'
    BY <1>0, <1>14 DEF dragSet, ScreenOK
  <2>2. ViewOK'
    BY <1>0, <1>14 DEF dragSet, ViewOK, viewVars, Handles, NoHandles
  <2>3. SelectionOK'
    <3>1. finger \in 0..(Height - 1) /\ sel[1].row \in 0..(Height - 1) /\ sel[2].row \in 0..(Height - 1)
      BY <1>0 DEF ViewOK, Handles
    <3>2. \A x \in 0..(Height - 1) : offset + x \in 0..(total - 1)
      BY <1>a
    <3>3. total' = total
      BY <1>14 DEF dragSet, total
    <3> QED BY <1>14, <3>1, <3>2, <3>3 DEF dragSet, SelectionOK
  <2>4. CopiedOK'
    BY <1>0, <1>14, CopiedStays DEF dragSet
  <2> QED BY <2>1, <2>2, <2>3, <2>4 DEF HistoryInv
<1>15. CASE stopHandleDrag
  <2>1. ScreenOK' /\ ViewOK'
    BY <1>0, <1>15 DEF stopHandleDrag, ScreenOK, ViewOK, viewVars
  <2> QED BY <1>15, <2>1, ScrollsOnly DEF stopHandleDrag
<1>16. CASE scrollToPreviousPrompt
  <2>1. previousPrompt \in Nat
    BY <1>0, <1>16, PreviousPrompt, PromptRows DEF scrollToPreviousPrompt
  <2>2. ScreenOK'
    BY <1>0, <1>16, <2>1, ScrollKeeps DEF scrollToPreviousPrompt
  <2>3. ViewOK'
    BY <1>0, <1>16 DEF scrollToPreviousPrompt, ViewOK, viewVars, dragVars
  <2> QED BY <1>16, <2>2, <2>3, ScrollsOnly DEF scrollToPreviousPrompt
<1>17. CASE scrollToNextPrompt
  <2>1. nextPrompt \in Nat
    BY <1>0, <1>17, NextPrompt, PromptRows DEF scrollToNextPrompt
  <2>2. ScreenOK'
    BY <1>0, <1>17, <2>1, ScrollKeeps DEF scrollToNextPrompt
  <2>3. ViewOK'
    BY <1>0, <1>17 DEF scrollToNextPrompt, ViewOK, viewVars, dragVars
  <2> QED BY <1>17, <2>2, <2>3, ScrollsOnly DEF scrollToNextPrompt
<1>18. CASE copyLastCommandOutput
  <2>1. ScreenOK' /\ ViewOK'
    BY <1>0, <1>18 DEF copyLastCommandOutput, ScreenOK, ViewOK, viewVars, dragVars
  <2>2. SelectionOK'
    BY <1>0, <1>18 DEF copyLastCommandOutput, SelectionOK, total
  <2>3. CopiedOK'
    <3>1. copied' = [lines |-> lastCommandOutput, of |-> total, alt |-> alt] /\ rows' = rows
      BY <1>18 DEF copyLastCommandOutput
    <3>2. total \in 0..Len(rows) /\ alt \in BOOLEAN
      BY <1>0, <1>a DEF ScreenOK, total
    <3>3. lastCommandOutput = IF alt THEN {} ELSE CopiedRows(total)
      BY <1>0, CopiesLastOutput
    <3>4. \A y : mark(y)' = mark(y)
      BY <3>1 DEF mark
    <3>5. between(copied.of)' = between(total)
      BY <3>1, <3>4 DEF between
    <3>6. written(copied.of)' = written(total)
      BY <3>4, <3>5 DEF written
    <3>7. strayPrompts(copied.of)' = strayPrompts(total)
      BY <3>4, <3>5 DEF strayPrompts
    <3> QED BY <3>1, <3>2, <3>3, <3>6, <3>7 DEF CopiedOK, CopiedRows
  <2> QED BY <2>1, <2>2, <2>3 DEF HistoryInv
<1> QED BY <1>1, <1>2, <1>3, <1>4, <1>5, <1>6, <1>7, <1>8, <1>9, <1>10, <1>11, <1>12, <1>13, <1>14, <1>15, <1>16,
           <1>17, <1>18 DEF HistoryNext, SelectNext, NavigateNext

\* The invariant holds of every behaviour of the view and the terminal.
THEOREM HistoryInvariant == HistorySpec => []HistoryInv
BY HistoryInitial, HistoryInductive, PTL DEF HistorySpec

\* TerminalView never selects a row that does not exist, and
\* nativeGetLastCommandOutput copies the output between the last two prompts
\* and nothing else, or when there is none the continuation rows its fallback
\* formats, for every history and height of the screen.
THEOREM HistoryStaysSound == HistorySpec => []HistorySound
<1>1. ASSUME HistoryInv PROVE HistorySound
  <2>1. ScreenOK /\ ViewOK /\ SelectionOK /\ CopiedOK
    BY <1>1 DEF HistoryInv
  <2>2. HistoryTypeOK
    <3>1. offset \in 0..bottom
      BY <2>1, ViewportOnScreen
    <3>2. \A k \in 1..2 : {handles[k].row, sel[k].row} \subseteq 0..(Height - 1)
      BY <2>1 DEF ViewOK, Handles
    <3> QED BY <2>1, <3>1, <3>2 DEF HistoryTypeOK, ScreenOK, ViewOK
  <2>3. SelectionInHistory
    BY <2>1 DEF SelectionOK, SelectionInHistory, ToSet, NoSelection
  <2>4. LastOutputRight
    BY <2>1 DEF CopiedOK, CopiedRows, LastOutputRight
  <2> QED BY <2>2, <2>3, <2>4 DEF HistorySound
<1> QED BY <1>1, HistoryInvariant, PTL

\* A step of output, or of a frame, leaves a settled viewport where it is.
LEMMA PinSettles == HistoryInv /\ [HistoryNext]_historyVars => [SettledStep]_historyVars
<1> SUFFICES ASSUME HistoryInv, HistoryNext, selectionActive, offOutput, alt' = alt, ~UserNext
             PROVE  offOutput' /\ offset' = offset
  BY DEF SettledStep
<1> USE HeightFact
<1>0. ~alt /\ ~following /\ offset = pinTop /\ pinTop \in Nat /\ pinTop + Height < Len(rows) /\ rows \in Seq(RowMarks)
  BY DEF HistoryInv, ScreenOK, offOutput, offset
<1>1. CASE \E m : output(m)
  BY <1>0, <1>1 DEF output, offOutput, offset, viewVars
<1>2. CASE switchScreen
  <2>1. alt \in BOOLEAN /\ alt' = ~alt
    BY <1>2 DEF switchScreen, HistoryInv, ScreenOK
  <2>2. alt # ~alt
    BY <2>1
  <2> QED BY <2>1, <2>2
<1>3. CASE onDraw
  <2>1. scrollbar' = <<Len(rows), pinTop>>
    BY <1>0, <1>3 DEF onDraw, total
  <2> QED BY <1>0, <1>3, <2>1 DEF onDraw, offOutput, offset
<1>4. CASE pin
  <2>1. prev[2] \in Nat /\ prev[1] \in Nat /\ prev[2] + Height < prev[1]
    BY DEF HistoryInv, ViewOK, offOutput
  <2>2. pinTarget = -1
    BY <2>1 DEF pinTarget
  <2> QED BY <1>0, <1>4, <2>2 DEF pin, offOutput, offset, viewVars
<1>5. CASE placeHandles
  BY <1>0, <1>5 DEF placeHandles, offOutput, offset
<1> QED BY <1>1, <1>2, <1>3, <1>4, <1>5 DEF HistoryNext, SelectNext, NavigateNext, UserNext

\* Where a jump ends.
LEMMA JumpsLand == HistoryInv => JumpStep
<1> SUFFICES ASSUME HistoryInv PROVE JumpStep
  OBVIOUS
<1> USE HeightFact
<1>0. ScreenOK /\ total \in Nat /\ total >= Height /\ bottom = total - Height /\ offset \in 0..bottom
  BY ViewportOnScreen DEF HistoryInv
<1>1. /\ collectPromptRows \subseteq 0..(total - 1)
      /\ collectPromptRows # {} => ~alt
  BY <1>0, PromptRows
<1>2. ASSUME NEW y \in collectPromptRows, scrollTo(y), UNCHANGED <<rows, alt>>
      PROVE  offset' = IF y >= bottom THEN bottom ELSE y
  <2>1. ~alt /\ ~alt' /\ total' = total /\ bottom' = bottom /\ y \in Nat
    BY <1>0, <1>1, <1>2 DEF bottom, total
  <2>2. following' = (y >= bottom) /\ pinTop' = IF y >= bottom THEN 0 ELSE y
    BY <1>0, <1>2, <2>1 DEF scrollTo, clamp
  <2>3. offset' = IF following' THEN bottom' ELSE pinTop'
    BY <2>1 DEF offset
  <2>4. CASE y >= bottom
    <3>1. following' = TRUE
      BY <2>2, <2>4
    <3> QED BY <2>1, <2>3, <2>4, <3>1
  <2>5. CASE ~(y >= bottom)
    <3>1. pinTop' = y
      BY <2>2, <2>5
    <3>2. ~following'
      BY <2>2, <2>5, Zenon
    <3> QED BY <2>3, <2>5, <3>1, <3>2
  <2> QED BY <2>4, <2>5
<1>3. ASSUME scrollToNextPrompt
      PROVE  lands /\ offset' >= offset /\ collectPromptRows \cap ((offset + 1)..(offset' - 1)) = {}
  <2>1. /\ nextPrompt \in collectPromptRows /\ nextPrompt > offset
        /\ \A y \in collectPromptRows : y > offset => y >= nextPrompt
    BY <1>0, <1>3, NextPrompt DEF scrollToNextPrompt
  <2>2. offset' = IF nextPrompt >= bottom THEN bottom ELSE nextPrompt
    BY <1>2, <1>3, <2>1 DEF scrollToNextPrompt
  <2>3. offset' <= nextPrompt /\ offset' >= offset /\ offset' \in Nat
    BY <1>0, <1>1, <2>1, <2>2
  <2>4. collectPromptRows \cap ((offset + 1)..(offset' - 1)) = {}
    <3> SUFFICES ASSUME NEW w \in (offset + 1)..(offset' - 1), w \in collectPromptRows PROVE FALSE
      OBVIOUS
    <3>0. w \in Int /\ nextPrompt \in Int /\ offset \in Int /\ offset' \in Int
      BY <1>0, <1>1, <2>1, <2>3
    <3>a. \A a \in Int, b \in Int : \A x \in (a + 1)..(b - 1) : x > a /\ x < b
      OBVIOUS
    <3>1. w > offset /\ w < offset'
      BY <3>0, <3>a
    <3>2. w >= nextPrompt
      BY <2>1, <3>1
    <3> QED BY <2>3, <3>0, <3>1, <3>2
  <2> QED BY <2>1, <2>2, <2>3, <2>4 DEF lands
<1>4. ASSUME scrollToPreviousPrompt, NEW z \in collectPromptRows, z < offset
      PROVE  lands /\ offset' < offset /\ collectPromptRows \cap ((offset' + 1)..(offset - 1)) = {}
  <2>1. /\ previousPrompt \in collectPromptRows /\ previousPrompt < offset
        /\ \A y \in collectPromptRows : y < offset => y <= previousPrompt
    BY <1>0, <1>4, PromptAbove
  <2>2. offset' = IF previousPrompt >= bottom THEN bottom ELSE previousPrompt
    BY <1>2, <1>4, <2>1 DEF scrollToPreviousPrompt
  <2>3. offset' = previousPrompt /\ offset' \in Nat
    BY <1>0, <1>1, <2>1, <2>2
  <2>4. collectPromptRows \cap ((offset' + 1)..(offset - 1)) = {}
    <3> SUFFICES ASSUME NEW w \in collectPromptRows, w \in (offset' + 1)..(offset - 1) PROVE FALSE
      OBVIOUS
    <3>1. w \in Int /\ previousPrompt \in Int /\ w < offset /\ w > previousPrompt
      BY <1>0, <1>1, <2>1, <2>3
    <3>2. w <= previousPrompt
      BY <2>1, <3>1
    <3> QED BY <3>1, <3>2
  <2> QED BY <2>1, <2>3, <2>4 DEF lands
<1> QED BY <1>3, <1>4 DEF JumpStep

\* The viewport of TerminalView stays under a selection once it has been drawn
\* off the output, and previous and next prompt pass no prompt by, for every
\* history and height of the screen.
THEOREM ViewportStays == HistorySpec => ViewportKept
<1>1. HistoryInv => [JumpStep]_historyVars
  BY JumpsLand
<1> QED BY <1>1, PinSettles, HistoryInvariant, PTL DEF HistorySpec, ViewportKept, SettledPin, PromptJump

=============================================================================
