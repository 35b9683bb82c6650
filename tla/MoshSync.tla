------------------------------ MODULE MoshSync ------------------------------
(***************************************************************************)
(* What a mosh session promises, whatever the network does: the program on *)
(* the server reads what the user typed, each event once and in order,     *)
(* and the user sees screens that the server has produced, never an older  *)
(* one after a newer one.  MoshSession implements this specification.      *)
(***************************************************************************)
EXTENDS Integers, Sequences, SequencesExt

CONSTANT Event           \* what a user can do: bytes and changes of size

VARIABLES
  typed,      \* every event of the user, in order
  delivered,  \* the events the server has passed on
  produced,   \* the number of screens the server has produced
  shown       \* the one of them that the client shows

vars == <<typed, delivered, produced, shown>>

Init ==
  /\ typed \in {<<e>> : e \in Event}      \* the first size of the window
  /\ delivered = <<>>
  /\ produced = 0
  /\ shown = 0

\* A turn of the client: the user may act, and a screen may be shown.
ClientTurn ==
  /\ typed' = typed \/ \E e \in Event : typed' = Append(typed, e)
  /\ shown' \in shown..produced
  /\ UNCHANGED <<delivered, produced>>

\* A turn of the server: events are passed on and new screens produced.
ServerTurn ==
  /\ \E n \in Len(delivered)..Len(typed) : delivered' = SubSeq(typed, 1, n)
  /\ produced' >= produced
  /\ UNCHANGED <<typed, shown>>

Next == ClientTurn \/ ServerTurn

Spec == Init /\ [][Next]_vars
=============================================================================
