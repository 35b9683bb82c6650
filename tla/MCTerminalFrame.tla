-------------------------- MODULE MCTerminalFrame --------------------------
(* Instances of TerminalFrame for TLC. *)
EXTENDS TerminalFrame

OnePixel == {[w |-> 1, h |-> 1, format |-> "GRAY"]}

\* A picture, a larger one, and one that is too large (MaxSide)
MCShapes == OnePixel \cup {[w |-> 2, h |-> 1, format |-> "RGB"], [w |-> 1, h |-> 3, format |-> "RGBA"]}
MCSizes == {<<1, 3>>, <<2, 2>>}
OneSize == {<<1, 2>>}

PictureSpec == FrameInit /\ [][PictureNext]_frameVars
=============================================================================
