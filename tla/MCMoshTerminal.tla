--------------------------- MODULE MCMoshTerminal ---------------------------
(***************************************************************************)
(* Instances of MoshTerminal and MoshParser for TLC.  The terminals, the   *)
(* parser and the user's keys meet only in tokens, which both sides        *)
(* enumerate: one behaviour exercises one of the three.                    *)
(***************************************************************************)
EXTENDS MoshTerminal, MoshParser

VARIABLE part

MCInit == Init /\ ParserInit /\ part \in {"terminal", "parser", "keys"}
MCNext ==
  \/ part = "terminal" /\ Next /\ UNCHANGED <<parser, user, part>>
  \/ part = "parser" /\ HostByte /\ UNCHANGED <<vars, part>>
  \/ part = "keys" /\ UserByte /\ UNCHANGED <<vars, part>>
MCSpec == MCInit /\ [][MCNext]_<<vars, parser, user, part>>

MCSizes == {<<3, 2>>, <<2, 2>>}
MCTokens ==
  {Glyph("a"), Glyph("W"), Glyph("c"), Control("LF"), Control("CR"), Control("BS"), Control("HT"),
   Control("RI"), Control("BEL"), CSI("H", <<1, 3>>), CSI("H", <<2, 3>>), CSI("A", <<-1>>),
   CSI("K", <<-1>>), CSI("J", <<1>>), CSI("m", <<44>>), CSI("?h", <<6>>), CSI("?l", <<7, 25>>),
   CSI("?h", <<1002, 1006, 2004>>), CSI("?l", <<1000, 1005>>), CSI("h", <<4>>), CSI("r", <<2, 2>>),
   CSI("L", <<-1>>), CSI("M", <<1>>), CSI("@", <<1>>), CSI("P", <<1>>), CSI("X", <<2>>),
   Escape("7"), Escape("8"), Escape("c"), CSI("T", <<1>>),
   OSC(8, <<"link">>), OSC(0, <<"t">>), OSC(2, <<"u">>), OSC(52, <<"v">>)}

\* BEL CAN ESC 1 : ; ? H [ ], a C1 control, CSI, and parts of characters.
MCBytes == {7, 24, 27, 49, 58, 59, 63, 72, 91, 93, 128, 155, 194, 240}
MCFrames == {token("csi", <<72>>, <<2, 3>>), token("csi", <<109>>, <<0>>), token("csi", <<63, 104>>, <<25>>),
             token("csi", <<75>>, <<-1>>), token("osc", <<59>>, <<>>), token("osc", <<56>>, <<>>)}
MCUserBytes == {27, 79, 65, 97}
=============================================================================
