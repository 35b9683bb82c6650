--------------------------- MODULE MCTerminalApp ---------------------------
(***************************************************************************)
(* The app around its sessions, for TLC: the session list                  *)
(* (SessionService), the notifications (KittyNotifications), the frame     *)
(* (TerminalFrame) and the scrollback (TerminalHistory).  They share no    *)
(* state, so a behaviour exercises one of them: part says which.           *)
(***************************************************************************)
EXTENDS SessionService, MCKittyNotifications, MCTerminalFrame, TerminalHistory

VARIABLE part

MCInit ==
  /\ ServiceInit /\ KittyInit /\ FrameInit /\ HistoryInit
  /\ part \in {"list", "kitty", "text", "pictures", "select", "navigate"}
  /\ part # "list" => ~stayConnected /\ ~debugBuild
  /\ debugBuild => ~stayConnected
  /\ part # "kitty" => kitty = Few
  /\ part # "text" => screen.rows = 1

\* The list has three sessions, or two, an HTTP thread and no notification
MCNext ==
  \/ /\ part = "list" /\ ServiceNext /\ (debugBuild => Cardinality(created') <= 2 /\ ~stayConnected')
     /\ UNCHANGED <<kittyVars, frameVars, historyVars, part>>
  \/ part = "kitty" /\ KittyNext /\ UNCHANGED <<serviceVars, frameVars, historyVars, part>>
  \/ part = "text" /\ TextNext /\ UNCHANGED <<serviceVars, kittyVars, historyVars, part>>
  \/ part = "pictures" /\ PictureNext /\ UNCHANGED <<serviceVars, kittyVars, historyVars, part>>
  \/ /\ part = "select" /\ SelectNext /\ Len(rows') <= MaxRows - 2
     /\ UNCHANGED <<serviceVars, kittyVars, frameVars, part>>
  \/ part = "navigate" /\ NavigateNext /\ UNCHANGED <<serviceVars, kittyVars, frameVars, part>>

MCSpec == MCInit /\ [][MCNext]_<<serviceVars, kittyVars, frameVars, historyVars, part>>
=============================================================================
