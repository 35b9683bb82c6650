--------------------------- MODULE SessionService ---------------------------
(***************************************************************************)
(* The list of sessions that TerminalService keeps, the session that       *)
(* MainActivity's TerminalView shows, and the persistent notification.     *)
(*                                                                         *)
(* TerminalService's list methods are synchronized: each is one step.      *)
(* They call the registered SessionsListener before they return.  On the   *)
(* UI thread MainActivity's answer (runOnUiThread) runs at once; on a      *)
(* thread of the debug HTTP server it is posted to the UI thread's queue.  *)
(* A handler of MainActivity that makes several service calls is several   *)
(* steps (uiPc), so requests of the HTTP server come between them.         *)
(* startForeground/stopForeground follow a read of the "stay connected"    *)
(* preference, which the settings screen writes without the service lock:  *)
(* on HTTP threads the read and the call are two steps.                    *)
(*                                                                         *)
(* Only a debug build has the HTTP server.                                 *)
(***************************************************************************)
EXTENDS Integers, Sequences, FiniteSets, SequencesExt

CONSTANTS Sessions,      \* TerminalSession objects that may be created
          HttpThreads,   \* worker threads of DebugHttpServer
          NoSession,          \* Java's null
          MaxPosts       \* bound on the runnables posted to the UI thread

ASSUME PostsAssumption == MaxPosts \in Nat
ASSUME NoneAssumption == NoSession \notin Sessions

VARIABLES
  sessions,       \* TerminalService.sessions
  current,        \* TerminalService.currentSessionIndex
  listening,      \* MainActivity is in sessionsListeners
  stayConnected,  \* the stay_connected preference
  foreground,     \* the persistent notification is up
  created,        \* sessions constructed so far
  dead,           \* sessions whose child has exited (isRunning false)
  handed,         \* sessions given to a thread that calls close()
  bound,          \* MainActivity.isBound
  displayed,      \* TerminalView.session
  listener,       \* TerminalSession.listener of each session
  uiQueue,        \* onCurrentSessionChanged runnables posted to the UI thread
  uiPc, uiArg,    \* the UI thread's place in a handler of MainActivity
  httpPc, httpArg,\* each HTTP thread's place in its request
  debugBuild,     \* BuildConfig.DEBUG: the HTTP server runs
  dialog,         \* the session of an open "Close Session" dialog
  process         \* "running", "exiting", "killed" or "crashed"

service == <<sessions, current, created, handed>>
view    == <<displayed, listener>>
ui      == <<uiPc, uiArg>>
http    == <<httpPc, httpArg, debugBuild>>
serviceVars == <<service, view, ui, http, listening, stayConnected, foreground,
             dead, bound, uiQueue, dialog, process>>

UI == "ui"   \* the UI thread, as the caller of a service method
ASSUME ThreadsAssumption == IsFiniteSet(HttpThreads) /\ UI \notin HttpThreads

UiSteps   == {"idle", "switch", "target", "setup", "ensure", "create", "again",
              "attach", "dismiss", "replace", "reopen", "startForeground",
              "stopForeground"}
HttpSteps == {"idle", "remove", "start", "stop"}

(***************************************************************************)
(* The list, as the synchronized methods see it.                           *)
(***************************************************************************)
isListed(s) == s \in Range(sessions)

\* ArrayList.indexOf: 0-based, -1 when absent
indexOf(list, s) ==
  IF s \in Range(list) THEN (CHOOSE i \in DOMAIN list : list[i] = s) - 1 ELSE -1

Without(list, s) ==
  IF s \in Range(list) THEN RemoveAt(list, indexOf(list, s) + 1) ELSE list

\* getCurrentSession repairs an index that is out of range before it uses it
repairedIndex(list, i) ==
  IF i >= 0 /\ i < Len(list) THEN i ELSE IF list # <<>> THEN 0 ELSE i

sessionAt(list, i) == IF list = <<>> THEN NoSession ELSE list[repairedIndex(list, i) + 1]

getCurrentSession == sessionAt(sessions, current)

\* No HTTP thread is inside a synchronized method
ServiceFree == \A h \in HttpThreads : httpPc[h] \notin {"start", "stop"}

(***************************************************************************)
(* TerminalView.attachSession and the listener slot of the sessions.       *)
(***************************************************************************)
detached(slots, s) == IF s = NoSession THEN slots ELSE [slots EXCEPT ![s] = "none"]

attachSession(s) ==
  /\ displayed' = s
  /\ listener' = [detached(listener, displayed) EXCEPT ![s] = "view"]

\* onCurrentSessionChanged as called by thread t: at once, or posted
notifyCurrentChanged(t, cur) ==
  IF ~listening \/ cur = NoSession THEN UNCHANGED <<view, uiQueue>>
  ELSE IF t = UI THEN attachSession(cur) /\ UNCHANGED uiQueue
  ELSE uiQueue' = Append(uiQueue, cur) /\ UNCHANGED view

\* updateNotification (with start/stopForegroundIfNeeded) as thread t runs it:
\* an HTTP thread has read the preference and is about to act on it
updateNotification(t, list) ==
  IF t = UI
  THEN /\ foreground' = IF list = <<>> THEN foreground ELSE stayConnected
       /\ UNCHANGED http
  ELSE /\ httpPc' = [httpPc EXCEPT ![t] = IF list = <<>> THEN "idle"
                                          ELSE IF stayConnected THEN "start"
                                          ELSE "stop"]
       /\ httpArg' = [httpArg EXCEPT ![t] = NoSession]
       /\ UNCHANGED <<foreground, debugBuild>>

(***************************************************************************)
(* TerminalService's synchronized methods, called by thread t.  addSession *)
(* and selectIndex are what createSession and setCurrentSession do before  *)
(* they notify: they set service, foreground and http; the methods         *)
(* themselves set view and uiQueue too.                                    *)
(***************************************************************************)

addSession(t, s) ==
  /\ s \notin created
  /\ created' = created \cup {s}
  /\ sessions' = Append(sessions, s)
  /\ current' = Len(sessions)
  /\ updateNotification(t, sessions')
  /\ UNCHANGED handed

createSession(t, s) ==
  /\ addSession(t, s)
  /\ notifyCurrentChanged(t, s)

selects(i) == i >= 0 /\ i < Len(sessions) /\ i # current

selectIndex(t, i) ==
  IF selects(i)
  THEN /\ current' = i
       /\ updateNotification(t, sessions)
       /\ UNCHANGED <<sessions, created, handed>>
  ELSE UNCHANGED <<service, foreground, http>>

setCurrentSession(t, i) ==
  /\ selectIndex(t, i)
  /\ IF selects(i) THEN notifyCurrentChanged(t, sessions[i + 1])
                   ELSE UNCHANGED <<view, uiQueue>>

renameSession(t, s) ==
  /\ IF isListed(s) THEN updateNotification(t, sessions)
                    ELSE UNCHANGED <<foreground, http>>
  /\ UNCHANGED <<service, view, uiQueue>>

clampedIndex(list, i) ==
  IF list = <<>> THEN -1 ELSE IF i >= Len(list) THEN Len(list) - 1 ELSE i

removeSession(t, s) ==
  LET list == Without(sessions, s)
      idx  == clampedIndex(list, current)
      wasCurrent == indexOf(sessions, s) = current
  IN /\ sessions' = list
     /\ current' = idx
     /\ handed' = handed \cup {s}   \* the TerminalClose thread
     /\ IF list = <<>>
        THEN /\ foreground' = FALSE
             /\ httpPc' = IF t = UI THEN httpPc ELSE [httpPc EXCEPT ![t] = "idle"]
             /\ httpArg' = IF t = UI THEN httpArg ELSE [httpArg EXCEPT ![t] = NoSession]
             /\ UNCHANGED debugBuild
        ELSE updateNotification(t, list)
     /\ IF wasCurrent \/ list = <<>>
        THEN notifyCurrentChanged(t, sessionAt(list, idx))
        ELSE UNCHANGED <<view, uiQueue>>
     /\ UNCHANGED created

(***************************************************************************)
(* The UI thread: handlers of MainActivity.  A tap needs the activity on   *)
(* screen and no dialog in front of it.                                    *)
(***************************************************************************)
Alive == process \in {"running", "exiting"}
UiIdle == Alive /\ uiPc = "idle"
Tap == UiIdle /\ bound /\ dialog = NoSession /\ ServiceFree

goto(pc, arg) == uiPc' = pc /\ uiArg' = arg

onServiceConnected ==
  /\ UiIdle /\ ~bound
  /\ bound' = TRUE
  /\ listening' = TRUE
  /\ goto("setup", NoSession)
  /\ UNCHANGED <<service, view, http, stayConnected, foreground, dead, uiQueue,
                 dialog, process>>

\* setupSession: the current session if it runs
setupSession ==
  /\ Alive /\ uiPc = "setup" /\ ServiceFree
  /\ current' = repairedIndex(sessions, current)
  /\ IF getCurrentSession = NoSession \/ getCurrentSession \in dead
     THEN goto("ensure", NoSession)
     ELSE goto("attach", getCurrentSession)
  /\ UNCHANGED <<sessions, created, handed, view, http, listening, stayConnected,
                 foreground, dead, bound, uiQueue, dialog, process>>

\* ... else "ensure at least one session": is the list empty?
setupEnsure ==
  /\ Alive /\ uiPc = "ensure" /\ ServiceFree
  /\ goto(IF sessions = <<>> THEN "create" ELSE "again", NoSession)
  /\ UNCHANGED <<service, view, uiQueue, foreground, http>>
  /\ UNCHANGED <<listening, stayConnected, dead, bound, dialog, process>>

\* ... if it was, a new one,
setupCreate ==
  /\ Alive /\ uiPc = "create" /\ ServiceFree
  /\ \E s \in Sessions : createSession(UI, s) /\ goto("attach", s)
  /\ UNCHANGED <<listening, stayConnected, dead, bound, dialog, process>>

\* ... else the current one after all; get(0) of an empty list throws
setupAgain ==
  /\ Alive /\ uiPc = "again" /\ ServiceFree
  /\ current' = repairedIndex(sessions, current)
  /\ IF sessions = <<>>
     THEN process' = "crashed" /\ UNCHANGED ui
     ELSE goto("attach", getCurrentSession) /\ UNCHANGED process
  /\ UNCHANGED <<sessions, created, handed, view, http, listening, stayConnected,
                 foreground, dead, bound, uiQueue, dialog>>

\* ... shown, and made current if the list still has it
setupAttach ==
  /\ Alive /\ uiPc = "attach" /\ ServiceFree
  /\ selectIndex(UI, indexOf(sessions, uiArg))
  /\ attachSession(uiArg)
  /\ goto("idle", NoSession)
  /\ UNCHANGED <<uiQueue, listening, stayConnected, dead, bound, dialog, process>>

\* switchToSession(index): drawer, keyboard shortcut
switchToSession ==
  /\ Tap
  /\ \E i \in 0..(Len(sessions) - 1) : goto("switch", i)
  /\ listener' = detached(listener, displayed)
  /\ UNCHANGED <<service, displayed, http, listening, stayConnected, foreground,
                 dead, bound, uiQueue, dialog, process>>

switchCurrent ==
  /\ Alive /\ uiPc = "switch" /\ ServiceFree
  /\ setCurrentSession(UI, uiArg)
  /\ goto("target", NoSession)
  /\ UNCHANGED <<listening, stayConnected, dead, bound, dialog, process>>

switchTarget ==
  /\ Alive /\ uiPc = "target" /\ ServiceFree
  /\ current' = repairedIndex(sessions, current)
  /\ IF getCurrentSession = NoSession THEN UNCHANGED view ELSE attachSession(getCurrentSession)
  /\ goto("idle", NoSession)
  /\ UNCHANGED <<sessions, created, handed, http, listening, stayConnected,
                 foreground, dead, bound, uiQueue, dialog, process>>

\* createNewLocalSession and connectProfile; the tail shows the new session
\* whether or not the service's notification already did
showNewSession ==
  \E s \in Sessions :
     /\ addSession(UI, s)
     /\ attachSession(s)
     /\ goto("idle", NoSession)
     /\ UNCHANGED uiQueue

createNewLocalSession ==
  /\ Tap
  /\ showNewSession
  /\ UNCHANGED <<listening, stayConnected, dead, bound, dialog, process>>

\* The dead session on screen is dismissed, or replaced by a new one: its
\* listener slot is cleared first, then the service removes it
closeDeadSession(step) ==
  /\ Tap /\ displayed \in dead
  /\ listener' = detached(listener, displayed)
  /\ goto(step, displayed)
  /\ UNCHANGED <<service, displayed, http, listening, stayConnected, foreground,
                 dead, bound, uiQueue, dialog, process>>

closeDeadCurrentSession == closeDeadSession("dismiss")
reopenDeadSession == closeDeadSession("replace")

removeDeadSession ==
  /\ Alive /\ uiPc \in {"dismiss", "replace"} /\ ServiceFree
  /\ removeSession(UI, uiArg)
  /\ IF uiPc = "dismiss" THEN goto("setup", NoSession) ELSE goto("reopen", NoSession)
  /\ UNCHANGED <<listening, stayConnected, dead, bound, dialog, process>>

reopenCreate ==
  /\ Alive /\ uiPc = "reopen" /\ ServiceFree
  /\ showNewSession
  /\ UNCHANGED <<listening, stayConnected, dead, bound, dialog, process>>

showCloseDialog ==
  /\ Tap
  /\ \E s \in Range(sessions) : dialog' = s
  /\ UNCHANGED <<service, view, ui, http, listening, stayConnected, foreground,
                 dead, bound, uiQueue, process>>

\* "Cancel"
dismissCloseDialog ==
  /\ UiIdle /\ bound /\ dialog # NoSession
  /\ dialog' = NoSession
  /\ UNCHANGED <<service, view, ui, http, listening, stayConnected, foreground,
                 dead, bound, uiQueue, process>>

\* Leaves the removed session on screen
confirmCloseSessionNoSetup ==
  /\ UiIdle /\ bound /\ dialog # NoSession /\ ServiceFree
  /\ removeSession(UI, dialog)
  /\ goto("idle", NoSession)
  /\ dialog' = NoSession
  /\ UNCHANGED <<listening, stayConnected, dead, bound, process>>

\* "Close"
confirmCloseSession ==
  /\ UiIdle /\ bound /\ dialog # NoSession /\ ServiceFree
  /\ removeSession(UI, dialog)
  /\ IF dialog = displayed THEN goto("setup", NoSession) ELSE goto("idle", NoSession)
  /\ dialog' = NoSession
  /\ UNCHANGED <<listening, stayConnected, dead, bound, process>>

\* A tap on a terminal notification brings its session to the front
handleNotificationIntent ==
  /\ UiIdle /\ bound /\ ServiceFree
  /\ \E s \in created :
       IF isListed(s)
       THEN setCurrentSession(UI, indexOf(sessions, s)) /\ goto("setup", NoSession)
       ELSE UNCHANGED <<service, view, uiQueue, foreground, http, ui>>
  /\ UNCHANGED <<listening, stayConnected, dead, bound, dialog, process>>

renameFromDrawer ==
  /\ Tap
  /\ \E s \in created : renameSession(UI, s)
  /\ UNCHANGED <<ui, listening, stayConnected, dead, bound, dialog, process>>

\* A posted onCurrentSessionChanged reaches the head of the UI thread's queue
runPosted ==
  /\ UiIdle /\ uiQueue # <<>>
  /\ attachSession(Head(uiQueue))
  /\ uiQueue' = Tail(uiQueue)
  /\ UNCHANGED <<service, ui, http, listening, stayConnected, foreground, dead,
                 bound, dialog, process>>

\* MainActivity.onDestroy unregisters; it does not release the session's slot
activityDestroyed ==
  /\ UiIdle /\ bound /\ uiQueue = <<>>
  /\ bound' = FALSE
  /\ listening' = FALSE
  /\ dialog' = NoSession
  /\ displayed' = NoSession
  /\ listener' = IF displayed = NoSession THEN listener
                 ELSE [listener EXCEPT ![displayed] = "stale"]
  /\ UNCHANGED <<service, ui, http, stayConnected, foreground, dead, uiQueue, process>>

\* setStayConnectedEnabled reads the list without the service lock
setStayConnectedEnabled ==
  /\ UiIdle
  /\ \/ /\ stayConnected' = TRUE
        /\ IF sessions # <<>> THEN goto("startForeground", NoSession) ELSE UNCHANGED ui
        /\ UNCHANGED foreground
     \/ /\ stayConnected' = FALSE
        /\ foreground' = FALSE
        /\ UNCHANGED ui
  /\ UNCHANGED <<service, view, http, listening, dead, bound, uiQueue, dialog, process>>

\* ... and so does refreshForegroundNotification
refreshForegroundNotification ==
  /\ UiIdle /\ sessions # <<>>
  /\ goto("startForeground", NoSession)
  /\ UNCHANGED <<service, view, http, listening, stayConnected, foreground, dead,
                 bound, uiQueue, dialog, process>>

startForegroundIfNeeded ==
  /\ Alive /\ uiPc = "startForeground"
  /\ foreground' = (foreground \/ stayConnected)
  /\ goto("idle", NoSession)
  /\ UNCHANGED <<service, view, http, listening, stayConnected, dead, bound,
                 uiQueue, dialog, process>>

(***************************************************************************)
(* The end of the service and of the process.                              *)
(***************************************************************************)
\* Clears the list before it copies it
takeAllCleared ==
  /\ sessions' = <<>>
  /\ current' = -1
  /\ handed' = handed \cup Range(sessions')
  /\ UNCHANGED created

takeAll ==
  /\ sessions' = <<>>
  /\ current' = -1
  /\ handed' = handed \cup Range(sessions)
  /\ UNCHANGED created

exitApp ==
  /\ UiIdle /\ ServiceFree
  /\ listening' = FALSE
  /\ takeAll
  /\ process' = "exiting"
  /\ goto("stopForeground", NoSession)
  /\ UNCHANGED <<view, http, stayConnected, foreground, dead, bound, uiQueue, dialog>>

exitStopForeground ==
  /\ Alive /\ uiPc = "stopForeground"
  /\ foreground' = FALSE
  /\ goto("idle", NoSession)
  /\ UNCHANGED <<service, view, http, listening, stayConnected, dead, bound,
                 uiQueue, dialog, process>>

\* The TerminalExit thread, after it closed the sessions
killProcess ==
  /\ process = "exiting"
  /\ process' = "killed"
  /\ UNCHANGED <<service, view, ui, http, listening, stayConnected, foreground,
                 dead, bound, uiQueue, dialog>>

\* TerminalService.onDestroy: nobody is bound; the next bind makes a new one
onDestroy ==
  /\ UiIdle /\ ~bound /\ \A h \in HttpThreads : httpPc[h] = "idle"
  /\ takeAll
  /\ foreground' = FALSE
  /\ UNCHANGED <<view, ui, http, listening, stayConnected, dead, bound, uiQueue,
                 dialog, process>>

\* The child of a session exits, or its close() thread has run
sessionDies ==
  /\ Alive
  /\ \E s \in created \ dead : dead' = dead \cup {s}
  /\ UNCHANGED <<service, view, ui, http, listening, stayConnected, foreground,
                 bound, uiQueue, dialog, process>>

(***************************************************************************)
(* The debug HTTP server's session requests, on thread h.                  *)
(***************************************************************************)
Request(h) == debugBuild /\ Alive /\ httpPc[h] = "idle" /\ Len(uiQueue) < MaxPosts

httpFrame == UNCHANGED <<ui, listening, stayConnected, dead, bound, dialog, process>>

\* /sessions/new, /sessions/raw, /profiles/connect
httpCreate(h) ==
  /\ Request(h) /\ ServiceFree
  /\ \E s \in Sessions : createSession(h, s)
  /\ httpFrame

\* /sessions/switch by index or id
httpSwitch(h) ==
  /\ Request(h) /\ ServiceFree
  /\ \E i \in -1..Len(sessions) : setCurrentSession(h, i)
  /\ httpFrame

httpRename(h) ==
  /\ Request(h) /\ ServiceFree
  /\ \E s \in created : renameSession(h, s)
  /\ httpFrame

\* /sessions/close by id: lookup and removal under one lock
httpCloseById(h) ==
  /\ Request(h) /\ ServiceFree
  /\ \E s \in Range(sessions) : removeSession(h, s)
  /\ httpFrame

\* /sessions/close by index, or of the current session: first the lookup ...
httpCloseLookup(h) ==
  /\ Request(h) /\ ServiceFree
  /\ \E s \in Range(sessions) : httpArg' = [httpArg EXCEPT ![h] = s]
  /\ httpPc' = [httpPc EXCEPT ![h] = "remove"]
  /\ UNCHANGED <<service, view, foreground, uiQueue, debugBuild>>
  /\ httpFrame

\* ... then the removal of what it found
httpCloseRemove(h) ==
  /\ Alive /\ httpPc[h] = "remove" /\ ServiceFree
  /\ removeSession(h, httpArg[h])
  /\ httpFrame

\* The end of the synchronized method: what was decided from the preference
httpForeground(h) ==
  /\ Alive /\ httpPc[h] \in {"start", "stop"}
  /\ foreground' = (httpPc[h] = "start")
  /\ httpPc' = [httpPc EXCEPT ![h] = "idle"]
  /\ UNCHANGED <<service, view, uiQueue, httpArg, debugBuild>>
  /\ httpFrame

-----------------------------------------------------------------------------
ServiceInit ==
  /\ sessions = <<>> /\ current = -1
  /\ created = {} /\ dead = {} /\ handed = {}
  /\ listening = FALSE /\ bound = FALSE
  /\ stayConnected \in BOOLEAN /\ foreground = FALSE
  /\ displayed = NoSession /\ listener = [s \in Sessions |-> "none"]
  /\ uiQueue = <<>> /\ uiPc = "idle" /\ uiArg = NoSession
  /\ httpPc = [h \in HttpThreads |-> "idle"]
  /\ httpArg = [h \in HttpThreads |-> NoSession]
  /\ dialog = NoSession /\ process = "running" /\ debugBuild \in BOOLEAN

ServiceNext ==
  \/ onServiceConnected \/ setupSession \/ setupEnsure \/ setupCreate \/ setupAgain \/ setupAttach
  \/ switchToSession \/ switchCurrent \/ switchTarget
  \/ createNewLocalSession \/ closeDeadCurrentSession \/ reopenDeadSession
  \/ removeDeadSession \/ reopenCreate
  \/ showCloseDialog \/ dismissCloseDialog \/ confirmCloseSession
  \/ handleNotificationIntent \/ renameFromDrawer \/ runPosted \/ activityDestroyed
  \/ setStayConnectedEnabled \/ refreshForegroundNotification \/ startForegroundIfNeeded
  \/ exitApp \/ exitStopForeground \/ killProcess \/ onDestroy \/ sessionDies
  \/ \E h \in HttpThreads :
       \/ httpCreate(h) \/ httpSwitch(h) \/ httpRename(h)
       \/ httpCloseById(h) \/ httpCloseLookup(h) \/ httpCloseRemove(h)
       \/ httpForeground(h)

ServiceSpec == ServiceInit /\ [][ServiceNext]_serviceVars

-----------------------------------------------------------------------------
(***************************************************************************)
(* Properties.                                                             *)
(***************************************************************************)
\* Types.  A request that was admitted posts at most once more.
ServiceTypeOK ==
  /\ sessions \in Seq(Sessions)
  /\ current \in Int
  /\ created \subseteq Sessions /\ dead \subseteq created /\ handed \subseteq created
  /\ {listening, bound, stayConnected, foreground, debugBuild} \subseteq BOOLEAN
  /\ displayed \in Sessions \cup {NoSession} /\ dialog \in Sessions \cup {NoSession}
  /\ listener \in [Sessions -> {"none", "view", "stale"}]
  /\ uiQueue \in Seq(Sessions) /\ Len(uiQueue) <= MaxPosts + Cardinality(HttpThreads)
  /\ uiPc \in UiSteps
  /\ httpPc \in [HttpThreads -> HttpSteps]
  /\ httpArg \in [HttpThreads -> Sessions \cup {NoSession}]
  /\ process \in {"running", "exiting", "killed", "crashed"}

\* The index names a session whenever there is one, so getCurrentSession's
\* repair of an index out of range (TerminalService.getCurrentSession) never
\* moves the user to the first session behind their back.
IndexNamesSession ==
  IF sessions = <<>> THEN current = -1 ELSE current \in 0..(Len(sessions) - 1)

\* Every session ever constructed is either in the list, once, or has been
\* handed to a thread that closes it: no path through create, close, reopen,
\* exit and onDestroy loses a pty and its child process.
NoOrphanSessions ==
  /\ created \subseteq Range(sessions) \cup handed
  /\ Range(sessions) \cap handed = {}
  /\ IsInjective(sessions)

\* Between two handlers of the UI thread a listed session on screen reports to
\* the view on screen, and no other session does: the display is never frozen
\* by a lost listener slot and never drawn from a session behind it.
ViewOwnsListenerSlot ==
  UiIdle => /\ displayed \in Range(sessions) => listener[displayed] = "view"
            /\ \A s \in Sessions : listener[s] = "view" => s = displayed

\* In a release build, between two handlers the session on screen is one of
\* the list.  (In a debug build a posted attach may show a removed session.)
ViewShowsListedSession ==
  (~debugBuild /\ UiIdle /\ bound /\ process = "running") => displayed \in Range(sessions)

\* In a release build, between two handlers the notification is up exactly when
\* there is a session to keep alive and the user wants it kept.  (In a debug
\* build setStayConnectedEnabled races removeSession on an HTTP thread.)
ForegroundMatches ==
  (~debugBuild /\ UiIdle /\ process = "running")
    => foreground = (sessions # <<>> /\ stayConnected)

\* "Ensure at least one session" (MainActivity.setupSession) finds one in a
\* release build.  (In a debug build an HTTP thread may take it away.)
SetupFindsSession == ~debugBuild => process # "crashed"

\* "Ensure current index correct" (MainActivity.setupSession): between two
\* handlers the service's current session is the one on screen.
OnScreenIsCurrent ==
  (~debugBuild /\ UiIdle /\ bound /\ process = "running") => displayed = getCurrentSession

\* The list, its index and what was taken off it agree, after any interleaving
\* of taps, dialogs, HTTP threads and the end of the process.
ListConsistent == ServiceTypeOK /\ IndexNamesSession /\ NoOrphanSessions

\* The screen and the notification follow the list.
ViewConsistent == ViewOwnsListenerSlot /\ ViewShowsListedSession /\ ForegroundMatches /\ SetupFindsSession
=============================================================================
