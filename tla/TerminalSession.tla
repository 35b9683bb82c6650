--------------------------- MODULE TerminalSession ---------------------------
(***************************************************************************)
(* One terminal session: the Java object TerminalSession and the native    *)
(* NativeSession behind its sessionPtr, used at the same time by           *)
(*   - Callers: threads that call the session's operations (the UI thread, *)
(*     the debug HTTP server's threads);                                   *)
(*   - Closers: threads that call close() (removeSession, onDestroy and    *)
(*     exitApp each start one; ExitThread is exitApp's and ends by killing *)
(*     the process);                                                       *)
(*   - the native reader thread (pty_read_loop) and the Java watcher       *)
(*     thread (startWatcherThread).                                        *)
(* Two locks are involved: the Java monitor of the session object and the  *)
(* native session_mutex.  getScreenState() takes no monitor, close() holds *)
(* it only to swap sessionPtr, and nativeClose joins the reader while it   *)
(* holds session_mutex.                                                    *)
(*                                                                         *)
(* Data is counted in chunks: toChild and toApp are the chunks in the two  *)
(* directions of the kernel's pty, of capacity PtyCap.                     *)
(***************************************************************************)
EXTENDS Naturals

CONSTANTS
  Callers,     \* threads that call operations of the session
  Closers,     \* threads that call close()
  ExitThread,  \* the closer started by exitApp()
  OpKinds,     \* the kinds of operation the callers use, a subset of Kinds
  PtyCap,      \* chunks the kernel buffers in each direction
  MaxWrites    \* most chunks one paste is written in (bound of the model)

Nobody == "nobody"
Reader == "reader"

\* render: any locked operation that writes nothing (nativeUpdateRender,
\* nativeResize, nativeScroll, the selection operations, nativeFormatTerminal);
\* feed: nativeFeedVt; key: nativeWriteKey; mouse: nativeSendMouseEvent, which
\* sendMouseClick and sendMouseWheel call repeatedly; paste: nativeWritePaste;
\* write: nativeWritePty (no session_mutex); screen: getScreenState (no monitor).
Kinds == {"render", "feed", "key", "mouse", "paste", "write", "screen"}

ASSUME OpKindsAssumption == OpKinds \subseteq Kinds
ASSUME ThreadAssumption ==
  /\ Callers \cap Closers = {}
  /\ {Nobody, Reader} \cap (Callers \cup Closers) = {}
ASSUME CapAssumption == PtyCap \in Nat \ {0} /\ MaxWrites \in Nat \ {0}

VARIABLES
  alive,          \* the app's process exists
  ctor,           \* progress of the TerminalSession constructor
  isClosed, isRunning, sessionPtr, exitCode,   \* fields of TerminalSession
  reported,       \* onSessionClosed has posted to the listeners
  monitor,        \* owner of the session object's Java monitor
  heap,           \* the NativeSession allocation: none, live, freed
  is_closed, ptm_fd, session_mutex,            \* fields of NativeSession
  child,          \* the child process: none, running, zombie, reaped
  hup,            \* the child was sent SIGHUP by nativeClose
  toChild, toApp, \* chunks in the pty
  opc, op, left,  \* callers: program counter, operation, chunks left to write
  cpc,            \* closers: program counter
  rpc,            \* reader thread: program counter
  wpc             \* watcher thread: program counter

javaVars   == <<isClosed, isRunning, sessionPtr, exitCode, reported>>
nativeVars == <<heap, is_closed, ptm_fd>>
ptyVars    == <<child, hup, toChild, toApp>>
callVars   == <<opc, op, left>>
vars == <<alive, ctor, javaVars, monitor, nativeVars, session_mutex, ptyVars,
          callVars, cpc, rpc, wpc>>

OpPc == {"idle", "check", "native", "lock", "body", "write"}
CloserPc == {"idle", "stop", "swap", "nclose", "closeFd", "join", "free", "ret"}
ReaderPc == {"none", "top", "poll", "read", "lock", "vt", "reply", "notify", "done"}
WatcherPc == {"none", "check", "call", "deref", "wait", "report", "done"}

\* The flags of the process, of TerminalSession and of NativeSession.
FlagsOK ==
  /\ alive \in BOOLEAN /\ reported \in BOOLEAN /\ hup \in BOOLEAN
  /\ isClosed \in BOOLEAN /\ isRunning \in BOOLEAN /\ sessionPtr \in BOOLEAN
  /\ is_closed \in BOOLEAN /\ ptm_fd \in BOOLEAN

\* Everything else: lock owners, program counters, pty buffers.
StateOK ==
  /\ ctor \in {"create", "running", "watch", "done", "failed"}
  /\ exitCode \in {"unset", "status", "bogus"}
  /\ monitor \in Callers \cup {Nobody}
  /\ heap \in {"none", "live", "freed"}
  /\ session_mutex \in Callers \cup Closers \cup {Reader, Nobody}
  /\ child \in {"none", "running", "zombie", "reaped"}
  /\ toChild \in 0..PtyCap /\ toApp \in 0..PtyCap
  /\ opc \in [Callers -> OpPc]
  /\ op \in [Callers -> Kinds]
  /\ left \in [Callers -> 0..(MaxWrites + 2)]
  /\ cpc \in [Closers -> CloserPc]
  /\ rpc \in ReaderPc
  /\ wpc \in WatcherPc

\* The type invariant: every field of the session, every lock owner and every
\* program counter is in its range, and the pty never holds more than PtyCap.
TypeOK == FlagsOK /\ StateOK

Init ==
  /\ alive = TRUE
  /\ ctor = "create"
  /\ isClosed = FALSE /\ isRunning = FALSE /\ sessionPtr = FALSE
  /\ exitCode = "unset" /\ reported = FALSE
  /\ monitor = Nobody
  /\ heap = "none" /\ is_closed = FALSE /\ ptm_fd = FALSE
  /\ session_mutex = Nobody
  /\ child = "none" /\ hup = FALSE /\ toChild = 0 /\ toApp = 0
  /\ opc = [t \in Callers |-> "idle"]
  /\ op = [t \in Callers |-> "render"]
  /\ left = [t \in Callers |-> 0]
  /\ cpc = [c \in Closers |-> "idle"]
  /\ rpc = "none"
  /\ wpc = "none"

-----------------------------------------------------------------------------
(***************************************************************************)
(* The constructor.  nativeCreateSession opens the pty, forks the child    *)
(* and starts the reader; any failure deletes the native session and       *)
(* throws, so that the object never escapes.                               *)
(***************************************************************************)
nativeCreateSession ==
  /\ alive
  /\ ctor = "create"
  /\ ctor' = "running"
  /\ heap' = "live" /\ ptm_fd' = TRUE /\ sessionPtr' = TRUE
  /\ child' = "running"
  /\ rpc' = "top"
  /\ UNCHANGED <<alive, isClosed, isRunning, exitCode, reported, monitor,
                 is_closed, session_mutex, hup, toChild, toApp, callVars, cpc, wpc>>

nativeCreateFails ==
  /\ alive
  /\ ctor = "create"
  /\ ctor' = "failed"
  /\ UNCHANGED <<alive, javaVars, monitor, nativeVars, session_mutex, ptyVars,
                 callVars, cpc, rpc, wpc>>

ctorSetRunning ==
  /\ alive
  /\ ctor = "running"
  /\ ctor' = "watch"
  /\ isRunning' = TRUE
  /\ UNCHANGED <<alive, isClosed, sessionPtr, exitCode, reported, monitor,
                 nativeVars, session_mutex, ptyVars, callVars, cpc, rpc, wpc>>

startWatcherThread ==
  /\ alive
  /\ ctor = "watch"
  /\ ctor' = "done"
  /\ wpc' = "check"
  /\ UNCHANGED <<alive, javaVars, monitor, nativeVars, session_mutex, ptyVars,
                 callVars, cpc, rpc>>

Constructor ==
  nativeCreateSession \/ nativeCreateFails \/ ctorSetRunning \/ startWatcherThread

-----------------------------------------------------------------------------
(***************************************************************************)
(* Operations.  A synchronized method takes the monitor, tests isClosed    *)
(* and sessionPtr, calls the native function, which tests is_closed        *)
(* without the mutex, takes session_mutex and works on the terminal.       *)
(***************************************************************************)

\* How many write()s to the pty an operation may make.
Writes(k) ==
  CASE k \in {"render", "screen"} -> {0}
    [] k \in {"feed", "mouse"}    -> 0..1
    [] k = "key"                  -> 0..2
    [] k = "paste"                -> 1..MaxWrites
    [] k = "write"                -> {1}

Synchronized(k) == k # "screen"

\* The method is entered; synchronized ones wait for the monitor.
Enter(t, k) ==
  /\ alive
  /\ ctor = "done"
  /\ opc[t] = "idle"
  /\ IF Synchronized(k) THEN monitor = Nobody /\ monitor' = t
                        ELSE UNCHANGED monitor
  /\ opc' = [opc EXCEPT ![t] = "check"]
  /\ op' = [op EXCEPT ![t] = k]
  /\ UNCHANGED <<alive, ctor, javaVars, nativeVars, session_mutex, ptyVars,
                 left, cpc, rpc, wpc>>

\* The method returns and releases the monitor if it holds it.
Return(t) ==
  /\ opc' = [opc EXCEPT ![t] = "idle"]
  /\ monitor' = IF monitor = t THEN Nobody ELSE monitor

\* if (isClosed.get() || sessionPtr == 0) return; at the head of every method.
CheckOpen(t) ==
  /\ alive
  /\ opc[t] = "check"
  /\ IF isClosed \/ ~sessionPtr
       THEN Return(t)
       ELSE opc' = [opc EXCEPT ![t] = "native"] /\ UNCHANGED monitor
  /\ UNCHANGED <<alive, ctor, javaVars, nativeVars, session_mutex, ptyVars,
                 op, left, cpc, rpc, wpc>>

\* The native function's own test of is_closed and ptm_fd, outside the mutex.
NativeEntry(t) ==
  /\ alive
  /\ opc[t] = "native"
  /\ heap = "live"
  /\ IF is_closed \/ ~ptm_fd
       THEN Return(t) /\ UNCHANGED left
       ELSE /\ opc' = [opc EXCEPT ![t] = IF op[t] = "write" THEN "write" ELSE "lock"]
            /\ \E n \in Writes(op[t]) : left' = [left EXCEPT ![t] = n]
            /\ UNCHANGED monitor
  /\ UNCHANGED <<alive, ctor, javaVars, nativeVars, session_mutex, ptyVars,
                 op, cpc, rpc, wpc>>

\* Mutant: the lock_guard is missing.
LockMutexMissing(t) ==
  /\ alive
  /\ opc[t] = "lock"
  /\ heap = "live"
  /\ session_mutex' = t
  /\ opc' = [opc EXCEPT ![t] = "body"]
  /\ UNCHANGED <<alive, ctor, javaVars, monitor, nativeVars, ptyVars,
                 op, left, cpc, rpc, wpc>>

LockMutex(t) ==
  /\ alive
  /\ opc[t] = "lock"
  /\ heap = "live"
  /\ session_mutex = Nobody
  /\ session_mutex' = t
  /\ opc' = [opc EXCEPT ![t] = "body"]
  /\ UNCHANGED <<alive, ctor, javaVars, monitor, nativeVars, ptyVars,
                 op, left, cpc, rpc, wpc>>

\* Mutant: the write is assumed never to block.
WriteChunkUnbounded(t) ==
  /\ alive
  /\ opc[t] \in {"body", "write"}
  /\ left[t] > 0
  /\ toChild' = toChild + 1
  /\ left' = [left EXCEPT ![t] = @ - 1]
  /\ UNCHANGED <<alive, ctor, javaVars, monitor, nativeVars, session_mutex,
                 child, hup, toApp, opc, op, cpc, rpc, wpc>>

\* One write() to the pty master: it blocks while the buffer is full, and
\* fails at once, ending the loop of nativeWritePaste, when the fd is closed.
WriteChunk(t) ==
  /\ alive
  /\ opc[t] \in {"body", "write"}
  /\ left[t] > 0
  /\ \/ /\ ptm_fd
        /\ toChild < PtyCap
        /\ toChild' = toChild + 1
        /\ left' = [left EXCEPT ![t] = @ - 1]
     \/ /\ ~ptm_fd
        /\ left' = [left EXCEPT ![t] = 0]
        /\ UNCHANGED toChild
  /\ UNCHANGED <<alive, ctor, javaVars, monitor, nativeVars, session_mutex,
                 child, hup, toApp, opc, op, cpc, rpc, wpc>>

\* The native function returns; the method returns too, or calls again
\* (sendMouseClick, sendMouseWheel) without giving up the monitor.
Finish(t) ==
  /\ alive
  /\ opc[t] \in {"body", "write"}
  /\ left[t] = 0
  /\ session_mutex' = IF opc[t] = "body" THEN Nobody ELSE session_mutex
  /\ \/ Return(t)
     \/ /\ op[t] = "mouse"
        /\ opc' = [opc EXCEPT ![t] = "native"]
        /\ UNCHANGED monitor
  /\ UNCHANGED <<alive, ctor, javaVars, nativeVars, ptyVars, op, left, cpc, rpc, wpc>>

\* Undefined behaviour: the native function dereferences a deleted session.
\* The process crashes, or the call returns a meaningless value.
UseFreedSession(t) ==
  /\ alive
  /\ opc[t] \in {"native", "lock"}
  /\ heap = "freed"
  /\ alive' \in BOOLEAN
  /\ Return(t)
  /\ UNCHANGED <<ctor, javaVars, nativeVars, session_mutex, ptyVars,
                 op, left, cpc, rpc, wpc>>

CallerStep(t) ==
  \/ CheckOpen(t) \/ NativeEntry(t) \/ LockMutex(t)
  \/ WriteChunk(t) \/ Finish(t) \/ UseFreedSession(t)

-----------------------------------------------------------------------------
(***************************************************************************)
(* close() and nativeClose.                                                *)
(***************************************************************************)
close(c) ==
  /\ alive
  /\ ctor = "done"
  /\ cpc[c] = "idle"
  /\ isClosed' = TRUE
  /\ cpc' = [cpc EXCEPT ![c] = IF isClosed THEN "ret" ELSE "stop"]
  /\ UNCHANGED <<alive, ctor, isRunning, sessionPtr, exitCode, reported, monitor,
                 nativeVars, session_mutex, ptyVars, callVars, rpc, wpc>>

closeStop(c) ==
  /\ alive
  /\ cpc[c] = "stop"
  /\ isRunning' = FALSE
  /\ cpc' = [cpc EXCEPT ![c] = "swap"]
  /\ UNCHANGED <<alive, ctor, isClosed, sessionPtr, exitCode, reported, monitor,
                 nativeVars, session_mutex, ptyVars, callVars, rpc, wpc>>

\* Mutant: sessionPtr is swapped outside the monitor.
closeSwapUnsynchronized(c) ==
  /\ alive
  /\ cpc[c] = "swap"
  /\ sessionPtr' = FALSE
  /\ cpc' = [cpc EXCEPT ![c] = IF sessionPtr THEN "nclose" ELSE "ret"]
  /\ UNCHANGED <<alive, ctor, isClosed, isRunning, exitCode, reported, monitor,
                 nativeVars, session_mutex, ptyVars, callVars, rpc, wpc>>

\* synchronized (this) { ptr = sessionPtr; sessionPtr = 0; }
closeSwap(c) ==
  /\ alive
  /\ cpc[c] = "swap"
  /\ monitor = Nobody
  /\ sessionPtr' = FALSE
  /\ cpc' = [cpc EXCEPT ![c] = IF sessionPtr THEN "nclose" ELSE "ret"]
  /\ UNCHANGED <<alive, ctor, isClosed, isRunning, exitCode, reported, monitor,
                 nativeVars, session_mutex, ptyVars, callVars, rpc, wpc>>

nativeClose(c) ==
  /\ alive
  /\ cpc[c] = "nclose"
  /\ heap = "live"
  /\ session_mutex = Nobody
  /\ IF is_closed
       THEN cpc' = [cpc EXCEPT ![c] = "ret"] /\ UNCHANGED <<is_closed, session_mutex>>
       ELSE /\ cpc' = [cpc EXCEPT ![c] = "closeFd"]
            /\ is_closed' = TRUE
            /\ session_mutex' = c
  /\ UNCHANGED <<alive, ctor, javaVars, monitor, heap, ptm_fd, ptyVars,
                 callVars, rpc, wpc>>

nativeCloseFd(c) ==
  /\ alive
  /\ cpc[c] = "closeFd"
  /\ ptm_fd' = FALSE
  /\ hup' = TRUE
  /\ cpc' = [cpc EXCEPT ![c] = "join"]
  /\ UNCHANGED <<alive, ctor, javaVars, monitor, heap, is_closed, session_mutex,
                 child, toChild, toApp, callVars, rpc, wpc>>

\* Mutant: the reader thread is not joined.
nativeCloseDetach(c) ==
  /\ alive
  /\ cpc[c] = "join"
  /\ cpc' = [cpc EXCEPT ![c] = "free"]
  /\ UNCHANGED <<alive, ctor, javaVars, monitor, nativeVars, session_mutex,
                 ptyVars, callVars, rpc, wpc>>

\* pthread_join(read_thread), with session_mutex held.
nativeCloseJoin(c) ==
  /\ alive
  /\ cpc[c] = "join"
  /\ rpc = "done"
  /\ cpc' = [cpc EXCEPT ![c] = "free"]
  /\ UNCHANGED <<alive, ctor, javaVars, monitor, nativeVars, session_mutex,
                 ptyVars, callVars, rpc, wpc>>

nativeCloseFree(c) ==
  /\ alive
  /\ cpc[c] = "free"
  /\ heap' = "freed"
  /\ session_mutex' = Nobody
  /\ cpc' = [cpc EXCEPT ![c] = "ret"]
  /\ UNCHANGED <<alive, ctor, javaVars, monitor, is_closed, ptm_fd, ptyVars,
                 callVars, rpc, wpc>>

\* exitApp's thread ends the process after its close() has returned.
killProcess(c) ==
  /\ alive
  /\ c = ExitThread
  /\ cpc[c] = "ret"
  /\ alive' = FALSE
  /\ UNCHANGED <<ctor, javaVars, monitor, nativeVars, session_mutex, ptyVars,
                 callVars, cpc, rpc, wpc>>

CloserStep(c) ==
  \/ closeStop(c) \/ closeSwap(c) \/ nativeClose(c) \/ nativeCloseFd(c)
  \/ nativeCloseJoin(c) \/ nativeCloseFree(c) \/ killProcess(c)

-----------------------------------------------------------------------------
(***************************************************************************)
(* pty_read_loop, one action per point where another thread may interfere. *)
(***************************************************************************)
readerTop ==
  /\ alive
  /\ rpc = "top"
  /\ rpc' = IF is_closed \/ ~ptm_fd THEN "done" ELSE "poll"
  /\ UNCHANGED <<alive, ctor, javaVars, monitor, nativeVars, session_mutex,
                 ptyVars, callVars, cpc, wpc>>

\* poll() returned: closed, data, hangup without data, or the 200 ms timeout.
readerPoll ==
  /\ alive
  /\ rpc = "poll"
  /\ rpc' = IF is_closed \/ ~ptm_fd THEN "done"
            ELSE IF toApp > 0 THEN "read"
            ELSE IF child # "running" THEN "done"
            ELSE "top"
  /\ UNCHANGED <<alive, ctor, javaVars, monitor, nativeVars, session_mutex,
                 ptyVars, callVars, cpc, wpc>>

\* Mutant: read() is made on a descriptor number kept from before the close.
readerReadStaleFd ==
  /\ alive
  /\ rpc = "read"
  /\ toApp' = toApp - 1
  /\ rpc' = "lock"
  /\ UNCHANGED <<alive, ctor, javaVars, monitor, nativeVars, session_mutex,
                 child, hup, toChild, callVars, cpc, wpc>>

\* read() returns a chunk, or EBADF if nativeClose closed the fd meanwhile.
readerRead ==
  /\ alive
  /\ rpc = "read"
  /\ IF ptm_fd THEN toApp > 0 /\ toApp' = toApp - 1 /\ rpc' = "lock"
               ELSE UNCHANGED toApp /\ rpc' = "done"
  /\ UNCHANGED <<alive, ctor, javaVars, monitor, nativeVars, session_mutex,
                 child, hup, toChild, callVars, cpc, wpc>>

readerLock ==
  /\ alive
  /\ rpc = "lock"
  /\ session_mutex = Nobody
  /\ session_mutex' = Reader
  /\ rpc' = "vt"
  /\ UNCHANGED <<alive, ctor, javaVars, monitor, nativeVars, ptyVars, callVars,
                 cpc, wpc>>

\* ghostty_terminal_vt_write under the mutex; the VT core may call back
\* on_write_pty (a terminal report), which writes to the pty.
readerVt ==
  /\ alive
  /\ rpc = "vt"
  /\ \/ rpc' = "notify" /\ session_mutex' = Nobody
     \/ ~is_closed /\ rpc' = "reply" /\ UNCHANGED session_mutex
  /\ UNCHANGED <<alive, ctor, javaVars, monitor, nativeVars, ptyVars, callVars,
                 cpc, wpc>>

on_write_pty ==
  /\ alive
  /\ rpc = "reply"
  /\ \/ /\ ~is_closed /\ ptm_fd
        /\ toChild < PtyCap
        /\ toChild' = toChild + 1
     \/ (is_closed \/ ~ptm_fd) /\ UNCHANGED toChild
  /\ rpc' = "notify"
  /\ session_mutex' = Nobody
  /\ UNCHANGED <<alive, ctor, javaVars, monitor, nativeVars, child, hup, toApp,
                 callVars, cpc, wpc>>

\* The callback to Java, onDataAvailable, which only posts to the main looper.
readerNotify ==
  /\ alive
  /\ rpc = "notify"
  /\ rpc' = "top"
  /\ UNCHANGED <<alive, ctor, javaVars, monitor, nativeVars, session_mutex,
                 ptyVars, callVars, cpc, wpc>>

ReaderStep ==
  \/ readerTop \/ readerPoll \/ readerRead \/ readerLock
  \/ readerVt \/ on_write_pty \/ readerNotify

-----------------------------------------------------------------------------
(***************************************************************************)
(* The watcher thread: nativeWaitChild, then onSessionClosed.  sessionPtr  *)
(* is read without the monitor, twice.                                     *)
(***************************************************************************)
watcherCheck ==
  /\ alive
  /\ wpc = "check"
  /\ wpc' = IF sessionPtr THEN "call" ELSE "done"
  /\ UNCHANGED <<alive, ctor, javaVars, monitor, nativeVars, session_mutex,
                 ptyVars, callVars, cpc, rpc>>

\* A zero pointer makes nativeWaitChild return -1, decoded as exit code 255.
watcherCall ==
  /\ alive
  /\ wpc = "call"
  /\ IF sessionPtr THEN wpc' = "deref" /\ UNCHANGED exitCode
                   ELSE wpc' = "report" /\ exitCode' = "bogus"
  /\ UNCHANGED <<alive, ctor, isClosed, isRunning, sessionPtr, reported, monitor,
                 nativeVars, session_mutex, ptyVars, callVars, cpc, rpc>>

\* session->child_pid is read; on a freed session this is undefined behaviour.
watcherDeref ==
  /\ alive
  /\ wpc = "deref"
  /\ \/ heap = "live" /\ wpc' = "wait" /\ UNCHANGED alive
     \/ heap = "freed" /\ alive' \in BOOLEAN /\ wpc' = "done"
  /\ UNCHANGED <<ctor, javaVars, monitor, nativeVars, session_mutex, ptyVars,
                 callVars, cpc, rpc>>

\* waitpid returns once the child has exited, and reaps it.
nativeWaitChild ==
  /\ alive
  /\ wpc = "wait"
  /\ child = "zombie"
  /\ child' = "reaped"
  /\ exitCode' = "status"
  /\ wpc' = "report"
  /\ UNCHANGED <<alive, ctor, isClosed, isRunning, sessionPtr, reported, monitor,
                 nativeVars, session_mutex, hup, toChild, toApp, callVars, cpc, rpc>>

\* Mutant: isRunning.set(false) is forgotten.
onSessionClosedStillRunning ==
  /\ alive
  /\ wpc = "report"
  /\ reported' = TRUE
  /\ wpc' = "done"
  /\ UNCHANGED <<alive, ctor, isClosed, isRunning, sessionPtr, exitCode, monitor,
                 nativeVars, session_mutex, ptyVars, callVars, cpc, rpc>>

onSessionClosed ==
  /\ alive
  /\ wpc = "report"
  /\ isRunning' = FALSE
  /\ reported' = TRUE
  /\ wpc' = "done"
  /\ UNCHANGED <<alive, ctor, isClosed, sessionPtr, exitCode, monitor, nativeVars,
                 session_mutex, ptyVars, callVars, cpc, rpc>>

WatcherStep ==
  watcherCheck \/ watcherCall \/ watcherDeref \/ nativeWaitChild \/ onSessionClosed

-----------------------------------------------------------------------------
\* The child process (external): it reads, writes and exits as it likes.
ChildStep ==
  /\ alive
  /\ child = "running"
  /\ \/ toChild > 0 /\ toChild' = toChild - 1 /\ UNCHANGED <<child, toApp>>
     \/ toApp < PtyCap /\ ptm_fd /\ toApp' = toApp + 1 /\ UNCHANGED <<child, toChild>>
     \/ child' = "zombie" /\ UNCHANGED <<toChild, toApp>>
  /\ UNCHANGED <<alive, ctor, javaVars, monitor, nativeVars, session_mutex, hup,
                 callVars, cpc, rpc, wpc>>

Next ==
  \/ Constructor
  \/ \E t \in Callers : (\E k \in OpKinds : Enter(t, k)) \/ CallerStep(t)
  \/ \E c \in Closers : close(c) \/ CloserStep(c)
  \/ ReaderStep
  \/ WatcherStep
  \/ ChildStep

Spec == Init /\ [][Next]_vars

\* Every thread that can run eventually runs, and a lock that is released
\* again and again is eventually granted to each thread waiting for it.
\* Nothing is assumed of the user (Enter, close) or of the child.
Fairness ==
  /\ \A t \in Callers : SF_vars(CallerStep(t))
  /\ \A c \in Closers : SF_vars(CloserStep(c))
  /\ SF_vars(ReaderStep)
  /\ WF_vars(WatcherStep)
  /\ WF_vars(Constructor)

FairSpec == Spec /\ Fairness
-----------------------------------------------------------------------------
(***************************************************************************)
(* Properties.                                                             *)
(***************************************************************************)
\* Threads inside the native session's critical section.
InTerminal ==
  {t \in Callers : opc[t] = "body"}
    \cup {c \in Closers : cpc[c] \in {"closeFd", "join", "free"}}
    \cup {r \in {Reader} : rpc \in {"vt", "reply"}}

\* nativeClose deletes the session while no synchronized operation is inside
\* a native call, no other closer works on it, and the reader thread has ended:
\* what they dereference is allocated.  (getScreenState and the watcher's first
\* dereference are excluded: UseFreedSession and watcherDeref show they race.)
NoUseAfterFree ==
  /\ \A t \in Callers :
       opc[t] \in {"native", "lock", "body", "write"} /\ Synchronized(op[t])
         => heap = "live"
  /\ \A c \in Closers :
       cpc[c] \in {"nclose", "closeFd", "join", "free"} => heap = "live"
  /\ rpc \notin {"none", "done"} => heap = "live"

\* ghostty's terminal, encoders and render state are not thread safe: at most
\* one thread at a time uses them or frees them.
TerminalExclusive == \A x, y \in InTerminal : x = y

\* Nobody writes to the pty master after nativeClose closed it: the descriptor
\* number may already belong to another session's pty.
WritesReachOpenPty ==
  /\ \A t \in Callers : opc[t] \in {"body", "write"} /\ left[t] > 0 => ptm_fd
  /\ rpc = "reply" => ptm_fd

\* Once nativeClose has marked the session closed, no input reaches the child.
NoInputAfterClose == [][is_closed => toChild' <= toChild]_vars

\* A child that exits is noticed: isRunning() turns false, whatever close()
\* does meanwhile.
DeathNoticed == child = "zombie" ~> (~isRunning \/ ~alive)

\* nativeClose's pthread_join returns when the reader is anywhere but between
\* its read() and its lock of session_mutex.
JoinReturnsOutsideWindow ==
  \A c \in Closers :
    (cpc[c] = "join" /\ rpc # "lock") ~> (heap = "freed" \/ ~alive)

\* exitApp's promise: once the exit thread runs, the process terminates.
ExitTerminates == cpc[ExitThread] # "idle" ~> ~alive
=============================================================================
