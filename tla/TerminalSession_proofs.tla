------------------------ MODULE TerminalSession_proofs ------------------------
(***************************************************************************)
(* Proofs about TerminalSession for any number of callers and closers, any *)
(* pty capacity and any paste length: type correctness, and the three      *)
(* safety invariants NoUseAfterFree, TerminalExclusive, WritesReachOpenPty *)
(* from the inductive invariant IInv.                                      *)
(***************************************************************************)
EXTENDS TerminalSession, TLAPS

\* Program counters of a closer that holds the only pointer to the session.
Owning == {"nclose", "closeFd", "join", "free"}
InClose == {"closeFd", "join", "free"}
InNative == {"native", "lock", "body", "write"}

\* A synchronized operation in progress owns the monitor.
MonitorInv ==
  \A t \in Callers : opc[t] # "idle" /\ Synchronized(op[t]) => monitor = t

\* Whoever is inside the native session owns session_mutex.
MutexInv ==
  /\ \A t \in Callers : opc[t] = "body" => session_mutex = t
  /\ \A c \in Closers : cpc[c] \in InClose => session_mutex = c
  /\ rpc \in {"vt", "reply"} => session_mutex = Reader

\* A synchronized operation inside a native call keeps sessionPtr non-zero.
PtrInv ==
  \A t \in Callers : opc[t] \in InNative /\ Synchronized(op[t]) => sessionPtr

\* While sessionPtr is non-zero nobody owns the session in order to close it.
OpenInv ==
  sessionPtr => /\ heap = "live" /\ ptm_fd /\ ~is_closed
                /\ \A c \in Closers : cpc[c] \notin Owning

\* The object escapes the constructor only when it is complete.
CtorInv ==
  /\ ctor # "done" => \A c \in Closers : cpc[c] = "idle"
  /\ ctor = "create" => ~is_closed /\ heap = "none" /\ rpc = "none"

\* At most one closer owns the session, and it owns a live one.
OwnerInv ==
  /\ \A c \in Closers : cpc[c] \in Owning => heap = "live"
  /\ \A c, d \in Closers : cpc[c] \in Owning /\ cpc[d] \in Owning => c = d

\* The reader is gone when the session is freed.
ReaderInv ==
  /\ \A c \in Closers : cpc[c] = "free" => rpc = "done"
  /\ rpc \notin {"none", "done"} => heap = "live"

\* From is_closed = true until the session is freed, the mutex is the closer's;
\* the descriptor is closed only in between.
ClosedInv ==
  /\ \A c \in Closers : cpc[c] \in InClose => is_closed
  /\ is_closed /\ heap # "freed" => session_mutex \in Closers
  /\ ~ptm_fd => is_closed \/ heap = "none"
  /\ heap = "freed" => is_closed

\* getScreenState writes nothing.
KindInv ==
  \A t \in Callers :
    /\ opc[t] = "write" => op[t] = "write"
    /\ op[t] = "screen" /\ opc[t] \in {"lock", "body"} => left[t] = 0

LockInv ==
  /\ MonitorInv /\ MutexInv /\ PtrInv /\ OpenInv /\ CtorInv
  /\ OwnerInv /\ ReaderInv /\ ClosedInv /\ KindInv

IInv == TypeOK /\ LockInv
-----------------------------------------------------------------------------

\* No operation makes more writes than the range of left allows.
LEMMA WritesRange ==
  ASSUME NEW k \in Kinds
  PROVE  Writes(k) \subseteq 0..(MaxWrites + 2)
  BY CapAssumption DEF Writes, Kinds

\* Every action keeps the flags Boolean.
LEMMA FlagsStep ==
  FlagsOK /\ [Next]_vars => FlagsOK'
<1> SUFFICES ASSUME FlagsOK, [Next]_vars PROVE FlagsOK'
  OBVIOUS
<1> USE DEF FlagsOK, javaVars, nativeVars, ptyVars, callVars
<1>1. CASE nativeCreateSession
  BY <1>1, Zenon DEF nativeCreateSession
<1>2. CASE nativeCreateFails
  BY <1>2, Zenon DEF nativeCreateFails
<1>3. CASE ctorSetRunning
  BY <1>3, Zenon DEF ctorSetRunning
<1>4. CASE startWatcherThread
  BY <1>4, Zenon DEF startWatcherThread
<1>5. ASSUME NEW t \in Callers, NEW k \in OpKinds, Enter(t, k) PROVE FlagsOK'
  BY <1>5, Zenon DEF Enter
<1>6. ASSUME NEW t \in Callers, CheckOpen(t) PROVE FlagsOK'
  BY <1>6, Zenon DEF CheckOpen, Return
<1>7. ASSUME NEW t \in Callers, NativeEntry(t) PROVE FlagsOK'
  BY <1>7, Zenon DEF NativeEntry, Return
<1>8. ASSUME NEW t \in Callers, LockMutex(t) PROVE FlagsOK'
  BY <1>8, Zenon DEF LockMutex
<1>9. ASSUME NEW t \in Callers, WriteChunk(t) PROVE FlagsOK'
  BY <1>9, Zenon DEF WriteChunk
<1>10. ASSUME NEW t \in Callers, Finish(t) PROVE FlagsOK'
  BY <1>10, Zenon DEF Finish, Return
<1>11. ASSUME NEW t \in Callers, UseFreedSession(t) PROVE FlagsOK'
  BY <1>11, Zenon DEF UseFreedSession, Return
<1>12. ASSUME NEW c \in Closers, close(c) PROVE FlagsOK'
  BY <1>12, Zenon DEF close
<1>13. ASSUME NEW c \in Closers, closeStop(c) PROVE FlagsOK'
  BY <1>13, Zenon DEF closeStop
<1>14. ASSUME NEW c \in Closers, closeSwap(c) PROVE FlagsOK'
  BY <1>14, Zenon DEF closeSwap
<1>15. ASSUME NEW c \in Closers, nativeClose(c) PROVE FlagsOK'
  BY <1>15, Zenon DEF nativeClose
<1>16. ASSUME NEW c \in Closers, nativeCloseFd(c) PROVE FlagsOK'
  BY <1>16, Zenon DEF nativeCloseFd
<1>17. ASSUME NEW c \in Closers, nativeCloseJoin(c) PROVE FlagsOK'
  BY <1>17, Zenon DEF nativeCloseJoin
<1>18. ASSUME NEW c \in Closers, nativeCloseFree(c) PROVE FlagsOK'
  BY <1>18, Zenon DEF nativeCloseFree
<1>19. ASSUME NEW c \in Closers, killProcess(c) PROVE FlagsOK'
  BY <1>19, Zenon DEF killProcess
<1>20. CASE readerTop
  BY <1>20, Zenon DEF readerTop
<1>21. CASE readerPoll
  BY <1>21, Zenon DEF readerPoll
<1>22. CASE readerRead
  BY <1>22, Zenon DEF readerRead
<1>23. CASE readerLock
  BY <1>23, Zenon DEF readerLock
<1>24. CASE readerVt
  BY <1>24, Zenon DEF readerVt
<1>25. CASE on_write_pty
  BY <1>25, Zenon DEF on_write_pty
<1>26. CASE readerNotify
  BY <1>26, Zenon DEF readerNotify
<1>27. CASE watcherCheck
  BY <1>27, Zenon DEF watcherCheck
<1>28. CASE watcherCall
  BY <1>28, Zenon DEF watcherCall
<1>29. CASE watcherDeref
  BY <1>29, Zenon DEF watcherDeref
<1>30. CASE nativeWaitChild
  BY <1>30, Zenon DEF nativeWaitChild
<1>31. CASE onSessionClosed
  BY <1>31, Zenon DEF onSessionClosed
<1>32. CASE ChildStep
  BY <1>32, Zenon DEF ChildStep
<1>33. CASE UNCHANGED vars
  BY <1>33, Zenon DEF vars
<1>34. QED
  BY <1>1, <1>2, <1>3, <1>4, <1>5, <1>6, <1>7, <1>8, <1>9, <1>10, <1>11,
     <1>12, <1>13, <1>14, <1>15, <1>16, <1>17, <1>18, <1>19, <1>20, <1>21, <1>22,
     <1>23, <1>24, <1>25, <1>26, <1>27, <1>28, <1>29, <1>30, <1>31, <1>32, <1>33
  DEF Next, Constructor, CallerStep, CloserStep, ReaderStep, WatcherStep

\* Every action keeps lock owners, counters and buffers in their ranges.
LEMMA StateStep ==
  StateOK /\ [Next]_vars => StateOK'
<1> SUFFICES ASSUME StateOK, [Next]_vars PROVE StateOK'
  OBVIOUS
<1> USE DEF StateOK, OpPc, CloserPc, ReaderPc, WatcherPc, javaVars, nativeVars, ptyVars, callVars
<1>1. CASE nativeCreateSession
  BY <1>1 DEF nativeCreateSession
<1>2. CASE nativeCreateFails
  BY <1>2 DEF nativeCreateFails
<1>3. CASE ctorSetRunning
  BY <1>3 DEF ctorSetRunning
<1>4. CASE startWatcherThread
  BY <1>4 DEF startWatcherThread
<1>5. ASSUME NEW t \in Callers, NEW k \in OpKinds, Enter(t, k) PROVE StateOK'
  BY <1>5, OpKindsAssumption DEF Enter, Synchronized
<1>6. ASSUME NEW t \in Callers, CheckOpen(t) PROVE StateOK'
  BY <1>6 DEF CheckOpen, Return
<1>7. ASSUME NEW t \in Callers, NativeEntry(t) PROVE StateOK'
  BY <1>7, WritesRange, CapAssumption DEF NativeEntry, Return
<1>8. ASSUME NEW t \in Callers, LockMutex(t) PROVE StateOK'
  BY <1>8 DEF LockMutex
<1>9. ASSUME NEW t \in Callers, WriteChunk(t) PROVE StateOK'
  BY <1>9, CapAssumption DEF WriteChunk
<1>10. ASSUME NEW t \in Callers, Finish(t) PROVE StateOK'
  BY <1>10 DEF Finish, Return
<1>11. ASSUME NEW t \in Callers, UseFreedSession(t) PROVE StateOK'
  BY <1>11 DEF UseFreedSession, Return
<1>12. ASSUME NEW c \in Closers, close(c) PROVE StateOK'
  BY <1>12 DEF close
<1>13. ASSUME NEW c \in Closers, closeStop(c) PROVE StateOK'
  BY <1>13 DEF closeStop
<1>14. ASSUME NEW c \in Closers, closeSwap(c) PROVE StateOK'
  BY <1>14 DEF closeSwap
<1>15. ASSUME NEW c \in Closers, nativeClose(c) PROVE StateOK'
  BY <1>15 DEF nativeClose
<1>16. ASSUME NEW c \in Closers, nativeCloseFd(c) PROVE StateOK'
  BY <1>16 DEF nativeCloseFd
<1>17. ASSUME NEW c \in Closers, nativeCloseJoin(c) PROVE StateOK'
  BY <1>17 DEF nativeCloseJoin
<1>18. ASSUME NEW c \in Closers, nativeCloseFree(c) PROVE StateOK'
  BY <1>18 DEF nativeCloseFree
<1>19. ASSUME NEW c \in Closers, killProcess(c) PROVE StateOK'
  BY <1>19 DEF killProcess
<1>20. CASE readerTop
  BY <1>20 DEF readerTop
<1>21. CASE readerPoll
  BY <1>21 DEF readerPoll
<1>22. CASE readerRead
  BY <1>22, CapAssumption DEF readerRead
<1>23. CASE readerLock
  BY <1>23 DEF readerLock
<1>24. CASE readerVt
  BY <1>24 DEF readerVt
<1>25. CASE on_write_pty
  BY <1>25, CapAssumption DEF on_write_pty
<1>26. CASE readerNotify
  BY <1>26 DEF readerNotify
<1>27. CASE watcherCheck
  BY <1>27 DEF watcherCheck
<1>28. CASE watcherCall
  BY <1>28 DEF watcherCall
<1>29. CASE watcherDeref
  <2>1. wpc' \in {"wait", "done"}
    BY <1>29, Zenon DEF watcherDeref
  <2>2. UNCHANGED <<ctor, exitCode, monitor, heap, session_mutex, child, toChild,
                    toApp, opc, op, left, cpc, rpc>>
    BY <1>29, Zenon DEF watcherDeref
  <2>3. QED
    BY <2>1, <2>2
<1>30. CASE nativeWaitChild
  BY <1>30 DEF nativeWaitChild
<1>31. CASE onSessionClosed
  BY <1>31 DEF onSessionClosed
<1>32. CASE ChildStep
  BY <1>32, CapAssumption DEF ChildStep
<1>33. CASE UNCHANGED vars
  BY <1>33 DEF vars
<1>34. QED
  BY <1>1, <1>2, <1>3, <1>4, <1>5, <1>6, <1>7, <1>8, <1>9, <1>10, <1>11,
     <1>12, <1>13, <1>14, <1>15, <1>16, <1>17, <1>18, <1>19, <1>20, <1>21, <1>22,
     <1>23, <1>24, <1>25, <1>26, <1>27, <1>28, <1>29, <1>30, <1>31, <1>32, <1>33
  DEF Next, Constructor, CallerStep, CloserStep, ReaderStep, WatcherStep

\* Every action preserves the locking invariant.
LEMMA LockStep ==
  IInv /\ [Next]_vars => LockInv'
<1> SUFFICES ASSUME IInv, [Next]_vars PROVE LockInv'
  OBVIOUS
<1> USE DEF IInv, TypeOK, FlagsOK, StateOK, LockInv,
           MonitorInv, MutexInv, PtrInv, OpenInv, CtorInv, OwnerInv, ReaderInv,
           ClosedInv, KindInv, Owning, InClose, InNative, Synchronized,
           Nobody, Reader, OpPc, CloserPc, ReaderPc,
           javaVars, nativeVars, ptyVars, callVars
<1>1. CASE nativeCreateSession
  BY <1>1, ThreadAssumption DEF nativeCreateSession
<1>2. CASE nativeCreateFails
  BY <1>2, ThreadAssumption DEF nativeCreateFails
<1>3. CASE ctorSetRunning
  BY <1>3, ThreadAssumption DEF ctorSetRunning
<1>4. CASE startWatcherThread
  BY <1>4, ThreadAssumption DEF startWatcherThread
<1>5. ASSUME NEW t \in Callers, NEW k \in OpKinds, Enter(t, k) PROVE LockInv'
  BY <1>5, ThreadAssumption DEF Enter
<1>6. ASSUME NEW t \in Callers, CheckOpen(t) PROVE LockInv'
  BY <1>6, ThreadAssumption DEF CheckOpen, Return
<1>7. ASSUME NEW t \in Callers, NativeEntry(t) PROVE LockInv'
  BY <1>7, ThreadAssumption DEF NativeEntry, Return, Writes
<1>8. ASSUME NEW t \in Callers, LockMutex(t) PROVE LockInv'
  BY <1>8, ThreadAssumption DEF LockMutex
<1>9. ASSUME NEW t \in Callers, WriteChunk(t) PROVE LockInv'
  BY <1>9, ThreadAssumption DEF WriteChunk
<1>10. ASSUME NEW t \in Callers, Finish(t) PROVE LockInv'
  BY <1>10, ThreadAssumption DEF Finish, Return
<1>11. ASSUME NEW t \in Callers, UseFreedSession(t) PROVE LockInv'
  BY <1>11, ThreadAssumption DEF UseFreedSession, Return
<1>12. ASSUME NEW c \in Closers, close(c) PROVE LockInv'
  BY <1>12, ThreadAssumption DEF close
<1>13. ASSUME NEW c \in Closers, closeStop(c) PROVE LockInv'
  BY <1>13, ThreadAssumption DEF closeStop
<1>14. ASSUME NEW c \in Closers, closeSwap(c) PROVE LockInv'
  BY <1>14, ThreadAssumption DEF closeSwap
<1>15. ASSUME NEW c \in Closers, nativeClose(c) PROVE LockInv'
  BY <1>15, ThreadAssumption DEF nativeClose
<1>16. ASSUME NEW c \in Closers, nativeCloseFd(c) PROVE LockInv'
  BY <1>16, ThreadAssumption DEF nativeCloseFd
<1>17. ASSUME NEW c \in Closers, nativeCloseJoin(c) PROVE LockInv'
  BY <1>17, ThreadAssumption DEF nativeCloseJoin
<1>18. ASSUME NEW c \in Closers, nativeCloseFree(c) PROVE LockInv'
  BY <1>18, ThreadAssumption DEF nativeCloseFree
<1>19. ASSUME NEW c \in Closers, killProcess(c) PROVE LockInv'
  BY <1>19, ThreadAssumption DEF killProcess
<1>20. CASE readerTop
  BY <1>20, ThreadAssumption DEF readerTop
<1>21. CASE readerPoll
  BY <1>21, ThreadAssumption DEF readerPoll
<1>22. CASE readerRead
  BY <1>22, ThreadAssumption DEF readerRead
<1>23. CASE readerLock
  BY <1>23, ThreadAssumption DEF readerLock
<1>24. CASE readerVt
  BY <1>24, ThreadAssumption DEF readerVt
<1>25. CASE on_write_pty
  BY <1>25, ThreadAssumption DEF on_write_pty
<1>26. CASE readerNotify
  BY <1>26, ThreadAssumption DEF readerNotify
<1>27. CASE watcherCheck
  BY <1>27, ThreadAssumption DEF watcherCheck
<1>28. CASE watcherCall
  BY <1>28, ThreadAssumption DEF watcherCall
<1>29. CASE watcherDeref
  BY <1>29, ThreadAssumption DEF watcherDeref
<1>30. CASE nativeWaitChild
  BY <1>30, ThreadAssumption DEF nativeWaitChild
<1>31. CASE onSessionClosed
  BY <1>31, ThreadAssumption DEF onSessionClosed
<1>32. CASE ChildStep
  BY <1>32, ThreadAssumption DEF ChildStep
<1>33. CASE UNCHANGED vars
  BY <1>33, ThreadAssumption DEF vars
<1>34. QED
  BY <1>1, <1>2, <1>3, <1>4, <1>5, <1>6, <1>7, <1>8, <1>9, <1>10, <1>11,
     <1>12, <1>13, <1>14, <1>15, <1>16, <1>17, <1>18, <1>19, <1>20, <1>21, <1>22,
     <1>23, <1>24, <1>25, <1>26, <1>27, <1>28, <1>29, <1>30, <1>31, <1>32, <1>33
  DEF Next, Constructor, CallerStep, CloserStep, ReaderStep, WatcherStep

\* The initial state: no session, every thread at rest.
LEMMA InitInv == Init => IInv
<1> SUFFICES ASSUME Init PROVE IInv
  OBVIOUS
<1>1. FlagsOK
  BY Zenon DEF Init, FlagsOK
<1>2. StateOK
  BY CapAssumption DEF Init, StateOK, Kinds, OpPc, CloserPc, ReaderPc, WatcherPc
<1>3. LockInv
  BY DEF Init, LockInv, MonitorInv, MutexInv, PtrInv, OpenInv, CtorInv, OwnerInv,
         ReaderInv, ClosedInv, KindInv, Owning, InClose, InNative
<1>4. QED
  BY <1>1, <1>2, <1>3 DEF IInv, TypeOK

\* Type correctness of the session model (TerminalSession.java,
\* ghostty_jni.cpp) for any number of threads and any pty capacity.
THEOREM TypeCorrect == Spec => []TypeOK
<1>1. Init => TypeOK
  BY InitInv DEF IInv
<1>2. TypeOK /\ [Next]_vars => TypeOK'
  BY FlagsStep, StateStep DEF TypeOK
<1>3. QED
  BY <1>1, <1>2, PTL DEF Spec

\* The locking discipline between TerminalSession's monitor, session_mutex,
\* close() and the reader is an inductive invariant.
THEOREM Inductive == Spec => []IInv
<1>1. IInv /\ [Next]_vars => IInv'
  BY FlagsStep, StateStep, LockStep DEF IInv, TypeOK
<1>2. QED
  BY InitInv, <1>1, PTL DEF Spec

\* nativeClose never frees the session under a synchronized operation, under
\* another closer or under the reader thread.
THEOREM MemorySafety == Spec => []NoUseAfterFree
<1>1. IInv => NoUseAfterFree
  BY DEF IInv, LockInv, PtrInv, OpenInv, OwnerInv, ReaderInv, NoUseAfterFree,
         Owning, InNative
<1>2. QED
  BY Inductive, <1>1, PTL

\* At most one thread at a time uses or frees the ghostty terminal.
THEOREM Exclusion == Spec => []TerminalExclusive
<1>1. IInv => TerminalExclusive
  BY ThreadAssumption
  DEF IInv, LockInv, MutexInv, TerminalExclusive, InTerminal, InClose, Reader
<1>2. QED
  BY Inductive, <1>1, PTL

\* Nobody writes to the pty master after nativeClose has closed it.
THEOREM DescriptorSafety == Spec => []WritesReachOpenPty
<1>1. IInv => WritesReachOpenPty
  <2> SUFFICES ASSUME IInv PROVE WritesReachOpenPty
    OBVIOUS
  <2> USE DEF IInv, LockInv
  <2>1. ASSUME NEW t \in Callers, opc[t] \in {"body", "write"}, left[t] > 0
        PROVE  ptm_fd
    <3>1. Synchronized(op[t])
      BY <2>1 DEF KindInv, Synchronized, TypeOK, StateOK, Kinds
    <3>2. QED
      BY <2>1, <3>1 DEF PtrInv, OpenInv, InNative
  <2>2. ASSUME rpc = "reply" PROVE ptm_fd
    <3>1. session_mutex \notin Closers
      BY <2>2, ThreadAssumption DEF MutexInv, Reader
    <3>2. heap = "live"
      BY <2>2 DEF ReaderInv
    <3>3. QED
      BY <3>1, <3>2 DEF ClosedInv
  <2>3. QED
    BY <2>1, <2>2 DEF WritesReachOpenPty
<1>2. QED
  BY Inductive, <1>1, PTL

\* After nativeClose has set is_closed, no step adds input for the child.
THEOREM InputStops == Spec => NoInputAfterClose
<1>1. IInv /\ [Next]_vars => [is_closed => toChild' <= toChild]_vars
  <2> SUFFICES ASSUME IInv, [Next]_vars, is_closed PROVE toChild' <= toChild
    OBVIOUS
  <2> USE DEF javaVars, nativeVars, ptyVars, callVars
  <2>0. toChild \in Nat
    BY CapAssumption DEF IInv, TypeOK, StateOK
  <2>1. ASSUME Constructor PROVE toChild' = toChild
    BY <2>1, Zenon DEF Constructor, nativeCreateSession, nativeCreateFails,
                       ctorSetRunning, startWatcherThread
  <2>2. ASSUME NEW t \in Callers, NEW k \in OpKinds, Enter(t, k)
        PROVE  toChild' = toChild
    BY <2>2, Zenon DEF Enter
  <2>3. ASSUME NEW t \in Callers, WriteChunk(t) PROVE FALSE
    <3>1. Synchronized(op[t])
      BY <2>3 DEF WriteChunk, IInv, LockInv, KindInv, Synchronized, TypeOK, StateOK
    <3>2. sessionPtr
      BY <2>3, <3>1 DEF WriteChunk, IInv, LockInv, PtrInv, InNative
    <3>3. QED
      BY <3>2 DEF IInv, LockInv, OpenInv
  <2>4. ASSUME NEW t \in Callers, CallerStep(t) PROVE toChild' = toChild
    BY <2>3, <2>4, Zenon DEF CallerStep, CheckOpen, NativeEntry, LockMutex, Finish,
                             UseFreedSession
  <2>5. ASSUME NEW c \in Closers, close(c) \/ CloserStep(c) PROVE toChild' = toChild
    BY <2>5, Zenon DEF close, CloserStep, closeStop, closeSwap, nativeClose,
                       nativeCloseFd, nativeCloseJoin, nativeCloseFree, killProcess
  <2>6. ASSUME ReaderStep PROVE toChild' = toChild
    BY <2>6, Zenon DEF ReaderStep, readerTop, readerPoll, readerRead, readerLock,
                       readerVt, on_write_pty, readerNotify
  <2>7. ASSUME WatcherStep PROVE toChild' = toChild
    BY <2>7, Zenon DEF WatcherStep, watcherCheck, watcherCall, watcherDeref,
                       nativeWaitChild, onSessionClosed
  <2>8. ASSUME ChildStep PROVE toChild' <= toChild
    BY <2>0, <2>8 DEF ChildStep
  <2>9. ASSUME UNCHANGED vars PROVE toChild' = toChild
    BY <2>9, Zenon DEF vars
  <2>10. toChild' = toChild \/ toChild' <= toChild
    BY <2>1, <2>2, <2>4, <2>5, <2>6, <2>7, <2>8, <2>9, Zenon DEF Next
  <2>11. QED
    BY <2>0, <2>10
<1>2. QED
  BY Inductive, <1>1, PTL DEF Spec, NoInputAfterClose

=============================================================================
