-------------------------- MODULE MCTerminalSession --------------------------
(***************************************************************************)
(* Instances of TerminalSession for TLC: the sets of threads and the kinds *)
(* of operation of each run.                                               *)
(***************************************************************************)
EXTENDS TerminalSession

CONSTANTS ui, closer, exit

BothClosers  == {closer, exit}
OneCaller    == {ui}

\* One kind for each way through the locks: repeated calls and writes under
\* the mutex, a write without it, and the operation without the monitor.
LockingKinds == {"mouse", "key", "write", "screen"}

=============================================================================
