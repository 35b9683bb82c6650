# A TLA+ verification of tinyhack-ssh

tinyhack-ssh is an Android terminal and SSH client with a vendored mosh.  This
directory holds TLA+ models of its own core (sessions, session list, agent,
notifications, frames, scrollback) and of the mosh it ships (terminal, transport,
datagrams, cipher, local echo, client, server, launcher), TLC configurations that
check them on small instances, and TLAPS proofs.  Paths are relative to the
repository; `J/` stands for `app/src/main/java/com/tinyhack/ssh/`, `JNI` for
`app/src/main/cpp/ghostty_jni.cpp` and `M/` for `mosh/src/`.

## 1. The system: components, state, interaction

**Terminal session** (`J/session/TerminalSession.java`, `JNI`).  A Java object
with `isClosed`, `isRunning`, `sessionPtr`; behind the pointer a `NativeSession`
with the pty master, the child's pid, `is_closed`, a `session_mutex` and the
ghostty terminal.  Threads: callers (UI, debug HTTP), the native reader
(`pty_read_loop`), the Java watcher (`nativeWaitChild`), and any thread that calls
`close()`.  *Hard*: two locks taken partially (`getScreenState` and the watcher
take no monitor), `pthread_join` with the mutex held, blocking writes into a full
pty.  *Correct when*: nothing uses the freed native session, one thread at a time
is in the terminal, nobody writes into a closed descriptor, the death of the
child is noticed, closing and exiting end.

**Session list** (`J/service/TerminalService.java`), **activity and view**
(`J/MainActivity.java`, `J/view/TerminalView.java`), **debug HTTP server**
(`J/debug/DebugHttpServer.java`, debug builds only).  The list, its index, the
listeners, the "stay connected" preference, the foreground notification; the
session on screen and its listener slot.  *Hard*: handlers that make several
service calls, interleaved with HTTP requests and with posted call-backs that
are stale when they run.  *Correct when*: the index names a session, no session is
lost, what is on screen is live and owns its slot, the notification is up
exactly when it should be.

**SSH agent** (`J/ssh/SshAgentServer.java`, `SshAgentManager.java`,
`BiometricAuthActivity.java`).  Accept thread, one worker per client, keys, lock
flag, pending biometric requests, saved signature counters; the manager starts,
stops, locks and loads keys.  *Hard*: a request waits up to 180 s for a
fingerprint that may come late, never, or for another request; threads that
outlive stop.  *Correct when*: one fingerprint lets out one signature,
counters never repeat, every request is answered, the client count is exact.

**Kitty (OSC 99) notifications** (`J/util/KittyNotificationManager.java` and the
queue in `TerminalSession.onKittyNotification`).  Assemblies of chunked requests,
shown entries with tokens, rate windows, timers.  *Hard*: limits, ages,
replacement, the end of a session racing with queued requests, dismissals and
timers.  *Correct when*: limits hold, each closing is reported once, nothing late
or rejected is shown, nothing outlives its session.

**Frame and scrollback** (`JNI`, `J/terminal/RenderFrame.java`,
`J/view/TerminalView.java`).  The arrays a frame is copied into, the cache of
picture bitmaps, the viewport, the selection, prompt marks.  *Hard*: output
between the native calls of one handler, a cache smaller than what is visible,
coordinates that scroll away.  *Correct when*: the frame shows the screen, no
bitmap leaks or is another picture's, a pinned viewport keeps its rows.

**mosh terminal** (`M/terminal`).  Framebuffer, emulator, byte parser, and
`Display::new_frame`, which writes the difference of two screens.  *Hard*: the
difference relies on what the copy is believed to look like after any history.
*Correct when*: drawing it on the old screen gives the new one.

**mosh transport** (`M/network/transport*`, `M/statesync`, the loops of
`stmclient.cc` and `mosh-server.cc`).  Numbered states, differences,
acknowledgements, throw-away numbers, shutdown.  *Hard*: loss, repetition and
reordering, everybody ending at once.  *Correct when*: each side's copy is a state
the other had, in order, input is delivered once, an acknowledged shutdown loses
nothing.

**mosh datagrams** (`M/network/network.cc`, `transportfragment.cc`,
`M/crypto/crypto.cc`), **cipher** (`M/crypto/ocb_*.cc`, `base64.cc`), **local echo**
(`M/frontend/terminaloverlay.cc`), **client** (`stmclient.cc`,
`M/util/select.h`), **launcher and server start** (`mosh-launcher.cc`,
`mosh-server.cc`).  *Correct when*: what is assembled was sent, nonces never
repeat, the server follows the newest address, round-trip samples survive the
wrap of the timestamps, the cipher is OCB, predictions end and passwords stay
hidden, the bar tells the truth, the terminal is restored, no signal is lost,
no shell without client, no ssh left behind, a silent server ends, the record
of the terminal is honest.

Interaction: the service owns the sessions; the activity shows one of them
through a listener slot; a session's threads post to the main looper; the HTTP
server calls the service from outside it; the agent meets the sessions only as
their programs' server.  A session's program may be `mosh-launcher`, which runs ssh
and then mosh-client; client and server meet only in datagrams.

## 2. Modules and how they correspond to the code

| module | models | one action per |
|---|---|---|
| `TerminalSession` | session, native session, reader, watcher, close, exit | step of a thread between two synchronisation points |
| `SessionService` | list, activity, view, notification, HTTP | service method, or part of a handler between two service calls |
| `SshAgent` | agent server, manager, biometric gate | step of accept thread, worker, prompt, manager |
| `KittyNotifications` | OSC 99 manager and queue | message, timer, intent, end of a session |
| `TerminalFrame` | render frame, picture cache | native call, `onDraw` |
| `TerminalHistory` | scrollback, viewport, selection, prompts | native call of a handler |
| `MoshFramebuffer`, `MoshEmulator`, `MoshDisplay` | cells, functions of the dispatch tables, differences | (operators) |
| `MoshTerminal` | server's terminal and client's copy | function of the host, resize, frame |
| `MoshParser` | UTF-8, X3.64 machine, dispatcher, user input | byte |
| `MoshTransport` | sender and receiver of numbered states | (operators) |
| `MoshSession` | client and server loops over a lossy network | turn of a loop, event of the environment |
| `MoshSync` | what a session promises (abstract) | typing, delivery, screen, display |
| `MoshConnection` | fragments, nonces, timestamps, roaming, ports | send, receive, tick, fault |
| `MoshCipher` | OCB of the library against its definition, keys | call of the library |
| `MoshPrediction` | local echo | key, frame, state, display |
| `MoshClient` | client around its transport | turn of the loop, byte, signal |
| `MoshStartup` | launcher, ssh, server before and after its loop, child | step of a process |
| `*_proofs` | theorems about the module they are named after | |

`MC*` modules hold the sets for TLC and put components that share no state side
by side: the variable `part` says which of them a behaviour exercises, so that the
state space is the sum of the parts and never their product.  No behaviour of a
part is lost by this because no part reads another's variables.

Definitions keep the source's names where they model a function
(`nativeCloseJoin`, `removeSession`, `awaitBiometricAuth`, `send_in_fragments`).
Operators whose comment says what is wrong with them are plausible bugs;
`PROJECT.json` pairs each with the property that detects it.  They are not part of
any specification.

Abstractions.  Bytes of a pty are chunks that fill a capacity; a native
operation is one of seven kinds, by its locks and whether it writes; text
of notifications is a bit "the decoder accepts it"; a cell of a frame is its
character; a screen in `MoshSession` is a version number (what its difference does
is `MoshTerminal`'s matter); a datagram in `MoshConnection` is intact or damaged
(what decides that is `MoshCipher`'s); time is a tick or an age.  Undefined
behaviour (a freed session used by `getScreenState` or by the watcher, a deleted
bitmap reference, a write behind the end of an array) is a free choice or a state
of its own.

Four places where the code keeps two things that a shorter model would make one:

- `TerminalFrame` has the size Java asked for (`asked`), by which the arrays of the
  frame are made, and the emulator's own (`screen`), by which `nativeUpdateRender`
  fills them.  They differ when `ghostty_terminal_resize` refuses (its result is
  ignored) or the program changes the columns (DEC mode 3); the history variable
  `apart` records it.
- `MoshDisplay.osc8` is an OSC and, with its terminator ESC backslash, a control of
  its own, which `MoshEmulator.clearsWrap` lets clear the pending wrap; `MoshParser`
  reads the same bytes as these two commands.
- `MoshClient.escapeKey` has the key and its pass key: a printable
  `MOSH_ESCAPE_KEY` is its own pass key, typed twice it is sent once.
- `SshAgent`: a timeout only posts `finish()` of the prompt, so a dismissed prompt
  may still be answered; `SessionService`: `setupSession` tests the list and creates
  a session in two steps; `MoshStartup`: ssh runs before `fdopen` may fail.

`MoshCipher` is checked in several calls over one context as well (`EncryptPart`,
`DecryptPart`): mosh itself seals and opens in one call with `AE_FINALIZE`, the
parts are what `ae.h` promises of the library it carries.

## 3. Runs

`CHECK_DEADLOCK FALSE` appears in every cfg: processes may be killed, everything may
have ended, and the bounds stop the models.

**`session_life`** - one caller, a closer and the exit thread, with fairness:
`TypeOK`, `NoUseAfterFree`, `TerminalExclusive`, `WritesReachOpenPty`,
`NoInputAfterClose`, `DeathNoticed`, and `JoinReturnsOutsideWindow` (the join in
`nativeClose` returns unless the reader stands between its `read` and its lock).
Capacity 1 makes full and empty adjacent, so that every write can block; the four
kinds of operation take every way through the two locks; two closers contend
for the swap of `sessionPtr`.  One caller is enough because the safety properties
are proved for any number.

**`session_exit`** (violated) - `ExitTerminates`: the reader that has read a chunk
and waits for `session_mutex` is joined by the thread that holds it.

**`app_parts`** - the list with three sessions, or two and an HTTP thread:
`ListConsistent`, `ViewConsistent`.  Three sessions cover first, middle and last
positions.  Notifications under four settings (limits, assemblies,
endings, rate): `KittyLimits`, `NothingStaleShown`, `EndsOnce`; of the rate `KittyLimits`
says what the fixed window gives, fewer than twice the limit in any window.  Frames of two
sizes, refused and changed ones, three
shapes of picture, a cache of one: `FrameSound`, which excludes an overrun of the
arrays as long as the emulator has the size Java asked for.  Six rows and a viewport of two:
`HistorySound`, `ViewportKept`.  What is copied is the rows of output between the
last two prompts; where there are none the fallback takes every row of the range.

**`service_current`** (violated) - `OnScreenIsCurrent`: removing a session in front
of the current one shifts the list under `currentSessionIndex`.

**`agent_threads`** - two clients at one security key, a stop and start with two
accept threads, and one client with fairness: `OneTouchOneSignature`,
`CounterNeverReused`, `AgentBounded`, `RequestAnswered`.  Two requests let a late answer
meet another's wait; two attempts give one retry (the code makes five).

**`agent_locked_sign`** (violated) - `NoSignatureWhileLocked`: the lock flag is
not tested again after the wait for the fingerprint.

**`mosh_terminal`** - every four functions of 34 on screens of 3x2 and 2x2, with
frames anywhere between: `ScreensAgree`, `FrameCarries`; every sequence of 14 bytes that
select the classes of the state machine: `ParserSound`.  Three columns hold a wide
character beside a narrow one and one that does not fit.

**`mosh_roundtrip`** (violated) - `RoundTrip`: a frame that ends in the last
column leaves the copy's cursor one column to the left.  `FrameCarries` leaves
out that cursor and the screens of the second round-trip failure (`linkAcrossWrap`,
section 4), and claims all others.

**`mosh_session`** - session: `StatesAgree`, `LastStateArrives`, `SyncSpec` in eight
scenarios, each with one concern (retransmission, crossing, the ways to end,
reordering); client: `MessagesHonest`, `TerminalSafe`, `SignalActedOn`, `TypedIsSent`
for four uses; start-up: `ShellOnlyForClient`, `SshReaped`, `SilentServerEnds`,
`UtmpHonest` in five environments.

**`mosh_connection`** - connection: `FragmentsWhole`, `NonceNeverRepeats`,
`AddressesRight`, `SampleHonest` in eight settings; timestamps wrap at 9, sequence
numbers at 12, so both are met; cipher: `CipherAsReference` on blocks of four bits
with texts below, at and above one group of blocks; local echo: `PredictionsEnd`,
`PasswordHidden` in eight settings.

**`frame_bitmaps`** (violated) - `DrawnBitmapAlive`: the pass that adds a third
picture deletes a reference it has collected.  **`selection_drag`** (violated) -
`DragKeepsOtherEnd`: a handle dragged past the edge, where the view scrolls three
rows at a time, loses the other end.

Fairness.  `session_life`: strong fairness for callers, closers and the reader,
because the monitor and the mutex are released and taken again and the operating
system serves a waiter eventually; weak fairness for the watcher and the
constructor, which wait for no lock.  `agent_threads`: weak fairness of workers
and manager threads, which are ready threads; the prompt and its user owe
nothing, the wait has its own timeout.  The user, the child and the network
owe nothing anywhere.  The mosh loops are checked without fairness: what must
happen in time there is stated as a bound on ages (`SilentServerEnds`,
`MessagesHonest`), which is stronger than "eventually"; that a session over a
network that loses may never get anything across is a fact, not a defect.

## 4. What the runs found

The six violated runs are listed with their source lines under "findings" in
`PROJECT.json`.  Three more places where the code is not what a document or a comment of the
repository says, kept out of the runs and stated as they are in the properties
named:

- `src/README.md:57` says "10 posts per 10 seconds per session".  The window of
  `KittyNotificationManager.show` begins at a post and is fixed (lines 268-271), so
  posts late in one window and early in the next make more than 10 within ten
  seconds.  `KittyLimits` holds with fewer than 20, and the fourth setting of
  `app_parts` has spans of a window's length with three posts at a rate of two.
- `src/README.md:69` says that *Copy last output* "copies only the last command's
  output without the prompt or command".  When no row between the last two prompts
  is marked as output, the fallback (`JNI` 2041-2072) formats all rows of the range:
  after prompt, blank row, continuation row, prompt it copies the continuation row.
  `LastOutputRight` says which rows these are.
- `M/network/transportsender-impl.h:159` verifies that a difference "has round-trip
  identity".  `put_row` draws the first cell of a row that was wrapped into without
  moving the cursor (`terminaldisplay.cc:338-346`) and changes the hyperlink just
  before; `osc8()` ends with ESC backslash (`terminalframebuffer.cc:631`), which the
  receiver dispatches as an unknown control that clears `next_print_will_wrap`
  (`terminaldispatcher.cc:229-231`): the cell overwrites the last column of the row
  above.  On a screen two columns wide it takes two letters, a hyperlink, a letter
  and a frame.

Further behaviour the models reach, for which nothing in the
repository promises otherwise and no run is kept:

- *Session*: `getScreenState` and the watcher can use a freed native session.
- *List, debug builds*: `setStayConnectedEnabled` tests the list without the lock
  and an HTTP thread removes the last session before `startForeground`;
  `setupSession` sees a session that a request closes before `get(0)`; a posted
  attach shows a removed session.  `ViewConsistent` claims these parts for
  release builds only.
- *Agent*: `setLocked` and `startAgent` write the preference and the flag in two
  steps that can cross and leave an agent shown as locked and open; the
  autoload thread starts an agent that was stopped before it ran; the accept
  loop can dereference a socket that stop has set to null.
- *Notifications*: "cleared when it closes" is cleared when the ended session is
  removed, because the watcher posts the cleanup before it clears `isRunning`.
- *Frame*: while a program synchronizes its output a resize changes the arrays
  of the frame and not their contents; `FrameSound` excepts that moment.  Once the
  emulator's size is not the one Java asked for, `nativeUpdateRender` can write
  behind the arrays; `FrameSound` claims the sizes only before that.
- *mosh datagrams*: a datagram delayed by more than half the span of the
  timestamps (65 s) gives a wrong sample; the proof names this as an assumption.
- *mosh client*: a failed `ioctl` ends in a null `network`; signals before
  `main_init` kill it with a raw terminal; the permanent exit notice is overwritten
  by a send error; the clock is stale for the rest of a turn after a suspension.
- *mosh start-up*: `MOSH_SERVER_NETWORK_TMOUT` "12abc" is said to be ignored and is
  kept; stray unauthentic datagrams postpone the end after 60 s; `LANG=C`, or only
  `LANGUAGE`, passes no UTF-8 locale on; the ssh held for agent forwarding ends
  after 24 h although its comment says the lifetime of the session; a server
  killed with SIGKILL may let its child start a shell.
- *Local echo*: with a program slower than the echo timeout the late echo of
  one line confirms a guess for the next, which may be a password;
  `PasswordHidden` and its comment leave such programs out.

## 5. Proofs

Eight modules hold theorems.  None of the properties is inductive by itself; each
module states a stronger invariant as a conjunction of named parts, proves that the
initial states satisfy it and that each action preserves it, one step per
action, and derives the properties.

**`TerminalSession_proofs`** - for any callers, closers, pty capacity and number
of writes: `TypeCorrect`, `MemorySafety`, `Exclusion`, `DescriptorSafety`,
`InputStops`.  The invariant says who owns which lock, that `sessionPtr` is set only
while the native session is live, that an operation past the check under the
monitor keeps the session open, that at most one closer is past the swap of
`sessionPtr`, and that the reader exists only before the join has returned.

**`SessionService_proofs`** - for any sessions, HTTP threads and bound on
posted call-backs: `ListStaysConsistent`, `ViewStaysConsistent`.  A step changes the
list in one of five ways and the screen in one of four; these are the
lemmas.  `ServiceInv` adds where the references that threads keep between two calls
come from (created sessions), in which places of a handler a listed session on
screen may have no listener, and, for a release build, what each place of the UI
thread knows of the list.  Without `RefsOK` a posted attach could name anything;
without the places of `SlotOK` the slot property fails in the middle of a switch.

**`SshAgent_proofs`** - for any clients, accept threads, managers, keys and limits:
`OneFingerprintOneSignature`, `CounterRises`, `AgentStaysBounded`.  `AgentInv` counts the
clients as the sum of the busy workers and of the accept threads that have met
one; says that requests are numbered without gaps and each belongs to one worker;
and that a counter taken by a worker and not signed with yet is held by nobody
else and in no signature - which is what
`synchronized` on `nextSecurityKeyCounter` has to give.  A prompt that is dismissed
and not finished yet answers a request that nobody waits for any more.

**`MoshStartup_proofs`** - for every value of the timeouts and every environment:
`NoShellWithoutClient`, `LauncherLeavesNoSsh`, `SilenceEndsServer`, `RecordIsHonest`.  The
bounds on ages are not inductive because an age grows while the server sleeps:
the invariant bounds the age *plus what is left of the sleep*.  Assumed:
`ASSOCIATION >= UTMP_LATE + HEARTBEAT` (40 s against 30 s and 3 s in the code).

**`MoshClient_proofs`** - for every value of the timeouts: `BarIsHonest`,
`TerminalStaysSafe`, `SignalNeverLost`, `TypedAlwaysSent`.  The invariant `LoopInv` says that the bar is what the
engine knew at the last turn, that the timeout of the present wait is no longer
than the engine's, and that the clock is behind by what was waited unless the
client was stopped.  Assumed: the order of the timeouts that the code has
(`ERROR_TIME > CLIENT_WAKE`, `REPLY_LATE` and `CONNECT_TIMEOUT` below
`LONG_SILENCE`), and that reads give sequences of bytes (`UsesAssumption`).
`TypedIsSent` needs a second invariant, `TypedInv`: the bytes in the buffer are the
last ones read, and the client has taken the first `m` of them - it has sent what
those mean (`Said`), is in an escape sequence exactly when byte `m` began one, and
remembers a line end exactly when byte `m` was a typed one.  The reference
(`begins`, `said`) reads the whole input at once, so the lemmas say that later bytes
change nothing for earlier ones (a printable escape key, its own pass key, included),
that the meaning of `m + 1` bytes is that of `m`
joined with one more, and that nothing is meant after a quit, each by a least
counterexample.

**`MoshConnection_proofs`** - for every size of text, MTU, width of the timestamps,
span of the counters and number of datagrams: `NoncesUnique`,
`SamplesHonest`, `FragmentsStayWhole`, `AddressesStayRight`.  Four layers:
`LinkInv` - numbers in flight are below the sender's counter, which is at most the
number of encrypted blocks, which is below the limit: the session ends before a
nonce repeats; `ClockInv` - a timestamp in flight, held or saved is congruent to a
true time that is at most one lifetime old, so that a difference modulo `Wrap` is
the true one; `FragInv` - fragments with one id come from one cut of one
instruction, and an assembly holds such fragments in their places; `PortInv` - a
port of the client that a datagram or the server still names is among the last
ones the client opened, as many as hops fit into the time since it was seen, so
that pruning has not closed it.  The loop over the fragments is a recursive function; that its turns exist for every
number of fragments is shown by taking a least counterexample
(`WellFoundedInduction`).  Assumed (`SettingsAssumption`): no text needs more
fragments than the 15 bits of their number allow (`Fragment::tostring` ends the
program otherwise, "effective limit on size of a terminal screen change"), and `2 * life + PENALTY + 1 < Wrap`: no datagram
travels for half of the 65 s the timestamps span.  `PortAssumption`: an old socket
is forgotten by age before the limit on their number closes it (60 s against 9 hops
of 10 s).  That the server's target is open is claimed for datagrams that travel no
longer than an old socket is kept beyond the association timeout (20 s).

**`TerminalHistory_proofs`** - for every height of the screen, length of the history
and sequence of marks: `HistoryStaysSound`, `ViewportStays` (an action property).  The
invariant keeps the pinned row valid also while the other screen is shown, and
states the copied output over the rows there were when it was copied, so that later
rows cannot disturb it.  The lemmas give `Min` and `Max` of a set of rows their
meaning (from well-foundedness) and show `nativeGetLastCommandOutput`, which looks
for two prompts and the block behind the first, equal to the reference
definition: output with one prompt behind it and one before, or, where there is
none, the continuation rows that do not follow their prompt at once.

**`MoshSession_proofs`** - for every value of the timers and limits, any number of
keys and screens, and a network that loses, repeats and reorders:
`StatesAlwaysAgree`, `LastStateAlwaysArrives`, and `SessionImplementsSync`, the refinement
of `MoshSync` (`Sync!Init` from `Init`, every step a step of `MoshSync` or a stutter).  The
states themselves cannot be compared: `rationalize_states` cuts the acknowledged
prefix off the sender's stream, `get_remote_diff` another one off the receiver's, and
differences cut before and after are on the way together.  The invariant
`SessionInv` therefore gives every number a *value* that no cut changes: the number of
events typed before the end of the stream, or the screen.  For each direction
there is one growing function from numbers to values (`Growing`), and
every state of both lists, and every difference on the wire, old copies
included, is what the function says, beginning where the list begins now
(`Listed`, `Told`).  Under it lie the numbers (`Exchange`): the state the sender knows
to be acknowledged is on the receiver's list, no throw-away number on the way is
beyond it, and an acknowledgement on the way names a state the receiver holds or
one older than that.  The lists are ordered by number and by time, and `Paced`
bounds the numbers: a new state takes a tick, so the number reserved for the
shutdown is not reached otherwise.  `Delivery` ties the loop of the server to it (what was
written to the child is the value of the state fetched last) and `Echoed` bounds the
late acknowledgements.  Then: equal numbers, equal screens; an acknowledged
`LastNum` has the last value; the shown value only grows.  Assumed: `ACK_DELAY` and the
limit on sent states are not zero (100 ms and 32 in the code), and `MaxTime + 1 <
LastNum` (a session sends fewer states than 64 bits count).

Only model-checked, and why:

- liveness (`DeathNoticed`, `JoinReturnsOutsideWindow`, `RequestAnswered`) and
  everything about `ENABLED`: the prover has no rules for fairness;
- `KittyLimits`, `NothingStaleShown`, `EndsOnce`, `FrameSound`, `ScreensAgree`,
  `FrameCarries`, `ParserSound`, `CipherAsReference`: what folds and filters
  over sequences compute is induction over data, for which the library's
  rules take an operator the provers cannot instantiate (a least counterexample,
  as in three of the modules, has to be set up anew for every such operator);
- `PredictionsEnd`, `PasswordHidden`: the predictions are culled by a fold over the
  rows with a validity that depends on the screen; no proof yet.

## 6. Not modelled

The ghostty emulator (vendored; `native/ghostty/include` is only its interface),
AES and the platform's fonts, widths and terminfo; desktop notifications
(OSC 9 / 777), key translation, the screens and preferences, askpass: single
stateless calls or user interface; profiles and their encryption (`J/model/`),
the key store (`J/ssh/SshKeyManager.java`), the bootstrap installer
(`J/util/BootstrapInstaller.java`), `PasteSafety` and the User Mode Linux launcher
(`experiments/uml`): worth modelling, left for later; build scripts,
patches, website and assets.  In mosh: the smoothed round-trip time (intervals are
one tick), the limit of 1024 received states, syslog, motd, chdir, utmp without
`libutempter`.  Reuse of a descriptor number by another file and a crash of the
process between taking and saving a signature counter have no property yet.

## 7. Plan

1. Proofs: `PredictionsEnd` of `MoshPrediction`.
2. Models: profiles and their encryption (load, save, migration, lost key),
   bootstrap installer (crash between steps), key store (partial failure),
   User Mode Linux launcher (file lock).
