----------------------------- MODULE MoshStartup -----------------------------
(***************************************************************************)
(* From `mosh host' to a shell: mosh-launcher on the device, the ssh it    *)
(* starts, mosh-server before, around and after its loop, and the child    *)
(* that becomes the user's shell once a client is there.                   *)
(*                                                                         *)
(* The transport (MoshTransport, MoshSession) and mosh-client (MoshClient) *)
(* are environments here.  Times are in units of about 10 seconds.         *)
(***************************************************************************)
EXTENDS Integers, Sequences

CONSTANTS
  NO_CLIENT,     \* timeout_if_no_client, 60 s
  NO_CLIENT_WAKE,\* 5 s: sleep of a server without client
  UTMP_LATE,     \* 30 s without a state: the record no longer says connected
  ASSOCIATION,   \* 40 s without a datagram: the client's address is forgotten
  HEARTBEAT,     \* longest wait of the transport while it has an address
  Environs       \* what surrounds a behaviour: see StartupInit

ASSUME StartupAssumption ==
  /\ {NO_CLIENT, NO_CLIENT_WAKE, UTMP_LATE, ASSOCIATION, HEARTBEAT} \subseteq Nat \ {0}
  /\ ASSOCIATION >= UTMP_LATE + HEARTBEAT
  /\ \A e \in Environs : e.idle.number \in Int /\ e.signaled.number \in Int   \* strtol

VARIABLES
  launcher,  \* mosh-launcher; pid: g_ssh_pid is set
  ssh,       \* its ssh: none, running, ended (not waited for), reaped
  output,    \* lines in the pipe from ssh
  mclient,   \* mosh-client: none, running, ended
  server,    \* mosh-server and its ServerConnection
  child,     \* what forkpty started
  utmp,      \* the record of its terminal: none, detached, connected
  age,       \* time since the client's latest state, or since the start
  slept,     \* time in the current select
  env        \* the environment of this behaviour

startupVars == <<launcher, ssh, output, mclient, server, child, utmp, age, slept, env>>
serverVars == <<server, child, utmp, age, slept>>
launcherVars == <<launcher, ssh, output, mclient>>

Endless == 2 * (NO_CLIENT + ASSOCIATION)  \* INT_MAX milliseconds, and the largest age
grown(t) == IF t < Endless THEN t + 1 ELSE t

(***************************************************************************)
(* mosh-launcher                                                           *)
(***************************************************************************)
\* kill and waitpid; a pid that was waited for may be another process
kill(l) == [l EXCEPT !.pid = FALSE, !.stranger = @ \/ (l.pid /\ ssh = "reaped")]
reaped(l) == IF l.pid THEN "reaped" ELSE ssh

\* Leaves ssh behind
dieAlone(l) == launcher' = [l EXCEPT !.proc = "exited"] /\ UNCHANGED ssh

die(l) ==
  /\ launcher' = [kill(l) EXCEPT !.proc = "exited"]
  /\ ssh' = reaped(l)

\* A variable of the device that names a UTF-8 locale, else en_US.UTF-8
defaultLocale == "utf8"

\* The assignments for mosh-server -l, each "", "utf8" or "other": what is set,
\* whatever it is; only if nothing is, a LANG that will do
localeVars(vars) ==
  IF \A v \in DOMAIN vars : vars[v] = "" THEN [vars EXCEPT !["LANG"] = defaultLocale] ELSE vars

\* Options, a missing host or a second one
parseArguments ==
  /\ launcher.proc = "start"
  /\ \/ launcher' = [launcher EXCEPT !.proc = "colors"] /\ UNCHANGED ssh
     \/ launcher' = [launcher EXCEPT !.proc = "exited"] /\ UNCHANGED ssh   \* --version, --help, usage
     \/ die(launcher)
  /\ UNCHANGED <<output, mclient, serverVars, env>>

\* mosh-client -c, whatever becomes of it: 0 stands for no or a bad answer
queryColors ==
  /\ launcher.proc = "colors"
  /\ \E answer \in {0, 8, 256} :
       launcher' = [launcher EXCEPT !.proc = "ssh", !.colors = IF answer > 0 THEN answer ELSE 256]
  /\ UNCHANGED <<ssh, output, mclient, serverVars, env>>

\* pipe and fork; ssh runs from here on
startSsh ==
  /\ launcher.proc = "ssh"
  /\ \/ launcher' = [launcher EXCEPT !.proc = "forked", !.pid = TRUE] /\ ssh' = "running"
     \/ die(launcher)
  /\ UNCHANGED <<output, mclient, serverVars, env>>

\* fdopen of the pipe from ssh
openPipe ==
  /\ launcher.proc = "forked"
  /\ \/ launcher' = [launcher EXCEPT !.proc = "reading"] /\ UNCHANGED ssh
     \/ die(launcher)
  /\ UNCHANGED <<output, mclient, serverVars, env>>

\* One line of ssh: the server's, or one of the login before it
readLine ==
  /\ launcher.proc = "reading" /\ output # <<>>
  /\ LET s == Head(output)
     IN CASE s.kind = "connect" /\ s.key = ""  -> die(launcher)
          [] s.kind = "connect" /\ s.key # ""  ->
               launcher' = [launcher EXCEPT !.proc = "found", !.key = s.key] /\ UNCHANGED ssh
          [] s.kind = "ip"                     -> launcher' = [launcher EXCEPT !.ip = s.ip] /\ UNCHANGED ssh
          [] s.kind = "connection"             ->
               launcher' = [launcher EXCEPT !.ip = IF Len(s.words) = 4 THEN s.words[3] ELSE @] /\ UNCHANGED ssh
          [] OTHER                             -> UNCHANGED <<launcher, ssh>>
  /\ output' = Tail(output)
  /\ UNCHANGED <<mclient, serverVars, env>>

\* End of file without MOSH CONNECT: waitpid, and die without a kill
readEnd ==
  /\ launcher.proc = "reading" /\ output = <<>> /\ ssh = "ended"
  /\ launcher' = [launcher EXCEPT !.proc = "exited", !.pid = FALSE]
  /\ ssh' = "reaped"
  /\ UNCHANGED <<output, mclient, serverVars, env>>

\* The address the server named, or the host of the command line
resolveNumeric ==
  /\ launcher.proc = "found"
  /\ \/ launcher' = [launcher EXCEPT !.proc = "resolved", !.ip = IF @ = "" THEN "host" ELSE @] /\ UNCHANGED ssh
     \/ die(launcher)
  /\ UNCHANGED <<output, mclient, serverVars, env>>

startClient ==
  /\ launcher.proc = "resolved"
  /\ \/ launcher' = [launcher EXCEPT !.proc = "waiting"] /\ mclient' = "running" /\ UNCHANGED ssh
     \/ die(launcher) /\ UNCHANGED mclient
  /\ UNCHANGED <<output, serverVars, env>>

clientEnds ==
  /\ mclient = "running"
  /\ mclient' = "ended"
  /\ UNCHANGED <<launcher, ssh, output, serverVars, env>>

\* waitpid for the client, then SIGTERM and waitpid for ssh
reapClient ==
  /\ launcher.proc = "waiting" /\ mclient = "ended"
  /\ die(launcher)
  /\ UNCHANGED <<output, mclient, serverVars, env>>

\* The terminal on the device is closed: SIGHUP to all of its processes
terminalCloses ==
  /\ "close" \in env.faults /\ launcher.proc # "exited"
  /\ launcher' = [launcher EXCEPT !.proc = "killed"]
  /\ ssh' = IF ssh \in {"running", "ended"} THEN "reaped" ELSE ssh
  /\ mclient' = IF mclient = "running" THEN "ended" ELSE mclient
  /\ UNCHANGED <<output, serverVars, env>>

(***************************************************************************)
(* ssh and sshd (external).                                                *)
(***************************************************************************)
\* A hangup of the remote terminal, which there is only for the hold (-tt)
hungUp(s) == IF env.hold /\ s.proc \in {"started", "printed"} THEN [s EXCEPT !.proc = "gone", !.front = FALSE] ELSE s

sshStarts ==
  /\ ssh = "running" /\ server.proc = "none"
  /\ \/ ssh' = "ended" /\ UNCHANGED <<output, server>>      \* no login, or no ssh at all
     \/ /\ server' = [server EXCEPT !.proc = "started", !.front = TRUE]
        /\ output' = env.lines
        /\ UNCHANGED ssh
  /\ UNCHANGED <<launcher, mclient, child, utmp, age, slept, env>>

\* The remote command has ended: without hold, when it failed, or after 24 hours;
\* without a terminal sshd also waits until the descriptors are closed
sshEnds ==
  /\ ssh = "running" /\ server.proc # "none" /\ ~server.front
  /\ server.proc # "detached"
  /\ ~env.hold \/ ~server.ok \/ "day" \in env.faults
  /\ ssh' = "ended"
  /\ UNCHANGED <<launcher, output, mclient, serverVars, env>>

linkDrops ==
  /\ "drop" \in env.faults /\ ssh = "running"
  /\ ssh' = "ended"
  /\ server' = hungUp(server)
  /\ UNCHANGED <<launcher, output, mclient, child, utmp, age, slept, env>>

(***************************************************************************)
(* mosh-server: main and run_server                                        *)
(***************************************************************************)
\* strtol; a number followed by something else is called ignored, and kept
timeoutOf(text) == IF text.number > 0 THEN text.number ELSE 0

\* The locale of the server, else the one of the client's variables alone
is_utf8_locale(vars) ==
  LET of == SelectSeq(<<"LC_ALL", "LC_CTYPE", "LANG">>, LAMBDA v : vars[v] # "")
  IN of # <<>> /\ vars[of[1]] = "utf8"
localeOK == env.native = "utf8" \/ is_utf8_locale(localeVars(env.vars))

\* exit(1), and with it the command of ssh
failed(s) == [s EXCEPT !.proc = "gone", !.front = FALSE, !.ok = FALSE]

\* Bad arguments, no shell, no UTF-8 locale, no port; else the network is open
serverMain ==
  /\ server.proc = "started"
  /\ \/ localeOK
        /\ server' = [server EXCEPT !.proc = "printed", !.idle = timeoutOf(env.idle), !.signaled = timeoutOf(env.signaled)]
        /\ output' = output \o (IF env.hold THEN <<[kind |-> "other"]>> ELSE <<>>)
                            \o <<[kind |-> "connect", key |-> "key"]>>
     \/ server' = failed(server) /\ output' = Append(output, [kind |-> "other"])
  /\ UNCHANGED <<launcher, ssh, mclient, child, utmp, age, slept, env>>

\* SIGHUP and SIGPIPE ignored, fork; when there is no process to be had the
\* server stays in the foreground
detachServer ==
  /\ server.proc = "printed"
  /\ \/ server' = [server EXCEPT !.proc = "detached", !.front = FALSE]
     \/ server' = [server EXCEPT !.proc = "detached"]
  /\ UNCHANGED <<launcherVars, child, utmp, age, slept, env>>

\* Descriptors, pipe and forkpty; serve begins
startChild ==
  /\ server.proc = "detached"
  /\ \/ /\ server' = [server EXCEPT !.proc = "serving", !.pipe = TRUE, !.wait = 0]
        /\ child' = [child EXCEPT !.proc = "forked"]
        /\ utmp' = "detached"
     \/ server' = [failed(server) EXCEPT !.ok = ~server.front] /\ UNCHANGED <<child, utmp>>
  /\ UNCHANGED <<launcherVars, age, slept, env>>

(***************************************************************************)
(* The child, from forkpty to the shell.                                   *)
(***************************************************************************)
\* From here on SIGHUP ends the child
childReenable ==
  /\ child.proc = "forked"
  /\ child' = [child EXCEPT !.proc = "reenabled"]
  /\ UNCHANGED <<launcherVars, server, utmp, age, slept, env>>

\* TERM; the home directory, the message of the day and the warning of other
\* sessions never end the child
loginEnvironment(c, colors) ==
  [c EXCEPT !.proc = "waiting", !.term = IF colors = 256 THEN "xterm-256color" ELSE "xterm"]

\* tcgetattr fails on a terminal that was hung up
childTerminal ==
  /\ child.proc = "reenabled"
  /\ \/ child' = [child EXCEPT !.proc = "gone"]
     \/ ~child.hungup /\ child' = loginEnvironment(child, launcher.colors)
  /\ UNCHANGED <<launcherVars, server, utmp, age, slept, env>>

\* read returns when no one holds the other end of the pipe
childReleased ==
  /\ child.proc = "waiting" /\ ~server.pipe
  /\ child' \in {[child EXCEPT !.proc = p] : p \in {"shell", "gone"}}
  /\ UNCHANGED <<launcherVars, server, utmp, age, slept, env>>

shellEnds ==
  /\ child.proc = "shell"
  /\ child' = [child EXCEPT !.proc = "gone"]
  /\ UNCHANGED <<launcherVars, server, utmp, age, slept, env>>

\* The master is closed
hangup(c) ==
  IF c.proc \in {"reenabled", "waiting", "shell"} THEN [c EXCEPT !.proc = "gone"] ELSE [c EXCEPT !.hungup = TRUE]

(***************************************************************************)
(* serve                                                                   *)
(***************************************************************************)
shorter(t, u) == IF t < u THEN t ELSE u

\* Until the idle time is over, once it was set
idleTime(s, a) == IF s.idle = 0 THEN Endless ELSE IF a > s.idle THEN 0 ELSE s.idle - a

\* Never wakes up for a client that does not come
sleepTimeTrusting(s, a) == shorter(idleTime(s, a), IF s.addr THEN HEARTBEAT ELSE Endless)

\* The timeout of select
sleepTime(s, a) ==
  shorter(idleTime(s, a), shorter(IF s.addr THEN HEARTBEAT ELSE Endless,
                                  IF s.num = 0 \/ s.shutdown THEN NO_CLIENT_WAKE ELSE Endless))

\* A new state of the client: the record, and the child is released
newState(s) == [s EXCEPT !.addr = TRUE, !.num = 1, !.pipe = FALSE]

\* start_shutdown when there is a client to tell, else the end of the loop
told_to_end(s) == IF s.addr /\ ~s.shutdown THEN [s EXCEPT !.shutdown = TRUE] ELSE [s EXCEPT !.proc = "ending"]

\* Forgets a client that missed a heartbeat
sleepsForgetful(s, a) ==
  /\ \E t \in IF s.addr /\ a > 0 THEN {s, [s EXCEPT !.addr = FALSE]} ELSE {s} :
       server' = [t EXCEPT !.wait = sleepTime(t, a)]
  /\ slept' = 0

\* Turns back to select with the time it may sleep; tick forgets the address
\* of a client that was not heard for long
sleeps(s, a) ==
  /\ \E t \in IF s.addr /\ a > ASSOCIATION THEN {s, [s EXCEPT !.addr = FALSE]} ELSE {s} :
       server' = [t EXCEPT !.wait = sleepTime(t, a)]
  /\ slept' = 0

\* One turn: what was received, whether the terminal is at its end, a signal.
\* The age is taken before anything is read.
serveTurn(received, atEnd, signal) ==
  LET s1 == IF received = "state" THEN newState(server)
            ELSE IF received = "part" THEN [server EXCEPT !.addr = TRUE] ELSE server
      s2 == IF atEnd THEN [s1 EXCEPT !.shutdown = TRUE] ELSE s1
      idle == \/ server.idle # 0 /\ age >= server.idle
              \/ signal = "usr1" /\ (server.signaled = 0 \/ age >= server.signaled)
      s3 == IF signal = "term" \/ idle THEN told_to_end(s2) ELSE s2
      a == IF received = "state" THEN 0 ELSE age
      record == IF received = "state" THEN "connected" ELSE utmp
  IN /\ age' = a
     /\ \/ s3.proc = "ending" /\ server' = s3 /\ utmp' = record /\ UNCHANGED slept
        \/ /\ s3.shutdown                                \* acknowledged, or not in time
           /\ server' = [s3 EXCEPT !.proc = "ending"] /\ utmp' = record /\ UNCHANGED slept
        \/ /\ s3.num # 0                                 \* the client has ended
           /\ server' = [s3 EXCEPT !.proc = "ending"] /\ utmp' = record /\ UNCHANGED slept
        \/ /\ s3.proc # "ending"
           /\ utmp' = IF record = "connected" /\ age > UTMP_LATE THEN "detached" ELSE record
           /\ IF s3.num = 0 /\ age >= NO_CLIENT
              THEN server' = [s3 EXCEPT !.proc = "ending"] /\ UNCHANGED slept
              ELSE sleeps([s3 EXCEPT !.cut = FALSE], a)

serveLoop ==
  /\ server.proc = "serving"
  /\ \E received \in {"nothing", "part", "state"}, signal \in {"none", "term", "usr1"} :
       /\ received # "nothing" => mclient = "running"
       /\ signal # "none" => signal \in env.faults /\ received = "nothing"
       /\ \E atEnd \in {FALSE, child.proc = "gone" /\ ~server.shutdown /\ signal = "none"} :
            /\ received = "nothing" /\ signal = "none" /\ ~atEnd => slept = server.wait
            /\ serveTurn(received, atEnd, signal)
  /\ UNCHANGED <<launcherVars, child, env>>

\* A datagram that is not authentic ends the turn before any of its checks
strayDatagram ==
  /\ "stray" \in env.faults /\ server.proc = "serving"
  /\ server' = [server EXCEPT !.wait = sleepTime(server, age), !.cut = TRUE]
  /\ slept' = 0
  /\ UNCHANGED <<launcherVars, child, utmp, age, env>>

\* Leaves the terminal to the end of the process
closeMasterLate ==
  /\ server.proc = "ending"
  /\ server' = [server EXCEPT !.proc = "closing", !.pipe = FALSE]
  /\ utmp' = "none"
  /\ UNCHANGED <<launcherVars, child, age, slept, env>>

\* The record is removed, the master closed
closeMaster ==
  /\ server.proc = "ending"
  /\ server' = [server EXCEPT !.proc = "closing"]
  /\ utmp' = "none"
  /\ child' = hangup(child)
  /\ UNCHANGED <<launcherVars, age, slept, env>>

\* Only the end of the process closes the pipe to a child that no one released
serverExit ==
  /\ server.proc = "closing"
  /\ server' = [server EXCEPT !.proc = "gone", !.pipe = FALSE, !.front = FALSE]
  /\ UNCHANGED <<launcherVars, child, utmp, age, slept, env>>

\* SIGKILL: the pipe and the master are closed, in the order of their numbers
serverKilled ==
  /\ "kill" \in env.faults
  /\ \/ server.proc = "serving" /\ server' = [server EXCEPT !.proc = "killed", !.pipe = FALSE, !.front = FALSE] /\ UNCHANGED child
     \/ server.proc = "killed" /\ ~child.hungup /\ child.proc # "gone" /\ child' = hangup(child) /\ UNCHANGED server
  /\ UNCHANGED <<launcherVars, utmp, age, slept, env>>

tickServer ==
  /\ "time" \in env.faults
  /\ server.proc = "serving" /\ slept < server.wait
  /\ slept' = slept + 1 /\ age' = grown(age)
  /\ UNCHANGED <<launcherVars, server, child, utmp, env>>

StartupInit ==
  /\ env \in Environs
  /\ launcher = [proc |-> "start", pid |-> FALSE, ip |-> "", key |-> "", colors |-> 0, stranger |-> FALSE]
  /\ ssh = "none" /\ output = <<>> /\ mclient = "none"
  /\ server = [proc |-> "none", front |-> FALSE, ok |-> TRUE, idle |-> 0, signaled |-> 0, addr |-> FALSE, num |-> 0,
               shutdown |-> FALSE, pipe |-> FALSE, wait |-> 0, cut |-> FALSE]
  /\ child = [proc |-> "none", hungup |-> FALSE, term |-> ""]
  /\ utmp = "none" /\ age = 0 /\ slept = 0

LauncherNext ==
  parseArguments \/ queryColors \/ startSsh \/ openPipe \/ readLine \/ readEnd \/ resolveNumeric \/ startClient \/ clientEnds
  \/ reapClient \/ terminalCloses
ServerNext ==
  sshStarts \/ sshEnds \/ linkDrops \/ serverMain \/ detachServer \/ startChild \/ childReenable \/ childTerminal
  \/ childReleased \/ shellEnds \/ serveLoop \/ strayDatagram \/ closeMaster \/ serverExit \/ serverKilled \/ tickServer
StartupNext == LauncherNext \/ ServerNext

StartupSpec == StartupInit /\ [][StartupNext]_startupVars

(***************************************************************************)
(* Properties.                                                             *)
(***************************************************************************)
\* No shell is started on a host where no client ever connected, although the
\* end of the server releases the child just as the first state does: the
\* master is closed before the pipe, and the child either dies of SIGHUP or
\* finds its terminal gone (run_server).  A server killed outright can leave one.
ShellOnlyForClient == child.proc = "shell" => server.num # 0 \/ server.proc = "killed"

\* Whichever way the launcher returns, its ssh has been waited for, and it has
\* never sent a signal to a process number it had already waited for.
SshReaped == launcher.proc = "exited" => ssh \in {"none", "reaped"} /\ ~launcher.stranger

\* A server no client came to ends in time, and an idle one when it was told
\* to; a turn cut short by a datagram that is not authentic postpones both.
SilentServerEnds ==
  server.proc = "serving" /\ ~server.cut =>
    /\ server.num = 0 => age <= NO_CLIENT + NO_CLIENT_WAKE
    /\ server.idle # 0 => age <= server.idle \/ server.shutdown

\* The record of the terminal says connected no longer than a heartbeat after
\* the client fell silent, although the server stops waking up for a client it
\* has forgotten; and none is left behind.
UtmpHonest ==
  /\ server.proc = "serving" /\ ~server.cut /\ utmp = "connected" => age <= UTMP_LATE + HEARTBEAT
  /\ server.proc \in {"gone", "closing"} => utmp = "none"
=============================================================================
