------------------------- MODULE MoshStartup_proofs -------------------------
(***************************************************************************)
(* The start and the end of a mosh session, for every value of the         *)
(* timeouts and every environment: no shell without a client, ssh is       *)
(* waited for, a silent server ends, and the record of the terminal says   *)
(* connected no longer than it may.                                        *)
(***************************************************************************)
EXTENDS MoshStartup, TLAPS

(***************************************************************************)
(* The inductive invariant.                                                *)
(***************************************************************************)
\* The processes of the launcher, and which of them has an ssh to wait for.
LauncherOK ==
  /\ launcher \in [proc : {"start", "colors", "ssh", "forked", "reading", "found", "resolved", "waiting", "exited", "killed"},
                   pid : BOOLEAN, ip : {launcher.ip}, key : {launcher.key}, colors : {launcher.colors}, stranger : {FALSE}]
  /\ launcher.proc \in {"start", "colors", "ssh"} => ssh = "none" /\ ~launcher.pid
  /\ launcher.proc \in {"forked", "reading", "found", "resolved", "waiting"} => ssh \in {"running", "ended"} /\ launcher.pid
  /\ launcher.proc \in {"exited", "killed"} => ssh \in {"none", "reaped"}

Servers ==
  [proc : {"none", "started", "printed", "detached", "serving", "ending", "closing", "gone", "killed"},
   front : BOOLEAN, ok : BOOLEAN, idle : Nat, signaled : Nat, addr : BOOLEAN, num : {0, 1},
   shutdown : BOOLEAN, pipe : BOOLEAN, wait : Nat, cut : BOOLEAN]

ServerTypeOK ==
  /\ server \in Servers
  /\ age \in 0..Endless /\ slept \in Nat
  /\ utmp \in {"none", "detached", "connected"}
  /\ env \in Environs

Before == {"none", "started", "printed", "detached"}

\* The pipe holds the child back until a client came, and a terminal is hung
\* up before the end of the server closes the pipe.
ChildOK ==
  /\ child \in [proc : {"none", "forked", "reenabled", "waiting", "shell", "gone"}, hungup : BOOLEAN,
               term : {"", "xterm", "xterm-256color"}]
  /\ child.hungup => child.proc \in {"forked", "reenabled", "gone"}
  /\ child.proc = "shell" => server.num # 0 \/ server.proc = "killed"
  /\ server.proc \in {"serving", "ending", "killed"} => child.proc # "none"
  /\ server.proc \in {"serving", "ending"} /\ server.num = 0 => server.pipe
  /\ server.proc \in {"closing", "gone"} => child.proc \in {"none", "gone"} \/ child.hungup
  /\ server.proc \in Before => child.proc = "none" /\ utmp = "none" /\ server.num = 0 /\ server.cut = FALSE
  /\ server.proc \in Before => age = 0 /\ slept = 0

\* Left of the current sleep.
Remaining == server.wait - slept

\* What holds at the end of the sleep holds during it: the ages are bounded
\* together with the time the server may still sleep.
SleepOK ==
  server.proc = "serving" =>
    /\ slept <= server.wait
    /\ ~server.cut =>
         /\ server.num = 0 => age + Remaining <= NO_CLIENT + NO_CLIENT_WAKE
         /\ server.idle # 0 => age + Remaining <= server.idle \/ server.shutdown
         /\ utmp = "connected" => age + Remaining <= UTMP_LATE + HEARTBEAT

\* A record that says connected is one of a client the server still knows.
RecordOK ==
  /\ server.proc = "serving" /\ utmp = "connected" => server.addr
  /\ server.proc \in {"gone", "closing"} => utmp = "none"

StartupInv == LauncherOK /\ ServerTypeOK /\ ChildOK /\ SleepOK /\ RecordOK

ServerOK == ServerTypeOK /\ ChildOK /\ SleepOK /\ RecordOK

-----------------------------------------------------------------------------
\* The timeouts are natural numbers and the ages have a largest value.
LEMMA ConstantsFact ==
  /\ NO_CLIENT \in Nat /\ NO_CLIENT_WAKE \in Nat /\ UTMP_LATE \in Nat /\ ASSOCIATION \in Nat /\ HEARTBEAT \in Nat
  /\ NO_CLIENT > 0 /\ HEARTBEAT > 0 /\ ASSOCIATION >= UTMP_LATE + HEARTBEAT
  /\ Endless \in Nat
BY StartupAssumption DEF StartupAssumption, Endless

\* The sleep of serve is within each of the times it is the shortest of
\* (mosh-server.cc:716-739).
LEMMA SleepTimeFact ==
  ASSUME NEW s \in Servers, NEW a \in 0..Endless
  PROVE  /\ sleepTime(s, a) \in Nat
         /\ s.num = 0 => sleepTime(s, a) <= NO_CLIENT_WAKE
         /\ s.idle # 0 /\ a <= s.idle => a + sleepTime(s, a) <= s.idle
         /\ s.addr => sleepTime(s, a) <= HEARTBEAT
BY ConstantsFact DEF sleepTime, shorter, idleTime, Servers

\* What die does: ssh is gone, or there was none, and nobody else was hit
\* (mosh-launcher.cc:45-53).
LEMMA DieFact ==
  ASSUME LauncherOK, launcher.proc \notin {"exited", "killed"}, die(launcher)
  PROVE  LauncherOK'
BY DEF LauncherOK, die, kill, reaped

-----------------------------------------------------------------------------
\* Every step of the launcher, and every step of its ssh, keeps what is known
\* of ssh.
LEMMA LauncherInductive ==
  ASSUME StartupInv, [StartupNext]_startupVars
  PROVE  LauncherOK'
<1>1. CASE parseArguments
  BY <1>1, DieFact DEF StartupInv, LauncherOK, parseArguments
<1>2. CASE queryColors
  BY <1>2 DEF StartupInv, LauncherOK, queryColors
<1>3. CASE startSsh
  BY <1>3, DieFact DEF StartupInv, LauncherOK, startSsh
<1>4. CASE readLine
  <2>1. CASE die(launcher)
    BY <1>4, <2>1, DieFact DEF StartupInv, LauncherOK, readLine
  <2>2. CASE UNCHANGED ssh /\ \E k : launcher' = [launcher EXCEPT !.proc = "found", !.key = k]
    BY <1>4, <2>2 DEF StartupInv, LauncherOK, readLine
  <2>3. CASE UNCHANGED ssh /\ \E i : launcher' = [launcher EXCEPT !.ip = i]
    BY <1>4, <2>3 DEF StartupInv, LauncherOK, readLine
  <2>4. CASE UNCHANGED <<launcher, ssh>>
    BY <2>4 DEF StartupInv, LauncherOK
  <2> QED
    BY <1>4, <2>1, <2>2, <2>3, <2>4 DEF readLine
<1>5. CASE readEnd
  BY <1>5 DEF StartupInv, LauncherOK, readEnd
<1>6. CASE resolveNumeric
  BY <1>6, DieFact DEF StartupInv, LauncherOK, resolveNumeric
<1>7. CASE startClient
  BY <1>7, DieFact DEF StartupInv, LauncherOK, startClient
<1>8. CASE reapClient
  BY <1>8, DieFact DEF StartupInv, LauncherOK, reapClient
<1>9. CASE terminalCloses
  BY <1>9 DEF StartupInv, LauncherOK, terminalCloses
<1>10. CASE sshStarts \/ sshEnds \/ linkDrops
  BY <1>10 DEF StartupInv, LauncherOK, sshStarts, sshEnds, linkDrops
<1>11. CASE UNCHANGED <<launcher, ssh>>
  BY <1>11 DEF StartupInv, LauncherOK
<1>12. CASE openPipe
  BY <1>12, DieFact DEF StartupInv, LauncherOK, openPipe
<1> QED
  BY <1>1, <1>2, <1>3, <1>4, <1>5, <1>6, <1>7, <1>8, <1>9, <1>10, <1>11, <1>12
     DEF StartupNext, LauncherNext, ServerNext, startupVars, launcherVars, clientEnds, serverMain, detachServer,
         startChild, childReenable, childTerminal, childReleased, shellEnds, serveLoop, strayDatagram, closeMaster,
         serverExit, serverKilled, tickServer

-----------------------------------------------------------------------------
\* The end of a turn of serve that goes back to select.
LEMMA SleepsInductive ==
  ASSUME StartupInv, NEW s \in Servers, s.proc = "serving", ~s.cut,
         NEW a \in 0..Endless, age' = a, sleeps(s, a),
         s.num = 0 => a < NO_CLIENT /\ s.pipe,
         s.idle # 0 => a < s.idle \/ s.shutdown,
         utmp' \in {"none", "detached", "connected"},
         utmp' = "connected" => s.addr /\ a <= UTMP_LATE,
         server.proc = "serving", s.num = 0 => server.num = 0,
         UNCHANGED <<child, env>>
  PROVE  ServerOK'
<1>1. PICK t \in {s, [s EXCEPT !.addr = FALSE]} :
        /\ t = s \/ (s.addr /\ a > ASSOCIATION /\ t = [s EXCEPT !.addr = FALSE])
        /\ server' = [t EXCEPT !.wait = sleepTime(t, a)]
        /\ slept' = 0
  BY DEF sleeps
<1>2. /\ t \in Servers /\ t.proc = "serving" /\ ~t.cut
      /\ t.num = s.num /\ t.idle = s.idle /\ t.pipe = s.pipe /\ (t.shutdown <=> s.shutdown)
  BY <1>1 DEF Servers
<1>3. /\ sleepTime(t, a) \in Nat
      /\ t.num = 0 => sleepTime(t, a) <= NO_CLIENT_WAKE
      /\ t.idle # 0 /\ a <= t.idle => a + sleepTime(t, a) <= t.idle
      /\ t.addr => sleepTime(t, a) <= HEARTBEAT
  BY <1>2, SleepTimeFact
<1>4. utmp' = "connected" => t = s
  BY <1>1, ConstantsFact
<1>5. ServerTypeOK'
  BY <1>1, <1>2, <1>3 DEF StartupInv, ServerTypeOK, Servers
<1>6. ChildOK'
  BY <1>1, <1>2 DEF StartupInv, ChildOK, ServerTypeOK, Before, Servers
<1>7. SleepOK'
  BY <1>1, <1>2, <1>3, <1>4, ConstantsFact DEF SleepOK, Remaining, Servers
<1>8. RecordOK'
  BY <1>1, <1>2, <1>4 DEF RecordOK, Servers
<1> QED
  BY <1>5, <1>6, <1>7, <1>8 DEF ServerOK

\* One turn of serve (mosh-server.cc:757-950).
LEMMA TurnInductive ==
  ASSUME StartupInv, server.proc = "serving", UNCHANGED <<child, env>>,
         NEW received \in {"nothing", "part", "state"}, NEW atEnd \in BOOLEAN, NEW signal \in {"none", "term", "usr1"},
         serveTurn(received, atEnd, signal)
  PROVE  ServerOK'
<1> DEFINE s1 == IF received = "state" THEN newState(server)
                 ELSE IF received = "part" THEN [server EXCEPT !.addr = TRUE] ELSE server
           s2 == IF atEnd THEN [s1 EXCEPT !.shutdown = TRUE] ELSE s1
           idle == \/ server.idle # 0 /\ age >= server.idle
                   \/ signal = "usr1" /\ (server.signaled = 0 \/ age >= server.signaled)
           s3 == IF signal = "term" \/ idle THEN told_to_end(s2) ELSE s2
           a == IF received = "state" THEN 0 ELSE age
           record == IF received = "state" THEN "connected" ELSE utmp
           ends == /\ \E t \in {s3, [s3 EXCEPT !.proc = "ending"]} : server' = t /\ t.proc = "ending"
                   /\ utmp' \in {record, "detached"} /\ age' = a /\ slept' = slept
<1>1. /\ server \in Servers /\ age \in 0..Endless /\ slept \in Nat /\ utmp \in {"none", "detached", "connected"}
      /\ env \in Environs
  BY DEF StartupInv, ServerTypeOK
<1>2. /\ s1 \in Servers /\ s1.proc = "serving" /\ s1.idle = server.idle
      /\ s1.num = 0 => server.num = 0 /\ s1.pipe
      /\ record = "connected" => s1.addr
  <2>1. CASE received = "state"
    <3>1. s1 = [server EXCEPT !.addr = TRUE, !.num = 1, !.pipe = FALSE]
      BY <2>1 DEF newState
    <3>2. s1.num = 1 /\ s1.addr = TRUE /\ s1.proc = "serving" /\ s1.idle = server.idle
      BY <3>1, <1>1 DEF Servers
    <3> HIDE DEF s1
    <3>3. s1 \in Servers
      BY <3>1, <1>1 DEF Servers
    <3> QED
      BY <3>2, <3>3
  <2>2. CASE received = "part"
    BY <1>1, <2>2 DEF StartupInv, ChildOK, Servers
  <2>3. CASE received = "nothing"
    BY <1>1, <2>3 DEF StartupInv, ChildOK, RecordOK, Servers
  <2> QED
    BY <2>1, <2>2, <2>3
<1> HIDE DEF s1
<1>3. /\ s2 \in Servers /\ s2.proc = "serving" /\ s2.idle = server.idle /\ s2.num = s1.num /\ s2.pipe = s1.pipe
      /\ s2.addr = s1.addr
  <2>1. CASE atEnd
    BY <1>2, <2>1 DEF Servers
  <2>2. CASE ~atEnd
    BY <1>2, <2>2
  <2> QED
    BY <2>1, <2>2
<1> HIDE DEF s2
<1>4. /\ s3 \in Servers /\ s3.proc \in {"serving", "ending"} /\ s3.idle = server.idle /\ s3.num = s1.num /\ s3.pipe = s1.pipe
      /\ s3.addr = s1.addr
      /\ s3.proc = "serving" /\ server.idle # 0 => age < server.idle \/ s3.shutdown
  <2>1. /\ told_to_end(s2) \in Servers /\ told_to_end(s2).proc \in {"serving", "ending"}
        /\ told_to_end(s2).idle = s2.idle /\ told_to_end(s2).num = s2.num /\ told_to_end(s2).pipe = s2.pipe
        /\ told_to_end(s2).addr = s2.addr
        /\ told_to_end(s2).proc = "serving" => told_to_end(s2).shutdown
    <3>1. CASE s2.addr /\ ~s2.shutdown
      BY <1>3, <3>1 DEF told_to_end, Servers
    <3>2. CASE ~(s2.addr /\ ~s2.shutdown)
      BY <1>3, <3>2 DEF told_to_end, Servers
    <3> QED
      BY <3>1, <3>2
  <2>2. CASE signal = "term" \/ idle
    BY <2>1, <2>2, <1>3
  <2>3. CASE ~(signal = "term" \/ idle)
    BY <2>3, <1>1, <1>3, ConstantsFact DEF Servers
  <2> QED
    BY <2>2, <2>3
<1> HIDE DEF s3, idle
<1>5. CASE ends
  <2>1. server' \in Servers /\ server'.proc = "ending" /\ server'.num = s3.num /\ server'.pipe = s3.pipe
    BY <1>4, <1>5 DEF Servers
  <2>2. ServerTypeOK'
    BY <2>1, <1>1, <1>5, ConstantsFact DEF ServerTypeOK
  <2>3. ChildOK'
    BY <2>1, <1>1, <1>2, <1>4 DEF StartupInv, ChildOK, Before, Servers
  <2> QED
    BY <2>1, <2>2, <2>3 DEF ServerOK, SleepOK, RecordOK
<1>6. CASE /\ s3.proc = "serving" /\ age' = a /\ sleeps([s3 EXCEPT !.cut = FALSE], a)
           /\ utmp' = IF record = "connected" /\ age > UTMP_LATE THEN "detached" ELSE record
           /\ ~(s3.num = 0 /\ age >= NO_CLIENT)
  <2> DEFINE s == [s3 EXCEPT !.cut = FALSE]
  <2>1. /\ s \in Servers /\ s.proc = "serving" /\ ~s.cut /\ s.num = s3.num /\ s.pipe = s3.pipe /\ s.idle = s3.idle
        /\ s.addr = s3.addr /\ s.shutdown = s3.shutdown
    BY <1>4, <1>6 DEF Servers
  <2>2. a \in 0..Endless /\ a <= age
    BY <1>1, ConstantsFact
  <2>3. s.num = 0 => a < NO_CLIENT /\ s.pipe
    BY <2>1, <2>2, <1>1, <1>2, <1>4, <1>6, ConstantsFact
  <2>4. s.idle # 0 => a < s.idle \/ s.shutdown
    BY <2>1, <2>2, <1>1, <1>4, <1>6, ConstantsFact DEF Servers
  <2>5. utmp' \in {"none", "detached", "connected"}
    BY <1>1, <1>6
  <2>6. utmp' = "connected" => s.addr /\ a <= UTMP_LATE
    BY <2>1, <2>2, <1>1, <1>2, <1>4, <1>6, ConstantsFact
  <2>7. s.num = 0 => server.num = 0
    BY <2>1, <1>2, <1>4
  <2> HIDE DEF s, a
  <2> QED
    BY <2>1, <2>2, <2>3, <2>4, <2>5, <2>6, <2>7, <1>6, SleepsInductive DEF s
<1>7. /\ age' = a
      /\ \/ s3.proc = "ending" /\ server' = s3 /\ utmp' = record /\ UNCHANGED slept
         \/ s3.shutdown /\ server' = [s3 EXCEPT !.proc = "ending"] /\ utmp' = record /\ UNCHANGED slept
         \/ s3.num # 0 /\ server' = [s3 EXCEPT !.proc = "ending"] /\ utmp' = record /\ UNCHANGED slept
         \/ /\ s3.proc # "ending"
            /\ utmp' = IF record = "connected" /\ age > UTMP_LATE THEN "detached" ELSE record
            /\ IF s3.num = 0 /\ age >= NO_CLIENT
               THEN server' = [s3 EXCEPT !.proc = "ending"] /\ UNCHANGED slept
               ELSE sleeps([s3 EXCEPT !.cut = FALSE], a)
  BY DEF serveTurn, s1, s2, s3, idle
<1>8. [s3 EXCEPT !.proc = "ending"].proc = "ending"
  BY <1>4 DEF Servers
<1> QED
  BY <1>4, <1>5, <1>6, <1>7, <1>8

\* Every step of the server, its child and its clock.
LEMMA ServerInductive ==
  ASSUME StartupInv, [StartupNext]_startupVars
  PROVE  ServerOK'
<1> USE DEF StartupInv
<1>1. CASE UNCHANGED <<serverVars, env>>
  BY <1>1 DEF ServerOK, ServerTypeOK, ChildOK, SleepOK, RecordOK, Remaining, serverVars
<1>2. CASE sshStarts \/ linkDrops
  <2>1. UNCHANGED <<child, utmp, age, slept, env>>
    BY <1>2 DEF sshStarts, linkDrops
  <2>2. CASE server' = server
    BY <2>1, <2>2 DEF ServerOK, ServerTypeOK, ChildOK, SleepOK, RecordOK, Remaining
  <2>3. CASE /\ server.proc \in Before /\ server' \in Servers /\ server'.proc \in {"started", "gone"}
             /\ server'.num = server.num /\ server'.cut = server.cut
    BY <2>1, <2>3 DEF ServerOK, ServerTypeOK, ChildOK, SleepOK, RecordOK, Before
  <2>4. CASE sshStarts /\ server' # server
    BY <2>3, <2>4 DEF sshStarts, ServerTypeOK, Servers, Before
  <2>5. CASE linkDrops /\ server' # server
    <3>1. server.proc \in {"started", "printed"} /\ server' = [server EXCEPT !.proc = "gone", !.front = FALSE]
      BY <2>5 DEF linkDrops, hungUp
    <3> QED
      BY <2>3, <3>1 DEF ServerTypeOK, Servers, Before
  <2> QED
    BY <1>2, <2>2, <2>4, <2>5
<1>3. CASE serverMain
  <2>1. timeoutOf(env.idle) \in Nat /\ timeoutOf(env.signaled) \in Nat
    BY StartupAssumption DEF StartupAssumption, ServerTypeOK, timeoutOf
  <2> QED
    BY <1>3, <2>1 DEF ServerOK, ServerTypeOK, ChildOK, SleepOK, RecordOK, Servers, Before, serverMain, failed
<1>4. CASE detachServer
  BY <1>4 DEF ServerOK, ServerTypeOK, ChildOK, SleepOK, RecordOK, Servers, Before, detachServer
<1>5. CASE startChild
  <2>1. CASE server' = [failed(server) EXCEPT !.ok = ~server.front] /\ UNCHANGED <<child, utmp>>
    <3>1. server' \in Servers /\ server'.proc = "gone"
      BY <2>1 DEF ServerTypeOK, Servers, failed
    <3> QED
      BY <1>5, <2>1, <3>1 DEF ServerOK, ServerTypeOK, ChildOK, SleepOK, RecordOK, Before, startChild
  <2>2. CASE /\ server' = [server EXCEPT !.proc = "serving", !.pipe = TRUE, !.wait = 0]
             /\ child' = [child EXCEPT !.proc = "forked"]
             /\ utmp' = "detached"
    <3>1. /\ server' \in Servers /\ server'.proc = "serving" /\ server'.pipe = TRUE /\ server'.wait = 0
          /\ server'.idle = server.idle
      BY <2>2 DEF ServerTypeOK, Servers
    <3>2. age' = 0 /\ slept' = 0 /\ UNCHANGED env
      BY <1>5 DEF startChild, ChildOK, Before
    <3>3. ServerTypeOK' /\ ChildOK' /\ RecordOK'
      BY <1>5, <2>2, <3>1, <3>2, ConstantsFact DEF ServerTypeOK, ChildOK, RecordOK, Before, startChild
    <3>4. SleepOK'
      <4>1. Remaining' = 0 /\ server'.idle \in Nat /\ utmp' # "connected"
        <5>1. Remaining' = 0 - 0
          BY <3>1, <3>2 DEF Remaining
        <5>2. server'.idle \in Nat
          BY <3>1 DEF Servers
        <5> QED
          BY <2>2, <5>1, <5>2
      <4> QED
        BY <3>1, <3>2, <4>1, ConstantsFact DEF SleepOK
    <3> QED
      BY <3>3, <3>4 DEF ServerOK
  <2> QED
    BY <1>5, <2>1, <2>2 DEF startChild
<1>6. CASE childReenable \/ childTerminal \/ childReleased \/ shellEnds
  <2>1. ServerTypeOK' /\ SleepOK' /\ RecordOK'
    BY <1>6 DEF ServerTypeOK, SleepOK, RecordOK, Remaining, childReenable, childTerminal, childReleased, shellEnds
  <2>2. ChildOK'
    <3>1. CASE childReenable
      BY <3>1 DEF ChildOK, Before, childReenable
    <3>2. CASE childTerminal
      BY <3>2 DEF ChildOK, Before, childTerminal, loginEnvironment
    <3>3. CASE childReleased
      BY <3>3 DEF ChildOK, ServerTypeOK, Servers, Before, childReleased
    <3>4. CASE shellEnds
      BY <3>4 DEF ChildOK, Before, shellEnds
    <3> QED
      BY <1>6, <3>1, <3>2, <3>3, <3>4
  <2> QED
    BY <2>1, <2>2 DEF ServerOK
<1>7. CASE serveLoop
  <2>1. PICK received \in {"nothing", "part", "state"}, signal \in {"none", "term", "usr1"}, atEnd \in BOOLEAN :
          serveTurn(received, atEnd, signal)
    BY <1>7 DEF serveLoop
  <2> QED
    BY <1>7, <2>1, TurnInductive DEF serveLoop
<1>8. CASE strayDatagram
  <2>1. sleepTime(server, age) \in Nat
    BY SleepTimeFact DEF ServerTypeOK
  <2> QED
    <3>1. /\ server' \in Servers /\ server'.proc = "serving" /\ server'.cut /\ server'.num = server.num
          /\ server'.pipe = server.pipe /\ server'.addr = server.addr
      BY <1>8, <2>1 DEF ServerTypeOK, Servers, strayDatagram
    <3>2. server.proc = "serving" /\ slept' = 0 /\ UNCHANGED <<child, utmp, age, env>>
      BY <1>8 DEF strayDatagram
    <3>3. SleepOK'
      BY <3>1, <3>2 DEF SleepOK, Servers
    <3> QED
      BY <3>1, <3>2, <3>3 DEF ServerOK, ServerTypeOK, ChildOK, RecordOK, Before
<1>9. CASE closeMaster
  BY <1>9 DEF ServerOK, ServerTypeOK, ChildOK, SleepOK, RecordOK, Servers, Before, closeMaster, hangup
<1>10. CASE serverExit
  BY <1>10 DEF ServerOK, ServerTypeOK, ChildOK, SleepOK, RecordOK, Servers, Before, serverExit
<1>11. CASE serverKilled
  <2>1. CASE server.proc = "serving"
    BY <1>11, <2>1 DEF ServerOK, ServerTypeOK, ChildOK, SleepOK, RecordOK, Servers, Before, serverKilled
  <2>2. CASE server.proc = "killed"
    BY <1>11, <2>2 DEF ServerOK, ServerTypeOK, ChildOK, SleepOK, RecordOK, Servers, Before, serverKilled, hangup
  <2> QED
    BY <1>11, <2>1, <2>2 DEF serverKilled
<1>12. CASE tickServer
  <2>1. age' \in 0..Endless /\ age' <= age + 1
    BY <1>12, ConstantsFact DEF tickServer, grown, ServerTypeOK
  <2>2. SleepOK'
    BY <1>12, <2>1, ConstantsFact DEF tickServer, SleepOK, Remaining, ServerTypeOK, Servers
  <2>3. ServerTypeOK'
    <3>1. slept' \in Nat
      BY <1>12 DEF tickServer, ServerTypeOK
    <3> QED
      BY <1>12, <2>1, <3>1 DEF tickServer, ServerTypeOK, Servers
  <2>4. ChildOK'
    BY <1>12 DEF tickServer, ChildOK, Before
  <2>5. RecordOK'
    BY <1>12 DEF tickServer, RecordOK
  <2> QED
    BY <2>2, <2>3, <2>4, <2>5 DEF ServerOK
<1> QED
  BY <1>1, <1>2, <1>3, <1>4, <1>5, <1>6, <1>7, <1>8, <1>9, <1>10, <1>11, <1>12
     DEF StartupNext, LauncherNext, ServerNext, startupVars, launcherVars, serverVars, parseArguments, queryColors,
         startSsh, openPipe, readLine, readEnd, resolveNumeric, startClient, clientEnds, reapClient, terminalCloses, sshEnds

-----------------------------------------------------------------------------
\* The invariant holds in every state of every session, whatever surrounds it
\* (mosh-launcher.cc, mosh-server.cc:385-965).
THEOREM StartupInvariant == StartupSpec => []StartupInv
<1>1. StartupInit => StartupInv
  <2> SUFFICES ASSUME StartupInit PROVE StartupInv
    OBVIOUS
  <2>1. LauncherOK
    BY DEF StartupInit, LauncherOK
  <2>2. ServerTypeOK
    <3>1. server \in Servers
      BY DEF StartupInit, Servers
    <3>2. 0 \in 0..Endless /\ 0 \in Nat
      BY ConstantsFact
    <3>3. utmp \in {"none", "detached", "connected"} /\ env \in Environs
      BY DEF StartupInit
    <3> QED
      BY <3>1, <3>2, <3>3 DEF StartupInit, ServerTypeOK
  <2>3. ChildOK
    BY DEF StartupInit, ChildOK, Before
  <2>4. SleepOK /\ RecordOK
    BY DEF StartupInit, SleepOK, RecordOK
  <2> QED
    BY <2>1, <2>2, <2>3, <2>4 DEF StartupInv
<1>2. StartupInv /\ [StartupNext]_startupVars => StartupInv'
  BY LauncherInductive, ServerInductive DEF StartupInv, ServerOK
<1> QED
  BY <1>1, <1>2, PTL DEF StartupSpec

\* No shell runs on a host to which no client ever connected, unless the
\* server was killed (run_server, mosh-server.cc:612-676).
THEOREM NoShellWithoutClient == StartupSpec => []ShellOnlyForClient
<1>1. StartupInv => ShellOnlyForClient
  BY DEF StartupInv, ChildOK, ShellOnlyForClient
<1> QED
  BY <1>1, StartupInvariant, PTL

\* Whichever way the launcher returns, its ssh was waited for, and no other
\* process was sent a signal (mosh-launcher.cc:45-53, 334-347, 381-392).
THEOREM LauncherLeavesNoSsh == StartupSpec => []SshReaped
<1>1. StartupInv => SshReaped
  BY DEF StartupInv, LauncherOK, SshReaped
<1> QED
  BY <1>1, StartupInvariant, PTL

\* A server without a client ends within timeout_if_no_client and one sleep,
\* an idle one when it was told to (mosh-server.cc:716-739, 886-908, 943-948).
THEOREM SilenceEndsServer == StartupSpec => []SilentServerEnds
<1>1. StartupInv => SilentServerEnds
  BY ConstantsFact DEF StartupInv, ServerTypeOK, Servers, SleepOK, Remaining, SilentServerEnds
<1> QED
  BY <1>1, StartupInvariant, PTL

\* The record of the terminal says connected at most UTMP_LATE and a heartbeat
\* after the client's latest state, and none outlives the server
\* (mosh-server.cc:655-668, 808-849, 925-936).
THEOREM RecordIsHonest == StartupSpec => []UtmpHonest
<1>1. StartupInv => UtmpHonest
  BY ConstantsFact DEF StartupInv, ServerTypeOK, Servers, SleepOK, RecordOK, Remaining, UtmpHonest
<1> QED
  BY <1>1, StartupInvariant, PTL
=============================================================================
