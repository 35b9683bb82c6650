--------------------------- MODULE SshAgent_proofs ---------------------------
(***************************************************************************)
(* The SSH agent for any number of clients, accept threads, managers and   *)
(* keys, and every value of its limits: the client count is exact, one     *)
(* fingerprint lets out one signature, and no signature counter is used    *)
(* twice.                                                                  *)
(***************************************************************************)
EXTENDS SshAgent, FiniteSetTheorems, TLAPS

(***************************************************************************)
(* The inductive invariant.                                                *)
(***************************************************************************)
WorkerType ==
  [at : {"free", "loop", "read", "do", "await", "count", "sign"},
   op : {None, "list", "add", "remove", "removeAll", "sign"}, key : Keys \cup {None}, id : 0..MaxRequests,
   attempt : 0..(MaxAttempts - 1), count : Nat, late : BOOLEAN]
AcceptorType == [at : {"dead", "check", "deref", "accept", "admit"}, on : 0..MaxStarts]
ManagerType ==
  [at : {"free", "start", "stop", "addAll", "unlockPref", "unlockServer", "stopClose", "stopClear", "addCheck",
         "addKey", "add", "lockServer"},
   then : {"free", "addCheck"}, lock : BOOLEAN, todo : SUBSET Keys, key : Keys \cup {None}]

\* The fields the manager's threads write.
ServerOK ==
  /\ running \in BOOLEAN /\ locked \in BOOLEAN /\ prefLocked \in BOOLEAN /\ crashed \in BOOLEAN
  /\ keys \in SUBSET Keys
  /\ socket \in 0..MaxStarts /\ starts \in 0..MaxStarts

\* Who is inside a synchronized method holds the monitor; what is between a
\* start and the thread it schedules has started but not scheduled yet.
MonitorOK ==
  /\ manager \in [Managers -> ManagerType] /\ managerMonitor \in Managers \cup {None}
  /\ \A m \in Managers : manager[m].at \notin {"free", "lockServer"} => managerMonitor = m
  /\ \A m \in Managers : manager[m].at = "add" => manager[m].key \in Keys
  /\ autoloads \in 0..starts
  /\ \A m \in Managers : manager[m].at \in {"unlockPref", "unlockServer"} => autoloads < starts

\* The threads that serve clients, and their number.
Busy == {c \in Clients : worker[c].at # "free"}
Met == {a \in Acceptors : acceptor[a].at = "admit"}
ClientsOK ==
  /\ acceptor \in [Acceptors -> AcceptorType]
  /\ activeClients \in Nat
  /\ activeClients = Cardinality(Busy) + Cardinality(Met) /\ Cardinality(Busy) <= MaxClients

\* A worker that asked for a fingerprint and has not replied yet.
Asking == {c \in Clients : worker[c].at \in {"await", "count", "sign"}}

\* The requests: numbered without gaps, pending until they are answered or
\* given up, and each of one worker.
RequestsOK ==
  /\ worker \in [Clients -> WorkerType]
  /\ \E n \in 0..MaxRequests : DOMAIN prompt = 1..n
  /\ DOMAIN pending \subseteq DOMAIN prompt
  /\ \A i \in DOMAIN pending : pending[i] \in {"waiting", "yes", "no"}
  /\ \A i \in DOMAIN prompt : prompt[i] \in {"posted", "shown", "dismissed", "done"}
  /\ pending = [i \in DOMAIN pending |-> pending[i]] /\ prompt = [i \in DOMAIN prompt |-> prompt[i]]
  /\ confirmed \subseteq DOMAIN prompt
  /\ \A i \in DOMAIN pending : pending[i] = "yes" => i \in confirmed
  /\ \A c \in Asking : worker[c].id \in DOMAIN prompt /\ worker[c].key \in SkKeys
  /\ \A c, d \in Asking : worker[c].id = worker[d].id => c = d
  /\ \A c \in Clients : worker[c].at = "await" => worker[c].id \in DOMAIN pending
  /\ \A c \in Clients : worker[c].at \in {"count", "sign"} => worker[c].id \in confirmed
  /\ \A c \in Clients : worker[c].at \in {"do", "await", "count", "sign"} => worker[c].key \in Keys

\* The signatures: of a request that nobody works on any more, with a counter
\* that was taken and that no worker holds.
SignaturesOK ==
  /\ counter \in [SkKeys -> Nat]
  /\ \A s \in signatures : s.id \in confirmed /\ s.key \in SkKeys /\ s.count \in Nat /\ s.count <= counter[s.key]
  /\ \A s, t \in signatures : s.id = t.id => s = t
  /\ \A s, t \in signatures : s.key = t.key /\ s.count = t.count => s = t
  /\ \A s \in signatures : \A c \in Asking : worker[c].id # s.id
  /\ \A c \in Clients : worker[c].at = "sign" =>
       /\ worker[c].count <= counter[worker[c].key]
       /\ \A s \in signatures : s.key = worker[c].key => s.count # worker[c].count
       /\ \A d \in Clients : d # c /\ worker[d].at = "sign" /\ worker[d].key = worker[c].key
                              => worker[d].count # worker[c].count

AgentInv == ServerOK /\ MonitorOK /\ ClientsOK /\ RequestsOK /\ SignaturesOK
-----------------------------------------------------------------------------
\* The bounds are natural numbers and at least one attempt is made.
LEMMA BoundsFact ==
  MaxClients \in Nat /\ MaxAttempts \in Nat /\ MaxAttempts > 0 /\ MaxRequests \in Nat /\ MaxStarts \in Nat
BY BoundsAssumption DEF BoundsAssumption

\* An idle worker is a worker.
LEMMA IdleFact ==
  /\ Idle \in WorkerType
  /\ [Idle EXCEPT !.at = "loop"] \in WorkerType
<1>1. 0 \in 0..MaxRequests /\ 0 \in 0..(MaxAttempts - 1) /\ 0 \in Nat
  BY BoundsFact
<1> QED
  BY <1>1 DEF Idle, WorkerType

-----------------------------------------------------------------------------
\* Every step of the manager's threads keeps the types and the monitor.
LEMMA ServerInductive ==
  ASSUME AgentInv, [AgentNext]_agentVars
  PROVE  ServerOK'
<1> USE BoundsFact
<1>1. CASE \E c \in Clients : identityRequest(c)
  BY <1>1 DEF AgentInv, ServerOK, RequestsOK, identityRequest, workerFrame, server, WorkerType, workerAt
<1>2. CASE \E m \in Managers : startAgent(m)
  <2>1. starts' \in 0..MaxStarts /\ socket' \in 0..MaxStarts
    BY <1>2 DEF AgentInv, ServerOK, startAgent, server
  <2>2. running' \in BOOLEAN /\ locked' \in BOOLEAN /\ UNCHANGED <<prefLocked, crashed, keys>>
    BY <1>2, Zenon DEF AgentInv, ServerOK, startAgent, server
  <2> QED
    BY <2>1, <2>2 DEF AgentInv, ServerOK
<1>3. CASE \E m \in Managers : startUnlockPref(m) \/ startUnlockServer(m) \/ stopAgent(m) \/ stopClose(m) \/ stopClear(m)
  <2>1. starts' = starts /\ socket' \in {socket, 0}
    BY <1>3, Zenon DEF startUnlockPref, startUnlockServer, stopAgent, stopClose, stopClear, server
  <2>2. /\ running' \in BOOLEAN /\ locked' \in BOOLEAN /\ prefLocked' \in BOOLEAN /\ UNCHANGED crashed
        /\ keys' \in {keys, {}}
    BY <1>3, Zenon DEF AgentInv, ServerOK, startUnlockPref, startUnlockServer, stopAgent, stopClose, stopClear,
                      managerFrame, server
  <2> QED
    BY <2>1, <2>2 DEF AgentInv, ServerOK
<1>4. CASE \E m \in Managers : addKey(m)
  BY <1>4 DEF AgentInv, ServerOK, MonitorOK, addKey, managerFrame, managerAt, server
<1>5. CASE \E m \in Managers : setLocked(m) \/ lockServer(m)
  <2>1. \A m \in Managers : manager[m].lock \in BOOLEAN
    BY DEF AgentInv, MonitorOK, ManagerType
  <2>2. /\ locked' \in BOOLEAN /\ prefLocked' \in BOOLEAN
        /\ UNCHANGED <<server, crashed, keys>>
    BY <1>5, <2>1, Zenon DEF AgentInv, ServerOK, setLocked, lockServer, managerFrame
  <2> QED
    BY <2>2 DEF AgentInv, ServerOK, server
<1>6. CASE \E a \in Acceptors : acceptDeref(a)
  BY <1>6 DEF AgentInv, ServerOK, acceptDeref, server
<1>7. CASE UNCHANGED <<server, locked, keys, prefLocked, crashed>>
  BY <1>7 DEF AgentInv, ServerOK, server
<1> QED
  BY <1>1, <1>2, <1>3, <1>4, <1>5, <1>6, <1>7
     DEF AgentNext, Accept, ServeClient, Ui, Manage, agentVars, gate, acceptCheck, acceptClient, acceptClosed, admit,
         request, disconnect, loop, signFileKey, awaitBiometricAuth, biometricAnswered, biometricTimeout, takeCounter,
         signSecurityKeyOnce, launchPrompt, onAuthenticationSucceeded, onAuthenticationError, finishPrompt, answerable, promptFrame,
         workerFrame, callManager, autoLoad, addAllKeys, addCheck, addKeyCheck, managerFrame

\* What a step of a manager's thread m may do: enter the monitor, go on in it,
\* leave it, or run outside (setLocked).  Then the monitor still excludes.
LEMMA MonitorStep ==
  ASSUME AgentInv, NEW m \in Managers, NEW r \in ManagerType, manager' = [manager EXCEPT ![m] = r],
         r.at = "add" => r.key \in Keys,
         \/ managerMonitor = m /\ managerMonitor' = None /\ r.at = "free"
         \/ managerMonitor \in {m, None} /\ managerMonitor' = m
         \/ manager[m].at = "free" /\ r.at = "lockServer" /\ managerMonitor' = managerMonitor
         \/ manager[m].at = "lockServer" /\ r.at = "free" /\ managerMonitor' = managerMonitor,
         starts' \in 0..MaxStarts, autoloads' \in 0..starts',
         (autoloads' <= autoloads /\ starts' >= starts) \/ managerMonitor = m,
         r.at \in {"unlockPref", "unlockServer"} => autoloads' < starts'
  PROVE  MonitorOK'
<1> USE DEF AgentInv
<1>1. manager' \in [Managers -> ManagerType] /\ managerMonitor' \in Managers \cup {None}
  BY DEF MonitorOK
<1>2. \A d \in Managers : manager'[d] = IF d = m THEN r ELSE manager[d]
  BY DEF MonitorOK
<1>3. None \notin Managers
  BY ThreadsAssumption DEF ThreadsAssumption
<1>4. ASSUME NEW d \in Managers, manager'[d].at \notin {"free", "lockServer"} PROVE managerMonitor' = d
  BY <1>2, <1>3, <1>4 DEF MonitorOK
<1>5. ASSUME NEW d \in Managers, manager'[d].at = "add" PROVE manager'[d].key \in Keys
  BY <1>2, <1>5 DEF MonitorOK
<1>6. ASSUME NEW d \in Managers, manager'[d].at \in {"unlockPref", "unlockServer"} PROVE autoloads' < starts'
  <2>1. CASE d = m
    BY <1>2, <1>6, <2>1
  <2>2. CASE d # m
    <3>1. manager[d].at \in {"unlockPref", "unlockServer"}
      BY <1>2, <1>6, <2>2
    <3>2. managerMonitor = d /\ autoloads < starts
      BY <3>1 DEF MonitorOK
    <3>3. autoloads' <= autoloads /\ starts' >= starts
      BY <3>2, <2>2
    <3>4. autoloads \in Nat /\ starts \in Nat /\ autoloads' \in Nat /\ starts' \in Nat
      BY BoundsFact DEF MonitorOK, ServerOK
    <3> QED
      BY <3>2, <3>3, <3>4
  <2> QED
    BY <2>1, <2>2
<1> QED
  BY <1>1, <1>4, <1>5, <1>6 DEF MonitorOK

\* The monitor excludes, so no two threads are between a start and the thread
\* it schedules (SshAgentManager.startAgent, scheduleAutoLoad).
LEMMA MonitorInductive ==
  ASSUME AgentInv, [AgentNext]_agentVars
  PROVE  MonitorOK'
<1>0. /\ manager \in [Managers -> ManagerType] /\ starts \in 0..MaxStarts /\ autoloads \in 0..starts
      /\ starts \in Nat /\ autoloads \in Nat /\ MaxStarts \in Nat
      /\ \A m \in Managers : manager[m].at \notin {"free", "lockServer"} => managerMonitor = m
      /\ \A m \in Managers : manager[m].at \in {"unlockPref", "unlockServer"} => autoloads < starts
  BY BoundsFact DEF AgentInv, MonitorOK, ServerOK
<1>a. NoOp \in ManagerType /\ NoOp.at = "free"
  BY DEF NoOp, ManagerType
<1>1. ASSUME NEW m \in Managers, callManager(m) \/ autoLoad(m) PROVE MonitorOK'
  <2>1. PICK op \in {"start", "stop", "addAll"} : manager' = [manager EXCEPT ![m] = [NoOp EXCEPT !.at = op]]
    BY <1>1 DEF callManager, autoLoad
  <2>2. [NoOp EXCEPT !.at = op] \in ManagerType /\ [NoOp EXCEPT !.at = op].at = op
    BY DEF NoOp, ManagerType
  <2>3. managerMonitor = None /\ managerMonitor' = m /\ starts' = starts /\ autoloads' \in {autoloads, autoloads - 1} /\ autoloads' \in Nat
    BY <1>0, <1>1 DEF callManager, autoLoad, server
  <2>4. starts' \in 0..MaxStarts /\ autoloads' \in 0..starts' /\ autoloads' <= autoloads /\ starts' >= starts
    BY <1>0, <2>3
  <2> QED
    BY <2>1, <2>2, <2>3, <2>4, MonitorStep
<1>2. ASSUME NEW m \in Managers, startAgent(m) PROVE MonitorOK'
  <2>1. managerMonitor = m /\ manager[m].at = "start" /\ autoloads' = autoloads
    BY <1>0, <1>2 DEF startAgent, managerAt
  <2>2. CASE agentIsRunning
    <3>1. starts' = starts
      BY <1>2, <2>2 DEF startAgent, server
    <3>2. CASE manager[m].then = "free"
      BY <1>0, <1>a, <1>2, <2>1, <2>2, <3>1, <3>2, MonitorStep DEF startAgent, leave
    <3>3. CASE manager[m].then # "free"
      <4>1. [manager[m] EXCEPT !.at = "addCheck"] \in ManagerType
        BY <1>0 DEF ManagerType
      <4>2. manager[m].then = "addCheck"
        BY <1>0, <3>3 DEF ManagerType
      <4>3. manager' = [manager EXCEPT ![m] = [manager[m] EXCEPT !.at = "addCheck"]] /\ managerMonitor' = m
        BY <1>0, <1>2, <2>1, <2>2, <3>3, <4>2 DEF startAgent, goOn
      <4> QED
        BY <1>0, <2>1, <3>1, <4>1, <4>3, MonitorStep DEF ManagerType
    <3> QED
      BY <3>2, <3>3
  <2>3. CASE ~agentIsRunning
    <3>1. starts' = starts + 1 /\ starts < MaxStarts
      BY <1>2, <2>3 DEF startAgent
    <3>2. [manager[m] EXCEPT !.at = "unlockPref"] \in ManagerType
      BY <1>0 DEF ManagerType
    <3>3. manager' = [manager EXCEPT ![m] = [manager[m] EXCEPT !.at = "unlockPref"]] /\ managerMonitor' = m
      BY <1>0, <1>2, <2>1, <2>3 DEF startAgent, goOn
    <3>4. starts' \in 0..MaxStarts /\ autoloads' \in 0..starts' /\ autoloads' < starts'
      BY <1>0, <2>1, <3>1
    <3>5. [manager[m] EXCEPT !.at = "unlockPref"].at = "unlockPref"
      BY <1>0 DEF ManagerType
    <3> QED
      BY <2>1, <3>2, <3>3, <3>4, <3>5, MonitorStep
  <2> QED
    BY <2>2, <2>3
<1>3. ASSUME NEW m \in Managers, startUnlockPref(m) \/ stopAgent(m) \/ stopClose(m) PROVE MonitorOK'
  <2>1. PICK p \in {"unlockServer", "stopClose", "stopClear"} :
          manager' = [manager EXCEPT ![m].at = p] /\ (p = "unlockServer" => manager[m].at = "unlockPref")
    BY <1>3 DEF startUnlockPref, stopAgent, stopClose, goOn, managerAt
  <2>2. managerMonitor = m /\ managerMonitor' = m /\ starts' = starts /\ autoloads' = autoloads
    BY <1>0, <1>3 DEF startUnlockPref, stopAgent, stopClose, goOn, managerAt, server
  <2>3. [manager[m] EXCEPT !.at = p] \in ManagerType
    BY <1>0 DEF ManagerType
  <2>4. manager' = [manager EXCEPT ![m] = [manager[m] EXCEPT !.at = p]]
    BY <1>0, <2>1
  <2> QED
    BY <1>0, <2>1, <2>2, <2>3, <2>4, MonitorStep DEF ManagerType
<1>4. ASSUME NEW m \in Managers, startUnlockServer(m) PROVE MonitorOK'
  <2>1. managerMonitor = m /\ manager[m].at = "unlockServer" /\ starts' = starts /\ autoloads' = autoloads + 1
    BY <1>0, <1>4 DEF startUnlockServer, managerAt, server
  <2>2. autoloads' \in 0..starts'
    BY <1>0, <2>1
  <2>3. CASE manager[m].then = "free"
    BY <1>0, <1>a, <1>4, <2>1, <2>2, <2>3, MonitorStep DEF startUnlockServer, leave
  <2>4. CASE manager[m].then # "free"
    <3>1. [manager[m] EXCEPT !.at = "addCheck"] \in ManagerType
      BY <1>0 DEF ManagerType
    <3>2. manager[m].then = "addCheck"
      BY <1>0, <2>4 DEF ManagerType
    <3>3. manager' = [manager EXCEPT ![m] = [manager[m] EXCEPT !.at = "addCheck"]] /\ managerMonitor' = m
      BY <1>0, <1>4, <2>1, <2>4, <3>2 DEF startUnlockServer, goOn
    <3> QED
      BY <1>0, <2>1, <2>2, <3>1, <3>3, MonitorStep DEF ManagerType
  <2> QED
    BY <2>3, <2>4
<1>5. ASSUME NEW m \in Managers, stopClear(m) PROVE MonitorOK'
  <2>1. managerMonitor = m /\ starts' = starts /\ autoloads' = autoloads
    BY <1>0, <1>5 DEF stopClear, managerAt, server
  <2> QED
    BY <1>0, <1>a, <1>5, <2>1, MonitorStep DEF stopClear, leave
<1>6. ASSUME NEW m \in Managers, addAllKeys(m) \/ addCheck(m) \/ addKeyCheck(m) \/ addKey(m) PROVE MonitorOK'
  <2>1. managerMonitor = m /\ starts' = starts /\ autoloads' = autoloads
    BY <1>0, <1>6 DEF addAllKeys, addCheck, addKeyCheck, addKey, managerAt, server
  <2>2. CASE leave(m)
    BY <1>0, <1>a, <2>1, <2>2, MonitorStep DEF leave
  <2>3. CASE goOn(m, "addCheck") \/ goOn(m, "addKey")
    <3>1. PICK p \in {"addCheck", "addKey"} : manager' = [manager EXCEPT ![m].at = p] /\ managerMonitor' = m
      BY <2>1, <2>3 DEF goOn
    <3>2. [manager[m] EXCEPT !.at = p] \in ManagerType
      BY <1>0 DEF ManagerType
    <3>3. manager' = [manager EXCEPT ![m] = [manager[m] EXCEPT !.at = p]]
      BY <1>0, <3>1
    <3> QED
      BY <1>0, <2>1, <3>1, <3>2, <3>3, MonitorStep DEF ManagerType
  <2>4. CASE manager' = [manager EXCEPT ![m].at = "start", ![m].then = "addCheck"] /\ UNCHANGED managerMonitor
    <3>1. [manager[m] EXCEPT !.at = "start", !.then = "addCheck"] \in ManagerType
      BY <1>0 DEF ManagerType
    <3>2. manager' = [manager EXCEPT ![m] = [manager[m] EXCEPT !.at = "start", !.then = "addCheck"]]
      BY <1>0, <2>4
    <3> QED
      BY <1>0, <2>1, <2>4, <3>1, <3>2, MonitorStep DEF ManagerType
  <2>5. CASE manager' = [manager EXCEPT ![m].at = "addKey", ![m].todo = Keys] /\ UNCHANGED managerMonitor
    <3>1. [manager[m] EXCEPT !.at = "addKey", !.todo = Keys] \in ManagerType
      BY <1>0 DEF ManagerType
    <3>2. manager' = [manager EXCEPT ![m] = [manager[m] EXCEPT !.at = "addKey", !.todo = Keys]]
      BY <1>0, <2>5
    <3> QED
      BY <1>0, <2>1, <2>5, <3>1, <3>2, MonitorStep DEF ManagerType
  <2>6. CASE \E k \in manager[m].todo :
          /\ manager' = [manager EXCEPT ![m].todo = @ \ {k}, ![m].key = k,
                                        ![m].at = IF prefLocked THEN "addKey" ELSE "add"]
          /\ UNCHANGED managerMonitor
    <3>1. PICK k \in manager[m].todo :
            manager' = [manager EXCEPT ![m].todo = @ \ {k}, ![m].key = k, ![m].at = IF prefLocked THEN "addKey" ELSE "add"]
      BY <2>6
    <3>2. PICK p \in {"addKey", "add"} : p = IF prefLocked THEN "addKey" ELSE "add"
      OBVIOUS
    <3>3. k \in Keys
      BY <1>0 DEF ManagerType
    <3>4. [manager[m] EXCEPT !.todo = @ \ {k}, !.key = k, !.at = p] \in ManagerType
      BY <1>0, <3>3 DEF ManagerType
    <3>5. manager' = [manager EXCEPT ![m] = [manager[m] EXCEPT !.todo = @ \ {k}, !.key = k, !.at = p]]
      BY <1>0, <3>1, <3>2
    <3>6. [manager[m] EXCEPT !.todo = @ \ {k}, !.key = k, !.at = p].at = p /\ [manager[m] EXCEPT !.todo = @ \ {k}, !.key = k, !.at = p].key = k
      BY <1>0 DEF ManagerType
    <3> QED
      BY <1>0, <2>1, <2>6, <3>3, <3>4, <3>5, <3>6, MonitorStep
  <2> QED
    BY <1>6, <2>2, <2>3, <2>4, <2>5, <2>6 DEF addAllKeys, addCheck, addKeyCheck, addKey
<1>7. ASSUME NEW m \in Managers, setLocked(m) PROVE MonitorOK'
  <2>1. PICK b \in BOOLEAN : manager' = [manager EXCEPT ![m] = [NoOp EXCEPT !.at = "lockServer", !.lock = b]]
    BY <1>7 DEF setLocked
  <2>2. [NoOp EXCEPT !.at = "lockServer", !.lock = b] \in ManagerType
    BY DEF NoOp, ManagerType
  <2>3. [NoOp EXCEPT !.at = "lockServer", !.lock = b].at = "lockServer"
    BY DEF NoOp
  <2>4. manager[m].at = "free" /\ UNCHANGED <<managerMonitor, starts, autoloads>>
    BY <1>7 DEF setLocked, managerAt, server
  <2>5. starts' \in 0..MaxStarts /\ autoloads' \in 0..starts' /\ autoloads' <= autoloads /\ starts' >= starts
    BY <1>0, <2>4
  <2> QED
    BY <2>1, <2>2, <2>3, <2>4, <2>5, MonitorStep
<1>8. ASSUME NEW m \in Managers, lockServer(m) PROVE MonitorOK'
  <2>1. manager' = [manager EXCEPT ![m] = NoOp] /\ manager[m].at = "lockServer" /\ UNCHANGED <<managerMonitor, starts, autoloads>>
    BY <1>8 DEF lockServer, managerAt, server
  <2>2. starts' \in 0..MaxStarts /\ autoloads' \in 0..starts' /\ autoloads' <= autoloads /\ starts' >= starts
    BY <1>0, <2>1
  <2> QED
    BY <1>a, <2>1, <2>2, MonitorStep
<1>9. CASE UNCHANGED <<starts, manager, managerMonitor, autoloads>>
  BY <1>9 DEF AgentInv, MonitorOK
<1> QED
  BY <1>1, <1>2, <1>3, <1>4, <1>5, <1>6, <1>7, <1>8, <1>9
     DEF AgentNext, Accept, ServeClient, Ui, Manage, agentVars, gate, acceptCheck, acceptDeref, acceptClient, acceptClosed,
         admit, request, disconnect, loop, identityRequest, signFileKey, awaitBiometricAuth, biometricAnswered,
         biometricTimeout, takeCounter, signSecurityKeyOnce, launchPrompt, onAuthenticationSucceeded,
         onAuthenticationError, finishPrompt, answerable, promptFrame, workerFrame, server
-----------------------------------------------------------------------------
\* There are finitely many threads.
LEMMA FiniteFact ==
  /\ IsFiniteSet(Busy) /\ IsFiniteSet(Met) /\ Cardinality(Busy) \in Nat /\ Cardinality(Met) \in Nat
  /\ Cardinality(Met) <= Cardinality(Acceptors) /\ Cardinality(Acceptors) \in Nat
<1>1. IsFiniteSet(Clients) /\ IsFiniteSet(Acceptors)
  BY ThreadsAssumption DEF ThreadsAssumption
<1>2. Busy \subseteq Clients /\ Met \subseteq Acceptors
  BY DEF Busy, Met
<1> QED
  BY <1>1, <1>2, FS_Subset, FS_CardinalityType

\* A worker goes from one of its places to another: r is what it does next.
WorkerGoes(c, r) ==
  /\ worker' = [worker EXCEPT ![c] = r] /\ r \in WorkerType /\ worker[c].at # "free"

\* Everything a worker does, with the clients' count: it stays busy, or its
\* connection ends and it is free (handleClient).
LEMMA WorkerStep ==
  ASSUME AgentInv, NEW c \in Clients, request(c) \/ disconnect(c) \/ ServeClient(c)
  PROVE  /\ UNCHANGED <<acceptor, starts>>
         /\ \E r \in WorkerType : WorkerGoes(c, r) /\ activeClients' = IF r.at = "free" THEN activeClients - 1 ELSE activeClients
<1>0. worker \in [Clients -> WorkerType] /\ counter \in [SkKeys -> Nat] /\ locked \in BOOLEAN
  BY DEF AgentInv, RequestsOK, SignaturesOK, ServerOK
<1>a. /\ Idle \in WorkerType /\ Idle.at = "free"
      /\ [Idle EXCEPT !.at = "loop"] \in WorkerType /\ [Idle EXCEPT !.at = "loop"].at = "loop"
  BY IdleFact DEF Idle
<1>1. CASE loop(c)
  <2>1. CASE running
    <3>1. [worker[c] EXCEPT !.at = "read"] \in WorkerType /\ [worker[c] EXCEPT !.at = "read"].at = "read"
      BY <1>0 DEF WorkerType
    <3>2. worker' = [worker EXCEPT ![c] = [worker[c] EXCEPT !.at = "read"]]
      BY <1>0, <1>1, <2>1 DEF loop
    <3> QED
      BY <1>1, <2>1, <3>1, <3>2 DEF loop, workerAt, WorkerGoes, workerFrame, server
  <2>2. CASE ~running
    BY <1>1, <1>a, <2>2 DEF loop, workerAt, WorkerGoes, workerFrame, server
  <2> QED
    BY <2>1, <2>2
<1>2. CASE disconnect(c)
  BY <1>2, <1>a DEF disconnect, workerAt, WorkerGoes, workerFrame, server
<1>3. CASE request(c)
  <2>1. PICK op \in {"list", "add", "remove", "removeAll", "sign"}, k \in Keys :
          worker' = [worker EXCEPT ![c] = IF locked THEN [Idle EXCEPT !.at = "loop"]
                                           ELSE [Idle EXCEPT !.at = "do", !.op = op, !.key = k]]
    BY <1>3 DEF request
  <2>2. [Idle EXCEPT !.at = "do", !.op = op, !.key = k] \in WorkerType
    <3>1. 0 \in 0..MaxRequests /\ 0 \in 0..(MaxAttempts - 1) /\ 0 \in Nat
      BY BoundsFact
    <3> QED
      BY <3>1 DEF Idle, WorkerType
  <2>3. [Idle EXCEPT !.at = "do", !.op = op, !.key = k].at = "do"
    BY DEF Idle
  <2> QED
    BY <1>3, <1>a, <2>1, <2>2, <2>3 DEF request, workerAt, WorkerGoes, workerFrame, server
<1>4. CASE ServeClient(c) /\ reply(c) /\ ~loop(c)
  BY <1>4, <1>a DEF ServeClient, reply, identityRequest, signFileKey, awaitBiometricAuth, biometricAnswered, biometricTimeout,
                    takeCounter, signSecurityKeyOnce, workerAt, WorkerGoes, workerFrame, server
<1>5. CASE awaitBiometricAuth(c) /\ ~reply(c)
  <2>1. PICK id \in Ids : worker' = [worker EXCEPT ![c].at = "await", ![c].id = id]
    BY <1>5 DEF awaitBiometricAuth
  <2>2. [worker[c] EXCEPT !.at = "await", !.id = id] \in WorkerType
    <3>1. id \in 0..MaxRequests
      BY BoundsFact DEF Ids
    <3> QED
      BY <1>0, <3>1 DEF WorkerType
  <2>3. worker' = [worker EXCEPT ![c] = [worker[c] EXCEPT !.at = "await", !.id = id]]
    BY <1>0, <2>1
  <2>4. [worker[c] EXCEPT !.at = "await", !.id = id].at = "await"
    BY <1>0 DEF WorkerType
  <2> QED
    BY <1>5, <2>2, <2>3, <2>4 DEF awaitBiometricAuth, workerAt, WorkerGoes, workerFrame, server
<1>6. CASE biometricAnswered(c) /\ ~reply(c)
  <2>1. worker' = [worker EXCEPT ![c] = [worker[c] EXCEPT !.at = "count", !.late = locked]]
    BY <1>0, <1>6 DEF biometricAnswered
  <2>2. [worker[c] EXCEPT !.at = "count", !.late = locked] \in WorkerType
    BY <1>0 DEF WorkerType
  <2>3. [worker[c] EXCEPT !.at = "count", !.late = locked].at = "count"
    BY <1>0 DEF WorkerType
  <2> QED
    BY <1>6, <2>1, <2>2, <2>3 DEF biometricAnswered, workerAt, WorkerGoes, workerFrame, server
<1>7. CASE takeCounter(c)
  <2>1. worker[c].key \in SkKeys
    BY <1>7 DEF takeCounter, workerAt, AgentInv, RequestsOK, Asking
  <2>2. counter[worker[c].key] + 1 \in Nat
    BY <1>0, <2>1
  <2>3. worker' = [worker EXCEPT ![c] = [worker[c] EXCEPT !.at = "sign", !.count = counter[worker[c].key] + 1]]
    BY <1>0, <1>7 DEF takeCounter
  <2>4. [worker[c] EXCEPT !.at = "sign", !.count = counter[worker[c].key] + 1] \in WorkerType
    BY <1>0, <2>2 DEF WorkerType
  <2>5. [worker[c] EXCEPT !.at = "sign", !.count = counter[worker[c].key] + 1].at = "sign"
    BY <1>0 DEF WorkerType
  <2> QED
    BY <1>7, <2>3, <2>4, <2>5 DEF takeCounter, workerAt, WorkerGoes, workerFrame, server
<1>8. CASE signSecurityKeyOnce(c) /\ ~reply(c)
  <2>1. /\ worker[c].attempt + 1 < MaxAttempts /\ worker[c].at = "sign"
        /\ worker' = [worker EXCEPT ![c].at = "count", ![c].attempt = @ + 1]
        /\ UNCHANGED <<activeClients, acceptor, starts>>
    BY <1>8 DEF signSecurityKeyOnce, workerAt, workerFrame, server
  <2>2. worker' = [worker EXCEPT ![c] = [worker[c] EXCEPT !.at = "count", !.attempt = worker[c].attempt + 1]]
    BY <1>0, <2>1
  <2>3. worker[c].attempt + 1 \in 0..(MaxAttempts - 1)
    BY <1>0, <2>1, BoundsFact DEF WorkerType
  <2>4. [worker[c] EXCEPT !.at = "count", !.attempt = worker[c].attempt + 1] \in WorkerType
    BY <1>0, <2>3 DEF WorkerType
  <2>5. [worker[c] EXCEPT !.at = "count", !.attempt = worker[c].attempt + 1].at = "count"
    BY <1>0 DEF WorkerType
  <2> QED
    BY <2>1, <2>2, <2>4, <2>5 DEF WorkerGoes
<1> QED
  BY <1>1, <1>2, <1>3, <1>4, <1>5, <1>6, <1>7, <1>8
     DEF ServeClient, identityRequest, signFileKey, biometricTimeout

-----------------------------------------------------------------------------
\* activeClients stays the number of the threads that serve or admit a client
\* (acceptLoop, handleClient), across stop and start.
LEMMA ClientsInductive ==
  ASSUME AgentInv, [AgentNext]_agentVars
  PROVE  ClientsOK'
<1>0. /\ acceptor \in [Acceptors -> AcceptorType] /\ worker \in [Clients -> WorkerType]
      /\ activeClients = Cardinality(Busy) + Cardinality(Met) /\ Cardinality(Busy) <= MaxClients
      /\ socket \in 0..MaxStarts /\ 0 \in 0..MaxStarts /\ MaxClients \in Nat
  BY BoundsFact DEF AgentInv, ClientsOK, RequestsOK, ServerOK
<1>1. ASSUME NEW a \in Acceptors, acceptCheck(a) \/ acceptDeref(a) \/ acceptClosed(a) PROVE ClientsOK'
  <2>1. acceptor' \in [Acceptors -> AcceptorType]
    BY <1>0, <1>1 DEF acceptCheck, acceptDeref, acceptClosed, AcceptorType
  <2>2. \A b \in Acceptors : acceptor'[b].at = "admit" <=> acceptor[b].at = "admit"
    BY <1>0, <1>1 DEF acceptCheck, acceptDeref, acceptClosed, AcceptorType
  <2>3. Met' = Met /\ Busy' = Busy /\ activeClients' = activeClients
    BY <1>1, <2>2 DEF acceptCheck, acceptDeref, acceptClosed, Met, Busy
  <2> QED
    BY <2>1, <2>3 DEF AgentInv, ClientsOK
<1>2. ASSUME NEW a \in Acceptors, acceptClient(a) PROVE ClientsOK'
  <2>1. acceptor' \in [Acceptors -> AcceptorType]
    BY <1>0, <1>2 DEF acceptClient, AcceptorType
  <2>2. Met' = Met \cup {a} /\ a \notin Met /\ Busy' = Busy /\ activeClients' = activeClients + 1
    BY <1>0, <1>2 DEF acceptClient, Met, Busy, AcceptorType
  <2>3. Cardinality(Met') = Cardinality(Met) + 1
    BY <2>2, FiniteFact, FS_AddElement
  <2> QED
    BY <1>0, <2>1, <2>2, <2>3, FiniteFact DEF ClientsOK
<1>3. ASSUME NEW a \in Acceptors, admit(a) PROVE ClientsOK'
  <2>1. acceptor' \in [Acceptors -> AcceptorType]
    BY <1>0, <1>3 DEF admit, AcceptorType
  <2>2. Met' = Met \ {a} /\ a \in Met
    BY <1>0, <1>3 DEF admit, Met, AcceptorType
  <2>3. Cardinality(Met') = Cardinality(Met) - 1
    BY <2>2, FiniteFact, FS_RemoveElement
  <2>4. Cardinality(Met) >= 1
    <3>1. Cardinality(Met') \in Nat
      BY <2>2, FiniteFact, FS_RemoveElement, FS_CardinalityType
    <3> QED
      BY <2>3, <3>1, FiniteFact
  <2>5. CASE activeClients > MaxClients
    <3>1. Busy' = Busy /\ activeClients' = activeClients - 1
      BY <1>3, <2>5 DEF admit, Busy
    <3> QED
      BY <1>0, <2>1, <2>3, <2>4, <3>1, FiniteFact DEF ClientsOK
  <2>6. CASE ~(activeClients > MaxClients)
    <3>1. PICK c \in Clients : worker[c].at = "free" /\ worker' = [worker EXCEPT ![c].at = "loop"] /\ activeClients' = activeClients
      BY <1>3, <2>6 DEF admit
    <3>2. Busy' = Busy \cup {c} /\ c \notin Busy
      BY <1>0, <3>1 DEF Busy, WorkerType
    <3>3. Cardinality(Busy') = Cardinality(Busy) + 1
      BY <3>2, FiniteFact, FS_AddElement
    <3> QED
      BY <1>0, <2>1, <2>3, <2>4, <2>6, <3>1, <3>3, FiniteFact DEF ClientsOK
  <2> QED
    BY <2>5, <2>6
<1>4. ASSUME NEW c \in Clients, request(c) \/ disconnect(c) \/ ServeClient(c) PROVE ClientsOK'
  <2>1. PICK r \in WorkerType :
          WorkerGoes(c, r) /\ UNCHANGED acceptor /\ activeClients' = IF r.at = "free" THEN activeClients - 1 ELSE activeClients
    BY <1>4, WorkerStep
  <2>2. Met' = Met
    BY <2>1 DEF Met
  <2>3. CASE r.at = "free"
    <3>1. Busy' = Busy \ {c} /\ c \in Busy
      BY <1>0, <2>1, <2>3 DEF Busy, WorkerGoes
    <3>2. Cardinality(Busy') = Cardinality(Busy) - 1 /\ Cardinality(Busy') \in Nat
      BY <3>1, FiniteFact, FS_RemoveElement, FS_CardinalityType
    <3> QED
      BY <1>0, <2>1, <2>2, <2>3, <3>2, FiniteFact DEF ClientsOK
  <2>4. CASE r.at # "free"
    <3>1. Busy' = Busy
      BY <1>0, <2>1, <2>4 DEF Busy, WorkerGoes
    <3> QED
      BY <1>0, <2>1, <2>2, <2>4, <3>1, FiniteFact DEF ClientsOK
  <2> QED
    BY <2>3, <2>4
<1>5. ASSUME NEW m \in Managers, startAgent(m) PROVE ClientsOK'
  <2>1. \/ UNCHANGED acceptor
        \/ \E a \in Acceptors : acceptor[a].at = "dead" /\ acceptor' = [acceptor EXCEPT ![a] = [at |-> "check", on |-> 0]]
    BY <1>5 DEF startAgent
  <2>2. acceptor' \in [Acceptors -> AcceptorType]
    BY <1>0, <2>1 DEF AcceptorType
  <2>3. Met' = Met
    BY <1>0, <2>1 DEF Met
  <2>4. Busy' = Busy /\ activeClients' = activeClients
    BY <1>5 DEF startAgent, Busy
  <2> QED
    BY <2>2, <2>3, <2>4 DEF AgentInv, ClientsOK
<1>6. CASE UNCHANGED <<acceptor, activeClients, worker>>
  BY <1>6 DEF AgentInv, ClientsOK, Busy, Met
<1> QED
  BY <1>1, <1>2, <1>3, <1>4, <1>5, <1>6
     DEF AgentNext, Accept, Ui, Manage, agentVars, launchPrompt, onAuthenticationSucceeded, onAuthenticationError, finishPrompt, answerable, promptFrame,
         callManager, autoLoad, startUnlockPref, startUnlockServer, stopAgent, stopClose, stopClear, addAllKeys, addCheck,
         addKeyCheck, addKey, setLocked, lockServer, managerFrame

-----------------------------------------------------------------------------
\* A step that asks for nothing: nobody begins to ask, and the gate is left
\* alone, so every fact about requests stays.
LEMMA RequestsQuiet ==
  ASSUME AgentInv, NEW c \in Clients, NEW r \in WorkerType, worker' = [worker EXCEPT ![c] = r], UNCHANGED gate,
         r.at \in {"free", "loop", "read", "do"}, r.at = "do" => r.key \in Keys
  PROVE  RequestsOK'
<1>0. \A d \in Clients : worker'[d] = IF d = c THEN r ELSE worker[d]
  BY DEF AgentInv, RequestsOK
<1>1. worker' \in [Clients -> WorkerType]
  BY DEF AgentInv, RequestsOK
<1>2. \A d \in Clients : worker'[d].at \in {"await", "count", "sign"} => worker'[d] = worker[d]
  BY <1>0
<1> QED
  BY <1>0, <1>1, <1>2 DEF AgentInv, RequestsOK, gate, Asking

\* A step from one stage of the signature to another, with the same request.
LEMMA RequestsGoOn ==
  ASSUME AgentInv, NEW c \in Clients, NEW r \in WorkerType, worker' = [worker EXCEPT ![c] = r], UNCHANGED gate,
         worker[c].at \in {"count", "sign"}, r.at \in {"count", "sign"}, r.id = worker[c].id, r.key = worker[c].key
  PROVE  RequestsOK'
<1>0. \A d \in Clients : worker'[d] = IF d = c THEN r ELSE worker[d]
  BY DEF AgentInv, RequestsOK
<1>1. worker' \in [Clients -> WorkerType]
  BY DEF AgentInv, RequestsOK
<1>2. \A d \in Clients : /\ worker'[d].id = worker[d].id /\ worker'[d].key = worker[d].key
                         /\ worker'[d].at \in {"count", "sign"} <=> worker[d].at \in {"count", "sign"}
                         /\ worker'[d].at = "await" <=> worker[d].at = "await"
                         /\ worker'[d].at = "do" <=> worker[d].at = "do"
  BY <1>0
<1> QED
  BY <1>1, <1>2 DEF AgentInv, RequestsOK, gate, Asking

\* Each request is of one worker, is answered by its own prompt, and the
\* worker goes on to sign only when that one was confirmed
\* (awaitBiometricAuth, completeBiometricAuth, BiometricAuthActivity).
LEMMA RequestsInductive ==
  ASSUME AgentInv, [AgentNext]_agentVars
  PROVE  RequestsOK'
<1>0. /\ worker \in [Clients -> WorkerType] /\ counter \in [SkKeys -> Nat]
      /\ \A c \in Clients : worker[c] \in WorkerType
      /\ \A c \in Clients : worker[c].at \in {"do", "await", "count", "sign"} => worker[c].key \in Keys
      /\ Idle.at = "free" /\ [Idle EXCEPT !.at = "loop"].at = "loop"
      /\ Idle \in WorkerType /\ [Idle EXCEPT !.at = "loop"] \in WorkerType
  BY IdleFact DEF AgentInv, RequestsOK, SignaturesOK, Idle
<1>1. ASSUME NEW a \in Acceptors, admit(a) PROVE RequestsOK'
  <2>1. CASE UNCHANGED worker
    BY <1>1, <2>1 DEF admit, AgentInv, RequestsOK, gate, Asking
  <2>2. CASE \E c \in Clients : worker[c].at = "free" /\ worker' = [worker EXCEPT ![c].at = "loop"]
    <3>1. PICK c \in Clients : worker' = [worker EXCEPT ![c] = [worker[c] EXCEPT !.at = "loop"]]
      BY <1>0, <2>2
    <3>2. [worker[c] EXCEPT !.at = "loop"] \in WorkerType /\ [worker[c] EXCEPT !.at = "loop"].at = "loop"
      BY <1>0 DEF WorkerType
    <3> QED
      BY <1>1, <3>1, <3>2, RequestsQuiet DEF admit
  <2> QED
    BY <1>1, <2>1, <2>2 DEF admit
<1>2. ASSUME NEW c \in Clients, loop(c) \/ disconnect(c) \/ request(c) PROVE RequestsOK'
  <2>1. UNCHANGED gate
    BY <1>2 DEF loop, disconnect, request
  <2>2. CASE worker' = [worker EXCEPT ![c] = Idle]
    BY <1>0, <2>1, <2>2, RequestsQuiet
  <2>3. CASE worker' = [worker EXCEPT ![c].at = "read"]
    <3>1. worker' = [worker EXCEPT ![c] = [worker[c] EXCEPT !.at = "read"]]
      BY <1>0, <2>3
    <3>2. [worker[c] EXCEPT !.at = "read"] \in WorkerType /\ [worker[c] EXCEPT !.at = "read"].at = "read"
      BY <1>0 DEF WorkerType
    <3> QED
      BY <2>1, <3>1, <3>2, RequestsQuiet
  <2>4. CASE request(c)
    <3>1. PICK op \in {"list", "add", "remove", "removeAll", "sign"}, k \in Keys :
            worker' = [worker EXCEPT ![c] = IF locked THEN [Idle EXCEPT !.at = "loop"]
                                             ELSE [Idle EXCEPT !.at = "do", !.op = op, !.key = k]]
      BY <2>4 DEF request
    <3>2. [Idle EXCEPT !.at = "do", !.op = op, !.key = k] \in WorkerType
      <4>1. 0 \in 0..MaxRequests /\ 0 \in 0..(MaxAttempts - 1) /\ 0 \in Nat
        BY BoundsFact
      <4> QED
        BY <4>1 DEF Idle, WorkerType
    <3>3. [Idle EXCEPT !.at = "do", !.op = op, !.key = k].at = "do" /\ [Idle EXCEPT !.at = "do", !.op = op, !.key = k].key = k
      BY DEF Idle
    <3>4. CASE locked
      BY <1>0, <2>1, <3>1, <3>4, RequestsQuiet
    <3>5. CASE ~locked
      BY <2>1, <3>1, <3>2, <3>3, <3>5, RequestsQuiet
    <3> QED
      BY <3>4, <3>5
  <2> QED
    BY <1>2, <2>2, <2>3, <2>4 DEF loop, disconnect
<1>3. ASSUME NEW c \in Clients, reply(c), UNCHANGED gate PROVE RequestsOK'
  BY <1>0, <1>3, RequestsQuiet DEF reply
<1>4. ASSUME NEW c \in Clients, takeCounter(c) PROVE RequestsOK'
  <2>1. worker[c].key \in SkKeys /\ worker[c].at = "count" /\ UNCHANGED gate
    BY <1>4 DEF takeCounter, workerAt, AgentInv, RequestsOK, Asking
  <2>2. counter[worker[c].key] + 1 \in Nat
    BY <1>0, <2>1
  <2>3. PICK n \in Nat : worker' = [worker EXCEPT ![c] = [worker[c] EXCEPT !.at = "sign", !.count = n]]
    BY <1>0, <1>4, <2>2 DEF takeCounter
  <2>4. /\ [worker[c] EXCEPT !.at = "sign", !.count = n] \in WorkerType
        /\ [worker[c] EXCEPT !.at = "sign", !.count = n].at = "sign"
        /\ [worker[c] EXCEPT !.at = "sign", !.count = n].id = worker[c].id
        /\ [worker[c] EXCEPT !.at = "sign", !.count = n].key = worker[c].key
    BY <1>0 DEF WorkerType
  <2> QED
    BY <2>1, <2>3, <2>4, RequestsGoOn
<1>5. ASSUME NEW c \in Clients, signSecurityKeyOnce(c), ~reply(c) PROVE RequestsOK'
  <2>1. /\ worker[c].attempt + 1 < MaxAttempts /\ worker[c].at = "sign" /\ UNCHANGED gate
        /\ worker' = [worker EXCEPT ![c].at = "count", ![c].attempt = @ + 1]
    BY <1>5 DEF signSecurityKeyOnce, workerAt
  <2>2. worker[c].attempt + 1 \in 0..(MaxAttempts - 1)
    BY <1>0, <2>1, BoundsFact DEF WorkerType
  <2>3. PICK n \in 0..(MaxAttempts - 1) : worker' = [worker EXCEPT ![c] = [worker[c] EXCEPT !.at = "count", !.attempt = n]]
    BY <1>0, <2>1, <2>2
  <2>4. /\ [worker[c] EXCEPT !.at = "count", !.attempt = n] \in WorkerType
        /\ [worker[c] EXCEPT !.at = "count", !.attempt = n].at = "count"
        /\ [worker[c] EXCEPT !.at = "count", !.attempt = n].id = worker[c].id
        /\ [worker[c] EXCEPT !.at = "count", !.attempt = n].key = worker[c].key
    BY <1>0 DEF WorkerType
  <2> QED
    BY <2>1, <2>3, <2>4, RequestsGoOn
<1>6. ASSUME NEW c \in Clients, awaitBiometricAuth(c), ~(reply(c) /\ UNCHANGED gate) PROVE RequestsOK'
  <2>1. PICK n \in 0..MaxRequests : DOMAIN prompt = 1..n
    BY DEF AgentInv, RequestsOK
  <2>2. Cardinality(DOMAIN prompt) = n
    BY <2>1, BoundsFact, FS_Interval
  <2>3. PICK id \in Ids :
          /\ id = n + 1
          /\ pending' = [i \in DOMAIN pending \cup {id} |-> IF i = id THEN "waiting" ELSE pending[i]]
          /\ prompt' = [i \in DOMAIN prompt \cup {id} |-> IF i = id THEN "posted" ELSE prompt[i]]
          /\ worker' = [worker EXCEPT ![c].at = "await", ![c].id = id]
          /\ UNCHANGED confirmed
    BY <1>6, <2>2 DEF awaitBiometricAuth
  <2>4. id \in 0..MaxRequests /\ id \notin DOMAIN prompt /\ DOMAIN prompt' = 1..id
    BY <2>1, <2>3, BoundsFact DEF Ids
  <2>5. worker[c].at = "do" /\ worker[c].key \in SkKeys
    BY <1>6 DEF awaitBiometricAuth, workerAt
  <2>6. \A d \in Clients : worker'[d] = IF d = c THEN [worker[c] EXCEPT !.at = "await", !.id = id] ELSE worker[d]
    BY <1>0, <2>3
  <2>7. worker' \in [Clients -> WorkerType]
    BY <1>0, <2>3, <2>4 DEF WorkerType
  <2>8. /\ worker'[c].at = "await" /\ worker'[c].id = id /\ worker'[c].key = worker[c].key
        /\ \A d \in Clients \ {c} : worker'[d] = worker[d]
    BY <1>0, <2>6 DEF WorkerType
  <2>9. \A i \in DOMAIN pending' : pending'[i] = IF i = id THEN "waiting" ELSE pending[i]
    BY <2>3
  <2>10. \A i \in DOMAIN prompt' : prompt'[i] = IF i = id THEN "posted" ELSE prompt[i]
    BY <2>3
  <2>11. DOMAIN pending' = DOMAIN pending \cup {id} /\ DOMAIN prompt' = DOMAIN prompt \cup {id}
    BY <2>3
  <2>12. \A d, e \in Clients : worker'[d].at \in {"await", "count", "sign"} /\ worker'[e].at \in {"await", "count", "sign"}
                               /\ worker'[d].id = worker'[e].id => d = e
    <3>1. \A d \in Clients \ {c} : worker'[d].at \in {"await", "count", "sign"} => worker'[d].id # id
      BY <2>4, <2>8 DEF AgentInv, RequestsOK, Asking
    <3>2. \A d, e \in Clients \ {c} :
            worker[d].at \in {"await", "count", "sign"} /\ worker[e].at \in {"await", "count", "sign"} /\ worker[d].id = worker[e].id
            => d = e
      BY DEF AgentInv, RequestsOK, Asking
    <3> QED
      BY <2>8, <3>1, <3>2
  <2>13. \A d \in Clients : worker'[d].at \in {"await", "count", "sign"} => worker'[d].id \in DOMAIN prompt' /\ worker'[d].key \in SkKeys
    BY <2>5, <2>8, <2>11 DEF AgentInv, RequestsOK, Asking
  <2>14. \A d \in Clients : worker'[d].at = "await" => worker'[d].id \in DOMAIN pending'
    BY <2>8, <2>11 DEF AgentInv, RequestsOK
  <2>15. \A d \in Clients : worker'[d].at \in {"count", "sign"} => worker'[d].id \in confirmed'
    BY <2>3, <2>8 DEF AgentInv, RequestsOK
  <2>16. \A d \in Clients : worker'[d].at \in {"do", "await", "count", "sign"} => worker'[d].key \in Keys
    BY <1>0, <2>5, <2>8
  <2>17. /\ DOMAIN pending' \subseteq DOMAIN prompt' /\ confirmed' \subseteq DOMAIN prompt'
         /\ \A i \in DOMAIN pending' : pending'[i] \in {"waiting", "yes", "no"} /\ (pending'[i] = "yes" => i \in confirmed')
         /\ \A i \in DOMAIN prompt' : prompt'[i] \in {"posted", "shown", "dismissed", "done"}
    BY <2>3, <2>9, <2>10, <2>11 DEF AgentInv, RequestsOK
  <2>18. pending' = [i \in DOMAIN pending' |-> pending'[i]] /\ prompt' = [i \in DOMAIN prompt' |-> prompt'[i]]
    BY <2>3
  <2> QED
    BY <2>4, <2>7, <2>12, <2>13, <2>14, <2>15, <2>16, <2>17, <2>18 DEF RequestsOK, Asking
<1>7. ASSUME NEW c \in Clients, biometricAnswered(c) \/ biometricTimeout(c) PROVE RequestsOK'
  <2> DEFINE id == worker[c].id
  <2>1. /\ worker[c].at = "await" /\ id \in DOMAIN pending /\ id \in DOMAIN prompt /\ UNCHANGED confirmed
        /\ worker[c].key \in SkKeys
        /\ pending' = [i \in DOMAIN pending \ {id} |-> pending[i]]
    BY <1>7 DEF biometricAnswered, biometricTimeout, forgetRequest, workerAt, AgentInv, RequestsOK, Asking
  <2>2. /\ DOMAIN prompt' = DOMAIN prompt /\ \A i \in DOMAIN prompt : prompt'[i] \in {"posted", "shown", "dismissed", "done"}
        /\ prompt' = [i \in DOMAIN prompt' |-> prompt'[i]]
    BY <1>7, <2>1 DEF biometricAnswered, biometricTimeout, AgentInv, RequestsOK
  <2>3. PICK r \in WorkerType :
          /\ worker' = [worker EXCEPT ![c] = r] /\ r.at \in {"loop", "count"}
          /\ r.at = "count" => r.id = id /\ r.key = worker[c].key /\ pending[id] = "yes"
    <3>1. CASE reply(c)
      BY <1>0, <3>1 DEF reply
    <3>2. CASE ~reply(c)
      <4>1. pending[id] = "yes" /\ worker' = [worker EXCEPT ![c].at = "count", ![c].late = locked] /\ locked \in BOOLEAN
        BY <1>7, <3>2 DEF biometricAnswered, biometricTimeout, AgentInv, ServerOK
      <4>2. worker' = [worker EXCEPT ![c] = [worker[c] EXCEPT !.at = "count", !.late = locked]]
        BY <1>0, <4>1
      <4>3. /\ [worker[c] EXCEPT !.at = "count", !.late = locked] \in WorkerType
            /\ [worker[c] EXCEPT !.at = "count", !.late = locked].at = "count"
            /\ [worker[c] EXCEPT !.at = "count", !.late = locked].id = id
            /\ [worker[c] EXCEPT !.at = "count", !.late = locked].key = worker[c].key
        BY <1>0, <4>1 DEF WorkerType
      <4> QED
        BY <4>1, <4>2, <4>3
    <3> QED
      BY <3>1, <3>2
  <2>4. worker'[c] = r /\ \A d \in Clients \ {c} : worker'[d] = worker[d]
    BY <1>0, <2>3
  <2>5. worker' \in [Clients -> WorkerType]
    BY <1>0, <2>3
  <2>6. id \in confirmed \/ r.at # "count"
    BY <2>1, <2>3 DEF AgentInv, RequestsOK
  <2>7. \A d, e \in Clients : worker'[d].at \in {"await", "count", "sign"} /\ worker'[e].at \in {"await", "count", "sign"}
                              /\ worker'[d].id = worker'[e].id => d = e
    <3>1. \A d \in Clients \ {c} : worker[d].at \in {"await", "count", "sign"} => worker[d].id # id
      BY <2>1 DEF AgentInv, RequestsOK, Asking
    <3>2. \A d, e \in Clients \ {c} :
            worker[d].at \in {"await", "count", "sign"} /\ worker[e].at \in {"await", "count", "sign"} /\ worker[d].id = worker[e].id
            => d = e
      BY DEF AgentInv, RequestsOK, Asking
    <3> QED
      BY <2>3, <2>4, <3>1, <3>2
  <2>8. \A d \in Clients : worker'[d].at \in {"await", "count", "sign"} => worker'[d].id \in DOMAIN prompt' /\ worker'[d].key \in SkKeys
    BY <2>1, <2>2, <2>3, <2>4 DEF AgentInv, RequestsOK, Asking
  <2>9. \A d \in Clients : worker'[d].at = "await" => worker'[d].id \in DOMAIN pending'
    <3>1. \A d \in Clients \ {c} : worker[d].at = "await" => worker[d].id \in DOMAIN pending /\ worker[d].id # id
      BY <2>1 DEF AgentInv, RequestsOK, Asking
    <3> QED
      BY <2>1, <2>3, <2>4, <3>1
  <2>10. \A d \in Clients : worker'[d].at \in {"count", "sign"} => worker'[d].id \in confirmed'
    BY <2>1, <2>3, <2>4, <2>6 DEF AgentInv, RequestsOK
  <2>11. \A d \in Clients : worker'[d].at \in {"do", "await", "count", "sign"} => worker'[d].key \in Keys
    BY <1>0, <2>1, <2>3, <2>4
  <2>12. /\ DOMAIN pending' \subseteq DOMAIN prompt' /\ confirmed' \subseteq DOMAIN prompt'
         /\ \A i \in DOMAIN pending' : pending'[i] \in {"waiting", "yes", "no"} /\ (pending'[i] = "yes" => i \in confirmed')
         /\ \E n \in 0..MaxRequests : DOMAIN prompt' = 1..n
         /\ pending' = [i \in DOMAIN pending' |-> pending'[i]]
    BY <2>1, <2>2 DEF AgentInv, RequestsOK
  <2> QED
    BY <2>2, <2>5, <2>7, <2>8, <2>9, <2>10, <2>11, <2>12 DEF RequestsOK, Asking
<1>8. ASSUME NEW id \in Ids, Ui(id) PROVE RequestsOK'
  <2>1. /\ UNCHANGED worker /\ id \in DOMAIN prompt
        /\ \E p \in {"shown", "done"} : prompt' = [prompt EXCEPT ![id] = p]
    BY <1>8 DEF Ui, launchPrompt, onAuthenticationSucceeded, onAuthenticationError, finishPrompt, answerable, promptFrame
  <2>2. /\ DOMAIN prompt' = DOMAIN prompt /\ \A i \in DOMAIN prompt : prompt'[i] \in {"posted", "shown", "dismissed", "done"}
        /\ prompt' = [i \in DOMAIN prompt' |-> prompt'[i]]
    BY <2>1 DEF AgentInv, RequestsOK
  <2>3. \/ UNCHANGED <<pending, confirmed>>
        \/ \E answer \in {"yes", "no"} :
             /\ pending' = [i \in DOMAIN pending |-> IF i = id /\ pending[i] = "waiting" THEN answer ELSE pending[i]]
             /\ confirmed' = IF answer = "yes" THEN confirmed \cup {id} ELSE confirmed
    BY <1>8 DEF Ui, launchPrompt, onAuthenticationSucceeded, onAuthenticationError, finishPrompt, answerable, completeBiometricAuth
  <2>4. /\ DOMAIN pending' = DOMAIN pending /\ confirmed \subseteq confirmed' /\ confirmed' \subseteq confirmed \cup {id}
        /\ pending' = [i \in DOMAIN pending' |-> pending'[i]]
    BY <2>3 DEF AgentInv, RequestsOK
  <2>5. \A i \in DOMAIN pending' : pending'[i] \in {"waiting", "yes", "no"} /\ (pending'[i] = "yes" => i \in confirmed')
    BY <2>3 DEF AgentInv, RequestsOK
  <2>6. confirmed' \subseteq DOMAIN prompt' /\ DOMAIN pending' \subseteq DOMAIN prompt'
    BY <2>1, <2>2, <2>4 DEF AgentInv, RequestsOK
  <2>7. \A d \in Clients : worker'[d].at \in {"count", "sign"} => worker'[d].id \in confirmed'
    BY <2>1, <2>4 DEF AgentInv, RequestsOK
  <2> QED
    BY <2>1, <2>2, <2>4, <2>5, <2>6, <2>7 DEF AgentInv, RequestsOK, Asking
<1>9. CASE UNCHANGED <<worker, gate>>
  BY <1>9 DEF AgentInv, RequestsOK, Asking, gate
<1>10. ASSUME NEW c \in Clients, ServeClient(c) PROVE RequestsOK'
  <2>1. CASE identityRequest(c) \/ signFileKey(c)
    BY <1>3, <2>1 DEF identityRequest, signFileKey
  <2>2. CASE awaitBiometricAuth(c)
    BY <1>3, <1>6, <2>2
  <2>3. CASE signSecurityKeyOnce(c)
    <3>1. UNCHANGED gate
      BY <2>3 DEF signSecurityKeyOnce
    <3> QED
      BY <1>3, <1>5, <2>3, <3>1
  <2> QED
    BY <1>2, <1>4, <1>7, <1>10, <2>1, <2>2, <2>3 DEF ServeClient
<1> QED
  BY <1>1, <1>2, <1>8, <1>9, <1>10
     DEF AgentNext, Accept, Manage, agentVars, acceptCheck, acceptDeref, acceptClient, acceptClosed, callManager, autoLoad,
         startAgent, startUnlockPref, startUnlockServer, stopAgent, stopClose, stopClear, addAllKeys, addCheck, addKeyCheck,
         addKey, setLocked, lockServer, managerFrame, workerFrame

-----------------------------------------------------------------------------
\* A step in which nobody begins to sign and nothing is signed: whoever asks
\* after it asked before with the same request, or has a request of its own.
LEMMA SignaturesQuiet ==
  ASSUME AgentInv, UNCHANGED <<counter, signatures>>, confirmed \subseteq confirmed',
         \A d \in Clients : worker'[d].at = "sign" => worker'[d] = worker[d],
         \A d \in Clients : worker'[d].at \in {"await", "count"} =>
           \/ worker[d].at \in {"await", "count", "sign"} /\ worker'[d].id = worker[d].id
           \/ worker'[d].id \notin confirmed
  PROVE  SignaturesOK'
<1>1. \A s \in signatures : \A d \in Clients : worker'[d].at \in {"await", "count", "sign"} => worker'[d].id # s.id
  BY DEF AgentInv, SignaturesOK, Asking
<1>2. \A c \in Clients : worker'[c].at = "sign" =>
        /\ worker[c].at = "sign" /\ worker'[c] = worker[c] /\ worker'[c].count <= counter[worker'[c].key]
        /\ \A s \in signatures : s.key = worker'[c].key => s.count # worker'[c].count
  BY DEF AgentInv, SignaturesOK
<1>3. \A c, d \in Clients : worker'[c].at = "sign" /\ d # c /\ worker'[d].at = "sign" /\ worker'[d].key = worker'[c].key
                             => worker'[d].count # worker'[c].count
  BY <1>2 DEF AgentInv, SignaturesOK
<1>4. \A s \in signatures : s.id \in confirmed'
  BY DEF AgentInv, SignaturesOK
<1> QED
  BY <1>1, <1>2, <1>3, <1>4 DEF AgentInv, SignaturesOK, Asking

\* Every signature is of a confirmed request that is over, and its counter was
\* taken for it alone (signSecurityKey, nextSecurityKeyCounter).
LEMMA SignaturesInductive ==
  ASSUME AgentInv, [AgentNext]_agentVars
  PROVE  SignaturesOK'
<1>0. /\ worker \in [Clients -> WorkerType] /\ counter \in [SkKeys -> Nat]
      /\ \A c \in Clients : worker[c] \in WorkerType
      /\ Idle.at = "free" /\ [Idle EXCEPT !.at = "loop"].at = "loop"
  BY DEF AgentInv, RequestsOK, SignaturesOK, Idle
<1>1. ASSUME NEW c \in Clients, NEW r, worker' = [worker EXCEPT ![c] = r], r.at \in {"free", "loop", "read", "do"},
             UNCHANGED <<counter, signatures>>, confirmed \subseteq confirmed'
      PROVE  SignaturesOK'
  <2>1. \A d \in Clients : worker'[d] = IF d = c THEN r ELSE worker[d]
    BY <1>0, <1>1
  <2> QED
    BY <1>1, <2>1, SignaturesQuiet
<1>2. ASSUME NEW a \in Acceptors, admit(a) PROVE SignaturesOK'
  <2>1. UNCHANGED <<counter, signatures, confirmed>>
    BY <1>2 DEF admit, gate
  <2>2. CASE UNCHANGED worker
    BY <2>1, <2>2, SignaturesQuiet
  <2>3. CASE \E c \in Clients : worker[c].at = "free" /\ worker' = [worker EXCEPT ![c].at = "loop"]
    <3>1. PICK c \in Clients : worker' = [worker EXCEPT ![c] = [worker[c] EXCEPT !.at = "loop"]]
      BY <1>0, <2>3
    <3>2. [worker[c] EXCEPT !.at = "loop"].at = "loop"
      BY <1>0 DEF WorkerType
    <3> QED
      BY <1>1, <2>1, <3>1, <3>2
  <2> QED
    BY <1>2, <2>2, <2>3 DEF admit
<1>3. ASSUME NEW c \in Clients, loop(c) \/ disconnect(c) \/ request(c) PROVE SignaturesOK'
  <2>1. UNCHANGED <<counter, signatures, confirmed>>
    BY <1>3 DEF loop, disconnect, request, gate
  <2>2. CASE worker' = [worker EXCEPT ![c] = Idle]
    BY <1>0, <1>1, <2>1, <2>2
  <2>3. CASE worker' = [worker EXCEPT ![c].at = "read"]
    <3>1. worker' = [worker EXCEPT ![c] = [worker[c] EXCEPT !.at = "read"]]
      BY <1>0, <2>3
    <3>2. [worker[c] EXCEPT !.at = "read"].at = "read"
      BY <1>0 DEF WorkerType
    <3> QED
      BY <1>1, <2>1, <3>1, <3>2
  <2>4. CASE request(c)
    <3>1. PICK op, k :
            worker' = [worker EXCEPT ![c] = IF locked THEN [Idle EXCEPT !.at = "loop"]
                                             ELSE [Idle EXCEPT !.at = "do", !.op = op, !.key = k]]
      BY <2>4 DEF request
    <3>2. [Idle EXCEPT !.at = "do", !.op = op, !.key = k].at = "do"
      BY DEF Idle
    <3>3. CASE locked
      BY <1>0, <1>1, <2>1, <3>1, <3>3
    <3>4. CASE ~locked
      BY <1>1, <2>1, <3>1, <3>2, <3>4
    <3> QED
      BY <3>3, <3>4
  <2> QED
    BY <1>3, <2>2, <2>3, <2>4 DEF loop, disconnect
<1>4. ASSUME NEW c \in Clients, reply(c), UNCHANGED <<counter, signatures, confirmed>> PROVE SignaturesOK'
  BY <1>0, <1>1, <1>4 DEF reply
<1>5. ASSUME NEW c \in Clients, awaitBiometricAuth(c), ~(reply(c) /\ UNCHANGED gate) PROVE SignaturesOK'
  <2>1. PICK n \in 0..MaxRequests : DOMAIN prompt = 1..n
    BY DEF AgentInv, RequestsOK
  <2>2. Cardinality(DOMAIN prompt) = n
    BY <2>1, BoundsFact, FS_Interval
  <2>3. PICK id \in Ids : /\ id = n + 1 /\ worker' = [worker EXCEPT ![c].at = "await", ![c].id = id]
                          /\ UNCHANGED <<confirmed, counter, signatures>>
    BY <1>5, <2>2 DEF awaitBiometricAuth
  <2>4. id \notin confirmed
    BY <2>1, <2>3 DEF AgentInv, RequestsOK
  <2>5. worker'[c].at = "await" /\ worker'[c].id = id /\ \A d \in Clients \ {c} : worker'[d] = worker[d]
    BY <1>0, <2>3 DEF WorkerType
  <2> QED
    BY <2>3, <2>4, <2>5, SignaturesQuiet
<1>6. ASSUME NEW c \in Clients, biometricAnswered(c), ~reply(c) PROVE SignaturesOK'
  <2>1. /\ worker' = [worker EXCEPT ![c].at = "count", ![c].late = locked] /\ UNCHANGED <<confirmed, counter, signatures>>
        /\ worker[c].at = "await"
    BY <1>6 DEF biometricAnswered, workerAt
  <2>2. worker'[c].at = "count" /\ worker'[c].id = worker[c].id /\ \A d \in Clients \ {c} : worker'[d] = worker[d]
    BY <1>0, <2>1 DEF WorkerType
  <2> QED
    BY <2>1, <2>2, SignaturesQuiet
<1>7. ASSUME NEW c \in Clients, signSecurityKeyOnce(c), ~reply(c) PROVE SignaturesOK'
  <2>1. /\ worker' = [worker EXCEPT ![c].at = "count", ![c].attempt = @ + 1] /\ UNCHANGED <<confirmed, counter, signatures>>
        /\ worker[c].at = "sign"
    BY <1>7 DEF signSecurityKeyOnce, workerAt, gate
  <2>2. worker'[c].at = "count" /\ worker'[c].id = worker[c].id /\ \A d \in Clients \ {c} : worker'[d] = worker[d]
    BY <1>0, <2>1 DEF WorkerType
  <2> QED
    BY <2>1, <2>2, SignaturesQuiet
<1>8. ASSUME NEW c \in Clients, takeCounter(c) PROVE SignaturesOK'
  <2> DEFINE k == worker[c].key
  <2>1. /\ worker[c].at = "count" /\ k \in SkKeys /\ UNCHANGED <<confirmed, signatures>>
        /\ counter' = [counter EXCEPT ![k] = counter[k] + 1]
        /\ worker' = [worker EXCEPT ![c].at = "sign", ![c].count = counter[k] + 1]
    BY <1>0, <1>8 DEF takeCounter, workerAt, gate, nextSecurityKeyCounter, AgentInv, RequestsOK, Asking
  <2>2. /\ worker'[c].at = "sign" /\ worker'[c].id = worker[c].id /\ worker'[c].key = k /\ worker'[c].count = counter[k] + 1
        /\ \A d \in Clients \ {c} : worker'[d] = worker[d]
    BY <1>0, <2>1 DEF WorkerType
  <2> HIDE DEF k
  <2>3. /\ counter' \in [SkKeys -> Nat] /\ counter[k] \in Nat /\ counter'[k] = counter[k] + 1
        /\ \A j \in SkKeys : counter[j] \in Nat /\ counter'[j] \in Nat /\ counter[j] <= counter'[j]
    BY <1>0, <2>1
  <2>4. \A s \in signatures : s.id \in confirmed' /\ s.key \in SkKeys /\ s.count \in Nat /\ s.count <= counter'[s.key]
    BY <2>1, <2>3 DEF AgentInv, SignaturesOK
  <2>5. \A s \in signatures : \A d \in Clients : worker'[d].at \in {"await", "count", "sign"} => worker'[d].id # s.id
    <3>1. \A s \in signatures : worker[c].id # s.id
      BY <2>1 DEF AgentInv, SignaturesOK, Asking
    <3>2. \A s \in signatures : \A d \in Clients \ {c} : worker[d].at \in {"await", "count", "sign"} => worker[d].id # s.id
      BY DEF AgentInv, SignaturesOK, Asking
    <3> QED
      BY <2>2, <3>1, <3>2
  <2>6. \A s \in signatures : s.key = k => s.count # counter[k] + 1
    BY <2>1, <2>3 DEF AgentInv, SignaturesOK
  <2>7. \A d \in Clients \ {c} : worker[d].at = "sign" =>
          /\ worker[d].count \in Nat /\ worker[d].key \in SkKeys /\ worker[d].count <= counter[worker[d].key]
          /\ \A s \in signatures : s.key = worker[d].key => s.count # worker[d].count
    BY <1>0 DEF AgentInv, SignaturesOK, RequestsOK, Asking, WorkerType
  <2>8. \A d \in Clients \ {c} : worker[d].at = "sign" /\ worker[d].key = k => worker[d].count # counter[k] + 1
    BY <2>3, <2>7
  <2>9. \A d \in Clients : worker'[d].at = "sign" =>
          /\ worker'[d].count <= counter'[worker'[d].key]
          /\ \A s \in signatures : s.key = worker'[d].key => s.count # worker'[d].count
    <3>1. \A d \in Clients \ {c} : worker[d].at = "sign" => worker[d].count <= counter'[worker[d].key]
      BY <2>3, <2>7
    <3> QED
      BY <2>2, <2>3, <2>6, <2>7, <3>1
  <2>10. \A d, e \in Clients \ {c} : worker[d].at = "sign" /\ e # d /\ worker[e].at = "sign" /\ worker[e].key = worker[d].key
                                     => worker[e].count # worker[d].count
    BY DEF AgentInv, SignaturesOK
  <2>11. \A d, e \in Clients : worker'[d].at = "sign" /\ e # d /\ worker'[e].at = "sign" /\ worker'[e].key = worker'[d].key
                               => worker'[e].count # worker'[d].count
    BY <2>2, <2>8, <2>10
  <2> QED
    BY <2>1, <2>3, <2>4, <2>5, <2>9, <2>11 DEF AgentInv, SignaturesOK, Asking
<1>9. ASSUME NEW c \in Clients, signSecurityKeyOnce(c), reply(c), ~UNCHANGED signatures PROVE SignaturesOK'
  <2>1. /\ worker[c].at = "sign" /\ UNCHANGED <<confirmed, counter>>
        /\ signatures' = signatures \cup {[key |-> worker[c].key, id |-> worker[c].id, count |-> worker[c].count,
                                           locked |-> worker[c].late /\ locked]}
    BY <1>9 DEF signSecurityKeyOnce, workerAt, gate
  <2> DEFINE n == [key |-> worker[c].key, id |-> worker[c].id, count |-> worker[c].count, locked |-> worker[c].late /\ locked]
  <2>2. /\ signatures' = signatures \cup {n}
        /\ n.key = worker[c].key /\ n.id = worker[c].id /\ n.count = worker[c].count
    BY <2>1
  <2> HIDE DEF n
  <2>3. worker'[c].at = "loop" /\ \A d \in Clients \ {c} : worker'[d] = worker[d]
    BY <1>0, <1>9 DEF reply
  <2>4. /\ n.id \in confirmed /\ n.key \in SkKeys /\ n.count \in Nat /\ n.count <= counter[n.key]
    BY <1>0, <2>1, <2>2 DEF AgentInv, SignaturesOK, RequestsOK, Asking, WorkerType
  <2>5. \A s \in signatures : s.id # n.id /\ (s.key = n.key => s.count # n.count)
    BY <2>1, <2>2 DEF AgentInv, SignaturesOK, Asking
  <2>6. \A d \in Clients \ {c} : worker[d].at \in {"await", "count", "sign"} => worker[d].id # n.id
    BY <2>1, <2>2 DEF AgentInv, RequestsOK, Asking
  <2>7. \A d \in Clients \ {c} : worker[d].at = "sign" /\ worker[d].key = n.key => worker[d].count # n.count
    BY <2>1, <2>2 DEF AgentInv, SignaturesOK
  <2>8. \A s \in signatures' : s.id \in confirmed' /\ s.key \in SkKeys /\ s.count \in Nat /\ s.count <= counter'[s.key]
    BY <2>1, <2>2, <2>4 DEF AgentInv, SignaturesOK
  <2>9. \A s, t \in signatures' : s.id = t.id => s = t
    BY <2>2, <2>5 DEF AgentInv, SignaturesOK
  <2>10. \A s, t \in signatures' : s.key = t.key /\ s.count = t.count => s = t
    BY <2>2, <2>5 DEF AgentInv, SignaturesOK
  <2>11. \A s \in signatures' : \A d \in Clients : worker'[d].at \in {"await", "count", "sign"} => worker'[d].id # s.id
    BY <2>2, <2>3, <2>6 DEF AgentInv, SignaturesOK, Asking
  <2>12. \A d \in Clients : worker'[d].at = "sign" =>
           /\ worker'[d].count <= counter'[worker'[d].key]
           /\ \A s \in signatures' : s.key = worker'[d].key => s.count # worker'[d].count
    BY <2>1, <2>2, <2>3, <2>7 DEF AgentInv, SignaturesOK
  <2>13. \A d, e \in Clients : worker'[d].at = "sign" /\ e # d /\ worker'[e].at = "sign" /\ worker'[e].key = worker'[d].key
                               => worker'[e].count # worker'[d].count
    BY <2>3 DEF AgentInv, SignaturesOK
  <2> QED
    BY <1>0, <2>1, <2>8, <2>9, <2>10, <2>11, <2>12, <2>13 DEF SignaturesOK, Asking
<1>10. ASSUME NEW c \in Clients, ServeClient(c) PROVE SignaturesOK'
  <2>1. CASE identityRequest(c) \/ signFileKey(c)
    BY <1>4, <2>1 DEF identityRequest, signFileKey, gate
  <2>2. CASE awaitBiometricAuth(c)
    BY <1>4, <1>5, <2>2 DEF awaitBiometricAuth, gate
  <2>3. CASE signSecurityKeyOnce(c)
    <3>1. UNCHANGED <<counter, confirmed>>
      BY <2>3 DEF signSecurityKeyOnce, gate
    <3> QED
      BY <1>4, <1>7, <1>9, <2>3, <3>1
  <2>4. CASE biometricAnswered(c) \/ biometricTimeout(c)
    <3>1. UNCHANGED <<counter, confirmed, signatures>>
      BY <2>4 DEF biometricAnswered, biometricTimeout
    <3> QED
      BY <1>4, <1>6, <2>4, <3>1 DEF biometricTimeout
  <2> QED
    BY <1>3, <1>8, <1>10, <2>1, <2>2, <2>3, <2>4 DEF ServeClient
<1>11. ASSUME NEW id \in Ids, Ui(id) PROVE SignaturesOK'
  <2>1. UNCHANGED <<worker, counter, signatures>> /\ confirmed \subseteq confirmed'
    BY <1>11 DEF Ui, launchPrompt, onAuthenticationSucceeded, onAuthenticationError, finishPrompt, answerable, promptFrame
  <2> QED
    BY <2>1, SignaturesQuiet
<1>12. CASE UNCHANGED <<worker, counter, signatures, confirmed>>
  BY <1>12, SignaturesQuiet
<1> QED
  BY <1>2, <1>3, <1>10, <1>11, <1>12
     DEF AgentNext, Accept, Manage, agentVars, gate, acceptCheck, acceptDeref, acceptClient, acceptClosed, callManager, autoLoad,
         startAgent, startUnlockPref, startUnlockServer, stopAgent, stopClose, stopClear, addAllKeys, addCheck, addKeyCheck,
         addKey, setLocked, lockServer, managerFrame, workerFrame

-----------------------------------------------------------------------------
\* The invariant holds in every state the agent reaches.
THEOREM AgentInvariant == AgentSpec => []AgentInv
<1>1. AgentInit => AgentInv
  <2> SUFFICES ASSUME AgentInit PROVE AgentInv
    OBVIOUS
  <2>1. ServerOK
    <3>1. running \in BOOLEAN /\ locked \in BOOLEAN /\ prefLocked \in BOOLEAN /\ crashed \in BOOLEAN
      BY Zenon DEF AgentInit
    <3>2. keys \in SUBSET Keys /\ socket \in 0..MaxStarts /\ starts \in 0..MaxStarts
      BY BoundsFact DEF AgentInit
    <3> QED
      BY <3>1, <3>2 DEF ServerOK
  <2>2. MonitorOK
    <3>1. NoOp \in ManagerType /\ NoOp.at = "free"
      BY DEF NoOp, ManagerType
    <3>2. \A m \in Managers : manager[m] = NoOp
      BY DEF AgentInit
    <3>3. autoloads \in 0..starts
      BY DEF AgentInit
    <3> QED
      BY <3>1, <3>2, <3>3 DEF AgentInit, MonitorOK
  <2>3. ClientsOK
    <3>1. Busy = {} /\ Met = {}
      BY DEF AgentInit, Busy, Met, Idle
    <3>2. Cardinality(Busy) = 0 /\ Cardinality(Met) = 0
      BY <3>1, FS_EmptySet
    <3>3. acceptor \in [Acceptors -> AcceptorType]
      BY BoundsFact DEF AgentInit, AcceptorType
    <3> QED
      BY <3>2, <3>3, BoundsFact DEF AgentInit, ClientsOK
  <2>4. RequestsOK
    <3>1. \A c \in Clients : worker[c] = Idle /\ worker[c].at = "free"
      BY DEF AgentInit, Idle
    <3>2. DOMAIN prompt = 1..0 /\ DOMAIN pending = {} /\ 0 \in 0..MaxRequests
      BY BoundsFact DEF AgentInit
    <3>3. worker \in [Clients -> WorkerType]
      BY IdleFact DEF AgentInit
    <3> QED
      BY <3>1, <3>2, <3>3 DEF AgentInit, RequestsOK, Asking
  <2>5. SignaturesOK
    <3>1. \A c \in Clients : worker[c].at = "free"
      BY DEF AgentInit, Idle
    <3> QED
      BY <3>1 DEF AgentInit, SignaturesOK, Asking
  <2> QED
    BY <2>1, <2>2, <2>3, <2>4, <2>5 DEF AgentInv
<1>2. AgentInv /\ [AgentNext]_agentVars => AgentInv'
  BY ServerInductive, MonitorInductive, ClientsInductive, RequestsInductive, SignaturesInductive DEF AgentInv
<1> QED
  BY <1>1, <1>2, PTL DEF AgentSpec

\* Every security-key signature was confirmed by a fingerprint given to its
\* own request, and one fingerprint lets out one signature (signSecurityKey),
\* for any number of clients, retries and late or unanswered prompts.
THEOREM OneFingerprintOneSignature == AgentSpec => []OneTouchOneSignature
<1>1. AgentInv => OneTouchOneSignature
  BY DEF AgentInv, SignaturesOK, OneTouchOneSignature
<1> QED
  BY <1>1, AgentInvariant, PTL

\* No two signatures of a security key carry the same counter and none is
\* ahead of the saved one (nextSecurityKeyCounter).
THEOREM CounterRises == AgentSpec => []CounterNeverReused
<1>1. AgentInv => CounterNeverReused
  BY DEF AgentInv, SignaturesOK, CounterNeverReused
<1> QED
  BY <1>1, AgentInvariant, PTL

\* activeClients is the number of clients served or being admitted and never
\* lets more than MAX_CONCURRENT_CLIENTS be served (acceptLoop,
\* handleClient), and every thread is in one of its places.
THEOREM AgentStaysBounded == AgentSpec => []AgentBounded
<1>1. ASSUME AgentInv PROVE AgentTypeOK
  <2>1. activeClients \in 0..(MaxClients + Cardinality(Acceptors))
    BY <1>1, BoundsFact, FiniteFact DEF AgentInv, ClientsOK
  <2>2. DOMAIN prompt \subseteq Ids /\ confirmed \subseteq Ids
    BY <1>1, BoundsFact DEF AgentInv, RequestsOK, Ids
  <2>3. autoloads \in 0..MaxStarts
    BY <1>1, BoundsFact DEF AgentInv, MonitorOK, ServerOK
  <2>4. {running, locked, prefLocked, crashed} \subseteq BOOLEAN
    BY <1>1, Zenon DEF AgentInv, ServerOK
  <2> QED
    BY <1>1, <2>1, <2>2, <2>3, <2>4
       DEF AgentTypeOK, AgentInv, ServerOK, MonitorOK, ClientsOK, RequestsOK, SignaturesOK, WorkerType, AcceptorType
<1>2. AgentInv => ClientsCounted
  BY DEF AgentInv, ClientsOK, ClientsCounted, Busy, Met
<1> QED
  BY <1>1, <1>2, AgentInvariant, PTL DEF AgentBounded
=============================================================================
