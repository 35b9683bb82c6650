------------------------------- MODULE SshAgent -------------------------------
(***************************************************************************)
(* The embedded SSH agent: SshAgentServer (accept loop, one worker per     *)
(* client, keys, lock flag, biometric gate of the security keys) and       *)
(* SshAgentManager (start, stop, lock, automatic loading of the keys).     *)
(*                                                                         *)
(* The manager's operations are synchronized (managerMonitor), except setLocked.  *)
(* The workers take no lock: running, locked and keys are volatile state   *)
(* they read and write between the manager's steps.  A request for a       *)
(* security key waits for the user's fingerprint, up to a timeout.         *)
(*                                                                         *)
(* The fallback to a native ssh-agent process is not modelled: start()     *)
(* binds its abstract socket.  ssh-add, which the manager runs to load a   *)
(* key file, is a client whose request is one step.                        *)
(***************************************************************************)
EXTENDS Integers, FiniteSets

CONSTANTS FileKeys, SkKeys,  \* identities in ~/.ssh: key files, security keys
          Clients,           \* client connections (worker threads) at a time
          Acceptors,         \* accept threads that may be alive at a time
          Managers,          \* threads that call the manager
          None,
          MaxClients,        \* MAX_CONCURRENT_CLIENTS
          MaxAttempts,       \* signSecurityKey's attempts (5 in the code)
          MaxRequests,       \* bound on biometric request ids
          MaxStarts          \* bound on start(): sockets and autoload threads

Keys == FileKeys \cup SkKeys

ASSUME BoundsAssumption ==
  {MaxClients, MaxAttempts, MaxRequests, MaxStarts} \subseteq Nat /\ MaxAttempts > 0
ASSUME KeysAssumption == FileKeys \cap SkKeys = {}
ASSUME ThreadsAssumption == IsFiniteSet(Clients) /\ IsFiniteSet(Acceptors) /\ None \notin Managers

VARIABLES
  running, locked, keys,  \* SshAgentServer's fields
  socket,        \* serverSocket: 0 for null, else the number of its start()
  acceptor,      \* each accept thread: where it is, the socket it accepts on
  activeClients, \* SshAgentServer.activeClients
  worker,        \* each worker: where it is and the request it handles
                 \* (late, history: the agent was locked when its user confirmed)
  pending,       \* PENDING_BIOMETRIC: request id -> "waiting", "yes" or "no"
  prompt,        \* each request id's BiometricAuthActivity
  counter,       \* the saved signature counter of each security key
  prefLocked,    \* the agent_locked preference
  manager,       \* each manager thread: its operation and where it is
  managerMonitor,       \* the thread inside a synchronized manager method
  autoloads,     \* ssh-agent-autoload threads that have not begun
  starts,        \* start() calls so far
  crashed,       \* an uncaught exception ended the process
  confirmed,     \* (history) request ids the user confirmed
  signatures     \* (history) security-key signatures sent

server  == <<running, socket, starts>>
gate    == <<pending, prompt, confirmed>>
agentVars == <<server, locked, keys, acceptor, activeClients, worker, gate, counter,
          prefLocked, manager, managerMonitor, autoloads, crashed, signatures>>

Ids == 1..MaxRequests
Idle == [at |-> "free", op |-> None, key |-> None, id |-> 0,
         attempt |-> 0, count |-> 0, late |-> FALSE]

agentIsRunning == running /\ socket # 0

(***************************************************************************)
(* The accept loop.                                                        *)
(***************************************************************************)
acceptCheck(a) ==
  /\ ~crashed /\ acceptor[a].at = "check"
  /\ acceptor' = [acceptor EXCEPT ![a].at = IF running THEN "deref" ELSE "dead"]
  /\ UNCHANGED <<server, locked, keys, activeClients, worker, gate, counter,
                 prefLocked, manager, managerMonitor, autoloads, crashed, signatures>>

\* serverSocket.accept(): the field may have become null since the check
acceptDeref(a) ==
  /\ ~crashed /\ acceptor[a].at = "deref"
  /\ IF socket = 0
     THEN crashed' = TRUE /\ UNCHANGED acceptor
     ELSE /\ acceptor' = [acceptor EXCEPT ![a] = [at |-> "accept", on |-> socket]]
          /\ UNCHANGED crashed
  /\ UNCHANGED <<server, locked, keys, activeClients, worker, gate, counter,
                 prefLocked, manager, managerMonitor, autoloads, signatures>>

\* A client connects (stop()'s wake-up connection is one that ends at once)
acceptClient(a) ==
  /\ ~crashed /\ acceptor[a].at = "accept" /\ acceptor[a].on = socket
  /\ activeClients' = activeClients + 1
  /\ acceptor' = [acceptor EXCEPT ![a].at = "admit"]
  /\ UNCHANGED <<server, locked, keys, worker, gate, counter, prefLocked, manager,
                 managerMonitor, autoloads, crashed, signatures>>

\* accept() on a closed socket: woken up, or ended by the IOException
acceptClosed(a) ==
  /\ ~crashed /\ acceptor[a].at = "accept" /\ acceptor[a].on # socket
  /\ \E at \in {"check", "dead"} : acceptor' = [acceptor EXCEPT ![a].at = at]
  /\ UNCHANGED <<server, locked, keys, activeClients, worker, gate, counter,
                 prefLocked, manager, managerMonitor, autoloads, crashed, signatures>>

\* Refuses a client but keeps it counted
admitLeaks(a) ==
  /\ ~crashed /\ acceptor[a].at = "admit"
  /\ acceptor' = [acceptor EXCEPT ![a].at = "check"]
  /\ IF activeClients > MaxClients
     THEN UNCHANGED <<activeClients, worker>>
     ELSE /\ \E c \in Clients : /\ worker[c].at = "free"
                                /\ worker' = [worker EXCEPT ![c].at = "loop"]
          /\ UNCHANGED activeClients
  /\ UNCHANGED <<server, locked, keys, gate, counter, prefLocked, manager, managerMonitor,
                 autoloads, crashed, signatures>>

\* One more than MAX_CONCURRENT_CLIENTS is refused and uncounted
admit(a) ==
  /\ ~crashed /\ acceptor[a].at = "admit"
  /\ acceptor' = [acceptor EXCEPT ![a].at = "check"]
  /\ IF activeClients > MaxClients
     THEN activeClients' = activeClients - 1 /\ UNCHANGED worker
     ELSE /\ \E c \in Clients : /\ worker[c].at = "free"
                                /\ worker' = [worker EXCEPT ![c].at = "loop"]
          /\ UNCHANGED activeClients
  /\ UNCHANGED <<server, locked, keys, gate, counter, prefLocked, manager, managerMonitor,
                 autoloads, crashed, signatures>>

(***************************************************************************)
(* A worker: handleClient.                                                 *)
(***************************************************************************)
workerAt(c, place) == ~crashed /\ worker[c].at = place

workerFrame == UNCHANGED <<server, acceptor, prefLocked, manager, managerMonitor,
                           autoloads, crashed>>

\* while (running)
loop(c) ==
  /\ workerAt(c, "loop")
  /\ IF running
     THEN worker' = [worker EXCEPT ![c].at = "read"] /\ UNCHANGED activeClients
     ELSE worker' = [worker EXCEPT ![c] = Idle] /\ activeClients' = activeClients - 1
  /\ UNCHANGED <<locked, keys, gate, counter, signatures>> /\ workerFrame

\* The client closes its connection: EOFException
disconnect(c) ==
  /\ workerAt(c, "read")
  /\ worker' = [worker EXCEPT ![c] = Idle]
  /\ activeClients' = activeClients - 1
  /\ UNCHANGED <<locked, keys, gate, counter, signatures>> /\ workerFrame

\* A request is read and the lock flag tested; FAILURE while locked
request(c) ==
  /\ workerAt(c, "read")
  /\ \E op \in {"list", "add", "remove", "removeAll", "sign"}, k \in Keys :
       /\ op = "add" => k \in FileKeys
       /\ worker' = [worker EXCEPT ![c] =
                       IF locked THEN [Idle EXCEPT !.at = "loop"]
                       ELSE [Idle EXCEPT !.at = "do", !.op = op, !.key = k]]
  /\ UNCHANGED <<locked, keys, activeClients, gate, counter, signatures>> /\ workerFrame

reply(c) == worker' = [worker EXCEPT ![c] = [Idle EXCEPT !.at = "loop"]]

\* SSH_AGENTC_REQUEST_IDENTITIES, ADD, REMOVE, REMOVE_ALL
identityRequest(c) ==
  /\ workerAt(c, "do") /\ worker[c].op \in {"list", "add", "remove", "removeAll"}
  /\ keys' = CASE worker[c].op = "add"       -> keys \cup {worker[c].key}
               [] worker[c].op = "remove"    -> keys \ {worker[c].key}
               [] worker[c].op = "removeAll" -> {}
               [] OTHER                      -> keys
  /\ reply(c)
  /\ UNCHANGED <<locked, activeClients, gate, counter, signatures>> /\ workerFrame

\* sign with a key file, or of an identity that is not loaded (FAILURE)
signFileKey(c) ==
  /\ workerAt(c, "do") /\ worker[c].op = "sign"
  /\ worker[c].key \notin keys \/ worker[c].key \in FileKeys
  /\ reply(c)
  /\ UNCHANGED <<locked, keys, activeClients, gate, counter, signatures>> /\ workerFrame

\* signSecurityKey: awaitBiometricAuth makes a request of its own
awaitBiometricAuth(c) ==
  /\ workerAt(c, "do") /\ worker[c].op = "sign"
  /\ worker[c].key \in keys \cap SkKeys
  /\ \/ \* no strong biometric enrolled
        reply(c) /\ UNCHANGED gate
     \/ \E id \in Ids :
          /\ id = Cardinality(DOMAIN prompt) + 1
          /\ pending' = [i \in DOMAIN pending \cup {id} |->
                           IF i = id THEN "waiting" ELSE pending[i]]
          /\ prompt' = [i \in DOMAIN prompt \cup {id} |->
                          IF i = id THEN "posted" ELSE prompt[i]]
          /\ worker' = [worker EXCEPT ![c].at = "await", ![c].id = id]
          /\ UNCHANGED confirmed
  /\ UNCHANGED <<locked, keys, activeClients, counter, signatures>> /\ workerFrame

\* PENDING_BIOMETRIC.remove(id)
forgetRequest(id) == pending' = [i \in DOMAIN pending \ {id} |-> pending[i]]

\* future.get returned: on to the signature, or FAILURE
biometricAnswered(c) ==
  /\ workerAt(c, "await") /\ pending[worker[c].id] # "waiting"
  /\ IF pending[worker[c].id] = "yes"
     THEN worker' = [worker EXCEPT ![c].at = "count", ![c].late = locked]
     ELSE reply(c)
  /\ forgetRequest(worker[c].id)
  /\ UNCHANGED <<prompt, confirmed, locked, keys, activeClients, counter, signatures>>
  /\ workerFrame

\* get() without a timeout
biometricNoTimeout(c) == FALSE /\ UNCHANGED agentVars

\* future.get timed out: dismissPendingPrompt posts finish() to the UI thread
\* (a prompt not yet registered stays)
biometricTimeout(c) ==
  /\ workerAt(c, "await") /\ pending[worker[c].id] = "waiting"
  /\ forgetRequest(worker[c].id)
  /\ prompt' = [prompt EXCEPT ![worker[c].id] = IF @ = "shown" THEN "dismissed" ELSE @]
  /\ reply(c)
  /\ UNCHANGED <<confirmed, locked, keys, activeClients, counter, signatures>>
  /\ workerFrame

\* Reads the counter without saving the next value
nextCounterUnsaved(k) == UNCHANGED counter

\* nextSecurityKeyCounter (synchronized)
nextSecurityKeyCounter(k) == counter' = [counter EXCEPT ![k] = @ + 1]

\* signSecurityKeyOnce takes the next counter for every attempt
takeCounter(c) ==
  /\ workerAt(c, "count")
  /\ nextSecurityKeyCounter(worker[c].key)
  /\ worker' = [worker EXCEPT ![c].at = "sign", ![c].count = counter[worker[c].key] + 1]
  /\ UNCHANGED <<locked, keys, activeClients, gate, signatures>> /\ workerFrame

\* The Keystore signs, has no token yet (retry, up to MaxAttempts), or fails
signSecurityKeyOnce(c) ==
  /\ workerAt(c, "sign")
  /\ \/ /\ signatures' = signatures \cup
             {[key |-> worker[c].key, id |-> worker[c].id, count |-> worker[c].count,
               locked |-> worker[c].late /\ locked]}
        /\ reply(c)
     \/ /\ worker[c].attempt + 1 < MaxAttempts
        /\ worker' = [worker EXCEPT ![c].at = "count", ![c].attempt = @ + 1]
        /\ UNCHANGED signatures
     \/ reply(c) /\ UNCHANGED signatures
  /\ UNCHANGED <<locked, keys, activeClients, gate, counter>> /\ workerFrame

(***************************************************************************)
(* BiometricAuthActivity, on the UI thread, and its user.                  *)
(***************************************************************************)
promptFrame == UNCHANGED <<server, locked, keys, acceptor, activeClients, worker,
                           counter, prefLocked, manager, managerMonitor, autoloads,
                           crashed, signatures>>

\* Completes whatever requests are waiting
completeAnyBiometricAuth(id, answer) ==
  pending' = [i \in DOMAIN pending |-> IF pending[i] = "waiting" THEN answer ELSE pending[i]]

\* completeBiometricAuth: only a future that is still pending, and only once
completeBiometricAuth(id, answer) ==
  pending' = [i \in DOMAIN pending |->
                IF i = id /\ pending[i] = "waiting" THEN answer ELSE pending[i]]

\* A prompt that is dismissed takes an answer until finish() has run
answerable(id) == ~crashed /\ id \in DOMAIN prompt /\ prompt[id] \in {"shown", "dismissed"}

\* startActivity and onCreate show the prompt, or fail
launchPrompt(id) ==
  /\ ~crashed /\ id \in DOMAIN prompt /\ prompt[id] = "posted"
  /\ \/ prompt' = [prompt EXCEPT ![id] = "shown"] /\ UNCHANGED pending
     \/ prompt' = [prompt EXCEPT ![id] = "done"] /\ completeBiometricAuth(id, "no")
  /\ UNCHANGED confirmed /\ promptFrame

onAuthenticationSucceeded(id) ==
  /\ answerable(id)
  /\ prompt' = [prompt EXCEPT ![id] = "done"]
  /\ completeBiometricAuth(id, "yes")
  /\ confirmed' = confirmed \cup {id}
  /\ promptFrame

\* An error or Cancel; or the activity is destroyed and nobody is told
onAuthenticationError(id) ==
  /\ answerable(id)
  /\ prompt' = [prompt EXCEPT ![id] = "done"]
  /\ \/ completeBiometricAuth(id, "no")
     \/ UNCHANGED pending
  /\ UNCHANGED confirmed /\ promptFrame

\* The finish() of dismissPendingPrompt runs
finishPrompt(id) ==
  /\ ~crashed /\ id \in DOMAIN prompt /\ prompt[id] = "dismissed"
  /\ prompt' = [prompt EXCEPT ![id] = "done"]
  /\ UNCHANGED <<pending, confirmed>> /\ promptFrame

(***************************************************************************)
(* SshAgentManager.  A thread's operation is a list of places: at is the   *)
(* next one, then says where startAgent goes on when it is done.           *)
(***************************************************************************)
NoOp == [at |-> "free", then |-> "free", lock |-> FALSE, todo |-> {}, key |-> None]

managerAt(m, place) == ~crashed /\ manager[m].at = place

managerFrame == UNCHANGED <<acceptor, activeClients, worker, gate, counter, crashed,
                            signatures>>

leave(m) == /\ manager' = [manager EXCEPT ![m] = NoOp]
            /\ managerMonitor' = None

goOn(m, place) == manager' = [manager EXCEPT ![m].at = place] /\ UNCHANGED managerMonitor

\* The user (or the service, at its start) asks for an operation
callManager(m) ==
  /\ managerAt(m, "free") /\ managerMonitor = None
  /\ \E op \in {"start", "stop", "addAll"} :
       manager' = [manager EXCEPT ![m] = [NoOp EXCEPT !.at = op]]
  /\ managerMonitor' = m
  /\ UNCHANGED <<server, locked, keys, prefLocked, autoloads>> /\ managerFrame

\* An autoload thread gets the managerMonitor
autoLoad(m) ==
  /\ managerAt(m, "free") /\ managerMonitor = None /\ autoloads > 0
  /\ autoloads' = autoloads - 1
  /\ manager' = [manager EXCEPT ![m] = [NoOp EXCEPT !.at = "addAll"]]
  /\ managerMonitor' = m
  /\ UNCHANGED <<server, locked, keys, prefLocked>> /\ managerFrame

\* startAgent: SshAgentServer.start, a new socket and accept thread, unlocked
startAgent(m) ==
  /\ managerAt(m, "start")
  /\ IF agentIsRunning
     THEN /\ IF manager[m].then = "free" THEN leave(m) ELSE goOn(m, manager[m].then)
          /\ UNCHANGED <<server, locked, acceptor>>
     ELSE /\ starts < MaxStarts
          /\ starts' = starts + 1
          /\ socket' = starts'
          /\ running' = TRUE
          /\ locked' = FALSE
          /\ \E a \in Acceptors :
               /\ acceptor[a].at = "dead"
               /\ acceptor' = [acceptor EXCEPT ![a] = [at |-> "check", on |-> 0]]
          /\ goOn(m, "unlockPref")
  /\ UNCHANGED <<keys, prefLocked, autoloads, activeClients, worker, gate,
                 counter, crashed, signatures>>

\* ... setLocked(false): the preference, then the server; then scheduleAutoLoad
startUnlockPref(m) ==
  /\ managerAt(m, "unlockPref")
  /\ prefLocked' = FALSE
  /\ goOn(m, "unlockServer")
  /\ UNCHANGED <<server, locked, keys, autoloads>> /\ managerFrame

startUnlockServer(m) ==
  /\ managerAt(m, "unlockServer")
  /\ locked' = IF agentIsRunning THEN FALSE ELSE locked
  /\ autoloads' = autoloads + 1
  /\ IF manager[m].then = "free" THEN leave(m) ELSE goOn(m, manager[m].then)
  /\ UNCHANGED <<server, keys, prefLocked>> /\ managerFrame

\* stopAgent: SshAgentServer.stop tells the threads,
stopAgent(m) ==
  /\ managerAt(m, "stop")
  /\ running' = FALSE
  /\ goOn(m, "stopClose")
  /\ UNCHANGED <<socket, starts, locked, keys, prefLocked, autoloads>>
  /\ managerFrame

\* ... wakes the accept loop and closes the socket,
stopClose(m) ==
  /\ managerAt(m, "stopClose")
  /\ socket' = 0
  /\ goOn(m, "stopClear")
  /\ UNCHANGED <<running, starts, locked, keys, prefLocked, autoloads>>
  /\ managerFrame

\* ... joins the accept thread for at most 500 ms and forgets the keys;
stopClear(m) ==
  /\ managerAt(m, "stopClear")
  /\ keys' = {}
  /\ prefLocked' = FALSE
  /\ leave(m)
  /\ UNCHANGED <<server, locked, autoloads>> /\ managerFrame

\* addAllKeys starts an agent that does not run,
addAllKeys(m) ==
  /\ managerAt(m, "addAll")
  /\ IF agentIsRunning THEN goOn(m, "addCheck")
     ELSE /\ manager' = [manager EXCEPT ![m].at = "start", ![m].then = "addCheck"]
          /\ UNCHANGED managerMonitor
  /\ UNCHANGED <<server, locked, keys, prefLocked, autoloads>> /\ managerFrame

\* ... gives up when locked, else loads every key it finds
addCheck(m) ==
  /\ managerAt(m, "addCheck")
  /\ IF prefLocked THEN leave(m)
     ELSE /\ manager' = [manager EXCEPT ![m].at = "addKey", ![m].todo = Keys]
          /\ UNCHANGED managerMonitor
  /\ UNCHANGED <<server, locked, keys, prefLocked, autoloads>> /\ managerFrame

\* addKey: the preference is tested again before each key
addKeyCheck(m) ==
  /\ managerAt(m, "addKey")
  /\ \/ manager[m].todo = {} /\ leave(m)
     \/ \E k \in manager[m].todo :
          /\ manager' = [manager EXCEPT ![m].todo = @ \ {k}, ![m].key = k,
                                        ![m].at = IF prefLocked THEN "addKey" ELSE "add"]
          /\ UNCHANGED managerMonitor
  /\ UNCHANGED <<server, locked, keys, prefLocked, autoloads>> /\ managerFrame

\* ... ssh-add's request, which a locked agent refuses; a security key is
\* put into the agent directly
addKey(m) ==
  /\ managerAt(m, "add")
  /\ keys' = IF manager[m].key \in SkKeys \/ (agentIsRunning /\ ~locked)
             THEN keys \cup {manager[m].key} ELSE keys
  /\ goOn(m, "addKey")
  /\ UNCHANGED <<server, locked, prefLocked, autoloads>> /\ managerFrame

\* setLocked, without the managerMonitor: the preference first,
setLocked(m) ==
  /\ managerAt(m, "free")
  /\ \E b \in BOOLEAN :
       /\ prefLocked' = b
       /\ manager' = [manager EXCEPT ![m] = [NoOp EXCEPT !.at = "lockServer", !.lock = b]]
  /\ UNCHANGED <<server, locked, keys, managerMonitor, autoloads>> /\ managerFrame

\* ... then the server, if it runs
lockServer(m) ==
  /\ managerAt(m, "lockServer")
  /\ locked' = IF agentIsRunning THEN manager[m].lock ELSE locked
  /\ manager' = [manager EXCEPT ![m] = NoOp]
  /\ UNCHANGED <<server, keys, prefLocked, managerMonitor, autoloads>> /\ managerFrame

-----------------------------------------------------------------------------
AgentInit ==
  /\ running = FALSE /\ locked = FALSE /\ keys = {} /\ socket = 0 /\ starts = 0
  /\ acceptor = [a \in Acceptors |-> [at |-> "dead", on |-> 0]]
  /\ activeClients = 0
  /\ worker = [c \in Clients |-> Idle]
  /\ pending = [i \in {} |-> "waiting"] /\ prompt = [i \in {} |-> "posted"]
  /\ confirmed = {}
  /\ counter = [k \in SkKeys |-> 0]
  /\ prefLocked \in BOOLEAN
  /\ manager = [m \in Managers |-> NoOp] /\ managerMonitor = None
  /\ autoloads = 0 /\ crashed = FALSE
  /\ signatures = {}

Accept(a) == acceptCheck(a) \/ acceptDeref(a) \/ acceptClient(a) \/ acceptClosed(a) \/ admit(a)

\* What a worker does without its client
ServeClient(c) == \/ loop(c) \/ identityRequest(c) \/ signFileKey(c) \/ awaitBiometricAuth(c)
           \/ biometricAnswered(c) \/ biometricTimeout(c)
           \/ takeCounter(c) \/ signSecurityKeyOnce(c)

Ui(id) == launchPrompt(id) \/ onAuthenticationSucceeded(id) \/ onAuthenticationError(id) \/ finishPrompt(id)

\* What a manager thread does once called
Manage(m) == \/ startAgent(m) \/ startUnlockPref(m) \/ startUnlockServer(m)
             \/ stopAgent(m) \/ stopClose(m) \/ stopClear(m)
             \/ addAllKeys(m) \/ addCheck(m) \/ addKeyCheck(m) \/ addKey(m) \/ lockServer(m)

AgentNext ==
  \/ \E a \in Acceptors : Accept(a)
  \/ \E c \in Clients : request(c) \/ disconnect(c) \/ ServeClient(c)
  \/ \E id \in Ids : Ui(id)
  \/ \E m \in Managers : callManager(m) \/ autoLoad(m) \/ setLocked(m) \/ Manage(m)

AgentSpec == AgentInit /\ [][AgentNext]_agentVars

\* The threads run; clients, users and callers owe nothing.  The wait for a
\* fingerprint ends by its timeout, whatever the prompt does.
AgentFairSpec == /\ AgentSpec
            /\ \A c \in Clients : WF_agentVars(ServeClient(c))
            /\ \A m \in Managers : WF_agentVars(Manage(m))

-----------------------------------------------------------------------------
(***************************************************************************)
(* Properties.                                                             *)
(***************************************************************************)
\* Types: every field, thread place and counter is in its range; no worker
\* retries beyond MaxAttempts and no more clients are counted than can be met.
AgentTypeOK ==
  /\ {running, locked, prefLocked, crashed} \subseteq BOOLEAN
  /\ keys \subseteq Keys /\ socket \in 0..MaxStarts /\ starts \in 0..MaxStarts
  /\ acceptor \in [Acceptors -> [at : {"dead", "check", "deref", "accept", "admit"},
                                 on : 0..MaxStarts]]
  /\ activeClients \in 0..(MaxClients + Cardinality(Acceptors))
  /\ worker \in [Clients -> [at : {"free", "loop", "read", "do", "await", "count", "sign"},
                             op : {None, "list", "add", "remove", "removeAll", "sign"},
                             key : Keys \cup {None}, id : 0..MaxRequests,
                             attempt : 0..(MaxAttempts - 1), count : Nat,
                             late : BOOLEAN]]
  /\ DOMAIN prompt \subseteq Ids /\ DOMAIN pending \subseteq DOMAIN prompt
  /\ \A i \in DOMAIN pending : pending[i] \in {"waiting", "yes", "no"}
  /\ \A i \in DOMAIN prompt : prompt[i] \in {"posted", "shown", "dismissed", "done"}
  /\ confirmed \subseteq Ids
  /\ counter \in [SkKeys -> Nat]
  /\ managerMonitor \in Managers \cup {None}
  /\ autoloads \in 0..MaxStarts

\* "Always gate the SSH signature explicitly" (signSecurityKey): every
\* security-key signature was confirmed by a fingerprint given to its own
\* request's prompt, and one fingerprint lets out one signature, whatever
\* prompts are answered late, time out, are retried or belong to other clients.
OneTouchOneSignature ==
  /\ \A s \in signatures : s.id \in confirmed
  /\ \A s, t \in signatures : s.id = t.id => s = t

\* Two signatures of a security key never carry the same counter, and the
\* saved counter is never behind one that was sent (nextSecurityKeyCounter):
\* a server that detects clones by the counter sees it rise.
CounterNeverReused ==
  /\ \A s, t \in signatures : (s.key = t.key /\ s.count = t.count) => s = t
  /\ \A s \in signatures : s.count <= counter[s.key]

\* activeClients counts exactly the workers and the client being admitted, and
\* never more workers than MAX_CONCURRENT_CLIENTS run: no refusal, disconnect
\* or restart makes the count drift until everyone is refused.
ClientsCounted ==
  LET busy == {c \in Clients : worker[c].at # "free"}
      met  == {a \in Acceptors : acceptor[a].at = "admit"}
  IN /\ activeClients = Cardinality(busy) + Cardinality(met)
     /\ Cardinality(busy) <= MaxClients

\* Every request is answered: a client that waits for a signature gets it or
\* FAILURE, even when the prompt is never shown or dies unanswered.
RequestAnswered ==
  \A c \in Clients :
    (worker[c].at \in {"do", "await", "count", "sign"})
      ~> (crashed \/ worker[c].at \in {"loop", "read", "free"})

\* "While locked the agent refuses every operation (identities, signing, adds)"
\* (SshAgentServer.setLocked): an agent that was locked when the fingerprint
\* was given, and still is, lets no signature out.
NoSignatureWhileLocked == \A s \in signatures : ~s.locked

\* The threads of the agent are where they can be, and counted.
AgentBounded == AgentTypeOK /\ ClientsCounted
=============================================================================
