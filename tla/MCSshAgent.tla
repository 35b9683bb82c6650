----------------------------- MODULE MCSshAgent -----------------------------
(***************************************************************************)
(* Instances of SshAgent for TLC.  A behaviour exercises one concern, its  *)
(* part.  What a part leaves out is never begun by a client, an autoload   *)
(* thread or a caller of the manager, so what is fair stays enabled.       *)
(***************************************************************************)
EXTENDS SshAgent

CONSTANTS c1, c2, a1, sk

VARIABLE part

\* "one":     the client c1 and the manager do everything, with one prompt;
\* "sign":    two clients want signatures of a running agent that holds sk;
\* "restart": the agent is stopped and started while clients come and go.
MCInit ==
  \/ part \in {"one", "restart"} /\ AgentInit /\ (prefLocked => part = "restart")
  \/ /\ part = "sign"
     /\ running = TRUE /\ locked = FALSE /\ keys = {sk} /\ socket = 1 /\ starts = 1
     /\ acceptor = [a \in Acceptors |-> [at |-> IF a = a1 THEN "check" ELSE "dead", on |-> 0]]
     /\ activeClients = 0
     /\ worker = [c \in Clients |-> Idle]
     /\ pending = [i \in {} |-> "waiting"] /\ prompt = [i \in {} |-> "posted"]
     /\ confirmed = {} /\ counter = [k \in SkKeys |-> 0]
     /\ prefLocked = FALSE /\ manager = [m \in Managers |-> NoOp] /\ managerMonitor = None
     /\ autoloads = 0 /\ crashed = FALSE /\ signatures = {}

\* (the accept thread of the first start() may be called a1)
Within ==
  /\ starts' = 1 => \A a \in Acceptors \ {a1} : acceptor'[a].at = "dead"
  /\ CASE part = "one"     -> activeClients' <= 1 /\ worker'[c2].at = "free" /\ starts' <= 1 /\ DOMAIN prompt' \subseteq {1}
       [] part = "sign"    -> /\ \A c \in Clients : worker'[c].op \in {None, "sign"} /\ worker'[c].key \in {None, sk}
                              /\ \A m \in Managers : manager'[m].at \in {"free", "lockServer"}
       [] part = "restart" -> /\ \A c \in Clients : worker'[c].op \in {None, "list"} /\ worker'[c].key \in {None, sk}
                              /\ \A m \in Managers : manager'[m].at # "addAll"

MCNext == AgentNext /\ Within /\ UNCHANGED part

MCSpec == /\ MCInit /\ [][MCNext]_<<agentVars, part>>
          /\ \A c \in Clients : WF_agentVars(ServeClient(c))
          /\ \A m \in Managers : WF_agentVars(Manage(m))
=============================================================================
