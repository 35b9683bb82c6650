--------------------------- MODULE MCMoshSession ---------------------------
(***************************************************************************)
(* Instances of MoshSession, MoshClient and MoshStartup for TLC.  Each of  *)
(* them has the others for its environment: they share no state, and a     *)
(* behaviour exercises one of them.  Each scenario bounds one concern.     *)
(***************************************************************************)
EXTENDS MoshSession, MoshClient, MoshStartup

Bounded(k, s, u, f) == [keys |-> k, screens |-> s, until |-> u, faults |-> f]

MCScenarios ==
  { Bounded(0, 1, 4, {}),                                \* retransmission
    Bounded(1, 1, 3, {}),                                \* input and output cross
    Bounded(1, 0, 2, {"resize", "childExit"}),           \* a size for a program that ended
    Bounded(0, 0, 3, {"quit"}),                          \* the client leaves
    Bounded(0, 0, 3, {"childExit"}),                     \* the program ends
    Bounded(0, 0, 3, {"term", "usr1"}),                  \* the server is told to end
    Bounded(0, 0, 3, {"reorder"}),                       \* old datagrams
    Bounded(0, 0, 2, {"quit", "childExit", "term"}) }    \* everybody ends at once

Using(kinds, bytes, length, escapes) == [kinds |-> kinds, bytes |-> bytes, length |-> length, escape |-> escapes]
Datagram == {"new", "acked", "old"}
MCUses ==
  { Using(Datagram \cup {"time", "sendError", "exception"}, {}, 0, {"control"}),             \* errors come and go
    Using(Datagram \cup {"time", "crypto", "fatal", "term", "peerEnds"}, {}, 0, {"control"}), \* ways to end
    Using({"new", "time", "stop", "eof", "winch", "term"}, {<<"^", "Z">>}, 2, {"control"}),  \* suspended and resumed
    Using({"new"}, {<<b>> : b \in {"^", "p", ".", "Z", "n", "L"}} \cup {<<"^", "Z", "^">>, <<"n", "^">>, <<"Z", "^", "p">>},
          4, {"control", "printable", "empty"}) }                                            \* keys

Locale(ctype, lang) == ("LC_ALL" :> "") @@ ("LC_CTYPE" :> ctype) @@ ("LANG" :> lang) @@ ("LANGUAGE" :> "")
Around(held, native, vs, ls, i, u, f) ==
  [hold |-> held, native |-> native, vars |-> vs, lines |-> ls, idle |-> [number |-> i], signaled |-> [number |-> u], faults |-> f]
MCEnvirons ==
  { Around(TRUE, "other", Locale("", ""), <<[kind |-> "ip", ip |-> "a"]>>, 0, 0, {"drop", "day", "close", "term", "kill"}),
    Around(FALSE, "other", Locale("other", "utf8"), <<[kind |-> "other"]>>, 0, 0, {"drop"}),       \* no locale
    Around(FALSE, "utf8", Locale("", ""), <<[kind |-> "connection", words |-> <<"a", "b", "c", "d">>]>>, 0, 2,
           {"time", "stray", "usr1"}),
    Around(FALSE, "utf8", Locale("", ""), <<[kind |-> "connect", key |-> ""]>>, 0, 0, {"time", "term"}), \* no key
    Around(TRUE, "utf8", Locale("", ""), <<>>, 2, -1, {"time"}) }                                   \* idle

VARIABLE part

MCInit ==
  /\ part \in {"session", "client", "startup"}
  /\ Init /\ (part # "session" => scenario = Bounded(0, 0, 3, {"quit"}))
  /\ ClientInit /\ (part # "client" => uses.length = 2)
  /\ StartupInit /\ (part # "startup" => env.idle.number = 2)

MCNext ==
  \/ part = "session" /\ Next /\ UNCHANGED <<clientVars, startupVars, part>>
  \/ part = "client" /\ ClientNext /\ UNCHANGED <<vars, startupVars, part>>
  \/ part = "startup" /\ StartupNext /\ UNCHANGED <<vars, clientVars, part>>

MCSpec == MCInit /\ [][MCNext]_<<vars, clientVars, startupVars, part>>
=============================================================================
