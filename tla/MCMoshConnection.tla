-------------------------- MODULE MCMoshConnection --------------------------
(***************************************************************************)
(* Instances of MoshConnection, MoshCipher and MoshPrediction for TLC.     *)
(* Each setting bounds one concern.  The connection takes a datagram for   *)
(* intact or not, which is what the cipher decides, and the predictions    *)
(* see only the acknowledgements of a connection: they share no state, and *)
(* a behaviour exercises one of them.                                      *)
(***************************************************************************)
EXTENDS MoshConnection, MoshCipher, MoshPrediction

Common == [msgs |-> 2, sends |-> [p \in Peers |-> IF p = Client THEN 2 ELSE 0], sizes |-> {1}, until |-> FirstTime,
           life |-> 3, faults |-> {}, paced |-> FALSE, requests |-> {<<>>}, busy |-> {{}}]

\* Permutations of the blocks of four bits.
Bits4(n) == [i \in 1..4 |-> (n \div 2^(4 - i)) % 2]
Num4(b) == 8 * b[1] + 4 * b[2] + 2 * b[3] + b[4]
Affine(a) == [b \in [1..4 -> {0, 1}] |-> Bits4((a * Num4(b) + 6 + (Num4(b) \div 4) * (Num4(b) % 2) * 8) % 16)]
MCCiphers == {Affine(11)}
MCPoly == <<0, 0, 1, 1>>
MCNonces == {<<0, 0, 0>>, <<0, 0, 1>>, <<1, 1, 0>>}
Text(n) == [i \in 1..n |-> IF i % 3 = 1 \/ i % 7 = 2 THEN 1 ELSE 0]
MCTexts == {Text(n) : n \in {0, 3, 9, 16, 30, 39}}
MCDatas == {Text(n) : n \in {0, 6, 22}}
MCPrintables == [1..6 -> {0, 5, 7}] \union {<<1, 2, 3, 4, 5>>, <<1, 2, 3, 4, NoDigit, 0>>, <<4, 3, 2, 1, 6, 4>>}

VARIABLE part

Echoing(p, w, h, ks, n) ==
  [preference |-> p, overwrite |-> FALSE, intervals |-> {2}, width |-> w, height |-> h,
   keys |-> ks, count |-> n, blind |-> FALSE, prompt |-> FALSE, until |-> 0]

MCEchoSettings ==
  { [Echoing("Always", 3, 2, {Letter, "CR", Secret}, 4) EXCEPT !.blind = TRUE, !.prompt = TRUE],
    Echoing("Always", 3, 1, {Letter, "DEL", "LEFT", "RIGHT"}, 3),
    [Echoing("Always", 3, 2, {Letter, "DEL"}, 3) EXCEPT !.overwrite = TRUE],
    Echoing("Experimental", 2, 2, {Letter, "DEL", "CR"}, 3),
    [Echoing("Adaptive", 3, 1, {Letter}, 2) EXCEPT !.intervals = {1, 3}, !.until = 3],
    Echoing("Never", 3, 1, {Letter}, 1),
    Echoing("Always", 3, 2, {Letter, "RESIZE"}, 3),
    Echoing("Always", 3, 2, {Letter, "WIDE", "PASTE", "ESCAPE"}, 3) }

MCInit ==
  /\ part \in {"connection", "cipher", "key", "prediction"}
  /\ Init /\ (part # "connection" => setting = Common)
  /\ CipherInit /\ (part \notin {"cipher", "key"} => lib = "openssl")
  /\ PredictionInit /\ (part # "prediction" => echoing.preference = "Never")
MCNext ==
  \/ part = "connection" /\ Next /\ UNCHANGED <<cipherVars, predictionVars, part>>
  \/ part = "cipher" /\ CipherNext /\ UNCHANGED <<vars, predictionVars, part>>
  \/ part = "key" /\ OfferKey /\ UNCHANGED <<vars, predictionVars, part>>
  \/ part = "prediction" /\ PredictionNext /\ UNCHANGED <<vars, cipherVars, part>>
MCSpec == MCInit /\ [][MCNext]_<<vars, cipherVars, predictionVars, part>>

MCSettings ==
  { Common,
    [Common EXCEPT !.sizes = {1, 3, 5}, !.sends[Client] = 3, !.faults = {"small"}],  \* fragments of several sizes
    [Common EXCEPT !.msgs = 14, !.sends[Client] = 14, !.faults = {"reflect", "deaf"}],  \* nonces run out
    [Common EXCEPT !.msgs = 3, !.sends[Client] = 3, !.sends[Server] = 1, !.faults = {"roam", "damage"}],
    [Common EXCEPT !.sends = [p \in Peers |-> 1], !.until = FirstTime + 8, !.faults = {"congest"}],  \* long round trips
    [Common EXCEPT !.sends[Server] = 2, !.until = FirstTime + 3, !.life = 1, !.faults = {"congest"}],  \* several
    [Common EXCEPT !.msgs = 20, !.sends = [p \in Peers |-> IF p = Client THEN 20 ELSE 4],
                   !.until = FirstTime + 8, !.life = 0, !.paced = TRUE],  \* ports
    [Common EXCEPT !.requests = {<<>>, <<0, NoHigh>>, <<2, NoHigh>>, <<2, 3>>, <<3, 2>>, <<0, 2>>, <<Bad, 3>>, <<2, Bad>>},
                   !.busy = SUBSET {1, 2, 3}, !.sends[Client] = 1] }  \* the server's port
=============================================================================
