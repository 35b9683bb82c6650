----------------------- MODULE SessionService_proofs -----------------------
(***************************************************************************)
(* Proofs about the session list, the screen and the notification          *)
(* (SessionService), for any set of sessions and any number of HTTP        *)
(* threads.                                                                *)
(*                                                                         *)
(* A step changes the list in one of five ways (ListStep) and the screen   *)
(* in one of four (ViewStep).  The invariant says where the references to  *)
(* sessions that the threads keep between two calls come from (RefsOK),    *)
(* where the UI thread may stand while a listed session on screen has no   *)
(* listener (SlotOK), and, for a release build, what each place of the UI  *)
(* thread knows of the list (ReleaseOK).                                   *)
(***************************************************************************)
EXTENDS SessionService, SequenceTheorems, FiniteSetTheorems, TLAPS

\* The HTTP threads that looked a session up and have yet to remove it
Removing == {h \in HttpThreads : httpPc[h] = "remove"}

ListOK ==
  /\ sessions \in Seq(Sessions) /\ current \in Int
  /\ created \subseteq Sessions /\ handed \subseteq created /\ Range(sessions) \subseteq created
  /\ IndexNamesSession /\ NoOrphanSessions

\* What the threads keep between two calls of the service was created once
RefsOK ==
  /\ uiQueue \in Seq(created)
  /\ displayed \in created \cup {NoSession} /\ dialog \in created \cup {NoSession}
  /\ uiPc = "attach" => uiArg \in created
  /\ uiPc \in {"dismiss", "replace"} => uiArg = displayed /\ displayed \in created
  /\ uiPc = "switch" => uiArg \in Nat

\* Requests are admitted below the bound, one at a time for each thread
HttpOK ==
  /\ httpPc \in [HttpThreads -> HttpSteps]
  /\ httpArg \in [HttpThreads -> Sessions \cup {NoSession}]
  /\ \A h \in HttpThreads : httpPc[h] = "remove" => httpArg[h] \in created
  /\ Len(uiQueue) + Cardinality(Removing) <= MaxPosts + Cardinality(HttpThreads)

FlagsOK ==
  /\ listening \in BOOLEAN /\ bound \in BOOLEAN /\ stayConnected \in BOOLEAN
  /\ foreground \in BOOLEAN /\ debugBuild \in BOOLEAN
  /\ dead \subseteq created /\ uiPc \in UiSteps
  /\ process \in {"running", "exiting", "killed", "crashed"}

\* The UI thread is inside a handler that has taken the listener slot away
Between == uiPc \in {"switch", "target", "dismiss", "replace"}

SlotOK ==
  /\ listener \in [Sessions -> {"none", "view", "stale"}]
  /\ \A s \in Sessions : listener[s] = "view" => s = displayed
  /\ ~Between /\ displayed \in Range(sessions) => listener[displayed] = "view"

\* Without HTTP threads nothing comes between the steps of a handler
ReleaseOK ==
  /\ uiQueue = <<>> /\ \A h \in HttpThreads : httpPc[h] = "idle"
  /\ uiPc \in {"again", "switch", "target", "startForeground"} => sessions # <<>>
  /\ uiPc = "attach" => uiArg \in Range(sessions)
  /\ process # "crashed"
  /\ uiPc = "stopForeground" => process # "running"
  /\ process = "running" =>
       /\ bound /\ uiPc \in {"idle", "startForeground"} => displayed \in Range(sessions)
       /\ uiPc # "startForeground" => (foreground <=> sessions # <<>> /\ stayConnected)
       /\ uiPc = "startForeground" => (foreground => stayConnected)

\* The five ways a step changes the list
Adds(s) ==
  /\ s \in Sessions /\ s \notin created
  /\ created' = created \cup {s} /\ sessions' = Append(sessions, s)
  /\ current' = Len(sessions) /\ UNCHANGED handed
Picks ==
  current' \in 0..(Len(sessions) - 1) /\ UNCHANGED <<sessions, created, handed>>
Drops(s) ==
  /\ s \in created /\ handed' = handed \cup {s} /\ UNCHANGED created
  /\ sessions' = Without(sessions, s) /\ current' = clampedIndex(Without(sessions, s), current)
ListStep ==
  UNCHANGED service \/ (\E s : Adds(s)) \/ Picks \/ (\E s : Drops(s)) \/ takeAll

\* What a request on HTTP thread h does outside the list
Ends(h) ==
  /\ \E p \in {"idle", "start", "stop"} : httpPc' = [httpPc EXCEPT ![h] = p]
  /\ httpArg' = [httpArg EXCEPT ![h] = NoSession]
Posts ==
  uiQueue' = uiQueue \/ \E c \in created' : uiQueue' = Append(uiQueue, c)
HttpCall(h) ==
  /\ ListStep /\ UNCHANGED <<displayed, listener, debugBuild>> /\ foreground' \in {foreground, FALSE}
  /\ UNCHANGED <<httpPc, httpArg, uiQueue>> \/ (Ends(h) /\ Posts)

ServiceInv == ListOK /\ RefsOK /\ HttpOK /\ FlagsOK /\ SlotOK /\ (~debugBuild => ReleaseOK)

-----------------------------------------------------------------------------
(***************************************************************************)
(* The operators on the list.                                              *)
(***************************************************************************)

\* ArrayList.indexOf of a listed session is the place where it stands.
LEMMA IndexFact ==
  ASSUME NEW list \in Seq(Sessions), NEW s \in Range(list)
  PROVE  /\ indexOf(list, s) \in 0..(Len(list) - 1)
         /\ list[indexOf(list, s) + 1] = s
<1>1. DOMAIN list = 1..Len(list) /\ Len(list) \in Nat
  BY LenProperties
<1>2. \E i \in DOMAIN list : list[i] = s
  BY DEF Range
<1> DEFINE k == CHOOSE i \in DOMAIN list : list[i] = s
<1>3. k \in DOMAIN list /\ list[k] = s
  BY <1>2
<1>4. indexOf(list, s) = k - 1
  BY DEF indexOf
<1> HIDE DEF k
<1> QED
  BY <1>1, <1>3, <1>4

\* ArrayList.remove of a session that stands once in the list takes away it
\* and nothing else.
LEMMA WithoutFact ==
  ASSUME NEW list \in Seq(Sessions), IsInjective(list), NEW s
  PROVE  /\ Without(list, s) \in Seq(Sessions) /\ IsInjective(Without(list, s))
         /\ Range(Without(list, s)) = Range(list) \ {s}
<1>1. CASE s \notin Range(list)
  BY <1>1 DEF Without
<1>2. CASE s \in Range(list)
  <2> DEFINE k == indexOf(list, s) + 1
             n == Len(list)
             l == SubSeq(list, 1, k - 1)
             r == SubSeq(list, k + 1, n)
             w == l \o r
  <2>1. n \in Nat /\ DOMAIN list = 1..n /\ \A i \in 1..n : list[i] \in Sessions
    BY LenProperties, ElementOfSeq
  <2>2. k \in 1..n /\ list[k] = s
    BY <1>2, <2>1, IndexFact
  <2>3. Without(list, s) = w
    BY <1>2 DEF Without, RemoveAt
  <2> HIDE DEF k, n
  <2>4. l \in Seq(Sessions) /\ Len(l) = k - 1 /\ \A i \in 1..(k - 1) : l[i] = list[i]
    <3>1. \A i \in 1..(k - 1) : list[i] \in Sessions
      BY <2>1, <2>2
    <3>2. /\ l \in Seq(Sessions) /\ Len(l) = IF 1 <= k - 1 THEN k - 1 - 1 + 1 ELSE 0
          /\ \A i \in 1..(k - 1 - 1 + 1) : l[i] = list[1 + i - 1]
      BY <3>1, <2>1, <2>2, SubSeqProperties
    <3> HIDE DEF l
    <3> QED
      BY <3>2, <2>1, <2>2
  <2>5. r \in Seq(Sessions) /\ Len(r) = n - k /\ \A i \in 1..(n - k) : r[i] = list[k + i]
    <3>1. \A i \in (k + 1)..n : list[i] \in Sessions
      BY <2>1, <2>2
    <3>2. /\ r \in Seq(Sessions) /\ Len(r) = IF k + 1 <= n THEN n - (k + 1) + 1 ELSE 0
          /\ \A i \in 1..(n - (k + 1) + 1) : r[i] = list[k + 1 + i - 1]
      BY <3>1, <2>1, <2>2, SubSeqProperties
    <3> HIDE DEF r
    <3> QED
      BY <3>2, <2>1, <2>2
  <2> HIDE DEF l, r
  <2>6. w \in Seq(Sessions) /\ Len(w) = n - 1 /\ DOMAIN w = 1..(n - 1)
    <3>1. w \in Seq(Sessions) /\ Len(w) = Len(l) + Len(r)
      BY <2>4, <2>5, ConcatProperties
    <3> HIDE DEF w
    <3>2. Len(w) = n - 1
      BY <3>1, <2>4, <2>5, <2>1, <2>2
    <3> QED
      BY <3>1, <3>2, LenProperties
  <2>7. \A i \in 1..(n - 1) : w[i] = IF i < k THEN list[i] ELSE list[i + 1]
    <3>1. \A i \in 1..(Len(l) + Len(r)) : w[i] = IF i <= Len(l) THEN l[i] ELSE r[i - Len(l)]
      BY <2>4, <2>5, ConcatProperties
    <3> HIDE DEF w
    <3>2. ASSUME NEW i \in 1..(n - 1), i < k PROVE w[i] = list[i]
      BY <3>1, <3>2, <2>4, <2>5, <2>1, <2>2
    <3>3. ASSUME NEW i \in 1..(n - 1), ~(i < k) PROVE w[i] = list[i + 1]
      <4>1. w[i] = r[i - (k - 1)]
        BY <3>1, <3>3, <2>4, <2>5, <2>1, <2>2
      <4>2. i - (k - 1) \in 1..(n - k) /\ k + (i - (k - 1)) = i + 1
        BY <3>3, <2>1, <2>2
      <4> QED
        BY <4>1, <4>2, <2>5
    <3> QED
      BY <3>2, <3>3
  <2> HIDE DEF w
  <2>8. IsInjective(w)
    <3> SUFFICES ASSUME NEW i \in 1..(n - 1), NEW j \in 1..(n - 1), w[i] = w[j]
                 PROVE  i = j
      BY <2>6 DEF IsInjective
    <3>1. \A a, b \in 1..n : list[a] = list[b] => a = b
      BY <2>1 DEF IsInjective
    <3>2. PICK a \in 1..n : w[i] = list[a] /\ a = IF i < k THEN i ELSE i + 1
      BY <2>1, <2>2, <2>7
    <3>3. PICK b \in 1..n : w[j] = list[b] /\ b = IF j < k THEN j ELSE j + 1
      BY <2>1, <2>2, <2>7
    <3>4. a = b
      BY <3>1, <3>2, <3>3
    <3> QED
      BY <3>2, <3>3, <3>4, <2>1, <2>2
  <2>9. Range(w) = Range(list) \ {s}
    <3>1. \A i \in 1..n : list[i] = s <=> i = k
      BY <2>1, <2>2 DEF IsInjective
    <3>2. \A i \in 1..(n - 1) : w[i] \in Range(list) /\ w[i] # s
      BY <3>1, <2>1, <2>2, <2>7 DEF Range
    <3>3. \A i \in 1..n : i # k => \E j \in 1..(n - 1) : w[j] = list[i]
      <4> TAKE i \in 1..n
      <4> HAVE i # k
      <4>1. CASE i < k
        BY <4>1, <2>1, <2>2, <2>7
      <4>2. CASE i > k
        <5>1. i - 1 \in 1..(n - 1) /\ ~(i - 1 < k) /\ (i - 1) + 1 = i
          BY <4>2, <2>1, <2>2
        <5> QED
          BY <5>1, <2>7
      <4> QED
        BY <4>1, <4>2, <2>2
    <3> QED
      <4>1. ASSUME NEW y \in Range(w) PROVE y \in Range(list) \ {s}
        BY <4>1, <3>2, <2>6 DEF Range
      <4>2. ASSUME NEW y \in Range(list) \ {s} PROVE y \in Range(w)
        <5>1. PICK i \in 1..n : y = list[i]
          BY <4>2, <2>1 DEF Range
        <5>2. PICK j \in 1..(n - 1) : w[j] = list[i]
          BY <4>2, <5>1, <3>1, <3>3
        <5> QED
          BY <5>1, <5>2, <2>6 DEF Range
      <4> QED
        BY <4>1, <4>2
  <2> QED
    BY <2>3, <2>6, <2>8, <2>9
<1> QED
  BY <1>1, <1>2

\* List.add of a session that is not in the list.
LEMMA AppendFact ==
  ASSUME NEW list \in Seq(Sessions), IsInjective(list), NEW s \in Sessions, s \notin Range(list)
  PROVE  /\ Append(list, s) \in Seq(Sessions) /\ IsInjective(Append(list, s))
         /\ Range(Append(list, s)) = Range(list) \cup {s}
         /\ Append(list, s) # <<>> /\ Len(Append(list, s)) = Len(list) + 1
<1> DEFINE w == Append(list, s)
           n == Len(list)
<1>1. n \in Nat /\ DOMAIN list = 1..n
  BY LenProperties
<1>2. /\ w \in Seq(Sessions) /\ w # <<>> /\ Len(w) = n + 1
      /\ \A i \in 1..n : w[i] = list[i]
      /\ w[n + 1] = s
  BY AppendProperties
<1> HIDE DEF n, w
<1>3. DOMAIN w = 1..(n + 1)
  BY <1>2, LenProperties
<1>4. \A i \in 1..n : list[i] # s
  BY <1>1 DEF Range
<1>5. IsInjective(w)
  BY <1>1, <1>2, <1>3, <1>4 DEF IsInjective
<1>6. Range(w) = Range(list) \cup {s}
  <2>1. \A i \in 1..(n + 1) : i \in 1..n \/ i = n + 1
    BY <1>1
  <2>2. ASSUME NEW y \in Range(w) PROVE y \in Range(list) \cup {s}
    BY <2>1, <2>2, <1>1, <1>2, <1>3 DEF Range
  <2>3. n + 1 \in 1..(n + 1) /\ \A i \in 1..n : i \in 1..(n + 1)
    BY <1>1
  <2>4. ASSUME NEW y \in Range(list) \cup {s} PROVE y \in Range(w)
    BY <2>3, <2>4, <1>1, <1>2, <1>3 DEF Range
  <2> QED
    BY <2>2, <2>4
<1> QED
  BY <1>2, <1>5, <1>6 DEF w, n

\* getCurrentSession answers with a listed session unless the list is empty.
LEMMA SessionAtFact ==
  ASSUME NEW list \in Seq(Sessions), NEW i \in Int
  PROVE  /\ list = <<>> => sessionAt(list, i) = NoSession
         /\ list # <<>> => sessionAt(list, i) \in Range(list)
         /\ list = <<>> <=> Range(list) = {}
         /\ Range(list) \subseteq Sessions
<1>1. Len(list) \in Nat /\ DOMAIN list = 1..Len(list) /\ (list # <<>> => Len(list) \in Nat \ {0})
  BY LenProperties, EmptySeq
<1>2. ASSUME list # <<>> PROVE repairedIndex(list, i) + 1 \in DOMAIN list
  BY <1>1, <1>2 DEF repairedIndex
<1>3. ASSUME list # <<>> PROVE sessionAt(list, i) \in Range(list)
  BY <1>2, <1>3 DEF sessionAt, Range
<1>4. list = <<>> => Range(list) = {}
  <2>1. Range(<<>>) = {}
    BY DEF Range
  <2> QED
    BY <2>1
<1>5. Range(list) \subseteq Sessions
  BY RangeOfSeq
<1> QED
  BY <1>3, <1>4, <1>5 DEF sessionAt

(***************************************************************************)
(* The list.                                                               *)
(***************************************************************************)

\* The list stays consistent, created sessions stay created, and only a new
\* session enters the list.
LEMMA ListPreserved ==
  ASSUME ListOK, ListStep
  PROVE  ListOK' /\ created \subseteq created' /\ Range(sessions') \subseteq Range(sessions) \cup (created' \ created)
<1>0. Len(sessions) \in Nat /\ (sessions # <<>> => Len(sessions) \in Nat \ {0})
  BY LenProperties, EmptySeq DEF ListOK
<1>1. CASE UNCHANGED service
  BY <1>1 DEF ListOK, IndexNamesSession, NoOrphanSessions, service
<1>2. ASSUME NEW s, Adds(s)
      PROVE  ListOK' /\ created \subseteq created' /\ Range(sessions') \subseteq Range(sessions) \cup (created' \ created)
  <2>1. /\ sessions' \in Seq(Sessions) /\ IsInjective(sessions') /\ Range(sessions') = Range(sessions) \cup {s}
        /\ sessions' # <<>> /\ Len(sessions') = Len(sessions) + 1
    BY <1>2, AppendFact DEF Adds, ListOK, NoOrphanSessions
  <2>2. IndexNamesSession'
    BY <2>1, <1>0, <1>2 DEF IndexNamesSession, Adds
  <2>3. NoOrphanSessions'
    BY <2>1, <1>2 DEF NoOrphanSessions, Adds, ListOK
  <2> QED
    BY <2>1, <2>2, <2>3, <1>0, <1>2 DEF ListOK, Adds
<1>3. CASE Picks
  BY <1>0, <1>3 DEF Picks, ListOK, IndexNamesSession, NoOrphanSessions
<1>4. ASSUME NEW s, Drops(s)
      PROVE  ListOK' /\ created \subseteq created' /\ Range(sessions') \subseteq Range(sessions) \cup (created' \ created)
  <2>1. /\ sessions' \in Seq(Sessions) /\ IsInjective(sessions') /\ Range(sessions') = Range(sessions) \ {s}
    BY <1>4, WithoutFact DEF Drops, ListOK, NoOrphanSessions
  <2>2. Len(sessions') \in Nat /\ (sessions' # <<>> => Len(sessions') \in Nat \ {0})
    BY <2>1, LenProperties, EmptySeq
  <2>3. sessions' # <<>> => sessions # <<>>
    BY <2>1, SessionAtFact DEF ListOK
  <2>4. current' \in Int /\ IndexNamesSession'
    BY <2>2, <2>3, <1>0, <1>4 DEF IndexNamesSession, ListOK, Drops, clampedIndex
  <2>5. NoOrphanSessions'
    BY <2>1, <1>4 DEF NoOrphanSessions, Drops, ListOK
  <2> QED
    BY <2>1, <2>4, <2>5, <1>4 DEF ListOK, Drops
<1>5. CASE takeAll
  <2>1. Range(<<>>) = {} /\ IsInjective(<<>>) /\ <<>> \in Seq(Sessions)
    BY DEF Range, IsInjective
  <2>2. sessions' = <<>> /\ current' = -1 /\ handed' = handed \cup Range(sessions) /\ created' = created
    BY <1>5 DEF takeAll
  <2> QED
    BY <2>1, <2>2 DEF ListOK, IndexNamesSession, NoOrphanSessions
<1> QED
  BY <1>1, <1>2, <1>3, <1>4, <1>5 DEF ListStep

\* What the UI thread does with the service, as the UI thread sees it.
LEMMA UiAddFact ==
  ASSUME NEW s \in Sessions, addSession(UI, s)
  PROVE  Adds(s) /\ UNCHANGED http /\ foreground' \in {foreground, stayConnected}
         /\ (sessions' # <<>> => foreground' = stayConnected)
BY DEF addSession, updateNotification, Adds, http

\* selectIndex on the UI thread picks a listed session or does nothing.
LEMMA UiSelectFact ==
  ASSUME ListOK, NEW i \in Int, selectIndex(UI, i)
  PROVE  /\ UNCHANGED http
         /\ \/ UNCHANGED service /\ UNCHANGED foreground
            \/ Picks /\ sessions # <<>> /\ foreground' = stayConnected
<1>0. Len(sessions) \in Nat /\ Len(<<>>) = 0
  BY LenProperties, EmptySeq DEF ListOK
<1>1. CASE selects(i)
  <2>1. i \in 0..(Len(sessions) - 1) /\ sessions # <<>>
    BY <1>0, <1>1 DEF selects
  <2>2. current' = i /\ updateNotification(UI, sessions) /\ UNCHANGED <<sessions, created, handed>>
    BY <1>1 DEF selectIndex
  <2> QED
    BY <2>1, <2>2 DEF updateNotification, Picks
<1>2. CASE ~selects(i)
  BY <1>2 DEF selectIndex
<1> QED
  BY <1>1, <1>2

\* On the UI thread the listener attaches at once and posts nothing.
LEMMA UiNotifyFact ==
  ASSUME NEW cur, notifyCurrentChanged(UI, cur)
  PROVE  uiQueue' = uiQueue /\ (UNCHANGED view \/ (cur # NoSession /\ attachSession(cur)))
BY DEF notifyCurrentChanged

\* removeSession on the UI thread drops the session and attaches at most a
\* listed one.
LEMMA UiRemoveFact ==
  ASSUME ListOK, NEW s \in created, removeSession(UI, s)
  PROVE  /\ Drops(s) /\ UNCHANGED http /\ uiQueue' = uiQueue
         /\ foreground' = (IF sessions' = <<>> THEN FALSE ELSE stayConnected)
         /\ UNCHANGED view \/ \E c \in Range(sessions') : attachSession(c)
<1> DEFINE list == Without(sessions, s)
           idx  == clampedIndex(list, current)
<1>1. Drops(s) /\ sessions' = list /\ current' = idx
  BY DEF removeSession, Drops
<1>2. UNCHANGED http /\ foreground' = (IF list = <<>> THEN FALSE ELSE stayConnected)
  BY DEF removeSession, updateNotification, http
<1>3. UNCHANGED <<view, uiQueue>> \/ notifyCurrentChanged(UI, sessionAt(list, idx))
  BY DEF removeSession
<1>4. list \in Seq(Sessions) /\ idx \in Int
  BY <1>1, ListPreserved DEF ListOK, ListStep
<1> HIDE DEF list, idx
<1>5. sessionAt(list, idx) # NoSession => sessionAt(list, idx) \in Range(list)
  BY <1>4, SessionAtFact
<1> QED
  BY <1>1, <1>2, <1>3, <1>5, UiNotifyFact

\* setCurrentSession on the UI thread picks, and attaches at most a listed
\* one.
LEMMA UiSetFact ==
  ASSUME ListOK, NEW i \in Int, setCurrentSession(UI, i)
  PROVE  /\ UNCHANGED http /\ uiQueue' = uiQueue
         /\ \/ UNCHANGED service /\ UNCHANGED foreground
            \/ Picks /\ sessions # <<>> /\ foreground' = stayConnected
         /\ UNCHANGED view \/ \E c \in Range(sessions) : attachSession(c)
<1>1. selectIndex(UI, i)
  BY DEF setCurrentSession
<1>2. UNCHANGED <<view, uiQueue>> \/ (selects(i) /\ notifyCurrentChanged(UI, sessions[i + 1]))
  BY DEF setCurrentSession
<1>3. selects(i) => sessions[i + 1] \in Range(sessions)
  <2>1. Len(sessions) \in Nat /\ DOMAIN sessions = 1..Len(sessions)
    BY LenProperties DEF ListOK
  <2>2. selects(i) => i + 1 \in DOMAIN sessions
    BY <2>1 DEF selects
  <2> QED
    BY <2>2 DEF Range
<1> QED
  BY <1>1, <1>2, <1>3, UiSelectFact, UiNotifyFact

\* getCurrentSession's repair of the index changes nothing.
LEMMA RepairFact ==
  ASSUME ListOK
  PROVE  /\ repairedIndex(sessions, current) = current
         /\ sessions = <<>> => getCurrentSession = NoSession
         /\ sessions # <<>> => getCurrentSession \in Range(sessions)
<1>1. Len(sessions) \in Nat
  BY LenProperties DEF ListOK
<1>2. repairedIndex(sessions, current) = current
  BY <1>1 DEF ListOK, IndexNamesSession, repairedIndex
<1> QED
  BY <1>2, SessionAtFact DEF ListOK, getCurrentSession

(***************************************************************************)
(* The HTTP threads.                                                       *)
(***************************************************************************)
LEMMA HttpNotifyFact ==
  ASSUME NEW h \in HttpThreads, NEW cur, notifyCurrentChanged(h, cur), cur # NoSession => cur \in created'
  PROVE  UNCHANGED <<displayed, listener>> /\ Posts
BY ThreadsAssumption DEF notifyCurrentChanged, Posts, view

\* On an HTTP thread the notification is left to a later step.
LEMMA HttpUpdateFact ==
  ASSUME NEW h \in HttpThreads, NEW list, updateNotification(h, list)
  PROVE  Ends(h) /\ UNCHANGED <<foreground, debugBuild>>
BY ThreadsAssumption, Zenon DEF updateNotification, Ends

\* Each call of an HTTP thread is one of the list steps, with at most one
\* post.
LEMMA HttpCallFact ==
  ASSUME ListOK, HttpOK, NEW h \in HttpThreads,
         httpCreate(h) \/ httpSwitch(h) \/ httpRename(h) \/ httpCloseById(h) \/ httpCloseRemove(h)
  PROVE  HttpCall(h)
<1>1. CASE httpCreate(h)
  <2>1. PICK s \in Sessions : addSession(h, s) /\ notifyCurrentChanged(h, s)
    BY <1>1 DEF httpCreate, createSession
  <2>2. Adds(s) /\ updateNotification(h, sessions')
    BY <2>1 DEF addSession, Adds
  <2>3. s \in created'
    BY <2>2 DEF Adds
  <2> QED
    BY <2>1, <2>2, <2>3, HttpNotifyFact, HttpUpdateFact DEF HttpCall, ListStep
<1>2. CASE httpSwitch(h)
  <2>1. PICK i \in -1..Len(sessions) : setCurrentSession(h, i)
    BY <1>2 DEF httpSwitch
  <2>2. Len(sessions) \in Nat /\ DOMAIN sessions = 1..Len(sessions)
    BY LenProperties DEF ListOK
  <2>3. CASE selects(i)
    <3>1. i \in 0..(Len(sessions) - 1) /\ i + 1 \in DOMAIN sessions
      BY <2>2, <2>3 DEF selects
    <3>2. current' = i /\ updateNotification(h, sessions) /\ UNCHANGED <<sessions, created, handed>>
      BY <2>1, <2>3 DEF setCurrentSession, selectIndex
    <3>3. notifyCurrentChanged(h, sessions[i + 1])
      BY <2>1, <2>3 DEF setCurrentSession
    <3>4. sessions[i + 1] \in created'
      BY <3>1, <3>2 DEF ListOK, Range
    <3>5. Picks
      BY <3>1, <3>2 DEF Picks
    <3> QED
      BY <3>2, <3>3, <3>4, <3>5, HttpNotifyFact, HttpUpdateFact DEF HttpCall, ListStep
  <2>4. CASE ~selects(i)
    BY <2>1, <2>4 DEF setCurrentSession, selectIndex, HttpCall, ListStep, service, view, http
  <2> QED
    BY <2>3, <2>4
<1>3. CASE httpRename(h)
  <2>1. PICK s : renameSession(h, s)
    BY <1>3 DEF httpRename
  <2>2. UNCHANGED <<service, displayed, listener, uiQueue>>
    BY <2>1 DEF renameSession, view
  <2>3. (Ends(h) /\ UNCHANGED <<foreground, debugBuild>>) \/ UNCHANGED <<foreground, httpPc, httpArg, debugBuild>>
    BY <2>1, HttpUpdateFact DEF renameSession, http
  <2> QED
    BY <2>2, <2>3 DEF HttpCall, ListStep, Posts
<1>4. ASSUME NEW s \in created, removeSession(h, s)
      PROVE  HttpCall(h)
  <2> DEFINE list == Without(sessions, s)
             idx  == clampedIndex(list, current)
  <2>1. Drops(s) /\ sessions' = list /\ current' = idx
    BY <1>4 DEF removeSession, Drops
  <2>2. Ends(h) /\ debugBuild' = debugBuild /\ foreground' \in {foreground, FALSE}
    <3>1. CASE list = <<>>
      <4>1. h # UI
        BY ThreadsAssumption
      <4>2. /\ foreground' = FALSE /\ UNCHANGED debugBuild
            /\ httpPc' = [httpPc EXCEPT ![h] = "idle"] /\ httpArg' = [httpArg EXCEPT ![h] = NoSession]
        BY <1>4, <3>1, <4>1, Zenon DEF removeSession
      <4> QED
        BY <4>2 DEF Ends
    <3>2. CASE list # <<>>
      <4>1. updateNotification(h, list)
        BY <1>4, <3>2 DEF removeSession
      <4> QED
        BY <4>1, HttpUpdateFact
    <3> QED
      BY <3>1, <3>2
  <2>3. UNCHANGED <<view, uiQueue>> \/ notifyCurrentChanged(h, sessionAt(list, idx))
    BY <1>4 DEF removeSession
  <2>4. list \in Seq(Sessions) /\ idx \in Int /\ Range(list) \subseteq created'
    BY <2>1, ListPreserved DEF ListOK, ListStep
  <2> HIDE DEF list, idx
  <2>5. sessionAt(list, idx) # NoSession => sessionAt(list, idx) \in created'
    BY <2>4, SessionAtFact
  <2>6. UNCHANGED <<displayed, listener>> /\ Posts
    BY <2>3, <2>5, HttpNotifyFact DEF view, Posts
  <2> QED
    BY <2>1, <2>2, <2>6 DEF HttpCall, ListStep
<1>5. CASE httpCloseById(h)
  BY <1>4, <1>5 DEF httpCloseById, ListOK
<1>6. CASE httpCloseRemove(h)
  BY <1>4, <1>6 DEF httpCloseRemove, HttpOK
<1> QED
  BY <1>1, <1>2, <1>3, <1>5, <1>6

\* The counting argument: a thread that was admitted below the bound and has
\* yet to remove its session is good for one more post.
LEMMA HttpPreserved ==
  ASSUME ListOK, HttpOK, RefsOK, NEW h \in HttpThreads,
         \/ HttpCall(h) /\ (Len(uiQueue) < MaxPosts \/ httpPc[h] = "remove")
         \/ /\ Len(uiQueue) < MaxPosts /\ httpPc' = [httpPc EXCEPT ![h] = "remove"]
            /\ \E s \in created : httpArg' = [httpArg EXCEPT ![h] = s]
            /\ UNCHANGED <<service, uiQueue>>
         \/ /\ httpPc[h] # "remove" /\ httpPc' = [httpPc EXCEPT ![h] = "idle"]
            /\ UNCHANGED <<httpArg, service, uiQueue>>
  PROVE  HttpOK'
<1> DEFINE T == HttpThreads
<1>1. created \subseteq created'
  BY ListPreserved DEF HttpCall, ListStep
<1>2. Len(uiQueue) \in Nat /\ MaxPosts \in Nat
  BY PostsAssumption, LenProperties DEF RefsOK
<1>3. IsFiniteSet(T) /\ Cardinality(T) \in Nat
  BY ThreadsAssumption, FS_CardinalityType
<1>4. \A S : S \subseteq T => IsFiniteSet(S) /\ Cardinality(S) \in Nat /\ Cardinality(S) <= Cardinality(T)
  BY <1>3, FS_Subset, FS_CardinalityType
<1>5. Removing \subseteq T /\ Removing' \subseteq T
  BY DEF Removing
<1>6. \A c \in created' : Len(Append(uiQueue, c)) = Len(uiQueue) + 1
  <2>1. uiQueue \in Seq(created')
    BY <1>1, SeqMonotonic DEF RefsOK
  <2> QED
    BY <2>1, AppendProperties
<1>7. CASE HttpCall(h) /\ (Len(uiQueue) < MaxPosts \/ httpPc[h] = "remove")
  <2>1. CASE UNCHANGED <<httpPc, httpArg, uiQueue>>
    BY <2>1, <1>1 DEF HttpOK, Removing
  <2>2. CASE Ends(h) /\ Posts
    <3>1. PICK p \in {"idle", "start", "stop"} : httpPc' = [httpPc EXCEPT ![h] = p]
      BY <2>2 DEF Ends
    <3>2. httpPc' \in [T -> HttpSteps] /\ Removing' = Removing \ {h}
      BY <3>1 DEF HttpOK, HttpSteps, Removing
    <3>3. /\ httpArg' \in [T -> Sessions \cup {NoSession}]
          /\ \A g \in T : httpPc'[g] = "remove" => httpArg'[g] \in created'
      BY <2>2, <3>1, <1>1 DEF HttpOK, HttpSteps, Ends
    <3>4. Len(uiQueue') <= Len(uiQueue) + 1 /\ Len(uiQueue') \in Nat
      BY <2>2, <1>2, <1>6 DEF Posts
    <3>5. Cardinality(Removing') <= Cardinality(T)
      BY <1>4, <1>5
    <3>6. Len(uiQueue') + Cardinality(Removing') <= MaxPosts + Cardinality(T)
      <4>1. CASE Len(uiQueue) < MaxPosts
        BY <4>1, <3>4, <3>5, <1>2, <1>3, <1>4, <1>5
      <4>2. CASE httpPc[h] = "remove"
        <5>1. h \in Removing
          BY <4>2 DEF Removing
        <5>2. Cardinality(Removing \ {h}) = Cardinality(Removing) - 1
          BY <5>1, <1>4, <1>5, FS_RemoveElement
        <5>3. Len(uiQueue) + Cardinality(Removing) <= MaxPosts + Cardinality(T)
          BY DEF HttpOK
        <5>4. Cardinality(Removing) \in Nat /\ Cardinality(Removing') = Cardinality(Removing) - 1
          BY <5>2, <3>2, <1>4, <1>5
        <5> QED
          BY <5>3, <5>4, <3>4, <1>2, <1>3
      <4> QED
        BY <1>7, <4>1, <4>2
    <3> QED
      BY <3>2, <3>3, <3>6 DEF HttpOK
  <2> QED
    BY <1>7, <2>1, <2>2 DEF HttpCall
<1>8. CASE /\ Len(uiQueue) < MaxPosts /\ httpPc' = [httpPc EXCEPT ![h] = "remove"]
           /\ \E s \in created : httpArg' = [httpArg EXCEPT ![h] = s]
           /\ UNCHANGED <<service, uiQueue>>
  <2>1. PICK s \in created : httpArg' = [httpArg EXCEPT ![h] = s]
    BY <1>8
  <2>2. httpPc' \in [T -> HttpSteps] /\ httpArg' \in [T -> Sessions \cup {NoSession}]
    BY <1>8, <2>1 DEF HttpOK, HttpSteps, ListOK
  <2>3. \A g \in T : httpPc'[g] = "remove" => httpArg'[g] \in created'
    BY <1>8, <1>1, <2>1 DEF HttpOK
  <2>4. Len(uiQueue') + Cardinality(Removing') <= MaxPosts + Cardinality(T)
    BY <1>8, <1>2, <1>3, <1>4, <1>5
  <2> QED
    BY <2>2, <2>3, <2>4 DEF HttpOK
<1>9. CASE /\ httpPc[h] # "remove" /\ httpPc' = [httpPc EXCEPT ![h] = "idle"]
           /\ UNCHANGED <<httpArg, service, uiQueue>>
  <2>1. httpPc' \in [T -> HttpSteps] /\ Removing' = Removing
    BY <1>9 DEF HttpOK, HttpSteps, Removing
  <2>2. \A g \in T : httpPc'[g] = "remove" => httpArg'[g] \in created'
    BY <1>9, <1>1 DEF HttpOK
  <2> QED
    BY <1>9, <2>1, <2>2 DEF HttpOK
<1> QED
  BY <1>7, <1>8, <1>9

(***************************************************************************)
(* The screen and the listener slots.                                      *)
(***************************************************************************)
LEMMA AttachFact ==
  ASSUME SlotOK, NEW c \in Sessions, displayed \in Sessions \cup {NoSession}, attachSession(c)
  PROVE  SlotOK' /\ displayed' = c
<1> DEFINE d == detached(listener, displayed)
<1>1. d \in [Sessions -> {"none", "view", "stale"}] /\ \A s \in Sessions : d[s] # "view"
  BY NoneAssumption DEF SlotOK, detached
<1>2. displayed' = c /\ listener' = [d EXCEPT ![c] = "view"]
  BY DEF attachSession
<1> HIDE DEF d
<1> QED
  BY <1>1, <1>2 DEF SlotOK

\* A screen that stays as it is keeps its slot: the list only grows by new
\* sessions, and a handler that took the slot away shows or removes a session
\* before it ends.
LEMMA KeepFact ==
  ASSUME ListOK, SlotOK, RefsOK, ListStep, UNCHANGED <<displayed, listener>>,
         Between' \/ ~Between \/ displayed \notin Range(sessions')
  PROVE  SlotOK'
BY ListPreserved, NoneAssumption DEF SlotOK, RefsOK, ListOK

\* What is posted was created.
LEMMA QueueFact ==
  ASSUME RefsOK, created \subseteq created'
  PROVE  /\ uiQueue \in Seq(created')
         /\ uiQueue # <<>> => /\ Head(uiQueue) \in created /\ Tail(uiQueue) \in Seq(created')
                             /\ Len(Tail(uiQueue)) = Len(uiQueue) - 1
BY SeqMonotonic, HeadTailProperties DEF RefsOK

\* What every step of the UI thread, and of the process, leaves as it is
UiFrame ==
  /\ ListStep /\ UNCHANGED <<httpPc, httpArg, debugBuild>>
  /\ uiQueue' = uiQueue \/ (uiQueue # <<>> /\ uiQueue' = Tail(uiQueue))

\* A step of the UI thread keeps the list and the requests.
LEMMA UiPreserved ==
  ASSUME ServiceInv, UiFrame
  PROVE  /\ ListOK' /\ HttpOK' /\ created \subseteq created' /\ uiQueue' \in Seq(created')
         /\ uiQueue = <<>> => uiQueue' = <<>>
<1>1. ListOK' /\ created \subseteq created'
  BY ListPreserved DEF ServiceInv, UiFrame
<1>2. uiQueue' \in Seq(created')
  BY <1>1, QueueFact DEF ServiceInv, UiFrame
<1>3. Len(uiQueue) \in Nat /\ Len(uiQueue') \in Nat /\ Len(uiQueue') <= Len(uiQueue)
  <2>1. Len(uiQueue) \in Nat /\ Len(uiQueue') \in Nat
    BY <1>2, LenProperties DEF ServiceInv, RefsOK
  <2>2. uiQueue # <<>> => Len(Tail(uiQueue)) = Len(uiQueue) - 1
    BY <1>1, QueueFact DEF ServiceInv
  <2> QED
    BY <2>1, <2>2 DEF UiFrame
<1>4. IsFiniteSet(Removing)
  BY ThreadsAssumption, FS_Subset DEF Removing
<1>5. Cardinality(Removing) \in Nat /\ Cardinality(HttpThreads) \in Nat /\ MaxPosts \in Nat
  BY <1>4, ThreadsAssumption, FS_CardinalityType, PostsAssumption
<1>6. Removing' = Removing
  BY DEF UiFrame, Removing
<1>7. Len(uiQueue') + Cardinality(Removing') <= MaxPosts + Cardinality(HttpThreads)
  BY <1>3, <1>5, <1>6 DEF ServiceInv, HttpOK
<1> QED
  BY <1>1, <1>2, <1>7 DEF ServiceInv, UiFrame, HttpOK

\* What is left to show for a step of the UI thread.
LEMMA UiDone ==
  ASSUME ServiceInv, UiFrame, FlagsOK', SlotOK', ~debugBuild => ReleaseOK',
         displayed' \in created' \cup {NoSession}, dialog' \in created' \cup {NoSession},
         uiPc' = "attach" => uiArg' \in created',
         uiPc' \in {"dismiss", "replace"} => uiArg' = displayed' /\ displayed' \in created',
         uiPc' = "switch" => uiArg' \in Nat
  PROVE  ServiceInv'
BY UiPreserved DEF ServiceInv, RefsOK, UiFrame

(***************************************************************************)
(* The steps of the UI thread and of the process that leave the list and   *)
(* the screen alone.                                                       *)
(***************************************************************************)
StillStep ==
  \/ onServiceConnected \/ setupSession \/ setupAgain \/ showCloseDialog \/ dismissCloseDialog
  \/ setStayConnectedEnabled \/ refreshForegroundNotification \/ startForegroundIfNeeded
  \/ exitStopForeground \/ killProcess \/ sessionDies

\* The steps that change neither list nor screen.
LEMMA StillInductive ==
  ASSUME ServiceInv, StillStep
  PROVE  ServiceInv'
<1> USE DEF StillStep
<1>1. UNCHANGED <<sessions, created, handed, current, displayed, listener, uiQueue, httpPc, httpArg, debugBuild>>
  BY RepairFact DEF ServiceInv, service, view, http, onServiceConnected, setupSession, setupAgain, showCloseDialog,
     dismissCloseDialog, setStayConnectedEnabled, refreshForegroundNotification, startForegroundIfNeeded,
     exitStopForeground, killProcess, sessionDies
<1>2. UiFrame
  BY <1>1 DEF UiFrame, ListStep, service
<1>3. FlagsOK'
  <2>1. listening' \in BOOLEAN /\ bound' \in BOOLEAN /\ stayConnected' \in BOOLEAN /\ debugBuild' \in BOOLEAN
    BY <1>1, Zenon DEF ServiceInv, FlagsOK, onServiceConnected, setupSession, setupAgain, showCloseDialog,
     dismissCloseDialog, setStayConnectedEnabled, refreshForegroundNotification, startForegroundIfNeeded,
     exitStopForeground, killProcess, sessionDies
  <2>2. foreground' \in BOOLEAN
    <3>1. startForegroundIfNeeded \/ foreground' \in {foreground, FALSE}
      BY Zenon DEF onServiceConnected, setupSession, setupAgain, showCloseDialog,
     dismissCloseDialog, setStayConnectedEnabled, refreshForegroundNotification,
     exitStopForeground, killProcess, sessionDies
    <3> QED
      BY <3>1 DEF startForegroundIfNeeded, ServiceInv, FlagsOK
  <2>3. dead' \subseteq created' /\ uiPc' \in UiSteps
    BY <1>1 DEF ServiceInv, FlagsOK, onServiceConnected, setupSession, setupAgain, showCloseDialog, ui,
     dismissCloseDialog, setStayConnectedEnabled, refreshForegroundNotification, startForegroundIfNeeded,
     exitStopForeground, killProcess, sessionDies, goto, UiSteps
  <2>4. process' \in {"running", "exiting", "killed", "crashed"}
    BY <1>1 DEF ServiceInv, FlagsOK, onServiceConnected, setupSession, setupAgain, showCloseDialog,
     dismissCloseDialog, setStayConnectedEnabled, refreshForegroundNotification, startForegroundIfNeeded,
     exitStopForeground, killProcess, sessionDies
  <2> QED
    BY <2>1, <2>2, <2>3, <2>4 DEF FlagsOK
<1>4. dialog' \in created' \cup {NoSession}
  BY <1>1 DEF ServiceInv, RefsOK, ListOK, onServiceConnected, setupSession, setupAgain, showCloseDialog,
     dismissCloseDialog, setStayConnectedEnabled, refreshForegroundNotification, startForegroundIfNeeded,
     exitStopForeground, killProcess, sessionDies
<1>5. (Between' <=> Between) /\ (Between => UNCHANGED <<uiPc, uiArg>>)
  BY DEF onServiceConnected, setupSession, setupAgain, showCloseDialog, UiIdle, Between, ui, goto,
     dismissCloseDialog, setStayConnectedEnabled, refreshForegroundNotification, startForegroundIfNeeded,
     exitStopForeground, killProcess, sessionDies, Tap
<1>6. uiPc' = "attach" => (uiPc = "attach" /\ uiArg' = uiArg) \/ uiArg' \in Range(sessions)
  BY RepairFact DEF ServiceInv, onServiceConnected, setupSession, setupAgain, showCloseDialog, UiIdle, ui, goto,
     dismissCloseDialog, setStayConnectedEnabled, refreshForegroundNotification, startForegroundIfNeeded,
     exitStopForeground, killProcess, sessionDies, Tap
<1>7. SlotOK'
  BY <1>1, <1>2, <1>5, KeepFact DEF ServiceInv, UiFrame
<1>8. ASSUME ~debugBuild PROVE ReleaseOK'
  <2>0. ReleaseOK /\ FlagsOK
    BY <1>8 DEF ServiceInv
  <2>1. CASE onServiceConnected \/ setupSession \/ setupAgain
    <3>1. uiPc' \in {"setup", "ensure", "attach"} /\ uiPc # "startForeground" /\ UNCHANGED <<foreground, stayConnected, process>>
      BY <2>0, <2>1 DEF onServiceConnected, setupSession, setupAgain, goto, UiIdle, ReleaseOK
    <3> QED
      BY <3>1, <2>0, <1>1, <1>6 DEF ReleaseOK
  <2>2. CASE showCloseDialog \/ dismissCloseDialog \/ sessionDies
    <3>1. UNCHANGED <<uiPc, uiArg, bound, foreground, stayConnected, process>>
      BY <2>2 DEF showCloseDialog, dismissCloseDialog, sessionDies, ui
    <3> QED
      BY <3>1, <2>0, <1>1 DEF ReleaseOK
  <2>3. CASE killProcess
    BY <2>3, <2>0, <1>1 DEF ReleaseOK, killProcess, ui
  <2>4. CASE exitStopForeground
    BY <2>4, <2>0, <1>1 DEF ReleaseOK, exitStopForeground, goto
  <2>5. CASE refreshForegroundNotification
    BY <2>5, <2>0, <1>1 DEF ReleaseOK, refreshForegroundNotification, goto, UiIdle
  <2>6. CASE startForegroundIfNeeded
    BY <2>6, <2>0, <1>1 DEF ReleaseOK, startForegroundIfNeeded, goto, FlagsOK
  <2>7. CASE setStayConnectedEnabled
    BY <2>7, <2>0, <1>1 DEF ReleaseOK, setStayConnectedEnabled, goto, FlagsOK, ui, UiIdle
  <2> QED
    BY <2>1, <2>2, <2>3, <2>4, <2>5, <2>6, <2>7
<1> QED
  <2>1. displayed' \in created' \cup {NoSession} /\ (uiPc' = "attach" => uiArg' \in created')
    BY <1>1, <1>6 DEF ServiceInv, RefsOK, ListOK
  <2>2. /\ uiPc' \in {"dismiss", "replace"} => uiArg' = displayed' /\ displayed' \in created'
        /\ uiPc' = "switch" => uiArg' \in Nat
    BY <1>1, <1>5 DEF ServiceInv, RefsOK, Between
  <2> QED
    BY <1>2, <1>3, <1>4, <1>7, <1>8, <2>1, <2>2, UiDone

(***************************************************************************)
(* The steps of the UI thread that call the service or show a session.     *)
(***************************************************************************)

\* A call of the service: the notification follows the list, a listed session
\* is shown or the screen stays, and the place of the UI thread after the call
\* knows what it needs to know of the list.
Calls ==
  /\ UiFrame /\ UNCHANGED <<listening, stayConnected, dead, bound, process>>
  /\ uiPc # "startForeground" /\ dialog' \in {dialog, NoSession}
  /\ uiPc' \in {"idle", "setup", "create", "attach", "again", "target", "reopen"}
  /\ \/ foreground' = foreground /\ sessions' = sessions
     \/ foreground' = (IF sessions' = <<>> THEN FALSE ELSE stayConnected)
  /\ \/ \E c \in created' : attachSession(c)
     \/ UNCHANGED <<displayed, listener>> /\ (Between' \/ ~Between \/ displayed \notin Range(sessions'))
  /\ uiPc' = "attach" => uiArg' \in created'
  /\ ~debugBuild =>
       /\ uiPc' \in {"again", "target"} => sessions' # <<>>
       /\ uiPc' = "attach" => uiArg' \in Range(sessions')
       /\ bound /\ process = "running" /\ uiPc' = "idle" => displayed' \in Range(sessions')

\* The steps of handlers that call the service.
LEMMA CallsInductive ==
  ASSUME ServiceInv, Calls
  PROVE  ServiceInv'
<1>0. ListOK' /\ created \subseteq created' /\ created' \subseteq Sessions /\ (uiQueue = <<>> => uiQueue' = <<>>)
  BY UiPreserved DEF Calls, ListOK
<1>1. foreground' \in BOOLEAN
  <2>1. foreground' \in {foreground, stayConnected, FALSE}
    BY Zenon DEF Calls
  <2> QED
    BY <2>1, Zenon DEF ServiceInv, FlagsOK
<1>2. FlagsOK'
  <2>1. listening' \in BOOLEAN /\ bound' \in BOOLEAN /\ stayConnected' \in BOOLEAN /\ debugBuild' \in BOOLEAN
    BY Zenon DEF ServiceInv, FlagsOK, Calls, UiFrame
  <2>2. dead' \subseteq created' /\ uiPc' \in UiSteps /\ process' \in {"running", "exiting", "killed", "crashed"}
    BY <1>0 DEF ServiceInv, FlagsOK, Calls, UiSteps
  <2> QED
    BY <1>1, <2>1, <2>2 DEF FlagsOK
<1>3. SlotOK' /\ displayed' \in created' \cup {NoSession}
  <2>1. CASE \E c \in created' : attachSession(c)
    BY <1>0, <2>1, AttachFact DEF ServiceInv, RefsOK
  <2>2. CASE UNCHANGED <<displayed, listener>> /\ (Between' \/ ~Between \/ displayed \notin Range(sessions'))
    BY <1>0, <2>2, KeepFact DEF ServiceInv, RefsOK, Calls, UiFrame
  <2> QED
    BY <2>1, <2>2 DEF Calls
<1>4. ASSUME ~debugBuild PROVE ReleaseOK'
  <2>1. ReleaseOK /\ FlagsOK
    BY <1>4 DEF ServiceInv
  <2>2. /\ uiQueue' = <<>> /\ \A h \in HttpThreads : httpPc'[h] = "idle"
        /\ uiPc' \in {"again", "switch", "target", "startForeground"} => sessions' # <<>>
        /\ uiPc' = "attach" => uiArg' \in Range(sessions')
        /\ process' # "crashed" /\ uiPc' # "stopForeground" /\ uiPc' # "startForeground"
        /\ process' = "running" /\ bound' /\ uiPc' = "idle" => displayed' \in Range(sessions')
    BY <1>0, <1>4, <2>1 DEF Calls, UiFrame, ReleaseOK
  <2>3. process' = "running" => (foreground' <=> sessions' # <<>> /\ stayConnected')
    BY <1>4, <2>1 DEF Calls, ReleaseOK, FlagsOK
  <2> QED
    BY <2>2, <2>3 DEF ReleaseOK
<1>5. /\ dialog' \in created' \cup {NoSession} /\ uiPc' \notin {"dismiss", "replace", "switch"}
      /\ uiPc' = "attach" => uiArg' \in created'
  BY <1>0 DEF ServiceInv, RefsOK, Calls
<1> QED
  BY <1>2, <1>3, <1>4, <1>5, UiDone DEF Calls

\* The steps of setupSession are such calls.
LEMMA SetupCalls ==
  ASSUME ServiceInv, setupEnsure \/ setupCreate \/ setupAttach
  PROVE  Calls
<1> USE DEF ServiceInv
<1>1. CASE setupEnsure
  <2>1. /\ UNCHANGED <<service, displayed, listener, uiQueue, foreground, httpPc, httpArg, debugBuild>>
        /\ uiPc = "ensure" /\ uiPc' \in {"create", "again"} /\ (uiPc' = "again" => sessions # <<>>)
        /\ UNCHANGED <<listening, stayConnected, dead, bound, dialog, process>>
    BY <1>1 DEF setupEnsure, goto, view, http
  <2> QED
    BY <1>1, <2>1 DEF Calls, UiFrame, ListStep, Between, service
<1>2. CASE setupCreate
  <2>1. PICK s \in Sessions : addSession(UI, s) /\ notifyCurrentChanged(UI, s) /\ uiPc' = "attach" /\ uiArg' = s
    BY <1>2 DEF setupCreate, createSession, goto
  <2>2. uiPc = "create" /\ UNCHANGED <<listening, stayConnected, dead, bound, dialog, process>>
    BY <1>2 DEF setupCreate
  <2>3. Adds(s) /\ UNCHANGED http /\ (sessions' # <<>> => foreground' = stayConnected)
    BY <2>1, UiAddFact
  <2>4. s \notin Range(sessions) /\ IsInjective(sessions) /\ sessions \in Seq(Sessions)
    BY <2>3 DEF ListOK, Adds, NoOrphanSessions
  <2>5. sessions' # <<>> /\ s \in Range(sessions') /\ s \in created'
    BY <2>1, <2>3, <2>4, AppendFact DEF Adds
  <2>6. uiQueue' = uiQueue /\ (UNCHANGED <<displayed, listener>> \/ attachSession(s))
    BY <2>1, UiNotifyFact DEF view
  <2>7. UiFrame
    BY <2>3, <2>6 DEF UiFrame, ListStep, http
  <2> QED
    BY <2>1, <2>2, <2>3, <2>5, <2>6, <2>7 DEF Calls, Between
<1>3. CASE setupAttach
  <2>1. /\ selectIndex(UI, indexOf(sessions, uiArg)) /\ attachSession(uiArg) /\ uiPc = "attach" /\ uiPc' = "idle"
        /\ UNCHANGED <<uiQueue, listening, stayConnected, dead, bound, dialog, process>>
    BY <1>3 DEF setupAttach, goto
  <2>2. indexOf(sessions, uiArg) \in Int
    <3>1. CASE uiArg \in Range(sessions)
      BY <3>1, IndexFact, LenProperties DEF ListOK
    <3>2. CASE uiArg \notin Range(sessions)
      BY <3>2 DEF indexOf
    <3> QED
      BY <3>1, <3>2
  <2>3. /\ UNCHANGED <<httpPc, httpArg, debugBuild, sessions, created>> /\ ListStep
        /\ foreground' = foreground \/ (sessions # <<>> /\ foreground' = stayConnected)
    BY <2>1, <2>2, UiSelectFact DEF http, ListStep, Picks, service
  <2>4. uiArg \in created /\ (~debugBuild => uiArg \in Range(sessions)) /\ displayed' = uiArg
    BY <2>1 DEF RefsOK, ReleaseOK, attachSession
  <2>5. UiFrame
    BY <2>1, <2>3 DEF UiFrame
  <2> QED
    BY <2>1, <2>3, <2>4, <2>5 DEF Calls, Between
<1> QED
  BY <1>1, <1>2, <1>3

\* A removal by the UI thread, for any place it goes to afterwards.
LEMMA RemoveCalls ==
  ASSUME ServiceInv, NEW s \in created, removeSession(UI, s),
         UNCHANGED <<listening, stayConnected, dead, bound, process>>,
         uiPc # "startForeground", dialog' \in {dialog, NoSession}, uiPc' \in {"idle", "setup", "reopen"},
         ~Between \/ s = displayed,
         uiPc' = "idle" => s # displayed /\ uiPc = "idle"
  PROVE  Calls
<1> USE DEF ServiceInv
<1>1. /\ Drops(s) /\ UNCHANGED http /\ uiQueue' = uiQueue
      /\ foreground' = (IF sessions' = <<>> THEN FALSE ELSE stayConnected)
      /\ UNCHANGED view \/ \E c \in Range(sessions') : attachSession(c)
  BY UiRemoveFact
<1>2. ListStep /\ Range(sessions') = Range(sessions) \ {s}
  BY <1>1, WithoutFact DEF ListStep, Drops, ListOK, NoOrphanSessions
<1>3. Range(sessions') \subseteq created'
  BY <1>2, ListPreserved DEF ListOK
<1>4. UiFrame
  BY <1>1, <1>2 DEF UiFrame, http
<1>5. \/ \E c \in created' : attachSession(c)
      \/ UNCHANGED <<displayed, listener>> /\ (Between' \/ ~Between \/ displayed \notin Range(sessions'))
  BY <1>1, <1>2, <1>3 DEF view
<1>6. ASSUME ~debugBuild, bound, process = "running", uiPc' = "idle" PROVE displayed' \in Range(sessions')
  <2>1. displayed \in Range(sessions)
    BY <1>6 DEF ReleaseOK
  <2> QED
    BY <1>1, <1>2, <1>6, <2>1 DEF view, attachSession
<1> QED
  BY <1>1, <1>4, <1>5, <1>6 DEF Calls

\* The other handlers of MainActivity are such calls.
LEMMA HandlerCalls ==
  ASSUME ServiceInv,
         \/ removeDeadSession \/ confirmCloseSession \/ switchCurrent \/ switchTarget
         \/ createNewLocalSession \/ reopenCreate \/ handleNotificationIntent \/ renameFromDrawer
  PROVE  Calls
<1> USE DEF ServiceInv
<1>1. CASE removeDeadSession
  <2>1. /\ uiPc \in {"dismiss", "replace"} /\ removeSession(UI, uiArg) /\ uiPc' \in {"setup", "reopen"}
        /\ UNCHANGED <<listening, stayConnected, dead, bound, dialog, process>>
    BY <1>1 DEF removeDeadSession, goto
  <2>2. uiArg \in created /\ uiArg = displayed
    BY <2>1 DEF RefsOK
  <2> QED
    BY <2>1, <2>2, RemoveCalls
<1>2. CASE confirmCloseSession
  <2>1. /\ uiPc = "idle" /\ removeSession(UI, dialog) /\ dialog \in created /\ dialog' = NoSession
        /\ uiPc' \in {"setup", "idle"} /\ (uiPc' = "idle" => dialog # displayed)
        /\ UNCHANGED <<listening, stayConnected, dead, bound, process>>
    BY <1>2 DEF confirmCloseSession, goto, UiIdle, RefsOK
  <2> QED
    BY <2>1, RemoveCalls DEF Between
<1>3. CASE switchCurrent
  <2>1. /\ uiPc = "switch" /\ setCurrentSession(UI, uiArg) /\ uiPc' = "target" /\ uiArg \in Int
        /\ UNCHANGED <<listening, stayConnected, dead, bound, dialog, process>>
    BY <1>3 DEF switchCurrent, goto, RefsOK
  <2>2. /\ UNCHANGED http /\ uiQueue' = uiQueue /\ sessions' = sessions /\ created' = created /\ ListStep
        /\ foreground' = foreground \/ (sessions # <<>> /\ foreground' = stayConnected)
        /\ UNCHANGED view \/ \E c \in Range(sessions) : attachSession(c)
    BY <2>1, UiSetFact DEF ListStep, Picks, service
  <2>3. UiFrame
    BY <2>2 DEF UiFrame, http
  <2>4. \/ \E c \in created' : attachSession(c)
        \/ UNCHANGED <<displayed, listener>> /\ Between'
    BY <2>1, <2>2 DEF view, Between, ListOK
  <2>5. ~debugBuild => sessions' # <<>>
    BY <2>1, <2>2 DEF ReleaseOK
  <2> QED
    BY <2>1, <2>2, <2>3, <2>4, <2>5 DEF Calls
<1>4. CASE switchTarget
  <2>1. /\ uiPc = "target" /\ uiPc' = "idle" /\ UNCHANGED service
        /\ UNCHANGED <<httpPc, httpArg, debugBuild, uiQueue, foreground>>
        /\ UNCHANGED <<listening, stayConnected, dead, bound, dialog, process>>
    BY <1>4, RepairFact DEF switchTarget, goto, http, service
  <2>2. CASE sessions = <<>>
    <3>1. UNCHANGED <<displayed, listener>> /\ Range(sessions') = {} /\ debugBuild
      BY <1>4, <2>1, <2>2, RepairFact, SessionAtFact DEF switchTarget, view, ListOK, ReleaseOK, service
    <3> QED
      BY <2>1, <3>1 DEF Calls, UiFrame, ListStep, service
  <2>3. CASE sessions # <<>>
    <3>1. getCurrentSession \in Range(sessions) /\ getCurrentSession \in created
      BY <2>3, RepairFact DEF ListOK
    <3>2. attachSession(getCurrentSession)
      BY <1>4, <3>1, NoneAssumption DEF switchTarget, ListOK
    <3>3. displayed' \in Range(sessions') /\ \E c \in created' : attachSession(c)
      BY <2>1, <3>1, <3>2 DEF service, attachSession
    <3> QED
      BY <2>1, <3>3 DEF Calls, UiFrame, ListStep, service
  <2> QED
    BY <2>2, <2>3
<1>5. CASE createNewLocalSession \/ reopenCreate
  <2>1. PICK s \in Sessions : addSession(UI, s) /\ attachSession(s) /\ uiPc' = "idle" /\ uiQueue' = uiQueue
    BY <1>5 DEF createNewLocalSession, reopenCreate, showNewSession, goto
  <2>2. uiPc \in {"idle", "reopen"} /\ UNCHANGED <<listening, stayConnected, dead, bound, dialog, process>>
    BY <1>5 DEF createNewLocalSession, reopenCreate, Tap, UiIdle
  <2>3. Adds(s) /\ UNCHANGED http /\ (sessions' # <<>> => foreground' = stayConnected)
    BY <2>1, UiAddFact
  <2>4. s \notin Range(sessions) /\ IsInjective(sessions) /\ sessions \in Seq(Sessions)
    BY <2>3 DEF ListOK, Adds, NoOrphanSessions
  <2>5. sessions' # <<>> /\ s \in Range(sessions') /\ s \in created'
    BY <2>1, <2>3, <2>4, AppendFact DEF Adds
  <2>6. UiFrame /\ displayed' = s
    BY <2>1, <2>3 DEF UiFrame, ListStep, http, attachSession
  <2> QED
    BY <2>1, <2>2, <2>3, <2>5, <2>6 DEF Calls
<1>6. CASE handleNotificationIntent
  <2>0. uiPc = "idle" /\ UNCHANGED <<listening, stayConnected, dead, bound, dialog, process>>
    BY <1>6 DEF handleNotificationIntent, UiIdle
  <2>1. PICK s \in created : IF isListed(s)
                            THEN setCurrentSession(UI, indexOf(sessions, s)) /\ goto("setup", NoSession)
                            ELSE UNCHANGED <<service, view, uiQueue, foreground, http, ui>>
    BY <1>6 DEF handleNotificationIntent
  <2>2. CASE isListed(s)
    <3>1. indexOf(sessions, s) \in Int /\ setCurrentSession(UI, indexOf(sessions, s)) /\ uiPc' = "setup"
      BY <2>1, <2>2, IndexFact, LenProperties DEF isListed, ListOK, goto
    <3>2. /\ UNCHANGED http /\ uiQueue' = uiQueue /\ sessions' = sessions /\ created' = created /\ ListStep
          /\ foreground' = foreground \/ (sessions # <<>> /\ foreground' = stayConnected)
          /\ UNCHANGED view \/ \E c \in Range(sessions) : attachSession(c)
      BY <3>1, UiSetFact DEF ListStep, Picks, service
    <3>3. UiFrame
      BY <3>2 DEF UiFrame, http
    <3>4. \/ \E c \in created' : attachSession(c)
          \/ UNCHANGED <<displayed, listener>> /\ ~Between
      BY <2>0, <3>2 DEF view, Between, ListOK
    <3> QED
      BY <2>0, <3>1, <3>2, <3>3, <3>4 DEF Calls
  <2>3. CASE ~isListed(s)
    <3>1. UNCHANGED <<service, displayed, listener, uiQueue, foreground, httpPc, httpArg, debugBuild, uiPc, uiArg>>
      BY <2>1, <2>3 DEF view, http, ui
    <3>2. sessions' = sessions /\ created' = created
      BY <3>1 DEF service
    <3> QED
      BY <2>0, <3>1, <3>2 DEF Calls, UiFrame, ListStep, Between, ReleaseOK
  <2> QED
    BY <2>2, <2>3
<1>7. CASE renameFromDrawer
  <2>1. /\ uiPc = "idle" /\ UNCHANGED <<listening, stayConnected, dead, bound, dialog, process, uiPc, uiArg>>
        /\ UNCHANGED <<service, displayed, listener, uiQueue, httpPc, httpArg, debugBuild>>
        /\ foreground' = foreground \/ (sessions # <<>> /\ foreground' = stayConnected)
    BY <1>7 DEF renameFromDrawer, renameSession, updateNotification, Tap, UiIdle, view, http, ui
  <2>2. sessions' = sessions /\ created' = created
    BY <2>1 DEF service
  <2> QED
    BY <2>1, <2>2 DEF Calls, UiFrame, ListStep, Between, ReleaseOK
<1> QED
  BY <1>1, <1>2, <1>3, <1>4, <1>5, <1>6, <1>7

(***************************************************************************)
(* The steps that take a slot away, that end something, and a posted one.  *)
(***************************************************************************)
LEMMA DetachInductive ==
  ASSUME ServiceInv, switchToSession \/ closeDeadCurrentSession \/ reopenDeadSession
  PROVE  ServiceInv'
<1> USE DEF ServiceInv
<1>1. /\ uiPc = "idle" /\ bound /\ uiPc' \in {"switch", "dismiss", "replace"} /\ displayed' = displayed
      /\ listener' = detached(listener, displayed)
      /\ UNCHANGED <<service, httpPc, httpArg, debugBuild, uiQueue>>
      /\ UNCHANGED <<listening, stayConnected, foreground, dead, bound, dialog, process>>
  BY DEF switchToSession, closeDeadCurrentSession, reopenDeadSession, closeDeadSession, Tap, UiIdle, goto, http
<1>2. /\ uiPc' = "switch" => uiArg' \in Nat /\ Len(sessions) # 0
      /\ uiPc' \in {"dismiss", "replace"} => uiArg' = displayed /\ displayed \in created
  <2>1. Len(sessions) \in Nat
    BY LenProperties DEF ListOK
  <2>2. \A i \in 0..(Len(sessions) - 1) : i \in Nat /\ Len(sessions) # 0
    BY <2>1
  <2> QED
    BY <2>2 DEF switchToSession, closeDeadCurrentSession, reopenDeadSession, closeDeadSession, goto, FlagsOK
<1>3. UiFrame /\ sessions' = sessions /\ created' = created
  BY <1>1 DEF UiFrame, ListStep, service
<1>4. FlagsOK'
  <2>1. /\ listening' \in BOOLEAN /\ bound' \in BOOLEAN /\ stayConnected' \in BOOLEAN /\ debugBuild' \in BOOLEAN
        /\ foreground' \in BOOLEAN
    BY <1>1, Zenon DEF FlagsOK
  <2> QED
    BY <1>1, <1>3, <2>1 DEF FlagsOK, UiSteps
<1>5. SlotOK'
  <2>1. Between' /\ displayed \in Sessions \cup {NoSession}
    BY <1>1 DEF Between, RefsOK, ListOK
  <2>2. /\ listener' \in [Sessions -> {"none", "view", "stale"}]
        /\ \A s \in Sessions : listener'[s] # "view"
    BY <1>1, <2>1, NoneAssumption DEF SlotOK, detached
  <2> QED
    BY <2>1, <2>2 DEF SlotOK
<1>6. ASSUME ~debugBuild PROVE ReleaseOK'
  <2>1. uiPc' = "switch" => sessions # <<>>
    BY <1>2, EmptySeq
  <2>2. ReleaseOK /\ FlagsOK
    BY <1>6
  <2> QED
    BY <1>1, <1>3, <2>1, <2>2 DEF ReleaseOK
<1> QED
  <2>1. /\ displayed' \in created' \cup {NoSession} /\ dialog' \in created' \cup {NoSession}
        /\ uiPc' # "attach"
    BY <1>1, <1>3 DEF RefsOK
  <2> QED
    BY <1>1, <1>2, <1>3, <1>4, <1>5, <1>6, <2>1, UiDone

\* The ends of the app, the service and the activity, and posted call-backs.
LEMMA EndInductive ==
  ASSUME ServiceInv, exitApp \/ onDestroy \/ activityDestroyed \/ runPosted
  PROVE  ServiceInv'
<1> USE DEF ServiceInv
<1>0. uiPc = "idle" /\ UNCHANGED <<httpPc, httpArg, debugBuild, stayConnected, dead>> /\ foreground' \in {foreground, FALSE}
  BY DEF exitApp, onDestroy, activityDestroyed, runPosted, UiIdle, http
<1>1. /\ listening' \in BOOLEAN /\ bound' \in BOOLEAN /\ stayConnected' \in BOOLEAN /\ debugBuild' \in BOOLEAN
      /\ foreground' \in BOOLEAN
  <2>1. listening' \in {listening, FALSE} /\ bound' \in {bound, FALSE}
    BY Zenon DEF exitApp, onDestroy, activityDestroyed, runPosted
  <2> QED
    BY <1>0, <2>1, Zenon DEF FlagsOK
<1>2. UiFrame
  BY <1>0 DEF UiFrame, ListStep, exitApp, onDestroy, activityDestroyed, runPosted
<1>3. created' = created
  BY DEF exitApp, onDestroy, activityDestroyed, runPosted, takeAll, service
<1>4. /\ uiPc' \in {"idle", "stopForeground"} /\ process' \in {process, "exiting"}
      /\ dialog' \in {dialog, NoSession}
  BY <1>0 DEF exitApp, onDestroy, activityDestroyed, runPosted, goto, ui
<1>5. FlagsOK'
  BY <1>0, <1>1, <1>3, <1>4 DEF FlagsOK, UiSteps
<1>6. CASE exitApp \/ onDestroy
  <2>1. sessions' = <<>> /\ Range(<<>>) = {} /\ UNCHANGED <<displayed, listener, uiQueue, bound>>
    BY <1>6 DEF exitApp, onDestroy, takeAll, view, Range
  <2>2. SlotOK'
    BY <1>2, <2>1, KeepFact DEF UiFrame
  <2>3. ASSUME ~debugBuild PROVE ReleaseOK'
    <3>1. CASE exitApp
      BY <1>0, <1>4, <2>1, <2>3, <3>1 DEF ReleaseOK, exitApp, goto
    <3>2. CASE onDestroy
      BY <1>0, <1>4, <2>1, <2>3, <3>2 DEF ReleaseOK, onDestroy, ui
    <3> QED
      BY <1>6, <3>1, <3>2
  <2> QED
    BY <1>2, <1>3, <1>4, <1>5, <2>1, <2>2, <2>3, UiDone DEF RefsOK
<1>7. CASE activityDestroyed
  <2>1. /\ displayed' = NoSession /\ bound' = FALSE /\ UNCHANGED <<sessions, uiQueue, uiPc, uiArg, foreground, process>>
        /\ listener' = IF displayed = NoSession THEN listener ELSE [listener EXCEPT ![displayed] = "stale"]
    BY <1>7 DEF activityDestroyed, service, ui
  <2>2. SlotOK'
    BY <2>1, NoneAssumption, SessionAtFact DEF SlotOK, RefsOK, ListOK
  <2>3. ASSUME ~debugBuild PROVE ReleaseOK'
    BY <1>0, <2>1, <2>3 DEF ReleaseOK
  <2> QED
    BY <1>2, <1>3, <1>4, <1>5, <2>1, <2>2, <2>3, UiDone DEF RefsOK
<1>8. CASE runPosted
  <2>1. /\ uiQueue # <<>> /\ attachSession(Head(uiQueue)) /\ UNCHANGED <<uiPc, uiArg, dialog>>
    BY <1>8 DEF runPosted, ui
  <2>2. Head(uiQueue) \in created
    BY <1>3, <2>1, QueueFact
  <2>3. SlotOK' /\ displayed' \in created
    BY <2>1, <2>2, AttachFact DEF RefsOK, ListOK
  <2>4. debugBuild
    BY <2>1 DEF ReleaseOK
  <2> QED
    BY <1>0, <1>2, <1>3, <1>4, <1>5, <2>1, <2>3, <2>4, UiDone DEF RefsOK
<1> QED
  BY <1>6, <1>7, <1>8

(***************************************************************************)
(* The requests of the HTTP threads.                                       *)
(***************************************************************************)
LEMMA HttpInductive ==
  ASSUME ServiceInv, NEW h \in HttpThreads,
         \/ httpCreate(h) \/ httpSwitch(h) \/ httpRename(h) \/ httpCloseById(h) \/ httpCloseRemove(h)
         \/ httpCloseLookup(h) \/ httpForeground(h)
  PROVE  ServiceInv'
<1> USE DEF ServiceInv
<1>0. debugBuild /\ UNCHANGED <<uiPc, uiArg, listening, stayConnected, dead, bound, dialog, process>>
  <2>1. debugBuild \/ httpPc[h] # "idle"
    BY DEF httpCreate, httpSwitch, httpRename, httpCloseById, httpCloseRemove, httpCloseLookup, httpForeground, Request
  <2> QED
    BY <2>1 DEF ReleaseOK, httpCreate, httpSwitch, httpRename, httpCloseById, httpCloseRemove, httpCloseLookup,
                httpForeground, httpFrame, ui
<1>1. CASE httpCreate(h) \/ httpSwitch(h) \/ httpRename(h) \/ httpCloseById(h) \/ httpCloseRemove(h)
  <2>1. HttpCall(h)
    BY <1>1, HttpCallFact
  <2>2. Len(uiQueue) < MaxPosts \/ httpPc[h] = "remove"
    BY <1>1 DEF httpCreate, httpSwitch, httpRename, httpCloseById, httpCloseRemove, Request
  <2>3. ListOK' /\ HttpOK' /\ created \subseteq created'
    BY <2>1, <2>2, ListPreserved, HttpPreserved DEF HttpCall
  <2>4. uiQueue' \in Seq(created')
    <3>1. uiQueue \in Seq(created')
      BY <2>3, SeqMonotonic DEF RefsOK
    <3>2. uiQueue' = uiQueue \/ \E c \in created' : uiQueue' = Append(uiQueue, c)
      BY <2>1 DEF HttpCall, Posts
    <3> QED
      BY <3>1, <3>2, AppendProperties
  <2>5. UNCHANGED <<displayed, listener, debugBuild>> /\ foreground' \in {foreground, FALSE} /\ ListStep
    BY <2>1 DEF HttpCall
  <2>6. SlotOK'
    BY <1>0, <2>5, KeepFact DEF Between
  <2>7. RefsOK'
    BY <1>0, <2>3, <2>4, <2>5 DEF RefsOK
  <2>8. FlagsOK'
    <3>1. /\ listening' \in BOOLEAN /\ bound' \in BOOLEAN /\ stayConnected' \in BOOLEAN /\ debugBuild' \in BOOLEAN
          /\ foreground' \in BOOLEAN
      BY <1>0, <2>5, Zenon DEF FlagsOK
    <3> QED
      BY <1>0, <2>3, <3>1 DEF FlagsOK
  <2> QED
    BY <1>0, <2>3, <2>5, <2>6, <2>7, <2>8
<1>2. CASE httpCloseLookup(h) \/ httpForeground(h)
  <2>1. /\ UNCHANGED <<service, displayed, listener, uiQueue, debugBuild>>
        /\ \/ /\ Len(uiQueue) < MaxPosts /\ httpPc' = [httpPc EXCEPT ![h] = "remove"]
              /\ \E s \in created : httpArg' = [httpArg EXCEPT ![h] = s]
           \/ /\ httpPc[h] # "remove" /\ httpPc' = [httpPc EXCEPT ![h] = "idle"] /\ UNCHANGED httpArg
    BY <1>2 DEF httpCloseLookup, httpForeground, Request, view, ListOK
  <2>2. ListStep /\ sessions' = sessions /\ created' = created
    BY <2>1 DEF ListStep, service
  <2>3. ListOK' /\ HttpOK'
    BY <2>1, <2>2, ListPreserved, HttpPreserved
  <2>4. foreground' \in BOOLEAN
    BY <1>2 DEF httpCloseLookup, httpForeground, FlagsOK
  <2>5. FlagsOK'
    <3>1. listening' \in BOOLEAN /\ bound' \in BOOLEAN /\ stayConnected' \in BOOLEAN /\ debugBuild' \in BOOLEAN
      BY <1>0, <2>1, Zenon DEF FlagsOK
    <3> QED
      BY <1>0, <2>2, <2>4, <3>1 DEF FlagsOK
  <2>6. SlotOK' /\ RefsOK'
    BY <1>0, <2>1, <2>2, KeepFact DEF Between, RefsOK
  <2> QED
    BY <1>0, <2>1, <2>3, <2>5, <2>6
<1> QED
  BY <1>1, <1>2

-----------------------------------------------------------------------------
\* The initial states.
LEMMA ServiceInitial == ServiceInit => ServiceInv
<1> SUFFICES ASSUME ServiceInit PROVE ServiceInv
  OBVIOUS
<1> USE DEF ServiceInit
<1>1. Range(<<>>) = {} /\ IsInjective(<<>>) /\ \A S : <<>> \in Seq(S)
  BY DEF Range, IsInjective
<1>2. ListOK
  BY <1>1 DEF ListOK, IndexNamesSession, NoOrphanSessions
<1>3. RefsOK
  BY <1>1 DEF RefsOK
<1>4. HttpOK
  <2>1. Removing = {} /\ Cardinality({}) = 0 /\ Cardinality(HttpThreads) \in Nat /\ Len(uiQueue) = 0
    BY ThreadsAssumption, FS_CardinalityType, FS_EmptySet, EmptySeq DEF Removing
  <2>2. Len(uiQueue) + Cardinality(Removing) <= MaxPosts + Cardinality(HttpThreads)
    BY <2>1, PostsAssumption
  <2> QED
    BY <2>2 DEF HttpOK, HttpSteps
<1>5. FlagsOK
  <2>1. listening \in BOOLEAN /\ bound \in BOOLEAN /\ stayConnected \in BOOLEAN /\ foreground \in BOOLEAN /\ debugBuild \in BOOLEAN
    BY Zenon
  <2> QED
    BY <2>1 DEF FlagsOK, UiSteps
<1>6. SlotOK
  BY <1>1 DEF SlotOK
<1>7. ReleaseOK
  BY <1>1 DEF ReleaseOK
<1> QED
  BY <1>2, <1>3, <1>4, <1>5, <1>6, <1>7 DEF ServiceInv

\* Every step keeps the invariant.
LEMMA ServiceInductive == ServiceInv /\ [ServiceNext]_serviceVars => ServiceInv'
<1> SUFFICES ASSUME ServiceInv, [ServiceNext]_serviceVars PROVE ServiceInv'
  OBVIOUS
<1>1. CASE StillStep
  BY <1>1, StillInductive
<1>2. CASE \/ setupEnsure \/ setupCreate \/ setupAttach \/ removeDeadSession \/ confirmCloseSession \/ switchCurrent
           \/ switchTarget \/ createNewLocalSession \/ reopenCreate \/ handleNotificationIntent \/ renameFromDrawer
  BY <1>2, SetupCalls, HandlerCalls, CallsInductive
<1>3. CASE switchToSession \/ closeDeadCurrentSession \/ reopenDeadSession
  BY <1>3, DetachInductive
<1>4. CASE exitApp \/ onDestroy \/ activityDestroyed \/ runPosted
  BY <1>4, EndInductive
<1>5. ASSUME NEW h \in HttpThreads,
             \/ httpCreate(h) \/ httpSwitch(h) \/ httpRename(h) \/ httpCloseById(h) \/ httpCloseRemove(h)
             \/ httpCloseLookup(h) \/ httpForeground(h)
      PROVE  ServiceInv'
  BY <1>5, HttpInductive
<1>6. CASE UNCHANGED serviceVars
  BY <1>6 DEF serviceVars, service, view, ui, http, ServiceInv, ListOK, RefsOK, HttpOK, FlagsOK, SlotOK, ReleaseOK,
              IndexNamesSession, NoOrphanSessions, Between, Removing
<1> QED
  BY <1>1, <1>2, <1>3, <1>4, <1>5, <1>6 DEF ServiceNext, StillStep

\* The invariant holds in every behaviour of the service, the activity and the
\* HTTP server.
THEOREM ServiceInvariant == ServiceSpec => []ServiceInv
BY ServiceInitial, ServiceInductive, PTL DEF ServiceSpec

\* TerminalService's list, its index and the sessions taken off it agree for
\* any number of sessions and HTTP threads: the index always names a listed
\* session, and every session that was ever created is in the list once or was
\* handed to a thread that closes it.
THEOREM ListStaysConsistent == ServiceSpec => []ListConsistent
<1>1. ServiceInv => ListConsistent
  <2> SUFFICES ASSUME ServiceInv PROVE ListConsistent
    OBVIOUS
  <2> USE DEF ServiceInv
  <2>1. {listening, bound, stayConnected, foreground, debugBuild} \subseteq BOOLEAN
    BY Zenon DEF FlagsOK
  <2>2. uiQueue \in Seq(Sessions) /\ Len(uiQueue) \in Nat
    BY SeqMonotonic, LenProperties DEF RefsOK, ListOK
  <2>3. Len(uiQueue) <= MaxPosts + Cardinality(HttpThreads)
    <3>1. IsFiniteSet(Removing)
      BY ThreadsAssumption, FS_Subset DEF Removing
    <3>2. Cardinality(Removing) \in Nat /\ Cardinality(HttpThreads) \in Nat /\ MaxPosts \in Nat
      BY <3>1, ThreadsAssumption, FS_CardinalityType, PostsAssumption
    <3> QED
      BY <2>2, <3>2 DEF HttpOK
  <2>4. /\ displayed \in Sessions \cup {NoSession} /\ dialog \in Sessions \cup {NoSession}
        /\ dead \subseteq created
    BY DEF RefsOK, ListOK, FlagsOK
  <2>5. ServiceTypeOK
    BY <2>1, <2>2, <2>3, <2>4 DEF ServiceTypeOK, ListOK, HttpOK, FlagsOK, SlotOK
  <2> QED
    BY <2>5 DEF ListConsistent, ListOK
<1> QED
  BY <1>1, ServiceInvariant, PTL

\* The screen reports to the view on it, and in a release build it shows a
\* listed session, the notification is up exactly when there is a session to
\* keep alive, and "ensure at least one session" never finds the list empty.
THEOREM ViewStaysConsistent == ServiceSpec => []ViewConsistent
<1>1. ServiceInv => ViewConsistent
  <2> SUFFICES ASSUME ServiceInv PROVE ViewConsistent
    OBVIOUS
  <2> USE DEF ServiceInv
  <2>1. ViewOwnsListenerSlot
    BY DEF ViewOwnsListenerSlot, UiIdle, SlotOK, Between
  <2>2. ViewShowsListedSession
    BY DEF ViewShowsListedSession, UiIdle, ReleaseOK
  <2>3. ForegroundMatches
    BY DEF ForegroundMatches, UiIdle, ReleaseOK, FlagsOK
  <2>4. SetupFindsSession
    BY DEF SetupFindsSession, ReleaseOK
  <2> QED
    BY <2>1, <2>2, <2>3, <2>4 DEF ViewConsistent
<1> QED
  BY <1>1, ServiceInvariant, PTL
=============================================================================
