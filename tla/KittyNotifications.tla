-------------------------- MODULE KittyNotifications --------------------------
(***************************************************************************)
(* OSC 99 notifications: KittyNotificationManager on the main looper, fed  *)
(* by the messages that a session's reader thread posts to it.             *)
(*                                                                         *)
(* A request comes in chunks; all but the last say d=0.  pending holds the *)
(* requests being put together, active the notifications shown, both in    *)
(* insertion order (LinkedHashMap).  Text is abstract: a chunk is good, or *)
(* one that the decoder rejects.  Time counts in ticks; timers of the main *)
(* looper run at their time or later.                                      *)
(***************************************************************************)
EXTENDS Integers, Sequences, FiniteSets, SequencesExt

CONSTANTS Senders,         \* the terminal sessions
          Names,           \* notification ids that programs use
          NoId,            \* no id, no session
          KittySettings    \* the limits and the events of a behaviour

\* A setting: the sessions there are; MAX_PER_SESSION, MAX_ENTRIES, the limit
\* of queuedNotifications, ASSEMBLY_TTL_MS in ticks, the length of a rate
\* window and the posts it allows, reconcile's grace; the values of w (0 for
\* none), whether the decoder accepts a chunk, the other requests that
\* programs make and what may happen besides;
\* and the bounds of the model on the time and on the chunks sent.
KittySetting == [senders : SUBSET Senders,
            perSession : Nat \ {0}, entries : Nat \ {0}, queued : Nat, ttl : Nat,
            window : Nat, rate : Nat \ {0}, grace : Nat,
            lifetimes : SUBSET Nat, goods : SUBSET BOOLEAN, controls : SUBSET {"close", "alive"},
            events : SUBSET {"process", "remove", "destroy", "user"},
            time : Nat, chunks : Nat]

ASSUME KittyAssumption == /\ NoId \notin Senders \cup Names
                          /\ \A k \in KittySettings : k \in KittySetting

VARIABLES
  queue,     \* messages posted to the main looper
  running,   \* sessions whose isRunning() is true
  closed,    \* sessions whose isClosed is set
  listed,    \* sessions in the service's list
  dying,     \* sessions whose watcher has posted onSessionClosed
  remover,   \* session that an HTTP thread removes, holding the service's monitor
  pending,   \* pending, as a sequence of assemblies
  active,    \* active, as a sequence of entries
  tokens,    \* tokens, as the set of its entries
  rates,     \* rates: start and count of each session's window
  platform,  \* generations that Android shows
  intents,   \* taps and dismissals under way, by generation
  timers,    \* expiry runnables: time and entry
  sweepAt,   \* time of the scheduled sweep, -1 for none
  now,
  generation,\* entries posted so far
  destroyed,
  sent,      \* (history) chunks sent so far
  request,   \* (history) number of the request each session is sending under each name
  rejected,  \* (history) requests with a rejected chunk, while they are remembered
  posts,     \* (history) the notifications posted in the last kitty.window ticks
  settled,   \* (history) generations replaced, or whose closing was reported
  kitty,     \* the setting
  surplus    \* (history) generations reported closed though settled before

sessionVars == <<running, closed, listed, dying, remover>>
shownVars   == <<active, tokens, platform, timers, settled, surplus>>
postVars    == <<rates, generation, posts>>
sentVars    == <<sent, request>>
kittyVars == <<kitty, queue, sessionVars, pending, shownVars, postVars, intents, sweepAt, now,
          destroyed, sentVars, rejected>>

NameOrNone == Names \cup {NoId}
NoRate == [start |-> 0, count |-> 0]

(***************************************************************************)
(* Insertion-ordered maps.                                                 *)
(***************************************************************************)
ofSession(seq, s) == SelectSeq(seq, LAMBDA x : x.session = s)

hasKey(seq, k) == \E i \in DOMAIN seq : seq[i].key = k
get(seq, k) == seq[CHOOSE i \in DOMAIN seq : seq[i].key = k]
without(seq, k) == SelectSeq(seq, LAMBDA x : x.key # k)

\* put of an existing key keeps its place
put(seq, x) == IF hasKey(seq, x.key)
               THEN [i \in DOMAIN seq |-> IF seq[i].key = x.key THEN x ELSE seq[i]]
               ELSE Append(seq, x)

\* An absent id is a key like any other; entries without one get a UUID
scope(s, n) == <<s, n>>
entryKey(a) == IF a.name = NoId THEN <<a.session, generation + 1>> ELSE scope(a.session, a.name)

(***************************************************************************)
(* The operators below work on m, what is shown, so that a handler can     *)
(* close several entries.                                                  *)
(***************************************************************************)
shown == [active |-> active, tokens |-> tokens, platform |-> platform,
          timers |-> timers, settled |-> settled, surplus |-> surplus]

install(m) == /\ active' = m.active /\ tokens' = m.tokens /\ platform' = m.platform
              /\ timers' = m.timers /\ settled' = m.settled /\ surplus' = m.surplus

\* Leaves the token valid
forgetKeepsToken(m, e) == [m EXCEPT !.active = without(@, e.key),
                                    !.timers = {t \in @ : t.entry # e}]

forget(m, e) == [m EXCEPT !.active = without(@, e.key),
                          !.tokens = @ \ {e},
                          !.timers = {t \in @ : t.entry # e}]

\* An entry whose token is still valid goes, the platform's too, and its
\* closing is reported (every entry asks for it, c=1) to a session that runs
close(m, e, report) ==
  IF e \notin m.tokens THEN m
  ELSE LET told == IF report /\ e.session \in running THEN {e.generation} ELSE {}
       IN [forget(m, e) EXCEPT !.platform = @ \ {e.generation},
                               !.settled  = @ \cup told,
                               !.surplus  = @ \cup (told \cap m.settled)]

closeAll(m, es, report) == FoldLeft(LAMBDA acc, e : close(acc, e, report), m, es)

\* What the platform no longer shows is closed, after a grace
reconcile(m) ==
  closeAll(m, SelectSeq(m.active, LAMBDA e : e.generation \notin m.platform
                                              /\ now - e.posted > kitty.grace), TRUE)

\* Lets one too many in
trimActiveLate(m, s) ==
  LET mine == ofSession(m.active, s)
      m1   == IF Len(mine) > kitty.perSession THEN close(m, Head(mine), TRUE) ELSE m
  IN IF Len(m1.active) >= kitty.entries THEN close(m1, Head(m1.active), TRUE) ELSE m1

\* Makes room for one more, of the session and of all
trimActive(m, s) ==
  LET mine == ofSession(m.active, s)
      m1   == IF Len(mine) >= kitty.perSession THEN close(m, Head(mine), TRUE) ELSE m
  IN IF Len(m1.active) >= kitty.entries THEN close(m1, Head(m1.active), TRUE) ELSE m1

trimPending(ps, s) ==
  LET mine == ofSession(ps, s)
      ps1  == IF Len(mine) >= kitty.perSession THEN without(ps, Head(mine).key) ELSE ps
  IN IF Len(ps1) >= kitty.entries THEN Tail(ps1) ELSE ps1

\* Forgets to look at the age
sweepPendingNever(ps) == ps

sweepPending(ps) == SelectSeq(ps, LAMBDA a : ~(now - a.created > kitty.ttl))

scheduleSweep == sweepAt' = IF sweepAt >= 0 THEN sweepAt ELSE now + kitty.ttl

\* The requests of assemblies that left pending otherwise than by a last chunk
dropped(ps) == UNION {pending[i].requests : i \in {j \in DOMAIN pending : ~hasKey(ps, pending[j].key)}}

(***************************************************************************)
(* A session's program and reader thread: requests are posted to the main  *)
(* looper unless kitty.queued of the session's already wait there.         *)
(***************************************************************************)
isRequest(msg) == msg.kind \in {"chunk", "close", "alive"}
queuedOf(s) == Cardinality({i \in DOMAIN queue : queue[i].session = s /\ isRequest(queue[i])})

queueFull(s) == queuedOf(s) >= kitty.queued

managerFrame == UNCHANGED <<pending, shownVars, postVars, intents, sweepAt, now, destroyed,
                            rejected>>

\* A chunk of the request that the program is sending under a name; lost when
\* the queue is full
onKittyNotification(s, n, final, good, life) ==
  /\ s \notin closed /\ sent < kitty.chunks
  /\ queue' = IF queueFull(s) THEN queue
              ELSE Append(queue, [kind |-> "chunk", session |-> s, name |-> n,
                                  final |-> final, good |-> good, life |-> life,
                                  request |-> <<s, n, request[s, n]>>])
  /\ sent' = sent + 1
  /\ request' = [request EXCEPT ![s, n] = IF final THEN sent' ELSE @]
  /\ UNCHANGED sessionVars
  /\ managerFrame

\* A p=close or p=alive request
onKittyControl(s, kind, n) ==
  /\ kind \in kitty.controls
  /\ s \notin closed /\ ~queueFull(s)
  /\ queue' = Append(queue, [kind |-> kind, session |-> s, name |-> n])
  /\ UNCHANGED <<sessionVars, sentVars>>
  /\ managerFrame

\* TerminalSession.onSessionClosed (watcher): first posts, then clears isRunning
watcherPosts(s) ==
  /\ "process" \in kitty.events /\ s \in running \ dying
  /\ dying' = dying \cup {s}
  /\ queue' = Append(queue, [kind |-> "closed", session |-> s])
  /\ UNCHANGED <<running, closed, listed, remover, sentVars>>
  /\ managerFrame

watcherClearsRunning(s) ==
  /\ s \in running \cap dying
  /\ running' = running \ {s}
  /\ UNCHANGED <<queue, closed, listed, dying, remover, sentVars>>
  /\ managerFrame

\* TerminalSession.close on the thread that removeSession starts
closeSession(s) ==
  /\ s \notin listed \cup closed
  /\ closed' = closed \cup {s}
  /\ running' = running \ {s}
  /\ UNCHANGED <<queue, listed, dying, remover, sentVars>>
  /\ managerFrame

(***************************************************************************)
(* The main looper: onNotification.                                        *)
(***************************************************************************)

\* The session's fixed window, a new one when it is over
window(s) == IF now - rates[s].start >= kitty.window THEN [start |-> now, count |-> 0]
             ELSE rates[s]

\* post: notify has shown e; the entry that it replaces goes unreported
post(m, a, e) ==
  LET old == hasKey(m.active, e.key)
      m1  == IF old THEN forget(m, get(m.active, e.key)) ELSE m
      was == IF old THEN {get(m.active, e.key).generation} ELSE {}
  IN /\ install([m1 EXCEPT
            !.active   = Append(@, e),
            !.tokens   = @ \cup {e},
            !.platform = (@ \ was) \cup {e.generation},
            !.settled  = @ \cup was,
            !.timers   = IF a.life > 0 THEN @ \cup {[at |-> now + a.life, entry |-> e]} ELSE @])
     /\ generation' = e.generation
     /\ posts' = posts \cup {[session |-> a.session, time |-> now, age |-> now - a.created,
                              generation |-> e.generation, requests |-> a.requests]}

notPosted == UNCHANGED <<generation, posts>>

\* Nothing to say, on screen already or not allowed; too many; or posted
show(a) ==
  LET s  == a.session
      m1 == reconcile(shown)
      m2 == IF hasKey(m1.active, entryKey(a)) THEN m1 ELSE trimActive(m1, s)
      e  == [session |-> s, key |-> entryKey(a), generation |-> generation + 1, posted |-> now]
  IN \/ UNCHANGED <<rates, shownVars>> /\ notPosted
     \/ /\ rates' = [rates EXCEPT ![s] = [window(s) EXCEPT !.count = @ + 1]]
        /\ \/ window(s).count >= kitty.rate /\ UNCHANGED shownVars /\ notPosted
           \/ window(s).count < kitty.rate /\ install(m2) /\ notPosted \* notify throws
           \/ window(s).count < kitty.rate /\ post(m2, a, e)

\* A rejected request is remembered until its last chunk
remember(ps, a, final) ==
  IF final THEN without(ps, a.key) ELSE put(ps, [a EXCEPT !.failed = TRUE])

\* A title or body chunk: of a request under way, or of a new one
chunk(msg) ==
  LET s   == msg.session
      key == scope(s, msg.name)
      old == sweepPending(pending)
      ps  == IF hasKey(old, key) THEN old ELSE trimPending(old, s)
      a0  == IF hasKey(ps, key) THEN get(ps, key)
             ELSE [session |-> s, name |-> msg.name, key |-> key, created |-> now,
                   failed |-> FALSE, life |-> 0, requests |-> {}]
      a   == [a0 EXCEPT !.requests = @ \cup {msg.request},
                        !.life = IF msg.life > 0 THEN msg.life ELSE @]
      unremembered == IF hasKey(old, key) THEN dropped(old) ELSE dropped(ps)
  IN \/ /\ a0.failed \/ ~msg.good
        /\ pending' = remember(ps, a, msg.final)
        /\ rejected' = (rejected \ unremembered) \cup {msg.request}
        /\ IF msg.final \/ a0.failed THEN UNCHANGED sweepAt ELSE scheduleSweep
        /\ UNCHANGED <<shownVars, postVars>>
     \/ /\ ~a0.failed /\ msg.good /\ msg.final
        /\ pending' = without(ps, key)
        /\ rejected' = rejected \ unremembered
        /\ show(a)
        /\ UNCHANGED sweepAt
     \/ /\ ~a0.failed /\ msg.good /\ ~msg.final
        /\ pending' = put(ps, a)
        /\ rejected' = rejected \ unremembered
        /\ scheduleSweep
        /\ UNCHANGED <<shownVars, postVars>>

closeRequest(msg) ==
  LET key == scope(msg.session, msg.name)
  IN /\ pending' = without(pending, key)
     /\ install(IF hasKey(active, key) THEN close(shown, get(active, key), TRUE) ELSE shown)
     /\ rejected' = rejected \ dropped(without(pending, key))
     /\ UNCHANGED <<postVars, sweepAt>>

\* getSessionById is synchronized; it is called only for a session that runs
monitorFree(s) == destroyed \/ s \notin running \/ remover = NoId

\* Only a session that runs and is listed is heard
onNotification ==
  /\ queue # <<>> /\ isRequest(Head(queue)) /\ monitorFree(Head(queue).session)
  /\ queue' = Tail(queue)
  /\ LET msg   == Head(queue)
         heard == ~destroyed /\ msg.session \in running \cap listed
     IN \/ ~heard /\ UNCHANGED <<pending, shownVars, postVars, rejected, sweepAt>>
        \/ heard /\ msg.kind = "chunk" /\ chunk(msg)
        \/ heard /\ msg.kind = "close" /\ closeRequest(msg)
        \/ /\ heard /\ msg.kind = "alive"
           /\ install(reconcile(shown))
           /\ UNCHANGED <<pending, postVars, rejected, sweepAt>>
  /\ UNCHANGED <<sessionVars, intents, now, destroyed, sentVars>>

(***************************************************************************)
(* The end of a session, and of the service.                               *)
(***************************************************************************)
\* Everything of the session goes, unreported
clear(s) ==
  /\ pending' = SelectSeq(pending, LAMBDA a : a.session # s)
  /\ rejected' = {r \in rejected : r[1] # s}
  /\ install(closeAll(shown, ofSession(active, s), FALSE))
  /\ rates' = [rates EXCEPT ![s] = NoRate]

\* KittyNotificationManager.onSessionClosed on the main looper
onSessionClosed ==
  /\ queue # <<>> /\ ~isRequest(Head(queue))
  /\ queue' = Tail(queue)
  /\ clear(Head(queue).session)
  /\ UNCHANGED <<sessionVars, generation, posts, sweepAt, intents, now, destroyed,
                 sentVars>>

\* TerminalService.removeSession on the main looper: the cleanup is direct
removeSender(s) ==
  /\ "remove" \in kitty.events /\ ~destroyed /\ remover = NoId /\ s \in listed
  /\ listed' = listed \ {s}
  /\ clear(s)
  /\ UNCHANGED <<queue, running, closed, dying, remover, generation, posts, sweepAt,
                 intents, now, destroyed, sentVars>>

\* removeSession on an HTTP thread: the cleanup is posted, then the list changes
httpRemovePosts(s) ==
  /\ "remove" \in kitty.events /\ ~destroyed /\ remover = NoId /\ s \in listed
  /\ remover' = s
  /\ queue' = Append(queue, [kind |-> "cleanup", session |-> s])
  /\ UNCHANGED <<running, closed, listed, dying, sentVars>>
  /\ managerFrame

httpRemoveEnds ==
  /\ remover # NoId
  /\ listed' = listed \ {remover}
  /\ remover' = NoId
  /\ UNCHANGED <<queue, running, closed, dying, sentVars>>
  /\ managerFrame

\* destroy, and onDestroy clearing the list; the messages of the manager's own
\* handler go, the sessions' stay
destroy ==
  /\ "destroy" \in kitty.events /\ ~destroyed /\ remover = NoId
  /\ destroyed' = TRUE
  /\ queue' = SelectSeq(queue, LAMBDA msg : msg.kind # "cleanup")
  /\ install([closeAll(shown, active, FALSE) EXCEPT !.timers = {}])
  /\ pending' = <<>> /\ rejected' = {} /\ sweepAt' = -1
  /\ rates' = [s \in Senders |-> NoRate]
  /\ listed' = {}
  /\ UNCHANGED <<running, closed, dying, remover, generation, posts, intents, now, sentVars>>

(***************************************************************************)
(* Timers and intents.                                                     *)
(***************************************************************************)

\* The sweep comes back while something is pending
reschedule(ps) == IF ps = <<>> THEN -1 ELSE now + kitty.ttl

\* The runnable of scheduleSweep
sweep ==
  /\ sweepAt >= 0 /\ now >= sweepAt
  /\ pending' = sweepPending(pending)
  /\ rejected' = rejected \ dropped(sweepPending(pending))
  /\ sweepAt' = reschedule(sweepPending(pending))
  /\ UNCHANGED <<queue, sessionVars, shownVars, postVars, intents, now, destroyed, sentVars>>

\* e.expiry
expire ==
  /\ \E t \in timers :
       /\ now >= t.at
       /\ install([close(shown, t.entry, TRUE) EXCEPT !.timers = @ \ {t}])
  /\ UNCHANGED <<queue, sessionVars, pending, postVars, intents, sweepAt, now, destroyed,
                 sentVars, rejected>>

\* Whenever Android delivers it; only a valid token counts
handleIntent ==
  /\ \E g \in intents :
       /\ intents' = intents \ {g}
       /\ install(closeAll(shown, SetToSeq({e \in tokens : ~destroyed /\ e.generation = g}), TRUE))
  /\ UNCHANGED <<queue, sessionVars, pending, postVars, sweepAt, now, destroyed, sentVars,
                 rejected>>

\* The user taps a notification, which stays (setAutoCancel(false)), or
\* dismisses it; or Android takes it down (setTimeoutAfter, the user's "clear all")
platformActs ==
  /\ "user" \in kitty.events
  /\ \E g \in platform :
       \/ intents' = intents \cup {g} /\ UNCHANGED platform
       \/ intents' = intents \cup {g} /\ platform' = platform \ {g}
       \/ platform' = platform \ {g} /\ UNCHANGED intents
  /\ UNCHANGED <<queue, sessionVars, pending, active, tokens, timers, settled, surplus, postVars,
                 sweepAt, now, destroyed, sentVars, rejected>>

tick ==
  /\ now < kitty.time
  /\ now' = now + 1
  /\ posts' = {p \in posts : p.time > now' - kitty.window}
  /\ UNCHANGED <<queue, sessionVars, pending, shownVars, rates, generation, intents, sweepAt,
                 destroyed, sentVars, rejected>>

-----------------------------------------------------------------------------
\* The app starts when the device has been up for longer than a window
KittyInit ==
  /\ queue = <<>> /\ kitty \in KittySettings
  /\ running = kitty.senders /\ closed = Senders \ kitty.senders /\ listed = kitty.senders
  /\ dying = {} /\ remover = NoId
  /\ pending = <<>> /\ active = <<>> /\ tokens = {} /\ platform = {}
  /\ rates = [s \in Senders |-> NoRate] /\ intents = {} /\ timers = {}
  /\ sweepAt = -1 /\ now = kitty.window /\ generation = 0 /\ destroyed = FALSE
  /\ sent = 0 /\ request = [k \in Senders \X NameOrNone |-> 0]
  /\ rejected = {} /\ posts = {} /\ settled = {} /\ surplus = {}

KittyStep ==
  \/ \E s \in Senders, n \in NameOrNone, final \in BOOLEAN, good \in kitty.goods,
        life \in kitty.lifetimes :
       onKittyNotification(s, n, final, good, life)
  \/ \E s \in Senders, n \in Names : onKittyControl(s, "close", n)
  \/ \E s \in Senders : \/ onKittyControl(s, "alive", NoId)
                         \/ watcherPosts(s) \/ watcherClearsRunning(s) \/ closeSession(s)
                         \/ removeSender(s) \/ httpRemovePosts(s)
  \/ httpRemoveEnds \/ onNotification \/ onSessionClosed \/ destroy
  \/ sweep \/ expire \/ handleIntent \/ platformActs \/ tick

KittyNext == KittyStep /\ UNCHANGED kitty

KittySpec == KittyInit /\ [][KittyNext]_kittyVars

-----------------------------------------------------------------------------
(***************************************************************************)
(* Properties.                                                             *)
(***************************************************************************)
\* Types, with the counter of queued requests (TerminalSession, "> 32")
\* within its limit.
KittyTypeOK ==
  /\ \A s \in Senders : queuedOf(s) <= kitty.queued
  /\ running \cup closed \cup listed \cup dying \subseteq Senders /\ remover \in Senders \cup {NoId}
  /\ \A i \in DOMAIN pending : /\ pending[i].session \in Senders
                               /\ pending[i].name \in NameOrNone
                               /\ pending[i].created \in 0 .. now
  /\ \A i \in DOMAIN active : active[i].session \in Senders /\ active[i].posted \in 0 .. now
  /\ \A s \in Senders : rates[s].start \in 0 .. now /\ rates[s].count \in Nat
  /\ platform \cup intents \subseteq 1 .. generation
  /\ sweepAt >= -1 /\ destroyed \in BOOLEAN

\* README: "8 pending/active notifications per session (64 each app-wide)",
\* whatever is chunked, replaced, closed and dismissed in between.
WithinLimits ==
  /\ Len(pending) <= kitty.entries /\ Len(active) <= kitty.entries
  /\ \A s \in Senders : /\ Len(ofSession(pending, s)) <= kitty.perSession
                         /\ Len(ofSession(active, s)) <= kitty.perSession

\* The tokens that Android may send back are those of the active entries, one
\* entry for each key, and every expiry runnable belongs to one of them: an
\* intent or a timer of a notification that was replaced, closed or cleared
\* can never reach its successor.
TokensMatchActive ==
  /\ tokens = {active[i] : i \in DOMAIN active}
  /\ \A i, j \in DOMAIN active : active[i].key = active[j].key => i = j
  /\ \A t \in timers : t.entry \in tokens

\* "Replacement does not report the old notification closing" (show): no
\* program is told twice that a notification closed, nor that a replaced one
\* did, however dismissals, taps, expiry, close requests and reconcile race.
ClosedReportedOnce == surplus = {}

\* README: "Incomplete requests expire after 30 seconds": no notification is
\* completed from a request older than that, however late the sweep runs.
ExpiredNeverShown == \A p \in posts : p.age <= kitty.ttl

\* An assembly that its program abandons is always waited for by a scheduled
\* sweep (scheduleSweep), so that it cannot stay for ever.
SweepScheduled == pending # <<>> => sweepAt >= 0

\* "Remember a rejected transaction until its final chunk so a suffix cannot
\* accidentally become a new notification" (onNotification), unless the
\* limits, the age or a close request dropped it.
RejectedNeverShown == \A p \in posts : p.requests \cap rejected = {}

\* Nothing of a session that was removed outlives its cleanup, though an HTTP
\* thread posts the cleanup before the session leaves the list.
RemovedSessionForgotten ==
  \A s \in Senders \ listed :
    (\A i \in DOMAIN queue : queue[i].session = s => isRequest(queue[i]))
      => Len(ofSession(active, s)) = 0 /\ Len(ofSession(pending, s)) = 0

postsSince(s, t) == {p \in posts : p.session = s /\ p.time > t}

\* What show keeps of the README's "10 posts per 10 seconds per session": its
\* windows are fixed and begin with a post that is counted, so a span of ten
\* seconds across their border holds more than 10 posts, but fewer than 20.
RateBelowTwice ==
  \A s \in Senders \ dying : Cardinality(postsSince(s, now - kitty.window)) < 2 * kitty.rate

\* The README's limits on entries hold, and the queue's; its limit on posts
\* does not, only the weaker one of the fixed windows.
KittyLimits == KittyTypeOK /\ WithinLimits /\ RateBelowTwice

\* Nothing is shown from a request that expired or was rejected, and an
\* abandoned one is swept.
NothingStaleShown == ExpiredNeverShown /\ RejectedNeverShown /\ SweepScheduled

\* Every end of a notification reaches it, once, and its successor never.
EndsOnce == TokensMatchActive /\ ClosedReportedOnce /\ RemovedSessionForgotten
=============================================================================
