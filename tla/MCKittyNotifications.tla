------------------------ MODULE MCKittyNotifications ------------------------
(* Settings of KittyNotifications for TLC. *)
EXTENDS KittyNotifications

\* Each setting of the notifications bounds one concern: the limits with
\* three sessions; requests put together; notifications that end; two posts
\* allowed in a window, with four asked for across its border.
CONSTANT t1
Few == [senders |-> Senders, perSession |-> 1, entries |-> 2, queued |-> 1, ttl |-> 9, window |-> 1, rate |-> 9,
        grace |-> 0, lifetimes |-> {0}, goods |-> {TRUE}, controls |-> {}, events |-> {}, time |-> 1, chunks |-> 3]
One == [Few EXCEPT !.senders = {t1}, !.entries = 1, !.controls = {"close", "alive"}]
MCKittySettings ==
  { Few,
    [One EXCEPT !.ttl = 1, !.window = 2, !.rate = 1, !.grace = 9, !.goods = BOOLEAN, !.time = 4, !.chunks = 3],
    [One EXCEPT !.lifetimes = {0, 1}, !.chunks = 2, !.events = {"process", "remove", "destroy", "user"}, !.time = 2],
    [One EXCEPT !.controls = {}, !.entries = 2, !.perSession = 2, !.window = 2, !.rate = 2, !.time = 4, !.chunks = 4] }
=============================================================================
