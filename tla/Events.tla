------------------------------- MODULE Events -------------------------------
(***************************************************************************)
(* How a browser page comes to know the captures: the subscriber half of   *)
(* internal/store/store.go, handleEvents of internal/api/api.go and the    *)
(* event handling of internal/web/static/app.js.                           *)
(*                                                                         *)
(* Each capture has one goroutine that changes it (version n follows       *)
(* version n - 1) and broadcasts a snapshot of it after each change; Clear *)
(* has its own event.  A page subscribes, gets a snapshot of the whole     *)
(* store, and then the events, in their order, as long as its channel has  *)
(* room.  Broadcast holds subsMu shared for its whole loop; Subscribe and  *)
(* Unsubscribe need it alone.                                              *)
(***************************************************************************)
EXTENDS Naturals, Sequences

CONSTANTS Page,         \* browser pages
          Id,           \* captures
          MaxVersion,   \* bound of the run: changes of one capture
          Capacity,     \* of a subscriber's channel, 128 in the code
          Selects,      \* the user selects captures, which fetches them
          Admin         \* the goroutine of POST /admin/clear

ASSUME EventsAssumption ==
    MaxVersion \in Nat /\ Capacity \in Nat /\ Selects \in BOOLEAN /\ Admin \notin Id

VARIABLES stored,    \* the ids in the store
          version,   \* version[id]: 0 before the capture is added
          outbox,    \* outbox[g]: the event goroutine g is about to broadcast
          left,      \* left[g]: << >>, or the channels its loop has yet to offer
          subs,      \* s.subs: the pages whose channel is open
          queue,     \* queue[p]: the channel of p
          handler,   \* handler[p]: where handleEvents is
          peer,      \* peer[p]: "up", "gone" (ctx cancelled), "silent" (half-open)
          snap,      \* snap[p]: the snapshot about to be written
          view,      \* view[p][id]: the version p shows, 0 for none
          known,     \* known[p]: fullyLoaded of app.js
          fetch,     \* fetch[p]: the detail fetch under way
          late,      \* history: late[p], the ids whose fetched capture replaced
                     \* a newer one, and that no event has replaced since
          lost,      \* history: lost[p], the goroutines whose last event was dropped
                     \* for p since it subscribed
          hidden     \* history: hidden[p], the ids in the store when the event
                     \* of a Clear was queued for p, and not changed since

vars == <<stored, version, outbox, left, subs, queue, handler, peer, snap,
          view, known, fetch, late, lost, hidden>>

storeVars == <<stored, version, outbox>>
sendVars == <<left, queue, lost, hidden>>
pageVars == <<snap, view, known, fetch, late>>

Goroutine == Id \cup {Admin}

Nothing == [id \in Id |-> 0]

NoFetch == [id |-> Admin, version |-> 0]

Init ==
    /\ stored = {} /\ version = Nothing
    /\ outbox = [g \in Goroutine |-> << >>]
    /\ left = [g \in Goroutine |-> << >>]
    /\ subs = {}
    /\ queue = [p \in Page |-> << >>]
    /\ handler = [p \in Page |-> "off"]
    /\ peer = [p \in Page |-> "up"]
    /\ snap = [p \in Page |-> Nothing]
    /\ view = [p \in Page |-> Nothing]
    /\ known = [p \in Page |-> {}]
    /\ fetch = [p \in Page |-> NoFetch]
    /\ late = [p \in Page |-> {}]
    /\ lost = [p \in Page |-> {}]
    /\ hidden = [p \in Page |-> {}]

-----------------------------------------------------------------------------
Cleared == [id |-> Admin, version |-> 0]

\* A change of a capture, by Add or Update, and the event that follows with
\* the whole capture (the chunks of a stream are deltas: see Exchange).
\* Once the store has lost the capture, payloads are null.
Change(id) ==
    /\ outbox[id] = << >>
    /\ version[id] < MaxVersion
    /\ version' = [version EXCEPT ![id] = @ + 1]
    /\ stored' = IF version[id] = 0 THEN stored \cup {id} ELSE stored
    /\ outbox' = [outbox EXCEPT ![id] =
                      <<[id |-> id, version |-> IF id \in stored' THEN version'[id] ELSE 0]>>]
    /\ hidden' = [p \in Page |-> hidden[p] \ {id}]
    /\ UNCHANGED <<left, queue, lost, subs, handler, peer, pageVars>>

\* handleClear: the captures go now, the event follows.
ClearCaptures ==
    /\ outbox[Admin] = << >>
    /\ stored' = {}
    /\ hidden' = [p \in Page |-> {}]
    /\ outbox' = [outbox EXCEPT ![Admin] = <<Cleared>>]
    /\ UNCHANGED <<version, left, queue, lost, subs, handler, peer, pageVars>>

Free == \A g \in Goroutine : left[g] = << >>

\* Broadcast takes subsMu shared and starts its loop over pages.
BroadcastTo(g, pages) ==
    /\ outbox[g] # << >> /\ left[g] = << >>
    /\ left' = [left EXCEPT ![g] = <<pages>>]
    /\ UNCHANGED <<storeVars, queue, lost, hidden, subs, handler, peer, pageVars>>

\* Mutant of StartBroadcast: a page gets events once its snapshot is out.
StartBroadcastLate(g) == BroadcastTo(g, {p \in subs : handler[p] = "loop"})

\* The loop is over the subscribers of that moment.
StartBroadcast(g) == BroadcastTo(g, subs)

\* One turn of the loop.
Turn(g, p) ==
    /\ left[g] # << >> /\ p \in Head(left[g])
    /\ left' = [left EXCEPT ![g] = <<Head(@) \ {p}>>]
    /\ UNCHANGED <<storeVars, subs, handler, peer, pageVars>>

\* The send: the channel takes the event.
Enqueue(g, p) ==
    /\ queue' = [queue EXCEPT ![p] = Append(@, Head(outbox[g]))]
    /\ hidden' = IF g = Admin THEN [hidden EXCEPT ![p] = stored] ELSE hidden
    /\ lost' = [lost EXCEPT ![p] = @ \ {g}]

HasRoom(p) == Len(queue[p]) < Capacity

\* Mutants of Offer: the channel grows; the send waits for room.
OfferUnbounded(g, p) == Turn(g, p) /\ Enqueue(g, p)

OfferWaits(g, p) == HasRoom(p) /\ Turn(g, p) /\ Enqueue(g, p)

\* The select: the event is dropped when the channel is full.
Offer(g, p) ==
    /\ Turn(g, p)
    /\ \/ HasRoom(p) /\ Enqueue(g, p)
       \/ /\ ~HasRoom(p)
          /\ lost' = [lost EXCEPT ![p] = @ \cup {g}]
          /\ UNCHANGED <<queue, hidden>>

EndBroadcast(g) ==
    /\ left[g] = <<{}>>
    /\ left' = [left EXCEPT ![g] = << >>]
    /\ outbox' = [outbox EXCEPT ![g] = << >>]
    /\ UNCHANGED <<stored, version, queue, lost, hidden, subs, handler, peer, pageVars>>

Send(g) == StartBroadcast(g) \/ EndBroadcast(g) \/ \E p \in Page : Offer(g, p)

-----------------------------------------------------------------------------
\* handleEvents, 278-279: Subscribe, before the state is read.
Connect(p) ==
    /\ handler[p] = "off" /\ Free
    /\ subs' = subs \cup {p}
    /\ handler' = [handler EXCEPT ![p] = "subscribed"]
    /\ UNCHANGED <<storeVars, sendVars, peer, pageVars>>

\* 281-290: SnapshotAllSummaries, under s.mu.
BuildSnapshot(p) ==
    /\ handler[p] = "subscribed"
    /\ snap' = [snap EXCEPT ![p] = [id \in Id |-> IF id \in stored THEN version[id] ELSE 0]]
    /\ handler' = [handler EXCEPT ![p] = "snapshot"]
    /\ UNCHANGED <<storeVars, sendVars, subs, peer, view, known, fetch, late>>

Leave(p) == handler' = [handler EXCEPT ![p] = "leaving"]

\* 291-294; the page starts over with the summaries (app.js, 562-584).
SendSnapshot(p) ==
    /\ handler[p] = "snapshot" /\ peer[p] = "up"
    /\ view' = [view EXCEPT ![p] = snap[p]]
    /\ known' = [known EXCEPT ![p] = {}]
    /\ late' = [late EXCEPT ![p] = {}]
    /\ snap' = [snap EXCEPT ![p] = Nothing]
    /\ handler' = [handler EXCEPT ![p] = "loop"]
    /\ UNCHANGED <<storeVars, sendVars, subs, peer, fetch>>

\* What the page makes of an event (app.js, handleEvent).
Shown(v, e) == IF e = Cleared THEN Nothing
               ELSE IF e.version = 0 THEN v ELSE [v EXCEPT ![e.id] = e.version]

\* 301-308: the next event is written and the page handles it.
SendEvent(p) ==
    /\ handler[p] = "loop" /\ peer[p] = "up" /\ queue[p] # << >>
    /\ LET e == Head(queue[p])
       IN  /\ view' = [view EXCEPT ![p] = Shown(@, e)]
           /\ known' = [known EXCEPT ![p] = IF e = Cleared THEN {}
                                            ELSE IF e.version = 0 THEN @ ELSE @ \cup {e.id}]
           /\ late' = [late EXCEPT ![p] = IF e = Cleared THEN {}
                                          ELSE IF e.version = 0 THEN @ ELSE @ \ {e.id}]
    /\ queue' = [queue EXCEPT ![p] = Tail(@)]
    /\ UNCHANGED <<storeVars, left, lost, hidden, subs, handler, peer, snap, fetch>>

\* A write that the peer does not take fails at once or after its deadline
\* of 5 s; the event it carried is gone.
SnapshotFails(p) ==
    /\ handler[p] = "snapshot" /\ peer[p] # "up"
    /\ Leave(p)
    /\ UNCHANGED <<storeVars, sendVars, subs, peer, pageVars>>

EventFails(p) ==
    /\ handler[p] = "loop" /\ peer[p] # "up" /\ queue[p] # << >>
    /\ queue' = [queue EXCEPT ![p] = Tail(@)]
    /\ Leave(p)
    /\ UNCHANGED <<storeVars, left, lost, hidden, subs, peer, pageVars>>

\* Mutant of HeartbeatFails: there is no ticker.
NoHeartbeat(p) ==
    /\ handler[p] = "loop" /\ FALSE
    /\ UNCHANGED vars

\* 309-312: without events, the heartbeat of every 15 s finds a dead peer.
HeartbeatFails(p) ==
    /\ handler[p] = "loop" /\ peer[p] # "up"
    /\ Leave(p)
    /\ UNCHANGED <<storeVars, sendVars, subs, peer, pageVars>>

\* 313-314
ContextDone(p) ==
    /\ handler[p] = "loop" /\ peer[p] = "gone"
    /\ Leave(p)
    /\ UNCHANGED <<storeVars, sendVars, subs, peer, pageVars>>

\* The deferred Unsubscribe closes the channel; what it still holds, and a
\* snapshot that was not sent, are gone.
Close(p) ==
    /\ handler[p] = "leaving"
    /\ subs' = subs \ {p}
    /\ queue' = [queue EXCEPT ![p] = << >>]
    /\ lost' = [lost EXCEPT ![p] = {}]
    /\ hidden' = [hidden EXCEPT ![p] = {}]
    /\ snap' = [snap EXCEPT ![p] = Nothing]
    /\ peer' = [peer EXCEPT ![p] = "up"]
    /\ handler' = [handler EXCEPT ![p] = "off"]
    /\ UNCHANGED <<storeVars, left, view, known, fetch, late>>

\* Mutant of Unsubscribe: it does not take the lock.
UnsubscribeUnlocked(p) == Close(p)

\* It needs subsMu alone.
Unsubscribe(p) == Free /\ Close(p)

\* The page is closed, or its host vanishes without a word.
PeerLost(p, how) ==
    /\ handler[p] # "off" /\ peer[p] = "up"
    /\ peer' = [peer EXCEPT ![p] = how]
    /\ UNCHANGED <<storeVars, sendVars, subs, handler, pageVars>>

\* ensureFullCapture (app.js, 793-812): selecting a summary fetches the
\* capture; the answer is set whatever happened meanwhile.
FetchDetail(p, id) ==
    /\ Selects /\ fetch[p] = NoFetch
    /\ view[p][id] # 0 /\ id \notin known[p]
    /\ id \in stored
    /\ fetch' = [fetch EXCEPT ![p] = [id |-> id, version |-> version[id]]]
    /\ UNCHANGED <<storeVars, sendVars, subs, handler, peer, snap, view, known, late>>

DetailArrives(p) ==
    /\ fetch[p] # NoFetch
    /\ view' = [view EXCEPT ![p][fetch[p].id] = fetch[p].version]
    /\ late' = [late EXCEPT ![p] = IF fetch[p].version < view[p][fetch[p].id]
                                   THEN @ \cup {fetch[p].id} ELSE @]
    /\ known' = [known EXCEPT ![p] = @ \cup {fetch[p].id}]
    /\ fetch' = [fetch EXCEPT ![p] = NoFetch]
    /\ UNCHANGED <<storeVars, sendVars, subs, handler, peer, snap>>

Handle(p) ==
    \/ BuildSnapshot(p) \/ SendSnapshot(p) \/ SendEvent(p) \/ SnapshotFails(p)
    \/ EventFails(p) \/ HeartbeatFails(p) \/ ContextDone(p)

Next ==
    \/ \E id \in Id : Change(id)
    \/ ClearCaptures
    \/ \E g \in Goroutine : Send(g)
    \/ \E p \in Page : Handle(p) \/ Connect(p) \/ Unsubscribe(p) \/ DetailArrives(p)
    \/ \E p \in Page, how \in {"gone", "silent"} : PeerLost(p, how)
    \/ \E p \in Page, id \in Id : FetchDetail(p, id)

\* Goroutines run, the ticker ticks and write deadlines expire; a pending
\* Unsubscribe keeps new Broadcasts out (sync.RWMutex), hence SF.
Fairness ==
    /\ \A g \in Goroutine : WF_vars(Send(g))
    /\ \A p \in Page : WF_vars(Handle(p)) /\ SF_vars(Unsubscribe(p))

Spec == Init /\ [][Next]_vars /\ Fairness
-----------------------------------------------------------------------------
Event == [id : Id, version : 0 .. MaxVersion] \cup {Cleared}

TypeOK ==
    /\ stored \subseteq Id /\ hidden \in [Page -> SUBSET stored]
    /\ version \in [Id -> 0 .. MaxVersion]
    /\ outbox \in [Goroutine -> {<< >>} \cup {<<e>> : e \in Event}]
    /\ left \in [Goroutine -> {<< >>} \cup {<<ps>> : ps \in SUBSET Page}]
    /\ subs \subseteq Page
    /\ queue \in [Page -> Seq(Event)] /\ \A p \in Page : Len(queue[p]) <= Capacity
    /\ handler \in [Page -> {"off", "subscribed", "snapshot", "loop", "leaving"}]
    /\ peer \in [Page -> {"up", "gone", "silent"}]
    /\ {snap, view} \subseteq [Page -> [Id -> 0 .. MaxVersion]]
    /\ known \in [Page -> SUBSET Id]
    /\ fetch \in [Page -> Event]
    /\ late \in [Page -> SUBSET Id]
    /\ lost \in [Page -> SUBSET Goroutine]

\* Broadcast never sends on a closed channel, which would panic and take the
\* whole proxy down: no channel its loop still has to offer is closed by an
\* Unsubscribe that comes in between.
OpenWhileOffered ==
    \A g \in Goroutine : left[g] # << >> => Head(left[g]) \subseteq subs

\* Page p has handled all there is.
Settled(p) ==
    /\ handler[p] = "loop" /\ queue[p] = << >> /\ fetch[p] = NoFetch
    /\ \A g \in Goroutine : outbox[g] = << >>

\* Between the snapshot and the events no change falls through, in whatever
\* order changes, subscription, snapshot and broadcasts interleave: a page
\* that has handled all there is shows every capture of the store in its last
\* version, whatever its channel has dropped of the others.  The exceptions,
\* until the next change, are captures whose last event was dropped (lost),
\* captures added before a Clear announces itself (hidden), and those a late
\* answer of a detail fetch has put back (LoadedIsComplete).
ViewSettles ==
    \A p \in Page : Settled(p) =>
        \A id \in stored \ (lost[p] \cup hidden[p] \cup late[p]) : view[p][id] = version[id]

\* A slow or dead page does not hold up the proxy: every Broadcast ends
\* although nothing is assumed of the pages.
BroadcastEnds ==
    \A g \in Goroutine : (outbox[g] # << >>) ~> (outbox[g] = << >>)

\* A page that is closed, or whose connection is half-open, is unsubscribed,
\* even when no event ever comes for it.
DeadPageReleased ==
    \A p \in Page : (p \in subs /\ peer[p] # "up") ~> (p \notin subs)

\* "Live SSE events carry the full payload, so anything seen via those is
\* already complete" (app.js:18-22): a capture marked as fully loaded needs
\* no further fetch, so with nothing under way it is the last version.
LoadedIsComplete ==
    \A p \in Page : Settled(p) =>
        \A id \in (known[p] \cap stored) \ (lost[p] \cup hidden[p]) : view[p][id] = version[id]
=============================================================================
