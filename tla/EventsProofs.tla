---------------------------- MODULE EventsProofs ----------------------------
(***************************************************************************)
(* For any pages, captures and capacity: no event is sent on a closed      *)
(* channel, no channel holds more than its capacity, and a page that has   *)
(* handled all there is shows what the store holds.                        *)
(***************************************************************************)
EXTENDS Events, SequenceTheorems, TLAPS

\* What a loop still has to offer is there to be offered.
HasEvent == \A g \in Goroutine : left[g] # << >> => outbox[g] # << >>

Inv == TypeOK /\ OpenWhileOffered /\ HasEvent

USE EventsAssumption

LEMMA InitInv == Init => Inv
<1> SUFFICES ASSUME Init PROVE Inv
  OBVIOUS
<1>1. Nothing \in [Id -> 0 .. MaxVersion] /\ NoFetch \in Event
  BY DEF Nothing, NoFetch, Event, Cleared
<1>2. << >> \in Seq(Event) /\ Len(<< >>) = 0
  OBVIOUS
<1>3. TypeOK
  BY <1>1, <1>2 DEF Init, TypeOK
<1>4. OpenWhileOffered
  BY DEF Init, OpenWhileOffered
<1>5. HasEvent
  BY DEF Init, HasEvent
<1> QED
  BY <1>3, <1>4, <1>5 DEF Inv

\* The writers: a change, a clear and their broadcasts.
LEMMA ChangeTypes ==
    ASSUME TypeOK, NEW id \in Id, Change(id) PROVE TypeOK'
<1> DEFINE v == version[id] + 1
           s == IF version[id] = 0 THEN stored \cup {id} ELSE stored
           e == [id |-> id, version |-> IF id \in s THEN v ELSE 0]
<1>1. v \in 0 .. MaxVersion /\ version' = [version EXCEPT ![id] = v]
  BY DEF TypeOK, Change
<1>2. stored' = s /\ stored \subseteq s /\ s \subseteq Id
  BY DEF TypeOK, Change
<1>3. e \in Event /\ id \in Goroutine
  BY <1>1 DEF Event, Goroutine
<1>4. outbox' = [outbox EXCEPT ![id] = <<e>>]
  BY <1>1, <1>2 DEF Change, TypeOK
<1>5. hidden' \in [Page -> SUBSET stored']
  BY <1>2 DEF Change, TypeOK
<1> HIDE DEF v, s, e
<1>6. outbox' \in [Goroutine -> {<< >>} \cup {<<x>> : x \in Event}]
  BY <1>3, <1>4 DEF TypeOK
<1> QED
  BY <1>1, <1>2, <1>5, <1>6 DEF TypeOK, Change, pageVars

LEMMA ClearTypes == ASSUME TypeOK, ClearCaptures PROVE TypeOK'
<1>1. Cleared \in Event /\ Admin \in Goroutine
  BY DEF Event, Goroutine
<1>2. outbox' \in [Goroutine -> {<< >>} \cup {<<x>> : x \in Event}]
  BY <1>1 DEF TypeOK, ClearCaptures
<1>3. hidden' \in [Page -> SUBSET stored'] /\ stored' \subseteq Id
  BY DEF TypeOK, ClearCaptures
<1> QED
  BY <1>2, <1>3 DEF TypeOK, ClearCaptures, pageVars

LEMMA StartTypes ==
    ASSUME TypeOK, NEW g \in Goroutine, StartBroadcast(g) PROVE TypeOK'
<1>1. left' \in [Goroutine -> {<< >>} \cup {<<ps>> : ps \in SUBSET Page}]
  BY DEF TypeOK, StartBroadcast, BroadcastTo
<1> QED
  BY <1>1 DEF TypeOK, StartBroadcast, BroadcastTo, storeVars, pageVars

LEMMA EndTypes ==
    ASSUME TypeOK, NEW g \in Goroutine, EndBroadcast(g) PROVE TypeOK'
<1>1. left' \in [Goroutine -> {<< >>} \cup {<<ps>> : ps \in SUBSET Page}]
  BY DEF TypeOK, EndBroadcast
<1>2. outbox' \in [Goroutine -> {<< >>} \cup {<<x>> : x \in Event}]
  BY DEF TypeOK, EndBroadcast
<1> QED
  BY <1>1, <1>2 DEF TypeOK, EndBroadcast, pageVars

\* One turn of the loop of Broadcast: the channel has room, or loses.
LEMMA OfferTypes ==
    ASSUME TypeOK, NEW g \in Goroutine, NEW p \in Page, Offer(g, p),
           outbox[g] # << >>
    PROVE  TypeOK'
<1>1. PICK ps \in SUBSET Page : left[g] = <<ps>>
  BY DEF TypeOK, Offer, Turn
<1>2. left' = [left EXCEPT ![g] = <<ps \ {p}>>]
  BY <1>1 DEF Offer, Turn
<1>3. left' \in [Goroutine -> {<< >>} \cup {<<qs>> : qs \in SUBSET Page}]
  BY <1>2 DEF TypeOK
<1>4. PICK e \in Event : outbox[g] = <<e>>
  BY DEF TypeOK
<1>5. queue' \in [Page -> Seq(Event)] /\ \A q \in Page : Len(queue'[q]) <= Capacity
  <2>1. CASE Len(queue[p]) < Capacity /\ queue' = [queue EXCEPT ![p] = Append(queue[p], e)]
    <3>1. queue[p] \in Seq(Event) /\ Len(queue[p]) \in Nat
      BY DEF TypeOK
    <3>2. Append(queue[p], e) \in Seq(Event) /\ Len(Append(queue[p], e)) = Len(queue[p]) + 1
      BY <3>1, AppendProperties
    <3>3. PICK s : s = Append(queue[p], e)
      OBVIOUS
    <3>4. s \in Seq(Event) /\ Len(s) <= Capacity
      BY <2>1, <3>1, <3>2, <3>3
    <3> QED
      BY <2>1, <3>3, <3>4 DEF TypeOK
  <2>2. CASE queue' = queue
    BY <2>2 DEF TypeOK
  <2> QED
    BY <1>4, <2>1, <2>2 DEF Offer, Enqueue, HasRoom
<1>6. hidden' \in [Page -> SUBSET stored] /\ lost' \in [Page -> SUBSET Goroutine]
  <2>1. CASE Enqueue(g, p)
    BY <2>1 DEF Enqueue, TypeOK
  <2>2. CASE lost' = [lost EXCEPT ![p] = @ \cup {g}] /\ UNCHANGED <<queue, hidden>>
    BY <2>2 DEF TypeOK
  <2> QED
    BY <2>1, <2>2 DEF Offer
<1> QED
  BY <1>3, <1>5, <1>6 DEF TypeOK, Offer, Turn, storeVars, pageVars

\* The writer's steps change no subscription, and a loop that starts has
\* the subscribers before it.
LEMMA SendKeeps ==
    ASSUME Inv, NEW g \in Goroutine, Send(g) PROVE Inv'
<1>1. CASE StartBroadcast(g)
  <2>1. TypeOK'
    BY <1>1, StartTypes DEF Inv
  <2>2. left' = [left EXCEPT ![g] = <<subs>>] /\ subs' = subs /\ outbox' = outbox
        /\ outbox[g] # << >>
    BY <1>1 DEF StartBroadcast, BroadcastTo, storeVars
  <2>3. OpenWhileOffered'
    BY <2>2 DEF Inv, TypeOK, OpenWhileOffered
  <2>4. HasEvent'
    BY <2>2 DEF Inv, TypeOK, HasEvent
  <2> QED
    BY <2>1, <2>3, <2>4 DEF Inv
<1>2. CASE EndBroadcast(g)
  <2>1. TypeOK'
    BY <1>2, EndTypes DEF Inv
  <2>2. OpenWhileOffered'
    BY <1>2 DEF Inv, TypeOK, OpenWhileOffered, EndBroadcast
  <2>3. HasEvent'
    BY <1>2 DEF Inv, TypeOK, HasEvent, EndBroadcast
  <2> QED
    BY <2>1, <2>2, <2>3 DEF Inv
<1>3. ASSUME NEW p \in Page, Offer(g, p) PROVE Inv'
  <2>1. outbox[g] # << >>
    BY <1>3 DEF Inv, HasEvent, Offer, Turn
  <2>2. TypeOK'
    BY <1>3, <2>1, OfferTypes DEF Inv
  <2>3. left[g] # << >> /\ left' = [left EXCEPT ![g] = <<Head(left[g]) \ {p}>>]
        /\ subs' = subs /\ outbox' = outbox
    BY <1>3 DEF Offer, Turn, storeVars
  <2>4. OpenWhileOffered'
    BY <2>3 DEF Inv, TypeOK, OpenWhileOffered
  <2>5. HasEvent'
    BY <2>3 DEF Inv, TypeOK, HasEvent
  <2> QED
    BY <2>2, <2>4, <2>5 DEF Inv
<1> QED
  BY <1>1, <1>2, <1>3 DEF Send

\* The page's own goroutine takes and drops events; it subscribes nobody.
LEMMA HandleTypes ==
    ASSUME TypeOK, NEW p \in Page, Handle(p) PROVE TypeOK'
<1>1. CASE BuildSnapshot(p)
  <2>1. [id \in Id |-> IF id \in stored THEN version[id] ELSE 0] \in [Id -> 0 .. MaxVersion]
    BY DEF TypeOK
  <2>2. PICK s \in [Id -> 0 .. MaxVersion] : snap' = [snap EXCEPT ![p] = s]
    BY <1>1, <2>1 DEF BuildSnapshot
  <2>3. snap' \in [Page -> [Id -> 0 .. MaxVersion]]
    BY <2>2 DEF TypeOK
  <2> QED
    BY <1>1, <2>3 DEF TypeOK, BuildSnapshot, storeVars, sendVars
<1>2. CASE SendSnapshot(p)
  <2>1. Nothing \in [Id -> 0 .. MaxVersion]
    BY DEF Nothing
  <2>2. {snap', view'} \subseteq [Page -> [Id -> 0 .. MaxVersion]]
    BY <1>2, <2>1 DEF TypeOK, SendSnapshot
  <2> QED
    BY <1>2, <2>2 DEF TypeOK, SendSnapshot, storeVars, sendVars
<1>3. CASE SendEvent(p)
  <2>1. queue[p] \in Seq(Event) /\ queue[p] # << >> /\ Len(queue[p]) \in Nat
    BY <1>3 DEF SendEvent, TypeOK
  <2>2. PICK e : e = Head(queue[p])
    OBVIOUS
  <2>3. e \in Event
    BY <2>1, <2>2, HeadTailProperties
  <2>4. PICK t : t = Tail(queue[p])
    OBVIOUS
  <2>5. t \in Seq(Event) /\ Len(t) = Len(queue[p]) - 1
    BY <2>1, <2>4, HeadTailProperties
  <2>6. Len(t) <= Capacity
    BY <2>1, <2>5 DEF TypeOK
  <2>7. queue' = [queue EXCEPT ![p] = t]
    BY <1>3, <2>4 DEF SendEvent
  <2>8. queue' \in [Page -> Seq(Event)] /\ \A q \in Page : Len(queue'[q]) <= Capacity
    BY <2>5, <2>6, <2>7 DEF TypeOK
  <2>9. PICK v : v = Shown(view[p], e)
    OBVIOUS
  <2>10. v \in [Id -> 0 .. MaxVersion]
    <3>1. Nothing \in [Id -> 0 .. MaxVersion]
      BY DEF Nothing
    <3> QED
      BY <2>3, <2>9, <3>1 DEF Shown, Event, TypeOK
  <2>11. view' = [view EXCEPT ![p] = v]
    BY <1>3, <2>2, <2>9 DEF SendEvent
  <2>12. view' \in [Page -> [Id -> 0 .. MaxVersion]]
    BY <2>10, <2>11 DEF TypeOK
  <2>13. known' \in [Page -> SUBSET Id] /\ late' \in [Page -> SUBSET Id]
    <3>1. e = Cleared \/ e.id \in Id
      BY <2>3 DEF Event
    <3> QED
      BY <1>3, <2>2, <3>1 DEF SendEvent, TypeOK
  <2> QED
    BY <1>3, <2>8, <2>12, <2>13 DEF TypeOK, SendEvent, storeVars
<1>4. CASE SnapshotFails(p) \/ HeartbeatFails(p) \/ ContextDone(p)
  <2>1. Leave(p) /\ UNCHANGED <<storeVars, sendVars, subs, peer, pageVars>>
    BY <1>4 DEF SnapshotFails, HeartbeatFails, ContextDone
  <2>2. handler' \in [Page -> {"off", "subscribed", "snapshot", "loop", "leaving"}]
    BY <2>1 DEF TypeOK, Leave
  <2> QED
    BY <2>1, <2>2 DEF TypeOK, storeVars, sendVars, pageVars
<1>5. CASE EventFails(p)
  <2>1. queue[p] \in Seq(Event) /\ queue[p] # << >> /\ Len(queue[p]) \in Nat
    BY <1>5 DEF EventFails, TypeOK
  <2>2. PICK t : t = Tail(queue[p])
    OBVIOUS
  <2>3. t \in Seq(Event) /\ Len(t) = Len(queue[p]) - 1
    BY <2>1, <2>2, HeadTailProperties
  <2>4. Len(t) <= Capacity
    BY <2>1, <2>3 DEF TypeOK
  <2>5. queue' = [queue EXCEPT ![p] = t]
    BY <1>5, <2>2 DEF EventFails
  <2>6. queue' \in [Page -> Seq(Event)] /\ \A q \in Page : Len(queue'[q]) <= Capacity
    BY <2>3, <2>4, <2>5 DEF TypeOK
  <2> QED
    BY <1>5, <2>6 DEF TypeOK, EventFails, Leave, storeVars, pageVars
<1> QED
  BY <1>1, <1>2, <1>3, <1>4, <1>5 DEF Handle

\* Neither a page nor the goroutine that serves it touches the loops, and
\* none but Close takes a subscription away.
Untouched == UNCHANGED <<left, outbox>> /\ subs \subseteq subs'

LEMMA UntouchedKeeps ==
    ASSUME OpenWhileOffered, HasEvent, Untouched PROVE OpenWhileOffered' /\ HasEvent'
BY DEF OpenWhileOffered, HasEvent, Untouched

LEMMA HandleKeeps ==
    ASSUME Inv, NEW p \in Page, Handle(p) PROVE Inv'
<1>1. Untouched
  BY DEF Handle, BuildSnapshot, SendSnapshot, SendEvent, SnapshotFails, EventFails,
         HeartbeatFails, ContextDone, Untouched, storeVars, sendVars
<1> QED
  BY <1>1, HandleTypes, UntouchedKeeps DEF Inv

\* Subscribing and unsubscribing wait for the loops to end.
LEMMA ConnectKeeps ==
    ASSUME Inv, NEW p \in Page, Connect(p) PROVE Inv'
<1>1. Untouched
  BY DEF Connect, Untouched, storeVars, sendVars
<1>2. TypeOK'
  BY DEF Inv, TypeOK, Connect, storeVars, sendVars, pageVars
<1> QED
  BY <1>1, <1>2, UntouchedKeeps DEF Inv

LEMMA UnsubscribeKeeps ==
    ASSUME Inv, NEW p \in Page, Unsubscribe(p) PROVE Inv'
<1>1. (\A g \in Goroutine : left[g] = << >>) /\ UNCHANGED <<left, outbox>>
  BY DEF Unsubscribe, Free, Close, storeVars
<1>2. OpenWhileOffered' /\ HasEvent'
  BY <1>1 DEF OpenWhileOffered, HasEvent
<1>3. << >> \in Seq(Event) /\ Len(<< >>) = 0 /\ Nothing \in [Id -> 0 .. MaxVersion]
  BY DEF Nothing
<1>4. queue' \in [Page -> Seq(Event)] /\ \A q \in Page : Len(queue'[q]) <= Capacity
  BY <1>3 DEF Inv, TypeOK, Unsubscribe, Close
<1>5. snap' \in [Page -> [Id -> 0 .. MaxVersion]]
  BY <1>3 DEF Inv, TypeOK, Unsubscribe, Close
<1>6. TypeOK'
  BY <1>4, <1>5 DEF Inv, TypeOK, Unsubscribe, Close, storeVars
<1> QED
  BY <1>2, <1>6 DEF Inv

\* The browser's side.
LEMMA BrowserKeeps ==
    ASSUME Inv, NEW p \in Page,
           \/ DetailArrives(p)
           \/ \E how \in {"gone", "silent"} : PeerLost(p, how)
           \/ \E id \in Id : FetchDetail(p, id)
    PROVE  Inv'
<1>1. Untouched
  BY DEF DetailArrives, PeerLost, FetchDetail, Untouched, storeVars, sendVars
<1>2. CASE DetailArrives(p)
  <2>1. PICK e \in Event : e = fetch[p]
    BY DEF Inv, TypeOK
  <2>2. e.id \in Id /\ e.version \in 0 .. MaxVersion
    BY <1>2, <2>1 DEF DetailArrives, NoFetch, Event, Cleared
  <2>3. view' = [view EXCEPT ![p] = [view[p] EXCEPT ![e.id] = e.version]]
    BY <1>2, <2>1 DEF DetailArrives
  <2>4. view' \in [Page -> [Id -> 0 .. MaxVersion]]
    BY <2>2, <2>3 DEF Inv, TypeOK
  <2>5. NoFetch \in Event
    BY DEF NoFetch, Event, Cleared
  <2>6. known' \in [Page -> SUBSET Id] /\ late' \in [Page -> SUBSET Id]
        /\ fetch' \in [Page -> Event]
    BY <1>2, <2>1, <2>2, <2>5 DEF Inv, TypeOK, DetailArrives
  <2>7. TypeOK'
    BY <1>2, <2>4, <2>6 DEF Inv, TypeOK, DetailArrives, storeVars, sendVars
  <2> QED
    BY <1>1, <2>7, UntouchedKeeps DEF Inv
<1>3. ASSUME NEW how \in {"gone", "silent"}, PeerLost(p, how) PROVE Inv'
  <2>1. TypeOK'
    BY <1>3 DEF Inv, TypeOK, PeerLost, storeVars, sendVars, pageVars
  <2> QED
    BY <1>1, <2>1, UntouchedKeeps DEF Inv
<1>4. ASSUME NEW id \in Id, FetchDetail(p, id) PROVE Inv'
  <2>1. PICK e : e = [id |-> id, version |-> version[id]]
    OBVIOUS
  <2>2. e \in Event
    BY <2>1 DEF Inv, TypeOK, Event
  <2>3. fetch' = [fetch EXCEPT ![p] = e]
    BY <1>4, <2>1 DEF FetchDetail
  <2>4. TypeOK'
    BY <1>4, <2>2, <2>3 DEF Inv, TypeOK, FetchDetail, storeVars, sendVars
  <2> QED
    BY <1>1, <2>4, UntouchedKeeps DEF Inv
<1> QED
  BY <1>2, <1>3, <1>4

\* A change waits for its goroutine's last event to be out, so that no loop
\* of that goroutine runs.
LEMMA WriterKeeps ==
    ASSUME Inv, ClearCaptures \/ \E id \in Id : Change(id) PROVE Inv'
<1>1. UNCHANGED <<left, subs>>
  BY DEF ClearCaptures, Change
<1>2. OpenWhileOffered'
  BY <1>1 DEF Inv, OpenWhileOffered
<1>3. ASSUME NEW id \in Id, Change(id) PROVE TypeOK' /\ HasEvent'
  <2>1. TypeOK'
    BY <1>3, ChangeTypes DEF Inv
  <2>2. id \in Goroutine /\ left[id] = << >>
    BY <1>3 DEF Inv, HasEvent, Change, Goroutine
  <2>3. PICK x : outbox' = [outbox EXCEPT ![id] = x]
    BY <1>3 DEF Change
  <2>4. HasEvent'
    BY <1>1, <2>2, <2>3 DEF Inv, TypeOK, HasEvent
  <2> QED
    BY <2>1, <2>4
<1>4. CASE ClearCaptures
  <2>1. TypeOK'
    BY <1>4, ClearTypes DEF Inv
  <2>2. Admin \in Goroutine /\ left[Admin] = << >>
    BY <1>4 DEF Inv, HasEvent, ClearCaptures, Goroutine
  <2>3. HasEvent'
    BY <1>1, <1>4, <2>2 DEF Inv, TypeOK, HasEvent, ClearCaptures
  <2> QED
    BY <1>2, <2>1, <2>3 DEF Inv
<1> QED
  BY <1>2, <1>3, <1>4 DEF Inv

LEMMA NextInv == Inv /\ [Next]_vars => Inv'
<1> SUFFICES ASSUME Inv, [Next]_vars PROVE Inv'
  OBVIOUS
<1>1. CASE ClearCaptures \/ \E id \in Id : Change(id)
  BY <1>1, WriterKeeps
<1>2. ASSUME NEW g \in Goroutine, Send(g) PROVE Inv'
  BY <1>2, SendKeeps
<1>3. ASSUME NEW p \in Page, Handle(p) PROVE Inv'
  BY <1>3, HandleKeeps
<1>4. ASSUME NEW p \in Page, Connect(p) PROVE Inv'
  BY <1>4, ConnectKeeps
<1>5. ASSUME NEW p \in Page, Unsubscribe(p) PROVE Inv'
  BY <1>5, UnsubscribeKeeps
<1>6. ASSUME NEW p \in Page,
             \/ DetailArrives(p)
             \/ \E how \in {"gone", "silent"} : PeerLost(p, how)
             \/ \E id \in Id : FetchDetail(p, id)
      PROVE  Inv'
  BY <1>6, BrowserKeeps
<1>7. CASE UNCHANGED vars
  BY <1>7 DEF vars, Inv, TypeOK, OpenWhileOffered, HasEvent
<1> QED
  BY <1>1, <1>2, <1>3, <1>4, <1>5, <1>6, <1>7 DEF Next

LEMMA SpecInv == Spec => []Inv
BY InitInv, NextInv, PTL DEF Spec

\* Every channel stays within its capacity whatever pages do, and a page
\* only ever holds captures, events and versions of their kinds.
THEOREM TypeCorrect == Spec => []TypeOK
BY SpecInv, PTL DEF Inv

\* Broadcast never sends on a closed channel: while a loop over subscribers
\* is under way, every channel it still has to offer to is open, however
\* pages come and go, because Unsubscribe waits for subsMu.
THEOREM NoSendOnClosed == Spec => []OpenWhileOffered
BY SpecInv, PTL DEF Inv
-----------------------------------------------------------------------------
\* Event e says something of capture id.
Says(e, id) == e = Cleared \/ (e.id = id /\ e.version # 0)

Quiet(q, id) == \A i \in 1 .. Len(q) : ~Says(q[i], id)

\* The last event in q that says something of id says n.
Last(q, id, n) ==
    \A i \in 1 .. Len(q) :
        Says(q[i], id) /\ (\A j \in i + 1 .. Len(q) : ~Says(q[j], id)) => q[i].version = n

\* The event of the last change of id has not been offered to p.
Unsent(p, id) == outbox[id] # << >> /\ (left[id] = << >> \/ p \in Head(left[id]))

\* What p shows of id once it has handled its snapshot and its channel.
Current(p, id) ==
    (/\ handler[p] \in {"subscribed", "snapshot", "loop"} /\ id \notin lost[p]
     /\ id \in stored \ hidden[p] /\ ~Unsent(p, id))
    => /\ Last(queue[p], id, version[id])
       /\ handler[p] = "snapshot" /\ Quiet(queue[p], id) => snap[p][id] = version[id]
       /\ handler[p] = "loop" /\ Quiet(queue[p], id) /\ id \notin late[p]
              => view[p][id] = version[id]

Own(id) ==
    /\ id \in stored => version[id] # 0
    /\ outbox[id] # << >> => /\ Head(outbox[id]).id = id
                             /\ id \in stored => Head(outbox[id]).version = version[id]

Told == outbox[Admin] # << >> => Head(outbox[Admin]) = Cleared

Channel(p) == /\ p \in subs <=> handler[p] # "off"
              /\ p \notin subs => queue[p] = << >>

\* What is fetched was the version of some moment.
Fetched(p) == fetch[p] # NoFetch => /\ fetch[p].id \in Id
                                    /\ fetch[p].version <= version[fetch[p].id]

ViewInv ==
    /\ Inv /\ Told /\ \A id \in Id : Own(id)
    /\ \A p \in Page : /\ Channel(p) /\ Fetched(p)
                       /\ \A id \in Id : Current(p, id)
-----------------------------------------------------------------------------
\* Events in a channel.
LEMMA AppendSays ==
    ASSUME NEW q \in Seq(Event), NEW e \in Event, NEW t, t = Append(q, e), NEW id, NEW n
    PROVE  /\ ~Says(e, id) /\ Last(q, id, n) => Last(t, id, n)
           /\ ~Says(e, id) /\ Quiet(t, id) => Quiet(q, id)
           /\ Says(e, id) /\ e.version = n => Last(t, id, n) /\ ~Quiet(t, id)
<1>1. PICK k : k = Len(q)
  OBVIOUS
<1>2. /\ k \in Nat /\ Len(t) = k + 1 /\ t[k + 1] = e
      /\ \A i \in 1 .. k : t[i] = q[i]
  BY <1>1, AppendProperties, LenProperties
<1>3. ASSUME ~Says(e, id), Last(q, id, n) PROVE Last(t, id, n)
  <2> SUFFICES ASSUME NEW i \in 1 .. k + 1, Says(t[i], id),
                      \A j \in i + 1 .. k + 1 : ~Says(t[j], id)
               PROVE  t[i].version = n
    BY <1>2 DEF Last
  <2>1. i \in 1 .. k
    BY <1>2, <1>3
  <2>2. \A j \in i + 1 .. k : j \in i + 1 .. k + 1 /\ j \in 1 .. k
    BY <1>2, <2>1
  <2>3. \A j \in i + 1 .. k : ~Says(q[j], id)
    BY <1>2, <2>2
  <2>4. Says(q[i], id) /\ t[i] = q[i]
    BY <1>2, <2>1
  <2> QED
    BY <1>1, <1>3, <2>1, <2>3, <2>4 DEF Last
<1>4. ASSUME Quiet(t, id) PROVE Quiet(q, id)
  <2>1. \A i \in 1 .. k : i \in 1 .. k + 1
    BY <1>2
  <2> QED
    BY <1>1, <1>2, <1>4, <2>1 DEF Quiet
<1>5. ASSUME Says(e, id), e.version = n PROVE Last(t, id, n) /\ ~Quiet(t, id)
  <2>1. k + 1 \in 1 .. k + 1
    BY <1>2
  <2>2. ~Quiet(t, id)
    BY <1>2, <1>5, <2>1 DEF Quiet
  <2>3. ASSUME NEW i \in 1 .. k + 1, \A j \in i + 1 .. k + 1 : ~Says(t[j], id)
        PROVE  t[i].version = n
    <3>1. i = k + 1
      <4> SUFFICES ASSUME i # k + 1 PROVE FALSE
        OBVIOUS
      <4>1. k + 1 \in i + 1 .. k + 1
        BY <1>2
      <4> QED
        BY <1>2, <1>5, <2>3, <4>1
    <3> QED
      BY <1>2, <1>5, <3>1
  <2> QED
    BY <1>2, <2>2, <2>3 DEF Last
<1> QED
  BY <1>3, <1>4, <1>5

LEMMA EventParts == \A e \in Event : e.version \in Nat /\ e.version <= MaxVersion
BY DEF Event, Cleared

LEMMA TailSays ==
    ASSUME NEW q \in Seq(Event), q # << >>, NEW t, t = Tail(q), NEW e, e = Head(q), NEW id, NEW n,
           Last(q, id, n)
    PROVE  /\ Last(t, id, n)
           /\ Quiet(t, id) /\ ~Says(e, id) => Quiet(q, id)
           /\ Quiet(t, id) /\ Says(e, id) => e.version = n
<1>1. PICK k : k = Len(q)
  OBVIOUS
<1>2. /\ k \in Nat /\ k # 0 /\ e = q[1] /\ Len(t) = k - 1
      /\ \A i \in 1 .. k - 1 : t[i] = q[i + 1]
  BY <1>1, HeadTailProperties, LenProperties, EmptySeq
<1>3. \A i \in 2 .. k : i - 1 \in 1 .. k - 1 /\ (i - 1) + 1 = i
  BY <1>2
<1>4. \A i \in 2 .. k : q[i] = t[i - 1]
  BY <1>2, <1>3
<1>5. Last(t, id, n)
  <2> SUFFICES ASSUME NEW i \in 1 .. k - 1, Says(t[i], id),
                      \A j \in i + 1 .. k - 1 : ~Says(t[j], id)
               PROVE  t[i].version = n
    BY <1>2 DEF Last
  <2>1. i + 1 \in 1 .. k /\ t[i] = q[i + 1]
    BY <1>2
  <2>2. ASSUME NEW j \in (i + 1) + 1 .. k PROVE ~Says(q[j], id)
    <3>1. j \in 2 .. k /\ j - 1 \in i + 1 .. k - 1
      BY <1>2
    <3> QED
      BY <1>4, <3>1
  <2> QED
    BY <1>1, <2>1, <2>2 DEF Last
<1>6. ASSUME Quiet(t, id) PROVE \A i \in 2 .. k : ~Says(q[i], id)
  BY <1>2, <1>3, <1>4, <1>6 DEF Quiet
<1>7. ASSUME Quiet(t, id), ~Says(e, id) PROVE Quiet(q, id)
  <2>1. \A i \in 1 .. k : i = 1 \/ i \in 2 .. k
    BY <1>2
  <2> QED
    BY <1>1, <1>2, <1>6, <1>7, <2>1 DEF Quiet
<1>8. ASSUME Quiet(t, id), Says(e, id) PROVE e.version = n
  <2>1. 1 \in 1 .. k /\ 1 + 1 = 2
    BY <1>2
  <2> QED
    BY <1>1, <1>2, <1>6, <1>8, <2>1 DEF Last
<1> QED
  BY <1>5, <1>7, <1>8
-----------------------------------------------------------------------------
\* What a step leaves of what page p knows of capture id.
Kept(p, id) ==
    /\ handler'[p] = handler[p] /\ lost'[p] = lost[p] /\ queue'[p] = queue[p]
    /\ snap'[p] = snap[p] /\ view'[p] = view[p] /\ late'[p] = late[p]
    /\ version'[id] = version[id] /\ (Unsent(p, id) => Unsent(p, id)')
    /\ id \in stored' \ hidden'[p] => id \in stored \ hidden[p]

LEMMA KeptStays ==
    ASSUME NEW p, NEW id, Current(p, id), Kept(p, id) PROVE Current(p, id)'
BY DEF Current, Kept

\* The pages whose goroutine does not run.
Aside(p) ==
    /\ handler'[p] = handler[p] /\ lost'[p] = lost[p] /\ queue'[p] = queue[p]
    /\ snap'[p] = snap[p] /\ view'[p] = view[p] /\ late'[p] = late[p]
    /\ hidden'[p] = hidden[p] /\ fetch'[p] = fetch[p] /\ (p \in subs' <=> p \in subs)

\* A step of one page.
LEMMA PageStep ==
    ASSUME ViewInv, Inv', NEW p \in Page, UNCHANGED <<stored, version, outbox, left>>,
           \A q \in Page \ {p} : Aside(q),
           Channel(p)', Fetched(p)', \A id \in Id : Current(p, id)'
    PROVE  ViewInv'
<1>1. Told' /\ \A id \in Id : Own(id)'
  BY DEF ViewInv, Told, Own
<1>2. ASSUME NEW q \in Page, q # p PROVE Channel(q)' /\ Fetched(q)' /\ \A id \in Id : Current(q, id)'
  <2>1. Aside(q)
    BY <1>2
  <2>2. Channel(q)' /\ Fetched(q)'
    BY <2>1 DEF ViewInv, Aside, Channel, Fetched
  <2>3. \A id \in Id : Kept(q, id)
    BY <2>1 DEF Aside, Kept, Unsent
  <2> QED
    BY <2>2, <2>3, KeptStays DEF ViewInv
<1> QED
  BY <1>1, <1>2 DEF ViewInv

\* A step that concerns no channel of p and no version.
LEMMA StillThere ==
    ASSUME NEW p, Channel(p), Fetched(p),
           handler'[p] = handler[p], queue'[p] = queue[p], fetch'[p] = fetch[p], subs' = subs,
           version' = version
    PROVE  Channel(p)' /\ Fetched(p)'
BY DEF Channel, Fetched
-----------------------------------------------------------------------------
\* The writers.
LEMMA ChangeView == ASSUME ViewInv, Inv', NEW c \in Id, Change(c) PROVE ViewInv'
<1>0. /\ TypeOK /\ HasEvent /\ c \in Goroutine
      /\ \A id \in Id : id \in Goroutine /\ id # Admin
  BY DEF ViewInv, Inv, Goroutine
<1>1. PICK v : v = version[c] + 1
  OBVIOUS
<1>2. PICK e : e = [id |-> c, version |-> IF c \in stored' THEN v ELSE 0]
  OBVIOUS
<1>3. /\ outbox[c] = << >> /\ version' = [version EXCEPT ![c] = v] /\ version'[c] = v
      /\ stored' = IF version[c] = 0 THEN stored \cup {c} ELSE stored
      /\ outbox' = [outbox EXCEPT ![c] = <<e>>]
      /\ hidden' = [p \in Page |-> hidden[p] \ {c}]
      /\ UNCHANGED <<left, queue, lost, subs, handler, snap, view, fetch, late>>
  BY <1>0, <1>1, <1>2 DEF Change, pageVars, TypeOK
<1>4. left[c] = << >>
  BY <1>0, <1>3 DEF HasEvent
<1>5. <<e>> # << >> /\ Head(<<e>>) = e /\ e.id = c /\ (c \in stored' => e.version = v)
  BY <1>2
<1>6. version[c] \in Nat /\ v \in Nat /\ v # 0
  BY <1>0, <1>1 DEF TypeOK
<1>7. /\ outbox'[c] = <<e>>
      /\ \A g \in Goroutine \ {c} : outbox'[g] = outbox[g]
      /\ \A id \in Id \ {c} : version'[id] = version[id]
  BY <1>0, <1>3 DEF TypeOK
<1>8. Told'
  BY <1>0, <1>7 DEF ViewInv, Told, Goroutine
<1>9. ASSUME NEW id \in Id PROVE Own(id)'
  <2>1. CASE id = c
    BY <1>3, <1>5, <1>6, <1>7, <2>1 DEF Own
  <2>2. CASE id # c
    BY <1>0, <1>3, <1>7, <2>2 DEF ViewInv, Own
  <2> QED
    BY <2>1, <2>2
<1>10. ASSUME NEW p \in Page PROVE Channel(p)' /\ Fetched(p)'
  <2>1. Channel(p)'
    BY <1>3 DEF ViewInv, Channel
  <2>2. ASSUME fetch[p] # NoFetch PROVE fetch[p].version <= version'[fetch[p].id]
    <3>1. fetch[p].id \in Id /\ fetch[p].version <= version[fetch[p].id]
      BY <2>2 DEF ViewInv, Fetched
    <3>2. CASE fetch[p].id = c
      <4>1. fetch[p].version \in Nat
        BY <1>0, EventParts DEF TypeOK
      <4>2. fetch[p].version <= v
        BY <1>1, <1>6, <3>1, <3>2, <4>1
      <4> QED
        BY <1>3, <3>2, <4>2
    <3>3. CASE fetch[p].id # c
      BY <1>7, <3>1, <3>3
    <3> QED
      BY <3>2, <3>3
  <2>3. Fetched(p)'
    BY <1>3, <2>2 DEF ViewInv, Fetched
  <2> QED
    BY <2>1, <2>3
<1>11. ASSUME NEW p \in Page, NEW id \in Id PROVE Current(p, id)'
  <2>1. CASE id = c
    <3>1. Unsent(p, c)'
      BY <1>3, <1>4, <1>5, <1>7 DEF Unsent
    <3> QED
      BY <2>1, <3>1 DEF Current
  <2>2. CASE id # c
    <3>1. Unsent(p, id)' <=> Unsent(p, id)
      BY <1>0, <1>3, <1>7, <2>2 DEF Unsent
    <3>2. id \in stored' \ hidden'[p] => id \in stored \ hidden[p]
      BY <1>3, <2>2
    <3>3. Kept(p, id)
      BY <1>3, <1>7, <2>2, <3>1, <3>2 DEF Kept
    <3> QED
      BY <3>3, KeptStays DEF ViewInv
  <2> QED
    BY <2>1, <2>2
<1> QED
  BY <1>8, <1>9, <1>10, <1>11 DEF ViewInv

LEMMA ClearView == ASSUME ViewInv, Inv', ClearCaptures PROVE ViewInv'
<1>0. /\ TypeOK /\ Admin \in Goroutine
      /\ \A id \in Id : id \in Goroutine /\ id # Admin
  BY DEF ViewInv, Inv, Goroutine
<1>1. /\ stored' = {} /\ outbox' = [outbox EXCEPT ![Admin] = <<Cleared>>]
      /\ UNCHANGED <<version, left, queue, lost, subs, handler, snap, view, fetch, late>>
  BY DEF ClearCaptures, pageVars
<1>2. outbox'[Admin] = <<Cleared>> /\ Head(<<Cleared>>) = Cleared
      /\ \A id \in Id : outbox'[id] = outbox[id]
  BY <1>0, <1>1 DEF TypeOK
<1>3. Told'
  BY <1>2 DEF Told
<1>4. ASSUME NEW id \in Id PROVE Own(id)'
  BY <1>1, <1>2 DEF ViewInv, Own
<1>5. ASSUME NEW p \in Page PROVE Channel(p)' /\ Fetched(p)'
  BY <1>1, StillThere DEF ViewInv
<1>6. ASSUME NEW p \in Page, NEW id \in Id PROVE Current(p, id)'
  BY <1>1 DEF Current
<1> QED
  BY <1>3, <1>4, <1>5, <1>6 DEF ViewInv

LEMMA StartView ==
    ASSUME ViewInv, Inv', NEW g \in Goroutine, StartBroadcast(g) PROVE ViewInv'
<1>0. TypeOK /\ \A id \in Id : id \in Goroutine
  BY DEF ViewInv, Inv, Goroutine
<1>1. /\ left[g] = << >> /\ outbox[g] # << >> /\ left' = [left EXCEPT ![g] = <<subs>>]
      /\ UNCHANGED <<stored, version, outbox, queue, lost, hidden, subs, handler, snap, view,
                     fetch, late>>
  BY DEF StartBroadcast, BroadcastTo, storeVars, pageVars
<1>2. /\ left'[g] = <<subs>> /\ <<subs>> # << >> /\ Head(<<subs>>) = subs
      /\ \A h \in Goroutine \ {g} : left'[h] = left[h]
  BY <1>0, <1>1 DEF TypeOK
<1>3. Told' /\ \A id \in Id : Own(id)'
  BY <1>1 DEF ViewInv, Told, Own
<1>4. ASSUME NEW p \in Page PROVE Channel(p)' /\ Fetched(p)'
  BY <1>1, StillThere DEF ViewInv
<1>5. ASSUME NEW p \in Page, NEW id \in Id PROVE Current(p, id)'
  <2>1. CASE p \in subs \/ id # g
    <3>1. Unsent(p, id) => Unsent(p, id)'
      BY <1>0, <1>1, <1>2, <2>1 DEF Unsent
    <3>2. Kept(p, id)
      BY <1>1, <3>1 DEF Kept
    <3> QED
      BY <3>2, KeptStays DEF ViewInv
  <2>2. CASE p \notin subs
    BY <1>1, <2>2 DEF ViewInv, Channel, Current
  <2> QED
    BY <2>1, <2>2
<1> QED
  BY <1>3, <1>4, <1>5 DEF ViewInv

LEMMA EndView ==
    ASSUME ViewInv, Inv', NEW g \in Goroutine, EndBroadcast(g) PROVE ViewInv'
<1>0. TypeOK /\ \A id \in Id : id \in Goroutine
  BY DEF ViewInv, Inv, Goroutine
<1>1. /\ left[g] = <<{}>> /\ left' = [left EXCEPT ![g] = << >>]
      /\ outbox' = [outbox EXCEPT ![g] = << >>]
      /\ UNCHANGED <<stored, version, queue, lost, hidden, subs, handler, snap, view, fetch, late>>
  BY DEF EndBroadcast, pageVars
<1>2. /\ outbox'[g] = << >> /\ <<{}>> # << >> /\ Head(<<{}>>) = {}
      /\ \A h \in Goroutine \ {g} : left'[h] = left[h] /\ outbox'[h] = outbox[h]
  BY <1>0, <1>1 DEF TypeOK
<1>3. Told'
  BY <1>0, <1>2 DEF ViewInv, Told, Goroutine
<1>4. ASSUME NEW id \in Id PROVE Own(id)'
  BY <1>0, <1>1, <1>2 DEF ViewInv, Own
<1>5. ASSUME NEW p \in Page PROVE Channel(p)' /\ Fetched(p)'
  BY <1>1, StillThere DEF ViewInv
<1>6. ASSUME NEW p \in Page, NEW id \in Id PROVE Current(p, id)'
  <2>1. Unsent(p, id) => Unsent(p, id)'
    BY <1>0, <1>1, <1>2 DEF Unsent
  <2>2. Kept(p, id)
    BY <1>1, <2>1 DEF Kept
  <2> QED
    BY <2>2, KeptStays DEF ViewInv
<1> QED
  BY <1>3, <1>4, <1>5, <1>6 DEF ViewInv
-----------------------------------------------------------------------------
\* One turn of the loop: the page offered to has the event in its channel,
\* or has lost it; what the event says is the last version of its capture.
LEMMA OfferView ==
    ASSUME ViewInv, Inv', NEW g \in Goroutine, NEW p \in Page, Offer(g, p) PROVE ViewInv'
<1>0. TypeOK /\ HasEvent /\ OpenWhileOffered /\ \A id \in Id : id \in Goroutine /\ id # Admin
  BY DEF ViewInv, Inv, Goroutine
<1>1. /\ left[g] # << >> /\ p \in Head(left[g])
      /\ UNCHANGED <<stored, version, outbox, subs, handler, snap, view, fetch, late>>
  BY DEF Offer, Turn, storeVars, pageVars
<1>2. PICK ps : ps = Head(left[g]) \ {p}
  OBVIOUS
<1>3. left' = [left EXCEPT ![g] = <<ps>>] /\ Head(<<ps>>) = ps /\ <<ps>> # << >>
  BY <1>2 DEF Offer, Turn
<1>4. left'[g] = <<ps>> /\ \A h \in Goroutine \ {g} : left'[h] = left[h]
  BY <1>0, <1>3 DEF TypeOK
<1>5. outbox[g] # << >>
  BY <1>0, <1>1 DEF HasEvent
<1>6. PICK e \in Event : outbox[g] = <<e>>
  BY <1>0, <1>5 DEF TypeOK
<1>7. Head(outbox[g]) = e
  BY <1>6
<1>8. PICK q : q = queue[p]
  OBVIOUS
<1>9. PICK t : t = Append(q, e)
  OBVIOUS
<1>10. q \in Seq(Event)
  BY <1>0, <1>8 DEF TypeOK
<1>11. \/ /\ queue' = [queue EXCEPT ![p] = t] /\ lost' = [lost EXCEPT ![p] = @ \ {g}]
          /\ hidden' = IF g = Admin THEN [hidden EXCEPT ![p] = stored] ELSE hidden
       \/ lost' = [lost EXCEPT ![p] = @ \cup {g}] /\ queue' = queue /\ hidden' = hidden
  BY <1>7, <1>8, <1>9 DEF Offer, Enqueue
<1>12. \A r \in Page \ {p} : queue'[r] = queue[r] /\ lost'[r] = lost[r] /\ hidden'[r] = hidden[r]
  BY <1>0, <1>11 DEF TypeOK
<1>13. \/ /\ queue'[p] = t /\ lost'[p] = lost[p] \ {g}
          /\ (g = Admin => hidden'[p] = stored) /\ (g # Admin => hidden' = hidden)
       \/ lost'[p] = lost[p] \cup {g} /\ queue'[p] = queue[p] /\ hidden' = hidden
  BY <1>0, <1>11 DEF TypeOK
<1>14. Told' /\ \A id \in Id : Own(id)'
  BY <1>1 DEF ViewInv, Told, Own
<1>15. p \in subs
  BY <1>0, <1>1 DEF OpenWhileOffered
<1>16. ASSUME NEW r \in Page PROVE Channel(r)' /\ Fetched(r)'
  <2>1. CASE r = p
    BY <1>1, <1>15, <2>1 DEF ViewInv, Channel, Fetched
  <2>2. CASE r # p
    BY <1>1, <1>12, <2>2, StillThere DEF ViewInv
  <2> QED
    BY <2>1, <2>2
<1>17. ASSUME NEW r \in Page, r # p, NEW id \in Id PROVE Current(r, id)'
  <2>1. Unsent(r, id) => Unsent(r, id)'
    BY <1>0, <1>1, <1>2, <1>3, <1>4, <1>17 DEF Unsent
  <2>2. Kept(r, id)
    BY <1>1, <1>12, <1>17, <2>1 DEF Kept
  <2> QED
    BY <2>2, KeptStays DEF ViewInv
<1>18. ASSUME NEW id \in Id PROVE Current(p, id)'
  <2>1. CASE id \in lost'[p]
    BY <2>1 DEF Current
  <2>2. CASE g = Admin /\ queue'[p] = t /\ hidden'[p] = stored
    BY <1>1, <2>2 DEF Current
  <2>5. CASE queue'[p] = queue[p] /\ hidden' = hidden /\ lost'[p] = lost[p] \cup {g} /\ g # id
    <3>1. Unsent(p, id)' <=> Unsent(p, id)
      BY <1>0, <1>1, <1>4, <2>5 DEF Unsent
    <3>2. Current(p, id)
      BY DEF ViewInv
    <3> QED
      BY <1>1, <2>5, <3>1, <3>2 DEF Current
  <2>3. CASE g = id /\ queue'[p] = t
    <3>1. id \in stored => e.version = version[id] /\ version[id] # 0
      BY <1>5, <1>7, <2>3 DEF ViewInv, Own
    <3>2. e.id = id
      BY <1>5, <1>7, <2>3 DEF ViewInv, Own
    <3>3. ASSUME id \in stored PROVE Last(t, id, version[id]) /\ ~Quiet(t, id)
      <4>1. Says(e, id) /\ e.version = version[id]
        BY <3>1, <3>2, <3>3 DEF Says
      <4> QED
        BY <1>9, <1>10, <4>1, AppendSays
    <3> QED
      BY <1>1, <2>3, <3>3 DEF Current
  <2>4. CASE g # Admin /\ g # id /\ queue'[p] = t /\ lost'[p] = lost[p] \ {g} /\ hidden' = hidden
    <3>1. g \in Id /\ e.id = g /\ Cleared.id = Admin
      BY <1>5, <1>7, <2>4 DEF ViewInv, Own, Goroutine, Cleared
    <3>2. ~Says(e, id)
      BY <1>0, <2>4, <3>1 DEF Says
    <3>3. queue'[p] = t /\ (id \in lost'[p] <=> id \in lost[p]) /\ hidden'[p] = hidden[p]
      BY <2>4
    <3>4. Unsent(p, id)' <=> Unsent(p, id)
      BY <1>0, <1>1, <1>4, <2>4 DEF Unsent
    <3>5. PICK n : n = version[id]
      OBVIOUS
    <3>6. (Last(q, id, n) => Last(t, id, n)) /\ (Quiet(t, id) => Quiet(q, id))
      BY <1>9, <1>10, <3>2, AppendSays
    <3>7. Current(p, id)
      BY DEF ViewInv
    <3> QED
      BY <1>1, <1>8, <3>3, <3>4, <3>5, <3>6, <3>7 DEF Current
  <2> QED
    BY <1>13, <2>1, <2>2, <2>3, <2>4, <2>5
<1> QED
  BY <1>14, <1>16, <1>17, <1>18 DEF ViewInv

-----------------------------------------------------------------------------
\* The page's goroutine.  A page that leaves has nothing left to show.
LEMMA ConnectView ==
    ASSUME ViewInv, Inv', NEW p \in Page, Connect(p) PROVE ViewInv'
<1>0. TypeOK
  BY DEF ViewInv, Inv
<1>1. /\ subs' = subs \cup {p} /\ handler[p] = "off"
      /\ handler' = [handler EXCEPT ![p] = "subscribed"]
      /\ UNCHANGED <<stored, version, outbox, left, queue, lost, hidden, snap, view, fetch, late>>
  BY DEF Connect, storeVars, sendVars, pageVars
<1>2. handler'[p] = "subscribed" /\ \A r \in Page \ {p} : handler'[r] = handler[r]
  BY <1>0, <1>1 DEF TypeOK
<1>3. \A r \in Page \ {p} : Aside(r)
  BY <1>1, <1>2 DEF Aside
<1>4. Channel(p)' /\ Fetched(p)'
  BY <1>1, <1>2 DEF ViewInv, Channel, Fetched
<1>5. ASSUME NEW id \in Id PROVE Current(p, id)'
  <2>1. queue'[p] = << >> /\ Len(<< >>) = 0
    BY <1>1 DEF ViewInv, Channel
  <2>2. Last(queue'[p], id, version'[id])
    BY <2>1 DEF Last
  <2> QED
    BY <1>2, <2>2 DEF Current
<1> QED
  BY <1>1, <1>3, <1>4, <1>5, PageStep

LEMMA BuildView ==
    ASSUME ViewInv, Inv', NEW p \in Page, BuildSnapshot(p) PROVE ViewInv'
<1>0. TypeOK
  BY DEF ViewInv, Inv
<1>1. PICK s : s = [id \in Id |-> IF id \in stored THEN version[id] ELSE 0]
  OBVIOUS
<1>2. /\ handler[p] = "subscribed" /\ snap' = [snap EXCEPT ![p] = s]
      /\ handler' = [handler EXCEPT ![p] = "snapshot"]
      /\ UNCHANGED <<stored, version, outbox, left, queue, lost, hidden, subs, view, fetch, late>>
  BY <1>1 DEF BuildSnapshot, storeVars, sendVars
<1>3. /\ handler'[p] = "snapshot" /\ snap'[p] = s
      /\ \A r \in Page \ {p} : handler'[r] = handler[r] /\ snap'[r] = snap[r]
  BY <1>0, <1>2 DEF TypeOK
<1>4. \A r \in Page \ {p} : Aside(r)
  BY <1>2, <1>3 DEF Aside
<1>5. Channel(p)' /\ Fetched(p)'
  BY <1>2, <1>3 DEF ViewInv, Channel, Fetched
<1>6. ASSUME NEW id \in Id PROVE Current(p, id)'
  <2>1. id \in stored => s[id] = version[id]
    BY <1>1
  <2>2. Current(p, id)
    BY DEF ViewInv
  <2>3. Unsent(p, id)' <=> Unsent(p, id)
    BY <1>2 DEF Unsent
  <2> QED
    BY <1>2, <1>3, <2>1, <2>2, <2>3 DEF Current
<1> QED
  BY <1>2, <1>4, <1>5, <1>6, PageStep

LEMMA SnapshotView ==
    ASSUME ViewInv, Inv', NEW p \in Page, SendSnapshot(p) PROVE ViewInv'
<1>0. TypeOK
  BY DEF ViewInv, Inv
<1>1. /\ handler[p] = "snapshot" /\ view' = [view EXCEPT ![p] = snap[p]]
      /\ late' = [late EXCEPT ![p] = {}] /\ snap' = [snap EXCEPT ![p] = Nothing]
      /\ handler' = [handler EXCEPT ![p] = "loop"]
      /\ UNCHANGED <<stored, version, outbox, left, queue, lost, hidden, subs, fetch>>
  BY DEF SendSnapshot, storeVars, sendVars
<1>2. /\ handler'[p] = "loop" /\ view'[p] = snap[p]
      /\ \A r \in Page \ {p} : /\ handler'[r] = handler[r] /\ snap'[r] = snap[r]
                               /\ view'[r] = view[r] /\ late'[r] = late[r]
  BY <1>0, <1>1 DEF TypeOK
<1>3. \A r \in Page \ {p} : Aside(r)
  BY <1>1, <1>2 DEF Aside
<1>4. Channel(p)' /\ Fetched(p)'
  BY <1>1, <1>2 DEF ViewInv, Channel, Fetched
<1>5. ASSUME NEW id \in Id PROVE Current(p, id)'
  <2>1. Current(p, id)
    BY DEF ViewInv
  <2>2. Unsent(p, id)' <=> Unsent(p, id)
    BY <1>1 DEF Unsent
  <2> QED
    BY <1>1, <1>2, <2>1, <2>2 DEF Current
<1> QED
  BY <1>1, <1>3, <1>4, <1>5, PageStep

LEMMA EventView ==
    ASSUME ViewInv, Inv', NEW p \in Page, SendEvent(p) PROVE ViewInv'
<1>0. TypeOK
  BY DEF ViewInv, Inv
<1>1. PICK q : q = queue[p]
  OBVIOUS
<1>2. PICK e : e = Head(q)
  OBVIOUS
<1>3. PICK t : t = Tail(q)
  OBVIOUS
<1>4. PICK v : v = Shown(view[p], e)
  OBVIOUS
<1>5. PICK l : l = IF e = Cleared THEN {} ELSE IF e.version = 0 THEN late[p] ELSE late[p] \ {e.id}
  OBVIOUS
<1>6. /\ handler[p] = "loop" /\ q # << >> /\ q \in Seq(Event)
      /\ view' = [view EXCEPT ![p] = v] /\ late' = [late EXCEPT ![p] = l]
      /\ queue' = [queue EXCEPT ![p] = t]
      /\ UNCHANGED <<stored, version, outbox, left, lost, hidden, subs, handler, snap, fetch>>
  BY <1>0, <1>1, <1>2, <1>3, <1>4, <1>5 DEF SendEvent, storeVars, TypeOK
<1>7. /\ view'[p] = v /\ late'[p] = l /\ queue'[p] = t
      /\ \A r \in Page \ {p} : view'[r] = view[r] /\ late'[r] = late[r] /\ queue'[r] = queue[r]
  BY <1>0, <1>6 DEF TypeOK
<1>8. \A r \in Page \ {p} : Aside(r)
  BY <1>6, <1>7 DEF Aside
<1>9. Channel(p)
  BY DEF ViewInv
<1>10. Channel(p)' /\ Fetched(p)'
  <2>1. p \in subs
    BY <1>6, <1>9 DEF Channel
  <2> QED
    BY <1>6, <1>9, <2>1 DEF ViewInv, Channel, Fetched
<1>11. e \in Event
  BY <1>2, <1>6, HeadTailProperties
<1>12. ASSUME NEW id \in Id PROVE Current(p, id)'
  <2> SUFFICES ASSUME id \notin lost[p], id \in stored \ hidden[p], ~Unsent(p, id)
               PROVE  /\ Last(t, id, version[id])
                      /\ Quiet(t, id) /\ id \notin l => v[id] = version[id]
    <3>1. Unsent(p, id)' <=> Unsent(p, id)
      BY <1>6 DEF Unsent
    <3> QED
      BY <1>6, <1>7, <3>1 DEF Current
  <2>1. PICK n : n = version[id]
    OBVIOUS
  <2>2. n # 0
    BY <2>1 DEF ViewInv, Own
  <2>3. /\ Last(q, id, n)
        /\ Quiet(q, id) /\ id \notin late[p] => view[p][id] = n
    BY <1>1, <1>6, <2>1 DEF ViewInv, Current
  <2>4. /\ Last(t, id, n)
        /\ Quiet(t, id) /\ ~Says(e, id) => Quiet(q, id)
        /\ Quiet(t, id) /\ Says(e, id) => e.version = n
    BY <1>2, <1>3, <1>6, <2>3, TailSays
  <2>5. ASSUME Quiet(t, id), id \notin l, ~Says(e, id) PROVE v[id] = n
    <3>1. e # Cleared /\ (e.id # id \/ e.version = 0)
      BY <2>5 DEF Says
    <3>2. id \notin late[p]
      BY <1>5, <2>5, <3>1
    <3>3. v[id] = view[p][id]
      BY <1>0, <1>4, <3>1 DEF Shown, TypeOK
    <3> QED
      BY <2>3, <2>4, <2>5, <3>2, <3>3
  <2>6. ASSUME Quiet(t, id), Says(e, id) PROVE v[id] = n
    <3>1. e.version = n /\ Cleared.version = 0
      BY <2>4, <2>6 DEF Cleared
    <3>2. e # Cleared /\ e.id = id /\ e.version # 0
      BY <2>2, <2>6, <3>1 DEF Says
    <3>3. view[p] \in [Id -> 0 .. MaxVersion]
      BY <1>0 DEF TypeOK
    <3> QED
      BY <1>4, <3>1, <3>2, <3>3 DEF Shown
  <2> QED
    BY <2>1, <2>4, <2>5, <2>6
<1> QED
  BY <1>6, <1>8, <1>10, <1>12, PageStep

LEMMA LeaveView ==
    ASSUME ViewInv, Inv', NEW p \in Page,
           SnapshotFails(p) \/ EventFails(p) \/ HeartbeatFails(p) \/ ContextDone(p)
    PROVE  ViewInv'
<1>0. TypeOK
  BY DEF ViewInv, Inv
<1>1. /\ handler[p] # "off" /\ handler' = [handler EXCEPT ![p] = "leaving"]
      /\ queue' = queue \/ queue' = [queue EXCEPT ![p] = Tail(@)]
      /\ UNCHANGED <<stored, version, outbox, left, lost, hidden, subs, snap, view, fetch, late>>
  BY DEF SnapshotFails, EventFails, HeartbeatFails, ContextDone, Leave, storeVars, sendVars, pageVars
<1>2. /\ handler'[p] = "leaving"
      /\ \A r \in Page \ {p} : handler'[r] = handler[r] /\ queue'[r] = queue[r]
  BY <1>0, <1>1 DEF TypeOK
<1>3. \A r \in Page \ {p} : Aside(r)
  BY <1>1, <1>2 DEF Aside
<1>4. Channel(p)' /\ Fetched(p)'
  BY <1>1, <1>2 DEF ViewInv, Channel, Fetched
<1>5. \A id \in Id : Current(p, id)'
  BY <1>2 DEF Current
<1> QED
  BY <1>1, <1>3, <1>4, <1>5, PageStep

LEMMA UnsubscribeView ==
    ASSUME ViewInv, Inv', NEW p \in Page, Unsubscribe(p) PROVE ViewInv'
<1>0. TypeOK
  BY DEF ViewInv, Inv
<1>1. /\ subs' = subs \ {p} /\ queue' = [queue EXCEPT ![p] = << >>]
      /\ lost' = [lost EXCEPT ![p] = {}] /\ hidden' = [hidden EXCEPT ![p] = {}]
      /\ snap' = [snap EXCEPT ![p] = Nothing] /\ handler' = [handler EXCEPT ![p] = "off"]
      /\ UNCHANGED <<stored, version, outbox, left, view, fetch, late>>
  BY DEF Unsubscribe, Close, storeVars
<1>2. /\ handler'[p] = "off" /\ queue'[p] = << >>
      /\ \A r \in Page \ {p} : /\ handler'[r] = handler[r] /\ queue'[r] = queue[r]
                               /\ lost'[r] = lost[r] /\ hidden'[r] = hidden[r]
                               /\ snap'[r] = snap[r]
  BY <1>0, <1>1 DEF TypeOK
<1>3. \A r \in Page \ {p} : Aside(r)
  BY <1>1, <1>2 DEF Aside
<1>4. Channel(p)' /\ Fetched(p)'
  BY <1>1, <1>2 DEF ViewInv, Channel, Fetched
<1>5. \A id \in Id : Current(p, id)'
  BY <1>2 DEF Current
<1> QED
  BY <1>1, <1>3, <1>4, <1>5, PageStep

\* The browser: an answer that shows an older version than the page had is
\* late, and one that shows a newer version than it had cannot be.
LEMMA LostView ==
    ASSUME ViewInv, Inv', NEW p \in Page, NEW how, PeerLost(p, how) PROVE ViewInv'
<1>1. UNCHANGED <<stored, version, outbox, left, queue, lost, hidden, subs, handler, snap, view,
                  fetch, late>>
  BY DEF PeerLost, storeVars, sendVars, pageVars
<1>2. \A r \in Page : Aside(r)
  BY <1>1 DEF Aside
<1>3. Channel(p)' /\ Fetched(p)'
  BY <1>1 DEF ViewInv, Channel, Fetched
<1>4. \A id \in Id : Kept(p, id)
  BY <1>1 DEF Kept, Unsent
<1>5. \A id \in Id : Current(p, id)'
  BY <1>4, KeptStays DEF ViewInv
<1> QED
  BY <1>1, <1>2, <1>3, <1>5, PageStep

LEMMA FetchView ==
    ASSUME ViewInv, Inv', NEW p \in Page, NEW c \in Id, FetchDetail(p, c) PROVE ViewInv'
<1>0. TypeOK
  BY DEF ViewInv, Inv
<1>1. PICK f : f = [id |-> c, version |-> version[c]]
  OBVIOUS
<1>2. /\ fetch' = [fetch EXCEPT ![p] = f]
      /\ UNCHANGED <<stored, version, outbox, left, queue, lost, hidden, subs, handler, snap, view,
                     late>>
  BY <1>1 DEF FetchDetail, storeVars, sendVars
<1>3. fetch'[p] = f /\ \A r \in Page \ {p} : fetch'[r] = fetch[r]
  BY <1>0, <1>2 DEF TypeOK
<1>4. \A r \in Page \ {p} : Aside(r)
  BY <1>2, <1>3 DEF Aside
<1>5. f.id = c /\ f.version = version[c] /\ version[c] <= version[c]
  BY <1>0, <1>1 DEF TypeOK
<1>6. Channel(p)' /\ Fetched(p)'
  BY <1>2, <1>3, <1>5 DEF ViewInv, Channel, Fetched
<1>7. \A id \in Id : Kept(p, id)
  BY <1>2 DEF Kept, Unsent
<1>8. \A id \in Id : Current(p, id)'
  BY <1>7, KeptStays DEF ViewInv
<1> QED
  BY <1>2, <1>4, <1>6, <1>8, PageStep

LEMMA ArrivesView ==
    ASSUME ViewInv, Inv', NEW p \in Page, DetailArrives(p) PROVE ViewInv'
<1>0. TypeOK
  BY DEF ViewInv, Inv
<1>1. PICK c : c = fetch[p].id
  OBVIOUS
<1>2. PICK n : n = fetch[p].version
  OBVIOUS
<1>3. PICK w : w = [view[p] EXCEPT ![c] = n]
  OBVIOUS
<1>4. PICK l : l = IF n < view[p][c] THEN late[p] \cup {c} ELSE late[p]
  OBVIOUS
<1>5. /\ fetch[p] # NoFetch /\ view' = [view EXCEPT ![p] = w] /\ late' = [late EXCEPT ![p] = l]
      /\ fetch' = [fetch EXCEPT ![p] = NoFetch]
      /\ UNCHANGED <<stored, version, outbox, left, queue, lost, hidden, subs, handler, snap>>
  BY <1>1, <1>2, <1>3, <1>4 DEF DetailArrives, storeVars, sendVars
<1>6. /\ view'[p] = w /\ late'[p] = l /\ fetch'[p] = NoFetch
      /\ \A r \in Page \ {p} : view'[r] = view[r] /\ late'[r] = late[r] /\ fetch'[r] = fetch[r]
  BY <1>0, <1>5 DEF TypeOK
<1>7. \A r \in Page \ {p} : Aside(r)
  BY <1>5, <1>6 DEF Aside
<1>8. Channel(p)' /\ Fetched(p)'
  BY <1>5, <1>6 DEF ViewInv, Channel, Fetched
<1>9. c \in Id /\ n <= version[c] /\ n \in Nat
  <2>1. c \in Id /\ n <= version[c]
    BY <1>1, <1>2, <1>5 DEF ViewInv, Fetched
  <2>2. fetch[p] \in Event
    BY <1>0 DEF TypeOK
  <2> QED
    BY <1>2, <2>1, <2>2, EventParts
<1>10. view[p] \in [Id -> 0 .. MaxVersion] /\ version[c] \in Nat
  BY <1>0, <1>9 DEF TypeOK
<1>11. w[c] = n /\ (\A id \in Id \ {c} : w[id] = view[p][id]) /\ view[p][c] \in Nat
  BY <1>3, <1>9, <1>10
<1>12. ASSUME NEW id \in Id, id \notin l, view[p][id] = version[id] PROVE w[id] = version[id]
  <2>1. CASE id = c
    <3>1. ~(n < view[p][c])
      BY <1>4, <1>12, <2>1
    <3>2. n = version[c]
      BY <1>9, <1>10, <1>11, <1>12, <2>1, <3>1
    <3> QED
      BY <1>11, <2>1, <3>2
  <2>2. CASE id # c
    BY <1>11, <1>12, <2>2
  <2> QED
    BY <2>1, <2>2
<1>13. ASSUME NEW id \in Id PROVE Current(p, id)'
  <2>1. Current(p, id)
    BY DEF ViewInv
  <2>2. Unsent(p, id)' <=> Unsent(p, id)
    BY <1>5 DEF Unsent
  <2>3. id \notin l => id \notin late[p]
    BY <1>4
  <2> QED
    BY <1>5, <1>6, <1>12, <2>1, <2>2, <2>3 DEF Current
<1> QED
  BY <1>5, <1>7, <1>8, <1>13, PageStep

-----------------------------------------------------------------------------
LEMMA InitView == Init => ViewInv
<1> SUFFICES ASSUME Init PROVE ViewInv
  OBVIOUS
<1>1. Admin \in Goroutine /\ \A id \in Id : id \in Goroutine
  BY DEF Goroutine
<1>2. Told /\ \A id \in Id : Own(id)
  BY <1>1 DEF Init, Told, Own
<1>3. \A p \in Page : Channel(p) /\ Fetched(p)
  BY DEF Init, Channel, Fetched
<1>4. \A p \in Page : \A id \in Id : Current(p, id)
  BY DEF Init, Current
<1> QED
  BY <1>2, <1>3, <1>4, InitInv DEF ViewInv

LEMMA NextView == ViewInv /\ [Next]_vars => ViewInv'
<1> SUFFICES ASSUME ViewInv, [Next]_vars PROVE ViewInv'
  OBVIOUS
<1>1. Inv'
  BY NextInv DEF ViewInv
<1>2. ASSUME NEW id \in Id, Change(id) PROVE ViewInv'
  BY <1>1, <1>2, ChangeView
<1>3. CASE ClearCaptures
  BY <1>1, <1>3, ClearView
<1>4. ASSUME NEW g \in Goroutine, Send(g) PROVE ViewInv'
  BY <1>1, <1>4, StartView, EndView, OfferView DEF Send
<1>5. ASSUME NEW p \in Page, Handle(p) PROVE ViewInv'
  BY <1>1, <1>5, BuildView, SnapshotView, EventView, LeaveView DEF Handle
<1>6. ASSUME NEW p \in Page, Connect(p) \/ Unsubscribe(p) \/ DetailArrives(p) PROVE ViewInv'
  BY <1>1, <1>6, ConnectView, UnsubscribeView, ArrivesView
<1>7. ASSUME NEW p \in Page, NEW how \in {"gone", "silent"}, PeerLost(p, how) PROVE ViewInv'
  BY <1>1, <1>7, LostView
<1>8. ASSUME NEW p \in Page, NEW id \in Id, FetchDetail(p, id) PROVE ViewInv'
  BY <1>1, <1>8, FetchView
<1>9. CASE UNCHANGED vars
  <2>1. UNCHANGED <<stored, version, outbox, left, queue, lost, hidden, subs, handler, snap, view,
                    fetch, late>>
    BY <1>9 DEF vars
  <2>2. Told' /\ \A id \in Id : Own(id)'
    BY <2>1 DEF ViewInv, Told, Own
  <2>3. \A p \in Page : Channel(p)' /\ Fetched(p)'
    BY <2>1 DEF ViewInv, Channel, Fetched
  <2>4. \A p \in Page, id \in Id : Kept(p, id)
    BY <2>1 DEF Kept, Unsent
  <2>5. \A p \in Page, id \in Id : Current(p, id)'
    BY <2>4, KeptStays DEF ViewInv
  <2> QED
    BY <1>1, <2>2, <2>3, <2>5 DEF ViewInv
<1> QED
  BY <1>2, <1>3, <1>4, <1>5, <1>6, <1>7, <1>8, <1>9 DEF Next

\* Nothing is on its way to a page that has settled.
LEMMA SettledView == ViewInv => ViewSettles
<1> SUFFICES ASSUME ViewInv, NEW p \in Page, Settled(p),
                    NEW id \in stored \ (lost[p] \cup hidden[p] \cup late[p])
             PROVE  view[p][id] = version[id]
  BY DEF ViewSettles
<1>1. id \in Id /\ id \in Goroutine
  BY DEF ViewInv, Inv, TypeOK, Goroutine
<1>2. handler[p] = "loop" /\ id \notin lost[p] /\ queue[p] = << >> /\ outbox[id] = << >>
  BY <1>1 DEF Settled
<1>3. Quiet(queue[p], id)
  <2>1. Len(<< >>) = 0 /\ 1 .. 0 = {}
    OBVIOUS
  <2> QED
    BY <1>2, <2>1 DEF Quiet
<1>4. ~Unsent(p, id)
  BY <1>2 DEF Unsent
<1> QED
  BY <1>1, <1>2, <1>3, <1>4 DEF ViewInv, Current

\* Between the snapshot and the events no change falls through, for any pages,
\* captures, versions and capacity: Subscribe comes before SnapshotAllSummaries
\* (api.go, 278-281), so a change that the snapshot lacks is one whose event
\* is still to come or already in the channel.
THEOREM ViewComplete == Spec => []ViewSettles
<1>1. Spec => []ViewInv
  BY InitView, NextView, PTL DEF Spec
<1> QED
  BY <1>1, SettledView, PTL
=============================================================================
