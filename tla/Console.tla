------------------------------- MODULE Console ------------------------------
(***************************************************************************)
(* The operator's side of the intercept gate: the dialog of the web page   *)
(* and its queue (internal/web/static/app.js), fed by the events and       *)
(* snapshots of GET /events and by the details it fetches.  There is one   *)
(* page with a dialog; other pages and curl decide as well (OtherDecides). *)
(* How a request is recorded and announced is in Gate, how Decide and      *)
(* Await meet in Intercept, how events travel in Events.  Here an update   *)
(* and its event are one step, and so is the end of a pause: what the      *)
(* proxy does between taking the decision and the next status of the       *)
(* capture (an update that still reads intercepted) is left out.  An event *)
(* with a null payload, which the page ignores, is not sent.  Requests     *)
(* have a body.                                                            *)
(***************************************************************************)
EXTENDS SequencesExt

CONSTANTS Request,         \* requests that are paused, numbered as they arrive
          None,
          MaxTrouble,      \* bound of the run: connections lost, and buttons
                           \* pressed before the last reply came
          MaxPosts,        \* bound of the run: posts without a reply
          MaxEvents,       \* events on their way to the page (128 in its channel)
          MaxFetches       \* bound of the run: details on their way to the page

ASSUME ConsoleAssumption ==
    /\ Request \subseteq Nat /\ None \notin Request
    /\ {MaxTrouble, MaxPosts, MaxFetches} \subseteq Nat
    /\ MaxEvents \in Nat \ {0}    \* a snapshot must fit

VARIABLES pause,       \* pause[r]: "new", "added" (to the store), "announced",
                       \* "waiting" (in Await), "decided" (a decision is in the
                       \* channel, or taken) or "over"
          stored,      \* the captures in the store
          connected,   \* the event stream of the page is up
          events,      \* what is on its way to the page
          view,        \* view[r]: the status in state.captures, or "absent"
          loaded,      \* state.fullyLoaded: the captures held with their body
          fetched,     \* fetched[r]: "none", "asked", or the status that
                       \* GET /admin/captures/r has read and not delivered
          dialog,      \* state.interceptModalFor
          waitq,       \* state.interceptQueue
          posts,       \* the page's posts that wait for their reply
          owed,        \* history: pauses announced to the page that none of
                       \* the exceptions of NeverForgotten has met
          hasty,       \* history: a button was pressed before the last reply
                       \* came, and not all of these have come since
          trouble      \* counts what MaxTrouble bounds

serverVars == <<pause, stored, connected, events>>
listVars == <<view, loaded, fetched>>
dialogVars == <<dialog, waitq, owed>>
postVars == <<posts, hasty, trouble>>
vars == <<serverVars, listVars, dialogVars, postVars>>

Nothing == [r \in Request |-> "absent"]
NoFetch == [r \in Request |-> "none"]

Init ==
    /\ pause = [r \in Request |-> "new"]
    /\ stored = {}
    /\ connected = TRUE /\ events = << >>
    /\ view = Nothing /\ loaded = {} /\ fetched = NoFetch
    /\ dialog = None /\ waitq = << >> /\ owed = {}
    /\ posts = << >> /\ hasty = FALSE /\ trouble = 0

-----------------------------------------------------------------------------
\* store.Broadcast, as far as the page is concerned: the event is dropped
\* when the channel of the page is full.
Send(what, payload) ==
    events' = IF connected /\ Len(events) < MaxEvents
              THEN Append(events, [what |-> what, payload |-> payload]) ELSE events

\* Proxy.ServeHTTP, 95-100: the capture is added, pending.
Add(r) ==
    /\ pause[r] = "new" /\ \A q \in Request : q < r => pause[q] # "new"
    /\ pause' = [pause EXCEPT ![r] = "added"]
    /\ stored' = stored \cup {r}
    /\ Send("started", r)
    /\ UNCHANGED <<connected, listVars, dialogVars, postVars>>

\* 115-118: marked as intercepted, and announced as such.
Announce(r) ==
    /\ pause[r] = "added" /\ pause' = [pause EXCEPT ![r] = "announced"]
    /\ IF r \in stored THEN Send("intercepted", r) ELSE UNCHANGED events
    /\ UNCHANGED <<stored, connected, listVars, dialogVars, postVars>>

\* Await, 90-93
Register(r) ==
    /\ pause[r] = "announced" /\ pause' = [pause EXCEPT ![r] = "waiting"]
    /\ UNCHANGED <<stored, connected, events, listVars, dialogVars, postVars>>

\* Another page or curl decides first.
OtherDecides(r) ==
    /\ pause[r] = "waiting" /\ pause' = [pause EXCEPT ![r] = "decided"]
    /\ UNCHANGED <<stored, connected, events, listVars, dialogVars, postVars>>

\* The pause ends with the decision, or without one when the client has
\* gone; the status of the capture changes and the event says so.
EndPause(r) ==
    /\ pause[r] \in {"waiting", "decided"} /\ pause' = [pause EXCEPT ![r] = "over"]
    /\ IF r \in stored THEN Send("updated", r) ELSE UNCHANGED events
    /\ UNCHANGED <<stored, connected, listVars, dialogVars, postVars>>

\* handleClear
ClearCaptures ==
    /\ stored # {} /\ stored' = {}
    /\ Send("cleared", None)
    /\ UNCHANGED <<pause, connected, listVars, dialogVars, postVars>>

\* Store.Add of a later request, at the limit: the oldest capture goes,
\* without an event.
Evict(r) ==
    /\ r \in stored /\ \A q \in stored : r <= q
    /\ stored' = stored \ {r}
    /\ UNCHANGED <<pause, connected, events, listVars, dialogVars, postVars>>

\* What the store has of a request.
Status(r) ==
    IF r \notin stored THEN "absent"
    ELSE IF pause[r] = "over" THEN "over"
    ELSE IF pause[r] = "added" THEN "pending" ELSE "paused"

-----------------------------------------------------------------------------
\* The stream breaks off, and what was on its way is lost.
Disconnect ==
    /\ connected /\ connected' = FALSE /\ events' = << >>
    /\ trouble < MaxTrouble /\ trouble' = trouble + 1
    /\ UNCHANGED <<pause, stored, listVars, dialogVars, posts, hasty>>

\* The EventSource reconnects and gets the snapshot.
Reconnect ==
    /\ ~connected /\ connected' = TRUE
    /\ events' = <<[what |-> "snapshot", payload |-> [r \in Request |-> Status(r)]]>>
    /\ UNCHANGED <<pause, stored, listVars, dialogVars, postVars>>

\* The page is loaded anew; nobody waits for the replies to the old one.
Reload ==
    /\ ~connected
    /\ view' = Nothing /\ loaded' = {} /\ fetched' = NoFetch
    /\ dialog' = None /\ waitq' = << >> /\ owed' = {}
    /\ posts' = << >> /\ hasty' = FALSE
    /\ UNCHANGED <<serverVars, trouble>>

\* selectCapture of a capture without its body: ensureFullCapture asks for
\* it.  A snapshot or a clear forgets that, and the page may ask again: the
\* second question while the first is open is left out.
SelectCapture(r) ==
    /\ view[r] # "absent" /\ r \notin loaded /\ fetched[r] = "none"
    /\ Cardinality({q \in Request : fetched[q] # "none"}) < MaxFetches
    /\ fetched' = [fetched EXCEPT ![r] = "asked"]
    /\ UNCHANGED <<serverVars, view, loaded, dialogVars, postVars>>

\* GET /admin/captures/r reads the capture.
ServeDetail(r) ==
    /\ fetched[r] = "asked" /\ fetched' = [fetched EXCEPT ![r] = Status(r)]
    /\ UNCHANGED <<serverVars, view, loaded, dialogVars, postVars>>

\* The answer replaces what the page has by now, older or newer.
Detail(r) ==
    /\ fetched[r] \notin {"none", "asked"} /\ fetched' = [fetched EXCEPT ![r] = "none"]
    /\ IF fetched[r] = "absent" THEN UNCHANGED <<view, loaded, owed>>
       ELSE /\ view' = [view EXCEPT ![r] = fetched[r]] /\ loaded' = loaded \cup {r}
            /\ owed' = IF fetched[r] = "pending" THEN owed \ {r} ELSE owed
    /\ UNCHANGED <<serverVars, dialog, waitq, postVars>>

-----------------------------------------------------------------------------
\* Mutant of OpenInterceptModal: the newest pause takes the dialog.
OpenOverDialog(r) == dialog' = r /\ UNCHANGED waitq

\* openInterceptModal: an open dialog stays, the request queues up.
OpenInterceptModal(r) ==
    IF dialog \in {None, r} THEN dialog' = r /\ UNCHANGED waitq
    ELSE /\ UNCHANGED dialog
         /\ waitq' = IF Contains(waitq, r) THEN waitq ELSE Append(waitq, r)

\* Mutant of CloseInterceptModal: it does not remove the entry it opens.
CloseKeepingEntry ==
    /\ dialog' = IF waitq = << >> THEN None ELSE Head(waitq)
    /\ UNCHANGED waitq

\* closeInterceptModal: shift the queue until an entry is still paused.
CloseInterceptModal ==
    LET open == {i \in DOMAIN waitq : view[waitq[i]] = "paused"}
    IN  IF open = {} THEN dialog' = None /\ waitq' = << >>
        ELSE LET i == CHOOSE i \in open : \A j \in open : i <= j
             IN  /\ dialog' = waitq[i]
                 /\ waitq' = SubSeq(waitq, i + 1, Len(waitq))

\* handleEvent takes the next event; the gate and the posts go on.
Handle(what) ==
    /\ events # << >> /\ Head(events).what \in what /\ events' = Tail(events)
    /\ UNCHANGED <<pause, stored, connected, fetched, postVars>>

Replaces(r, status) ==
    view' = [view EXCEPT ![r] = status] /\ loaded' = loaded \cup {r}

\* capture_started, and the events after a pause
HandleCapture ==
    /\ Handle({"started", "updated"})
    /\ Replaces(Head(events).payload,
                IF Head(events).what = "started" THEN "pending" ELSE "over")
    /\ UNCHANGED dialogVars

\* capture_intercepted
HandleIntercepted ==
    /\ Handle({"intercepted"})
    /\ Replaces(Head(events).payload, "paused")
    /\ OpenInterceptModal(Head(events).payload)
    /\ owed' = owed \cup {Head(events).payload}

\* The snapshot, which has no bodies, and captures_cleared: dialog and queue
\* keep what they have.
HandleList ==
    /\ Handle({"snapshot", "cleared"})
    /\ view' = (IF Head(events).what = "snapshot" THEN Head(events).payload ELSE Nothing)
    /\ loaded' = {} /\ owed' = {r \in owed : view'[r] # "absent"}
    /\ UNCHANGED <<dialog, waitq>>

\* A button of the dialog: what it posts for the request shown, and whether
\* a forward has the body.
Press(button, body) ==
    /\ dialog # None /\ Len(posts) < MaxPosts
    /\ posts' = Append(posts, [button |-> button, id |-> dialog, body |-> body,
                               reply |-> "none"])
    /\ IF posts = << >> THEN UNCHANGED <<hasty, trouble>>
       ELSE trouble < MaxTrouble /\ trouble' = trouble + 1 /\ hasty' = TRUE
    /\ UNCHANGED <<serverVars, listVars, dialogVars>>

\* im-forward-orig: url, headers and body as the page has them; nothing
\* happens when it does not have the capture.
ForwardOriginal ==
    \E r \in Request \cap {dialog} :
        view[r] # "absent" /\ Press("forward", r \in loaded)

\* im-forward-mod: what the editors hold, once it is valid JSON.
ForwardModified == Press("forward", TRUE)

DropRequest == Press("drop", FALSE)

\* handleForward and handleDrop: 404 without a capture to compare with, 409
\* when nothing is pending or the channel is full.  Once a decision is taken a
\* post may still find the entry in the map and is accepted for nobody.
Serve(i) ==
    /\ i <= Len(posts) /\ posts[i].reply = "none"
    /\ LET r == posts[i].id
           Reply(answer) == posts' = [posts EXCEPT ![i].reply = answer]
           found == posts[i].button = "drop" \/ r \in stored
       IN  \/ found /\ pause[r] = "waiting" /\ Reply("ok")
             /\ pause' = [pause EXCEPT ![r] = "decided"]
           \/ found /\ pause[r] \in {"decided", "over"} /\ Reply("ok") /\ UNCHANGED pause
           \/ ~(found /\ pause[r] = "waiting") /\ Reply("refused") /\ UNCHANGED pause
    /\ UNCHANGED <<stored, connected, events, listVars, dialogVars, hasty, trouble>>

\* What follows the reply to a post.
Replied(i, closes) ==
    /\ i <= Len(posts) /\ posts[i].reply # "none"
    /\ posts' = RemoveAt(posts, i)
    /\ IF closes
       THEN /\ CloseInterceptModal
            /\ owed' = {r \in owed : /\ ~(hasty /\ r = dialog)
                                     /\ ~(posts[i].reply = "refused" /\ r = posts[i].id)}
       ELSE UNCHANGED dialogVars
    /\ hasty' = (hasty /\ Len(posts) > 1)
    /\ UNCHANGED <<serverVars, listVars, trouble>>

\* Mutant of Continue: a refused forward leaves the dialog open.
ContinueIfOk(i) == i <= Len(posts) /\ Replied(i, posts[i].reply = "ok")

\* The code after the await closes the dialog, whichever request it shows
\* by now; a refused drop leaves it open.
Continue(i) ==
    i <= Len(posts) /\ Replied(i, posts[i].reply = "ok" \/ posts[i].button = "forward")

Next ==
    \/ \E r \in Request : \/ Add(r) \/ Announce(r) \/ Register(r) \/ OtherDecides(r)
                          \/ EndPause(r) \/ Evict(r)
                          \/ SelectCapture(r) \/ ServeDetail(r) \/ Detail(r)
    \/ ClearCaptures
    \/ Disconnect \/ Reconnect \/ Reload
    \/ HandleCapture \/ HandleIntercepted \/ HandleList
    \/ ForwardOriginal \/ ForwardModified \/ DropRequest
    \/ \E i \in 1 .. MaxPosts : Serve(i) \/ Continue(i)

\* Posts are answered and the page runs its callbacks.  The operator may do
\* anything, but not press other buttons for ever instead of Forward.
Fairness ==
    /\ \A i \in 1 .. MaxPosts : WF_vars(Serve(i)) /\ WF_vars(Continue(i))
    /\ SF_vars(ForwardModified)

Spec == Init /\ [][Next]_vars /\ Fairness
-----------------------------------------------------------------------------
TypeOK ==
    /\ pause \in [Request -> {"new", "added", "announced", "waiting", "decided", "over"}]
    /\ {stored, loaded, owed} \subseteq SUBSET Request
    /\ {connected, hasty} \subseteq BOOLEAN
    /\ trouble \in 0 .. MaxTrouble
    /\ Len(events) <= MaxEvents
    /\ view \in [Request -> {"absent", "pending", "paused", "over"}]
    /\ fetched \in [Request -> {"none", "asked", "absent", "pending", "paused", "over"}]
    /\ dialog \in Request \cup {None}
    /\ ToSet(waitq) \subseteq Request \ {dialog} /\ IsInjective(waitq)
    /\ Len(posts) <= MaxPosts

\* Nothing queues behind a dialog that is not there, and a pause the page has
\* been told of stays in the dialog or behind it until it is decided, whoever
\* decides and whatever is lost.  These, and no others, end what the page owes
\* to a pause that still waits:
\*   - the page is loaded anew (Reload);
\*   - its list loses the capture: all are cleared, or a snapshot comes
\*     without it, and the queue skips what the list does not have (HandleList);
\*   - details read before the interception arrive after it, and the queue
\*     takes the request for one that is not paused (Detail);
\*   - a forward for it is refused, before Await has registered or because
\*     its capture is gone, and closes the dialog all the same (Replied);
\*   - a button was pressed before the last reply came, and the reply closes
\*     the dialog of whichever request is shown by then (Replied).
\* The page is not told of a pause whose event was dropped or lost.
NeverForgotten ==
    /\ waitq # << >> => dialog # None
    /\ \A r \in owed : pause[r] \in {"announced", "waiting"}
                           => r = dialog \/ r \in ToSet(waitq)

\* An operator who presses Forward now and then gets to see, or to skip
\* because it is over, every request that queues: no dialog of a request that
\* has been decided elsewhere, cancelled or cleared blocks the queue.
QueueMoves ==
    \A r \in Request : (r \in ToSet(waitq)) ~> (r \notin ToSet(waitq))

\* "Forward unchanged" (index.html:128) does not change the request: a post
\* of that button that is accepted for a paused request has its body.
UnchangedIsUnchanged ==
    \A i \in DOMAIN posts :
        (posts[i].button = "forward" /\ posts[i].reply = "ok"
         /\ pause[posts[i].id] = "decided") => posts[i].body
=============================================================================
