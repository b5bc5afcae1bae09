-------------------------------- MODULE Gate --------------------------------
(***************************************************************************)
(* A request on its way to upstream: Proxy.ServeHTTP of                    *)
(* internal/proxy/proxy.go up to its call of forward, together with the    *)
(* admin calls that meet it (internal/api/api.go: forward, drop, clear)    *)
(* and the two components they share, the ring of captures (Ring) and the  *)
(* intercept gate (Intercept).                                             *)
(*                                                                         *)
(* A message is a function from Field to tokens.  Update returns the       *)
(* snapshot that the next statement broadcasts: the step that calls Update *)
(* leaves the snapshot in outbox, and Publish is the call of Broadcast, so *)
(* other goroutines run in between as they may.                            *)
(***************************************************************************)
EXTENDS Ring

CONSTANTS Request,      \* proxied requests; the id of the capture is the request
          Operator,     \* concurrent admin calls of forward and drop
          Incoming,     \* messages a client (or a replay) may send
          Edit,         \* messages an operator may post with forward
          RuleTarget,   \* fields a request rule of a run may rewrite
          Omitted,      \* a field left out of the JSON of a forward; as a
                        \* body, the empty body
          NoDecision,   \* what Await returns without a decision
          None          \* no message, no capture

Field == {"url", "headers", "body"}

ASSUME GateAssumption ==
    /\ \A m \in Incoming \cup Edit : m = [f \in Field |-> m[f]]
    /\ RuleTarget \subseteq Field

Drop == [action |-> "drop"]

Forward(e, m) == [action |-> "forward", edit |-> e, modified |-> m]

Decision == {Drop} \cup {Forward(e, m) : e \in Edit, m \in BOOLEAN}

ASSUME DecisionAssumption == NoDecision \notin Decision

VARIABLES ring,         \* the store
          pending, chan, await, got, ctxDone, call, accepted,  \* Intercept
          pc,           \* pc[r]: where the goroutine that serves r is
          message,      \* message[r]: urlStr, headers and bodyCopy
          outbox,       \* outbox[r]: the event about to be broadcast, if any
          published,    \* published[r]: the capture of r as last broadcast
          api,          \* api[o]: the admin call o is executing
          received,     \* history: the message as it arrived
          offered,      \* history: the message when it reached the toggle
          sent          \* sent[r]: the message handed to forward

gateVars == <<pending, chan, await, got, ctxDone, call, accepted>>
history == <<received, offered, sent>>
vars == <<ring, gateVars, pc, message, outbox, published, api, history>>

G == INSTANCE Intercept

Idle == [step |-> "idle", id |-> None, decision |-> NoDecision]

Init ==
    /\ ring = EmptyRing
    /\ G!Init
    /\ pc = [r \in Request |-> "idle"]
    /\ message = [r \in Request |-> None]
    /\ outbox = [r \in Request |-> << >>]
    /\ published = [r \in Request |-> None]
    /\ api = [o \in Operator |-> Idle]
    /\ received = [r \in Request |-> None]
    /\ offered = [r \in Request |-> None]
    /\ sent = [r \in Request |-> None]

-----------------------------------------------------------------------------
\* What the fields of a message become under the request rules.
Rewrite(m, rs) == [f \in Field |-> IF f \in rs THEN "ruled" ELSE m[f]]

\* The message that goes on after a forward: an empty url or absent headers
\* keep the old ones, the body is always replaced.
Merge(m, e) ==
    [f \in Field |-> IF f # "body" /\ e[f] = Omitted THEN m[f] ELSE e[f]]

Snapshot(r, s) == IF r \in Stored(s) THEN s.captures[r] ELSE None

\* Mutant of Record: no event.
RecordSilently(r, c) == ring' = Update(ring, r, c) /\ UNCHANGED outbox

\* store.Update followed by a Broadcast of what it returned.
Record(r, c) ==
    /\ ring' = Update(ring, r, c)
    /\ outbox' = [outbox EXCEPT ![r] = <<Snapshot(r, Update(ring, r, c))>>]

At(r, where) == pc[r] = where /\ outbox[r] = << >>

Goto(r, where) == pc' = [pc EXCEPT ![r] = where]

\* store.Broadcast: subscribers keep the payload, if there is one.
Publish(r) ==
    /\ outbox[r] # << >>
    /\ published' = [published EXCEPT
                        ![r] = IF Head(outbox[r]) = None THEN @ ELSE Head(outbox[r])]
    /\ outbox' = [outbox EXCEPT ![r] = << >>]
    /\ UNCHANGED <<ring, gateVars, pc, message, api, history>>

\* ServeHTTP, 69-97: the body has been read, the capture is added.
Arrive(r, m) ==
    /\ At(r, "idle")
    /\ ring' = Add(ring, r, [status |-> "pending", request |-> m, modified |-> FALSE])
    /\ message' = [message EXCEPT ![r] = m]
    /\ received' = [received EXCEPT ![r] = m]
    /\ Goto(r, "added")
    /\ UNCHANGED <<gateVars, outbox, published, api, offered, sent>>

\* ServeHTTP, 98-100: nothing is announced when the capture is gone already.
Announce(r) ==
    /\ At(r, "added")
    /\ outbox' = IF r \in Stored(ring)
                 THEN [outbox EXCEPT ![r] = <<ring.captures[r]>>]
                 ELSE outbox
    /\ Goto(r, "rules")
    /\ UNCHANGED <<ring, gateVars, message, published, api, history>>

\* ServeHTTP, 102-105: the rules in force, which PUT /admin/rules may have
\* replaced at any moment, rewrite some of the fields.
ApplyRules(r) ==
    /\ At(r, "rules")
    /\ \E rs \in SUBSET RuleTarget :
           message' = [message EXCEPT ![r] = Rewrite(@, rs)]
    /\ Goto(r, IF message'[r] # message[r] THEN "rewritten" ELSE "toggle")
    /\ UNCHANGED <<ring, gateVars, outbox, published, api, history>>

\* ServeHTTP, 106-113, with the flag set to modified.
RecordRewriteAs(r, modified) ==
    /\ At(r, "rewritten")
    /\ Record(r, [ring.captures[r] EXCEPT !.modified = modified, !.request = message[r]])
    /\ Goto(r, "toggle")
    /\ UNCHANGED <<gateVars, message, published, api, history>>

\* Mutant of RecordRewrite: the flag is forgotten.
RewriteUnflagged(r) == RecordRewriteAs(r, FALSE)

RecordRewrite(r) == RecordRewriteAs(r, TRUE)

\* ServeHTTP, 116-118: the toggle, which the operator may flip at any moment,
\* is on; the capture says so before Await runs.
Pause(r) ==
    /\ At(r, "toggle")
    /\ Record(r, [ring.captures[r] EXCEPT !.status = "intercepted"])
    /\ offered' = [offered EXCEPT ![r] = message[r]]
    /\ Goto(r, "await")
    /\ UNCHANGED <<gateVars, message, published, api, received, sent>>

\* ServeHTTP, 116 and 163: the toggle is off.
Pass(r) ==
    /\ At(r, "toggle")
    /\ offered' = [offered EXCEPT ![r] = message[r]]
    /\ Goto(r, "forward")
    /\ UNCHANGED <<ring, gateVars, message, outbox, published, api, received, sent>>

\* ServeHTTP, 120: inside Await.
Wait(r) ==
    /\ At(r, "await")
    /\ G!AwaitStep(r)
    /\ UNCHANGED <<ring, pc, message, outbox, published, api, history>>

\* ServeHTTP, 120-141: back from Await, the capture gets its last status.
Ends(r, status, where) ==
    /\ At(r, "await") /\ await[r] = "returned"
    /\ Record(r, [ring.captures[r] EXCEPT !.status = status])
    /\ Goto(r, where)
    /\ UNCHANGED <<gateVars, message, published, api, history>>

\* Mutants of Cancelled: a status nobody knows; a return when the capture is
\* no longer in the store.
CancelledUnknown(r) == got[r] = NoDecision /\ Ends(r, "cancelled", "done")

CancelledIfStored(r) ==
    got[r] = NoDecision /\ r \in Stored(ring) /\ Ends(r, "errored", "done")

\* ServeHTTP, 121-131: the client left first.
Cancelled(r) == got[r] = NoDecision /\ Ends(r, "errored", "done")

\* Mutant of Dropped: the return is missing.
DroppedFallsThrough(r) == got[r] = Drop /\ Ends(r, "dropped", "forward")

\* ServeHTTP, 133-141
Dropped(r) == got[r] = Drop /\ Ends(r, "dropped", "done")

\* ServeHTTP, 142-159, when m goes on and the capture shows the edit.
ReleasedAs(r, m) ==
    /\ At(r, "await") /\ await[r] = "returned"
    /\ got[r] # NoDecision /\ got[r] # Drop
    /\ message' = [message EXCEPT ![r] = m]
    /\ Record(r, [ring.captures[r] EXCEPT !.request = Merge(message[r], got[r].edit),
                                          !.modified = @ \/ got[r].modified])
    /\ Goto(r, "forward")
    /\ UNCHANGED <<gateVars, published, api, history>>

\* Mutant of Released: the edit reaches the capture only.
ReleasedUnedited(r) == ReleasedAs(r, message[r])

Released(r) == ReleasedAs(r, Merge(message[r], got[r].edit))

\* ServeHTTP, 163: the call of forward.
HandOver(r) ==
    /\ At(r, "forward")
    /\ sent' = [sent EXCEPT ![r] = message[r]]
    /\ Goto(r, "done")
    /\ UNCHANGED <<ring, gateVars, message, outbox, published, api, received, offered>>

Serve(r) ==
    \/ Publish(r) \/ Announce(r) \/ ApplyRules(r) \/ RecordRewrite(r)
    \/ Pause(r) \/ Pass(r) \/ Wait(r)
    \/ Cancelled(r) \/ Dropped(r) \/ Released(r) \/ HandOver(r)

-----------------------------------------------------------------------------
Ready(o) == api[o].step = "idle"

Answered(o) == api' = [api EXCEPT ![o] = Idle]

Calling(o, r, d) ==
    api' = [api EXCEPT ![o] = [step |-> "deciding", id |-> r, decision |-> d]]

apiFrame == <<ring, pc, message, outbox, published, history>>

\* handleForward, 109-124: the posted message is compared with the capture.
\* Without a capture the call answers 404 and changes nothing.
PostForward(o, r, e) ==
    /\ Ready(o) /\ pc[r] # "idle"
    /\ r \in Stored(ring)
    /\ Calling(o, r, Forward(e, e # ring.captures[r].request))
    /\ UNCHANGED <<apiFrame, gateVars>>

\* handleDrop, 139-140
PostDrop(o, r) ==
    /\ Ready(o) /\ pc[r] # "idle"
    /\ Calling(o, r, Drop)
    /\ UNCHANGED <<apiFrame, gateVars>>

\* Decide, 110-112, from either handler.
DecideLookup(o) ==
    /\ api[o].step = "deciding"
    /\ G!Lookup(o, api[o].id, api[o].decision)
    /\ UNCHANGED <<apiFrame, api>>

\* Decide, 113-115: nothing pending, 409.
DecideMiss(o) ==
    /\ api[o].step = "deciding" /\ call[o] = << >>
    /\ api[o].id \notin pending
    /\ Answered(o)
    /\ UNCHANGED <<apiFrame, gateVars>>

\* Decide, 116-121: the send, then 204 or 409.
DecideSend(o) ==
    /\ G!DecideStep(o)
    /\ Answered(o)
    /\ UNCHANGED apiFrame

Admin(o) == DecideLookup(o) \/ DecideMiss(o) \/ DecideSend(o)

\* handleClear, 241-243: paused requests are cleared like the others.
ClearCaptures ==
    /\ ring' = Clear(ring)
    /\ UNCHANGED <<gateVars, pc, message, outbox, published, api, history>>

\* The client of r disconnects, or the replay's time is up.
Leave(r) ==
    /\ pc[r] # "idle"
    /\ G!ClientGone(r)
    /\ UNCHANGED <<apiFrame, api>>

Next ==
    \/ \E r \in Request : Serve(r) \/ Leave(r) \/ \E m \in Incoming : Arrive(r, m)
    \/ \E o \in Operator : Admin(o)
    \/ \E o \in Operator, r \in Request :
           \/ \E e \in Edit : PostForward(o, r, e)
           \/ PostDrop(o, r)
    \/ ClearCaptures

\* Goroutines run; clients and operators do what they like.
Fairness == /\ \A r \in Request : WF_vars(Serve(r))
            /\ \A o \in Operator : WF_vars(Admin(o))

Spec == Init /\ [][Next]_vars /\ Fairness
-----------------------------------------------------------------------------
Message == [Field -> {"ruled"} \cup
                         UNION {{m[f] : f \in Field} : m \in Incoming \cup Edit}]

Capture == [status   : {"pending", "intercepted", "errored", "dropped"},
            request  : Message,
            modified : BOOLEAN]

ASSUME NoneAssumption == None \notin Capture

TypeOK ==
    /\ Stored(ring) \subseteq Request
    /\ \A r \in Stored(ring) : ring.captures[r] \in Capture
    /\ Len(ring.order) <= MaxCaptures
    /\ G!TypeOK
    /\ pc \in [Request -> {"idle", "added", "rules", "rewritten", "toggle",
                           "await", "forward", "done"}]
    /\ {message, received, offered, sent} \subseteq [Request -> Message \cup {None}]
    /\ \A r \in Request : outbox[r] \in {<< >>} \cup {<<c>> : c \in Capture \cup {None}}
    /\ published \in [Request -> Capture \cup {None}]
    /\ \A o \in Operator :
           /\ api[o].step \in {"idle", "deciding"}
           /\ api[o].id \in Request \cup {None}
           /\ api[o].decision \in Decision \cup {NoDecision}

\* A request whose first accepted decision is a drop never leaves the host,
\* whoever else decides, however the client or the store behave.
DropHolds ==
    \A r \in Request :
        (accepted[r] # << >> /\ Head(accepted[r]) = Drop) => sent[r] = None

\* What leaves the host after a pause is what the first accepted forward
\* asked for, applied to the message as the rules left it; without a pause
\* it is that message.
SentAsDecided ==
    \A r \in Request : sent[r] # None =>
        sent[r] = IF await[r] = "outside" THEN offered[r]
                  ELSE Merge(offered[r], Head(accepted[r]).edit)

\* A request that has left the host is shown as it was sent, and when it is
\* not flagged as modified it is, byte for byte, what arrived: neither a rule
\* nor an operator changed it unnoticed.  The flag is computed by
\* handleForward against a capture that may be older than the rewrite, so
\* this relates two actors that do not synchronise.
CaptureShowsSent ==
    \A r \in Stored(ring) : sent[r] # None =>
        /\ ring.captures[r].request = sent[r]
        /\ ~ring.captures[r].modified => sent[r] = received[r]

\* Once the gate is done with a request, the last event about it carried
\* its capture as the store holds it: no change is left unannounced.
PublishedIsCurrent ==
    \A r \in Stored(ring) : At(r, "done") => published[r] = ring.captures[r]

\* A decision that was accepted, or a client that left, ends the pause: the
\* goroutine of the request finishes, even if the capture was cleared, the
\* toggle switched off or the operator never calls again.
DecidedRequestsFinish ==
    \A r \in Request :
        (pc[r] = "await" /\ (accepted[r] # << >> \/ ctxDone[r])) ~> At(r, "done")
=============================================================================
