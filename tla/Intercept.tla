------------------------------ MODULE Intercept -----------------------------
(***************************************************************************)
(* internal/intercept/intercept.go: the gate that pauses a request until   *)
(* the operator decides.  Await runs in the goroutine that serves the      *)
(* request, Decide in the goroutine of an admin call; i.mu protects only   *)
(* the map, so Decide looks its channel up in one step and sends in a      *)
(* later one, and Await registers, selects and deregisters in three.       *)
(* A request has an id of its own and passes the gate at most once, so a   *)
(* channel is named by its request.                                        *)
(***************************************************************************)
EXTENDS Naturals, Sequences

CONSTANTS Request,      \* intercepted requests
          Operator,     \* concurrent admin calls of forward or drop
          Decision,     \* what an operator may decide
          NoDecision    \* what Await returns when the context is cancelled

ASSUME NoDecisionAssumption == NoDecision \notin Decision

VARIABLES pending,      \* i.pending: the requests with an entry in the map
          chan,         \* chan[r]: buffer of the channel made by Await, capacity 1
          await,        \* await[r]: where the goroutine of r is in Await
          got,          \* got[r]: what Await returns
          ctxDone,      \* ctxDone[r]: the context of r is cancelled
          call,         \* call[o]: << >>, or <<r, d>> once Decide holds r's channel
          accepted      \* history: decisions for which Decide returned true

vars == <<pending, chan, await, got, ctxDone, call, accepted>>

Init ==
    /\ pending = {}
    /\ chan = [r \in Request |-> << >>]
    /\ await = [r \in Request |-> "outside"]
    /\ got = [r \in Request |-> NoDecision]
    /\ ctxDone = [r \in Request |-> FALSE]
    /\ call = [o \in Operator |-> << >>]
    /\ accepted = [r \in Request |-> << >>]

\* Await, 90-93: make the channel and publish it under the lock.
Register(r) ==
    /\ await[r] = "outside"
    /\ pending' = pending \cup {r}
    /\ chan' = [chan EXCEPT ![r] = << >>]
    /\ await' = [await EXCEPT ![r] = "selecting"]
    /\ UNCHANGED <<got, ctxDone, call, accepted>>

\* Await, 100-101: the select takes the decision.
Receive(r) ==
    /\ await[r] = "selecting"
    /\ chan[r] # << >>
    /\ got' = [got EXCEPT ![r] = Head(chan[r])]
    /\ chan' = [chan EXCEPT ![r] = Tail(chan[r])]
    /\ await' = [await EXCEPT ![r] = "leaving"]
    /\ UNCHANGED <<pending, ctxDone, call, accepted>>

\* Await, 102-103: the select takes the cancellation.  Go picks either
\* ready case, so a decision waiting in the channel does not exclude it.
GiveUp(r) ==
    /\ await[r] = "selecting"
    /\ ctxDone[r]
    /\ got' = [got EXCEPT ![r] = NoDecision]
    /\ await' = [await EXCEPT ![r] = "leaving"]
    /\ UNCHANGED <<pending, chan, ctxDone, call, accepted>>

\* Mutants of Deregister: the entry stays in the map; the result is lost.
DeregisterLeaks(r) ==
    /\ await[r] = "leaving"
    /\ await' = [await EXCEPT ![r] = "returned"]
    /\ UNCHANGED <<pending, chan, got, ctxDone, call, accepted>>

DeregisterForgets(r) ==
    /\ await[r] = "leaving"
    /\ pending' = pending \ {r}
    /\ await' = [await EXCEPT ![r] = "returned"]
    /\ got' = [got EXCEPT ![r] = NoDecision]
    /\ UNCHANGED <<chan, ctxDone, call, accepted>>

\* Await, 94-98: the deferred delete, under the lock.
Deregister(r) ==
    /\ await[r] = "leaving"
    /\ pending' = pending \ {r}
    /\ await' = [await EXCEPT ![r] = "returned"]
    /\ UNCHANGED <<chan, got, ctxDone, call, accepted>>

\* The client of r disconnects (or the replay's ten minutes are over).
ClientGone(r) ==
    /\ ~ctxDone[r]
    /\ ctxDone' = [ctxDone EXCEPT ![r] = TRUE]
    /\ UNCHANGED <<pending, chan, await, got, call, accepted>>

\* Decide, 110-112: find the channel of r under the lock.
Lookup(o, r, d) ==
    /\ call[o] = << >>
    /\ r \in pending
    /\ call' = [call EXCEPT ![o] = <<r, d>>]
    /\ UNCHANGED <<pending, chan, await, got, ctxDone, accepted>>

\* Mutants of Accept: the channel is larger than one; the newer decision
\* replaces the one in the channel.
AcceptQueues(o) ==
    /\ call[o] # << >>
    /\ LET r == call[o][1]
           d == call[o][2]
       IN  /\ chan' = [chan EXCEPT ![r] = Append(@, d)]
           /\ accepted' = [accepted EXCEPT ![r] = Append(@, d)]
    /\ call' = [call EXCEPT ![o] = << >>]
    /\ UNCHANGED <<pending, await, got, ctxDone>>

AcceptReplaces(o) ==
    /\ call[o] # << >>
    /\ LET r == call[o][1]
           d == call[o][2]
       IN  /\ chan' = [chan EXCEPT ![r] = <<d>>]
           /\ accepted' = [accepted EXCEPT ![r] = Append(@, d)]
    /\ call' = [call EXCEPT ![o] = << >>]
    /\ UNCHANGED <<pending, await, got, ctxDone>>

\* Decide, 116-118: the channel has room, Decide returns true.
Accept(o) ==
    /\ call[o] # << >>
    /\ LET r == call[o][1]
           d == call[o][2]
       IN  /\ chan[r] = << >>
           /\ chan' = [chan EXCEPT ![r] = <<d>>]
           /\ accepted' = [accepted EXCEPT ![r] = Append(@, d)]
    /\ call' = [call EXCEPT ![o] = << >>]
    /\ UNCHANGED <<pending, await, got, ctxDone>>

\* Decide, 119-120: the channel is full, Decide returns false.
Refuse(o) ==
    /\ call[o] # << >>
    /\ chan[call[o][1]] # << >>
    /\ call' = [call EXCEPT ![o] = << >>]
    /\ UNCHANGED <<pending, chan, await, got, ctxDone, accepted>>

AwaitStep(r) == Register(r) \/ Receive(r) \/ GiveUp(r) \/ Deregister(r)

DecideStep(o) == Accept(o) \/ Refuse(o)

Next == \/ \E r \in Request : AwaitStep(r) \/ ClientGone(r)
        \/ \E o \in Operator : DecideStep(o)
        \/ \E o \in Operator, r \in Request, d \in Decision : Lookup(o, r, d)

\* The goroutines of the program run; clients and operators need not.
Fairness ==
    /\ \A r \in Request : WF_vars(Receive(r) \/ GiveUp(r)) /\ WF_vars(Deregister(r))
    /\ \A o \in Operator : WF_vars(DecideStep(o))

Spec == Init /\ [][Next]_vars /\ Fairness

-----------------------------------------------------------------------------
TypeOK ==
    /\ pending \subseteq Request
    /\ chan \in [Request -> {<< >>} \cup {<<d>> : d \in Decision}]
    /\ await \in [Request -> {"outside", "selecting", "leaving", "returned"}]
    /\ got \in [Request -> Decision \cup {NoDecision}]
    /\ ctxDone \in [Request -> BOOLEAN]
    /\ call \in [Operator -> {<< >>} \cup (Request \X Decision)]
    /\ accepted \in [Request -> Seq(Decision)]

\* The request follows the first decision that was accepted for it, however
\* many operators race and whenever its client leaves.
FirstAcceptedWins ==
    \A r \in Request : got[r] # NoDecision =>
        accepted[r] # << >> /\ got[r] = Head(accepted[r])

\* The channel of capacity one bounds what Decide can promise in vain: it
\* returns true at most twice for a request, the second time only for a
\* decision nobody will read.
AtMostTwoAccepted == \A r \in Request : Len(accepted[r]) <= 2

\* The map holds the requests inside Await and no other: nothing is left
\* behind when Await returns, whichever case the select took.
PendingIsInside ==
    \A r \in Request : r \in pending <=> await[r] \in {"selecting", "leaving"}

\* The gate implements its promise: the first accepted decision is the
\* abstract one, and the outcome is known once the select has chosen.
First == [r \in Request |->
             IF accepted[r] = << >> THEN NoDecision ELSE Head(accepted[r])]

Outcome == [r \in Request |->
               IF await[r] \in {"outside", "selecting"} THEN "open" ELSE got[r]]

Promise == INSTANCE OneShot WITH first <- First, outcome <- Outcome, gone <- ctxDone

PromiseKept == Promise!Spec
=============================================================================
