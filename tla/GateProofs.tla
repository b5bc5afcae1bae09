------------------------------ MODULE GateProofs -----------------------------
(***************************************************************************)
(* For any requests, operators, messages and rules: a dropped request      *)
(* never leaves the host, what leaves is what was decided, and the capture *)
(* and its event say so.  The invariant of the gate comes from             *)
(* InterceptProofs: a step of Gate is a step of Intercept or leaves its    *)
(* variables alone.                                                        *)
(***************************************************************************)
EXTENDS Gate, SequenceTheorems, TLAPS

GP == INSTANCE InterceptProofs

\* Where a request is, as far as the operators can tell.
Places == {"idle", "added", "rules", "rewritten", "toggle", "await", "forward", "done"}

Shape ==
    /\ pc \in [Request -> Places]
    /\ DOMAIN message = Request /\ DOMAIN offered = Request /\ DOMAIN sent = Request
    /\ DOMAIN api = Operator
    /\ \A o \in Operator : api[o].step = "deciding" => api[o].decision \in Decision

\* m is what the decision leaves of the message that reached the toggle.
Decided(r, m) ==
    \/ await[r] = "outside" /\ m = offered[r]
    \/ /\ await[r] = "returned" /\ got[r] # NoDecision /\ got[r] # Drop
       /\ m = Merge(offered[r], got[r].edit)

\* How far the goroutine is bounds what it may have sent.
Progress ==
    \A r \in Request :
        /\ pc[r] \notin {"await", "forward", "done"} => await[r] = "outside"
        /\ pc[r] # "done" => sent[r] = None
        /\ pc[r] = "await" => message[r] = offered[r]
        /\ pc[r] = "forward" => Decided(r, message[r])
        /\ sent[r] # None => Decided(r, sent[r])

Inv == GP!Inv /\ Shape /\ Progress

USE GateAssumption, DecisionAssumption

LEMMA InitInv == Init => Inv
<1> SUFFICES ASSUME Init PROVE Inv
  OBVIOUS
<1>1. GP!Inv
  BY GP!InitInv, DecisionAssumption DEF Init, G!Init, GP!Init
<1>2. Shape
  BY DEF Init, Shape, Places, Idle
<1>3. Progress
  BY DEF Init, Progress, G!Init
<1> QED
  BY <1>1, <1>2, <1>3 DEF Inv

LEMMA GateStep == Inv /\ [Next]_vars => [GP!Next]_gateVars
<1> SUFFICES ASSUME Inv, [Next]_vars PROVE [GP!Next]_gateVars
  OBVIOUS
<1>1. ASSUME NEW r \in Request, Wait(r) PROVE GP!Next
  BY <1>1 DEF Wait, GP!Next, G!AwaitStep, GP!AwaitStep, G!Register, GP!Register, G!Receive, GP!Receive, G!GiveUp, GP!GiveUp, G!Deregister, GP!Deregister
<1>2. ASSUME NEW r \in Request, Leave(r) PROVE GP!Next
  BY <1>2 DEF Leave, GP!Next, G!ClientGone, GP!ClientGone
<1>3. ASSUME NEW o \in Operator, DecideLookup(o) PROVE GP!Next
  BY <1>3 DEF DecideLookup, GP!Next, G!Lookup, GP!Lookup, Inv, Shape, GP!Inv, GP!TypeOK
<1>4. ASSUME NEW o \in Operator, DecideSend(o) PROVE GP!Next
  BY <1>4 DEF DecideSend, GP!Next, G!DecideStep, GP!DecideStep, G!Accept, GP!Accept, G!Refuse, GP!Refuse
<1> QED
  BY <1>1, <1>2, <1>3, <1>4 DEF Next, Serve, Admin, vars, Publish, Arrive, Announce, ApplyRules, RecordRewrite, RecordRewriteAs, Pause, Pass, Cancelled, Dropped, Ends, Released, ReleasedAs, HandOver, PostForward, PostDrop, DecideMiss, ClearCaptures

LEMMA GateInv == Inv /\ [Next]_vars => GP!Inv'
<1> SUFFICES ASSUME Inv, [Next]_vars PROVE GP!Inv'
  OBVIOUS
<1>1. [GP!Next]_(GP!vars)
  BY GateStep DEF gateVars, GP!vars
<1> QED
  BY <1>1, GP!NextInv, DecisionAssumption DEF Inv

\* What a step of the goroutine of r leaves of the other requests.
Others(r) ==
    \A q \in Request \ {r} :
        /\ pc'[q] = pc[q] /\ message'[q] = message[q] /\ offered'[q] = offered[q]
        /\ sent'[q] = sent[q] /\ await'[q] = await[q] /\ got'[q] = got[q]

ProgressAt(r) ==
    /\ pc[r] \notin {"await", "forward", "done"} => await[r] = "outside"
    /\ pc[r] # "done" => sent[r] = None
    /\ pc[r] = "await" => message[r] = offered[r]
    /\ pc[r] = "forward" => Decided(r, message[r])
    /\ sent[r] # None => Decided(r, sent[r])

LEMMA OthersKeep ==
    ASSUME Progress, NEW r \in Request, Others(r), ProgressAt(r)' PROVE Progress'
BY DEF Progress, ProgressAt, Others, Decided

LEMMA ServeProgress ==
    ASSUME Inv, NEW r \in Request, Serve(r) PROVE Shape' /\ Progress'
<1> USE DEF Inv
<1>1. CASE Publish(r)
  BY <1>1 DEF Publish, Shape, Progress, Decided, gateVars, history
<1>2. CASE Announce(r)
  <2>1. pc[r] = "added" /\ pc' = [pc EXCEPT ![r] = "rules"]
        /\ UNCHANGED <<await, got, message, api, offered, sent>>
    BY <1>2 DEF Announce, At, Goto, gateVars, history
  <2>2. Shape' /\ Others(r)
    BY <2>1 DEF Shape, Others, Places
  <2>3. ProgressAt(r)'
    BY <2>1 DEF Shape, Progress, ProgressAt, Decided
  <2> QED
    BY <2>2, <2>3, OthersKeep
<1>3. CASE ApplyRules(r)
  <2>0. PICK rs \in SUBSET RuleTarget :
            message' = [message EXCEPT ![r] = Rewrite(message[r], rs)]
    BY <1>3 DEF ApplyRules
  <2>1. PICK w \in {"rewritten", "toggle"} : pc' = [pc EXCEPT ![r] = w]
    BY <1>3 DEF ApplyRules, Goto
  <2>2. PICK m : message' = [message EXCEPT ![r] = m]
    BY <2>0
  <2>3. pc[r] = "rules" /\ UNCHANGED <<await, got, api, offered, sent>>
    BY <1>3 DEF ApplyRules, At, gateVars, history
  <2>4. Shape' /\ Others(r)
    BY <2>1, <2>2, <2>3 DEF Shape, Others, Places
  <2>5. ProgressAt(r)'
    BY <2>1, <2>3 DEF Shape, Progress, ProgressAt, Decided
  <2> QED
    BY <2>4, <2>5, OthersKeep
<1>4. CASE RecordRewrite(r)
  <2>1. pc[r] = "rewritten" /\ pc' = [pc EXCEPT ![r] = "toggle"]
        /\ UNCHANGED <<await, got, message, api, offered, sent>>
    BY <1>4 DEF RecordRewrite, RecordRewriteAs, At, Goto, gateVars, history
  <2>2. Shape' /\ Others(r)
    BY <2>1 DEF Shape, Others, Places
  <2>3. ProgressAt(r)'
    BY <2>1 DEF Shape, Progress, ProgressAt, Decided
  <2> QED
    BY <2>2, <2>3, OthersKeep
<1>5. CASE Pause(r) \/ Pass(r)
  <2>1. PICK w \in {"await", "forward"} :
            /\ pc[r] = "toggle" /\ pc' = [pc EXCEPT ![r] = w]
            /\ offered' = [offered EXCEPT ![r] = message[r]]
            /\ UNCHANGED <<await, got, message, api, sent>>
    BY <1>5 DEF Pause, Pass, At, Goto, gateVars
  <2>2. Shape' /\ Others(r)
    BY <2>1 DEF Shape, Others, Places
  <2>3. ProgressAt(r)'
    BY <2>1 DEF Shape, Progress, ProgressAt, Decided
  <2> QED
    BY <2>2, <2>3, OthersKeep
<1>6. CASE Wait(r)
  <2>1. pc[r] = "await" /\ UNCHANGED <<pc, message, api, offered, sent>>
    BY <1>6 DEF Wait, At, history
  <2>2. \A q \in Request \ {r} : await'[q] = await[q] /\ got'[q] = got[q]
    BY <1>6 DEF Wait, G!AwaitStep, G!Register, G!Receive, G!GiveUp, G!Deregister,
                GP!Inv, GP!TypeOK
  <2>3. Shape' /\ Others(r)
    BY <2>1, <2>2 DEF Shape, Others
  <2>4. ProgressAt(r)'
    BY <2>1 DEF Shape, Progress, ProgressAt, Decided
  <2> QED
    BY <2>3, <2>4, OthersKeep
<1>7. CASE Cancelled(r) \/ Dropped(r)
  <2>1. pc[r] = "await" /\ pc' = [pc EXCEPT ![r] = "done"]
        /\ UNCHANGED <<await, got, message, api, offered, sent>>
    BY <1>7 DEF Cancelled, Dropped, Ends, At, Goto, gateVars, history
  <2>2. Shape' /\ Others(r)
    BY <2>1 DEF Shape, Others, Places
  <2>3. ProgressAt(r)'
    BY <2>1 DEF Shape, Progress, ProgressAt, Decided
  <2> QED
    BY <2>2, <2>3, OthersKeep
<1>8. CASE Released(r)
  <2>1. /\ pc[r] = "await" /\ pc' = [pc EXCEPT ![r] = "forward"]
        /\ await[r] = "returned" /\ got[r] # NoDecision /\ got[r] # Drop
        /\ message' = [message EXCEPT ![r] = Merge(message[r], got[r].edit)]
        /\ UNCHANGED <<await, got, api, offered, sent>>
    BY <1>8 DEF Released, ReleasedAs, At, Goto, gateVars, history
  <2>2. Shape' /\ Others(r)
    BY <2>1 DEF Shape, Others, Places
  <2>3. message[r] = offered[r] /\ message'[r] = Merge(offered[r], got[r].edit)
    BY <2>1 DEF Shape, Progress
  <2>4. ProgressAt(r)'
    BY <2>1, <2>3 DEF Shape, Progress, ProgressAt, Decided
  <2> QED
    BY <2>2, <2>4, OthersKeep
<1>9. CASE HandOver(r)
  <2>1. pc[r] = "forward" /\ pc' = [pc EXCEPT ![r] = "done"]
        /\ sent' = [sent EXCEPT ![r] = message[r]]
        /\ UNCHANGED <<await, got, message, api, offered>>
    BY <1>9 DEF HandOver, At, Goto, gateVars
  <2>2. Shape' /\ Others(r)
    BY <2>1 DEF Shape, Others, Places
  <2>3. ProgressAt(r)'
    BY <2>1 DEF Shape, Progress, ProgressAt, Decided
  <2> QED
    BY <2>2, <2>3, OthersKeep
<1> QED
  BY <1>1, <1>2, <1>3, <1>4, <1>5, <1>6, <1>7, <1>8, <1>9 DEF Serve

LEMMA ArriveProgress ==
    ASSUME Inv, NEW r \in Request, NEW m \in Incoming, Arrive(r, m)
    PROVE  Shape' /\ Progress'
<1>1. pc[r] = "idle" /\ pc' = [pc EXCEPT ![r] = "added"]
      /\ message' = [message EXCEPT ![r] = m]
      /\ UNCHANGED <<await, got, api, offered, sent>>
  BY DEF Arrive, At, Goto, gateVars
<1>2. Shape' /\ Others(r)
  BY <1>1 DEF Inv, Shape, Others, Places
<1>3. ProgressAt(r)'
  BY <1>1 DEF Inv, Shape, Progress, ProgressAt, Decided
<1> QED
  BY <1>2, <1>3, OthersKeep DEF Inv

\* What operators and clients do leaves the goroutines where they are.
LEMMA OthersProgress ==
    ASSUME Inv, UNCHANGED <<pc, message, offered, sent, await, got>>, Shape'
    PROVE  Progress'
BY DEF Inv, Progress, Decided

LEMMA AdminShape ==
    ASSUME Inv, NEW o \in Operator,
           \/ Admin(o)
           \/ \E r \in Request : PostDrop(o, r) \/ \E e \in Edit : PostForward(o, r, e)
    PROVE  Shape' /\ Progress'
<1>1. UNCHANGED <<pc, message, offered, sent, await, got>>
  BY DEF Admin, DecideLookup, DecideMiss, DecideSend, PostDrop, PostForward, apiFrame,
         gateVars, history, G!Lookup, G!DecideStep, G!Accept, G!Refuse
<1>2. CASE Admin(o)
  <2>1. api' = api \/ api' = [api EXCEPT ![o] = Idle]
    BY <1>2 DEF Admin, DecideLookup, DecideMiss, DecideSend, Answered
  <2> QED
    BY <1>1, <2>1, OthersProgress DEF Inv, Shape, Idle
<1>3. ASSUME NEW r \in Request,
             PostDrop(o, r) \/ \E e \in Edit : PostForward(o, r, e)
      PROVE  Shape'
  <2>1. PICK d \in Decision : Calling(o, r, d)
    <3>1. CASE PostDrop(o, r)
      BY <3>1 DEF PostDrop, Decision
    <3>2. ASSUME NEW e \in Edit, PostForward(o, r, e)
          PROVE  \E d \in Decision : Calling(o, r, d)
      <4>1. PICK b \in BOOLEAN : b = (e # ring.captures[r].request)
        BY Zenon
      <4>2. Forward(e, b) \in Decision
        BY DEF Decision
      <4> QED
        BY <3>2, <4>1, <4>2 DEF PostForward
    <3> QED
      BY <1>3, <3>1, <3>2
  <2>2. PICK x : x = [step |-> "deciding", id |-> r, decision |-> d]
    OBVIOUS
  <2>3. api' = [api EXCEPT ![o] = x] /\ x.decision \in Decision
    BY <2>1, <2>2 DEF Calling
  <2> QED
    BY <1>1, <2>3 DEF Inv, Shape
<1> QED
  BY <1>1, <1>2, <1>3, OthersProgress

LEMMA NextInv == Inv /\ [Next]_vars => Inv'
<1> SUFFICES ASSUME Inv, [Next]_vars PROVE Shape' /\ Progress'
  BY GateInv DEF Inv
<1>1. ASSUME NEW r \in Request, Serve(r) PROVE Shape' /\ Progress'
  BY <1>1, ServeProgress
<1>2. ASSUME NEW r \in Request, NEW m \in Incoming, Arrive(r, m) PROVE Shape' /\ Progress'
  BY <1>2, ArriveProgress
<1>3. ASSUME NEW o \in Operator,
             \/ Admin(o)
             \/ \E r \in Request : PostDrop(o, r) \/ \E e \in Edit : PostForward(o, r, e)
      PROVE  Shape' /\ Progress'
  BY <1>3, AdminShape
<1>4. ASSUME ClearCaptures \/ UNCHANGED vars \/ \E r \in Request : Leave(r)
      PROVE  Shape' /\ Progress'
  <2>1. UNCHANGED <<pc, message, offered, sent, await, got, api>>
    BY <1>4 DEF ClearCaptures, vars, Leave, G!ClientGone, apiFrame, gateVars, history
  <2> QED
    BY <2>1, OthersProgress DEF Inv, Shape
<1> QED
  BY <1>1, <1>2, <1>3, <1>4 DEF Next

LEMMA SpecInv == Spec => []Inv
BY InitInv, NextInv, PTL DEF Spec

-----------------------------------------------------------------------------
\* What was sent without a pause had nothing decided about it; what was sent
\* after one follows the first decision that was accepted.
LEMMA SentFollows ==
    ASSUME Inv, NEW r \in Request, sent[r] # None
    PROVE  \/ await[r] = "outside" /\ accepted[r] = << >> /\ sent[r] = offered[r]
           \/ /\ await[r] = "returned" /\ accepted[r] # << >>
              /\ Head(accepted[r]) = got[r] /\ got[r] # Drop
              /\ sent[r] = Merge(offered[r], got[r].edit)
<1>1. Decided(r, sent[r])
  BY DEF Inv, Progress
<1>2. CASE await[r] = "outside" /\ sent[r] = offered[r]
  BY <1>2 DEF Inv, GP!Inv, GP!NotYet
<1>3. CASE /\ await[r] = "returned" /\ got[r] # NoDecision /\ got[r] # Drop
           /\ sent[r] = Merge(offered[r], got[r].edit)
  <2>1. accepted[r] \in Seq(Decision) /\ Len(chan[r]) \in Nat
        /\ Len(accepted[r]) = 1 + Len(chan[r]) /\ accepted[r][1] = got[r]
    BY <1>3 DEF Inv, GP!Inv, GP!TypeOK, GP!Accounted
  <2>2. accepted[r] # << >>
    BY <2>1
  <2>3. Head(accepted[r]) = got[r]
    BY <2>1, <2>2
  <2> QED
    BY <1>3, <2>2, <2>3
<1> QED
  BY <1>1, <1>2, <1>3 DEF Decided

\* A request that was dropped first never leaves the host, for any number of
\* requests and operators, whatever the rules, the ring and the clients do.
THEOREM DroppedStays == Spec => []DropHolds
<1>1. Inv => DropHolds
  BY SentFollows DEF DropHolds
<1> QED
  BY <1>1, SpecInv, PTL

\* What leaves the host is what the first accepted forward makes of the
\* message that reached the toggle, or that message when it did not pause.
THEOREM DecisionIsSent == Spec => []SentAsDecided
<1>1. Inv => SentAsDecided
  BY SentFollows DEF SentAsDecided
<1> QED
  BY <1>1, SpecInv, PTL
-----------------------------------------------------------------------------
\* What the operators of the ring leave in the map and in the list.

\* Add leaves in the map the new id and the old ones, but for the evicted.
LEMMA AddStored ==
    ASSUME NEW s, NEW id, NEW c, NEW x
    PROVE  x \in Stored(Add(s, id, c)) <=>
               /\ x \in Stored(s) \cup {id}
               /\ \A i \in 1 .. Overflow(Len(Append(s.order, id))) :
                      Append(s.order, id)[i] # x
BY DEF Add, Stored, Without

\* Add leaves the captures it keeps as they were.
LEMMA AddCaptures ==
    ASSUME NEW s, NEW id, NEW c, NEW x \in Stored(Add(s, id, c))
    PROVE  Add(s, id, c).captures[x] = IF x = id THEN c ELSE s.captures[x]
BY DEF Add, Stored, Without

\* Add leaves a list that fits.
LEMMA AddList ==
    ASSUME NEW s, NEW S, s.order \in Seq(S), NEW id \in S, NEW c
    PROVE  Add(s, id, c).order \in Seq(S) /\ Len(Add(s, id, c).order) <= MaxCaptures
<1>1. PICK list : list = Append(s.order, id)
  OBVIOUS
<1>2. PICK n \in Nat : n = Len(list)
  BY <1>1, AppendProperties, LenProperties
<1>3. list \in Seq(S)
  BY <1>1, AppendProperties
<1>4. PICK m \in Nat : m = Overflow(n) + 1
  <2>1. Overflow(n) \in Nat
    BY MaxAssumption DEF Overflow
  <2> QED
    BY <2>1
<1>5. m >= 1 /\ (m <= n => n - m + 1 <= MaxCaptures) /\ 0 <= MaxCaptures
  BY <1>4, MaxAssumption DEF Overflow
<1>6. \A i \in m .. n : list[i] \in S
  BY <1>2, <1>3, <1>5, ElementOfSeq
<1>7. PICK order : order = SubSeq(list, m, n)
  OBVIOUS
<1>8. order \in Seq(S) /\ Len(order) = IF m <= n THEN n - m + 1 ELSE 0
  BY <1>6, <1>7, SubSeqProperties
<1>9. Len(order) <= MaxCaptures
  BY <1>5, <1>8
<1>10. Add(s, id, c).order = order
  BY <1>1, <1>2, <1>4, <1>7 DEF Add
<1> QED
  BY <1>8, <1>9, <1>10

\* Update, whose result is t, changes one capture, if it is there, and nothing
\* else.
LEMMA UpdateNamed ==
    ASSUME NEW s, NEW id, NEW c, NEW t, t = Update(s, id, c)
    PROVE  /\ Stored(t) = Stored(s)
           /\ t.order = s.order
           /\ \A x \in Stored(s) :
                  t.captures[x] = IF x = id THEN c ELSE s.captures[x]
<1>1. CASE id \in Stored(s)
  BY <1>1 DEF Update, Stored
<1>2. CASE id \notin Stored(s)
  BY <1>2 DEF Update, Stored
<1> QED
  BY <1>1, <1>2

\* A ring that is new or cleared.
LEMMA EmptyParts ==
    /\ Stored(EmptyRing) = {} /\ EmptyRing.order = << >>
    /\ \A s : Stored(Clear(s)) = {} /\ Clear(s).order = << >>
BY DEF EmptyRing, Clear, Stored

-----------------------------------------------------------------------------
\* What the variables hold.
RingTypes ==
    /\ Stored(ring) \subseteq Request /\ ring.order \in Seq(Request)
    /\ Len(ring.order) <= MaxCaptures

MessageTypes ==
    /\ message \in [Request -> Message \cup {None}]
    /\ received \in [Request -> Message \cup {None}]
    /\ offered \in [Request -> Message \cup {None}]
    /\ sent \in [Request -> Message \cup {None}]

EventTypes ==
    /\ DOMAIN outbox = Request
    /\ \A r \in Request :
           outbox[r] = << >> \/ (outbox[r] = <<outbox[r][1]>> /\ outbox[r][1] \in Capture \cup {None})
    /\ published \in [Request -> Capture \cup {None}]

CallTypes ==
    \A o \in Operator :
        /\ api[o].step \in {"idle", "deciding"} /\ api[o].id \in Request \cup {None}
        /\ api[o].decision \in Decision \cup {NoDecision}

Types == RingTypes /\ MessageTypes /\ EventTypes /\ CallTypes

\* A goroutine that has begun has a message, and sends that one.
Data(r) ==
    /\ pc[r] # "idle" => message[r] \in Message /\ received[r] \in Message
    /\ pc[r] \in {"added", "rules"} => message[r] = received[r]
    /\ sent[r] # None => pc[r] = "done" /\ sent[r] = message[r]

\* What the subscribers know of r once the event in hand is out.
Known(r) ==
    IF outbox[r] # << >> /\ Head(outbox[r]) # None THEN Head(outbox[r]) ELSE published[r]

\* What the capture c of r says, and that the events say it.
Standing(r, c) ==
    /\ c \in Capture /\ pc[r] # "idle"
    /\ c.request = IF pc[r] = "rewritten" THEN received[r] ELSE message[r]
    /\ ~c.modified => c.request = received[r]
    /\ pc[r] # "added" => Known(r) = c

Kept(r) == r \in Stored(ring) => Standing(r, ring.captures[r])

\* A decision about r that has been posted and not been refused.
Made(r, d) ==
    \/ \E o \in Operator : \/ api[o].step = "deciding" /\ api[o].id = r /\ api[o].decision = d
                           \/ call[o] = <<r, d>>
    \/ chan[r] = <<d>>
    \/ got[r] = d

\* A forward that is not marked as modified has what arrived, unless the
\* capture is marked already or gone.
Unmarked(r) == r \in Stored(ring) /\ ~ring.captures[r].modified

Plain(r, d) == \A e \in Edit : d = Forward(e, FALSE) /\ Unmarked(r) => e = received[r]

Held(r) == \A d \in Decision : Made(r, d) => pc[r] # "idle" /\ Plain(r, d)

KeptInv == Inv /\ Types /\ \A r \in Request : Data(r) /\ Kept(r) /\ Held(r)
-----------------------------------------------------------------------------
\* Messages.
Tokens == {"ruled"} \cup UNION {{m[f] : f \in Field} : m \in Incoming \cup Edit}

LEMMA TokensParts ==
    /\ Message = [Field -> Tokens] /\ "ruled" \in Tokens
    /\ \A m \in Incoming \cup Edit, f \in Field : m[f] \in Tokens
<1>1. ASSUME NEW m \in Incoming \cup Edit, NEW f \in Field PROVE m[f] \in Tokens
  <2>1. PICK s : s = {m[g] : g \in Field}
    OBVIOUS
  <2>2. m[f] \in s /\ s \in {{x[g] : g \in Field} : x \in Incoming \cup Edit}
    BY <2>1
  <2> QED
    BY <2>2 DEF Tokens
<1>2. "ruled" \in Tokens
  BY DEF Tokens
<1>3. Message = [Field -> Tokens]
  BY DEF Message, Tokens
<1> QED
  BY <1>1, <1>2, <1>3

LEMMA MessageParts ==
    ASSUME NEW m \in Message, NEW e \in Edit, NEW rs
    PROVE  /\ Rewrite(m, rs) \in Message /\ Merge(m, e) \in Message
           /\ e = m => Merge(m, e) = m
<1>1. PICK u : u = Tokens
  OBVIOUS
<1>2. "ruled" \in u /\ \A x \in Incoming \cup Edit, f \in Field : x[f] \in u
  BY <1>1, TokensParts
<1>3. Message = [Field -> u]
  BY <1>1, TokensParts
<1>4. \A f \in Field : e[f] \in u /\ m[f] \in u
  BY <1>2, <1>3
<1>5. m = [f \in Field |-> m[f]]
  BY <1>3
<1>6. Rewrite(m, rs) \in Message
  BY <1>2, <1>3, <1>4 DEF Rewrite
<1>7. Merge(m, e) \in Message
  BY <1>3, <1>4 DEF Merge
<1>8. ASSUME e = m PROVE Merge(m, e) = m
  <2>1. \A f \in Field : (IF f # "body" /\ e[f] = Omitted THEN m[f] ELSE e[f]) = m[f]
    BY <1>8
  <2> QED
    BY <1>5, <2>1 DEF Merge
<1> QED
  BY <1>6, <1>7, <1>8

LEMMA RewriteParts == \A m \in Message : \A rs : Rewrite(m, rs) \in Message
BY TokensParts DEF Rewrite

LEMMA IncomingParts == Incoming \subseteq Message
<1> SUFFICES ASSUME NEW m \in Incoming PROVE m \in [Field -> Tokens]
  BY TokensParts
<1>1. m = [f \in Field |-> m[f]] /\ \A f \in Field : m[f] \in Tokens
  BY TokensParts
<1> QED
  BY <1>1
-----------------------------------------------------------------------------
\* What a step leaves alone of request q.
Same(q) ==
    /\ pc'[q] = pc[q] /\ message'[q] = message[q] /\ received'[q] = received[q]
    /\ sent'[q] = sent[q] /\ outbox'[q] = outbox[q] /\ published'[q] = published[q]
    /\ q \in Stored(ring') => q \in Stored(ring) /\ ring'.captures[q] = ring.captures[q]
    /\ \A d \in Decision : Made(q, d)' => Made(q, d)

LEMMA HeldStays ==
    ASSUME NEW q \in Request, Held(q), \A d \in Decision : Made(q, d)' => Made(q, d),
           pc[q] # "idle" => /\ pc'[q] # "idle" /\ received'[q] = received[q]
                             /\ Unmarked(q)' => Unmarked(q)
    PROVE  Held(q)'
<1> SUFFICES ASSUME NEW d \in Decision, Made(q, d)'
             PROVE  (pc[q] # "idle" /\ Plain(q, d))'
  BY DEF Held
<1>1. pc[q] # "idle" /\ Plain(q, d)
  BY DEF Held
<1> QED
  BY <1>1 DEF Plain

LEMMA SameKeeps ==
    ASSUME NEW q \in Request, Data(q), Kept(q), Held(q), Same(q)
    PROVE  Data(q)' /\ Kept(q)' /\ Held(q)'
<1>1. Data(q)'
  BY DEF Same, Data
<1>2. Kept(q)'
  <2> SUFFICES ASSUME q \in Stored(ring') PROVE Standing(q, ring.captures[q])'
    BY DEF Kept
  <2>1. PICK c : c = ring.captures[q]
    OBVIOUS
  <2>2. ring'.captures[q] = c /\ Standing(q, c)
    BY <2>1 DEF Same, Kept
  <2> QED
    BY <2>2 DEF Same, Standing, Known
<1>3. Unmarked(q)' => Unmarked(q)
  BY DEF Same, Unmarked
<1>4. Held(q)'
  BY <1>3, HeldStays DEF Same
<1> QED
  BY <1>1, <1>2, <1>4

Own(r) == Data(r)' /\ Kept(r)' /\ Held(r)'

\* With the frame, what is left to show of a step is about its request.
LEMMA StepKeeps ==
    ASSUME KeptInv, NEW r \in Request, \A q \in Request \ {r} : Same(q), Own(r), Types'
    PROVE  Types' /\ \A q \in Request : Data(q)' /\ Kept(q)' /\ Held(q)'
<1>1. ASSUME NEW q \in Request PROVE Data(q)' /\ Kept(q)' /\ Held(q)'
  <2>1. CASE q = r
    BY <2>1 DEF Own
  <2>2. CASE q # r
    BY <2>2, SameKeeps DEF KeptInv
  <2> QED
    BY <2>1, <2>2
<1> QED
  BY <1>1

LEMMA MadeStays ==
    ASSUME UNCHANGED <<api, call, chan, got>>
    PROVE  \A q, d : Made(q, d)' <=> Made(q, d)
BY DEF Made
-----------------------------------------------------------------------------
\* What recording c in the capture of r does.
LEMMA RecordParts ==
    ASSUME RingTypes, EventTypes, NEW r \in Request, NEW c, Record(r, c), published' = published,
           r \in Stored(ring) => c \in Capture
    PROVE  /\ RingTypes' /\ EventTypes' /\ Stored(ring') = Stored(ring)
           /\ r \in Stored(ring) => ring'.captures[r] = c /\ Known(r)' = c
           /\ \A q \in Request \ {r} :
                  /\ outbox'[q] = outbox[q]
                  /\ q \in Stored(ring) => ring'.captures[q] = ring.captures[q]
<1>1. PICK s : s = Update(ring, r, c)
  OBVIOUS
<1>2. /\ Stored(s) = Stored(ring) /\ s.order = ring.order
      /\ \A x \in Stored(ring) : s.captures[x] = IF x = r THEN c ELSE ring.captures[x]
  BY <1>1, UpdateNamed
<1>3. PICK ev : ev = IF r \in Stored(s) THEN s.captures[r] ELSE None
  OBVIOUS
<1>4. ring' = s /\ outbox' = [outbox EXCEPT ![r] = <<ev>>]
  BY <1>1, <1>3 DEF Record, Snapshot
<1>5. (r \in Stored(ring) => ev = c) /\ (r \notin Stored(ring) => ev = None)
  BY <1>2, <1>3
<1>6. ev \in Capture \cup {None}
  BY <1>5
<1>7. <<ev>>[1] = ev /\ Head(<<ev>>) = ev /\ <<ev>> # << >>
  OBVIOUS
<1>8. outbox'[r] = <<ev>> /\ DOMAIN outbox' = Request
      /\ \A q \in Request \ {r} : outbox'[q] = outbox[q]
  BY <1>4 DEF EventTypes
<1>9. EventTypes'
  BY <1>6, <1>7, <1>8 DEF EventTypes
<1>10. RingTypes'
  BY <1>2, <1>4 DEF RingTypes
<1>11. r \in Stored(ring) => ring'.captures[r] = c /\ Known(r)' = c
  <2> SUFFICES ASSUME r \in Stored(ring) PROVE ring'.captures[r] = c /\ Known(r)' = c
    OBVIOUS
  <2>1. ev = c /\ c # None
    BY <1>5, NoneAssumption
  <2>2. Known(r)' = c
    BY <1>7, <1>8, <2>1 DEF Known
  <2> QED
    BY <1>2, <1>4, <2>2
<1>12. \A q \in Request : q \in Stored(ring) /\ q # r => ring'.captures[q] = ring.captures[q]
  BY <1>2, <1>4
<1> QED
  BY <1>2, <1>4, <1>8, <1>9, <1>10, <1>11, <1>12

\* A step of the goroutine of r that records c, and goes on with m.
LEMMA RecordStep ==
    ASSUME KeptInv, NEW r \in Request, NEW c, NEW m \in Message, NEW w, Record(r, c),
           pc[r] \notin {"idle", "added", "done"}, w \notin {"idle", "added", "rules", "rewritten"},
           pc' = [pc EXCEPT ![r] = w], message' = [message EXCEPT ![r] = m],
           \/ offered' = offered \/ offered' = [offered EXCEPT ![r] = message[r]],
           UNCHANGED <<published, api, call, chan, got, received, sent>>,
           r \in Stored(ring) => /\ c \in Capture /\ c.request = m
                                 /\ ~c.modified => m = received[r] /\ ~ring.captures[r].modified
    PROVE  Types' /\ \A q \in Request : Data(q)' /\ Kept(q)' /\ Held(q)'
<1>0. /\ RingTypes /\ MessageTypes /\ EventTypes /\ CallTypes
      /\ pc \in [Request -> Places] /\ Data(r) /\ Kept(r) /\ Held(r)
  BY DEF KeptInv, Types, Inv, Shape
<1>1. /\ RingTypes' /\ EventTypes' /\ Stored(ring') = Stored(ring)
      /\ r \in Stored(ring) => ring'.captures[r] = c /\ Known(r)' = c
      /\ \A q \in Request \ {r} :
             /\ outbox'[q] = outbox[q]
             /\ q \in Stored(ring) => ring'.captures[q] = ring.captures[q]
  BY <1>0, RecordParts
<1>2. pc'[r] = w /\ message'[r] = m /\ message[r] \in Message /\ received[r] \in Message
  BY <1>0 DEF MessageTypes, Data
<1>3. MessageTypes'
  BY <1>0, <1>2 DEF MessageTypes
<1>4. CallTypes'
  BY <1>0 DEF CallTypes
<1>5. \A q \in Request \ {r} : Same(q)
  <2>1. \A q \in Request \ {r} : pc'[q] = pc[q] /\ message'[q] = message[q]
    BY <1>0 DEF MessageTypes
  <2> QED
    BY <1>1, <2>1, MadeStays DEF Same
<1>6. Data(r)'
  BY <1>0, <1>2 DEF Data
<1>7. Kept(r)'
  <2> SUFFICES ASSUME r \in Stored(ring) PROVE Standing(r, ring.captures[r])'
    BY <1>1 DEF Kept
  <2>1. ring'.captures[r] = c /\ Known(r)' = c
    BY <1>1
  <2> QED
    BY <1>2, <2>1 DEF Standing
<1>8. Held(r)'
  <2>1. Unmarked(r)' => Unmarked(r)
    BY <1>1 DEF Unmarked
  <2> QED
    BY <1>0, <1>2, <2>1, MadeStays, HeldStays
<1> QED
  BY <1>1, <1>3, <1>4, <1>5, <1>6, <1>7, <1>8, StepKeeps DEF Own, Types
-----------------------------------------------------------------------------
\* The steps of the goroutine of r.
LEMMA RecordRewriteKeeps ==
    ASSUME KeptInv, NEW r \in Request, RecordRewrite(r)
    PROVE  Types' /\ \A q \in Request : Data(q)' /\ Kept(q)' /\ Held(q)'
<1>1. PICK c : c = [ring.captures[r] EXCEPT !.modified = TRUE, !.request = message[r]]
  OBVIOUS
<1>2. /\ pc[r] = "rewritten" /\ Record(r, c) /\ pc' = [pc EXCEPT ![r] = "toggle"]
      /\ UNCHANGED <<published, api, call, chan, got, received, sent, message, offered>>
  BY <1>1 DEF RecordRewrite, RecordRewriteAs, At, Goto, gateVars, history
<1>3. message[r] \in Message /\ message' = [message EXCEPT ![r] = message[r]]
  BY <1>2 DEF KeptInv, Types, MessageTypes, Data
<1>4. r \in Stored(ring) => c \in Capture /\ c.request = message[r] /\ c.modified = TRUE
  BY <1>1, <1>3 DEF KeptInv, Kept, Standing, Capture
<1> QED
  BY <1>2, <1>3, <1>4, RecordStep

LEMMA PauseKeeps ==
    ASSUME KeptInv, NEW r \in Request, Pause(r)
    PROVE  Types' /\ \A q \in Request : Data(q)' /\ Kept(q)' /\ Held(q)'
<1>1. PICK c : c = [ring.captures[r] EXCEPT !.status = "intercepted"]
  OBVIOUS
<1>2. /\ pc[r] = "toggle" /\ Record(r, c) /\ pc' = [pc EXCEPT ![r] = "await"]
      /\ offered' = [offered EXCEPT ![r] = message[r]]
      /\ UNCHANGED <<published, api, call, chan, got, received, sent, message>>
  BY <1>1 DEF Pause, At, Goto, gateVars
<1>3. message[r] \in Message /\ message' = [message EXCEPT ![r] = message[r]]
  BY <1>2 DEF KeptInv, Types, MessageTypes, Data
<1>4. r \in Stored(ring) => /\ c \in Capture /\ c.request = message[r]
                            /\ ~c.modified => message[r] = received[r] /\ ~ring.captures[r].modified
  BY <1>1, <1>2 DEF KeptInv, Kept, Standing, Capture
<1> QED
  BY <1>2, <1>3, <1>4, RecordStep

LEMMA EndsKeeps ==
    ASSUME KeptInv, NEW r \in Request, NEW status \in {"errored", "dropped"}, Ends(r, status, "done")
    PROVE  Types' /\ \A q \in Request : Data(q)' /\ Kept(q)' /\ Held(q)'
<1>1. PICK c : c = [ring.captures[r] EXCEPT !.status = status]
  OBVIOUS
<1>2. /\ pc[r] = "await" /\ Record(r, c) /\ pc' = [pc EXCEPT ![r] = "done"]
      /\ UNCHANGED <<published, api, call, chan, got, received, sent, message, offered>>
  BY <1>1 DEF Ends, At, Goto, gateVars, history
<1>3. message[r] \in Message /\ message' = [message EXCEPT ![r] = message[r]]
  BY <1>2 DEF KeptInv, Types, MessageTypes, Data
<1>4. r \in Stored(ring) => /\ c \in Capture /\ c.request = message[r]
                            /\ ~c.modified => message[r] = received[r] /\ ~ring.captures[r].modified
  BY <1>1, <1>2 DEF KeptInv, Kept, Standing, Capture
<1> QED
  BY <1>2, <1>3, <1>4, RecordStep

\* A forward that changed nothing finds the message as it arrived, unless
\* the rules had changed it: then the capture is marked already.
LEMMA ReleasedKeeps ==
    ASSUME KeptInv, NEW r \in Request, Released(r)
    PROVE  Types' /\ \A q \in Request : Data(q)' /\ Kept(q)' /\ Held(q)'
<1>1. PICK e \in Edit, b \in BOOLEAN : got[r] = Forward(e, b)
  BY DEF Released, ReleasedAs, KeptInv, Inv, GP!Inv, GP!TypeOK, Decision
<1>2. got[r].edit = e /\ (got[r].modified <=> b) /\ got[r].modified \in BOOLEAN
  BY <1>1 DEF Forward
<1>3. PICK m : m = Merge(message[r], e)
  OBVIOUS
<1>4. PICK d : d = ring.captures[r]
  OBVIOUS
<1>5. PICK c : c = [d EXCEPT !.request = m, !.modified = @ \/ got[r].modified]
  OBVIOUS
<1>6. /\ pc[r] = "await" /\ Record(r, c) /\ pc' = [pc EXCEPT ![r] = "forward"]
      /\ message' = [message EXCEPT ![r] = m]
      /\ UNCHANGED <<published, api, call, chan, got, received, sent, offered>>
  BY <1>2, <1>3, <1>4, <1>5 DEF Released, ReleasedAs, At, Goto, gateVars, history
<1>7. m \in Message /\ message[r] \in Message /\ (e = message[r] => m = message[r])
  BY <1>3, <1>6, MessageParts DEF KeptInv, Data
<1>8. ASSUME r \in Stored(ring)
      PROVE  /\ c \in Capture /\ c.request = m
             /\ ~c.modified => m = received[r] /\ ~d.modified
  <2>1. Standing(r, d) /\ d \in Capture
    BY <1>4, <1>8 DEF KeptInv, Kept, Standing
  <2>2. d.modified \in BOOLEAN /\ d.request = message[r] /\ (~d.modified => message[r] = received[r])
    BY <1>6, <2>1 DEF Standing, Capture
  <2>3. c \in Capture /\ c.request = m /\ (c.modified <=> d.modified \/ b)
    BY <1>2, <1>5, <1>7, <2>1, <2>2 DEF Capture
  <2>4. ASSUME ~c.modified PROVE e = received[r]
    <3>1. ~b /\ ~d.modified
      BY <2>3, <2>4
    <3>2. got[r] = Forward(e, FALSE) /\ Unmarked(r)
      BY <1>1, <1>4, <1>8, <3>1 DEF Unmarked
    <3>3. got[r] \in Decision /\ Made(r, got[r])
      BY <1>1 DEF Decision, Made
    <3>4. Plain(r, got[r])
      BY <3>3 DEF KeptInv, Held
    <3> QED
      BY <3>2, <3>4 DEF Plain
  <2> QED
    BY <1>7, <2>2, <2>3, <2>4
<1> QED
  BY <1>4, <1>6, <1>7, <1>8, RecordStep

LEMMA PublishKeeps ==
    ASSUME KeptInv, NEW r \in Request, Publish(r)
    PROVE  Types' /\ \A q \in Request : Data(q)' /\ Kept(q)' /\ Held(q)'
<1>0. /\ RingTypes /\ MessageTypes /\ EventTypes /\ CallTypes /\ Data(r) /\ Kept(r) /\ Held(r)
  BY DEF KeptInv, Types
<1>1. PICK ev \in Capture \cup {None} : outbox[r] = <<ev>>
  BY <1>0 DEF Publish, EventTypes
<1>2. Head(<<ev>>) = ev /\ <<ev>> # << >>
  OBVIOUS
<1>3. PICK p : p = IF ev = None THEN published[r] ELSE ev
  OBVIOUS
<1>4. /\ published' = [published EXCEPT ![r] = p] /\ outbox' = [outbox EXCEPT ![r] = << >>]
      /\ UNCHANGED <<ring, pc, message, api, received, offered, sent, call, chan, got>>
  BY <1>1, <1>2, <1>3 DEF Publish, gateVars, history
<1>5. /\ outbox'[r] = << >> /\ published'[r] = p /\ p \in Capture \cup {None} /\ DOMAIN outbox' = Request
      /\ \A q \in Request \ {r} : outbox'[q] = outbox[q] /\ published'[q] = published[q]
  BY <1>0, <1>3, <1>4 DEF EventTypes
<1>6. EventTypes'
  <2>1. published' \in [Request -> Capture \cup {None}]
    BY <1>0, <1>4, <1>5 DEF EventTypes
  <2> QED
    BY <1>0, <1>5, <2>1 DEF EventTypes
<1>7. RingTypes' /\ MessageTypes' /\ CallTypes'
  BY <1>0, <1>4 DEF RingTypes, MessageTypes, CallTypes, Stored
<1>8. \A q \in Request \ {r} : Same(q)
  BY <1>4, <1>5, MadeStays DEF Same
<1>9. Known(r)' = Known(r)
  BY <1>1, <1>2, <1>3, <1>5 DEF Known
<1>10. Data(r)'
  BY <1>0, <1>4 DEF Data
<1>11. Kept(r)'
  BY <1>0, <1>4, <1>9 DEF Kept, Standing
<1>12. Held(r)'
  BY <1>0, <1>4, MadeStays, HeldStays DEF Unmarked
<1> QED
  BY <1>6, <1>7, <1>8, <1>10, <1>11, <1>12, StepKeeps DEF Own, Types

LEMMA AnnounceKeeps ==
    ASSUME KeptInv, NEW r \in Request, Announce(r)
    PROVE  Types' /\ \A q \in Request : Data(q)' /\ Kept(q)' /\ Held(q)'
<1>0. /\ RingTypes /\ MessageTypes /\ EventTypes /\ CallTypes /\ Data(r) /\ Kept(r) /\ Held(r)
      /\ pc \in [Request -> Places]
  BY DEF KeptInv, Types, Inv, Shape
<1>1. PICK c : c = ring.captures[r]
  OBVIOUS
<1>2. /\ pc[r] = "added" /\ outbox[r] = << >> /\ pc' = [pc EXCEPT ![r] = "rules"]
      /\ outbox' = IF r \in Stored(ring) THEN [outbox EXCEPT ![r] = <<c>>] ELSE outbox
      /\ UNCHANGED <<ring, published, message, api, received, offered, sent, call, chan, got>>
  BY <1>1 DEF Announce, At, Goto, gateVars, history
<1>3. r \in Stored(ring) => c \in Capture /\ c # None
  BY <1>0, <1>1, NoneAssumption DEF Kept, Standing
<1>4. Head(<<c>>) = c /\ <<c>> # << >> /\ <<c>>[1] = c
  OBVIOUS
<1>5. /\ pc'[r] = "rules" /\ DOMAIN outbox' = Request
      /\ r \in Stored(ring) => outbox'[r] = <<c>>
      /\ r \notin Stored(ring) => outbox'[r] = outbox[r]
      /\ \A q \in Request \ {r} : outbox'[q] = outbox[q] /\ pc'[q] = pc[q]
  BY <1>0, <1>2 DEF EventTypes
<1>6. EventTypes'
  BY <1>0, <1>2, <1>3, <1>4, <1>5 DEF EventTypes
<1>7. RingTypes' /\ MessageTypes' /\ CallTypes'
  BY <1>0, <1>2 DEF RingTypes, MessageTypes, CallTypes, Stored
<1>8. \A q \in Request \ {r} : Same(q)
  BY <1>2, <1>5, MadeStays DEF Same
<1>9. Data(r)'
  BY <1>0, <1>2, <1>5 DEF Data
<1>10. Kept(r)'
  <2> SUFFICES ASSUME r \in Stored(ring) PROVE Standing(r, ring.captures[r])'
    BY <1>2 DEF Kept
  <2>1. Known(r)' = c
    BY <1>3, <1>4, <1>5 DEF Known
  <2>2. Standing(r, c)
    BY <1>0, <1>1 DEF Kept
  <2> QED
    BY <1>1, <1>2, <1>5, <2>1, <2>2 DEF Standing
<1>11. Held(r)'
  BY <1>0, <1>2, <1>5, MadeStays, HeldStays DEF Unmarked
<1> QED
  BY <1>6, <1>7, <1>8, <1>9, <1>10, <1>11, StepKeeps DEF Own, Types

LEMMA ApplyRulesKeeps ==
    ASSUME KeptInv, NEW r \in Request, ApplyRules(r)
    PROVE  Types' /\ \A q \in Request : Data(q)' /\ Kept(q)' /\ Held(q)'
<1>0. /\ RingTypes /\ MessageTypes /\ EventTypes /\ CallTypes /\ Data(r) /\ Kept(r) /\ Held(r)
      /\ pc \in [Request -> Places]
  BY DEF KeptInv, Types, Inv, Shape
<1>1. PICK rs \in SUBSET RuleTarget : message' = [message EXCEPT ![r] = Rewrite(@, rs)]
  BY DEF ApplyRules
<1>2. PICK m : m = Rewrite(message[r], rs)
  OBVIOUS
<1>3. PICK w \in {"rewritten", "toggle"} : /\ pc' = [pc EXCEPT ![r] = w]
                                           /\ w = "toggle" => message'[r] = message[r]
  BY DEF ApplyRules, Goto
<1>4. /\ pc[r] = "rules" /\ outbox[r] = << >>
      /\ UNCHANGED <<ring, outbox, published, api, received, offered, sent, call, chan, got>>
  BY DEF ApplyRules, At, gateVars, history
<1>5. message[r] \in Message /\ received[r] \in Message /\ message[r] = received[r]
      /\ r \in DOMAIN message
  BY <1>0, <1>4 DEF Data, MessageTypes
<1>6. m \in Message /\ message' = [message EXCEPT ![r] = m]
  <2>1. \A x \in Message : Rewrite(x, rs) \in Message
    BY RewriteParts
  <2> QED
    BY <1>1, <1>2, <1>5, <2>1
<1>7. /\ message'[r] = m /\ pc'[r] = w
      /\ \A q \in Request \ {r} : message'[q] = message[q] /\ pc'[q] = pc[q]
  BY <1>0, <1>3, <1>5, <1>6
<1>8. MessageTypes'
  BY <1>0, <1>4, <1>6 DEF MessageTypes
<1>9. RingTypes' /\ EventTypes' /\ CallTypes'
  BY <1>0, <1>4 DEF RingTypes, EventTypes, CallTypes, Stored
<1>10. \A q \in Request \ {r} : Same(q)
  BY <1>4, <1>7, MadeStays DEF Same
<1>11. Data(r)'
  BY <1>0, <1>3, <1>4, <1>5, <1>6, <1>7 DEF Data
<1>12. Kept(r)'
  <2> SUFFICES ASSUME r \in Stored(ring) PROVE Standing(r, ring.captures[r])'
    BY <1>4 DEF Kept
  <2>1. PICK c : c = ring.captures[r]
    OBVIOUS
  <2>2. Standing(r, c)
    BY <1>0, <2>1 DEF Kept
  <2>3. w = "toggle" => m = received[r]
    BY <1>3, <1>5, <1>7
  <2>4. c.request = received[r] /\ c \in Capture /\ Known(r) = c
    BY <1>4, <1>5, <2>2 DEF Standing
  <2>5. Known(r)' = Known(r)
    BY <1>4 DEF Known
  <2> QED
    BY <1>3, <1>4, <1>7, <2>1, <2>3, <2>4, <2>5 DEF Standing
<1>13. Held(r)'
  BY <1>0, <1>3, <1>4, <1>7, MadeStays, HeldStays DEF Unmarked
<1> QED
  BY <1>8, <1>9, <1>10, <1>11, <1>12, <1>13, StepKeeps DEF Own, Types

\* The toggle is off, or the message goes out: the capture stays as it is.
LEMMA PassKeeps ==
    ASSUME KeptInv, NEW r \in Request, Pass(r) \/ HandOver(r)
    PROVE  Types' /\ \A q \in Request : Data(q)' /\ Kept(q)' /\ Held(q)'
<1>0. /\ RingTypes /\ MessageTypes /\ EventTypes /\ CallTypes /\ Data(r) /\ Kept(r) /\ Held(r)
      /\ pc \in [Request -> Places]
  BY DEF KeptInv, Types, Inv, Shape
<1>1. PICK w \in {"forward", "done"} :
        /\ pc[r] \in {"toggle", "forward"} /\ pc' = [pc EXCEPT ![r] = w]
        /\ \/ sent' = sent /\ offered' = [offered EXCEPT ![r] = message[r]]
           \/ w = "done" /\ sent' = [sent EXCEPT ![r] = message[r]] /\ offered' = offered
        /\ UNCHANGED <<ring, outbox, published, api, received, message, call, chan, got>>
  BY DEF Pass, HandOver, At, Goto, gateVars
<1>2. message[r] \in Message /\ received[r] \in Message
  BY <1>0, <1>1 DEF Data
<1>3. MessageTypes'
  BY <1>0, <1>1, <1>2 DEF MessageTypes
<1>4. RingTypes' /\ EventTypes' /\ CallTypes'
  BY <1>0, <1>1 DEF RingTypes, EventTypes, CallTypes, Stored
<1>5. /\ pc'[r] = w /\ (sent'[r] = sent[r] \/ (w = "done" /\ sent'[r] = message[r]))
      /\ \A q \in Request \ {r} : pc'[q] = pc[q] /\ sent'[q] = sent[q]
  BY <1>0, <1>1 DEF MessageTypes
<1>6. \A q \in Request \ {r} : Same(q)
  BY <1>1, <1>5, MadeStays DEF Same
<1>7. Data(r)'
  BY <1>0, <1>1, <1>2, <1>5 DEF Data
<1>8. Kept(r)'
  <2> SUFFICES ASSUME r \in Stored(ring) PROVE Standing(r, ring.captures[r])'
    BY <1>1 DEF Kept
  <2>1. Standing(r, ring.captures[r])
    BY <1>0 DEF Kept
  <2>2. Known(r)' = Known(r)
    BY <1>1 DEF Known
  <2> QED
    BY <1>1, <1>5, <2>1, <2>2 DEF Standing
<1>9. Held(r)'
  BY <1>0, <1>1, <1>5, MadeStays, HeldStays DEF Unmarked
<1> QED
  BY <1>3, <1>4, <1>6, <1>7, <1>8, <1>9, StepKeeps DEF Own, Types

\* The capture of a request is added once, so nothing is decided about it.
LEMMA ArriveKeeps ==
    ASSUME KeptInv, NEW r \in Request, NEW m \in Incoming, Arrive(r, m)
    PROVE  Types' /\ \A q \in Request : Data(q)' /\ Kept(q)' /\ Held(q)'
<1>0. /\ RingTypes /\ MessageTypes /\ EventTypes /\ CallTypes /\ Data(r) /\ Kept(r) /\ Held(r)
      /\ pc \in [Request -> Places]
  BY DEF KeptInv, Types, Inv, Shape
<1>1. PICK c : c = [status |-> "pending", request |-> m, modified |-> FALSE]
  OBVIOUS
<1>2. PICK s : s = Add(ring, r, c)
  OBVIOUS
<1>3. /\ pc[r] = "idle" /\ ring' = s /\ pc' = [pc EXCEPT ![r] = "added"]
      /\ message' = [message EXCEPT ![r] = m] /\ received' = [received EXCEPT ![r] = m]
      /\ UNCHANGED <<outbox, published, api, offered, sent, call, chan, got>>
  BY <1>1, <1>2 DEF Arrive, At, Goto, gateVars
<1>4. m \in Message /\ c \in Capture /\ c.request = m
  BY <1>1, IncomingParts DEF Capture
<1>5. Stored(s) \subseteq Stored(ring) \cup {r}
  BY <1>2, AddStored
<1>6. \A x \in Stored(s) : s.captures[x] = IF x = r THEN c ELSE ring.captures[x]
  BY <1>2, AddCaptures
<1>7. s.order \in Seq(Request) /\ Len(s.order) <= MaxCaptures
  BY <1>0, <1>2, AddList DEF RingTypes
<1>8. RingTypes'
  BY <1>0, <1>3, <1>5, <1>7 DEF RingTypes
<1>9. MessageTypes'
  BY <1>0, <1>3, <1>4 DEF MessageTypes
<1>10. EventTypes' /\ CallTypes'
  BY <1>0, <1>3 DEF EventTypes, CallTypes
<1>11. /\ pc'[r] = "added" /\ message'[r] = m /\ received'[r] = m
       /\ \A q \in Request \ {r} :
              pc'[q] = pc[q] /\ message'[q] = message[q] /\ received'[q] = received[q]
  BY <1>0, <1>3 DEF MessageTypes
<1>12. \A q \in Request \ {r} : Same(q)
  BY <1>3, <1>5, <1>6, <1>11, MadeStays DEF Same
<1>13. Data(r)'
  BY <1>0, <1>3, <1>4, <1>11 DEF Data
<1>14. Kept(r)'
  <2> SUFFICES ASSUME r \in Stored(s) PROVE Standing(r, ring.captures[r])'
    BY <1>3 DEF Kept
  <2>1. ring'.captures[r] = c
    BY <1>3, <1>6
  <2> QED
    BY <1>4, <1>11, <2>1 DEF Standing
<1>15. Held(r)'
  BY <1>0, <1>3, MadeStays, HeldStays
<1> QED
  BY <1>8, <1>9, <1>10, <1>12, <1>13, <1>14, <1>15, StepKeeps DEF Own, Types
-----------------------------------------------------------------------------
\* The steps that pass decisions on, and what leaves the requests alone.
LEMMA QuietKeeps ==
    ASSUME KeptInv, \A q \in Request, d \in Decision : Made(q, d)' => Made(q, d), CallTypes',
           UNCHANGED <<pc, message, outbox, published, received, offered, sent>>,
           ring' = ring \/ ring' = EmptyRing
    PROVE  Types' /\ \A q \in Request : Data(q)' /\ Kept(q)' /\ Held(q)'
<1>0. RingTypes /\ MessageTypes /\ EventTypes
  BY DEF KeptInv, Types
<1>1. MessageTypes' /\ EventTypes'
  BY <1>0 DEF MessageTypes, EventTypes
<1>2. RingTypes'
  <2>1. CASE ring' = ring
    BY <1>0, <2>1 DEF RingTypes
  <2>2. CASE ring' = EmptyRing
    <3>1. << >> \in Seq(Request) /\ Len(<< >>) = 0 /\ 0 <= MaxCaptures
      BY MaxAssumption
    <3> QED
      BY <2>2, <3>1, EmptyParts DEF RingTypes
  <2> QED
    BY <2>1, <2>2
<1>3. ASSUME NEW q \in Request PROVE Same(q)
  BY EmptyParts DEF Same
<1> QED
  BY <1>1, <1>2, <1>3, SameKeeps DEF KeptInv, Types

LEMMA WaitKeeps ==
    ASSUME KeptInv, NEW r \in Request, Wait(r)
    PROVE  Types' /\ \A q \in Request : Data(q)' /\ Kept(q)' /\ Held(q)'
<1>0. GP!TypeOK /\ CallTypes
  BY DEF KeptInv, Types, Inv, GP!Inv
<1>1. /\ UNCHANGED <<ring, pc, message, outbox, published, api, received, offered, sent, call>>
      /\ \A q \in Request \ {r} : chan'[q] = chan[q] /\ got'[q] = got[q]
      /\ \/ chan'[r] = << >> /\ got'[r] = got[r]
         \/ chan'[r] = chan[r] /\ (got'[r] = got[r] \/ got'[r] = NoDecision)
         \/ chan[r] # << >> /\ chan'[r] = Tail(chan[r]) /\ got'[r] = Head(chan[r])
  BY <1>0 DEF Wait, GP!TypeOK, history, G!AwaitStep, G!Register, G!Receive, G!GiveUp, G!Deregister
<1>2. ASSUME NEW q \in Request, NEW d \in Decision, Made(q, d)' PROVE Made(q, d)
  <2>1. CASE q # r
    BY <1>1, <1>2, <2>1 DEF Made
  <2>2. CASE q = r
    <3>1. d # NoDecision /\ << >> # <<d>>
      BY DecisionAssumption
    <3>2. CASE chan'[r] = << >> /\ got'[r] = got[r]
      BY <1>1, <1>2, <2>2, <3>1, <3>2 DEF Made
    <3>3. CASE chan'[r] = chan[r] /\ (got'[r] = got[r] \/ got'[r] = NoDecision)
      BY <1>1, <1>2, <2>2, <3>1, <3>3 DEF Made
    <3>4. CASE chan[r] # << >> /\ chan'[r] = Tail(chan[r]) /\ got'[r] = Head(chan[r])
      <4>1. PICK x \in Decision : chan[r] = <<x>>
        BY <1>0, <3>4 DEF GP!TypeOK
      <4>2. Tail(<<x>>) = << >> /\ Head(<<x>>) = x
        OBVIOUS
      <4>3. chan'[r] = << >> /\ got'[r] = x
        BY <3>4, <4>1, <4>2
      <4> QED
        BY <1>1, <1>2, <2>2, <3>1, <4>1, <4>3 DEF Made
    <3> QED
      BY <1>1, <3>2, <3>3, <3>4
  <2> QED
    BY <2>1, <2>2
<1>3. CallTypes'
  BY <1>0, <1>1 DEF CallTypes
<1> QED
  BY <1>1, <1>2, <1>3, QuietKeeps

\* A decision that is looked up, sent or refused was made before.
LEMMA AdminKeeps ==
    ASSUME KeptInv, NEW o \in Operator, Admin(o)
    PROVE  Types' /\ \A q \in Request : Data(q)' /\ Kept(q)' /\ Held(q)'
<1>0. GP!TypeOK /\ CallTypes /\ DOMAIN api = Operator
  BY DEF KeptInv, Types, Inv, Shape, GP!Inv
<1>1. UNCHANGED <<ring, pc, message, outbox, published, received, offered, sent, got>>
  BY DEF Admin, DecideLookup, DecideMiss, DecideSend, apiFrame, gateVars, history,
         G!Lookup, G!DecideStep, G!Accept, G!Refuse
<1>2. CASE DecideLookup(o)
  <2>1. /\ api[o].step = "deciding" /\ UNCHANGED <<chan, api>>
        /\ call' = [call EXCEPT ![o] = <<api[o].id, api[o].decision>>]
    BY <1>2 DEF DecideLookup, G!Lookup
  <2>2. /\ call'[o] = <<api[o].id, api[o].decision>>
        /\ \A p \in Operator \ {o} : call'[p] = call[p]
    BY <1>0, <2>1 DEF GP!TypeOK
  <2>3. \A q \in Request, d \in Decision : Made(q, d)' => Made(q, d)
    BY <1>1, <2>1, <2>2 DEF Made
  <2>4. CallTypes'
    BY <1>0, <2>1 DEF CallTypes
  <2> QED
    BY <1>1, <2>3, <2>4, QuietKeeps
<1>3. CASE DecideMiss(o)
  <2>1. api' = [api EXCEPT ![o] = Idle] /\ UNCHANGED <<chan, call>>
    BY <1>3 DEF DecideMiss, Answered, gateVars
  <2>2. api'[o] = Idle /\ \A p \in Operator \ {o} : api'[p] = api[p]
    BY <1>0, <2>1
  <2>3. Idle.step = "idle" /\ Idle.id = None /\ Idle.decision = NoDecision
    BY DEF Idle
  <2>4. \A q \in Request, d \in Decision : Made(q, d)' => Made(q, d)
    BY <1>1, <2>1, <2>2, <2>3 DEF Made
  <2>5. CallTypes'
    BY <1>0, <2>2, <2>3 DEF CallTypes
  <2> QED
    BY <1>1, <2>4, <2>5, QuietKeeps
<1>4. CASE DecideSend(o)
  <2>1. PICK r \in Request, x \in Decision : call[o] = <<r, x>>
    BY <1>0, <1>4 DEF DecideSend, G!DecideStep, G!Accept, G!Refuse, GP!TypeOK
  <2>2. /\ api' = [api EXCEPT ![o] = Idle] /\ call' = [call EXCEPT ![o] = << >>]
        /\ chan' = chan \/ chan' = [chan EXCEPT ![r] = <<x>>]
    BY <1>4, <2>1 DEF DecideSend, Answered, G!DecideStep, G!Accept, G!Refuse
  <2>3. /\ api'[o] = Idle /\ call'[o] = << >> /\ (chan'[r] = chan[r] \/ chan'[r] = <<x>>)
        /\ \A p \in Operator \ {o} : api'[p] = api[p] /\ call'[p] = call[p]
        /\ \A q \in Request \ {r} : chan'[q] = chan[q]
    BY <1>0, <2>2 DEF GP!TypeOK
  <2>4. Idle.step = "idle" /\ Idle.id = None /\ Idle.decision = NoDecision
    BY DEF Idle
  <2>5. ASSUME NEW q \in Request, NEW d \in Decision, Made(q, d)' PROVE Made(q, d)
    <3>1. << >> # <<q, d>> /\ (<<d>> = <<x>> => d = x)
      OBVIOUS
    <3>2. CASE \E p \in Operator : \/ api'[p].step = "deciding" /\ api'[p].id = q /\ api'[p].decision = d
                                   \/ call'[p] = <<q, d>>
      BY <2>3, <2>4, <3>1, <3>2 DEF Made
    <3>3. CASE chan'[q] = <<d>>
      BY <2>1, <2>3, <3>1, <3>3 DEF Made
    <3>4. CASE got'[q] = d
      BY <1>1, <3>4 DEF Made
    <3> QED
      BY <2>5, <3>2, <3>3, <3>4 DEF Made
  <2>6. CallTypes'
    BY <1>0, <2>3, <2>4 DEF CallTypes
  <2> QED
    BY <1>1, <2>5, <2>6, QuietKeeps
<1> QED
  BY <1>2, <1>3, <1>4 DEF Admin

\* A forward is compared with the capture, so when it is not marked as
\* modified it is what the capture shows: what arrived, unless marked.
LEMMA PostKeeps ==
    ASSUME KeptInv, NEW o \in Operator, NEW r \in Request,
           PostDrop(o, r) \/ \E e \in Edit : PostForward(o, r, e)
    PROVE  Types' /\ \A q \in Request : Data(q)' /\ Kept(q)' /\ Held(q)'
<1>0. /\ RingTypes /\ MessageTypes /\ EventTypes /\ CallTypes /\ Data(r) /\ Kept(r) /\ Held(r)
      /\ DOMAIN api = Operator
  BY DEF KeptInv, Types, Inv, Shape
<1>1. /\ pc[r] # "idle"
      /\ UNCHANGED <<ring, pc, message, outbox, published, received, offered, sent, call, chan, got>>
  BY DEF PostDrop, PostForward, apiFrame, gateVars, history
<1>2. PICK d \in Decision : Calling(o, r, d) /\ Plain(r, d)
  <2>1. CASE PostDrop(o, r)
    <3>1. \A e \in Edit : Drop # Forward(e, FALSE)
      BY DEF Drop, Forward
    <3>2. Drop \in Decision
      BY DEF Decision
    <3>3. Plain(r, Drop)
      BY <3>1 DEF Plain
    <3> QED
      BY <2>1, <3>2, <3>3 DEF PostDrop
  <2>2. ASSUME NEW e \in Edit, PostForward(o, r, e)
        PROVE  \E d \in Decision : Calling(o, r, d) /\ Plain(r, d)
    <3>1. PICK b \in BOOLEAN : b = (e # ring.captures[r].request)
      BY Zenon
    <3>2. Forward(e, b) \in Decision
      BY DEF Decision
    <3>3. ASSUME NEW f \in Edit, Forward(e, b) = Forward(f, FALSE), Unmarked(r)
          PROVE  f = received[r]
      <4>1. f = e /\ b = FALSE
        BY <3>3 DEF Forward
      <4>2. e = ring.captures[r].request
        BY <3>1, <4>1
      <4>3. ring.captures[r].request = received[r]
        BY <1>0, <3>3 DEF Unmarked, Kept, Standing
      <4> QED
        BY <4>1, <4>2, <4>3
    <3>4. Plain(r, Forward(e, b))
      BY <3>3 DEF Plain
    <3>5. Calling(o, r, Forward(e, b))
      BY <2>2, <3>1 DEF PostForward
    <3> QED
      BY <3>2, <3>4, <3>5
  <2> QED
    BY <2>1, <2>2
<1>3. PICK x : x = [step |-> "deciding", id |-> r, decision |-> d]
  OBVIOUS
<1>4. x.step = "deciding" /\ x.id = r /\ x.decision = d
  BY <1>3
<1>5. api'[o] = x /\ \A p \in Operator \ {o} : api'[p] = api[p]
  BY <1>0, <1>2, <1>3 DEF Calling
<1>6. CallTypes'
  BY <1>0, <1>4, <1>5 DEF CallTypes
<1>7. RingTypes' /\ MessageTypes' /\ EventTypes'
  BY <1>0, <1>1 DEF RingTypes, MessageTypes, EventTypes, Stored
<1>8. \A q \in Request, c \in Decision : Made(q, c)' => Made(q, c) \/ (q = r /\ c = d)
  BY <1>1, <1>4, <1>5 DEF Made
<1>9. \A q \in Request \ {r} : Same(q)
  BY <1>1, <1>8 DEF Same
<1>10. Data(r)' /\ Kept(r)'
  BY <1>0, <1>1 DEF Data, Kept, Standing, Known
<1>11. Held(r)'
  <2> SUFFICES ASSUME NEW c \in Decision, Made(r, c)' PROVE pc'[r] # "idle" /\ Plain(r, c)'
    BY DEF Held
  <2>1. Plain(r, c)
    BY <1>0, <1>2, <1>8 DEF Held
  <2> QED
    BY <1>1, <2>1 DEF Plain, Unmarked
<1> QED
  BY <1>6, <1>7, <1>9, <1>10, <1>11, StepKeeps DEF Own, Types

LEMMA InitKept == Init => KeptInv
<1> SUFFICES ASSUME Init PROVE KeptInv
  OBVIOUS
<1>1. /\ ring = EmptyRing /\ pc = [r \in Request |-> "idle"]
      /\ message = [r \in Request |-> None] /\ outbox = [r \in Request |-> << >>]
      /\ published = [r \in Request |-> None] /\ api = [o \in Operator |-> Idle]
      /\ received = [r \in Request |-> None] /\ offered = [r \in Request |-> None]
      /\ sent = [r \in Request |-> None]
      /\ chan = [r \in Request |-> << >>] /\ got = [r \in Request |-> NoDecision]
      /\ call = [o \in Operator |-> << >>]
  BY DEF Init, G!Init
<1>2. RingTypes
  <2>1. << >> \in Seq(Request) /\ Len(<< >>) = 0 /\ 0 <= MaxCaptures
    BY MaxAssumption
  <2> QED
    BY <1>1, <2>1, EmptyParts DEF RingTypes
<1>3. MessageTypes /\ EventTypes
  BY <1>1 DEF MessageTypes, EventTypes
<1>4. CallTypes
  BY <1>1 DEF CallTypes, Idle
<1>5. ASSUME NEW r \in Request PROVE Data(r) /\ Kept(r)
  BY <1>1, EmptyParts DEF Data, Kept
<1>6. ASSUME NEW r \in Request PROVE Held(r)
  <2>1. \A d \in Decision : d # NoDecision /\ << >> # <<d>> /\ << >> # <<r, d>>
    BY DecisionAssumption
  <2>2. Idle.step = "idle"
    BY DEF Idle
  <2> QED
    BY <1>1, <2>1, <2>2 DEF Held, Made
<1> QED
  BY InitInv, <1>2, <1>3, <1>4, <1>5, <1>6 DEF KeptInv, Types

\* One step per action.
LEMMA NextKept == KeptInv /\ [Next]_vars => KeptInv'
<1> SUFFICES ASSUME KeptInv, [Next]_vars
             PROVE  Types' /\ \A q \in Request : Data(q)' /\ Kept(q)' /\ Held(q)'
  BY NextInv DEF KeptInv
<1>1. ASSUME NEW r \in Request, Serve(r)
      PROVE  Types' /\ \A q \in Request : Data(q)' /\ Kept(q)' /\ Held(q)'
  <2>1. CASE Publish(r) \/ Announce(r) \/ ApplyRules(r) \/ RecordRewrite(r)
    BY <2>1, PublishKeeps, AnnounceKeeps, ApplyRulesKeeps, RecordRewriteKeeps
  <2>2. CASE Pause(r) \/ Pass(r) \/ HandOver(r) \/ Wait(r)
    BY <2>2, PauseKeeps, PassKeeps, WaitKeeps
  <2>3. CASE Cancelled(r) \/ Dropped(r)
    BY <2>3, EndsKeeps DEF Cancelled, Dropped
  <2>4. CASE Released(r)
    BY <2>4, ReleasedKeeps
  <2> QED
    BY <1>1, <2>1, <2>2, <2>3, <2>4 DEF Serve
<1>2. ASSUME NEW r \in Request, NEW m \in Incoming, Arrive(r, m)
      PROVE  Types' /\ \A q \in Request : Data(q)' /\ Kept(q)' /\ Held(q)'
  BY <1>2, ArriveKeeps
<1>3. ASSUME NEW o \in Operator, Admin(o)
      PROVE  Types' /\ \A q \in Request : Data(q)' /\ Kept(q)' /\ Held(q)'
  BY <1>3, AdminKeeps
<1>4. ASSUME NEW o \in Operator, NEW r \in Request,
             PostDrop(o, r) \/ \E e \in Edit : PostForward(o, r, e)
      PROVE  Types' /\ \A q \in Request : Data(q)' /\ Kept(q)' /\ Held(q)'
  BY <1>4, PostKeeps
<1>5. ASSUME ClearCaptures \/ UNCHANGED vars \/ \E r \in Request : Leave(r)
      PROVE  Types' /\ \A q \in Request : Data(q)' /\ Kept(q)' /\ Held(q)'
  <2>1. /\ UNCHANGED <<pc, message, outbox, published, received, offered, sent, api, call, chan, got>>
        /\ ring' = ring \/ ring' = EmptyRing
    BY <1>5 DEF ClearCaptures, Clear, vars, Leave, G!ClientGone, apiFrame, gateVars, history
  <2>2. CallTypes'
    BY <2>1 DEF KeptInv, Types, CallTypes
  <2> QED
    BY <2>1, <2>2, MadeStays, QuietKeeps
<1> QED
  BY <1>1, <1>2, <1>3, <1>4, <1>5 DEF Next

LEMMA SpecKept == Spec => []KeptInv
BY InitKept, NextKept, PTL DEF Spec

LEMMA KeptTypes == KeptInv => TypeOK
<1> SUFFICES ASSUME KeptInv PROVE TypeOK
  OBVIOUS
<1>1. /\ RingTypes /\ MessageTypes /\ EventTypes /\ CallTypes /\ Shape /\ GP!TypeOK
      /\ \A r \in Request : Kept(r)
  BY DEF KeptInv, Types, Inv, GP!Inv
<1>2. Stored(ring) \subseteq Request /\ Len(ring.order) <= MaxCaptures
      /\ \A r \in Stored(ring) : ring.captures[r] \in Capture
  BY <1>1 DEF RingTypes, Kept, Standing
<1>3. G!TypeOK
  BY <1>1 DEF GP!TypeOK, G!TypeOK
<1>4. {message, received, offered, sent} \subseteq [Request -> Message \cup {None}]
  BY <1>1 DEF MessageTypes
<1>5. ASSUME NEW r \in Request
      PROVE  outbox[r] \in {<< >>} \cup {<<c>> : c \in Capture \cup {None}}
  BY <1>1 DEF EventTypes
<1> QED
  BY <1>1, <1>2, <1>3, <1>4, <1>5 DEF TypeOK, Shape, Places, EventTypes, CallTypes

\* Whatever clients, operators and the ring do, every variable keeps its
\* type; the map holds captures of requests, and no more than -max-captures
\* are listed.
THEOREM TypeCorrect == Spec => []TypeOK
BY SpecKept, KeptTypes, PTL

\* A request that has left the host is shown as it was sent, and one that is
\* not marked as modified was sent as it arrived: handleForward may compare
\* the edit with a capture that a rule rewrites afterwards, but then the
\* capture is marked before the edit goes out.
THEOREM ShownAsSent == Spec => []CaptureShowsSent
<1>1. KeptInv => CaptureShowsSent
  <2> SUFFICES ASSUME KeptInv, NEW r \in Stored(ring), sent[r] # None
               PROVE  /\ ring.captures[r].request = sent[r]
                      /\ ~ring.captures[r].modified => sent[r] = received[r]
    BY DEF CaptureShowsSent
  <2>1. r \in Request
    BY DEF KeptInv, Types, RingTypes
  <2>2. Data(r) /\ Standing(r, ring.captures[r])
    BY <2>1 DEF KeptInv, Kept
  <2> QED
    BY <2>2 DEF Data, Standing
<1> QED
  BY <1>1, SpecKept, PTL

\* When the gate is done with a request, the subscribers have its capture as
\* the store holds it: no change was left unannounced.
THEOREM PublishedCurrent == Spec => []PublishedIsCurrent
<1>1. KeptInv => PublishedIsCurrent
  <2> SUFFICES ASSUME KeptInv, NEW r \in Stored(ring), At(r, "done")
               PROVE  published[r] = ring.captures[r]
    BY DEF PublishedIsCurrent
  <2>1. r \in Request
    BY DEF KeptInv, Types, RingTypes
  <2>2. Standing(r, ring.captures[r])
    BY <2>1 DEF KeptInv, Kept
  <2> QED
    BY <2>2 DEF At, Standing, Known
<1> QED
  BY <1>1, SpecKept, PTL
=============================================================================
