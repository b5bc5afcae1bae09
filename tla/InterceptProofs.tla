--------------------------- MODULE InterceptProofs --------------------------
(***************************************************************************)
(* The safety of the intercept gate for any number of requests, operators  *)
(* and decisions, and its refinement of OneShot (safety part).             *)
(***************************************************************************)
EXTENDS Intercept, SequenceTheorems, TLAPS

\* A goroutine that has not chosen has nothing, and one that is not yet in
\* Await has an untouched channel and no operator holding it.
NotYet ==
    /\ \A r \in Request : await[r] \in {"outside", "selecting"} => got[r] = NoDecision
    /\ \A r \in Request : await[r] = "outside" => chan[r] = << >> /\ accepted[r] = << >>
    /\ \A o \in Operator : call[o] # << >> => await[call[o][1]] # "outside"

\* Every accepted decision is the one received or the one in the channel.
Accounted ==
    \A r \in Request :
        /\ got[r] = NoDecision => accepted[r] = chan[r]
        /\ got[r] # NoDecision =>
               Len(accepted[r]) = 1 + Len(chan[r]) /\ accepted[r][1] = got[r]

Inv == TypeOK /\ PendingIsInside /\ NotYet /\ Accounted

USE NoDecisionAssumption

LEMMA InitInv == Init => Inv
<1> SUFFICES ASSUME Init PROVE Inv
  OBVIOUS
<1>1. TypeOK
  BY DEF Init, TypeOK
<1>2. PendingIsInside /\ NotYet /\ Accounted
  BY DEF Init, PendingIsInside, NotYet, Accounted
<1> QED
  BY <1>1, <1>2 DEF Inv

\* Await's own steps.
LEMMA RegisterInv ==
    ASSUME Inv, NEW r \in Request, Register(r) PROVE Inv'
<1> USE DEF Inv
<1>1. TypeOK'
  BY DEF TypeOK, Register
<1>2. PendingIsInside'
  BY DEF TypeOK, PendingIsInside, Register
<1>3. NotYet'
  BY DEF TypeOK, NotYet, Register
<1>4. Accounted'
  BY DEF TypeOK, NotYet, Accounted, Register
<1> QED
  BY <1>1, <1>2, <1>3, <1>4

LEMMA ReceiveInv ==
    ASSUME Inv, NEW r \in Request, Receive(r) PROVE Inv'
<1> USE DEF Inv
<1>1. PICK d \in Decision : chan[r] = <<d>>
  BY DEF TypeOK, Receive
<1>2. got' = [got EXCEPT ![r] = d] /\ chan' = [chan EXCEPT ![r] = << >>]
  BY <1>1 DEF Receive
<1>3. TypeOK'
  BY <1>2 DEF TypeOK, Receive
<1>4. PendingIsInside'
  BY DEF TypeOK, PendingIsInside, Receive
<1>5. NotYet'
  BY <1>2 DEF TypeOK, NotYet, Receive
<1>6. Accounted'
  <2>1. accepted'[r] = <<d>> /\ got'[r] = d /\ chan'[r] = << >> /\ d # NoDecision
    BY <1>1, <1>2 DEF TypeOK, NotYet, Accounted, Receive
  <2>2. ASSUME NEW q \in Request, q # r
        PROVE  got'[q] = got[q] /\ chan'[q] = chan[q] /\ accepted'[q] = accepted[q]
    BY <2>2, <1>2 DEF TypeOK, Receive
  <2>3. Len(accepted'[r]) = 1 + Len(chan'[r]) /\ accepted'[r][1] = got'[r]
    BY <2>1
  <2> QED
    BY <2>1, <2>2, <2>3 DEF Accounted
<1> QED
  BY <1>3, <1>4, <1>5, <1>6

LEMMA GiveUpInv ==
    ASSUME Inv, NEW r \in Request, GiveUp(r) PROVE Inv'
<1> USE DEF Inv
<1>1. got' = got
  BY DEF TypeOK, NotYet, GiveUp
<1>2. TypeOK'
  BY DEF TypeOK, GiveUp
<1>3. PendingIsInside'
  BY DEF TypeOK, PendingIsInside, GiveUp
<1>4. NotYet' /\ Accounted'
  BY <1>1 DEF TypeOK, NotYet, Accounted, GiveUp
<1> QED
  BY <1>2, <1>3, <1>4

LEMMA DeregisterInv ==
    ASSUME Inv, NEW r \in Request, Deregister(r) PROVE Inv'
<1> USE DEF Inv
<1>1. TypeOK'
  BY DEF TypeOK, Deregister
<1>2. PendingIsInside'
  BY DEF TypeOK, PendingIsInside, Deregister
<1>3. NotYet' /\ Accounted'
  BY DEF TypeOK, NotYet, Accounted, Deregister
<1> QED
  BY <1>1, <1>2, <1>3

\* Decide's steps: the channel it sends to is that of a request that entered
\* Await, though it may have left since.
LEMMA LookupInv ==
    ASSUME Inv, NEW o \in Operator, NEW r \in Request, NEW d \in Decision,
           Lookup(o, r, d)
    PROVE  Inv'
<1> USE DEF Inv
<1>1. TypeOK'
  BY DEF TypeOK, Lookup
<1>2. call'[o] = <<r, d>> /\ \A p \in Operator : p # o => call'[p] = call[p]
  BY DEF TypeOK, Lookup
<1>3. await[r] # "outside" /\ await' = await
  BY DEF PendingIsInside, Lookup
<1>4. NotYet'
  BY <1>2, <1>3 DEF NotYet, Lookup
<1>5. PendingIsInside' /\ Accounted'
  BY DEF PendingIsInside, Accounted, Lookup
<1> QED
  BY <1>1, <1>4, <1>5

LEMMA AcceptInv ==
    ASSUME Inv, NEW o \in Operator, Accept(o) PROVE Inv'
<1> USE DEF Inv
<1>1. PICK r \in Request, d \in Decision : call[o] = <<r, d>>
  BY DEF TypeOK, Accept
<1>2. /\ chan[r] = << >>
      /\ chan' = [chan EXCEPT ![r] = <<d>>]
      /\ accepted' = [accepted EXCEPT ![r] = Append(accepted[r], d)]
      /\ call' = [call EXCEPT ![o] = << >>]
      /\ UNCHANGED <<pending, await, got, ctxDone>>
  BY <1>1 DEF Accept, TypeOK
<1>3. Append(accepted[r], d) \in Seq(Decision)
  BY AppendProperties DEF TypeOK
<1>4. TypeOK'
  BY <1>2, <1>3 DEF TypeOK
<1>5. PendingIsInside'
  BY <1>2 DEF PendingIsInside
<1>6. NotYet'
  <2>1. await[r] # "outside"
    BY <1>1 DEF NotYet
  <2> QED
    BY <1>2, <2>1 DEF NotYet, TypeOK
<1>7. Accounted'
  <2>1. chan'[r] = <<d>> /\ accepted'[r] = Append(accepted[r], d) /\ got'[r] = got[r]
    BY <1>2 DEF TypeOK
  <2>2. ASSUME NEW q \in Request, q # r
        PROVE  got'[q] = got[q] /\ chan'[q] = chan[q] /\ accepted'[q] = accepted[q]
    BY <1>2, <2>2 DEF TypeOK
  <2>3. ASSUME got[r] = NoDecision PROVE accepted'[r] = chan'[r]
    <3>1. accepted[r] = << >>
      BY <1>2, <2>3 DEF Accounted
    <3> QED
      BY <2>1, <3>1
  <2>4. ASSUME got[r] # NoDecision
        PROVE  Len(accepted'[r]) = 1 + Len(chan'[r]) /\ accepted'[r][1] = got[r]
    <3>1. Len(accepted[r]) = 1 + Len(chan[r]) /\ accepted[r][1] = got[r]
      BY <2>4 DEF Accounted
    <3>2. Len(chan[r]) = 0 /\ Len(chan'[r]) = 1
      BY <1>2, <2>1
    <3>3. /\ Len(accepted'[r]) = Len(accepted[r]) + 1
          /\ \A i \in 1 .. Len(accepted[r]) : accepted'[r][i] = accepted[r][i]
      BY <2>1, AppendProperties DEF TypeOK
    <3> QED
      BY <3>1, <3>2, <3>3
  <2> QED
    BY <2>1, <2>2, <2>3, <2>4 DEF Accounted
<1> QED
  BY <1>4, <1>5, <1>6, <1>7

LEMMA NextInv == Inv /\ [Next]_vars => Inv'
<1> SUFFICES ASSUME Inv, [Next]_vars PROVE Inv'
  OBVIOUS
<1>1. ASSUME NEW r \in Request, AwaitStep(r) PROVE Inv'
  BY <1>1, RegisterInv, ReceiveInv, GiveUpInv, DeregisterInv DEF AwaitStep
<1>2. ASSUME NEW r \in Request, ClientGone(r) PROVE Inv'
  BY <1>2 DEF Inv, ClientGone, TypeOK, PendingIsInside, NotYet, Accounted
<1>3. ASSUME NEW o \in Operator, Accept(o) PROVE Inv'
  BY <1>3, AcceptInv
<1>4. ASSUME NEW o \in Operator, Refuse(o) PROVE Inv'
  <2>1. TypeOK'
    BY <1>4 DEF Inv, Refuse, TypeOK
  <2>2. PendingIsInside' /\ NotYet' /\ Accounted'
    BY <1>4 DEF Inv, Refuse, TypeOK, PendingIsInside, NotYet, Accounted
  <2> QED
    BY <2>1, <2>2 DEF Inv
<1>5. ASSUME NEW o \in Operator, NEW r \in Request, NEW d \in Decision, Lookup(o, r, d)
      PROVE  Inv'
  BY <1>5, LookupInv
<1>6. CASE UNCHANGED vars
  BY <1>6 DEF vars, Inv, TypeOK, PendingIsInside, NotYet, Accounted
<1> QED
  BY <1>1, <1>2, <1>3, <1>4, <1>5, <1>6 DEF Next, DecideStep

LEMMA Invariance == Spec => []Inv
BY InitInv, NextInv, PTL DEF Spec

-----------------------------------------------------------------------------
THEOREM TypeCorrect == Spec => []TypeOK
<1>1. Inv => TypeOK
  BY DEF Inv
<1> QED
  BY <1>1, Invariance, PTL

\* The map of the gate holds the requests inside Await and no other.
THEOREM NoLeakedEntry == Spec => []PendingIsInside
<1>1. Inv => PendingIsInside
  BY DEF Inv
<1> QED
  BY <1>1, Invariance, PTL

\* However many operators race, a request follows the first decision that
\* was accepted for it.
THEOREM FirstWins == Spec => []FirstAcceptedWins
<1>1. Inv => FirstAcceptedWins
  <2> SUFFICES ASSUME Inv, NEW r \in Request, got[r] # NoDecision
               PROVE  accepted[r] # << >> /\ got[r] = Head(accepted[r])
    BY DEF FirstAcceptedWins
  <2>1. Len(accepted[r]) = 1 + Len(chan[r]) /\ accepted[r][1] = got[r]
    BY DEF Inv, Accounted
  <2>2. Len(chan[r]) \in Nat /\ accepted[r] \in Seq(Decision)
    BY DEF Inv, TypeOK
  <2>3. accepted[r] # << >>
    BY <2>1, <2>2
  <2> QED
    BY <2>1, <2>2, <2>3
<1> QED
  BY <1>1, Invariance, PTL

\* For no number of operators is Decide true more than twice for a request.
THEOREM AcceptedTwiceAtMost == Spec => []AtMostTwoAccepted
<1>1. Inv => AtMostTwoAccepted
  <2> SUFFICES ASSUME Inv, NEW r \in Request PROVE Len(accepted[r]) <= 2
    BY DEF AtMostTwoAccepted
  <2>1. chan[r] = << >> \/ \E d \in Decision : chan[r] = <<d>>
    BY DEF Inv, TypeOK
  <2>2. Len(chan[r]) = 0 \/ Len(chan[r]) = 1
    <3>1. CASE chan[r] = << >>
      BY <3>1, EmptySeq
    <3>2. ASSUME NEW d \in Decision, chan[r] = <<d>> PROVE Len(chan[r]) = 1
      BY <3>2
    <3> QED
      BY <2>1, <3>1, <3>2
  <2>3. PICK n : n = Len(accepted[r])
    OBVIOUS
  <2>4. PICK m : m = Len(chan[r])
    OBVIOUS
  <2>5. m = 0 \/ m = 1
    BY <2>2, <2>4
  <2>6. n = m \/ n = 1 + m
    <3>1. CASE got[r] = NoDecision
      BY <2>3, <2>4, <3>1 DEF Inv, Accounted
    <3>2. CASE got[r] # NoDecision
      BY <2>3, <2>4, <3>2 DEF Inv, Accounted
    <3> QED
      BY <3>1, <3>2
  <2>7. n <= 2
    BY <2>5, <2>6
  <2> QED
    BY <2>3, <2>7
<1> QED
  BY <1>1, Invariance, PTL
-----------------------------------------------------------------------------
\* The steps of the gate are steps of its promise, or stutter.
LEMMA AcceptDecides ==
    ASSUME Inv, NEW o \in Operator, Accept(o)
    PROVE  [Promise!Next]_(Promise!vars)
<1>1. PICK r \in Request, d \in Decision : call[o] = <<r, d>>
  BY DEF Inv, TypeOK, Accept
<1>2. /\ accepted' = [accepted EXCEPT ![r] = Append(accepted[r], d)]
      /\ UNCHANGED <<await, got, ctxDone>>
  BY <1>1 DEF Accept, Inv, TypeOK
<1>3. Outcome' = Outcome
  BY <1>2 DEF Outcome
<1>4. accepted[r] \in Seq(Decision) /\ accepted'[r] = Append(accepted[r], d)
  BY <1>2 DEF Inv, TypeOK
<1>5. \A q \in Request : q # r => First'[q] = First[q]
  BY <1>2 DEF First, Inv, TypeOK
<1>6. First'[r] = IF accepted[r] = << >> THEN d ELSE Head(accepted[r])
  BY <1>4, HeadTailAppend, AppendProperties DEF First
<1>7. CASE accepted[r] = << >>
  <2>1. First[r] = NoDecision /\ First'[r] = d
    BY <1>6, <1>7 DEF First
  <2>2. First' = [First EXCEPT ![r] = d]
    BY <1>5, <2>1 DEF First
  <2>3. Promise!Decide(r, d)
    BY <1>2, <1>3, <2>1, <2>2 DEF Promise!Decide
  <2> QED
    BY <2>3 DEF Promise!Next
<1>8. CASE accepted[r] # << >>
  <2>1. First'[r] = First[r]
    BY <1>6, <1>8 DEF First
  <2>2. First' = First
    BY <1>5, <2>1 DEF First
  <2> QED
    BY <1>2, <1>3, <2>2 DEF Promise!vars
<1> QED
  BY <1>7, <1>8

LEMMA ReceiveResolves ==
    ASSUME Inv, NEW r \in Request, Receive(r)
    PROVE  Promise!Resolve(r)
<1>1. First' = First /\ ctxDone' = ctxDone
  BY DEF First, Receive
<1>2. got[r] = NoDecision /\ accepted[r] = chan[r]
  BY DEF Inv, NotYet, Accounted, Receive
<1>3. PICK d \in Decision : chan[r] = <<d>>
  BY DEF Inv, TypeOK, Receive
<1>4. First[r] = d /\ d # NoDecision
  BY <1>2, <1>3 DEF First
<1>5. Outcome[r] = "open" /\ Outcome' = [Outcome EXCEPT ![r] = d]
  <2>1. /\ await[r] = "selecting" /\ await' = [await EXCEPT ![r] = "leaving"]
        /\ got' = [got EXCEPT ![r] = d]
    BY <1>3 DEF Receive
  <2> QED
    BY <2>1 DEF Outcome, Inv, TypeOK
<1> QED
  BY <1>1, <1>4, <1>5 DEF Promise!Resolve

LEMMA GiveUpCancels ==
    ASSUME Inv, NEW r \in Request, GiveUp(r)
    PROVE  Promise!Cancel(r)
<1>1. First' = First /\ ctxDone' = ctxDone /\ ctxDone[r]
  BY DEF First, GiveUp
<1>2. Outcome[r] = "open" /\ Outcome' = [Outcome EXCEPT ![r] = NoDecision]
  BY DEF Outcome, GiveUp, Inv, TypeOK
<1> QED
  BY <1>1, <1>2 DEF Promise!Cancel

LEMMA StepRefines == Inv /\ [Next]_vars => [Promise!Next]_(Promise!vars)
<1> SUFFICES ASSUME Inv, [Next]_vars PROVE [Promise!Next]_(Promise!vars)
  OBVIOUS
<1>1. ASSUME NEW r \in Request, Receive(r) PROVE Promise!Next
  BY <1>1, ReceiveResolves DEF Promise!Next
<1>2. ASSUME NEW r \in Request, GiveUp(r) PROVE Promise!Next
  BY <1>2, GiveUpCancels DEF Promise!Next
<1>3. ASSUME NEW r \in Request, Register(r) \/ Deregister(r) PROVE UNCHANGED Promise!vars
  <2>1. First' = First /\ ctxDone' = ctxDone
    BY <1>3 DEF First, Register, Deregister
  <2>2. Outcome' = Outcome
    BY <1>3 DEF Outcome, Register, Deregister, Inv, TypeOK
  <2> QED
    BY <2>1, <2>2 DEF Promise!vars
<1>4. ASSUME UNCHANGED <<await, got, ctxDone, accepted>> PROVE UNCHANGED Promise!vars
  BY <1>4 DEF Promise!vars, First, Outcome
<1>5. ASSUME NEW r \in Request, ClientGone(r) PROVE Promise!Next
  <2>1. First' = First /\ Outcome' = Outcome
    BY <1>5 DEF ClientGone, First, Outcome
  <2>2. Promise!Leave(r)
    BY <1>5, <2>1 DEF ClientGone, Promise!Leave
  <2> QED
    BY <2>2 DEF Promise!Next
<1>6. ASSUME NEW o \in Operator, Accept(o) PROVE [Promise!Next]_(Promise!vars)
  BY <1>6, AcceptDecides
<1>7. ASSUME NEW o \in Operator, Refuse(o) PROVE UNCHANGED Promise!vars
  BY <1>4, <1>7 DEF Refuse
<1>8. ASSUME NEW o \in Operator, NEW r \in Request, NEW d \in Decision, Lookup(o, r, d)
      PROVE  UNCHANGED Promise!vars
  BY <1>4, <1>8 DEF Lookup
<1>9. CASE UNCHANGED vars
  BY <1>4, <1>9 DEF vars
<1> QED
  BY <1>1, <1>2, <1>3, <1>5, <1>6, <1>7, <1>8, <1>9 DEF Next, AwaitStep, DecideStep

LEMMA InitRefines == Init => Promise!Init
BY DEF Init, Promise!Init, First, Outcome

\* The gate implements the safety part of its promise: every behaviour of
\* Await and Decide is one of OneShot.
THEOREM GateRefinesOneShot == Spec => Promise!Init /\ [][Promise!Next]_(Promise!vars)
BY InitRefines, StepRefines, Invariance, PTL DEF Spec
=============================================================================
