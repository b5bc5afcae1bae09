------------------------------- MODULE OneShot ------------------------------
(***************************************************************************)
(* What the intercept gate promises the proxy about one paused request:    *)
(* it ends once, either with the first decision that was accepted for it   *)
(* or without one when its client has gone; a request for which a decision *)
(* was accepted does not stay paused.                                      *)
(***************************************************************************)
CONSTANTS Request, Decision, NoDecision

VARIABLES first,     \* first[r]: the first decision accepted for r, if any
          outcome,   \* outcome[r]: "open", NoDecision (cancelled) or a decision
          gone       \* gone[r]: the client of r has gone

vars == <<first, outcome, gone>>

TypeOK ==
    /\ first \in [Request -> Decision \cup {NoDecision}]
    /\ outcome \in [Request -> Decision \cup {NoDecision, "open"}]
    /\ gone \in [Request -> BOOLEAN]

Init == /\ first = [r \in Request |-> NoDecision]
        /\ outcome = [r \in Request |-> "open"]
        /\ gone = [r \in Request |-> FALSE]

Leave(r) ==
    /\ ~gone[r]
    /\ gone' = [gone EXCEPT ![r] = TRUE]
    /\ UNCHANGED <<first, outcome>>

Decide(r, d) ==
    /\ first[r] = NoDecision
    /\ first' = [first EXCEPT ![r] = d]
    /\ UNCHANGED <<outcome, gone>>

Resolve(r) ==
    /\ outcome[r] = "open"
    /\ first[r] # NoDecision
    /\ outcome' = [outcome EXCEPT ![r] = first[r]]
    /\ UNCHANGED <<first, gone>>

Cancel(r) ==
    /\ outcome[r] = "open"
    /\ gone[r]
    /\ outcome' = [outcome EXCEPT ![r] = NoDecision]
    /\ UNCHANGED <<first, gone>>

Next == \E r \in Request :
            \/ \E d \in Decision : Decide(r, d)
            \/ Resolve(r)
            \/ Cancel(r)
            \/ Leave(r)

Spec == Init /\ [][Next]_vars /\ \A r \in Request : WF_vars(Resolve(r))
=============================================================================
