------------------------------- MODULE Answer -------------------------------
(***************************************************************************)
(* What the clients of the proxy are promised, whatever it does upstream   *)
(* to obtain an answer: one status line for each request, and under it     *)
(* either a local error or the stream of a single upstream attempt, which  *)
(* is appended to, never taken back, and over when the handler returns.    *)
(***************************************************************************)
EXTENDS SequencesExt

CONSTANTS Request,
          Attempt,     \* upstream attempts
          ErrorPage    \* not an attempt: the proxy answers by itself

VARIABLES heads,     \* heads[r]: status lines written: attempts, or ErrorPage
          body,      \* body[r]: the pieces written, each naming its attempt
          closed     \* closed[r]: the handler has returned

vars == <<heads, body, closed>>

Init == /\ heads = [r \in Request |-> << >>]
        /\ body = [r \in Request |-> << >>]
        /\ closed = [r \in Request |-> FALSE]

From(k, ts) == \A i \in 1 .. Len(ts) : ts[i].from = k

\* Nothing is written to the client of another request.
Only(r) ==
    /\ ~closed[r]
    /\ \A q \in Request \ {r} :
           heads'[q] = heads[q] /\ body'[q] = body[q] /\ closed'[q] = closed[q]

\* The status line of attempt k, with the first pieces if they are known.
Start(r, k) ==
    /\ heads[r] = << >> /\ heads'[r] = <<k>>
    /\ From(k, body'[r])

Reject(r) ==
    /\ heads[r] = << >> /\ heads'[r] = <<ErrorPage>>
    /\ body'[r] = << >>
    /\ closed'[r]

\* More of the same stream, or its end.
Deliver(r) ==
    /\ heads[r] # << >> /\ heads'[r] = heads[r]
    /\ IsPrefix(body[r], body'[r])
    /\ From(Head(heads[r]), body'[r])

Next == \E r \in Request :
            /\ Only(r)
            /\ (\E k \in Attempt : Start(r, k)) \/ Reject(r) \/ Deliver(r)

Spec == Init /\ [][Next]_vars
=============================================================================
