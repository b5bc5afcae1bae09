------------------------------- MODULE MCGate -------------------------------
(***************************************************************************)
(* Small instances of Gate.  Tokens: "in" is what the client sent,         *)
(* "edit" what an operator typed; "ruled" is what a rule leaves behind.    *)
(***************************************************************************)
EXTENDS Gate

Msg(u, h, b) == [f \in Field |-> CASE f = "url" -> u [] f = "headers" -> h [] f = "body" -> b]

\* A client's message.
IncomingDef == {Msg("in", "in", "in")}

\* The operator forwards the message as it came in, changes the body and
\* leaves the rest out, or posts what the rules had made of the body.
EditDef == {Msg("in", "in", "in"), Msg("omitted", "omitted", "edit"),
            Msg("in", "in", "ruled")}

RuleTargetDef == {"body"}
=============================================================================
