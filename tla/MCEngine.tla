------------------------------ MODULE MCEngine ------------------------------
(***************************************************************************)
(* Every bounded input of the functions of Engine, and what must hold of   *)
(* their results.  A job is one input; nothing happens after it.           *)
(***************************************************************************)
EXTENDS Engine

VARIABLE job

CONSTANTS MaxText,     \* bound of the run: symbols of a text
          MaxStream,   \* bound of the run: symbols of a peeked stream
          MaxRules     \* bound of the run: length of a rule list

Text == SeqOf({"a", "b"}, MaxText)

Rule(parts, phases) ==
    [enabled : {TRUE}, phase : phases, part : parts, anchored : {FALSE},
     word : {<<"a">>, <<"a", "b">>}, replacement : {<<"b">>, <<"a", "a">>}]

\* `^`, which matches the start of anything; a disabled rule.
Special ==
    [enabled : BOOLEAN, phase : {"request"}, part : {"body"}, anchored : {TRUE},
     word : {<< >>}, replacement : {<<"b">>}]

\* Words that overlap themselves, replacements that vanish or match again.
BodyRule ==
    [enabled : {TRUE}, phase : {"response"}, part : {"body"}, anchored : {FALSE},
     word : {<<"a">>, <<"a", "b">>, <<"a", "a">>},
     replacement : {<< >>, <<"a">>, <<"b", "a">>}]

Message ==
    {[p \in {"url", "body"} \cup DOMAIN hs |->
         IF p = "url" THEN <<u>> ELSE IF p = "body" THEN <<b>> ELSE hs[p]] :
        u \in {<<"a">>, <<"a", "b">>}, b \in Text,
        hs \in {<< >>, [Connection |-> << <<"a">> >>],
                [X |-> << <<"a", "b">>, <<"b">> >>]}}

Beta == SeqOf({Tier, "beta", Blank}, 2)

Headers ==
    {[k \in {"Anthropic-Beta", "X"} |-> v] : v \in SeqOf(Beta, 2)}
    \cup [{"Anthropic-Beta", "anthropic-beta"} -> {<<v>> : v \in Beta}]

Body == [json : {"object", "null", "other"}, model : {"old"},
         effort : {None, "xhigh", "low"}]

Init == job = [kind |-> "none"]

RewriteRequest ==
    \E rs \in SeqOf(Rule({"url", "body", "X"}, {"request"})
                    \cup Rule({"body"}, {"response"}) \cup Special, MaxRules),
       m \in Message : job' = [kind |-> "request", rules |-> rs, message |-> m]

RewriteChunks ==
    \E rs \in SeqOf(BodyRule, 2), s, t \in Text :
        job' = [kind |-> "chunks", rules |-> rs, first |-> s, second |-> t]

PeekStream ==
    \E s \in SeqOf({"stop", "block", "refusal", "text", "end_turn"}, MaxStream) \ {<< >>} :
        \E cuts \in SUBSET (1 .. Len(s)) :
            job' = [kind |-> "stream", stream |-> s, cuts |-> cuts \cup {Len(s)}]

PrepareRetry ==
    \E b \in Body, hs \in Headers :
        job' = [kind |-> "retry", body |-> b, headers |-> hs]

Next == /\ job.kind = "none"
        /\ RewriteRequest \/ RewriteChunks \/ PeekStream \/ PrepareRetry

Spec == Init /\ [][Next]_job
-----------------------------------------------------------------------------
\* The same list, with only the rules for one part enabled.
OnlyFor(rs, part) ==
    [i \in DOMAIN rs |->
        IF rs[i].part = part THEN rs[i] ELSE [rs[i] EXCEPT !.enabled = FALSE]]

\* A part of a request comes out as if the rules for the other parts were
\* disabled (ApplyRequest, rules.go:114-157): no rule that is skipped, fails to
\* match or empties its text keeps a later one from its work.
PartsAreIndependent ==
    job.kind = "request" =>
        \A p \in DOMAIN job.message :
            Apply(job.rules, "request", job.message).msg[p] =
            Apply(OnlyFor(job.rules, p), "request", job.message).msg[p]

\* A capture replays what was sent (api.go:356-371, proxy.go:105-114): with
\* the rules gone, a replay of the capture as it is, or with an empty post,
\* sends upstream what the rules had made of the request, for the capture
\* holds every change they made.
ReplaySendsTheSame ==
    job.kind = "request" =>
        LET capture == Captured(job.rules, job.message)
            headers == [k \in DOMAIN capture \ {"url", "body"} |-> capture[k]]
            sent    == Outgoing(Apply(job.rules, "request", job.message).msg)
        IN  \A post \in {[url |-> << << >> >>, body |-> << << >> >>, headers |-> None],
                         [url |-> capture.url, body |-> capture.body, headers |-> headers]} :
                Outgoing(Apply(<< >>, "request", Replayed(post, capture)).msg) = sent

\* A match lies across the cut between two chunks.
Straddles(r, s, t) ==
    \E i \in 1 .. Len(s) : i + Len(r.word) - 1 > Len(s) /\ Occurs(r, s \o t, i)

\* "a match that spans a chunk boundary is missed" (rules.go:4-5), and nothing
\* else is: where no rule has a match across the cut, in the text as the rules
\* before it have left it, chunk by chunk gives what the whole body would.
\* (Unanchored expressions; one with an anchor matches in every chunk.)
CutsOnlyHideMatches ==
    job.kind = "chunks" =>
        LET Out(n, s) == ApplyResponseBody(SubSeq(job.rules, 1, n), s)
            all == Len(job.rules)
        IN  (\A n \in 1 .. all :
                 ~Straddles(job.rules[n], Out(n - 1, job.first), Out(n - 1, job.second)))
            => Out(all, job.first) \o Out(all, job.second)
               = Out(all, job.first \o job.second)

\* A refusal that comes before any content, and within the window, is
\* recognised however the bytes fall into reads (proxy.go:349-383), also when
\* its marker is torn apart; and nothing else is taken for one.
EarlyRefusalIsSeen ==
    job.kind = "stream" =>
        LET s == job.stream
            Ends(m) == {i \in 2 .. Len(s) : SubSeq(s, i - 1, i) = m}
            early == {i \in Ends(Refusal) :
                         i <= MaxPeek /\ \A m \in Content : \A j \in Ends(m) : i < j}
        IN  /\ early # {} => Peek(s, job.cuts) = "refusal"
            /\ Peek(s, job.cuts) = "refusal" => Ends(Refusal) # {}

\* The retry is acceptable to the other model and otherwise the same request
\* (proxy.go:550-558): the model is replaced, no effort it does not know and
\* no token of the extra tier is left under any spelling of the header, and
\* every other token arrives, in order.
RetryIsAcceptable ==
    job.kind = "retry" =>
        LET p == PrepareFallback(job.body, job.headers, "new")
        IN  /\ p.outcome = "retry" <=> job.body.json = "object"
            /\ p.outcome = "retry" =>
                 /\ p.body.model = "new" /\ p.body.effort # "xhigh"
                 /\ job.body.effort # "xhigh" => p.body.effort = job.body.effort
                 /\ \A vs \in Outgoing(p.headers)["Anthropic-Beta"] :
                        Tier \notin ToSet(FlattenSeq(vs))
                 /\ \A k \in DOMAIN job.headers :
                        LET all == FlattenSeq(job.headers[k])
                        IN  FlattenSeq(p.headers[k]) =
                            IF k = "X" THEN all ELSE Kept(all, {Tier, Blank})
=============================================================================
