------------------------------- MODULE Engine -------------------------------
(***************************************************************************)
(* The functions of bytes that requests and answers go through: the        *)
(* match-and-replace engine (internal/rules), the classifier of a buffered *)
(* stream, the rewriting of a request for its retry, what leaves for       *)
(* upstream (internal/proxy) and what a replay starts from (internal/api). *)
(* Gate and Exchange only know that they rewrite, decide and merge.        *)
(*                                                                         *)
(* A text is a sequence of symbols.  A message maps each of its parts, the *)
(* url, the body and its headers, to the list of its values; url and body  *)
(* have one, and a header that is absent is not in the domain.             *)
(***************************************************************************)
EXTENDS Integers, SequencesExt

CONSTANTS None,
          Tier,      \* the beta token that stripBetaTokens removes
          Blank,     \* what is left of a token that is only white space
          MaxPeek    \* the peek window, in symbols

\* The classifier's "" is no verdict.
ASSUME EngineAssumption == None \notin {"refusal", "passthrough"} /\ MaxPeek \in Nat

\* http.CanonicalHeaderKey, for the spellings of a header that occur.
Canonical(key) == IF key = "anthropic-beta" THEN "Anthropic-Beta" ELSE key

-----------------------------------------------------------------------------
\* A regular expression is a word, anywhere or at the start of the text; the
\* empty word only at the start (compile rejects the empty expression).
Occurs(re, text, i) ==
    /\ i + Len(re.word) - 1 <= Len(text)
    /\ SubSeq(text, i, i + Len(re.word) - 1) = re.word
    /\ re.anchored => i = 1

\* Mutant of Rewritten: the first match only.
RewrittenOnce(r, text) ==
    LET at == {i \in 1 .. Len(text) + 1 : Occurs(r, text, i)}
    IN  IF at = {} THEN text
        ELSE LET i == CHOOSE i \in at : \A j \in at : i <= j
             IN  SubSeq(text, 1, i - 1) \o r.replacement
                 \o SubSeq(text, i + Len(r.word), Len(text))

\* regexp.ReplaceAll: leftmost matches that do not overlap.
\* What it makes of the text from position i on.
RewrittenFrom(r, text) ==
    LET from[i \in 1 .. Len(text) + 1] ==
            IF Occurs(r, text, i) /\ r.word # << >>
            THEN r.replacement \o from[i + Len(r.word)]
            ELSE (IF Occurs(r, text, i) THEN r.replacement ELSE << >>)
                 \o (IF i > Len(text) THEN << >> ELSE <<text[i]>> \o from[i + 1])
    IN  from

Rewritten(r, text) == RewrittenFrom(r, text)[1]

\* Mutant of ApplyRule: the flag tells of the last rule only.
ApplyRuleLastFlag(done, r) ==
    LET new == [i \in DOMAIN done.msg[r.part] |-> Rewritten(r, done.msg[r.part][i])]
    IN  IF r.part \notin DOMAIN done.msg THEN done
        ELSE [msg |-> [done.msg EXCEPT ![r.part] = new],
              modified |-> new # done.msg[r.part]]

\* One round of the loops: a rule for a header the message does not have,
\* and one for an empty body, is skipped.
ApplyRule(done, r) ==
    IF r.part \notin DOMAIN done.msg \/ (r.part = "body" /\ done.msg.body = << << >> >>)
    THEN done
    ELSE LET new == [i \in DOMAIN done.msg[r.part] |-> Rewritten(r, done.msg[r.part][i])]
         IN  [msg |-> [done.msg EXCEPT ![r.part] = new],
              modified |-> done.modified \/ new # done.msg[r.part]]

\* Mutant of Apply: a rule for an absent header ends the loop.
ApplyUntilAbsent(rs, phase, msg) ==
    LET mine == {i \in DOMAIN rs : rs[i].enabled /\ rs[i].phase = phase}
        done[i \in 0 .. Len(rs)] ==
            IF i = 0 THEN [msg |-> msg, modified |-> FALSE]
            ELSE IF i \in mine /\ \A j \in mine : j <= i => rs[j].part \in DOMAIN msg
            THEN ApplyRule(done[i - 1], rs[i])
            ELSE done[i - 1]
    IN  done[Len(rs)]

\* The loop over the rules: the message, and the flag, after each of them.
Rounds(rs, phase, msg) ==
    LET done[i \in 0 .. Len(rs)] ==
            IF i = 0 THEN [msg |-> msg, modified |-> FALSE]
            ELSE IF rs[i].enabled /\ rs[i].phase = phase
            THEN ApplyRule(done[i - 1], rs[i])
            ELSE done[i - 1]
    IN  done

\* ApplyRequest; with phase "response", ApplyResponseHeaders for a message
\* that has headers only and ApplyResponseBody for one that is a body.
Apply(rs, phase, msg) == Rounds(rs, phase, msg)[Len(rs)]

ApplyResponseBody(rs, chunk) == Apply(rs, "response", [body |-> <<chunk>>]).msg.body[1]

-----------------------------------------------------------------------------
\* forward, 187-195: what upstream gets.  Header.Add puts the spellings of a
\* name together, in the order in which the map is walked.
Skipped == {"Connection", "Accept-Encoding"}

Outgoing(msg) ==
    [k \in {Canonical(j) : j \in DOMAIN msg \ Skipped} |->
        {msg[j] : j \in {j \in DOMAIN msg : Canonical(j) = k}}]

\* ServeHTTP, 105-114: the capture is updated when a rule changed something.
Captured(rs, msg) ==
    LET done == Apply(rs, "request", msg) IN IF done.modified THEN done.msg ELSE msg

\* handleReplay: what the post leaves out is taken from the capture; an empty
\* url or body counts as left out.
Replayed(post, capture) ==
    LET headers == IF post.headers # None THEN post.headers
                   ELSE [k \in DOMAIN capture \ {"url", "body"} |-> capture[k]]
    IN  [p \in {"url", "body"} \cup DOMAIN headers |->
            IF p \notin {"url", "body"} THEN headers[p]
            ELSE IF post[p] = << << >> >> THEN capture[p] ELSE post[p]]

-----------------------------------------------------------------------------
\* classifyStreamPrefix: a marker is two symbols, which a read may separate.
Marked(prefix, marker) ==
    \E i \in 1 .. Len(prefix) - 1 : SubSeq(prefix, i, i + 1) = marker

Refusal == <<"stop", "refusal">>

Content == {<<"block", "text">>, <<"stop", "end_turn">>}

Classify(prefix) ==
    CASE Marked(prefix, Refusal) -> "refusal"
      [] ~Marked(prefix, Refusal) /\ (\E m \in Content : Marked(prefix, m)) -> "passthrough"
      [] OTHER -> None

\* Mutant of Peek: a read is classified by itself.
PeekReads(stream, cuts) ==
    LET Read(c)  == SubSeq(stream, 1 + Max({d \in cuts \cup {0} : d < c}), c)
        decided  == {c \in cuts : Classify(Read(c)) # None \/ c >= MaxPeek}
    IN  IF decided = {} \/ Classify(Read(Min(decided))) = None THEN "passthrough"
        ELSE Classify(Read(Min(decided)))

\* The loop of streamWithFallback, 349-383, for a stream whose reads end at
\* the cuts: the first read after which the prefix is decided, or reaches the
\* limit, decides; so does the end of the stream.
Peek(stream, cuts) ==
    LET decided == {c \in cuts : Classify(SubSeq(stream, 1, c)) # None \/ c >= MaxPeek}
    IN  IF decided = {} \/ Classify(SubSeq(stream, 1, Min(decided))) = None
        THEN "passthrough"
        ELSE Classify(SubSeq(stream, 1, Min(decided)))

-----------------------------------------------------------------------------
\* The loops of stripBetaTokens: what is kept of the first i elements.
KeptUpTo(s, remove) ==
    LET kept[i \in 0 .. Len(s)] ==
            IF i = 0 THEN << >>
            ELSE IF s[i] \in remove THEN kept[i - 1] ELSE Append(kept[i - 1], s[i])
    IN  kept

Kept(s, remove) == KeptUpTo(s, remove)[Len(s)]

\* A value is the list of its comma-separated tokens; one that has none left
\* is not kept.
StripBetaTokens(values, remove) ==
    Kept([i \in DOMAIN values |-> Kept(values[i], remove \cup {Blank})], {<< >>})

\* Mutant of PrepareHeaders: the name is compared as it is spelled.
PrepareHeadersExact(headers) ==
    [k \in DOMAIN headers |->
        IF k = "Anthropic-Beta" THEN StripBetaTokens(headers[k], {Tier}) ELSE headers[k]]

PrepareHeaders(headers) ==
    [k \in DOMAIN headers |->
        IF Canonical(k) = "Anthropic-Beta" THEN StripBetaTokens(headers[k], {Tier})
        ELSE headers[k]]

\* PrepareFallback: a body that is not a JSON object fails, and "null", which
\* leaves the map nil, panics at the assignment of the model.
PrepareFallback(body, headers, newModel) ==
    CASE body.json = "other" -> [outcome |-> "error"]
      [] body.json = "null"  -> [outcome |-> "panic"]
      [] OTHER ->
           [outcome |-> "retry",
            body    |-> [body EXCEPT !.model = newModel,
                                     !.effort = IF @ = "xhigh" THEN "max" ELSE @],
            headers |-> PrepareHeaders(headers)]
=============================================================================
