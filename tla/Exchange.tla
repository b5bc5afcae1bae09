------------------------------ MODULE Exchange ------------------------------
(***************************************************************************)
(* A request from its hand-over to upstream until its client has the       *)
(* answer: forward, streamPassthrough, streamWithFallback and              *)
(* forwardWithID of internal/proxy/proxy.go.  The first attempt of request *)
(* r has the capture <<r, 1>>; when upstream refuses it before the proxy   *)
(* has committed, a second attempt is made under the capture <<r, 2>>.     *)
(*                                                                         *)
(* A piece of a response body is a token: what one Read of the body        *)
(* returned.  A step ends where the goroutine leaves s.mu or blocks, and   *)
(* the event it is about to broadcast waits in outbox, as in Gate.         *)
(***************************************************************************)
EXTENDS Ring

CONSTANTS Request,
          Kind,          \* of tokens, see Token
          ResponseRules, \* a body rule that matches every token is in force
          MaxPeek,       \* maxPeek, in tokens
          MaxChunks,     \* bound of the run: tokens of the first response
          MaxRetried,    \* bound of the run: tokens of the retry's response
          None

ASSUME ExchangeAssumption ==
    /\ Kind \subseteq {"quiet", "text", "refusal", "mixed"}
    /\ ResponseRules \in BOOLEAN
    /\ MaxPeek \in Nat \ {0}
    /\ MaxChunks \in Nat /\ MaxRetried \in Nat

Attempt == {1, 2}

\* The status line of an answer that http.Error writes.
ErrorPage == 0

\* "text" holds a marker of a committed answer, "refusal" the refusal,
\* "mixed" both, "quiet" neither (pings, message_start, thinking).
Token == [from : Attempt, kind : Kind, ruled : BOOLEAN]

\* What the client asked for: a url that does not parse; anything but a POST
\* of /v1/messages; such a POST whose body is a JSON object; one whose body
\* is not.
Shape == {"malformed", "other", "message", "opaque"}

\* What upstream answered: status 200, an event stream.
Response == [ok : BOOLEAN, sse : BOOLEAN]

VARIABLES ring,       \* the store
          pc,         \* pc[r]: where the goroutine that serves r is
          shape,      \* shape[r]: the request
          attempt,    \* attempt[r]: 1, or 2 in the retry
          resp,       \* resp[r]: the response being read
          full,       \* full[r]: fullBody (and prefix, while peeking)
          rerr,       \* rerr[r]: the error of the last Read
          out,        \* out[r]: what was written to the client
          gone,       \* gone[r]: the client has disconnected
          outbox,     \* outbox[r]: the event about to be broadcast, if any
          published,  \* published[id]: the capture as the events tell it
          produced    \* history: produced[id], the tokens upstream produced

vars == <<ring, pc, shape, attempt, resp, full, rerr, out, gone, outbox,
          published, produced>>

\* What the steps between a Read and the next leave alone; what most leave
\* alone.
reading == <<resp, full, rerr>>
rest == <<shape, attempt, gone, published, produced>>

CapId == Request \X Attempt

Init ==
    /\ ring = EmptyRing
    /\ pc = [r \in Request |-> "idle"]
    /\ shape = [r \in Request |-> None]
    /\ attempt = [r \in Request |-> 1]
    /\ resp = [r \in Request |-> None]
    /\ full = [r \in Request |-> << >>]
    /\ rerr = [r \in Request |-> "nil"]
    /\ out = [r \in Request |-> [heads |-> << >>, body |-> << >>]]
    /\ gone = [r \in Request |-> FALSE]
    /\ outbox = [r \in Request |-> << >>]
    /\ published = [id \in CapId |-> None]
    /\ produced = [id \in CapId |-> << >>]

-----------------------------------------------------------------------------
Cap(r) == <<r, attempt[r]>>

At(r, where) == pc[r] = where /\ outbox[r] = << >>

Goto(r, where) == pc' = [pc EXCEPT ![r] = where]

Started(id, origin) ==
    [status |-> "pending", response |-> None, chunks |-> << >>, body |-> None,
     fallbackOf |-> origin, fallbackTo |-> None]

Ruled(ts) == [i \in 1 .. Len(ts) |-> [ts[i] EXCEPT !.ruled = ResponseRules]]

\* store.Update, whose snapshot the next statement broadcasts.
Record(r, c) ==
    LET s == Update(ring, Cap(r), c)
    IN  /\ ring' = s
        /\ outbox' = [outbox EXCEPT ![r] =
               <<[id |-> Cap(r), what |-> "capture",
                  payload |-> IF Cap(r) \in Stored(s) THEN c ELSE None]>>]

\* Mutant of Fail: a status nobody knows.
FailUnknown(r) == Record(r, [ring.captures[Cap(r)] EXCEPT !.status = "failed"])

\* failCapture
Fail(r) == Record(r, [ring.captures[Cap(r)] EXCEPT !.status = "errored"])

\* WriteHeader, then Write, to the client.
Write(r, head, ts) ==
    out' = [out EXCEPT ![r] = [heads |-> Append(@.heads, head), body |-> @.body \o ts]]

\* Mutant of RecordChunk: no event.
RecordChunkSilently(r, t) ==
    /\ ring' = Update(ring, Cap(r),
                      [ring.captures[Cap(r)] EXCEPT !.chunks = Append(@, t)])
    /\ UNCHANGED outbox

\* store.Mutate and the response_chunk event.
RecordChunk(r, t) ==
    /\ ring' = Update(ring, Cap(r),
                      [ring.captures[Cap(r)] EXCEPT !.chunks = Append(@, t)])
    /\ outbox' = [outbox EXCEPT ![r] =
                      <<[id |-> Cap(r), what |-> "chunk", payload |-> t]>>]

\* A subscriber replaces what it knows of a capture by a snapshot, and
\* appends a chunk to a response it knows of.
Told(known, event) ==
    IF event.what = "capture"
    THEN IF event.payload = None THEN known ELSE event.payload
    ELSE IF known = None THEN None
         ELSE [known EXCEPT !.chunks = Append(@, event.payload)]

\* store.Broadcast
Publish(r) ==
    /\ outbox[r] # << >>
    /\ published' = [published EXCEPT ![Head(outbox[r]).id] = Told(@, Head(outbox[r]))]
    /\ outbox' = [outbox EXCEPT ![r] = << >>]
    /\ UNCHANGED <<ring, pc, shape, attempt, reading, out, gone, produced>>

-----------------------------------------------------------------------------
\* ServeHTTP has added the capture; Gate models what it does from there to
\* the call of forward.
Arrive(r, s) ==
    /\ At(r, "idle")
    /\ ring' = Add(ring, <<r, 1>>, Started(<<r, 1>>, None))
    /\ shape' = [shape EXCEPT ![r] = s]
    /\ Goto(r, "added")
    /\ UNCHANGED <<attempt, reading, out, gone, outbox, published, produced>>

\* The capture_started event, of ServeHTTP or forwardWithID.
Announce(r) ==
    /\ At(r, "added")
    /\ outbox' = IF Cap(r) \in Stored(ring)
                 THEN [outbox EXCEPT ![r] = <<[id |-> Cap(r), what |-> "capture",
                                               payload |-> ring.captures[Cap(r)]]>>]
                 ELSE outbox
    /\ Goto(r, "forward")
    /\ UNCHANGED <<ring, reading, out, rest>>

\* forward, 167-172
Unparsable(r) ==
    /\ At(r, "forward") /\ shape[r] = "malformed"
    /\ Fail(r)
    /\ Write(r, ErrorPage, << >>)
    /\ Goto(r, "done")
    /\ UNCHANGED <<reading, rest>>

\* forward, 174-179
MarkForwarded(r) ==
    /\ At(r, "forward") /\ shape[r] # "malformed"
    /\ Record(r, [ring.captures[Cap(r)] EXCEPT !.status = "forwarded"])
    /\ Goto(r, "send")
    /\ UNCHANGED <<reading, out, rest>>

\* forward, 181-185 and 197-202: no response, which is also what Do returns
\* once the client has disconnected.
SendFails(r) ==
    /\ At(r, "send")
    /\ Fail(r)
    /\ Write(r, ErrorPage, << >>)
    /\ Goto(r, "done")
    /\ UNCHANGED <<reading, rest>>

\* forward, 204-218: the status line and the headers of upstream.
Responds(r, h) ==
    /\ At(r, "send")
    /\ resp' = [resp EXCEPT ![r] = h]
    /\ Record(r, [ring.captures[Cap(r)] EXCEPT !.response = h, !.status = "streaming"])
    /\ Goto(r, "answered")
    /\ UNCHANGED <<full, rerr, out, rest>>

\* forward, 220-227: what canFallback requires besides the toggle, which the
\* operator may flip at any moment.
MayFallBack(r) ==
    attempt[r] = 1 /\ shape[r] \in {"message", "opaque"} /\ resp[r].ok /\ resp[r].sse

\* Mutant of StartPeek: the status line is written before the verdict.
StartPeekEagerly(r) ==
    /\ At(r, "answered") /\ MayFallBack(r)
    /\ Write(r, attempt[r], << >>)
    /\ Goto(r, "peek")
    /\ UNCHANGED <<ring, reading, outbox, rest>>

StartPeek(r) ==
    /\ At(r, "answered") /\ MayFallBack(r)
    /\ Goto(r, "peek")
    /\ UNCHANGED <<ring, reading, out, outbox, rest>>

\* streamPassthrough, 239-251
StartCopy(r) ==
    /\ At(r, "answered")
    /\ Write(r, attempt[r], << >>)
    /\ Goto(r, "copy")
    /\ UNCHANGED <<ring, reading, outbox, rest>>

-----------------------------------------------------------------------------
Holds(ts, kinds) == \E i \in 1 .. Len(ts) : ts[i].kind \in kinds

\* classifyStreamPrefix and the limit of the peek window.
Verdict(ts) ==
    CASE Holds(ts, {"refusal", "mixed"})                 -> "refusal"
      [] ~Holds(ts, {"refusal", "mixed"})
         /\ (Holds(ts, {"text"}) \/ Len(ts) >= MaxPeek) -> "passthrough"
      [] OTHER                                           -> "undecided"

\* The loops that read the body of the response.
Reading(r) ==
    /\ rerr[r] = "nil"
    /\ \/ At(r, "peek") /\ Verdict(full[r]) = "undecided"
       \/ At(r, "drain") \/ At(r, "copy") \/ At(r, "pass")

Raw(r, kind) == [from |-> attempt[r], kind |-> kind, ruled |-> FALSE]

\* Read returns a token, and perhaps io.EOF or an error with it: the peek
\* loop and drainRest keep it raw (349-361, 474-491), consumeChunk rewrites
\* it, sends it and records it (307-326), and io.ReadAll only collects it.
ReadToken(r, kind, e) ==
    /\ Reading(r)
    /\ Len(produced[Cap(r)]) < IF attempt[r] = 1 THEN MaxChunks ELSE MaxRetried
    /\ LET raw   == Raw(r, kind)
           ruled == Ruled(<<raw>>)[1]
       IN  \/ /\ pc[r] \in {"peek", "drain"}
              /\ full' = [full EXCEPT ![r] = Append(@, raw)]
              /\ RecordChunk(r, raw)
              /\ UNCHANGED out
           \/ /\ pc[r] \in {"copy", "pass"} /\ resp[r].sse
              /\ full' = [full EXCEPT ![r] = Append(@, ruled)]
              /\ out' = [out EXCEPT ![r].body = Append(@, ruled)]
              /\ RecordChunk(r, ruled)
           \/ /\ pc[r] = "copy" /\ ~resp[r].sse
              /\ full' = [full EXCEPT ![r] = Append(@, raw)]
              /\ UNCHANGED <<ring, out, outbox>>
    /\ rerr' = [rerr EXCEPT ![r] = e]
    /\ produced' = [produced EXCEPT ![Cap(r)] = Append(@, kind)]
    /\ UNCHANGED <<pc, shape, attempt, resp, gone, published>>

\* Read returns nothing but io.EOF or an error.
ReadEnds(r, e) ==
    /\ Reading(r)
    /\ rerr' = [rerr EXCEPT ![r] = e]
    /\ UNCHANGED <<ring, pc, resp, full, out, outbox, rest>>

\* streamWithFallback, 377-382: an error ends the peek even when the token
\* that came with it had decided.
PeekFails(r) ==
    /\ At(r, "peek") /\ rerr[r] = "error"
    /\ Fail(r)
    /\ Write(r, ErrorPage, << >>)
    /\ Goto(r, "done")
    /\ UNCHANGED <<reading, rest>>

\* 371-376 and 420-442: the answer is committed, ts goes out.
CommitWith(r, ts) ==
    /\ At(r, "peek")
    /\ \/ Verdict(full[r]) = "passthrough" /\ rerr[r] # "error"
       \/ Verdict(full[r]) = "undecided" /\ rerr[r] = "eof"
    /\ Write(r, attempt[r], ts)
    /\ Goto(r, "pass")
    /\ UNCHANGED <<ring, reading, outbox, rest>>

\* Mutant of Commit: the prefix is not sent.
CommitWithoutPrefix(r) == CommitWith(r, << >>)

\* The prefix goes out as it was read.
Commit(r) == CommitWith(r, full[r])

\* 386-387
Refuse(r) ==
    /\ At(r, "peek")
    /\ Verdict(full[r]) = "refusal" /\ rerr[r] # "error"
    /\ Goto(r, "drain")
    /\ UNCHANGED <<ring, reading, out, outbox, rest>>

\* 388-400, once drainRest has returned.
Drained(r) ==
    /\ At(r, "drain")
    /\ Record(r, [ring.captures[Cap(r)] EXCEPT !.status = "aup_refused", !.body = full[r]])
    /\ Goto(r, "retry")
    /\ UNCHANGED <<reading, out, rest>>

\* Mutant of RecordRefusal: drainRest returns on io.EOF only.
RecordRefusalAtEOF(r) == rerr[r] = "eof" /\ Drained(r)

\* 474-491: drainRest does not tell EOF from an error.
RecordRefusal(r) == rerr[r] # "nil" /\ Drained(r)

\* 402-407 and serveBufferedRefusal: the request cannot be rewritten.
ServeBuffered(r, where) ==
    /\ At(r, "retry") /\ shape[r] = "opaque"
    /\ Write(r, attempt[r], full[r])
    /\ Goto(r, where)
    /\ UNCHANGED <<ring, reading, outbox, rest>>

\* Mutant of ServeRefusal: the return is missing.
ServeRefusalFallsThrough(r) == ServeBuffered(r, "linked")

ServeRefusal(r) == ServeBuffered(r, "done")

\* 411-415: Mutate, and no event.
Link(r) ==
    /\ At(r, "retry") /\ shape[r] = "message"
    /\ ring' = Update(ring, Cap(r), [ring.captures[Cap(r)] EXCEPT !.fallbackTo = <<r, 2>>])
    /\ Goto(r, "linked")
    /\ UNCHANGED <<reading, out, outbox, rest>>

\* forwardWithID, 623-643: the url parsed in the first attempt.
RetryUnder(r, id) ==
    /\ At(r, "linked")
    /\ ring' = Add(ring, id, Started(id, <<r, 1>>))
    /\ attempt' = [attempt EXCEPT ![r] = 2]
    /\ full' = [full EXCEPT ![r] = << >>]
    /\ rerr' = [rerr EXCEPT ![r] = "nil"]
    /\ resp' = [resp EXCEPT ![r] = None]
    /\ Goto(r, "added")
    /\ UNCHANGED <<shape, out, gone, outbox, published, produced>>

\* Mutant of Retry: the retry takes the id of the first attempt.
RetryReusesId(r) == RetryUnder(r, <<r, 1>>)

Retry(r) == RetryUnder(r, <<r, 2>>)

\* streamPassthrough, 267-270 and 276-279; the passthrough loop, 452-456.
CopyFails(r) ==
    /\ At(r, "copy") \/ At(r, "pass")
    /\ rerr[r] = "error"
    /\ Fail(r)
    /\ Goto(r, "done")
    /\ UNCHANGED <<reading, out, rest>>

Finished(r, body, chunks) ==
    Record(r, [ring.captures[Cap(r)] EXCEPT
                   !.status = "completed", !.body = body, !.chunks = chunks])

\* streamPassthrough, 280-302: a body that is not a stream is rewritten and
\* sent as a whole; the chunks are forgotten.
Complete(r) ==
    /\ At(r, "copy") /\ rerr[r] = "eof"
    /\ LET body == IF resp[r].sse THEN full[r] ELSE Ruled(full[r])
       IN  /\ Finished(r, body, << >>)
           /\ out' = IF resp[r].sse THEN out
                     ELSE [out EXCEPT ![r].body = @ \o body]
    /\ Goto(r, "done")
    /\ UNCHANGED <<reading, rest>>

\* streamWithFallback, 458-470: here the chunks stay.
PassEnds(r) ==
    /\ At(r, "pass")
    /\ Finished(r, full[r], ring.captures[Cap(r)].chunks)
    /\ Goto(r, "done")
    /\ UNCHANGED <<reading, out, rest>>

\* Mutant of CompletePeeked: any error is taken for the end of the stream.
CompletePeekedAnyhow(r) == rerr[r] # "nil" /\ PassEnds(r)

\* 452-458
CompletePeeked(r) == rerr[r] = "eof" /\ PassEnds(r)

\* handleClear
ClearCaptures ==
    /\ ring' = Clear(ring)
    /\ UNCHANGED <<pc, reading, out, outbox, rest>>

\* The client disconnects: the context of Do and of the reads is cancelled.
Leave(r) ==
    /\ pc[r] # "idle" /\ ~gone[r]
    /\ gone' = [gone EXCEPT ![r] = TRUE]
    /\ UNCHANGED <<ring, pc, shape, attempt, reading, out, outbox, published, produced>>

\* What the goroutine does by itself.
Serve(r) ==
    \/ Publish(r) \/ Announce(r) \/ Unparsable(r) \/ MarkForwarded(r)
    \/ StartPeek(r) \/ StartCopy(r) \/ PeekFails(r) \/ Commit(r) \/ Refuse(r)
    \/ RecordRefusal(r) \/ ServeRefusal(r) \/ Link(r) \/ Retry(r)
    \/ CopyFails(r) \/ Complete(r) \/ CompletePeeked(r)

\* What it waits for upstream to do.
Upstream(r) ==
    \/ SendFails(r)
    \/ \E h \in Response : Responds(r, h)
    \/ \E kind \in Kind, e \in {"nil", "eof", "error"} : ReadToken(r, kind, e)
    \/ \E e \in {"eof", "error"} : ReadEnds(r, e)

\* Do and Read return when the context is cancelled.
Abort(r) == gone[r] /\ (SendFails(r) \/ ReadEnds(r, "error"))

Next == \/ \E r \in Request : Serve(r) \/ Upstream(r) \/ Leave(r)
        \/ \E r \in Request, s \in Shape : Arrive(r, s)
        \/ ClearCaptures

\* Goroutines run and the http client honours its context; nothing is
\* assumed of upstream (client.Timeout is 0), of clients or of operators.
Fairness == \A r \in Request : WF_vars(Serve(r)) /\ WF_vars(Abort(r))

Spec == Init /\ [][Next]_vars /\ Fairness
-----------------------------------------------------------------------------
Capture == [status     : {"pending", "forwarded", "streaming", "completed",
                          "aup_refused", "errored"},
            response   : Response \cup {None},
            chunks     : Seq(Token),
            body       : Seq(Token) \cup {None},
            fallbackOf : CapId \cup {None},
            fallbackTo : CapId \cup {None}]

ASSUME NoneAssumption == None \notin Attempt /\ None \notin Capture

TypeOK ==
    /\ Stored(ring) \subseteq CapId
    /\ \A id \in Stored(ring) : ring.captures[id] \in Capture
    /\ Len(ring.order) <= MaxCaptures
    /\ pc \in [Request -> {"idle", "added", "forward", "send", "answered", "peek",
                           "drain", "retry", "linked", "copy", "pass", "done"}]
    /\ shape \in [Request -> Shape \cup {None}]
    /\ attempt \in [Request -> Attempt]
    /\ resp \in [Request -> Response \cup {None}]
    /\ full \in [Request -> Seq(Token)]
    /\ rerr \in [Request -> {"nil", "eof", "error"}]
    /\ out \in [Request -> [heads : Seq(Attempt \cup {ErrorPage}), body : Seq(Token)]]
    /\ gone \in [Request -> BOOLEAN]
    /\ \A r \in Request : Len(outbox[r]) <= 1
    /\ published \in [CapId -> Capture \cup {None}]
    /\ produced \in [CapId -> Seq(Kind)]

\* The client sees one answer: one status line, then a local error or the
\* body of one attempt in the order it was written; nothing of a refused
\* attempt gets mixed into the answer of the retry (Answer).
OneAnswer == INSTANCE Answer WITH
    heads  <- [r \in Request |-> out[r].heads],
    body   <- [r \in Request |-> out[r].body],
    closed <- [r \in Request |-> pc[r] = "done"]

OneAnswerKept == OneAnswer!Spec

\* Where the client's answer comes from: an attempt, the proxy or nowhere yet.
Source(r) == IF out[r].heads = << >> THEN None ELSE Head(out[r].heads)

Sent(ts) == [i \in 1 .. Len(ts) |-> ts[i].kind]

\* What upstream produced arrives at the client complete and in order, in
\* spite of the peek buffer: never a token lost, doubled or swapped at the
\* seam between the buffered prefix and the stream behind it.
FaithfulStream ==
    \A r \in Request :
        (Source(r) \in Attempt /\ resp[r].sse) =>
            Sent(out[r].body) = produced[<<r, Source(r)>>]

\* A second attempt is made only after a refusal, for a request that asks
\* for one, and while nothing had been sent to the client; the capture of the
\* refusal and that of the attempt then name each other, so that a reader of
\* either can tell why upstream was asked twice.
RetryIsJustified ==
    \A r \in Request : attempt[r] = 2 =>
        /\ shape[r] = "message"
        /\ \E i \in 1 .. Len(produced[<<r, 1>>]) :
               produced[<<r, 1>>][i] \in {"refusal", "mixed"}
        /\ Source(r) # 1
        /\ {<<r, 1>>, <<r, 2>>} \subseteq Stored(ring) =>
               /\ ring.captures[<<r, 1>>].fallbackTo = <<r, 2>>
               /\ ring.captures[<<r, 2>>].fallbackOf = <<r, 1>>
               /\ ring.captures[<<r, 1>>].status = "aup_refused"

\* A capture that reads "completed" holds the very body the client was sent,
\* rules applied or not, and that body is whole: a stream that broke off or
\* a refusal that was hidden is never shown as completed.
CompletedIsWhole ==
    \A r \in Request, k \in Attempt :
        (<<r, k>> \in Stored(ring) /\ ring.captures[<<r, k>>].status = "completed") =>
            /\ Source(r) = k
            /\ ring.captures[<<r, k>>].body = out[r].body
            /\ Sent(out[r].body) = produced[<<r, k>>]
            /\ attempt[r] = k /\ rerr[r] = "eof"

Unlinked(c) == IF c = None THEN None ELSE [c EXCEPT !.fallbackTo = None]

\* Whenever a goroutine has no event left to broadcast, the events have told
\* the subscribers everything the store holds of its captures, chunk by
\* chunk; the link to the retry is the exception, it has no event (415).
PublishedIsCurrent ==
    \A r \in Request : outbox[r] = << >> =>
        \A k \in Attempt :
            (<<r, k>> \in Stored(ring) /\ ~(pc[r] = "added" /\ attempt[r] = k)) =>
                Unlinked(published[<<r, k>>]) = Unlinked(ring.captures[<<r, k>>])

Terminal == {"completed", "aup_refused", "errored"}

\* A capture whose exchange has ended is not touched again, by the retry or
\* by anything else; only the link to the retry may still be added.
TerminalStays ==
    [][\A id \in Stored(ring) \cap DOMAIN ring'.captures :
           ring.captures[id].status \in Terminal =>
               Unlinked(ring'.captures[id]) = Unlinked(ring.captures[id])]_vars

\* Without any timeout in the proxy, a client that disconnects still ends
\* the work done for it in every phase: sending, peeking, draining,
\* retrying or copying, even if upstream never says another word.
GoneEnds == \A r \in Request : gone[r] ~> At(r, "done")

\* "Streaming response bodies are processed per chunk"
\* (rules.go:4): with a body rule in force, every chunk a client receives
\* went through it.
RulesReachClient ==
    \A r \in Request :
        ResponseRules => \A i \in 1 .. Len(out[r].body) : out[r].body[i].ruled
=============================================================================
