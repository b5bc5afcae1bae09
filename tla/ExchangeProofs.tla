--------------------------- MODULE ExchangeProofs ---------------------------
(***************************************************************************)
(* For any requests, tokens, rules and sizes of the ring: what upstream    *)
(* produced is what the client gets and what the capture and the events    *)
(* show, a retry is always justified, and the client sees one answer.      *)
(***************************************************************************)
EXTENDS Exchange, SequenceTheorems, TLAPS

-----------------------------------------------------------------------------
\* What the operators of the ring leave in the map and in the list.

\* Add leaves in the map the new id and the old ones, but for the evicted.
LEMMA AddStored ==
    ASSUME NEW s, NEW id, NEW c, NEW x
    PROVE  x \in Stored(Add(s, id, c)) <=>
               /\ x \in Stored(s) \cup {id}
               /\ \A i \in 1 .. Overflow(Len(Append(s.order, id))) :
                      Append(s.order, id)[i] # x
BY DEF Add, Stored, Without

\* Add leaves the captures it keeps as they were.
LEMMA AddCaptures ==
    ASSUME NEW s, NEW id, NEW c, NEW x \in Stored(Add(s, id, c))
    PROVE  Add(s, id, c).captures[x] = IF x = id THEN c ELSE s.captures[x]
BY DEF Add, Stored, Without

\* Add leaves a list that fits.
LEMMA AddList ==
    ASSUME NEW s, NEW S, s.order \in Seq(S), NEW id \in S, NEW c
    PROVE  Add(s, id, c).order \in Seq(S) /\ Len(Add(s, id, c).order) <= MaxCaptures
<1>1. PICK list : list = Append(s.order, id)
  OBVIOUS
<1>2. PICK n \in Nat : n = Len(list)
  BY <1>1, AppendProperties, LenProperties
<1>3. list \in Seq(S)
  BY <1>1, AppendProperties
<1>4. PICK m \in Nat : m = Overflow(n) + 1
  <2>1. Overflow(n) \in Nat
    BY MaxAssumption DEF Overflow
  <2> QED
    BY <2>1
<1>5. m >= 1 /\ (m <= n => n - m + 1 <= MaxCaptures) /\ 0 <= MaxCaptures
  BY <1>4, MaxAssumption DEF Overflow
<1>6. \A i \in m .. n : list[i] \in S
  BY <1>2, <1>3, <1>5, ElementOfSeq
<1>7. PICK order : order = SubSeq(list, m, n)
  OBVIOUS
<1>8. order \in Seq(S) /\ Len(order) = IF m <= n THEN n - m + 1 ELSE 0
  BY <1>6, <1>7, SubSeqProperties
<1>9. Len(order) <= MaxCaptures
  BY <1>5, <1>8
<1>10. Add(s, id, c).order = order
  BY <1>1, <1>2, <1>4, <1>7 DEF Add
<1> QED
  BY <1>8, <1>9, <1>10

\* Update, whose result is t, changes one capture, if it is there, and nothing
\* else.
LEMMA UpdateNamed ==
    ASSUME NEW s, NEW id, NEW c, NEW t, t = Update(s, id, c)
    PROVE  /\ Stored(t) = Stored(s)
           /\ t.order = s.order
           /\ \A x \in Stored(s) :
                  t.captures[x] = IF x = id THEN c ELSE s.captures[x]
<1>1. CASE id \in Stored(s)
  BY <1>1 DEF Update, Stored
<1>2. CASE id \notin Stored(s)
  BY <1>2 DEF Update, Stored
<1> QED
  BY <1>1, <1>2

\* A ring that is new or cleared.
LEMMA EmptyParts ==
    /\ Stored(EmptyRing) = {} /\ EmptyRing.order = << >>
    /\ \A s : Stored(Clear(s)) = {} /\ Clear(s).order = << >>
BY DEF EmptyRing, Clear, Stored

-----------------------------------------------------------------------------
USE ExchangeAssumption, NoneAssumption

\* Where the goroutine is, what its events may be, and the types of the rest.
Places == {"idle", "added", "forward", "send", "answered", "peek", "drain", "retry",
           "linked", "copy", "pass", "done"}

Event == [id : CapId, what : {"capture"}, payload : Capture \cup {None}]
         \cup [id : CapId, what : {"chunk"}, payload : Token]

RingTypes ==
    /\ Stored(ring) \subseteq CapId /\ ring.order \in Seq(CapId)
    /\ Len(ring.order) <= MaxCaptures

EventTypes ==
    /\ DOMAIN outbox = Request
    /\ \A r \in Request :
           outbox[r] = << >> \/ (outbox[r] = <<outbox[r][1]>> /\ outbox[r][1] \in Event)

Types ==
    /\ RingTypes /\ EventTypes
    /\ pc \in [Request -> Places]
    /\ shape \in [Request -> Shape \cup {None}]
    /\ attempt \in [Request -> Attempt]
    /\ resp \in [Request -> Response \cup {None}]
    /\ full \in [Request -> Seq(Token)]
    /\ rerr \in [Request -> {"nil", "eof", "error"}]
    /\ out \in [Request -> [heads : Seq(Attempt \cup {ErrorPage}), body : Seq(Token)]]
    /\ gone \in [Request -> BOOLEAN]
    /\ published \in [CapId -> Capture \cup {None}]
    /\ produced \in [CapId -> Seq(Kind)]

From(k, ts) == \A i \in 1 .. Len(ts) : ts[i].from = k

Refused(kinds) == \E i \in 1 .. Len(kinds) : kinds[i] \in {"refusal", "mixed"}

Silent(r) == out[r].heads = << >> /\ out[r].body = << >>

\* What has been read and what has been sent, by where the goroutine is.
Data(r) ==
    /\ Sent(full[r]) = produced[Cap(r)] /\ From(attempt[r], full[r])
    /\ attempt[r] = 1 => produced[<<r, 2>>] = << >>
    /\ attempt[r] = 2 => /\ shape[r] = "message" /\ Refused(produced[<<r, 1>>])
                         /\ pc[r] \notin {"idle", "peek", "drain", "retry", "linked", "pass"}
    /\ pc[r] \in {"idle", "added", "forward", "send", "answered"} =>
           full[r] = << >> /\ rerr[r] = "nil" /\ Silent(r)
    /\ pc[r] \in {"answered", "peek", "drain", "retry", "linked", "copy", "pass"} =>
           resp[r] \in Response
    /\ pc[r] \in {"peek", "drain", "retry", "linked"} => Silent(r)
    /\ pc[r] \in {"peek", "drain", "retry", "linked", "pass"} => resp[r].sse
    /\ pc[r] \in {"peek", "drain", "retry", "linked"} => shape[r] \in {"message", "opaque"}
    /\ pc[r] \in {"drain", "retry", "linked"} => Holds(full[r], {"refusal", "mixed"})
    /\ pc[r] = "linked" => shape[r] = "message"
    /\ pc[r] \in {"copy", "pass"} =>
           /\ out[r].heads = <<attempt[r]>>
           /\ out[r].body = IF resp[r].sse THEN full[r] ELSE << >>
    /\ pc[r] = "done" =>
           \/ out[r].heads = <<ErrorPage>> /\ out[r].body = << >>
           \/ /\ out[r].heads = <<attempt[r]>> /\ From(attempt[r], out[r].body)
              /\ resp[r].sse => out[r].body = full[r]

\* The status of capture c, the k-th of r.
Standing(r, k, c) ==
    /\ c \in Capture /\ pc[r] # "idle" /\ k <= attempt[r]
    /\ k < attempt[r] => c.status = "aup_refused" /\ c.fallbackTo = <<r, 2>>
    /\ k = 2 => c.fallbackOf = <<r, 1>>
    /\ k = attempt[r] =>
           /\ pc[r] \in {"added", "forward", "send", "answered", "peek", "drain", "copy", "pass"}
                  => c.status \notin Terminal
           /\ pc[r] \in {"retry", "linked"} => c.status = "aup_refused"
           /\ pc[r] = "linked" => c.fallbackTo = <<r, 2>>
           /\ pc[r] = "done" /\ c.status = "completed" =>
                  /\ out[r].heads = <<k>> /\ c.body = out[r].body /\ rerr[r] = "eof"
                  /\ Sent(out[r].body) = produced[<<r, k>>]

\* What the subscribers know of capture id once the event in hand is out.
Known(r, id) ==
    IF outbox[r] # << >> /\ Head(outbox[r]).id = id
    THEN Told(published[id], Head(outbox[r])) ELSE published[id]

Shown(r, k, c) ==
    ~(pc[r] = "added" /\ attempt[r] = k) => Unlinked(Known(r, <<r, k>>)) = Unlinked(c)

OwnEvent(r) == outbox[r] # << >> => Head(outbox[r]).id = Cap(r) /\ pc[r] # "added"

Kept(r) ==
    \A k \in Attempt : <<r, k>> \in Stored(ring) =>
        Standing(r, k, ring.captures[<<r, k>>]) /\ Shown(r, k, ring.captures[<<r, k>>])

Inv == Types /\ \A r \in Request : Data(r) /\ Kept(r) /\ OwnEvent(r)
-----------------------------------------------------------------------------
\* Sequences of tokens.
LEMMA SentSeq ==
    ASSUME NEW ts \in Seq(Token)
    PROVE  /\ Len(Sent(ts)) = Len(ts) /\ Sent(ts) \in Seq(Kind)
           /\ \A i \in 1 .. Len(ts) : Sent(ts)[i] = ts[i].kind
<1>1. Len(ts) \in Nat /\ \A i \in 1 .. Len(ts) : ts[i] \in Token
  BY LenProperties, ElementOfSeq
<1> QED
  BY <1>1 DEF Sent, Token

LEMMA SentAppend ==
    ASSUME NEW ts \in Seq(Token), NEW t \in Token
    PROVE  Sent(Append(ts, t)) = Append(Sent(ts), t.kind)
<1>1. PICK us : us = Append(ts, t)
  OBVIOUS
<1>2. /\ us \in Seq(Token) /\ Len(us) = Len(ts) + 1 /\ Len(ts) \in Nat
      /\ \A i \in 1 .. Len(ts) : us[i] = ts[i]
      /\ us[Len(ts) + 1] = t
  BY <1>1, AppendProperties, LenProperties
<1>3. PICK s : s = Sent(ts)
  OBVIOUS
<1>4. Len(s) = Len(ts) /\ s \in Seq(Kind)
      /\ \A i \in 1 .. Len(ts) : s[i] = ts[i].kind
  BY <1>3, SentSeq
<1>5. t.kind \in Kind
  BY DEF Token
<1>6. PICK v : v = Append(s, t.kind)
  OBVIOUS
<1>7. /\ v \in Seq(Kind) /\ Len(v) = Len(s) + 1
      /\ \A i \in 1 .. Len(s) : v[i] = s[i]
      /\ v[Len(s) + 1] = t.kind
  BY <1>4, <1>5, <1>6, AppendProperties
<1>8. PICK u : u = Sent(us)
  OBVIOUS
<1>9. Len(u) = Len(us) /\ u \in Seq(Kind)
      /\ \A i \in 1 .. Len(us) : u[i] = us[i].kind
  BY <1>2, <1>8, SentSeq
<1>10. \A i \in 1 .. Len(u) : u[i] = v[i]
  BY <1>2, <1>4, <1>7, <1>9
<1>11. u = v
  BY <1>2, <1>4, <1>7, <1>9, <1>10, SeqEqual
<1> QED
  BY <1>1, <1>3, <1>6, <1>8, <1>11

LEMMA SentEmpty == Sent(<< >>) = << >> /\ \A k : From(k, << >>)
BY DEF Sent, From

LEMMA FromAppend ==
    ASSUME NEW ts \in Seq(Token), NEW t \in Token, NEW k, From(k, ts), t.from = k
    PROVE  From(k, Append(ts, t)) /\ Append(ts, t) \in Seq(Token)
<1>1. PICK us : us = Append(ts, t)
  OBVIOUS
<1>2. /\ us \in Seq(Token) /\ Len(us) = Len(ts) + 1 /\ Len(ts) \in Nat
      /\ \A i \in 1 .. Len(ts) : us[i] = ts[i]
      /\ us[Len(ts) + 1] = t
  BY <1>1, AppendProperties, LenProperties
<1>3. From(k, us)
  BY <1>2 DEF From
<1> QED
  BY <1>1, <1>2, <1>3

LEMMA HoldsAppend ==
    ASSUME NEW ts \in Seq(Token), NEW t \in Token, NEW kinds, Holds(ts, kinds)
    PROVE  Holds(Append(ts, t), kinds)
<1>1. PICK us : us = Append(ts, t)
  OBVIOUS
<1>2. /\ Len(us) = Len(ts) + 1 /\ Len(ts) \in Nat
      /\ \A i \in 1 .. Len(ts) : us[i] = ts[i]
  BY <1>1, AppendProperties, LenProperties
<1>3. PICK i \in 1 .. Len(ts) : ts[i].kind \in kinds
  BY DEF Holds
<1>4. i \in 1 .. Len(us) /\ us[i].kind \in kinds
  BY <1>2, <1>3
<1> QED
  BY <1>1, <1>4 DEF Holds

LEMMA HoldsRefused ==
    ASSUME NEW ts \in Seq(Token), Holds(ts, {"refusal", "mixed"})
    PROVE  Refused(Sent(ts))
<1>1. PICK s : s = Sent(ts)
  OBVIOUS
<1>2. Len(s) = Len(ts) /\ \A i \in 1 .. Len(ts) : s[i] = ts[i].kind
  BY <1>1, SentSeq
<1> QED
  BY <1>1, <1>2 DEF Holds, Refused

\* The rules change what a token says, not where it comes from.
LEMMA RuledParts ==
    ASSUME NEW ts \in Seq(Token)
    PROVE  /\ Ruled(ts) \in Seq(Token) /\ Sent(Ruled(ts)) = Sent(ts)
           /\ \A k : From(k, ts) => From(k, Ruled(ts))
<1>1. Len(ts) \in Nat /\ \A i \in 1 .. Len(ts) : ts[i] \in Token
  BY LenProperties, ElementOfSeq
<1>2. PICK us : us = Ruled(ts)
  OBVIOUS
<1>3. us = [i \in 1 .. Len(ts) |-> [ts[i] EXCEPT !.ruled = ResponseRules]]
  BY <1>2 DEF Ruled
<1>4. \A i \in 1 .. Len(ts) : /\ us[i] \in Token
                              /\ us[i].kind = ts[i].kind /\ us[i].from = ts[i].from
  BY <1>1, <1>3 DEF Token
<1>5. us \in Seq(Token) /\ Len(us) = Len(ts)
  BY <1>1, <1>3, <1>4
<1>6. Sent(us) = Sent(ts)
  BY <1>1, <1>4, <1>5 DEF Sent
<1>7. \A k : From(k, ts) => From(k, us)
  BY <1>4, <1>5 DEF From
<1> QED
  BY <1>2, <1>5, <1>6, <1>7
-----------------------------------------------------------------------------
\* What a step for request r leaves alone.
Alone(r) ==
    /\ \A q \in Request \ {r} :
           /\ pc'[q] = pc[q] /\ shape'[q] = shape[q] /\ attempt'[q] = attempt[q]
           /\ resp'[q] = resp[q] /\ full'[q] = full[q] /\ rerr'[q] = rerr[q]
           /\ out'[q] = out[q] /\ outbox'[q] = outbox[q]
    /\ \A id \in CapId \ {Cap(r)} :
           published'[id] = published[id] /\ produced'[id] = produced[id]

RingAlone(r) ==
    \A q \in Request \ {r}, k \in Attempt : <<q, k>> \in Stored(ring') =>
        <<q, k>> \in Stored(ring) /\ ring'.captures[<<q, k>>] = ring.captures[<<q, k>>]

LEMMA OthersKeep ==
    ASSUME Types, NEW r \in Request, Alone(r), RingAlone(r),
           NEW q \in Request, q # r, Data(q), Kept(q), OwnEvent(q)
    PROVE  Data(q)' /\ Kept(q)' /\ OwnEvent(q)'
<1>1. /\ pc'[q] = pc[q] /\ shape'[q] = shape[q] /\ attempt'[q] = attempt[q]
      /\ resp'[q] = resp[q] /\ full'[q] = full[q] /\ rerr'[q] = rerr[q]
      /\ out'[q] = out[q] /\ outbox'[q] = outbox[q] /\ Cap(q)' = Cap(q)
  BY DEF Alone, Cap
<1>2. \A k \in Attempt : <<q, k>> \in CapId /\ <<q, k>> # Cap(r)
  BY DEF Cap, CapId
<1>3. \A k \in Attempt : published'[<<q, k>>] = published[<<q, k>>]
                         /\ produced'[<<q, k>>] = produced[<<q, k>>]
  BY <1>2 DEF Alone
<1>4. 1 \in Attempt /\ 2 \in Attempt /\ attempt[q] \in Attempt
  BY DEF Types, Attempt
<1>5. /\ produced'[<<q, 1>>] = produced[<<q, 1>>] /\ produced'[<<q, 2>>] = produced[<<q, 2>>]
      /\ produced'[Cap(q)] = produced[Cap(q)]
  BY <1>3, <1>4 DEF Cap
<1>6. Data(q)'
  BY <1>1, <1>5 DEF Data, Silent
<1>7. ASSUME NEW k \in Attempt, <<q, k>> \in Stored(ring')
      PROVE  /\ <<q, k>> \in Stored(ring) /\ ring'.captures[<<q, k>>] = ring.captures[<<q, k>>]
  BY <1>7 DEF RingAlone
<1>8. ASSUME NEW k \in Attempt, NEW c
      PROVE  (Standing(q, k, c) => Standing(q, k, c)') /\ (Shown(q, k, c) => Shown(q, k, c)')
  BY <1>1, <1>3 DEF Standing, Shown, Known
<1>9. Kept(q)'
  <2> SUFFICES ASSUME NEW k \in Attempt, <<q, k>> \in Stored(ring')
               PROVE  (Standing(q, k, ring.captures[<<q, k>>]) /\ Shown(q, k, ring.captures[<<q, k>>]))'
    BY DEF Kept
  <2>1. PICK c : c = ring.captures[<<q, k>>]
    OBVIOUS
  <2>2. ring'.captures[<<q, k>>] = c
    BY <1>7, <2>1
  <2>3. Standing(q, k, c) /\ Shown(q, k, c)
    BY <1>7, <2>1 DEF Kept
  <2>4. Standing(q, k, c)' /\ Shown(q, k, c)'
    BY <1>8, <2>3
  <2>5. Standing(q, k, ring.captures[<<q, k>>])'
    BY <2>2, <2>4 DEF Standing
  <2>6. Shown(q, k, ring.captures[<<q, k>>])'
    BY <2>2, <2>4 DEF Shown
  <2> QED
    BY <2>5, <2>6
<1>10. OwnEvent(q)'
  BY <1>1 DEF OwnEvent
<1> QED
  BY <1>6, <1>9, <1>10

\* With the frame, what is left to show of a step is about its request.
LEMMA StepKeeps ==
    ASSUME Inv, NEW r \in Request, Types', Alone(r), RingAlone(r),
           Data(r)', Kept(r)', OwnEvent(r)'
    PROVE  Inv'
<1>1. ASSUME NEW q \in Request PROVE Data(q)' /\ Kept(q)' /\ OwnEvent(q)'
  BY OthersKeep DEF Inv
<1> QED
  BY <1>1 DEF Inv
-----------------------------------------------------------------------------
\* What a step leaves alone that keeps the ring, the events and the attempt.
LEMMA QuietStep ==
    ASSUME Types, NEW r \in Request, Kept(r), OwnEvent(r),
           UNCHANGED <<ring, outbox, published, attempt>>,
           pc'[r] # "idle", pc[r] = "added" <=> pc'[r] = "added",
           NEW c, c = ring.captures[Cap(r)],
           Cap(r) \in Stored(ring) /\ Standing(r, attempt[r], c) => Standing(r, attempt[r], c)'
    PROVE  /\ RingTypes' /\ EventTypes' /\ RingAlone(r) /\ outbox' = outbox
           /\ Kept(r)' /\ OwnEvent(r)'
<1>1. RingTypes' /\ EventTypes' /\ RingAlone(r)
  BY DEF RingAlone, RingTypes, EventTypes, Types, Stored
<1>2. OwnEvent(r)'
  BY DEF OwnEvent, Cap
<1>3. attempt[r] \in Attempt /\ Cap(r) = <<r, attempt[r]>>
  BY DEF Types, Cap
<1>4. ASSUME NEW k \in Attempt, NEW d, Standing(r, k, d), k # attempt[r]
      PROVE  Standing(r, k, d)'
  BY <1>4 DEF Standing
<1>5. ASSUME NEW k \in Attempt, NEW d, Shown(r, k, d) PROVE Shown(r, k, d)'
  BY <1>5 DEF Shown, Known
<1>6. Kept(r)'
  <2> SUFFICES ASSUME NEW k \in Attempt, <<r, k>> \in Stored(ring)
               PROVE  (Standing(r, k, ring.captures[<<r, k>>]) /\ Shown(r, k, ring.captures[<<r, k>>]))'
    BY DEF Kept
  <2>1. PICK d : d = ring.captures[<<r, k>>]
    OBVIOUS
  <2>2. Standing(r, k, d) /\ Shown(r, k, d)
    BY <2>1 DEF Kept
  <2>3. Standing(r, k, d)'
    BY <1>3, <1>4, <2>1, <2>2
  <2>4. Shown(r, k, d)'
    BY <1>5, <2>2
  <2> QED
    BY <2>1, <2>3, <2>4
<1> QED
  BY <1>1, <1>2, <1>6

\* A snapshot of what the capture is now tells the subscribers so.
LEMMA SnapshotShows ==
    ASSUME NEW r, NEW k, NEW c, c # None, NEW ev, outbox' = [outbox EXCEPT ![r] = <<ev>>],
           r \in DOMAIN outbox,
           ev = [id |-> <<r, k>>, what |-> "capture", payload |-> c]
    PROVE  Known(r, <<r, k>>)' = c
<1>1. outbox'[r] = <<ev>> /\ Head(<<ev>>) = ev /\ <<ev>> # << >>
  OBVIOUS
<1>2. ev.id = <<r, k>> /\ ev.what = "capture" /\ ev.payload = c
  OBVIOUS
<1>3. \A d : Told(d, ev) = c
  BY <1>2 DEF Told
<1>4. Known(r, <<r, k>>)' = Told(published'[<<r, k>>], ev)
  BY <1>1, <1>2 DEF Known
<1> QED
  BY <1>3, <1>4

\* An event about one capture says nothing of another.
LEMMA OthersKnown ==
    ASSUME NEW r, NEW id, NEW ev, outbox' = [outbox EXCEPT ![r] = <<ev>>],
           r \in DOMAIN outbox, ev.id # id, outbox[r] = << >>, published' = published
    PROVE  Known(r, id)' = Known(r, id)
<1>1. outbox'[r] = <<ev>> /\ Head(<<ev>>) = ev
  OBVIOUS
<1> QED
  BY <1>1 DEF Known

\* What a step does that records c in the capture and says so in an event.
LEMMA RecordStep ==
    ASSUME Types, NEW r \in Request, Kept(r),
           NEW c, Record(r, c), UNCHANGED <<published, attempt>>,
           outbox[r] = << >>, pc[r] # "added", pc'[r] \notin {"idle", "added"},
           Cap(r) \in Stored(ring) => Standing(r, attempt[r], c)'
    PROVE  /\ RingTypes' /\ EventTypes' /\ RingAlone(r)
           /\ \A q \in Request \ {r} : outbox'[q] = outbox[q]
           /\ Kept(r)' /\ OwnEvent(r)'
<1>1. attempt[r] \in Attempt /\ Cap(r) = <<r, attempt[r]>> /\ Cap(r) \in CapId /\ r \in DOMAIN outbox
  BY DEF Types, EventTypes, Cap, CapId
<1>2. PICK s : s = Update(ring, Cap(r), c)
  OBVIOUS
<1>3. /\ Stored(s) = Stored(ring) /\ s.order = ring.order
      /\ \A x \in Stored(ring) : s.captures[x] = IF x = Cap(r) THEN c ELSE ring.captures[x]
  BY <1>2, UpdateNamed
<1>4. PICK ev : ev = [id |-> Cap(r), what |-> "capture",
                      payload |-> IF Cap(r) \in Stored(s) THEN c ELSE None]
  OBVIOUS
<1>5. ring' = s /\ outbox' = [outbox EXCEPT ![r] = <<ev>>]
  BY <1>2, <1>4 DEF Record
<1>6. Cap(r) \in Stored(ring) => c \in Capture
  BY DEF Standing
<1>7. ev \in Event
  BY <1>1, <1>3, <1>4, <1>6 DEF Event
<1>8. outbox'[r] = <<ev>> /\ <<ev>>[1] = ev /\ Head(<<ev>>) = ev /\ ev.id = Cap(r)
  BY <1>1, <1>4, <1>5
<1>9. \A q \in Request \ {r} : outbox'[q] = outbox[q]
  BY <1>5 DEF Types, EventTypes
<1>10. RingTypes' /\ EventTypes' /\ RingAlone(r)
  <2>1. RingTypes'
    BY <1>3, <1>5 DEF RingTypes, Types
  <2>2. EventTypes'
    BY <1>5, <1>7, <1>8 DEF EventTypes, Types
  <2>3. \A q \in Request \ {r}, k \in Attempt : <<q, k>> # Cap(r)
    BY <1>1
  <2>4. RingAlone(r)
    BY <1>3, <1>5, <2>3 DEF RingAlone
  <2> QED
    BY <2>1, <2>2, <2>4
<1>11. OwnEvent(r)'
  BY <1>1, <1>8 DEF OwnEvent, Cap
<1>12. Kept(r)'
  <2> SUFFICES ASSUME NEW k \in Attempt, <<r, k>> \in Stored(ring')
               PROVE  (Standing(r, k, ring.captures[<<r, k>>]) /\ Shown(r, k, ring.captures[<<r, k>>]))'
    BY DEF Kept
  <2>0. <<r, k>> \in Stored(ring)
    BY <1>3, <1>5
  <2>1. CASE k = attempt[r]
    <3>1. ring'.captures[<<r, k>>] = c
      BY <1>1, <1>3, <1>5, <2>0, <2>1
    <3>2. Standing(r, k, c)'
      BY <1>1, <2>0, <2>1
    <3>3. c # None
      BY <1>1, <1>6, <2>0, <2>1
    <3>4. ev = [id |-> <<r, k>>, what |-> "capture", payload |-> c]
      BY <1>1, <1>3, <1>4, <2>0, <2>1
    <3>5. Known(r, <<r, k>>)' = c
      BY <1>1, <1>5, <3>3, <3>4, SnapshotShows
    <3> QED
      BY <3>1, <3>2, <3>5 DEF Shown
  <2>2. CASE k # attempt[r]
    <3>1. PICK d : d = ring.captures[<<r, k>>]
      OBVIOUS
    <3>2. ring'.captures[<<r, k>>] = d
      BY <1>1, <1>3, <1>5, <2>0, <2>2, <3>1
    <3>3. Standing(r, k, d) /\ Shown(r, k, d)
      BY <2>0, <3>1 DEF Kept
    <3>4. Standing(r, k, d)'
      BY <2>2, <3>3 DEF Standing
    <3>5. ev.id # <<r, k>>
      BY <1>1, <1>8, <2>2
    <3>6. Known(r, <<r, k>>)' = Known(r, <<r, k>>)
      BY <1>1, <1>5, <3>5, OthersKnown
    <3>7. Shown(r, k, d)'
      BY <3>3, <3>6 DEF Shown
    <3> QED
      BY <3>2, <3>4, <3>7
  <2> QED
    BY <2>1, <2>2
<1> QED
  BY <1>9, <1>10, <1>11, <1>12
-----------------------------------------------------------------------------
\* Most steps move the goroutine and leave alone what was read.
Moves(r, w) == w \in Places /\ Goto(r, w) /\ UNCHANGED <<reading, rest>>

LEMMA MovedParts ==
    ASSUME Types, NEW r \in Request, NEW w, Moves(r, w)
    PROVE  /\ pc'[r] = w /\ shape'[r] = shape[r] /\ attempt'[r] = attempt[r]
           /\ resp'[r] = resp[r] /\ full'[r] = full[r] /\ rerr'[r] = rerr[r]
           /\ Cap(r)' = Cap(r) /\ produced' = produced /\ published' = published
           /\ attempt' = attempt /\ attempt[r] \in Attempt /\ Cap(r) = <<r, attempt[r]>>
BY DEF Types, Moves, Goto, reading, rest, Cap

LEMMA MoveKeeps ==
    ASSUME Inv, NEW r \in Request, NEW w, Moves(r, w),
           out' \in [Request -> [heads : Seq(Attempt \cup {ErrorPage}), body : Seq(Token)]],
           \A q \in Request \ {r} : out'[q] = out[q] /\ outbox'[q] = outbox[q],
           RingTypes', EventTypes', RingAlone(r), Data(r)', Kept(r)', OwnEvent(r)'
    PROVE  Inv'
<1>0. Types
  BY DEF Inv
<1>1. /\ pc' = [pc EXCEPT ![r] = w] /\ w \in Places
      /\ UNCHANGED <<shape, attempt, resp, full, rerr, gone, published, produced>>
  BY DEF Moves, Goto, reading, rest
<1>2. Alone(r)
  BY <1>0, <1>1 DEF Types, Alone
<1>3. Types'
  BY <1>0, <1>1 DEF Types
<1> QED
  BY <1>2, <1>3, StepKeeps

LEMMA WriteParts ==
    ASSUME Types, NEW r \in Request, NEW head \in Attempt \cup {ErrorPage},
           NEW ts \in Seq(Token), Write(r, head, ts)
    PROVE  /\ out' \in [Request -> [heads : Seq(Attempt \cup {ErrorPage}), body : Seq(Token)]]
           /\ \A q \in Request \ {r} : out'[q] = out[q]
           /\ Silent(r) => out'[r].heads = <<head>> /\ out'[r].body = ts
<1>1. out[r].heads \in Seq(Attempt \cup {ErrorPage}) /\ out[r].body \in Seq(Token)
  BY DEF Types
<1>2. PICK h : h = Append(out[r].heads, head)
  OBVIOUS
<1>3. PICK b : b = out[r].body \o ts
  OBVIOUS
<1>4. h \in Seq(Attempt \cup {ErrorPage}) /\ b \in Seq(Token)
  BY <1>1, <1>2, <1>3, AppendProperties, ConcatProperties
<1>5. out' = [out EXCEPT ![r] = [heads |-> h, body |-> b]]
  BY <1>2, <1>3 DEF Write
<1>6. /\ out' \in [Request -> [heads : Seq(Attempt \cup {ErrorPage}), body : Seq(Token)]]
      /\ \A q \in Request \ {r} : out'[q] = out[q]
      /\ out'[r].heads = h /\ out'[r].body = b
  BY <1>4, <1>5 DEF Types
<1>7. Append(<< >>, head) = <<head>> /\ << >> \o ts = ts
  BY ConcatEmptySeq
<1>8. Silent(r) => h = <<head>> /\ b = ts
  BY <1>2, <1>3, <1>7 DEF Silent
<1> QED
  BY <1>6, <1>8
-----------------------------------------------------------------------------
\* A local error: Unparsable, SendFails and PeekFails.
Rejects(r) ==
    /\ pc[r] \in {"forward", "send", "peek"} /\ outbox[r] = << >>
    /\ Fail(r) /\ Write(r, ErrorPage, << >>) /\ Moves(r, "done")

LEMMA RejectsParts ==
    ASSUME NEW r, Unparsable(r) \/ SendFails(r) \/ PeekFails(r) PROVE Rejects(r)
BY DEF Unparsable, SendFails, PeekFails, At, Rejects, Moves, Places

LEMMA RejectsKeeps ==
    ASSUME Inv, NEW r \in Request, Rejects(r) PROVE Inv'
<1>0. Types /\ Data(r) /\ Kept(r)
  BY DEF Inv
<1>1. /\ pc[r] \in {"forward", "send", "peek"} /\ outbox[r] = << >>
      /\ Write(r, ErrorPage, << >>) /\ Moves(r, "done")
  BY DEF Rejects
<1>2. PICK c : c = [ring.captures[Cap(r)] EXCEPT !.status = "errored"]
  OBVIOUS
<1>3. Record(r, c)
  BY <1>2 DEF Rejects, Fail
<1>4. /\ pc'[r] = "done" /\ shape'[r] = shape[r] /\ attempt'[r] = attempt[r]
      /\ resp'[r] = resp[r] /\ full'[r] = full[r] /\ rerr'[r] = rerr[r]
      /\ Cap(r)' = Cap(r) /\ produced' = produced /\ published' = published
      /\ attempt' = attempt /\ attempt[r] \in Attempt /\ Cap(r) = <<r, attempt[r]>>
  BY <1>0, <1>1, MovedParts
<1>5. Silent(r)
  BY <1>0, <1>1 DEF Data
<1>6. /\ out' \in [Request -> [heads : Seq(Attempt \cup {ErrorPage}), body : Seq(Token)]]
      /\ \A q \in Request \ {r} : out'[q] = out[q]
      /\ out'[r].heads = <<ErrorPage>> /\ out'[r].body = << >>
  <2>1. << >> \in Seq(Token) /\ ErrorPage \in Attempt \cup {ErrorPage}
    OBVIOUS
  <2> QED
    BY <1>0, <1>1, <1>5, <2>1, WriteParts
<1>7. ASSUME Cap(r) \in Stored(ring) PROVE Standing(r, attempt[r], c)'
  <2>1. Standing(r, attempt[r], ring.captures[Cap(r)])
    BY <1>0, <1>4, <1>7 DEF Kept
  <2>2. c \in Capture /\ c.status = "errored" /\ c.fallbackOf = ring.captures[Cap(r)].fallbackOf
    BY <1>2, <2>1 DEF Standing, Capture
  <2> QED
    BY <1>4, <2>1, <2>2 DEF Standing, Attempt
<1>8. /\ RingTypes' /\ EventTypes' /\ RingAlone(r)
      /\ \A q \in Request \ {r} : outbox'[q] = outbox[q]
      /\ Kept(r)' /\ OwnEvent(r)'
  BY <1>0, <1>1, <1>3, <1>4, <1>7, RecordStep
<1>9. Data(r)'
  BY <1>0, <1>1, <1>4, <1>6 DEF Data
<1> QED
  BY <1>1, <1>6, <1>8, <1>9, MoveKeeps
-----------------------------------------------------------------------------
\* A step from one place to another that only writes to the client, or does
\* not even do that: StartPeek, Refuse, StartCopy, Commit and ServeRefusal.
LEMMA QuietMoveKeeps ==
    ASSUME Inv, NEW r \in Request, NEW w, Moves(r, w), pc[r] # "added", w \notin {"idle", "added"},
           UNCHANGED <<ring, outbox>>, Data(r)',
           out' \in [Request -> [heads : Seq(Attempt \cup {ErrorPage}), body : Seq(Token)]],
           \A q \in Request \ {r} : out'[q] = out[q],
           \A c : Cap(r) \in Stored(ring) /\ Standing(r, attempt[r], c)
                      => Standing(r, attempt[r], c)'
    PROVE  Inv'
<1>0. Types /\ Kept(r) /\ OwnEvent(r)
  BY DEF Inv
<1>1. pc'[r] = w /\ published' = published /\ attempt' = attempt
  BY <1>0, MovedParts
<1>2. PICK c : c = ring.captures[Cap(r)]
  OBVIOUS
<1>3. /\ RingTypes' /\ EventTypes' /\ RingAlone(r)
      /\ Kept(r)' /\ OwnEvent(r)'
  BY <1>0, <1>1, <1>2, QuietStep
<1> QED
  BY <1>3, MoveKeeps

LEMMA VerdictParts ==
    ASSUME NEW ts
    PROVE  /\ Verdict(ts) = "refusal" <=> Holds(ts, {"refusal", "mixed"})
           /\ Verdict(ts) \in {"refusal", "passthrough", "undecided"}
BY DEF Verdict

LEMMA StartPeekKeeps ==
    ASSUME Inv, NEW r \in Request, StartPeek(r) PROVE Inv'
<1>0. Types /\ Data(r)
  BY DEF Inv
<1>1. /\ pc[r] = "answered" /\ MayFallBack(r) /\ Moves(r, "peek")
      /\ UNCHANGED <<ring, outbox, out>>
  BY DEF StartPeek, At, Moves, Places
<1>2. /\ pc'[r] = "peek" /\ shape'[r] = shape[r] /\ attempt'[r] = attempt[r]
      /\ resp'[r] = resp[r] /\ full'[r] = full[r] /\ rerr'[r] = rerr[r]
      /\ Cap(r)' = Cap(r) /\ produced' = produced /\ attempt' = attempt
  BY <1>0, <1>1, MovedParts
<1>3. Data(r)'
  BY <1>0, <1>1, <1>2 DEF Data, Silent, MayFallBack
<1>4. \A c : Standing(r, attempt[r], c) => Standing(r, attempt[r], c)'
  BY <1>1, <1>2 DEF Standing
<1>5. out' \in [Request -> [heads : Seq(Attempt \cup {ErrorPage}), body : Seq(Token)]]
  BY <1>0, <1>1 DEF Types
<1> QED
  BY <1>1, <1>3, <1>4, <1>5, QuietMoveKeeps

LEMMA RefuseKeeps ==
    ASSUME Inv, NEW r \in Request, Refuse(r) PROVE Inv'
<1>0. Types /\ Data(r)
  BY DEF Inv
<1>1. /\ pc[r] = "peek" /\ Verdict(full[r]) = "refusal" /\ Moves(r, "drain")
      /\ UNCHANGED <<ring, outbox, out>>
  BY DEF Refuse, At, Moves, Places
<1>2. /\ pc'[r] = "drain" /\ shape'[r] = shape[r] /\ attempt'[r] = attempt[r]
      /\ resp'[r] = resp[r] /\ full'[r] = full[r] /\ rerr'[r] = rerr[r]
      /\ Cap(r)' = Cap(r) /\ produced' = produced /\ attempt' = attempt
  BY <1>0, <1>1, MovedParts
<1>3. Holds(full[r], {"refusal", "mixed"})
  BY <1>1, VerdictParts
<1>4. Data(r)'
  BY <1>0, <1>1, <1>2, <1>3 DEF Data, Silent
<1>5. \A c : Standing(r, attempt[r], c) => Standing(r, attempt[r], c)'
  BY <1>1, <1>2 DEF Standing
<1>6. out' \in [Request -> [heads : Seq(Attempt \cup {ErrorPage}), body : Seq(Token)]]
  BY <1>0, <1>1 DEF Types
<1> QED
  BY <1>1, <1>4, <1>5, <1>6, QuietMoveKeeps

\* The answer starts: StartCopy, Commit and ServeRefusal.
LEMMA StartsParts ==
    ASSUME Types, NEW r \in Request, Silent(r), NEW ts \in Seq(Token), Write(r, attempt[r], ts)
    PROVE  /\ out' \in [Request -> [heads : Seq(Attempt \cup {ErrorPage}), body : Seq(Token)]]
           /\ \A q \in Request \ {r} : out'[q] = out[q]
           /\ out'[r].heads = <<attempt[r]>> /\ out'[r].body = ts
BY WriteParts DEF Types

LEMMA StartCopyKeeps ==
    ASSUME Inv, NEW r \in Request, StartCopy(r) PROVE Inv'
<1>0. Types /\ Data(r)
  BY DEF Inv
<1>1. /\ pc[r] = "answered" /\ Moves(r, "copy") /\ Write(r, attempt[r], << >>)
      /\ UNCHANGED <<ring, outbox>>
  BY DEF StartCopy, At, Moves, Places
<1>2. /\ pc'[r] = "copy" /\ shape'[r] = shape[r] /\ attempt'[r] = attempt[r]
      /\ resp'[r] = resp[r] /\ full'[r] = full[r] /\ rerr'[r] = rerr[r]
      /\ Cap(r)' = Cap(r) /\ produced' = produced /\ attempt' = attempt
  BY <1>0, <1>1, MovedParts
<1>3. Silent(r) /\ full[r] = << >> /\ << >> \in Seq(Token)
  BY <1>0, <1>1 DEF Data
<1>4. /\ out' \in [Request -> [heads : Seq(Attempt \cup {ErrorPage}), body : Seq(Token)]]
      /\ \A q \in Request \ {r} : out'[q] = out[q]
      /\ out'[r].heads = <<attempt[r]>> /\ out'[r].body = << >>
  BY <1>0, <1>1, <1>3, StartsParts
<1>5. Data(r)'
  BY <1>0, <1>1, <1>2, <1>3, <1>4 DEF Data
<1>6. \A c : Standing(r, attempt[r], c) => Standing(r, attempt[r], c)'
  BY <1>1, <1>2 DEF Standing
<1> QED
  BY <1>1, <1>4, <1>5, <1>6, QuietMoveKeeps

LEMMA CommitKeeps ==
    ASSUME Inv, NEW r \in Request, Commit(r) PROVE Inv'
<1>0. Types /\ Data(r)
  BY DEF Inv
<1>1. /\ pc[r] = "peek" /\ Moves(r, "pass") /\ Write(r, attempt[r], full[r])
      /\ UNCHANGED <<ring, outbox>>
  BY DEF Commit, CommitWith, At, Moves, Places
<1>2. /\ pc'[r] = "pass" /\ shape'[r] = shape[r] /\ attempt'[r] = attempt[r]
      /\ resp'[r] = resp[r] /\ full'[r] = full[r] /\ rerr'[r] = rerr[r]
      /\ Cap(r)' = Cap(r) /\ produced' = produced /\ attempt' = attempt
  BY <1>0, <1>1, MovedParts
<1>3. Silent(r) /\ full[r] \in Seq(Token)
  BY <1>0, <1>1 DEF Data, Types
<1>4. /\ out' \in [Request -> [heads : Seq(Attempt \cup {ErrorPage}), body : Seq(Token)]]
      /\ \A q \in Request \ {r} : out'[q] = out[q]
      /\ out'[r].heads = <<attempt[r]>> /\ out'[r].body = full[r]
  BY <1>0, <1>1, <1>3, StartsParts
<1>5. Data(r)'
  BY <1>0, <1>1, <1>2, <1>4 DEF Data
<1>6. \A c : Standing(r, attempt[r], c) => Standing(r, attempt[r], c)'
  BY <1>1, <1>2 DEF Standing
<1> QED
  BY <1>1, <1>4, <1>5, <1>6, QuietMoveKeeps

LEMMA ServeRefusalKeeps ==
    ASSUME Inv, NEW r \in Request, ServeRefusal(r) PROVE Inv'
<1>0. Types /\ Data(r)
  BY DEF Inv
<1>1. /\ pc[r] = "retry" /\ Moves(r, "done") /\ Write(r, attempt[r], full[r])
      /\ UNCHANGED <<ring, outbox>>
  BY DEF ServeRefusal, ServeBuffered, At, Moves, Places
<1>2. /\ pc'[r] = "done" /\ shape'[r] = shape[r] /\ attempt'[r] = attempt[r]
      /\ resp'[r] = resp[r] /\ full'[r] = full[r] /\ rerr'[r] = rerr[r]
      /\ Cap(r)' = Cap(r) /\ produced' = produced /\ attempt' = attempt
  BY <1>0, <1>1, MovedParts
<1>3. Silent(r) /\ full[r] \in Seq(Token)
  BY <1>0, <1>1 DEF Data, Types
<1>4. /\ out' \in [Request -> [heads : Seq(Attempt \cup {ErrorPage}), body : Seq(Token)]]
      /\ \A q \in Request \ {r} : out'[q] = out[q]
      /\ out'[r].heads = <<attempt[r]>> /\ out'[r].body = full[r]
  BY <1>0, <1>1, <1>3, StartsParts
<1>5. Data(r)'
  BY <1>0, <1>1, <1>2, <1>4 DEF Data
<1>6. \A c : Standing(r, attempt[r], c) => Standing(r, attempt[r], c)'
  BY <1>1, <1>2 DEF Standing
<1> QED
  BY <1>1, <1>4, <1>5, <1>6, QuietMoveKeeps
-----------------------------------------------------------------------------
\* A step that records what the capture is now.
LEMMA RecordMoveKeeps ==
    ASSUME Inv, NEW r \in Request, NEW w, Moves(r, w), pc[r] # "added", w \notin {"idle", "added"},
           outbox[r] = << >>, NEW c, Record(r, c), Data(r)',
           out' \in [Request -> [heads : Seq(Attempt \cup {ErrorPage}), body : Seq(Token)]],
           \A q \in Request \ {r} : out'[q] = out[q],
           Cap(r) \in Stored(ring) => Standing(r, attempt[r], c)'
    PROVE  Inv'
<1>0. Types /\ Kept(r)
  BY DEF Inv
<1>1. pc'[r] = w /\ published' = published /\ attempt' = attempt
  BY <1>0, MovedParts
<1>2. /\ RingTypes' /\ EventTypes' /\ RingAlone(r)
      /\ \A q \in Request \ {r} : outbox'[q] = outbox[q]
      /\ Kept(r)' /\ OwnEvent(r)'
  BY <1>0, <1>1, RecordStep
<1> QED
  BY <1>2, MoveKeeps

LEMMA MarkForwardedKeeps ==
    ASSUME Inv, NEW r \in Request, MarkForwarded(r) PROVE Inv'
<1>0. Types /\ Data(r) /\ Kept(r)
  BY DEF Inv
<1>1. pc[r] = "forward" /\ outbox[r] = << >> /\ Moves(r, "send") /\ out' = out
  BY DEF MarkForwarded, At, Moves, Places
<1>2. PICK c : c = [ring.captures[Cap(r)] EXCEPT !.status = "forwarded"]
  OBVIOUS
<1>3. Record(r, c)
  BY <1>2 DEF MarkForwarded
<1>4. /\ pc'[r] = "send" /\ shape'[r] = shape[r] /\ attempt'[r] = attempt[r]
      /\ resp'[r] = resp[r] /\ full'[r] = full[r] /\ rerr'[r] = rerr[r]
      /\ Cap(r)' = Cap(r) /\ produced' = produced
      /\ attempt' = attempt /\ attempt[r] \in Attempt /\ Cap(r) = <<r, attempt[r]>>
  BY <1>0, <1>1, MovedParts
<1>5. ASSUME Cap(r) \in Stored(ring) PROVE Standing(r, attempt[r], c)'
  <2>1. Standing(r, attempt[r], ring.captures[Cap(r)])
    BY <1>0, <1>4, <1>5 DEF Kept
  <2>2. c \in Capture /\ c.status = "forwarded" /\ c.fallbackOf = ring.captures[Cap(r)].fallbackOf
    BY <1>2, <2>1 DEF Standing, Capture
  <2> QED
    BY <1>4, <2>1, <2>2 DEF Standing, Attempt, Terminal
<1>6. Data(r)'
  BY <1>0, <1>1, <1>4 DEF Data, Silent
<1>7. out' \in [Request -> [heads : Seq(Attempt \cup {ErrorPage}), body : Seq(Token)]]
  BY <1>0, <1>1 DEF Types
<1> QED
  BY <1>1, <1>3, <1>5, <1>6, <1>7, RecordMoveKeeps

LEMMA RecordRefusalKeeps ==
    ASSUME Inv, NEW r \in Request, RecordRefusal(r) PROVE Inv'
<1>0. Types /\ Data(r) /\ Kept(r)
  BY DEF Inv
<1>1. pc[r] = "drain" /\ outbox[r] = << >> /\ Moves(r, "retry") /\ out' = out
  BY DEF RecordRefusal, Drained, At, Moves, Places
<1>2. PICK c : c = [ring.captures[Cap(r)] EXCEPT !.status = "aup_refused", !.body = full[r]]
  OBVIOUS
<1>3. Record(r, c)
  BY <1>2 DEF RecordRefusal, Drained
<1>4. /\ pc'[r] = "retry" /\ shape'[r] = shape[r] /\ attempt'[r] = attempt[r]
      /\ resp'[r] = resp[r] /\ full'[r] = full[r] /\ rerr'[r] = rerr[r]
      /\ Cap(r)' = Cap(r) /\ produced' = produced
      /\ attempt' = attempt /\ attempt[r] \in Attempt /\ Cap(r) = <<r, attempt[r]>>
  BY <1>0, <1>1, MovedParts
<1>5. ASSUME Cap(r) \in Stored(ring) PROVE Standing(r, attempt[r], c)'
  <2>1. Standing(r, attempt[r], ring.captures[Cap(r)])
    BY <1>0, <1>4, <1>5 DEF Kept
  <2>2. full[r] \in Seq(Token)
    BY <1>0 DEF Types
  <2>3. c \in Capture /\ c.status = "aup_refused" /\ c.fallbackOf = ring.captures[Cap(r)].fallbackOf
    BY <1>2, <2>1, <2>2 DEF Standing, Capture
  <2> QED
    BY <1>4, <2>1, <2>3 DEF Standing, Attempt
<1>6. Data(r)'
  BY <1>0, <1>1, <1>4 DEF Data, Silent
<1>7. out' \in [Request -> [heads : Seq(Attempt \cup {ErrorPage}), body : Seq(Token)]]
  BY <1>0, <1>1 DEF Types
<1> QED
  BY <1>1, <1>3, <1>5, <1>6, <1>7, RecordMoveKeeps

LEMMA CopyFailsKeeps ==
    ASSUME Inv, NEW r \in Request, CopyFails(r) PROVE Inv'
<1>0. Types /\ Data(r) /\ Kept(r)
  BY DEF Inv
<1>1. pc[r] \in {"copy", "pass"} /\ outbox[r] = << >> /\ Moves(r, "done") /\ out' = out
  BY DEF CopyFails, At, Moves, Places
<1>2. PICK c : c = [ring.captures[Cap(r)] EXCEPT !.status = "errored"]
  OBVIOUS
<1>3. Record(r, c)
  BY <1>2 DEF CopyFails, Fail
<1>4. /\ pc'[r] = "done" /\ shape'[r] = shape[r] /\ attempt'[r] = attempt[r]
      /\ resp'[r] = resp[r] /\ full'[r] = full[r] /\ rerr'[r] = rerr[r]
      /\ Cap(r)' = Cap(r) /\ produced' = produced
      /\ attempt' = attempt /\ attempt[r] \in Attempt /\ Cap(r) = <<r, attempt[r]>>
  BY <1>0, <1>1, MovedParts
<1>5. ASSUME Cap(r) \in Stored(ring) PROVE Standing(r, attempt[r], c)'
  <2>1. Standing(r, attempt[r], ring.captures[Cap(r)])
    BY <1>0, <1>4, <1>5 DEF Kept
  <2>2. c \in Capture /\ c.status = "errored" /\ c.fallbackOf = ring.captures[Cap(r)].fallbackOf
    BY <1>2, <2>1 DEF Standing, Capture
  <2> QED
    BY <1>4, <2>1, <2>2 DEF Standing, Attempt
<1>6. Data(r)'
  BY <1>0, <1>1, <1>4, SentEmpty DEF Data
<1>7. out' \in [Request -> [heads : Seq(Attempt \cup {ErrorPage}), body : Seq(Token)]]
  BY <1>0, <1>1 DEF Types
<1> QED
  BY <1>1, <1>3, <1>5, <1>6, <1>7, RecordMoveKeeps
-----------------------------------------------------------------------------
\* A capture that is completed has what the client was sent.
LEMMA FinishedStanding ==
    ASSUME Types, NEW r \in Request, Kept(r), Cap(r) \in Stored(ring), pc'[r] = "done",
           attempt' = attempt, produced' = produced, rerr'[r] = "eof", pc[r] # "idle",
           out'[r].heads = <<attempt[r]>>, NEW body \in Seq(Token), out'[r].body = body,
           Sent(body) = produced[Cap(r)], NEW chunks \in Seq(Token),
           NEW c, c = [ring.captures[Cap(r)] EXCEPT
                           !.status = "completed", !.body = body, !.chunks = chunks]
    PROVE  Standing(r, attempt[r], c)'
<1>1. attempt[r] \in Attempt /\ Cap(r) = <<r, attempt[r]>>
  BY DEF Types, Cap
<1>2. Standing(r, attempt[r], ring.captures[Cap(r)])
  BY <1>1 DEF Kept
<1>3. PICK d : d = ring.captures[Cap(r)]
  OBVIOUS
<1>4. /\ c \in Capture /\ c.status = "completed" /\ c.fallbackOf = d.fallbackOf
      /\ c.body = body
  BY <1>2, <1>3 DEF Standing, Capture
<1> QED
  BY <1>1, <1>2, <1>3, <1>4 DEF Standing, Attempt

LEMMA CompletePeekedKeeps ==
    ASSUME Inv, NEW r \in Request, CompletePeeked(r) PROVE Inv'
<1>0. Types /\ Data(r) /\ Kept(r)
  BY DEF Inv
<1>1. /\ pc[r] = "pass" /\ outbox[r] = << >> /\ Moves(r, "done") /\ out' = out
      /\ rerr[r] = "eof" /\ Finished(r, full[r], ring.captures[Cap(r)].chunks)
  BY DEF CompletePeeked, PassEnds, At, Moves, Places
<1>2. PICK c : c = [ring.captures[Cap(r)] EXCEPT !.status = "completed", !.body = full[r],
                                                 !.chunks = ring.captures[Cap(r)].chunks]
  OBVIOUS
<1>3. Record(r, c)
  BY <1>1, <1>2 DEF Finished
<1>4. /\ pc'[r] = "done" /\ shape'[r] = shape[r] /\ attempt'[r] = attempt[r]
      /\ resp'[r] = resp[r] /\ full'[r] = full[r] /\ rerr'[r] = rerr[r]
      /\ Cap(r)' = Cap(r) /\ produced' = produced
      /\ attempt' = attempt /\ attempt[r] \in Attempt /\ Cap(r) = <<r, attempt[r]>>
  BY <1>0, <1>1, MovedParts
<1>5. /\ out[r].heads = <<attempt[r]>> /\ out[r].body = full[r]
      /\ Sent(full[r]) = produced[Cap(r)] /\ full[r] \in Seq(Token)
  BY <1>0, <1>1 DEF Data, Types
<1>6. ASSUME Cap(r) \in Stored(ring) PROVE Standing(r, attempt[r], c)'
  <2>1. Standing(r, attempt[r], ring.captures[Cap(r)])
    BY <1>0, <1>4, <1>6 DEF Kept
  <2>2. ring.captures[Cap(r)].chunks \in Seq(Token)
    BY <2>1 DEF Standing, Capture
  <2>3. /\ out'[r].heads = <<attempt[r]>> /\ out'[r].body = full[r]
        /\ rerr'[r] = "eof" /\ pc[r] # "idle"
    BY <1>1, <1>4, <1>5
  <2> QED
    BY <1>0, <1>2, <1>4, <1>5, <1>6, <2>2, <2>3, FinishedStanding
<1>7. Data(r)'
  BY <1>0, <1>1, <1>4, <1>5 DEF Data
<1>8. out' \in [Request -> [heads : Seq(Attempt \cup {ErrorPage}), body : Seq(Token)]]
  BY <1>0, <1>1 DEF Types
<1> QED
  BY <1>1, <1>3, <1>6, <1>7, <1>8, RecordMoveKeeps

LEMMA CompleteKeeps ==
    ASSUME Inv, NEW r \in Request, Complete(r) PROVE Inv'
<1>0. Types /\ Data(r) /\ Kept(r)
  BY DEF Inv
<1>1. PICK body : body = IF resp[r].sse THEN full[r] ELSE Ruled(full[r])
  OBVIOUS
<1>2. /\ pc[r] = "copy" /\ outbox[r] = << >> /\ Moves(r, "done")
      /\ rerr[r] = "eof" /\ Finished(r, body, << >>)
      /\ out' = IF resp[r].sse THEN out ELSE [out EXCEPT ![r].body = @ \o body]
  BY <1>1 DEF Complete, At, Moves, Places
<1>3. PICK c : c = [ring.captures[Cap(r)] EXCEPT !.status = "completed", !.body = body,
                                                 !.chunks = << >>]
  OBVIOUS
<1>4. Record(r, c)
  BY <1>2, <1>3 DEF Finished
<1>5. /\ pc'[r] = "done" /\ shape'[r] = shape[r] /\ attempt'[r] = attempt[r]
      /\ resp'[r] = resp[r] /\ full'[r] = full[r] /\ rerr'[r] = rerr[r]
      /\ Cap(r)' = Cap(r) /\ produced' = produced
      /\ attempt' = attempt /\ attempt[r] \in Attempt /\ Cap(r) = <<r, attempt[r]>>
  BY <1>0, <1>2, MovedParts
<1>6. /\ out[r].heads = <<attempt[r]>>
      /\ out[r].body = IF resp[r].sse THEN full[r] ELSE << >>
      /\ Sent(full[r]) = produced[Cap(r)] /\ full[r] \in Seq(Token) /\ From(attempt[r], full[r])
  BY <1>0, <1>2 DEF Data, Types
<1>7. body \in Seq(Token) /\ Sent(body) = produced[Cap(r)] /\ From(attempt[r], body)
  BY <1>1, <1>6, RuledParts
<1>8. << >> \o body = body
  BY <1>7, ConcatEmptySeq
<1>9. /\ out' \in [Request -> [heads : Seq(Attempt \cup {ErrorPage}), body : Seq(Token)]]
      /\ \A q \in Request \ {r} : out'[q] = out[q]
      /\ out'[r].heads = <<attempt[r]>> /\ out'[r].body = body
  <2>1. CASE resp[r].sse
    BY <1>0, <1>1, <1>2, <1>6, <2>1 DEF Types
  <2>2. CASE ~resp[r].sse
    <3>1. out' = [out EXCEPT ![r].body = body]
      BY <1>2, <1>6, <1>8, <2>2
    <3>2. out \in [Request -> [heads : Seq(Attempt \cup {ErrorPage}), body : Seq(Token)]]
      BY <1>0 DEF Types
    <3>3. PICK o : o = [out[r] EXCEPT !.body = body]
      OBVIOUS
    <3>4. /\ o \in [heads : Seq(Attempt \cup {ErrorPage}), body : Seq(Token)]
          /\ o.heads = out[r].heads /\ o.body = body
      BY <1>7, <3>2, <3>3
    <3>5. out' = [out EXCEPT ![r] = o]
      BY <3>1, <3>3
    <3> QED
      BY <1>6, <3>2, <3>4, <3>5
  <2> QED
    BY <2>1, <2>2
<1>10. ASSUME Cap(r) \in Stored(ring) PROVE Standing(r, attempt[r], c)'
  <2>1. << >> \in Seq(Token) /\ rerr'[r] = "eof" /\ pc[r] # "idle"
    BY <1>2, <1>5
  <2> QED
    BY <1>0, <1>3, <1>5, <1>7, <1>9, <1>10, <2>1, FinishedStanding
<1>11. Data(r)'
  BY <1>0, <1>1, <1>2, <1>5, <1>7, <1>9 DEF Data
<1> QED
  BY <1>2, <1>4, <1>9, <1>10, <1>11, RecordMoveKeeps
-----------------------------------------------------------------------------
\* The steps that change what was read, or that no capture records.
LEMMA RespondsKeeps ==
    ASSUME Inv, NEW r \in Request, NEW h \in Response, Responds(r, h) PROVE Inv'
<1>0. Types /\ Data(r) /\ Kept(r)
  BY DEF Inv
<1>1. /\ pc[r] = "send" /\ outbox[r] = << >> /\ pc' = [pc EXCEPT ![r] = "answered"]
      /\ resp' = [resp EXCEPT ![r] = h]
      /\ UNCHANGED <<full, rerr, out, shape, attempt, gone, published, produced>>
  BY DEF Responds, At, Goto, rest
<1>2. PICK c : c = [ring.captures[Cap(r)] EXCEPT !.response = h, !.status = "streaming"]
  OBVIOUS
<1>3. Record(r, c)
  BY <1>2 DEF Responds
<1>4. /\ pc'[r] = "answered" /\ resp'[r] = h /\ attempt[r] \in Attempt /\ Cap(r) = <<r, attempt[r]>>
      /\ Cap(r)' = Cap(r)
  BY <1>0, <1>1 DEF Types, Cap
<1>5. ASSUME Cap(r) \in Stored(ring) PROVE Standing(r, attempt[r], c)'
  <2>1. Standing(r, attempt[r], ring.captures[Cap(r)])
    BY <1>0, <1>4, <1>5 DEF Kept
  <2>2. c \in Capture /\ c.status = "streaming" /\ c.fallbackOf = ring.captures[Cap(r)].fallbackOf
    BY <1>2, <2>1 DEF Standing, Capture
  <2> QED
    BY <1>1, <1>4, <2>1, <2>2 DEF Standing, Attempt, Terminal
<1>6. /\ RingTypes' /\ EventTypes' /\ RingAlone(r)
      /\ \A q \in Request \ {r} : outbox'[q] = outbox[q]
      /\ Kept(r)' /\ OwnEvent(r)'
  BY <1>0, <1>1, <1>3, <1>4, <1>5, RecordStep
<1>7. Data(r)'
  BY <1>0, <1>1, <1>4 DEF Data, Silent
<1>8. Alone(r)
  BY <1>0, <1>1, <1>6 DEF Types, Alone
<1>9. Types'
  BY <1>0, <1>1, <1>6 DEF Types, Places
<1> QED
  BY <1>6, <1>7, <1>8, <1>9, StepKeeps

LEMMA ReadEndsKeeps ==
    ASSUME Inv, NEW r \in Request, NEW e \in {"eof", "error"}, ReadEnds(r, e) PROVE Inv'
<1>0. Types /\ Data(r) /\ Kept(r) /\ OwnEvent(r)
  BY DEF Inv
<1>1. /\ pc[r] \in {"peek", "drain", "copy", "pass"} /\ rerr' = [rerr EXCEPT ![r] = e]
      /\ UNCHANGED <<ring, pc, resp, full, out, outbox, shape, attempt, gone, published, produced>>
  BY DEF ReadEnds, Reading, At, rest
<1>2. PICK c : c = ring.captures[Cap(r)]
  OBVIOUS
<1>3. Standing(r, attempt[r], c) => Standing(r, attempt[r], c)'
  BY <1>1 DEF Standing
<1>4. /\ RingTypes' /\ EventTypes' /\ RingAlone(r)
      /\ Kept(r)' /\ OwnEvent(r)'
  BY <1>0, <1>1, <1>2, <1>3, QuietStep
<1>5. Data(r)'
  BY <1>0, <1>1 DEF Data, Silent, Cap
<1>6. Alone(r)
  BY <1>0, <1>1 DEF Types, Alone
<1>7. Types'
  BY <1>0, <1>1, <1>4 DEF Types
<1> QED
  BY <1>4, <1>5, <1>6, <1>7, StepKeeps

LEMMA LeaveKeeps ==
    ASSUME Inv, NEW r \in Request, Leave(r) PROVE Inv'
<1>0. Types /\ Data(r) /\ Kept(r) /\ OwnEvent(r)
  BY DEF Inv
<1>1. /\ pc[r] # "idle" /\ gone' = [gone EXCEPT ![r] = TRUE]
      /\ UNCHANGED <<ring, pc, resp, full, rerr, out, outbox, shape, attempt, published, produced>>
  BY DEF Leave, reading
<1>2. PICK c : c = ring.captures[Cap(r)]
  OBVIOUS
<1>3. Standing(r, attempt[r], c) => Standing(r, attempt[r], c)'
  BY <1>1 DEF Standing
<1>4. /\ RingTypes' /\ EventTypes' /\ RingAlone(r)
      /\ Kept(r)' /\ OwnEvent(r)'
  BY <1>0, <1>1, <1>2, <1>3, QuietStep
<1>5. Data(r)'
  BY <1>0, <1>1 DEF Data, Silent, Cap
<1>6. Alone(r)
  BY <1>0, <1>1 DEF Types, Alone
<1>7. Types'
  BY <1>0, <1>1, <1>4 DEF Types
<1> QED
  BY <1>4, <1>5, <1>6, <1>7, StepKeeps

LEMMA ClearKeeps ==
    ASSUME Inv, ClearCaptures PROVE Inv'
<1>1. /\ ring' = Clear(ring)
      /\ UNCHANGED <<pc, resp, full, rerr, out, outbox, shape, attempt, gone, published, produced>>
  BY DEF ClearCaptures, reading, rest
<1>2. Stored(ring') = {} /\ ring'.order = << >>
  BY <1>1, EmptyParts
<1>3. RingTypes' /\ EventTypes'
  <2>1. << >> \in Seq(CapId) /\ Len(<< >>) = 0 /\ 0 <= MaxCaptures
    BY MaxAssumption
  <2> QED
    BY <1>1, <1>2, <2>1 DEF RingTypes, EventTypes, Inv, Types
<1>4. Types'
  BY <1>1, <1>3 DEF Inv, Types
<1>5. ASSUME NEW r \in Request PROVE Data(r)' /\ Kept(r)' /\ OwnEvent(r)'
  <2>1. Data(r) /\ OwnEvent(r)
    BY DEF Inv
  <2>2. Data(r)'
    BY <1>1, <2>1 DEF Data, Silent, Cap
  <2>3. OwnEvent(r)'
    BY <1>1, <2>1 DEF OwnEvent, Cap
  <2> QED
    BY <1>2, <2>2, <2>3 DEF Kept
<1> QED
  BY <1>4, <1>5 DEF Inv

\* The event goes out and the subscribers know what they were about to.
LEMMA PublishKeeps ==
    ASSUME Inv, NEW r \in Request, Publish(r) PROVE Inv'
<1>0. Types /\ Data(r) /\ Kept(r) /\ OwnEvent(r)
  BY DEF Inv
<1>1. PICK ev : ev = outbox[r][1]
  OBVIOUS
<1>2. /\ outbox[r] = <<ev>> /\ ev \in Event /\ Head(<<ev>>) = ev /\ <<ev>> # << >>
  BY <1>0, <1>1 DEF Publish, Types, EventTypes
<1>3. ev.id = Cap(r) /\ pc[r] # "added" /\ Cap(r) \in CapId
  BY <1>0, <1>2 DEF OwnEvent, Event
<1>4. PICK p : p = Told(published[Cap(r)], ev)
  OBVIOUS
<1>5. /\ published' = [published EXCEPT ![Cap(r)] = p] /\ outbox' = [outbox EXCEPT ![r] = << >>]
      /\ UNCHANGED <<ring, pc, shape, attempt, resp, full, rerr, out, gone, produced>>
  BY <1>2, <1>3, <1>4 DEF Publish, reading
<1>6. p \in Capture \cup {None}
  <2>1. published[Cap(r)] \in Capture \cup {None}
    BY <1>0, <1>3 DEF Types
  <2>2. CASE ev.what = "capture"
    BY <1>2, <1>4, <2>1, <2>2 DEF Told, Event
  <2>3. CASE ev.what # "capture"
    <3>1. ev.payload \in Token
      BY <1>2, <2>3 DEF Event
    <3>2. ASSUME NEW c \in Capture PROVE [c EXCEPT !.chunks = Append(@, ev.payload)] \in Capture
      <4>1. Append(c.chunks, ev.payload) \in Seq(Token)
        BY <3>1, AppendProperties DEF Capture
      <4> QED
        BY <4>1 DEF Capture
    <3> QED
      BY <1>4, <2>1, <2>3, <3>2 DEF Told
  <2> QED
    BY <2>2, <2>3
<1>7. \A id \in CapId : Known(r, id)' = Known(r, id)
  <2>1. outbox'[r] = << >>
    BY <1>0, <1>5 DEF Types, EventTypes
  <2>2. \A id \in CapId : published'[id] = IF id = Cap(r) THEN p ELSE published[id]
    BY <1>0, <1>5 DEF Types
  <2>3. \A id : Known(r, id)' = published'[id]
    BY <2>1 DEF Known
  <2>4. \A id : Known(r, id) = IF id = Cap(r) THEN p ELSE published[id]
    BY <1>2, <1>3, <1>4 DEF Known
  <2> QED
    BY <2>2, <2>3, <2>4
<1>8. RingTypes' /\ EventTypes' /\ RingAlone(r)
  BY <1>0, <1>5 DEF RingTypes, EventTypes, RingAlone, Types, Stored
<1>9. Kept(r)'
  <2> SUFFICES ASSUME NEW k \in Attempt, <<r, k>> \in Stored(ring)
               PROVE  (Standing(r, k, ring.captures[<<r, k>>]) /\ Shown(r, k, ring.captures[<<r, k>>]))'
    BY <1>5 DEF Kept
  <2>1. PICK c : c = ring.captures[<<r, k>>]
    OBVIOUS
  <2>2. Standing(r, k, c) /\ Shown(r, k, c)
    BY <1>0, <2>1 DEF Kept
  <2>3. Standing(r, k, c)'
    BY <1>5, <2>2 DEF Standing
  <2>4. Known(r, <<r, k>>)' = Known(r, <<r, k>>)
    BY <1>7 DEF CapId
  <2>5. Shown(r, k, c)'
    BY <1>5, <2>2, <2>4 DEF Shown
  <2> QED
    BY <1>5, <2>1, <2>3, <2>5
<1>10. Data(r)'
  BY <1>0, <1>5 DEF Data, Silent, Cap
<1>11. OwnEvent(r)'
  BY <1>0, <1>5 DEF OwnEvent, Types, EventTypes
<1>12. Alone(r)
  BY <1>0, <1>3, <1>5 DEF Types, EventTypes, Alone
<1>13. Types'
  <2>1. published' \in [CapId -> Capture \cup {None}]
    BY <1>0, <1>3, <1>5, <1>6 DEF Types
  <2> QED
    BY <1>0, <1>5, <1>8, <2>1 DEF Types
<1> QED
  BY <1>8, <1>9, <1>10, <1>11, <1>12, <1>13, StepKeeps
-----------------------------------------------------------------------------
\* The steps that put a capture in the ring, announce it and link it.
LEMMA AnnounceKeeps ==
    ASSUME Inv, NEW r \in Request, Announce(r) PROVE Inv'
<1>0. Types /\ Data(r) /\ Kept(r)
  BY DEF Inv
<1>1. /\ pc[r] = "added" /\ outbox[r] = << >> /\ Moves(r, "forward")
      /\ UNCHANGED <<ring, out>>
  BY DEF Announce, At, Moves, Places
<1>2. /\ pc'[r] = "forward" /\ shape'[r] = shape[r] /\ attempt'[r] = attempt[r]
      /\ resp'[r] = resp[r] /\ full'[r] = full[r] /\ rerr'[r] = rerr[r]
      /\ Cap(r)' = Cap(r) /\ produced' = produced /\ published' = published
      /\ attempt' = attempt /\ attempt[r] \in Attempt /\ Cap(r) = <<r, attempt[r]>>
  BY <1>0, <1>1, MovedParts
<1>3. PICK c : c = ring.captures[Cap(r)]
  OBVIOUS
<1>4. PICK ev : ev = [id |-> Cap(r), what |-> "capture", payload |-> c]
  OBVIOUS
<1>5. outbox' = IF Cap(r) \in Stored(ring) THEN [outbox EXCEPT ![r] = <<ev>>] ELSE outbox
  BY <1>3, <1>4 DEF Announce
<1>6. Cap(r) \in Stored(ring) => c \in Capture /\ Standing(r, attempt[r], c)
  BY <1>0, <1>2, <1>3 DEF Kept, Standing
<1>7. Cap(r) \in Stored(ring) => ev \in Event
  BY <1>0, <1>2, <1>4, <1>6 DEF Event, RingTypes, Types
<1>8. <<ev>>[1] = ev /\ Head(<<ev>>) = ev /\ ev.id = Cap(r) /\ r \in DOMAIN outbox
  BY <1>0, <1>4 DEF Types, EventTypes
<1>9. RingTypes' /\ EventTypes' /\ RingAlone(r)
  <2>1. EventTypes'
    BY <1>0, <1>5, <1>7, <1>8 DEF EventTypes, Types
  <2> QED
    BY <1>0, <1>1, <2>1 DEF RingTypes, RingAlone, Types, Stored
<1>10. OwnEvent(r)'
  BY <1>1, <1>2, <1>5, <1>8 DEF OwnEvent
<1>11. Kept(r)'
  <2> SUFFICES ASSUME NEW k \in Attempt, <<r, k>> \in Stored(ring)
               PROVE  (Standing(r, k, ring.captures[<<r, k>>]) /\ Shown(r, k, ring.captures[<<r, k>>]))'
    BY <1>1 DEF Kept
  <2>1. PICK d : d = ring.captures[<<r, k>>]
    OBVIOUS
  <2>2. Standing(r, k, d) /\ Shown(r, k, d)
    BY <1>0, <2>1 DEF Kept
  <2>3. Standing(r, k, d)'
    BY <1>1, <1>2, <2>2 DEF Standing
  <2>4. Shown(r, k, d)'
    <3>1. CASE k = attempt[r]
      <4>1. d = c /\ c # None /\ ev = [id |-> <<r, k>>, what |-> "capture", payload |-> d]
        BY <1>2, <1>3, <1>4, <1>6, <2>1, <3>1
      <4>2. outbox' = [outbox EXCEPT ![r] = <<ev>>]
        BY <1>2, <1>5, <3>1
      <4>3. Known(r, <<r, k>>)' = d
        BY <1>8, <4>1, <4>2, SnapshotShows
      <4> QED
        BY <4>3 DEF Shown
    <3>2. CASE k # attempt[r]
      <4>1. Unlinked(Known(r, <<r, k>>)) = Unlinked(d)
        BY <2>2, <3>2 DEF Shown
      <4>2. ev.id # <<r, k>>
        BY <1>2, <1>8, <3>2
      <4>3. Known(r, <<r, k>>)' = Known(r, <<r, k>>)
        <5>1. CASE Cap(r) \in Stored(ring)
          BY <1>1, <1>2, <1>5, <1>8, <4>2, <5>1, OthersKnown
        <5>2. CASE Cap(r) \notin Stored(ring)
          BY <1>2, <1>5, <5>2 DEF Known
        <5> QED
          BY <5>1, <5>2
      <4> QED
        BY <4>1, <4>3 DEF Shown
    <3> QED
      BY <3>1, <3>2
  <2> QED
    BY <1>1, <2>1, <2>3, <2>4
<1>12. Data(r)'
  BY <1>0, <1>1, <1>2 DEF Data, Silent
<1>13. \A q \in Request \ {r} : out'[q] = out[q] /\ outbox'[q] = outbox[q]
  BY <1>1, <1>5
<1>14. out' \in [Request -> [heads : Seq(Attempt \cup {ErrorPage}), body : Seq(Token)]]
  BY <1>0, <1>1 DEF Types
<1> QED
  BY <1>1, <1>9, <1>10, <1>11, <1>12, <1>13, <1>14, MoveKeeps

LEMMA LinkKeeps ==
    ASSUME Inv, NEW r \in Request, Link(r) PROVE Inv'
<1>0. Types /\ Data(r) /\ Kept(r) /\ OwnEvent(r)
  BY DEF Inv
<1>1. /\ pc[r] = "retry" /\ shape[r] = "message" /\ outbox[r] = << >> /\ Moves(r, "linked")
      /\ UNCHANGED <<out, outbox>>
  BY DEF Link, At, Moves, Places
<1>2. /\ pc'[r] = "linked" /\ shape'[r] = shape[r] /\ attempt'[r] = attempt[r]
      /\ resp'[r] = resp[r] /\ full'[r] = full[r] /\ rerr'[r] = rerr[r]
      /\ Cap(r)' = Cap(r) /\ produced' = produced /\ published' = published
      /\ attempt' = attempt /\ attempt[r] \in Attempt /\ Cap(r) = <<r, attempt[r]>>
  BY <1>0, <1>1, MovedParts
<1>3. attempt[r] = 1
  BY <1>0, <1>1, <1>2 DEF Data, Attempt
<1>4. PICK c : c = [ring.captures[Cap(r)] EXCEPT !.fallbackTo = <<r, 2>>]
  OBVIOUS
<1>5. PICK s : s = Update(ring, Cap(r), c)
  OBVIOUS
<1>6. /\ Stored(s) = Stored(ring) /\ s.order = ring.order
      /\ \A x \in Stored(ring) : s.captures[x] = IF x = Cap(r) THEN c ELSE ring.captures[x]
  BY <1>5, UpdateNamed
<1>7. ring' = s
  BY <1>4, <1>5 DEF Link
<1>8. RingTypes' /\ EventTypes' /\ RingAlone(r)
  <2>1. \A q \in Request \ {r}, k \in Attempt : <<q, k>> # Cap(r)
    BY <1>2
  <2> QED
    BY <1>0, <1>1, <1>6, <1>7, <2>1 DEF RingTypes, EventTypes, RingAlone, Types
<1>9. OwnEvent(r)'
  BY <1>1 DEF OwnEvent
<1>10. Kept(r)'
  <2> SUFFICES ASSUME NEW k \in Attempt, <<r, k>> \in Stored(ring')
               PROVE  (Standing(r, k, ring.captures[<<r, k>>]) /\ Shown(r, k, ring.captures[<<r, k>>]))'
    BY DEF Kept
  <2>1. PICK d : d = ring.captures[<<r, k>>]
    OBVIOUS
  <2>2. Standing(r, k, d) /\ Shown(r, k, d) /\ <<r, k>> \in Stored(ring)
    BY <1>0, <1>6, <1>7, <2>1 DEF Kept
  <2>3. k = 1
    BY <1>3, <2>2 DEF Standing, Attempt
  <2>4. ring'.captures[<<r, k>>] = [d EXCEPT !.fallbackTo = <<r, 2>>]
    BY <1>2, <1>3, <1>4, <1>6, <1>7, <2>1, <2>2, <2>3
  <2>5. PICK e : e = [d EXCEPT !.fallbackTo = <<r, 2>>]
    OBVIOUS
  <2>6. <<r, 2>> \in CapId /\ d \in Capture /\ d.status = "aup_refused"
    BY <1>1, <1>3, <2>2, <2>3 DEF Standing, CapId, Attempt
  <2>7. e \in Capture /\ e.status = "aup_refused" /\ e.fallbackTo = <<r, 2>>
    BY <2>5, <2>6 DEF Capture
  <2>8. Standing(r, k, e)'
    BY <1>2, <1>3, <2>3, <2>7 DEF Standing
  <2>9. Unlinked(e) = Unlinked(d)
    BY <2>5, <2>6, <2>7 DEF Unlinked, Capture
  <2>10. Shown(r, k, e)'
    BY <1>1, <1>2, <2>2, <2>9 DEF Shown, Known
  <2> QED
    BY <2>4, <2>5, <2>8, <2>10
<1>11. Data(r)'
  BY <1>0, <1>1, <1>2, <1>3 DEF Data, Silent
<1>12. \A q \in Request \ {r} : out'[q] = out[q] /\ outbox'[q] = outbox[q]
  BY <1>1
<1>13. out' \in [Request -> [heads : Seq(Attempt \cup {ErrorPage}), body : Seq(Token)]]
  BY <1>0, <1>1 DEF Types
<1> QED
  BY <1>1, <1>8, <1>9, <1>10, <1>11, <1>12, <1>13, MoveKeeps
\* What adding a capture of r does to the ring.
LEMMA AddStep ==
    ASSUME Types, NEW r \in Request, NEW j \in Attempt, NEW c,
           NEW id, id = <<r, j>>, ring' = Add(ring, id, c)
    PROVE  /\ RingTypes' /\ RingAlone(r)
           /\ \A x \in Stored(ring') :
                  /\ x \in Stored(ring) \cup {id}
                  /\ ring'.captures[x] = IF x = id THEN c ELSE ring.captures[x]
<1>1. id \in CapId
  BY DEF CapId
<1>2. \A x : x \in Stored(ring') => x \in Stored(ring) \cup {id}
  BY AddStored
<1>3. \A x \in Stored(ring') : ring'.captures[x] = IF x = id THEN c ELSE ring.captures[x]
  BY AddCaptures
<1>4. ring'.order \in Seq(CapId) /\ Len(ring'.order) <= MaxCaptures
  <2>1. ring.order \in Seq(CapId)
    BY DEF Types, RingTypes
  <2> QED
    BY <1>1, <2>1, AddList
<1>5. RingTypes'
  BY <1>1, <1>2, <1>4 DEF Types, RingTypes
<1>6. \A q \in Request \ {r}, k \in Attempt : <<q, k>> # id
  OBVIOUS
<1>7. RingAlone(r)
  BY <1>2, <1>3, <1>6 DEF RingAlone
<1> QED
  BY <1>2, <1>3, <1>5, <1>7

LEMMA StartedCapture ==
    ASSUME NEW id, NEW origin \in CapId \cup {None}, NEW c, c = Started(id, origin)
    PROVE  /\ c \in Capture /\ c.status = "pending" /\ c.fallbackOf = origin
           /\ c.status \notin Terminal
<1>1. << >> \in Seq(Token)
  OBVIOUS
<1> QED
  BY <1>1 DEF Started, Capture, Terminal

LEMMA ArriveKeeps ==
    ASSUME Inv, NEW r \in Request, NEW s \in Shape, Arrive(r, s) PROVE Inv'
<1>0. Types /\ Data(r) /\ Kept(r) /\ OwnEvent(r)
  BY DEF Inv
<1>1. PICK c : c = Started(<<r, 1>>, None)
  OBVIOUS
<1>2. PICK id : id = <<r, 1>>
  OBVIOUS
<1>3. /\ pc[r] = "idle" /\ outbox[r] = << >> /\ ring' = Add(ring, id, c)
      /\ shape' = [shape EXCEPT ![r] = s] /\ pc' = [pc EXCEPT ![r] = "added"]
      /\ UNCHANGED <<attempt, resp, full, rerr, out, gone, outbox, published, produced>>
  BY <1>1, <1>2 DEF Arrive, At, Goto, reading
<1>4. attempt[r] = 1 /\ pc'[r] = "added" /\ shape'[r] = s /\ 1 \in Attempt
  BY <1>0, <1>3 DEF Data, Types, Attempt
<1>5. /\ RingTypes' /\ RingAlone(r)
      /\ \A x \in Stored(ring') :
             /\ x \in Stored(ring) \cup {id}
             /\ ring'.captures[x] = IF x = id THEN c ELSE ring.captures[x]
  BY <1>0, <1>2, <1>3, <1>4, AddStep
<1>6. \A k \in Attempt : <<r, k>> \notin Stored(ring)
  BY <1>0, <1>3 DEF Kept, Standing
<1>7. c \in Capture /\ c.status \notin Terminal
  BY <1>1, StartedCapture
<1>8. Kept(r)'
  <2> SUFFICES ASSUME NEW k \in Attempt, <<r, k>> \in Stored(ring')
               PROVE  (Standing(r, k, ring.captures[<<r, k>>]) /\ Shown(r, k, ring.captures[<<r, k>>]))'
    BY DEF Kept
  <2>1. k = 1 /\ ring'.captures[<<r, k>>] = c
    BY <1>2, <1>5, <1>6
  <2>2. Standing(r, k, c)'
    BY <1>3, <1>4, <1>7, <2>1 DEF Standing
  <2>3. Shown(r, k, c)'
    BY <1>3, <1>4, <2>1 DEF Shown
  <2> QED
    BY <2>1, <2>2, <2>3
<1>9. OwnEvent(r)' /\ EventTypes'
  BY <1>0, <1>3 DEF OwnEvent, EventTypes, Types
<1>10. Data(r)'
  BY <1>0, <1>3, <1>4 DEF Data, Silent, Cap
<1>11. Alone(r)
  BY <1>0, <1>3 DEF Types, Alone
<1>12. Types'
  BY <1>0, <1>3, <1>5, <1>9 DEF Types, Places
<1> QED
  BY <1>5, <1>8, <1>9, <1>10, <1>11, <1>12, StepKeeps

LEMMA RetryKeeps ==
    ASSUME Inv, NEW r \in Request, Retry(r) PROVE Inv'
<1>0. Types /\ Data(r) /\ Kept(r) /\ OwnEvent(r)
  BY DEF Inv
<1>1. PICK c : c = Started(<<r, 2>>, <<r, 1>>)
  OBVIOUS
<1>2. PICK id : id = <<r, 2>>
  OBVIOUS
<1>3. /\ pc[r] = "linked" /\ outbox[r] = << >> /\ ring' = Add(ring, id, c)
      /\ attempt' = [attempt EXCEPT ![r] = 2] /\ full' = [full EXCEPT ![r] = << >>]
      /\ rerr' = [rerr EXCEPT ![r] = "nil"] /\ resp' = [resp EXCEPT ![r] = None]
      /\ pc' = [pc EXCEPT ![r] = "added"]
      /\ UNCHANGED <<shape, out, gone, outbox, published, produced>>
  BY <1>1, <1>2 DEF Retry, RetryUnder, At, Goto
<1>4. /\ pc'[r] = "added" /\ attempt'[r] = 2 /\ full'[r] = << >> /\ rerr'[r] = "nil"
      /\ 2 \in Attempt /\ Cap(r)' = <<r, 2>>
  BY <1>0, <1>3 DEF Types, Attempt, Cap
<1>5. attempt[r] = 1
  BY <1>0, <1>3 DEF Data, Types, Attempt
<1>6. /\ RingTypes' /\ RingAlone(r)
      /\ \A x \in Stored(ring') :
             /\ x \in Stored(ring) \cup {id}
             /\ ring'.captures[x] = IF x = id THEN c ELSE ring.captures[x]
  BY <1>0, <1>2, <1>3, <1>4, AddStep
<1>7. c \in Capture /\ c.status \notin Terminal /\ c.fallbackOf = <<r, 1>>
  <2>1. <<r, 1>> \in CapId \cup {None}
    BY DEF CapId, Attempt
  <2> QED
    BY <1>1, <2>1, StartedCapture
<1>8. Kept(r)'
  <2> SUFFICES ASSUME NEW k \in Attempt, <<r, k>> \in Stored(ring')
               PROVE  (Standing(r, k, ring.captures[<<r, k>>]) /\ Shown(r, k, ring.captures[<<r, k>>]))'
    BY DEF Kept
  <2>1. CASE k = 2
    <3>1. ring'.captures[<<r, k>>] = c
      BY <1>2, <1>6, <2>1
    <3>2. Standing(r, k, c)'
      BY <1>4, <1>7, <2>1 DEF Standing
    <3>3. Shown(r, k, c)'
      BY <1>4, <2>1 DEF Shown
    <3> QED
      BY <3>1, <3>2, <3>3
  <2>2. CASE k = 1
    <3>1. PICK d : d = ring.captures[<<r, k>>]
      OBVIOUS
    <3>2. ring'.captures[<<r, k>>] = d /\ <<r, k>> \in Stored(ring)
      BY <1>2, <1>6, <2>2, <3>1
    <3>3. Standing(r, k, d) /\ Shown(r, k, d)
      BY <1>0, <3>1, <3>2 DEF Kept
    <3>4. Standing(r, k, d)'
      BY <1>3, <1>4, <1>5, <2>2, <3>3 DEF Standing
    <3>5. Shown(r, k, d)'
      BY <1>3, <3>3 DEF Shown, Known
    <3> QED
      BY <3>2, <3>4, <3>5
  <2> QED
    BY <2>1, <2>2 DEF Attempt
<1>9. OwnEvent(r)' /\ EventTypes'
  BY <1>0, <1>3 DEF OwnEvent, EventTypes, Types
<1>10. Data(r)'
  <2>1. full[r] \in Seq(Token) /\ Holds(full[r], {"refusal", "mixed"}) /\ Sent(full[r]) = produced[<<r, 1>>]
    BY <1>0, <1>3, <1>5 DEF Data, Types, Cap
  <2>2. Refused(produced[<<r, 1>>])
    BY <2>1, HoldsRefused
  <2>3. produced[<<r, 2>>] = << >> /\ Silent(r) /\ shape[r] = "message"
    BY <1>0, <1>3, <1>5 DEF Data
  <2>4. Sent(<< >>) = << >> /\ From(2, << >>)
    BY SentEmpty
  <2> QED
    BY <1>3, <1>4, <2>2, <2>3, <2>4 DEF Data, Silent
<1>11. Alone(r)
  BY <1>0, <1>3, <1>5 DEF Types, Alone
<1>12. Types'
  <2>1. << >> \in Seq(Token)
    OBVIOUS
  <2> QED
    BY <1>0, <1>3, <1>4, <1>6, <1>9, <2>1 DEF Types, Places
<1> QED
  BY <1>6, <1>8, <1>9, <1>10, <1>11, <1>12, StepKeeps
-----------------------------------------------------------------------------
\* Captures that differ in the link only.
LEMMA UnlinkedParts ==
    /\ \A c \in Capture : Unlinked(c) \in Capture /\ Unlinked(c) # None
    /\ \A c, d \in Capture : Unlinked(c) = Unlinked(d) <=>
           /\ c.status = d.status /\ c.response = d.response /\ c.chunks = d.chunks
           /\ c.body = d.body /\ c.fallbackOf = d.fallbackOf
    /\ Unlinked(None) = None
<1>1. ASSUME NEW c \in Capture PROVE Unlinked(c) = [c EXCEPT !.fallbackTo = None] /\ c # None
  BY DEF Unlinked
<1>2. \A c \in Capture : Unlinked(c) \in Capture /\ Unlinked(c) # None
  BY <1>1 DEF Capture
<1>3. ASSUME NEW c \in Capture, NEW d \in Capture
      PROVE  Unlinked(c) = Unlinked(d) <=>
                 /\ c.status = d.status /\ c.response = d.response /\ c.chunks = d.chunks
                 /\ c.body = d.body /\ c.fallbackOf = d.fallbackOf
  <2>1. PICK u : u = Unlinked(c)
    OBVIOUS
  <2>2. PICK v : v = Unlinked(d)
    OBVIOUS
  <2>3. /\ u.status = c.status /\ u.response = c.response /\ u.chunks = c.chunks
        /\ u.body = c.body /\ u.fallbackOf = c.fallbackOf /\ u.fallbackTo = None
        /\ v.status = d.status /\ v.response = d.response /\ v.chunks = d.chunks
        /\ v.body = d.body /\ v.fallbackOf = d.fallbackOf /\ v.fallbackTo = None
    BY <1>1, <2>1, <2>2 DEF Capture
  <2>4. u \in Capture /\ v \in Capture
    BY <1>2, <2>1, <2>2
  <2>5. u = v <=> /\ u.status = v.status /\ u.response = v.response /\ u.chunks = v.chunks
                  /\ u.body = v.body /\ u.fallbackOf = v.fallbackOf /\ u.fallbackTo = v.fallbackTo
    <3>1. /\ u = [status |-> u.status, response |-> u.response, chunks |-> u.chunks, body |-> u.body,
                  fallbackOf |-> u.fallbackOf, fallbackTo |-> u.fallbackTo]
          /\ v = [status |-> v.status, response |-> v.response, chunks |-> v.chunks, body |-> v.body,
                  fallbackOf |-> v.fallbackOf, fallbackTo |-> v.fallbackTo]
      BY <2>4 DEF Capture
    <3> QED
      BY <3>1
  <2> QED
    BY <2>1, <2>2, <2>3, <2>5
<1> QED
  BY <1>2, <1>3 DEF Unlinked

LEMMA ChunkAppended ==
    ASSUME NEW c \in Capture, NEW t \in Token, NEW d, d = [c EXCEPT !.chunks = Append(@, t)]
    PROVE  /\ d \in Capture /\ d.chunks = Append(c.chunks, t) /\ d.status = c.status
           /\ d.response = c.response /\ d.body = c.body
           /\ d.fallbackOf = c.fallbackOf /\ d.fallbackTo = c.fallbackTo
<1>1. PICK ts : ts = Append(c.chunks, t)
  OBVIOUS
<1>2. ts \in Seq(Token)
  BY <1>1, AppendProperties DEF Capture
<1>3. d = [c EXCEPT !.chunks = ts]
  BY <1>1
<1> QED
  BY <1>1, <1>2, <1>3 DEF Capture

\* A token that is recorded is told to those who knew of the ones before.
LEMMA ChunkStep ==
    ASSUME Types, NEW r \in Request, Kept(r), NEW t \in Token, RecordChunk(r, t),
           outbox[r] = << >>, UNCHANGED <<pc, attempt, published>>, pc[r] \notin {"added", "done"}
    PROVE  /\ RingTypes' /\ EventTypes' /\ RingAlone(r)
           /\ \A q \in Request \ {r} : outbox'[q] = outbox[q]
           /\ Kept(r)' /\ OwnEvent(r)'
<1>1. /\ attempt[r] \in Attempt /\ Cap(r) = <<r, attempt[r]>> /\ Cap(r) \in CapId
      /\ r \in DOMAIN outbox
  BY DEF Types, EventTypes, Cap, CapId
<1>2. PICK b : b = ring.captures[Cap(r)]
  OBVIOUS
<1>3. PICK c : c = [b EXCEPT !.chunks = Append(@, t)]
  OBVIOUS
<1>4. PICK s : s = Update(ring, Cap(r), c)
  OBVIOUS
<1>5. /\ Stored(s) = Stored(ring) /\ s.order = ring.order
      /\ \A x \in Stored(ring) : s.captures[x] = IF x = Cap(r) THEN c ELSE ring.captures[x]
  BY <1>4, UpdateNamed
<1>6. PICK ev : ev = [id |-> Cap(r), what |-> "chunk", payload |-> t]
  OBVIOUS
<1>7. ring' = s /\ outbox' = [outbox EXCEPT ![r] = <<ev>>]
  BY <1>2, <1>3, <1>4, <1>6 DEF RecordChunk
<1>8. ev \in Event /\ <<ev>>[1] = ev /\ Head(<<ev>>) = ev /\ ev.id = Cap(r) /\ <<ev>> # << >>
  BY <1>1, <1>6 DEF Event
<1>9. RingTypes' /\ EventTypes' /\ RingAlone(r)
  <2>1. RingTypes'
    BY <1>5, <1>7 DEF RingTypes, Types
  <2>2. EventTypes'
    BY <1>7, <1>8 DEF EventTypes, Types
  <2>3. \A q \in Request \ {r}, k \in Attempt : <<q, k>> # Cap(r)
    BY <1>1
  <2>4. RingAlone(r)
    BY <1>5, <1>7, <2>3 DEF RingAlone
  <2> QED
    BY <2>1, <2>2, <2>4
<1>10. OwnEvent(r)'
  BY <1>1, <1>7, <1>8 DEF OwnEvent, Cap
<1>11. Kept(r)'
  <2> SUFFICES ASSUME NEW k \in Attempt, <<r, k>> \in Stored(ring')
               PROVE  (Standing(r, k, ring.captures[<<r, k>>]) /\ Shown(r, k, ring.captures[<<r, k>>]))'
    BY DEF Kept
  <2>1. PICK d : d = ring.captures[<<r, k>>]
    OBVIOUS
  <2>2. Standing(r, k, d) /\ Shown(r, k, d) /\ <<r, k>> \in Stored(ring)
    BY <1>5, <1>7, <2>1 DEF Kept
  <2>3. CASE k = attempt[r]
    <3>1. d = b /\ ring'.captures[<<r, k>>] = c
      BY <1>1, <1>2, <1>5, <1>7, <2>1, <2>2, <2>3
    <3>2. b \in Capture
      BY <2>2, <3>1 DEF Standing
    <3>3. /\ c \in Capture /\ c.chunks = Append(b.chunks, t) /\ c.status = b.status
          /\ c.response = b.response /\ c.body = b.body
          /\ c.fallbackOf = b.fallbackOf /\ c.fallbackTo = b.fallbackTo
      BY <1>3, <3>2, ChunkAppended
    <3>4. Standing(r, k, c)'
      BY <1>1, <2>2, <2>3, <3>1, <3>3 DEF Standing
    <3>5. PICK p : p = published[<<r, k>>]
      OBVIOUS
    <3>6. Unlinked(p) = Unlinked(b) /\ p \in Capture \cup {None}
      BY <1>1, <2>2, <2>3, <3>1, <3>5 DEF Shown, Known, Types
    <3>7. p \in Capture
      BY <3>2, <3>6, UnlinkedParts
    <3>8. PICK n : n = [p EXCEPT !.chunks = Append(@, t)]
      OBVIOUS
    <3>9. /\ n \in Capture /\ n.chunks = Append(p.chunks, t) /\ n.status = p.status
          /\ n.response = p.response /\ n.body = p.body
          /\ n.fallbackOf = p.fallbackOf /\ n.fallbackTo = p.fallbackTo
      BY <3>7, <3>8, ChunkAppended
    <3>10. /\ p.status = b.status /\ p.response = b.response /\ p.chunks = b.chunks
           /\ p.body = b.body /\ p.fallbackOf = b.fallbackOf
      BY <3>2, <3>6, <3>7, UnlinkedParts
    <3>11. Unlinked(n) = Unlinked(c)
      BY <3>3, <3>9, <3>10, UnlinkedParts
    <3>12. Known(r, <<r, k>>)' = n
      <4>1. ev.what = "chunk" /\ ev.payload = t /\ p # None
        BY <1>6, <3>7
      <4>2. Told(p, ev) = n
        BY <3>8, <4>1 DEF Told
      <4>3. outbox'[r] = <<ev>> /\ published'[<<r, k>>] = p
        BY <1>1, <1>7, <3>5
      <4>4. Known(r, <<r, k>>)' = Told(p, ev)
        BY <1>1, <1>8, <2>3, <4>3 DEF Known
      <4> QED
        BY <4>2, <4>4
    <3>13. Shown(r, k, c)'
      BY <3>11, <3>12 DEF Shown
    <3> QED
      BY <3>1, <3>4, <3>13
  <2>4. CASE k # attempt[r]
    <3>1. ring'.captures[<<r, k>>] = d
      BY <1>1, <1>5, <1>7, <2>1, <2>2, <2>4
    <3>2. Standing(r, k, d)'
      BY <2>2, <2>4 DEF Standing
    <3>3. ev.id # <<r, k>>
      BY <1>1, <1>8, <2>4
    <3>4. Known(r, <<r, k>>)' = Known(r, <<r, k>>)
      BY <1>1, <1>7, <3>3, OthersKnown
    <3>5. Shown(r, k, d)'
      BY <2>2, <3>4 DEF Shown
    <3> QED
      BY <3>1, <3>2, <3>5
  <2> QED
    BY <2>3, <2>4
<1>12. \A q \in Request \ {r} : outbox'[q] = outbox[q]
  BY <1>7 DEF Types, EventTypes
<1> QED
  BY <1>9, <1>10, <1>11, <1>12

\* What a Read that returns a token does to what was read and sent.
LEMMA TokenData ==
    ASSUME Types, NEW r \in Request, Data(r), NEW kind \in Kind, NEW t \in Token,
           t.kind = kind, t.from = attempt[r], pc[r] \in {"peek", "drain", "copy", "pass"},
           full' = [full EXCEPT ![r] = Append(@, t)],
           produced' = [produced EXCEPT ![Cap(r)] = Append(@, kind)],
           UNCHANGED <<pc, shape, attempt, resp>>,
           out'[r].heads = out[r].heads,
           out'[r].body = IF pc[r] \in {"copy", "pass"} /\ resp[r].sse
                          THEN Append(out[r].body, t) ELSE out[r].body
    PROVE  Data(r)' /\ full'[r] \in Seq(Token) /\ produced'[Cap(r)] \in Seq(Kind)
<1>1. /\ attempt[r] \in Attempt /\ Cap(r) = <<r, attempt[r]>> /\ Cap(r) \in CapId
      /\ Cap(r)' = Cap(r) /\ <<r, 1>> \in CapId /\ <<r, 2>> \in CapId
  BY DEF Types, Cap, CapId, Attempt
<1>2. full[r] \in Seq(Token) /\ Sent(full[r]) = produced[Cap(r)] /\ From(attempt[r], full[r])
  BY DEF Types, Data
<1>3. PICK ts : ts = Append(full[r], t)
  OBVIOUS
<1>4. PICK ks : ks = Append(produced[Cap(r)], kind)
  OBVIOUS
<1>5. full'[r] = ts
  BY <1>3 DEF Types
<1>6. \A id \in CapId : produced'[id] = IF id = Cap(r) THEN ks ELSE produced[id]
  BY <1>1, <1>4 DEF Types
<1>7. Sent(ts) = ks
  BY <1>2, <1>3, <1>4, SentAppend
<1>8. ts \in Seq(Token) /\ From(attempt[r], ts)
  BY <1>2, <1>3, FromAppend
<1>9. ks \in Seq(Kind)
  BY <1>1, <1>4, AppendProperties DEF Types
<1>10. Holds(full[r], {"refusal", "mixed"}) => Holds(ts, {"refusal", "mixed"})
  BY <1>2, <1>3, HoldsAppend
<1>11. attempt[r] = 1 => produced'[<<r, 2>>] = produced[<<r, 2>>]
  BY <1>1, <1>6
<1>12. attempt[r] = 2 => produced'[<<r, 1>>] = produced[<<r, 1>>]
  BY <1>1, <1>6
<1>13. Sent(full'[r]) = produced'[Cap(r)] /\ From(attempt[r], full'[r])
  BY <1>1, <1>5, <1>6, <1>7, <1>8
<1>14. pc[r] \in {"peek", "drain"} => Silent(r)'
  BY DEF Data, Silent
<1>15. pc[r] \in {"copy", "pass"} =>
           /\ out'[r].heads = <<attempt[r]>>
           /\ out'[r].body = IF resp[r].sse THEN full'[r] ELSE << >>
  BY <1>3, <1>5 DEF Data
<1>16. Data(r)'
  BY <1>1, <1>5, <1>10, <1>11, <1>12, <1>13, <1>14, <1>15 DEF Data
<1> QED
  BY <1>1, <1>5, <1>6, <1>8, <1>9, <1>16

LEMMA ReadTokenKeeps ==
    ASSUME Inv, NEW r \in Request, NEW kind \in Kind, NEW e \in {"nil", "eof", "error"},
           ReadToken(r, kind, e)
    PROVE  Inv'
<1>0. Types /\ Data(r) /\ Kept(r) /\ OwnEvent(r)
  BY DEF Inv
<1>1. PICK raw : raw = Raw(r, kind)
  OBVIOUS
<1>2. PICK ruled : ruled = Ruled(<<raw>>)[1]
  OBVIOUS
<1>3. /\ pc[r] \in {"peek", "drain", "copy", "pass"} /\ outbox[r] = << >>
      /\ rerr' = [rerr EXCEPT ![r] = e]
      /\ produced' = [produced EXCEPT ![Cap(r)] = Append(@, kind)]
      /\ UNCHANGED <<pc, shape, attempt, resp, gone, published>>
  BY DEF ReadToken, Reading, At
<1>4. \/ /\ pc[r] \in {"peek", "drain"} /\ full' = [full EXCEPT ![r] = Append(@, raw)]
         /\ RecordChunk(r, raw) /\ out' = out
      \/ /\ pc[r] \in {"copy", "pass"} /\ resp[r].sse
         /\ full' = [full EXCEPT ![r] = Append(@, ruled)]
         /\ out' = [out EXCEPT ![r].body = Append(@, ruled)]
         /\ RecordChunk(r, ruled)
      \/ /\ pc[r] = "copy" /\ ~resp[r].sse
         /\ full' = [full EXCEPT ![r] = Append(@, raw)]
         /\ UNCHANGED <<ring, out, outbox>>
  BY <1>1, <1>2 DEF ReadToken
<1>5. attempt[r] \in Attempt /\ Cap(r) \in CapId
  BY <1>0 DEF Types, Cap, CapId
<1>6. raw \in Token /\ raw.kind = kind /\ raw.from = attempt[r]
  BY <1>1, <1>5 DEF Raw, Token
<1>7. ruled \in Token /\ ruled.kind = kind /\ ruled.from = attempt[r]
  <2>1. Len(<<raw>>) = 1 /\ <<raw>>[1] = raw /\ 1 \in 1 .. 1
    OBVIOUS
  <2>2. ruled = [raw EXCEPT !.ruled = ResponseRules]
    BY <1>2, <2>1 DEF Ruled
  <2> QED
    BY <1>6, <2>2 DEF Token
<1>8. /\ RingTypes' /\ EventTypes' /\ RingAlone(r)
      /\ \A q \in Request \ {r} : outbox'[q] = outbox[q]
      /\ Kept(r)' /\ OwnEvent(r)'
  <2>1. CASE RecordChunk(r, raw)
    BY <1>0, <1>3, <1>6, <2>1, ChunkStep
  <2>2. CASE RecordChunk(r, ruled)
    BY <1>0, <1>3, <1>7, <2>2, ChunkStep
  <2>3. CASE UNCHANGED <<ring, out, outbox>>
    <3>1. PICK c : c = ring.captures[Cap(r)]
      OBVIOUS
    <3>2. Standing(r, attempt[r], c) => Standing(r, attempt[r], c)'
      BY <1>3 DEF Standing
    <3>3. pc'[r] # "idle" /\ (pc[r] = "added" <=> pc'[r] = "added")
      BY <1>3
    <3>4. RingTypes' /\ EventTypes' /\ RingAlone(r) /\ Kept(r)' /\ OwnEvent(r)'
      BY <1>0, <1>3, <2>3, <3>1, <3>2, <3>3, QuietStep
    <3> QED
      BY <2>3, <3>4
  <2> QED
    BY <1>4, <2>1, <2>2, <2>3
<1>9. PICK t \in Token :
          /\ t.kind = kind /\ t.from = attempt[r] /\ full' = [full EXCEPT ![r] = Append(@, t)]
          /\ IF pc[r] \in {"copy", "pass"} /\ resp[r].sse
             THEN out' = [out EXCEPT ![r].body = Append(@, t)] ELSE out' = out
  BY <1>4, <1>6, <1>7
<1>10. /\ out'[r].heads = out[r].heads
       /\ out'[r].body = IF pc[r] \in {"copy", "pass"} /\ resp[r].sse
                         THEN Append(out[r].body, t) ELSE out[r].body
       /\ \A q \in Request \ {r} : out'[q] = out[q]
       /\ out' \in [Request -> [heads : Seq(Attempt \cup {ErrorPage}), body : Seq(Token)]]
  <2>1. out \in [Request -> [heads : Seq(Attempt \cup {ErrorPage}), body : Seq(Token)]]
    BY <1>0 DEF Types
  <2>2. CASE pc[r] \in {"copy", "pass"} /\ resp[r].sse
    <3>1. PICK b : b = Append(out[r].body, t)
      OBVIOUS
    <3>2. b \in Seq(Token)
      BY <2>1, <3>1, AppendProperties
    <3>3. PICK o : o = [out[r] EXCEPT !.body = b]
      OBVIOUS
    <3>4. /\ o \in [heads : Seq(Attempt \cup {ErrorPage}), body : Seq(Token)]
          /\ o.heads = out[r].heads /\ o.body = b
      BY <2>1, <3>2, <3>3
    <3>5. out' = [out EXCEPT ![r] = o]
      BY <1>9, <2>2, <3>1, <3>3
    <3> QED
      BY <2>1, <2>2, <3>1, <3>4, <3>5
  <2>3. CASE ~(pc[r] \in {"copy", "pass"} /\ resp[r].sse)
    BY <1>9, <2>1, <2>3
  <2> QED
    BY <2>2, <2>3
<1>11. Data(r)' /\ full'[r] \in Seq(Token) /\ produced'[Cap(r)] \in Seq(Kind)
  BY <1>0, <1>3, <1>9, <1>10, TokenData
<1>12. Alone(r)
  BY <1>0, <1>3, <1>8, <1>9, <1>10 DEF Types, Alone
<1>13. Types'
  <2>1. full' \in [Request -> Seq(Token)]
    BY <1>0, <1>9, <1>11 DEF Types
  <2>2. produced' \in [CapId -> Seq(Kind)]
    BY <1>0, <1>3, <1>5, <1>11 DEF Types
  <2> QED
    BY <1>0, <1>3, <1>8, <1>10, <2>1, <2>2 DEF Types
<1> QED
  BY <1>8, <1>11, <1>12, <1>13, StepKeeps
-----------------------------------------------------------------------------
LEMMA InitInv == Init => Inv
<1> SUFFICES ASSUME Init PROVE Inv
  OBVIOUS
<1>1. << >> \in Seq(Token) /\ << >> \in Seq(CapId) /\ << >> \in Seq(Kind)
      /\ << >> \in Seq(Attempt \cup {ErrorPage}) /\ Len(<< >>) = 0 /\ 0 <= MaxCaptures
  BY MaxAssumption
<1>2. Stored(ring) = {} /\ ring.order = << >>
  BY EmptyParts DEF Init
<1>3. RingTypes /\ EventTypes
  BY <1>1, <1>2 DEF Init, RingTypes, EventTypes
<1>4. Types
  BY <1>1, <1>3 DEF Init, Types, Places, Attempt
<1>5. ASSUME NEW r \in Request PROVE Data(r) /\ Kept(r) /\ OwnEvent(r)
  <2>1. /\ pc[r] = "idle" /\ attempt[r] = 1 /\ full[r] = << >> /\ rerr[r] = "nil"
        /\ out[r].heads = << >> /\ out[r].body = << >> /\ outbox[r] = << >>
    BY DEF Init
  <2>2. produced[<<r, 1>>] = << >> /\ produced[<<r, 2>>] = << >>
    BY DEF Init, CapId, Attempt
  <2>3. Sent(full[r]) = produced[Cap(r)] /\ From(attempt[r], full[r])
    BY <2>1, <2>2, SentEmpty DEF Cap
  <2>4. Data(r)
    BY <2>1, <2>2, <2>3 DEF Data, Silent
  <2> QED
    BY <1>2, <2>1, <2>4 DEF Kept, OwnEvent
<1> QED
  BY <1>4, <1>5 DEF Inv

LEMMA NextInv == Inv /\ [Next]_vars => Inv'
<1> SUFFICES ASSUME Inv, [Next]_vars PROVE Inv'
  OBVIOUS
<1>1. ASSUME NEW r \in Request, Serve(r) PROVE Inv'
  <2>1. CASE Publish(r)
    BY <2>1, PublishKeeps
  <2>2. CASE Announce(r)
    BY <2>2, AnnounceKeeps
  <2>3. CASE Unparsable(r) \/ PeekFails(r)
    BY <2>3, RejectsParts, RejectsKeeps
  <2>4. CASE MarkForwarded(r)
    BY <2>4, MarkForwardedKeeps
  <2>5. CASE StartPeek(r)
    BY <2>5, StartPeekKeeps
  <2>6. CASE StartCopy(r)
    BY <2>6, StartCopyKeeps
  <2>7. CASE Commit(r)
    BY <2>7, CommitKeeps
  <2>8. CASE Refuse(r)
    BY <2>8, RefuseKeeps
  <2>9. CASE RecordRefusal(r)
    BY <2>9, RecordRefusalKeeps
  <2>10. CASE ServeRefusal(r)
    BY <2>10, ServeRefusalKeeps
  <2>11. CASE Link(r)
    BY <2>11, LinkKeeps
  <2>12. CASE Retry(r)
    BY <2>12, RetryKeeps
  <2>13. CASE CopyFails(r)
    BY <2>13, CopyFailsKeeps
  <2>14. CASE Complete(r)
    BY <2>14, CompleteKeeps
  <2>15. CASE CompletePeeked(r)
    BY <2>15, CompletePeekedKeeps
  <2> QED
    BY <1>1, <2>1, <2>2, <2>3, <2>4, <2>5, <2>6, <2>7, <2>8, <2>9, <2>10, <2>11,
       <2>12, <2>13, <2>14, <2>15 DEF Serve
<1>2. ASSUME NEW r \in Request, Upstream(r) PROVE Inv'
  <2>1. CASE SendFails(r)
    BY <2>1, RejectsParts, RejectsKeeps
  <2>2. CASE \E h \in Response : Responds(r, h)
    BY <2>2, RespondsKeeps
  <2>3. CASE \E kind \in Kind, e \in {"nil", "eof", "error"} : ReadToken(r, kind, e)
    BY <2>3, ReadTokenKeeps
  <2>4. CASE \E e \in {"eof", "error"} : ReadEnds(r, e)
    BY <2>4, ReadEndsKeeps
  <2> QED
    BY <1>2, <2>1, <2>2, <2>3, <2>4 DEF Upstream
<1>3. ASSUME NEW r \in Request, Leave(r) PROVE Inv'
  BY <1>3, LeaveKeeps
<1>4. ASSUME NEW r \in Request, NEW s \in Shape, Arrive(r, s) PROVE Inv'
  BY <1>4, ArriveKeeps
<1>5. ASSUME ClearCaptures PROVE Inv'
  BY <1>5, ClearKeeps
<1>6. ASSUME UNCHANGED vars PROVE Inv'
  <2>1. UNCHANGED <<ring, pc, shape, attempt, resp, full, rerr, out, gone, outbox, published, produced>>
    BY <1>6 DEF vars
  <2>2. Types'
    BY <2>1 DEF Inv, Types, RingTypes, EventTypes, Stored
  <2>3. ASSUME NEW r \in Request PROVE Data(r)' /\ Kept(r)' /\ OwnEvent(r)'
    <3>1. Data(r) /\ Kept(r) /\ OwnEvent(r)
      BY DEF Inv
    <3>2. Data(r)' /\ OwnEvent(r)'
      BY <2>1, <3>1 DEF Data, OwnEvent, Silent, Cap
    <3>3. Kept(r)'
      BY <2>1, <3>1 DEF Kept, Standing, Shown, Known, Stored
    <3> QED
      BY <3>2, <3>3
  <2> QED
    BY <2>2, <2>3 DEF Inv
<1> QED
  BY <1>1, <1>2, <1>3, <1>4, <1>5, <1>6 DEF Next

LEMMA Invariance == Spec => []Inv
BY InitInv, NextInv, PTL DEF Spec
-----------------------------------------------------------------------------
\* What each capture in the ring is, for use below.
LEMMA StoredParts ==
    ASSUME Inv, NEW id \in Stored(ring)
    PROVE  \E r \in Request, k \in Attempt :
               /\ id = <<r, k>> /\ Standing(r, k, ring.captures[id])
               /\ Shown(r, k, ring.captures[id])
<1>1. id \in CapId
  BY DEF Inv, Types, RingTypes
<1>2. PICK r \in Request, k \in Attempt : id = <<r, k>>
  BY <1>1 DEF CapId
<1>3. Kept(r)
  BY DEF Inv
<1> QED
  BY <1>2, <1>3 DEF Kept

\* Where the answer comes from.
LEMMA SourceParts ==
    ASSUME Inv, NEW r \in Request
    PROVE  /\ Source(r) \in Attempt =>
                  /\ Source(r) = attempt[r] /\ out[r].heads = <<attempt[r]>>
                  /\ resp[r].sse => Sent(out[r].body) = produced[<<r, attempt[r]>>]
           /\ \A k \in Attempt : out[r].heads = <<k>> => Source(r) = k
<1>1. Types /\ Data(r)
  BY DEF Inv
<1>2. \A k : Head(<<k>>) = k /\ <<k>> # << >>
  OBVIOUS
<1>3. /\ Silent(r) => Source(r) = None
      /\ out[r].heads = <<ErrorPage>> => Source(r) = ErrorPage
      /\ out[r].heads = <<attempt[r]>> => Source(r) = attempt[r]
      /\ \A k \in Attempt : out[r].heads = <<k>> => Source(r) = k
  BY <1>2 DEF Source, Silent
<1>4. pc[r] \in Places /\ None \notin Attempt /\ ErrorPage \notin Attempt
  BY <1>1 DEF Types, ErrorPage, Attempt
<1>5. Sent(full[r]) = produced[<<r, attempt[r]>>]
  BY <1>1 DEF Data, Cap
<1>6. CASE pc[r] \in {"idle", "added", "forward", "send", "answered", "peek", "drain", "retry",
                      "linked"}
  BY <1>1, <1>3, <1>4, <1>6 DEF Data
<1>7. CASE pc[r] \in {"copy", "pass"}
  BY <1>1, <1>3, <1>5, <1>7 DEF Data
<1>8. CASE pc[r] = "done"
  BY <1>1, <1>3, <1>4, <1>5, <1>8 DEF Data
<1> QED
  BY <1>4, <1>6, <1>7, <1>8 DEF Places

LEMMA InvTypes == Inv => TypeOK
<1> SUFFICES ASSUME Inv PROVE TypeOK
  OBVIOUS
<1>1. \A id \in Stored(ring) : ring.captures[id] \in Capture
  BY StoredParts DEF Standing
<1>2. ASSUME NEW r \in Request PROVE Len(outbox[r]) <= 1
  <2>1. PICK e : e = outbox[r][1]
    OBVIOUS
  <2>2. outbox[r] = << >> \/ outbox[r] = <<e>>
    BY <2>1 DEF Inv, Types, EventTypes
  <2>3. Len(<< >>) = 0 /\ Len(<<e>>) = 1
    OBVIOUS
  <2>4. CASE outbox[r] = << >>
    BY <2>3, <2>4
  <2>5. CASE outbox[r] = <<e>>
    BY <2>3, <2>5
  <2> QED
    BY <2>2, <2>4, <2>5
<1> QED
  BY <1>1, <1>2 DEF Inv, Types, RingTypes, Places, TypeOK

\* For any sizes of the ring and the peek window and any tokens, every
\* variable of an exchange keeps its type; the ring holds captures only.
THEOREM TypeCorrect == Spec => []TypeOK
BY Invariance, InvTypes, PTL

LEMMA InvFaithful == Inv => FaithfulStream
BY SourceParts DEF FaithfulStream

\* Nothing of a stream is lost, doubled or reordered between upstream and
\* the client, wherever the peek window ends and however the chunks fall.
THEOREM StreamIsFaithful == Spec => []FaithfulStream
BY Invariance, InvFaithful, PTL

LEMMA InvJustified == Inv => RetryIsJustified
<1> SUFFICES ASSUME Inv, NEW r \in Request, attempt[r] = 2
             PROVE  /\ shape[r] = "message"
                    /\ \E i \in 1 .. Len(produced[<<r, 1>>]) :
                           produced[<<r, 1>>][i] \in {"refusal", "mixed"}
                    /\ Source(r) # 1
                    /\ {<<r, 1>>, <<r, 2>>} \subseteq Stored(ring) =>
                           /\ ring.captures[<<r, 1>>].fallbackTo = <<r, 2>>
                           /\ ring.captures[<<r, 2>>].fallbackOf = <<r, 1>>
                           /\ ring.captures[<<r, 1>>].status = "aup_refused"
  BY DEF RetryIsJustified
<1>1. Data(r) /\ Kept(r)
  BY DEF Inv
<1>2. shape[r] = "message" /\ Refused(produced[<<r, 1>>])
  BY <1>1 DEF Data
<1>3. Source(r) # 1
  <2>1. Source(r) \in Attempt => Source(r) = attempt[r]
    BY SourceParts
  <2> QED
    BY <2>1 DEF Attempt
<1>4. ASSUME {<<r, 1>>, <<r, 2>>} \subseteq Stored(ring)
      PROVE  /\ ring.captures[<<r, 1>>].fallbackTo = <<r, 2>>
             /\ ring.captures[<<r, 2>>].fallbackOf = <<r, 1>>
             /\ ring.captures[<<r, 1>>].status = "aup_refused"
  <2>1. /\ Standing(r, 1, ring.captures[<<r, 1>>])
        /\ Standing(r, 2, ring.captures[<<r, 2>>])
    BY <1>1, <1>4 DEF Kept, Attempt
  <2> QED
    BY <2>1 DEF Standing
<1> QED
  BY <1>2, <1>3, <1>4 DEF Refused

\* Upstream is asked twice only after a refusal, before anything was sent,
\* and the two captures name each other.
THEOREM RetryJustified == Spec => []RetryIsJustified
BY Invariance, InvJustified, PTL

LEMMA InvWhole == Inv => CompletedIsWhole
<1> SUFFICES ASSUME Inv, NEW r \in Request, NEW k \in Attempt, <<r, k>> \in Stored(ring),
                    ring.captures[<<r, k>>].status = "completed"
             PROVE  /\ Source(r) = k
                    /\ ring.captures[<<r, k>>].body = out[r].body
                    /\ Sent(out[r].body) = produced[<<r, k>>]
                    /\ attempt[r] = k /\ rerr[r] = "eof"
  BY DEF CompletedIsWhole
<1>1. PICK c : c = ring.captures[<<r, k>>]
  OBVIOUS
<1>2. Standing(r, k, c) /\ c.status = "completed"
  BY <1>1 DEF Inv, Kept
<1>3. k = attempt[r] /\ pc[r] \in Places
  BY <1>2 DEF Inv, Types, Standing, Attempt
<1>4. pc[r] = "done"
  BY <1>2, <1>3 DEF Standing, Places, Terminal
<1>5. /\ out[r].heads = <<k>> /\ c.body = out[r].body /\ rerr[r] = "eof"
      /\ Sent(out[r].body) = produced[<<r, k>>]
  BY <1>2, <1>3, <1>4 DEF Standing
<1> QED
  BY <1>1, <1>3, <1>5, SourceParts

\* A capture that reads completed holds all that upstream produced and all
\* that the client was sent.
THEOREM CompletedWhole == Spec => []CompletedIsWhole
BY Invariance, InvWhole, PTL

LEMMA InvCurrent == Inv => PublishedIsCurrent
BY DEF Inv, Kept, Shown, Known, PublishedIsCurrent

\* Once a goroutine has no event in hand the subscribers know its captures
\* as the ring holds them.
THEOREM PublishedCurrent == Spec => []PublishedIsCurrent
BY Invariance, InvCurrent, PTL
-----------------------------------------------------------------------------
\* A capture whose exchange has ended is not touched again.
Stays ==
    \A id \in Stored(ring) \cap Stored(ring') :
        ring.captures[id].status \in Terminal =>
            Unlinked(ring'.captures[id]) = Unlinked(ring.captures[id])

LEMMA UpdateStays ==
    ASSUME NEW id, NEW c, ring' = Update(ring, id, c),
           id \in Stored(ring) /\ ring.captures[id].status \in Terminal =>
               Unlinked(c) = Unlinked(ring.captures[id])
    PROVE  Stays
<1>1. \A x \in Stored(ring) : ring'.captures[x] = IF x = id THEN c ELSE ring.captures[x]
  BY UpdateNamed
<1> QED
  BY <1>1 DEF Stays

LEMMA AddStays ==
    ASSUME NEW id, NEW c, ring' = Add(ring, id, c), id \notin Stored(ring)
    PROVE  Stays
<1>1. \A x \in Stored(ring') : ring'.captures[x] = IF x = id THEN c ELSE ring.captures[x]
  BY AddCaptures
<1> QED
  BY <1>1 DEF Stays

\* What a goroutine records, it records in a capture that has not ended.
LEMMA OpenStays ==
    ASSUME Inv, NEW r \in Request,
           pc[r] \in {"forward", "send", "peek", "drain", "copy", "pass"},
           NEW c, ring' = Update(ring, Cap(r), c)
    PROVE  Stays
<1>1. Kept(r) /\ attempt[r] \in Attempt /\ Cap(r) = <<r, attempt[r]>>
  BY DEF Inv, Types, Cap
<1>2. Cap(r) \in Stored(ring) => ring.captures[Cap(r)].status \notin Terminal
  BY <1>1 DEF Kept, Standing
<1> QED
  BY <1>2, UpdateStays

LEMMA RecordStays ==
    ASSUME Inv, NEW r \in Request,
           pc[r] \in {"forward", "send", "peek", "drain", "copy", "pass"},
           \/ \E c : Record(r, c)
           \/ \E t : RecordChunk(r, t)
    PROVE  Stays
<1>1. PICK c : ring' = Update(ring, Cap(r), c)
  <2>1. CASE \E c : Record(r, c)
    BY <2>1 DEF Record
  <2>2. CASE \E t : RecordChunk(r, t)
    BY <2>2 DEF RecordChunk
  <2> QED
    BY <2>1, <2>2
<1> QED
  BY <1>1, OpenStays

LEMMA LinkStays ==
    ASSUME Inv, NEW r \in Request, Link(r) PROVE Stays
<1>1. PICK d : d = ring.captures[Cap(r)]
  OBVIOUS
<1>2. PICK c : c = [d EXCEPT !.fallbackTo = <<r, 2>>]
  OBVIOUS
<1>3. ring' = Update(ring, Cap(r), c)
  BY <1>1, <1>2 DEF Link
<1>4. ASSUME Cap(r) \in Stored(ring) PROVE Unlinked(c) = Unlinked(d)
  <2>1. d \in Capture
    <3>1. attempt[r] \in Attempt /\ Cap(r) = <<r, attempt[r]>> /\ Kept(r)
      BY DEF Inv, Types, Cap
    <3>2. Standing(r, attempt[r], d)
      BY <1>1, <1>4, <3>1 DEF Kept
    <3> QED
      BY <3>2 DEF Standing
  <2>2. <<r, 2>> \in CapId
    BY DEF CapId, Attempt
  <2>3. /\ c \in Capture /\ c.status = d.status /\ c.response = d.response /\ c.chunks = d.chunks
        /\ c.body = d.body /\ c.fallbackOf = d.fallbackOf
    BY <1>2, <2>1, <2>2 DEF Capture
  <2> QED
    BY <2>1, <2>3, UnlinkedParts
<1> QED
  BY <1>1, <1>3, <1>4, UpdateStays

LEMMA ArriveStays ==
    ASSUME Inv, NEW r \in Request, NEW s \in Shape, Arrive(r, s) PROVE Stays
<1>1. <<r, 1>> \notin Stored(ring)
  BY DEF Inv, Kept, Standing, Arrive, At, Attempt
<1> QED
  BY <1>1, AddStays DEF Arrive

LEMMA RetryStays ==
    ASSUME Inv, NEW r \in Request, Retry(r) PROVE Stays
<1>1. attempt[r] = 1
  BY DEF Inv, Data, Types, Attempt, Retry, RetryUnder, At
<1>2. <<r, 2>> \notin Stored(ring)
  <2>1. Kept(r) /\ 2 \in Attempt
    BY DEF Inv, Attempt
  <2>2. <<r, 2>> \in Stored(ring) => Standing(r, 2, ring.captures[<<r, 2>>])
    BY <2>1 DEF Kept
  <2> QED
    BY <1>1, <2>2 DEF Standing
<1> QED
  BY <1>2, AddStays DEF Retry, RetryUnder

LEMMA StepStays == Inv /\ [Next]_vars => Stays
<1> SUFFICES ASSUME Inv, [Next]_vars PROVE Stays
  OBVIOUS
<1>1. ASSUME UNCHANGED ring PROVE Stays
  BY <1>1 DEF Stays
<1>2. ASSUME NEW r \in Request, Serve(r) PROVE Stays
  <2>1. CASE Publish(r) \/ Announce(r) \/ StartPeek(r) \/ StartCopy(r) \/ Commit(r) \/ Refuse(r)
             \/ ServeRefusal(r)
    BY <1>1, <2>1 DEF Publish, Announce, StartPeek, StartCopy, Commit, CommitWith, Refuse,
                      ServeRefusal, ServeBuffered
  <2>2. CASE Unparsable(r) \/ MarkForwarded(r) \/ PeekFails(r) \/ CopyFails(r)
    <3>1. pc[r] \in {"forward", "peek", "copy", "pass"} /\ \E c : Record(r, c)
      BY <2>2 DEF Unparsable, MarkForwarded, PeekFails, CopyFails, Fail, At
    <3> QED
      BY <3>1, RecordStays
  <2>3. CASE RecordRefusal(r) \/ Complete(r) \/ CompletePeeked(r)
    <3>1. pc[r] \in {"drain", "copy", "pass"} /\ \E c : Record(r, c)
      BY <2>3 DEF RecordRefusal, Drained, Complete, CompletePeeked, PassEnds, Finished, At
    <3> QED
      BY <3>1, RecordStays
  <2>4. CASE Link(r)
    BY <2>4, LinkStays
  <2>5. CASE Retry(r)
    BY <2>5, RetryStays
  <2> QED
    BY <1>2, <2>1, <2>2, <2>3, <2>4, <2>5 DEF Serve
<1>3. ASSUME NEW r \in Request, Upstream(r) PROVE Stays
  <2>1. CASE SendFails(r)
    <3>1. pc[r] = "send" /\ \E c : Record(r, c)
      BY <2>1 DEF SendFails, Fail, At
    <3> QED
      BY <3>1, RecordStays
  <2>2. CASE \E h \in Response : Responds(r, h)
    <3>1. pc[r] = "send" /\ \E c : Record(r, c)
      BY <2>2 DEF Responds, At
    <3> QED
      BY <3>1, RecordStays
  <2>3. CASE \E kind \in Kind, e \in {"nil", "eof", "error"} : ReadToken(r, kind, e)
    <3>1. pc[r] \in {"peek", "drain", "copy", "pass"}
      BY <2>3 DEF ReadToken, Reading, At
    <3>2. (\E t : RecordChunk(r, t)) \/ UNCHANGED ring
      BY <2>3 DEF ReadToken
    <3> QED
      BY <1>1, <3>1, <3>2, RecordStays
  <2>4. CASE \E e \in {"eof", "error"} : ReadEnds(r, e)
    BY <1>1, <2>4 DEF ReadEnds
  <2> QED
    BY <1>3, <2>1, <2>2, <2>3, <2>4 DEF Upstream
<1>4. ASSUME NEW r \in Request, Leave(r) PROVE Stays
  BY <1>1, <1>4 DEF Leave
<1>5. ASSUME NEW r \in Request, NEW s \in Shape, Arrive(r, s) PROVE Stays
  BY <1>5, ArriveStays
<1>6. ASSUME ClearCaptures PROVE Stays
  <2>1. Stored(ring') = {}
    BY <1>6, EmptyParts DEF ClearCaptures
  <2> QED
    BY <2>1 DEF Stays
<1>7. CASE UNCHANGED vars
  BY <1>1, <1>7 DEF vars
<1> QED
  BY <1>2, <1>3, <1>4, <1>5, <1>6, <1>7 DEF Next

\* The record of an exchange that has ended is final: nothing but the link
\* to the retry is added to it, by whatever comes after.
THEOREM EndedStays == Spec => TerminalStays
<1>1. Inv /\ [Next]_vars =>
          [\A id \in Stored(ring) \cap DOMAIN ring'.captures :
               ring.captures[id].status \in Terminal =>
                   Unlinked(ring'.captures[id]) = Unlinked(ring.captures[id])]_vars
  BY StepStays DEF Stays, Stored
<1> QED
  BY <1>1, Invariance, PTL DEF Spec, TerminalStays
-----------------------------------------------------------------------------
\* Prefixes of what was sent.
LEMMA PrefixParts ==
    ASSUME NEW S, NEW s \in Seq(S)
    PROVE  /\ OneAnswer!IsPrefix(s, s) /\ OneAnswer!IsPrefix(<< >>, s)
           /\ \A e \in S : OneAnswer!IsPrefix(s, Append(s, e))
<1>1. SubSeq(s, 1, Len(s)) = SubSeq(s, 1, Len(s)) /\ Len(s) \in Nat
  BY LenProperties
<1>2. OneAnswer!IsPrefix(s, s)
  BY <1>1 DEF OneAnswer!IsPrefix
<1>3. Len(<< >>) = 0 /\ SubSeq(<< >>, 1, 0) = << >> /\ SubSeq(s, 1, 0) = << >>
  OBVIOUS
<1>4. OneAnswer!IsPrefix(<< >>, s)
  BY <1>1, <1>3 DEF OneAnswer!IsPrefix
<1>5. ASSUME NEW e \in S PROVE OneAnswer!IsPrefix(s, Append(s, e))
  <2>1. PICK t : t = Append(s, e)
    OBVIOUS
  <2>2. /\ t \in Seq(S) /\ Len(t) = Len(s) + 1
        /\ \A i \in 1 .. Len(s) : t[i] = s[i]
    BY <1>5, <2>1, AppendProperties
  <2>3. PICK n : n = Len(s)
    OBVIOUS
  <2>4. /\ \A i \in 1 .. n : s[i] \in S /\ t[i] \in S
    BY <1>1, <2>2, <2>3, ElementOfSeq
  <2>5. PICK u : u = SubSeq(s, 1, n)
    OBVIOUS
  <2>6. PICK v : v = SubSeq(t, 1, n)
    OBVIOUS
  <2>7. u = v
    BY <1>1, <2>2, <2>3, <2>4, <2>5, <2>6
  <2> QED
    BY <1>1, <2>1, <2>2, <2>3, <2>5, <2>6, <2>7 DEF OneAnswer!IsPrefix
<1> QED
  BY <1>2, <1>4, <1>5
-----------------------------------------------------------------------------
\* How the steps look to the client.
LEMMA Stutters ==
    ASSUME Types, out' = out,
           \A q \in Request : pc'[q] = "done" <=> pc[q] = "done"
    PROVE  UNCHANGED OneAnswer!vars
BY DEF OneAnswer!vars

LEMMA OnlyParts ==
    ASSUME NEW r \in Request, pc[r] # "done",
           \A q \in Request \ {r} : out'[q] = out[q] /\ pc'[q] = pc[q]
    PROVE  OneAnswer!Only(r)
BY DEF OneAnswer!Only

LEMMA FromSame == \A k, ts : From(k, ts) <=> OneAnswer!From(k, ts)
BY DEF From, OneAnswer!From

LEMMA RejectsRefines ==
    ASSUME Inv, NEW r \in Request, Rejects(r) PROVE OneAnswer!Next
<1>1. /\ pc[r] \in {"forward", "send", "peek"} /\ Write(r, ErrorPage, << >>) /\ Moves(r, "done")
  BY DEF Rejects
<1>2. Types /\ Silent(r) /\ << >> \in Seq(Token) /\ ErrorPage \in Attempt \cup {ErrorPage}
  <2>1. Types /\ Data(r)
    BY DEF Inv
  <2>2. Silent(r)
    BY <1>1, <2>1 DEF Data
  <2> QED
    BY <2>1, <2>2
<1>3. /\ \A q \in Request \ {r} : out'[q] = out[q]
      /\ out'[r].heads = <<ErrorPage>> /\ out'[r].body = << >>
  BY <1>1, <1>2, WriteParts
<1>4. pc'[r] = "done" /\ \A q \in Request \ {r} : pc'[q] = pc[q]
  BY <1>1, <1>2 DEF Moves, Goto, Types
<1>5. OneAnswer!Only(r)
  BY <1>1, <1>3, <1>4, OnlyParts
<1>6. OneAnswer!Reject(r)
  BY <1>2, <1>3, <1>4 DEF OneAnswer!Reject, Silent
<1> QED
  BY <1>5, <1>6 DEF OneAnswer!Next

LEMMA StartsRefines ==
    ASSUME Inv, NEW r \in Request, StartCopy(r) \/ Commit(r) \/ ServeRefusal(r)
    PROVE  OneAnswer!Next
<1>1. PICK ts : ts = IF StartCopy(r) THEN << >> ELSE full[r]
  OBVIOUS
<1>2. PICK w \in {"copy", "pass", "done"} : Write(r, attempt[r], ts) /\ Goto(r, w)
  BY <1>1 DEF StartCopy, Commit, CommitWith, ServeRefusal, ServeBuffered
<1>3. pc[r] \in {"answered", "peek", "retry"}
  BY DEF StartCopy, Commit, CommitWith, ServeRefusal, ServeBuffered, At
<1>4. Types /\ Silent(r) /\ attempt[r] \in Attempt
  BY <1>3 DEF Inv, Data, Types
<1>5. ts \in Seq(Token) /\ From(attempt[r], ts)
  <2>1. Types /\ Data(r)
    BY DEF Inv
  <2>2. full[r] \in Seq(Token) /\ From(attempt[r], full[r])
    BY <2>1 DEF Data, Types
  <2>3. << >> \in Seq(Token)
    OBVIOUS
  <2> QED
    BY <1>1, <2>2, <2>3, SentEmpty
<1>6. /\ \A q \in Request \ {r} : out'[q] = out[q]
      /\ out'[r].heads = <<attempt[r]>> /\ out'[r].body = ts
  BY <1>2, <1>4, <1>5, StartsParts
<1>7. \A q \in Request \ {r} : pc'[q] = pc[q]
  BY <1>2, <1>4 DEF Goto, Types
<1>8. OneAnswer!Only(r)
  BY <1>3, <1>6, <1>7, OnlyParts
<1>9. PICK k \in Attempt : k = attempt[r]
  BY <1>4
<1>10. OneAnswer!Start(r, k)
  <2>1. OneAnswer!From(k, ts)
    BY <1>5, <1>9, FromSame
  <2> QED
    BY <1>4, <1>6, <1>9, <2>1 DEF OneAnswer!Start, Silent
<1> QED
  BY <1>8, <1>10 DEF OneAnswer!Next

LEMMA DeliverRefines ==
    ASSUME NEW r \in Request, NEW k, out[r].heads = <<k>>, out'[r].heads = <<k>>,
           OneAnswer!IsPrefix(out[r].body, out'[r].body), From(k, out'[r].body), pc[r] # "done",
           \A q \in Request \ {r} : out'[q] = out[q] /\ pc'[q] = pc[q]
    PROVE  OneAnswer!Next
<1>1. OneAnswer!Only(r)
  BY OnlyParts
<1>2. OneAnswer!From(k, out'[r].body) /\ Head(<<k>>) = k /\ <<k>> # << >>
  BY FromSame
<1>3. OneAnswer!Deliver(r)
  BY <1>2 DEF OneAnswer!Deliver
<1> QED
  BY <1>1, <1>3 DEF OneAnswer!Next

\* The ends of an answer that add nothing to it.
LEMMA EndsRefine ==
    ASSUME Inv, NEW r \in Request, pc[r] \in {"copy", "pass"}, Goto(r, "done"), out' = out
    PROVE  OneAnswer!Next
<1>1. /\ out[r].heads = <<attempt[r]>> /\ out[r].body = IF resp[r].sse THEN full[r] ELSE << >>
      /\ From(attempt[r], full[r]) /\ Types
  BY DEF Inv, Data
<1>2. From(attempt[r], out[r].body)
  BY <1>1, SentEmpty
<1>3. out[r].body \in Seq(Token)
  BY <1>1 DEF Types
<1>4. OneAnswer!IsPrefix(out[r].body, out'[r].body)
  BY <1>3, PrefixParts
<1>5. \A q \in Request \ {r} : pc'[q] = pc[q]
  BY <1>1 DEF Goto, Types
<1> QED
  BY <1>1, <1>2, <1>4, <1>5, DeliverRefines

LEMMA CompleteRefines ==
    ASSUME Inv, NEW r \in Request, Complete(r) PROVE OneAnswer!Next
<1>1. pc[r] = "copy" /\ Goto(r, "done")
  BY DEF Complete, At
<1>2. CASE resp[r].sse
  BY <1>1, <1>2, EndsRefine DEF Complete
<1>3. CASE ~resp[r].sse
  <2>1. PICK ts : ts = Ruled(full[r])
    OBVIOUS
  <2>2. /\ out[r].heads = <<attempt[r]>> /\ out[r].body = << >>
        /\ From(attempt[r], full[r]) /\ full[r] \in Seq(Token) /\ Types
    BY <1>1, <1>3 DEF Inv, Data, Types
  <2>3. ts \in Seq(Token) /\ From(attempt[r], ts)
    BY <2>1, <2>2, RuledParts
  <2>4. << >> \o ts = ts
    BY <2>3, ConcatEmptySeq
  <2>5. out' = [out EXCEPT ![r].body = ts]
    BY <1>3, <2>1, <2>2, <2>4 DEF Complete
  <2>6. /\ out'[r].heads = <<attempt[r]>> /\ out'[r].body = ts
        /\ \A q \in Request \ {r} : out'[q] = out[q]
    BY <2>2, <2>5 DEF Types
  <2>7. OneAnswer!IsPrefix(out[r].body, out'[r].body)
    BY <2>2, <2>3, <2>6, PrefixParts
  <2>8. \A q \in Request \ {r} : pc'[q] = pc[q]
    BY <1>1, <2>2 DEF Goto, Types
  <2> QED
    BY <1>1, <2>2, <2>3, <2>6, <2>7, <2>8, DeliverRefines
<1> QED
  BY <1>2, <1>3

LEMMA ReadTokenRefines ==
    ASSUME Inv, NEW r \in Request, NEW kind \in Kind, NEW e \in {"nil", "eof", "error"},
           ReadToken(r, kind, e)
    PROVE  [OneAnswer!Next]_(OneAnswer!vars)
<1>0. Types /\ Data(r) /\ pc' = pc
  BY DEF Inv, ReadToken
<1>1. CASE out' = out
  BY <1>0, <1>1, Stutters
<1>2. CASE out' # out
  <2>1. PICK t : t = Ruled(<<Raw(r, kind)>>)[1]
    OBVIOUS
  <2>2. /\ pc[r] \in {"copy", "pass"} /\ resp[r].sse
        /\ out' = [out EXCEPT ![r].body = Append(@, t)]
    BY <1>2, <2>1 DEF ReadToken
  <2>3. t \in Token /\ t.from = attempt[r]
    <3>1. PICK raw : raw = Raw(r, kind)
      OBVIOUS
    <3>2. raw \in Token /\ raw.from = attempt[r]
      BY <1>0, <3>1 DEF Raw, Token, Types
    <3>3. Len(<<raw>>) = 1 /\ <<raw>>[1] = raw /\ 1 \in 1 .. 1
      OBVIOUS
    <3>4. t = [raw EXCEPT !.ruled = ResponseRules]
      BY <2>1, <3>1, <3>3 DEF Ruled
    <3> QED
      BY <3>2, <3>4 DEF Token
  <2>4. /\ out[r].heads = <<attempt[r]>> /\ out[r].body = full[r]
        /\ From(attempt[r], full[r]) /\ full[r] \in Seq(Token)
    BY <1>0, <2>2 DEF Data, Types
  <2>5. PICK b : b = Append(full[r], t)
    OBVIOUS
  <2>6. out' = [out EXCEPT ![r].body = b]
    BY <2>2, <2>4, <2>5
  <2>7. /\ out'[r].heads = <<attempt[r]>> /\ out'[r].body = b
        /\ \A q \in Request \ {r} : out'[q] = out[q]
    BY <1>0, <2>4, <2>6 DEF Types
  <2>8. From(attempt[r], b)
    BY <2>3, <2>4, <2>5, FromAppend
  <2>9. OneAnswer!IsPrefix(full[r], b)
    BY <2>3, <2>4, <2>5, PrefixParts
  <2>10. \A q \in Request \ {r} : pc'[q] = pc[q]
    BY <1>0
  <2> QED
    BY <2>2, <2>4, <2>7, <2>8, <2>9, <2>10, DeliverRefines
<1> QED
  BY <1>1, <1>2

\* What goes on behind the answer.
LEMMA QuietRefines ==
    ASSUME Inv, NEW r \in Request,
           \/ Publish(r) \/ Announce(r) \/ MarkForwarded(r) \/ StartPeek(r) \/ Refuse(r)
           \/ RecordRefusal(r) \/ Link(r) \/ Retry(r) \/ Leave(r)
           \/ \E h \in Response : Responds(r, h)
           \/ \E e \in {"eof", "error"} : ReadEnds(r, e)
           \/ \E s \in Shape : Arrive(r, s)
    PROVE  UNCHANGED OneAnswer!vars
<1>0. Types
  BY DEF Inv
<1>1. CASE pc' = pc /\ out' = out
  BY <1>0, <1>1, Stutters
<1>2. CASE out' = out /\ pc[r] # "done"
           /\ \E w \in {"added", "forward", "send", "answered", "peek", "drain", "retry", "linked"} :
                  Goto(r, w)
  BY <1>0, <1>2, Stutters DEF Goto, Types
<1>3. CASE Publish(r) \/ Leave(r) \/ \E e \in {"eof", "error"} : ReadEnds(r, e)
  BY <1>1, <1>3 DEF Publish, Leave, ReadEnds
<1>4. CASE Announce(r) \/ MarkForwarded(r) \/ StartPeek(r) \/ Refuse(r)
  BY <1>2, <1>4 DEF Announce, MarkForwarded, StartPeek, Refuse, At
<1>5. CASE RecordRefusal(r) \/ Link(r) \/ Retry(r)
  BY <1>2, <1>5 DEF RecordRefusal, Drained, Link, Retry, RetryUnder, At
<1>6. CASE (\E h \in Response : Responds(r, h)) \/ \E s \in Shape : Arrive(r, s)
  BY <1>2, <1>6 DEF Responds, Arrive, At
<1> QED
  BY <1>3, <1>4, <1>5, <1>6

LEMMA StepRefines == Inv /\ [Next]_vars => [OneAnswer!Next]_(OneAnswer!vars)
<1> SUFFICES ASSUME Inv, [Next]_vars PROVE [OneAnswer!Next]_(OneAnswer!vars)
  OBVIOUS
<1>1. ASSUME NEW r \in Request, Serve(r) PROVE [OneAnswer!Next]_(OneAnswer!vars)
  <2>1. CASE Unparsable(r) \/ PeekFails(r)
    BY <2>1, RejectsParts, RejectsRefines
  <2>2. CASE StartCopy(r) \/ Commit(r) \/ ServeRefusal(r)
    BY <2>2, StartsRefines
  <2>3. CASE CopyFails(r) \/ CompletePeeked(r)
    BY <2>3, EndsRefine DEF CopyFails, CompletePeeked, PassEnds, At
  <2>4. CASE Complete(r)
    BY <2>4, CompleteRefines
  <2>5. CASE \/ Publish(r) \/ Announce(r) \/ MarkForwarded(r) \/ StartPeek(r) \/ Refuse(r)
             \/ RecordRefusal(r) \/ Link(r) \/ Retry(r)
    BY <2>5, QuietRefines
  <2> QED
    BY <1>1, <2>1, <2>2, <2>3, <2>4, <2>5 DEF Serve
<1>2. ASSUME NEW r \in Request, Upstream(r) PROVE [OneAnswer!Next]_(OneAnswer!vars)
  <2>1. CASE SendFails(r)
    BY <2>1, RejectsParts, RejectsRefines
  <2>2. CASE (\E h \in Response : Responds(r, h)) \/ \E e \in {"eof", "error"} : ReadEnds(r, e)
    BY <2>2, QuietRefines
  <2>3. CASE \E kind \in Kind, e \in {"nil", "eof", "error"} : ReadToken(r, kind, e)
    BY <2>3, ReadTokenRefines
  <2> QED
    BY <1>2, <2>1, <2>2, <2>3 DEF Upstream
<1>3. ASSUME NEW r \in Request, Leave(r) \/ \E s \in Shape : Arrive(r, s)
      PROVE  UNCHANGED OneAnswer!vars
  BY <1>3, QuietRefines
<1>4. CASE ClearCaptures \/ UNCHANGED vars
  <2>1. pc' = pc /\ out' = out /\ Types
    BY <1>4 DEF ClearCaptures, vars, Inv
  <2> QED
    BY <2>1, Stutters
<1> QED
  BY <1>1, <1>2, <1>3, <1>4 DEF Next

LEMMA InitRefines == Init => OneAnswer!Init
<1> SUFFICES ASSUME Init PROVE OneAnswer!Init
  OBVIOUS
<1>1. \A r \in Request : out[r].heads = << >> /\ out[r].body = << >>
  BY DEF Init
<1>2. \A r \in Request : (pc[r] = "done") <=> FALSE
  BY DEF Init
<1>3. [r \in Request |-> pc[r] = "done"] = [r \in Request |-> FALSE]
  BY <1>2
<1> QED
  BY <1>1, <1>3 DEF OneAnswer!Init

\* The exchange implements its promise to the client: whatever it does
\* upstream, to the ring and to the events, each client sees one answer.
THEOREM ExchangeRefinesAnswer == Spec => OneAnswerKept
BY InitRefines, StepRefines, Invariance, PTL DEF Spec, OneAnswerKept, OneAnswer!Spec
=============================================================================
