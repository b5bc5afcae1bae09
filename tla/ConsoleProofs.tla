---------------------------- MODULE ConsoleProofs ----------------------------
(***************************************************************************)
(* For any requests and bounds: the dialog of the page and the queue       *)
(* behind it never forget a pause that still waits for a decision.         *)
(***************************************************************************)
EXTENDS Console, SequenceTheorems, WellFoundedInduction, TLAPS

USE ConsoleAssumption

Pauses == {"new", "added", "announced", "waiting", "decided", "over"}

View == {"absent", "pending", "paused", "over"}

Event == [what : {"started", "intercepted", "updated"}, payload : Request]
         \cup [what : {"snapshot"}, payload : [Request -> View]]
         \cup [what : {"cleared"}, payload : {None}]

Post == [button : {"forward", "drop"}, id : Request, body : BOOLEAN,
         reply : {"none", "ok", "refused"}]

Basic ==
    /\ pause \in [Request -> Pauses]
    /\ stored \subseteq Request /\ connected \in BOOLEAN /\ hasty \in BOOLEAN
    /\ trouble \in 0 .. MaxTrouble
    /\ view \in [Request -> View] /\ loaded \subseteq Request
    /\ fetched \in [Request -> View \cup {"none", "asked"}]
    /\ owed \subseteq Request

\* The dialog is the head of the queue; it is open when something queues.
Queue ==
    /\ dialog \in Request \cup {None} /\ waitq \in Seq(Request)
    /\ ToSet(waitq) \subseteq Request \ {dialog} /\ IsInjective(waitq)
    /\ waitq # << >> => dialog # None

Shows(r) == r = dialog \/ r \in ToSet(waitq)

\* What is on its way is true when it arrives: a pause that is over stays so,
\* and nothing older than the interception the page was told of follows it.
Truth(e) ==
    /\ e.what = "started" => e.payload \notin owed
    /\ e.what = "intercepted" => pause[e.payload] \notin {"new", "added"}
    /\ e.what = "updated" => pause[e.payload] = "over"
    /\ e.what = "snapshot" => \A r \in Request :
           /\ e.payload[r] = "over" => pause[r] = "over"
           /\ e.payload[r] = "pending" => r \notin owed

\* A connection begins with its snapshot, and a capture with capture_started.
Before(e, f) ==
    /\ f.what # "snapshot"
    /\ (e.what = "intercepted" /\ f.what = "started") => e.payload # f.payload

Coming == /\ events \in Seq(Event) /\ Len(events) <= MaxEvents
          /\ \A i \in 1 .. Len(events) : Truth(events[i])
          /\ \A i, j \in 1 .. Len(events) : i < j => Before(events[i], events[j])

\* What the page has of a capture, or is about to get by a fetch.
Seen == /\ \A r \in Request : view[r] = "over" \/ fetched[r] = "over" => pause[r] = "over"
        /\ \A r \in owed : /\ pause[r] \notin {"new", "added"}
                           /\ view[r] \notin {"absent", "pending"}

\* A post that was accepted has ended the pause it was for.
Accepted(p) == p.reply = "ok" => pause[p.id] \in {"decided", "over"}

Posted == /\ posts \in Seq(Post) /\ Len(posts) <= MaxPosts
          /\ \A i \in 1 .. Len(posts) : Accepted(posts[i])

\* An operator who waits for each reply has one post, for the dialog.
Calm == ~hasty => /\ Len(posts) <= 1
                  /\ \A i \in 1 .. Len(posts) : posts[i].id = dialog

Kept == \A r \in owed : pause[r] \in {"announced", "waiting"} => Shows(r)

Inv == Basic /\ Queue /\ Coming /\ Seen /\ Posted /\ Calm /\ Kept
-----------------------------------------------------------------------------
\* Taking a post out leaves the others.
LEMMA RemoveParts ==
    ASSUME NEW s, s \in Seq(Post), NEW n \in Nat, n = Len(s), NEW i \in 1 .. n,
           NEW u, u = RemoveAt(s, i)
    PROVE  /\ u \in Seq(Post) /\ Len(u) = n - 1
           /\ \A j \in 1 .. n - 1 : u[j] \in {s[j], s[j + 1]}
<1>1. n \in Nat /\ i \in Nat /\ 1 <= i /\ i <= n /\ \A j \in 1 .. n : s[j] \in Post
  BY LenProperties, ElementOfSeq
<1>2. PICK a : a = SubSeq(s, 1, i - 1)
  OBVIOUS
<1>3. PICK b : b = SubSeq(s, i + 1, n)
  OBVIOUS
<1>4. /\ a \in Seq(Post) /\ Len(a) = i - 1
      /\ \A j \in 1 .. i - 1 : a[j] = s[j]
  BY <1>1, <1>2
<1>5. /\ b \in Seq(Post) /\ Len(b) = n - i
      /\ \A j \in 1 .. n - i : b[j] = s[i + j]
  BY <1>1, <1>3
<1>6. PICK t : t = a \o b
  OBVIOUS
<1>7. /\ t \in Seq(Post) /\ Len(t) = Len(a) + Len(b)
      /\ \A j \in 1 .. Len(a) + Len(b) : t[j] = IF j <= Len(a) THEN a[j] ELSE b[j - Len(a)]
  BY <1>4, <1>5, <1>6, ConcatProperties
<1>8. Len(t) = n - 1
  BY <1>1, <1>4, <1>5, <1>7
<1>9. ASSUME NEW j \in 1 .. n - 1 PROVE t[j] \in {s[j], s[j + 1]}
  <2>1. CASE j <= i - 1
    <3>1. j \in 1 .. i - 1 /\ j \in 1 .. n /\ j \in 1 .. Len(a) + Len(b) /\ j <= Len(a)
      BY <1>1, <1>4, <1>5, <2>1
    <3>2. t[j] = s[j]
      BY <1>4, <1>7, <3>1
    <3> QED
      BY <1>1, <2>1, <3>2
  <2>2. CASE ~(j <= i - 1)
    <3>1. j - (i - 1) \in 1 .. n - i /\ i + (j - (i - 1)) = j + 1 /\ j + 1 \in 1 .. n
      BY <1>1, <2>2
    <3>2. j \in 1 .. Len(a) + Len(b) /\ ~(j <= Len(a)) /\ j - Len(a) = j - (i - 1)
      BY <1>1, <1>4, <1>5, <2>2
    <3>3. t[j] = s[j + 1]
      BY <1>5, <1>7, <3>1, <3>2
    <3> QED
      BY <1>1, <2>2, <3>3
  <2> QED
    BY <2>1, <2>2
<1>10. u = t
  BY <1>2, <1>3, <1>6 DEF RemoveAt
<1> QED
  BY <1>7, <1>8, <1>9, <1>10

\* A set of positions that is not empty has a first.
LEMMA FirstPosition ==
    ASSUME NEW T, T \subseteq Nat, T # {}
    PROVE  \E i \in T : \A j \in T : i <= j
<1>1. \E x \in T : \A y \in T : ~ (<<y, x>> \in OpToRel(<, Nat))
  BY NatLessThanWellFounded, WFMin
<1>2. ASSUME NEW x \in Nat, NEW y \in Nat, y < x PROVE <<y, x>> \in OpToRel(<, Nat)
  BY <1>2 DEF OpToRel
<1>3. PICK x \in T : \A y \in T : ~ (<<y, x>> \in OpToRel(<, Nat))
  BY <1>1
<1>4. \A y \in T : ~ (y < x)
  BY <1>2, <1>3
<1> QED
  BY <1>4
-----------------------------------------------------------------------------
\* The dialog and its queue.
LEMMA OpenKeeps ==
    ASSUME Queue, NEW r \in Request, OpenInterceptModal(r)
    PROVE  /\ Queue' /\ Shows(r)' /\ (dialog # None => dialog' = dialog)
           /\ \A q : (q # None /\ Shows(q)) => Shows(q)'
<1>1. CASE dialog \in {None, r}
  <2>1. dialog' = r /\ waitq' = waitq /\ (dialog = None => waitq = << >>)
    BY <1>1 DEF OpenInterceptModal, Queue
  <2>2. ToSet(<< >>) = {}
    BY DEF ToSet
  <2>3. ToSet(waitq) \subseteq Request \ {r}
    BY <1>1, <2>1, <2>2 DEF Queue
  <2>4. Queue'
    BY <2>1, <2>3 DEF Queue
  <2>5. \A q : (q # None /\ Shows(q)) => Shows(q)'
    BY <1>1, <2>1 DEF Shows
  <2> QED
    BY <1>1, <2>1, <2>4, <2>5 DEF Shows
<1>2. CASE dialog \notin {None, r} /\ Contains(waitq, r)
  <2>1. dialog' = dialog /\ waitq' = waitq
    BY <1>2 DEF OpenInterceptModal
  <2>2. r \in ToSet(waitq)
    BY <1>2 DEF Contains, ToSet, Queue
  <2>3. Queue'
    BY <2>1 DEF Queue
  <2> QED
    BY <2>1, <2>2, <2>3 DEF Shows
<1>3. CASE dialog \notin {None, r} /\ ~Contains(waitq, r)
  <2>1. dialog' = dialog /\ waitq' = Append(waitq, r)
    BY <1>3 DEF OpenInterceptModal
  <2>2. PICK w : w = Append(waitq, r)
    OBVIOUS
  <2>3. PICK n : n = Len(waitq)
    OBVIOUS
  <2>4. waitq \in Seq(Request) /\ n \in Nat /\ DOMAIN waitq = 1 .. n
    BY <2>3, LenProperties DEF Queue
  <2>5. /\ w \in Seq(Request) /\ Len(w) = n + 1 /\ DOMAIN w = 1 .. n + 1
        /\ \A i \in 1 .. n : w[i] = waitq[i]
        /\ w[n + 1] = r
    BY <2>2, <2>3, <2>4, AppendProperties, LenProperties
  <2>6. \A i \in 1 .. n : waitq[i] # r
    BY <1>3, <2>3, <2>4 DEF Contains
  <2>7. ToSet(w) = ToSet(waitq) \cup {r}
    <3>1. ASSUME NEW x \in ToSet(w) PROVE x \in ToSet(waitq) \cup {r}
      <4>1. PICK i \in 1 .. n + 1 : x = w[i]
        BY <2>5, <3>1 DEF ToSet
      <4>2. i \in 1 .. n \/ i = n + 1
        BY <2>4
      <4> QED
        BY <2>4, <2>5, <4>1, <4>2 DEF ToSet
    <3>2. ASSUME NEW x \in ToSet(waitq) \cup {r} PROVE x \in ToSet(w)
      <4>1. CASE x = r
        BY <2>4, <2>5, <4>1 DEF ToSet
      <4>2. CASE x # r
        <5>1. PICK i \in 1 .. n : x = waitq[i]
          BY <2>4, <3>2, <4>2 DEF ToSet
        <5>2. i \in 1 .. n + 1 /\ x = w[i]
          BY <2>4, <2>5, <5>1
        <5> QED
          BY <2>5, <5>2 DEF ToSet
      <4> QED
        BY <4>1, <4>2
    <3> QED
      BY <3>1, <3>2
  <2>8. IsInjective(w)
    <3> SUFFICES ASSUME NEW i \in 1 .. n + 1, NEW j \in 1 .. n + 1, w[i] = w[j] PROVE i = j
      BY <2>5 DEF IsInjective
    <3>1. \A a, b \in 1 .. n : waitq[a] = waitq[b] => a = b
      BY <2>4 DEF Queue, IsInjective
    <3>2. (i \in 1 .. n \/ i = n + 1) /\ (j \in 1 .. n \/ j = n + 1)
      BY <2>4
    <3> QED
      BY <2>5, <2>6, <3>1, <3>2
  <2>9. Queue'
    BY <1>3, <2>1, <2>2, <2>5, <2>7, <2>8 DEF Queue
  <2>10. ToSet(waitq') = ToSet(waitq) \cup {r}
    BY <2>1, <2>2, <2>7
  <2> QED
    BY <2>1, <2>9, <2>10 DEF Shows
<1> QED
  BY <1>1, <1>2, <1>3

LEMMA CloseKeeps ==
    ASSUME Queue, CloseInterceptModal
    PROVE  Queue' /\ \A q \in ToSet(waitq) : view[q] = "paused" => Shows(q)'
<1>1. PICK open : open = {i \in DOMAIN waitq : view[waitq[i]] = "paused"}
  OBVIOUS
<1>2. PICK n : n = Len(waitq)
  OBVIOUS
<1>3. waitq \in Seq(Request) /\ n \in Nat /\ DOMAIN waitq = 1 .. n
  BY <1>2, LenProperties DEF Queue
<1>4. CASE open = {}
  <2>1. dialog' = None /\ waitq' = << >>
    BY <1>1, <1>4 DEF CloseInterceptModal
  <2>2. << >> \in Seq(Request) /\ ToSet(<< >>) = {} /\ IsInjective(<< >>)
    BY DEF ToSet, IsInjective
  <2>3. Queue'
    BY <2>1, <2>2 DEF Queue
  <2>4. \A q \in ToSet(waitq) : view[q] # "paused"
    BY <1>1, <1>4 DEF ToSet
  <2> QED
    BY <2>3, <2>4
<1>5. CASE open # {}
  <2>1. \E i \in open : \A j \in open : i <= j
    <3>1. open \subseteq Nat
      BY <1>1, <1>3
    <3> QED
      BY <1>5, <3>1, FirstPosition
  <2>2. PICK i : i = CHOOSE k \in open : \A j \in open : k <= j
    OBVIOUS
  <2>3. i \in open /\ \A j \in open : i <= j
    BY <2>1, <2>2, Zenon
  <2>4. i \in 1 .. n /\ i \in Nat
    BY <1>1, <1>3, <2>3
  <2>5. dialog' = waitq[i] /\ waitq' = SubSeq(waitq, i + 1, Len(waitq))
    BY <1>1, <1>5, <2>2, Zenon DEF CloseInterceptModal
  <2>6. PICK w : w = SubSeq(waitq, i + 1, n)
    OBVIOUS
  <2>7. /\ w \in Seq(Request) /\ Len(w) = n - i /\ DOMAIN w = 1 .. n - i
        /\ \A j \in 1 .. n - i : w[j] = waitq[i + j]
    <3>1. \A j \in 1 .. n : waitq[j] \in Request
      BY <1>2, <1>3, ElementOfSeq
    <3> QED
      BY <1>3, <2>4, <2>6, <3>1
  <2>8. \A j \in 1 .. n - i : i + j \in 1 .. n /\ i + j # i
    BY <1>3, <2>4
  <2>9. \A a, b \in 1 .. n : waitq[a] = waitq[b] => a = b
    BY <1>3 DEF Queue, IsInjective
  <2>10. waitq[i] \in Request
    BY <1>2, <1>3, <2>4, ElementOfSeq
  <2>11. ToSet(w) \subseteq Request \ {waitq[i]}
    <3> SUFFICES ASSUME NEW x \in ToSet(w) PROVE x \in Request \ {waitq[i]}
      OBVIOUS
    <3>1. PICK j \in 1 .. n - i : x = w[j]
      BY <2>7 DEF ToSet
    <3>2. x = waitq[i + j] /\ i + j \in 1 .. n /\ i + j # i
      BY <2>7, <2>8, <3>1
    <3>3. x \in Request
      BY <1>2, <1>3, <3>2, ElementOfSeq
    <3> QED
      BY <2>4, <2>9, <3>2, <3>3
  <2>12. IsInjective(w)
    <3> SUFFICES ASSUME NEW a \in 1 .. n - i, NEW b \in 1 .. n - i, w[a] = w[b] PROVE a = b
      BY <2>7 DEF IsInjective
    <3>1. waitq[i + a] = waitq[i + b]
      BY <2>7
    <3>2. i + a = i + b
      BY <2>8, <2>9, <3>1
    <3> QED
      BY <2>4, <3>2
  <2>13. Queue'
    BY <1>2, <2>5, <2>6, <2>7, <2>10, <2>11, <2>12 DEF Queue
  <2>14. ASSUME NEW q \in ToSet(waitq), view[q] = "paused" PROVE q = waitq[i] \/ q \in ToSet(w)
    <3>1. PICK j \in 1 .. n : q = waitq[j]
      BY <1>3 DEF ToSet
    <3>2. j \in open
      BY <1>1, <1>3, <2>14, <3>1
    <3>3. i <= j
      BY <2>3, <3>2
    <3>4. CASE i = j
      BY <3>1, <3>4
    <3>5. CASE i # j
      <4>1. j - i \in 1 .. n - i /\ i + (j - i) = j
        BY <1>3, <2>4, <3>3, <3>5
      <4>2. w[j - i] = q
        BY <2>7, <3>1, <4>1
      <4> QED
        BY <2>7, <4>1, <4>2 DEF ToSet
    <3> QED
      BY <3>4, <3>5
  <2> QED
    BY <1>2, <2>5, <2>6, <2>13, <2>14 DEF Shows
<1> QED
  BY <1>4, <1>5
-----------------------------------------------------------------------------
\* A pause goes forward only, so what is known of it stays true.
Later ==
    \A r \in Request :
        /\ pause[r] # "new" => pause'[r] # "new"
        /\ pause[r] \notin {"new", "added"} => pause'[r] \notin {"new", "added"}
        /\ pause[r] = "over" => pause'[r] = "over"
        /\ pause[r] = "decided" => pause'[r] \in {"decided", "over"}

LEMMA TruthStays ==
    ASSUME Later, owed' \subseteq owed, NEW e \in Event, Truth(e) PROVE Truth(e)'
BY DEF Later, Event, Truth

LEMMA ComingStays ==
    ASSUME Coming, Later, owed' \subseteq owed, UNCHANGED events PROVE Coming'
<1>1. \A i \in 1 .. Len(events) : events[i] \in Event
  BY ElementOfSeq DEF Coming
<1>2. \A i \in 1 .. Len(events) : Truth(events[i])'
  BY <1>1, TruthStays DEF Coming
<1>3. \A i \in 1 .. Len(events') : Truth(events[i])'
  BY <1>2
<1> QED
  BY <1>3 DEF Coming, Before

LEMMA SendKeeps ==
    ASSUME Coming, Later, owed' \subseteq owed, NEW what, NEW payload, Send(what, payload),
           NEW e \in Event, e = [what |-> what, payload |-> payload], Truth(e)',
           \A i \in 1 .. Len(events) : Before(events[i], e)
    PROVE  Coming'
<1>1. CASE ~(connected /\ Len(events) < MaxEvents)
  BY <1>1, ComingStays DEF Send
<1>2. CASE connected /\ Len(events) < MaxEvents
  <2>1. PICK n : n = Len(events)
    OBVIOUS
  <2>2. n < MaxEvents /\ events' = Append(events, e) /\ n \in Nat /\ MaxEvents \in Nat
    BY <1>2, <2>1, LenProperties DEF Send, Coming
  <2>3. PICK s : s = Append(events, e)
    OBVIOUS
  <2>4. /\ s \in Seq(Event) /\ Len(s) = n + 1 /\ s[n + 1] = e
        /\ \A i \in 1 .. n : s[i] = events[i]
    BY <2>1, <2>3, AppendProperties DEF Coming
  <2>5. \A i \in 1 .. n : events[i] \in Event
    BY <2>1, ElementOfSeq DEF Coming
  <2>6. ASSUME NEW i \in 1 .. n, NEW f, f = events[i] PROVE Truth(f)'
    <3>1. f \in Event /\ Truth(f)
      BY <2>1, <2>5, <2>6 DEF Coming
    <3> QED
      BY <3>1, TruthStays
  <2>7. ASSUME NEW i \in 1 .. n + 1, NEW f, f = s[i] PROVE Truth(f)'
    <3>1. CASE i \in 1 .. n
      BY <2>4, <2>6, <2>7, <3>1
    <3>2. CASE i = n + 1
      BY <2>4, <2>7, <3>2
    <3> QED
      BY <2>2, <3>1, <3>2
  <2>8. events' = s /\ Len(events') = n + 1
    BY <2>2, <2>3, <2>4
  <2>9. ASSUME NEW i \in 1 .. Len(events') PROVE Truth(events[i])'
    <3>1. PICK f : f = s[i]
      OBVIOUS
    <3>2. Truth(f)' /\ events'[i] = f
      BY <2>7, <2>8, <2>9, <3>1
    <3> QED
      BY <3>2 DEF Truth
  <2>10. n + 1 <= MaxEvents
    BY <2>2
  <2>11. ASSUME NEW i \in 1 .. n + 1, NEW j \in 1 .. n + 1, i < j PROVE Before(s[i], s[j])
    <3>1. i \in 1 .. n /\ s[i] = events[i]
      BY <2>2, <2>4, <2>11
    <3>2. CASE j \in 1 .. n
      BY <2>1, <2>4, <2>11, <3>1, <3>2 DEF Coming
    <3>3. CASE j = n + 1
      BY <2>1, <2>4, <3>1, <3>3
    <3> QED
      BY <2>2, <3>2, <3>3
  <2>12. \A i, j \in 1 .. Len(events') : i < j => Before(events'[i], events'[j])
    BY <2>8, <2>11
  <2> QED
    BY <2>4, <2>8, <2>9, <2>10, <2>12 DEF Coming, Before
<1> QED
  BY <1>1, <1>2

\* A step that the dialog and the posts have no part in.
LEMMA ServerKeeps ==
    ASSUME Inv, Later, UNCHANGED <<view, loaded, fetched, dialog, waitq, owed, posts, hasty>>,
           pause' \in [Request -> Pauses],
           stored' \subseteq Request, connected' \in BOOLEAN, trouble' \in 0 .. MaxTrouble, Coming',
           \A r \in owed : pause'[r] \in {"announced", "waiting"} => pause[r] \in {"announced", "waiting"}
    PROVE  Inv'
<1>0. Basic /\ Queue /\ Seen /\ Posted /\ Calm /\ Kept
  BY DEF Inv
<1>1. Basic' /\ Queue'
  BY <1>0 DEF Basic, Queue
<1>2. Seen'
  BY <1>0 DEF Seen, Later, Basic
<1>3. Posted'
  <2>1. \A i \in 1 .. Len(posts) : posts[i].id \in Request
    <3>1. \A i \in 1 .. Len(posts) : posts[i] \in Post
      BY <1>0, ElementOfSeq DEF Posted
    <3> QED
      BY <3>1 DEF Post
  <2>2. \A i \in 1 .. Len(posts) : Accepted(posts[i])'
    BY <1>0, <2>1 DEF Posted, Accepted, Later
  <2> QED
    BY <1>0, <2>2 DEF Posted
<1>4. Calm' /\ Kept'
  BY <1>0 DEF Calm, Kept, Shows
<1> QED
  BY <1>1, <1>2, <1>3, <1>4 DEF Inv

\* A step of the page's list, of which the dialog and the posts take no notice.
LEMMA ListKeeps ==
    ASSUME Inv, UNCHANGED <<pause, stored, connected, dialog, waitq, posts, hasty, trouble>>,
           owed' \subseteq owed, Coming', Seen',
           view' \in [Request -> View], loaded' \subseteq Request,
           fetched' \in [Request -> View \cup {"none", "asked"}]
    PROVE  Inv'
<1>0. Basic /\ Queue /\ Posted /\ Calm /\ Kept
  BY DEF Inv
<1>1. Basic' /\ Queue'
  BY <1>0 DEF Basic, Queue
<1>2. Posted'
  BY <1>0 DEF Posted, Accepted
<1>3. Calm' /\ Kept'
  BY <1>0 DEF Calm, Kept, Shows
<1> QED
  BY <1>1, <1>2, <1>3 DEF Inv
-----------------------------------------------------------------------------
\* Each step keeps the invariant.
LEMMA AddKeeps == ASSUME Inv, NEW r \in Request, Add(r) PROVE Inv'
<1>0. Basic /\ Coming /\ Seen
  BY DEF Inv
<1>1. /\ pause[r] = "new" /\ pause' = [pause EXCEPT ![r] = "added"]
      /\ stored' = stored \cup {r} /\ Send("started", r)
      /\ UNCHANGED <<connected, view, loaded, fetched, dialog, waitq, owed, posts, hasty, trouble>>
  BY DEF Add, listVars, dialogVars, postVars
<1>2. Later /\ pause' \in [Request -> Pauses]
  BY <1>0, <1>1 DEF Later, Basic, Pauses
<1>3. PICK e : e = [what |-> "started", payload |-> r]
  OBVIOUS
<1>4. r \notin owed
  BY <1>0, <1>1 DEF Seen
<1>5. e \in Event /\ Truth(e)'
  BY <1>0, <1>1, <1>3, <1>4 DEF Event, Truth
<1>6. ASSUME NEW i \in 1 .. Len(events) PROVE Before(events[i], e)
  BY <1>0, <1>1, <1>3, <1>6 DEF Coming, Truth, Before
<1>7. Coming'
  BY <1>0, <1>1, <1>2, <1>3, <1>5, <1>6, SendKeeps
<1>8. \A q \in owed : pause'[q] \in {"announced", "waiting"} => pause[q] \in {"announced", "waiting"}
  BY <1>0, <1>1, <1>4 DEF Basic
<1>9. stored' \subseteq Request /\ connected' \in BOOLEAN /\ trouble' \in 0 .. MaxTrouble
  BY <1>0, <1>1 DEF Basic
<1> QED
  BY <1>1, <1>2, <1>7, <1>8, <1>9, ServerKeeps

LEMMA AnnounceKeeps == ASSUME Inv, NEW r \in Request, Announce(r) PROVE Inv'
<1>0. Basic /\ Coming /\ Seen
  BY DEF Inv
<1>1. /\ pause[r] = "added" /\ pause' = [pause EXCEPT ![r] = "announced"]
      /\ Send("intercepted", r) \/ UNCHANGED events
      /\ UNCHANGED <<stored, connected, view, loaded, fetched, dialog, waitq, owed, posts, hasty, trouble>>
  BY DEF Announce, listVars, dialogVars, postVars
<1>2. Later /\ pause' \in [Request -> Pauses]
  BY <1>0, <1>1 DEF Later, Basic, Pauses
<1>3. PICK e : e = [what |-> "intercepted", payload |-> r]
  OBVIOUS
<1>4. e \in Event /\ Truth(e)' /\ \A i \in 1 .. Len(events) : Before(events[i], e)
  BY <1>0, <1>1, <1>3 DEF Event, Truth, Basic, Before
<1>5. Coming'
  BY <1>0, <1>1, <1>2, <1>3, <1>4, SendKeeps, ComingStays
<1>6. \A q \in owed : q # r
  BY <1>0, <1>1 DEF Seen
<1>7. \A q \in owed : pause'[q] \in {"announced", "waiting"} => pause[q] \in {"announced", "waiting"}
  BY <1>0, <1>1, <1>6 DEF Basic
<1>8. stored' \subseteq Request /\ connected' \in BOOLEAN /\ trouble' \in 0 .. MaxTrouble
  BY <1>0, <1>1 DEF Basic
<1> QED
  BY <1>1, <1>2, <1>5, <1>7, <1>8, ServerKeeps

LEMMA RegisterKeeps ==
    ASSUME Inv, NEW r \in Request, Register(r) \/ OtherDecides(r) PROVE Inv'
<1>0. Basic /\ Coming
  BY DEF Inv
<1>1. /\ pause[r] \in {"announced", "waiting"}
      /\ \E w \in {"waiting", "decided"} : pause' = [pause EXCEPT ![r] = w]
      /\ UNCHANGED <<stored, connected, events, view, loaded, fetched, dialog, waitq, owed, posts, hasty, trouble>>
  BY DEF Register, OtherDecides, listVars, dialogVars, postVars
<1>2. Later /\ pause' \in [Request -> Pauses]
  BY <1>0, <1>1 DEF Later, Basic, Pauses
<1>3. Coming'
  BY <1>0, <1>1, <1>2, ComingStays
<1>4. \A q \in owed : pause'[q] \in {"announced", "waiting"} => pause[q] \in {"announced", "waiting"}
  BY <1>0, <1>1 DEF Basic
<1>5. stored' \subseteq Request /\ connected' \in BOOLEAN /\ trouble' \in 0 .. MaxTrouble
  BY <1>0, <1>1 DEF Basic
<1> QED
  BY <1>1, <1>2, <1>3, <1>4, <1>5, ServerKeeps

LEMMA EndPauseKeeps ==
    ASSUME Inv, NEW r \in Request, EndPause(r) PROVE Inv'
<1>0. Basic /\ Coming
  BY DEF Inv
<1>1. /\ pause[r] \in {"waiting", "decided"} /\ pause' = [pause EXCEPT ![r] = "over"]
      /\ Send("updated", r) \/ UNCHANGED events
      /\ UNCHANGED <<stored, connected, view, loaded, fetched, dialog, waitq, owed, posts, hasty, trouble>>
  BY DEF EndPause, listVars, dialogVars, postVars
<1>2. Later /\ pause' \in [Request -> Pauses]
  BY <1>0, <1>1 DEF Later, Basic, Pauses
<1>3. PICK e : e = [what |-> "updated", payload |-> r]
  OBVIOUS
<1>4. e \in Event /\ Truth(e)' /\ \A i \in 1 .. Len(events) : Before(events[i], e)
  BY <1>0, <1>1, <1>3 DEF Event, Truth, Basic, Before
<1>5. Coming'
  BY <1>0, <1>1, <1>2, <1>3, <1>4, SendKeeps, ComingStays
<1>6. \A q \in owed : pause'[q] \in {"announced", "waiting"} => pause[q] \in {"announced", "waiting"}
  BY <1>0, <1>1 DEF Basic
<1>7. stored' \subseteq Request /\ connected' \in BOOLEAN /\ trouble' \in 0 .. MaxTrouble
  BY <1>0, <1>1 DEF Basic
<1> QED
  BY <1>1, <1>2, <1>5, <1>6, <1>7, ServerKeeps

LEMMA ClearKeeps == ASSUME Inv, ClearCaptures PROVE Inv'
<1>0. Basic /\ Coming
  BY DEF Inv
<1>1. /\ stored' = {} /\ Send("cleared", None)
      /\ UNCHANGED <<pause, connected, view, loaded, fetched, dialog, waitq, owed, posts, hasty, trouble>>
  BY DEF ClearCaptures, listVars, dialogVars, postVars
<1>2. Later
  BY <1>1 DEF Later
<1>3. PICK e : e = [what |-> "cleared", payload |-> None]
  OBVIOUS
<1>4. e \in Event /\ Truth(e)' /\ \A i \in 1 .. Len(events) : Before(events[i], e)
  BY <1>3 DEF Event, Truth, Before
<1>5. Coming'
  BY <1>0, <1>1, <1>2, <1>3, <1>4, SendKeeps
<1> QED
  BY <1>0, <1>1, <1>2, <1>5, ServerKeeps DEF Basic

LEMMA EvictKeeps == ASSUME Inv, NEW r \in Request, Evict(r) PROVE Inv'
<1>0. Basic /\ Coming
  BY DEF Inv
<1>1. /\ stored' = stored \ {r}
      /\ UNCHANGED <<pause, connected, events, view, loaded, fetched, dialog, waitq, owed, posts, hasty, trouble>>
  BY DEF Evict, listVars, dialogVars, postVars
<1>2. Later
  BY <1>1 DEF Later
<1>3. Coming'
  BY <1>0, <1>1, <1>2, ComingStays
<1> QED
  BY <1>0, <1>1, <1>2, <1>3, ServerKeeps DEF Basic

LEMMA DisconnectKeeps == ASSUME Inv, Disconnect PROVE Inv'
<1>0. Basic
  BY DEF Inv
<1>1. /\ connected' = FALSE /\ events' = << >> /\ trouble < MaxTrouble /\ trouble' = trouble + 1
      /\ UNCHANGED <<pause, stored, view, loaded, fetched, dialog, waitq, owed, posts, hasty>>
  BY DEF Disconnect, listVars, dialogVars
<1>2. Later
  BY <1>1 DEF Later
<1>3. Coming'
  <2>1. << >> \in Seq(Event) /\ Len(<< >>) = 0 /\ MaxEvents \in Nat
    OBVIOUS
  <2> QED
    BY <1>1, <2>1 DEF Coming
<1>4. trouble' \in 0 .. MaxTrouble
  BY <1>0, <1>1 DEF Basic
<1> QED
  BY <1>0, <1>1, <1>2, <1>3, <1>4, ServerKeeps DEF Basic

LEMMA StatusIs ==
    ASSUME Basic, Seen, NEW r \in Request
    PROVE  /\ Status(r) \in View
           /\ Status(r) = "over" => pause[r] = "over"
           /\ Status(r) = "pending" => r \notin owed
BY DEF Basic, Seen, Status, View

LEMMA ReconnectKeeps == ASSUME Inv, Reconnect PROVE Inv'
<1>0. Basic /\ Seen
  BY DEF Inv
<1>1. PICK e : e = [what |-> "snapshot", payload |-> [r \in Request |-> Status(r)]]
  OBVIOUS
<1>2. /\ connected' = TRUE /\ events' = <<e>>
      /\ UNCHANGED <<pause, stored, view, loaded, fetched, dialog, waitq, owed, posts, hasty, trouble>>
  BY <1>1 DEF Reconnect, listVars, dialogVars, postVars
<1>3. Later
  BY <1>2 DEF Later
<1>4. e \in Event /\ Truth(e)'
  <2>1. /\ e.what = "snapshot" /\ e.payload \in [Request -> View]
        /\ \A r \in Request : e.payload[r] = Status(r)
    BY <1>0, <1>1, StatusIs
  <2>2. e \in Event
    BY <1>1, <2>1 DEF Event
  <2>3. Truth(e)'
    BY <1>0, <1>2, <2>1, StatusIs DEF Truth
  <2> QED
    BY <2>2, <2>3
<1>5. Coming'
  <2>1. <<e>> \in Seq(Event) /\ Len(<<e>>) = 1 /\ <<e>>[1] = e
    BY <1>4
  <2>2. \A i \in 1 .. 1 : i = 1
    OBVIOUS
  <2> QED
    BY <1>2, <1>4, <2>1, <2>2 DEF Coming
<1> QED
  BY <1>0, <1>2, <1>3, <1>5, ServerKeeps DEF Basic

LEMMA ReloadKeeps == ASSUME Inv, Reload PROVE Inv'
<1>0. Basic /\ Coming
  BY DEF Inv
<1>1. /\ view' = Nothing /\ loaded' = {} /\ fetched' = NoFetch
      /\ dialog' = None /\ waitq' = << >> /\ owed' = {} /\ posts' = << >> /\ hasty' = FALSE
      /\ UNCHANGED <<pause, stored, connected, events, trouble>>
  BY DEF Reload, serverVars
<1>2. Later
  BY <1>1 DEF Later
<1>3. /\ Nothing \in [Request -> View] /\ \A r \in Request : Nothing[r] = "absent"
      /\ NoFetch \in [Request -> View \cup {"none", "asked"}]
      /\ \A r \in Request : NoFetch[r] = "none"
  BY DEF Nothing, NoFetch, View
<1>4. Basic' /\ Seen'
  BY <1>0, <1>1, <1>3 DEF Basic, Seen
<1>5. /\ << >> \in Seq(Request) /\ << >> \in Seq(Post) /\ Len(<< >>) = 0
      /\ ToSet(<< >>) = {} /\ IsInjective(<< >>)
  BY DEF ToSet, IsInjective
<1>6. Queue'
  BY <1>1, <1>5 DEF Queue
<1>7. Coming'
  BY <1>0, <1>1, <1>2, ComingStays
<1>8. Posted' /\ Calm' /\ Kept'
  BY <1>1, <1>5 DEF Posted, Calm, Kept
<1> QED
  BY <1>4, <1>6, <1>7, <1>8 DEF Inv

LEMMA FetchKeeps ==
    ASSUME Inv, NEW r \in Request, SelectCapture(r) \/ ServeDetail(r) PROVE Inv'
<1>0. Basic /\ Coming /\ Seen
  BY DEF Inv
<1>1. /\ \E f \in {"asked", Status(r)} : fetched' = [fetched EXCEPT ![r] = f]
      /\ UNCHANGED <<pause, stored, connected, events, view, loaded, dialog, waitq, owed, posts, hasty, trouble>>
  BY DEF SelectCapture, ServeDetail, serverVars, dialogVars, postVars
<1>2. Status(r) \in View /\ (Status(r) = "over" => pause[r] = "over")
  BY <1>0, StatusIs
<1>3. fetched' \in [Request -> View \cup {"none", "asked"}]
  BY <1>0, <1>1, <1>2 DEF Basic
<1>4. Seen'
  BY <1>0, <1>1, <1>2 DEF Basic, Seen
<1>5. Later
  BY <1>1 DEF Later
<1>6. Coming'
  BY <1>0, <1>1, <1>5, ComingStays
<1> QED
  BY <1>0, <1>1, <1>3, <1>4, <1>6, ListKeeps DEF Basic

LEMMA DetailKeeps == ASSUME Inv, NEW r \in Request, Detail(r) PROVE Inv'
<1>0. Basic /\ Coming /\ Seen
  BY DEF Inv
<1>1. /\ fetched[r] \in View /\ fetched' = [fetched EXCEPT ![r] = "none"]
      /\ UNCHANGED <<pause, stored, connected, events, dialog, waitq, posts, hasty, trouble>>
  BY <1>0 DEF Basic, Detail, serverVars, postVars
<1>2. \/ fetched[r] = "absent" /\ UNCHANGED <<view, loaded, owed>>
      \/ /\ fetched[r] # "absent" /\ view' = [view EXCEPT ![r] = fetched[r]]
         /\ loaded' = loaded \cup {r}
         /\ owed' = IF fetched[r] = "pending" THEN owed \ {r} ELSE owed
  BY DEF Detail
<1>3. owed' \subseteq owed /\ view' \in [Request -> View] /\ loaded' \subseteq Request
  BY <1>0, <1>1, <1>2 DEF Basic
<1>4. fetched' \in [Request -> View \cup {"none", "asked"}]
  BY <1>0, <1>1 DEF Basic
<1>5. Seen'
  <2>1. \A q \in Request : fetched'[q] = "over" => pause[q] = "over"
    BY <1>0, <1>1 DEF Basic, Seen
  <2>2. \A q \in Request : view'[q] = "over" => pause[q] = "over"
    BY <1>0, <1>1, <1>2 DEF Basic, Seen
  <2>3. \A q \in owed' : view'[q] \notin {"absent", "pending"}
    BY <1>0, <1>1, <1>2 DEF Basic, Seen
  <2> QED
    BY <1>0, <1>1, <1>3, <2>1, <2>2, <2>3 DEF Seen
<1>6. Later
  BY <1>1 DEF Later
<1>7. Coming'
  BY <1>0, <1>1, <1>3, <1>6, ComingStays
<1> QED
  BY <1>1, <1>3, <1>4, <1>5, <1>7, ListKeeps

\* Taking the first event leaves the others.
LEMMA ComingHead ==
    ASSUME Coming, events # << >>
    PROVE  /\ Head(events) \in Event /\ Truth(Head(events))
           /\ Tail(events) \in Seq(Event) /\ Len(Tail(events)) <= MaxEvents
           /\ \A i \in 1 .. Len(Tail(events)) :
                  /\ Tail(events)[i] \in Event /\ Truth(Tail(events)[i])
                  /\ Before(Head(events), Tail(events)[i])
           /\ \A i, j \in 1 .. Len(Tail(events)) : i < j => Before(Tail(events)[i], Tail(events)[j])
<1>1. PICK n : n = Len(events)
  OBVIOUS
<1>2. PICK s : s = Tail(events)
  OBVIOUS
<1>3. /\ Head(events) \in Event /\ s \in Seq(Event) /\ Len(s) = n - 1 /\ n \in Nat /\ n # 0
      /\ \A i \in 1 .. Len(s) : s[i] = events[i + 1]
  BY <1>1, <1>2, HeadTailProperties, LenProperties, EmptySeq DEF Coming
<1>4. Head(events) = events[1] /\ 1 \in 1 .. n
  BY <1>1, <1>3 DEF Coming
<1>5. \A i \in 1 .. n - 1 : i + 1 \in 1 .. n /\ 1 < i + 1
  BY <1>3
<1>6. \A i \in 1 .. n : events[i] \in Event /\ Truth(events[i])
  BY <1>1, ElementOfSeq DEF Coming
<1>7. \A i, j \in 1 .. n : i < j => Before(events[i], events[j])
  BY <1>1 DEF Coming
<1>8. ASSUME NEW i \in 1 .. n - 1
      PROVE  s[i] \in Event /\ Truth(s[i]) /\ Before(Head(events), s[i])
  <2>1. s[i] = events[i + 1]
    BY <1>3
  <2> QED
    BY <1>4, <1>5, <1>6, <1>7, <2>1
<1>9. ASSUME NEW i \in 1 .. n - 1, NEW j \in 1 .. n - 1, i < j PROVE Before(s[i], s[j])
  <2>1. s[i] = events[i + 1] /\ s[j] = events[j + 1] /\ i + 1 < j + 1
    BY <1>3, <1>9
  <2> QED
    BY <1>5, <1>7, <2>1
<1>10. Len(s) <= MaxEvents
  BY <1>1, <1>3 DEF Coming
<1> QED
  BY <1>2, <1>3, <1>4, <1>6, <1>8, <1>9, <1>10

LEMMA ComingTail ==
    ASSUME Coming, events # << >>, events' = Tail(events),
           \A f \in Event : Truth(f) /\ Before(Head(events), f) => Truth(f)'
    PROVE  Coming'
<1>1. PICK s : s = Tail(events)
  OBVIOUS
<1>2. /\ s \in Seq(Event) /\ Len(s) <= MaxEvents
      /\ \A i \in 1 .. Len(s) : s[i] \in Event /\ Truth(s[i]) /\ Before(Head(events), s[i])
      /\ \A i, j \in 1 .. Len(s) : i < j => Before(s[i], s[j])
  BY <1>1, ComingHead
<1>3. ASSUME NEW i \in 1 .. Len(events') PROVE Truth(events[i])'
  <2>1. PICK f : f = s[i]
    OBVIOUS
  <2>2. Truth(f)' /\ events'[i] = f
    BY <1>1, <1>2, <1>3, <2>1
  <2> QED
    BY <2>2 DEF Truth
<1>4. events' = s
  BY <1>1
<1>5. \A i, j \in 1 .. Len(events') : i < j => Before(events'[i], events'[j])
  BY <1>2, <1>4
<1> QED
  BY <1>2, <1>3, <1>4, <1>5 DEF Coming, Before

LEMMA HandleCaptureKeeps == ASSUME Inv, HandleCapture PROVE Inv'
<1>0. Basic /\ Coming /\ Seen
  BY DEF Inv
<1>1. PICK e : e = Head(events)
  OBVIOUS
<1>2. PICK status \in {"pending", "over"} : status = IF e.what = "started" THEN "pending" ELSE "over"
  OBVIOUS
<1>3. PICK r : r = e.payload
  OBVIOUS
<1>4. /\ events # << >> /\ events' = Tail(events) /\ e.what \in {"started", "updated"}
      /\ view' = [view EXCEPT ![r] = status] /\ loaded' = loaded \cup {r}
      /\ UNCHANGED <<pause, stored, connected, fetched, dialog, waitq, owed, posts, hasty, trouble>>
  BY <1>1, <1>2, <1>3 DEF HandleCapture, Handle, Replaces, dialogVars, postVars
<1>5. e \in Event /\ Truth(e)
  BY <1>0, <1>1, <1>4, ComingHead
<1>6. /\ r \in Request
      /\ status = "over" => pause[r] = "over"
      /\ status = "pending" => r \notin owed
  BY <1>2, <1>3, <1>4, <1>5 DEF Event, Truth
<1>7. view' \in [Request -> View] /\ loaded' \subseteq Request
  BY <1>0, <1>4, <1>6 DEF Basic, View
<1>8. Seen'
  BY <1>0, <1>4, <1>6 DEF Basic, Seen
<1>9. Later
  BY <1>4 DEF Later
<1>10. Coming'
  BY <1>0, <1>4, <1>9, TruthStays, ComingTail
<1> QED
  BY <1>0, <1>4, <1>7, <1>8, <1>10, ListKeeps DEF Basic

LEMMA HandleInterceptedKeeps == ASSUME Inv, HandleIntercepted PROVE Inv'
<1>0. Basic /\ Queue /\ Coming /\ Seen /\ Posted /\ Calm /\ Kept
  BY DEF Inv
<1>1. PICK e : e = Head(events)
  OBVIOUS
<1>2. PICK r : r = e.payload
  OBVIOUS
<1>3. /\ events # << >> /\ events' = Tail(events) /\ e.what = "intercepted"
      /\ view' = [view EXCEPT ![r] = "paused"] /\ loaded' = loaded \cup {r}
      /\ OpenInterceptModal(r) /\ owed' = owed \cup {r}
      /\ UNCHANGED <<pause, stored, connected, fetched, posts, hasty, trouble>>
  BY <1>1, <1>2 DEF HandleIntercepted, Handle, Replaces, postVars
<1>4. e \in Event /\ Truth(e)
  BY <1>0, <1>1, <1>3, ComingHead
<1>5. r \in Request /\ pause[r] \notin {"new", "added"}
  BY <1>2, <1>3, <1>4 DEF Event, Truth
<1>6. Coming'
  <2>1. ASSUME NEW f \in Event, Truth(f), Before(e, f) PROVE Truth(f)'
    BY <1>2, <1>3, <2>1 DEF Truth, Before, Event
  <2> QED
    BY <1>0, <1>1, <1>3, <2>1, ComingTail
<1>7. /\ Queue' /\ Shows(r)' /\ (dialog # None => dialog' = dialog)
      /\ \A q : (q # None /\ Shows(q)) => Shows(q)'
  BY <1>0, <1>3, <1>5, OpenKeeps
<1>8. Basic'
  BY <1>0, <1>3, <1>5 DEF Basic, View
<1>9. Seen'
  BY <1>0, <1>3, <1>5 DEF Basic, Seen
<1>10. Posted'
  BY <1>0, <1>3 DEF Posted, Accepted
<1>11. Calm'
  <2>1. ASSUME NEW i \in 1 .. Len(posts) PROVE posts[i].id # None
    <3>1. posts[i] \in Post
      BY <1>0, <2>1, ElementOfSeq DEF Posted
    <3> QED
      BY <3>1 DEF Post
  <2> QED
    BY <1>0, <1>3, <1>7, <2>1 DEF Calm
<1>12. Kept'
  BY <1>0, <1>3, <1>7 DEF Kept, Basic
<1> QED
  BY <1>6, <1>7, <1>8, <1>9, <1>10, <1>11, <1>12 DEF Inv

LEMMA HandleListKeeps == ASSUME Inv, HandleList PROVE Inv'
<1>0. Basic /\ Coming /\ Seen
  BY DEF Inv
<1>1. PICK e : e = Head(events)
  OBVIOUS
<1>2. /\ events # << >> /\ events' = Tail(events) /\ e.what \in {"snapshot", "cleared"}
      /\ view' = (IF e.what = "snapshot" THEN e.payload ELSE Nothing)
      /\ loaded' = {} /\ owed' = {r \in owed : view'[r] # "absent"}
      /\ UNCHANGED <<pause, stored, connected, fetched, dialog, waitq, posts, hasty, trouble>>
  BY <1>1 DEF HandleList, Handle, postVars
<1>3. e \in Event /\ Truth(e)
  BY <1>0, <1>1, <1>2, ComingHead
<1>4. owed' \subseteq owed
  BY <1>2
<1>5. Later
  BY <1>2 DEF Later
<1>6. Coming'
  BY <1>0, <1>2, <1>4, <1>5, TruthStays, ComingTail
<1>7. view' \in [Request -> View] /\ \A r \in Request :
          /\ view'[r] = "over" => pause[r] = "over"
          /\ view'[r] = "pending" => r \notin owed
  <2>1. CASE e.what = "snapshot"
    <3>1. e.payload \in [Request -> View] /\ view' = e.payload
      BY <1>2, <1>3, <2>1 DEF Event
    <3> QED
      BY <1>3, <2>1, <3>1 DEF Truth
  <2>2. CASE e.what = "cleared"
    <3>1. view' = Nothing
      BY <1>2, <2>2
    <3> QED
      BY <3>1 DEF Nothing, View
  <2> QED
    BY <1>2, <2>1, <2>2
<1>8. Seen'
  BY <1>0, <1>2, <1>4, <1>7 DEF Seen, Basic
<1>9. loaded' \subseteq Request
  BY <1>2
<1> QED
  BY <1>0, <1>2, <1>4, <1>6, <1>7, <1>8, <1>9, ListKeeps DEF Basic

LEMMA PressKeeps ==
    ASSUME Inv, NEW button \in {"forward", "drop"}, NEW body \in BOOLEAN, Press(button, body)
    PROVE  Inv'
<1>0. Basic /\ Queue /\ Coming /\ Seen /\ Posted /\ Calm /\ Kept
  BY DEF Inv
<1>1. PICK p : p = [button |-> button, id |-> dialog, body |-> body, reply |-> "none"]
  OBVIOUS
<1>2. /\ dialog # None /\ Len(posts) < MaxPosts /\ posts' = Append(posts, p)
      /\ IF posts = << >> THEN UNCHANGED <<hasty, trouble>>
         ELSE trouble < MaxTrouble /\ trouble' = trouble + 1 /\ hasty' = TRUE
      /\ UNCHANGED <<pause, stored, connected, events, view, loaded, fetched, dialog, waitq, owed>>
  BY <1>1 DEF Press, serverVars, listVars, dialogVars
<1>3. dialog \in Request
  BY <1>0, <1>2 DEF Queue
<1>4. p \in Post /\ p.id = dialog /\ p.reply = "none"
  BY <1>1, <1>3 DEF Post
<1>5. PICK n : n = Len(posts)
  OBVIOUS
<1>6. PICK s : s = Append(posts, p)
  OBVIOUS
<1>7. /\ posts \in Seq(Post) /\ n \in Nat /\ n < MaxPosts
      /\ s \in Seq(Post) /\ Len(s) = n + 1 /\ s[n + 1] = p /\ posts' = s
      /\ \A i \in 1 .. n : s[i] = posts[i]
  BY <1>0, <1>2, <1>4, <1>5, <1>6, AppendProperties, LenProperties DEF Posted
<1>8. \A i \in 1 .. n + 1 : i \in 1 .. n \/ i = n + 1
  BY <1>7
<1>9. Basic'
  <2>1. trouble \in Nat /\ trouble <= MaxTrouble /\ hasty \in BOOLEAN
    BY <1>0 DEF Basic
  <2>2. CASE posts = << >>
    <3>1. trouble' = trouble /\ hasty' = hasty
      BY <1>2, <2>2
    <3> QED
      BY <1>0, <1>2, <3>1 DEF Basic
  <2>3. CASE posts # << >>
    <3>1. trouble < MaxTrouble /\ trouble' = trouble + 1 /\ hasty' = TRUE
      BY <1>2, <2>3
    <3>2. trouble' \in 0 .. MaxTrouble
      BY <2>1, <3>1
    <3> QED
      BY <1>0, <1>2, <3>1, <3>2 DEF Basic
  <2> QED
    BY <2>2, <2>3
<1>10. Queue' /\ Seen'
  BY <1>0, <1>2 DEF Queue, Seen
<1>11. Later
  BY <1>2 DEF Later
<1>12. Coming'
  BY <1>0, <1>2, <1>11, ComingStays
<1>13. Posted'
  <2>1. \A i \in 1 .. n : Accepted(posts[i])
    BY <1>0, <1>5 DEF Posted
  <2>2. ASSUME NEW i \in 1 .. n + 1 PROVE s[i].reply = "ok" => pause[s[i].id] \in {"decided", "over"}
    BY <1>4, <1>7, <1>8, <2>1 DEF Accepted
  <2>3. n + 1 <= MaxPosts
    BY <1>7
  <2> QED
    BY <1>2, <1>7, <2>2, <2>3 DEF Posted, Accepted
<1>14. Calm'
  <2>1. CASE posts = << >>
    <3>1. n = 0 /\ hasty' = hasty
      BY <1>2, <1>5, <2>1
    <3>2. Len(s) = 1 /\ s[1] = p
      BY <1>7, <3>1
    <3>3. \A i \in 1 .. 1 : i = 1
      OBVIOUS
    <3>4. posts' = s /\ \A i \in 1 .. Len(s) : s[i].id = dialog
      <4>1. ASSUME NEW i \in 1 .. 1 PROVE s[i].id = dialog
        <5>1. i = 1
          BY <3>3
        <5> QED
          BY <1>4, <3>2, <5>1
      <4> QED
        BY <1>7, <3>2, <4>1
    <3>5. Len(posts') <= 1 /\ \A i \in 1 .. Len(posts') : posts'[i].id = dialog'
      <4>1. posts' = s /\ dialog' = dialog
        BY <1>2, <3>4
      <4>2. Len(s) <= 1
        BY <3>2
      <4> QED
        BY <3>4, <4>1, <4>2
    <3> QED
      BY <3>5 DEF Calm
  <2>2. CASE posts # << >>
    BY <1>2, <2>2 DEF Calm
  <2> QED
    BY <2>1, <2>2
<1>15. Kept'
  BY <1>0, <1>2 DEF Kept, Shows
<1> QED
  BY <1>9, <1>10, <1>12, <1>13, <1>14, <1>15 DEF Inv

LEMMA ButtonsPress ==
    ASSUME ForwardOriginal \/ ForwardModified \/ DropRequest
    PROVE  \E button \in {"forward", "drop"}, body \in BOOLEAN : Press(button, body)
<1>1. CASE ForwardOriginal
  <2>1. PICK r : Press("forward", r \in loaded)
    BY <1>1 DEF ForwardOriginal
  <2>2. (r \in loaded) \in BOOLEAN
    OBVIOUS
  <2> QED
    BY <2>1, <2>2
<1>2. CASE ForwardModified \/ DropRequest
  BY <1>2 DEF ForwardModified, DropRequest
<1> QED
  BY <1>1, <1>2

LEMMA ServeKeeps == ASSUME Inv, NEW i \in 1 .. MaxPosts, Serve(i) PROVE Inv'
<1>0. Basic /\ Queue /\ Coming /\ Seen /\ Posted /\ Calm /\ Kept
  BY DEF Inv
<1>1. PICK r : r = posts[i].id
  OBVIOUS
<1>2. /\ i <= Len(posts)
      /\ UNCHANGED <<stored, connected, events, view, loaded, fetched, dialog, waitq, owed, hasty, trouble>>
  BY DEF Serve, listVars, dialogVars
<1>3. PICK n : n = Len(posts)
  OBVIOUS
<1>4. /\ posts \in Seq(Post) /\ n \in Nat /\ n <= MaxPosts /\ i \in 1 .. n
      /\ DOMAIN posts = 1 .. n /\ \A j \in 1 .. n : posts[j] \in Post
  BY <1>0, <1>2, <1>3, LenProperties, ElementOfSeq DEF Posted
<1>5. posts[i] \in Post /\ r \in Request
  BY <1>1, <1>4 DEF Post
<1>6. PICK answer \in {"ok", "refused"} :
        /\ posts' = [posts EXCEPT ![i].reply = answer]
        /\ \/ pause[r] = "waiting" /\ pause' = [pause EXCEPT ![r] = "decided"]
           \/ pause[r] \in {"decided", "over"} /\ pause' = pause
           \/ answer = "refused" /\ pause' = pause
  <2>1. \/ /\ pause[r] = "waiting" /\ pause' = [pause EXCEPT ![r] = "decided"]
           /\ posts' = [posts EXCEPT ![i].reply = "ok"]
        \/ /\ pause[r] \in {"decided", "over"} /\ pause' = pause
           /\ posts' = [posts EXCEPT ![i].reply = "ok"]
        \/ pause' = pause /\ posts' = [posts EXCEPT ![i].reply = "refused"]
    BY <1>1 DEF Serve
  <2> QED
    BY <2>1
<1>7. /\ pause' \in [Request -> Pauses]
      /\ \A q \in Request \ {r} : pause'[q] = pause[q]
      /\ pause'[r] # pause[r] => pause[r] = "waiting" /\ pause'[r] = "decided"
      /\ answer = "ok" => pause'[r] \in {"decided", "over"}
  BY <1>0, <1>5, <1>6 DEF Basic, Pauses
<1>8. Later
  BY <1>5, <1>7 DEF Later
<1>9. Basic'
  BY <1>0, <1>2, <1>7 DEF Basic
<1>10. Queue'
  BY <1>0, <1>2 DEF Queue
<1>11. Coming'
  BY <1>0, <1>2, <1>8, ComingStays
<1>12. Seen'
  BY <1>0, <1>2, <1>8 DEF Seen, Later, Basic
<1>13. PICK p : p = [posts[i] EXCEPT !.reply = answer]
  OBVIOUS
<1>14. p \in Post /\ p.id = r /\ p.reply = answer
  BY <1>1, <1>5, <1>6, <1>13 DEF Post
<1>15. posts' = [posts EXCEPT ![i] = p]
  BY <1>6, <1>13
<1>16. PICK s : s = [posts EXCEPT ![i] = p]
  OBVIOUS
<1>17. s \in Seq(Post) /\ Len(s) = n
  BY <1>3, <1>4, <1>14, <1>16, ExceptSeq
<1>18. s[i] = p /\ \A j \in 1 .. n : j # i => s[j] = posts[j]
  BY <1>4, <1>16
<1>19. posts' = s
  BY <1>15, <1>16
<1>20. Posted'
  <2>1. ASSUME NEW j \in 1 .. n
        PROVE s[j].reply = "ok" => pause'[s[j].id] \in {"decided", "over"}
    <3>1. CASE j = i
      BY <1>7, <1>14, <1>18, <3>1
    <3>2. CASE j # i
      <4>1. s[j] = posts[j] /\ posts[j] \in Post
        BY <1>4, <1>18, <3>2
      <4>2. Accepted(posts[j])
        BY <1>0, <1>3 DEF Posted
      <4>3. posts[j].id \in Request
        BY <4>1 DEF Post
      <4> QED
        BY <1>8, <4>1, <4>2, <4>3 DEF Accepted, Later
    <3> QED
      BY <3>1, <3>2
  <2> QED
    BY <1>4, <1>17, <1>19, <2>1 DEF Posted, Accepted
<1>21. Calm'
  <2> SUFFICES ASSUME ~hasty PROVE Calm'
    BY <1>2 DEF Calm
  <2>1. n <= 1 /\ \A j \in 1 .. n : posts[j].id = dialog
    BY <1>0, <1>3 DEF Calm
  <2>2. ASSUME NEW j \in 1 .. n PROVE s[j].id = dialog
    BY <1>1, <1>14, <1>18, <2>1
  <2> QED
    BY <1>2, <1>17, <1>19, <2>1, <2>2 DEF Calm
<1>22. Kept'
  <2>1. ASSUME NEW q \in owed, pause'[q] \in {"announced", "waiting"} PROVE Shows(q)
    <3>1. pause[q] \in {"announced", "waiting"}
      BY <1>0, <1>7, <2>1 DEF Basic
    <3> QED
      BY <1>0, <3>1 DEF Kept
  <2> QED
    BY <1>2, <2>1 DEF Kept, Shows
<1> QED
  BY <1>9, <1>10, <1>11, <1>12, <1>20, <1>21, <1>22 DEF Inv

LEMMA ContinueKeeps == ASSUME Inv, NEW i \in 1 .. MaxPosts, Continue(i) PROVE Inv'
<1>0. Basic /\ Queue /\ Coming /\ Seen /\ Posted /\ Calm /\ Kept
  BY DEF Inv
<1>1. PICK p : p = posts[i]
  OBVIOUS
<1>2. /\ i <= Len(posts) /\ p.reply # "none" /\ posts' = RemoveAt(posts, i)
      /\ IF p.reply = "ok" \/ p.button = "forward"
         THEN /\ CloseInterceptModal
              /\ owed' = {r \in owed : /\ ~(hasty /\ r = dialog)
                                       /\ ~(p.reply = "refused" /\ r = p.id)}
         ELSE UNCHANGED <<dialog, waitq, owed>>
      /\ hasty' = (hasty /\ Len(posts) > 1)
      /\ UNCHANGED <<pause, stored, connected, events, view, loaded, fetched, trouble>>
  BY <1>1 DEF Continue, Replied, serverVars, listVars, dialogVars
<1>3. PICK n : n = Len(posts)
  OBVIOUS
<1>4. /\ posts \in Seq(Post) /\ n \in Nat /\ n <= MaxPosts /\ i \in 1 .. n
      /\ \A j \in 1 .. n : posts[j] \in Post
  BY <1>0, <1>2, <1>3, LenProperties, ElementOfSeq DEF Posted
<1>5. p \in Post /\ Accepted(p)
  BY <1>0, <1>1, <1>3, <1>4 DEF Posted
<1>6. owed' \subseteq owed
  BY <1>2
<1>7. Later
  BY <1>2 DEF Later
<1>8. Basic' /\ Seen'
  BY <1>0, <1>2, <1>6 DEF Basic, Seen
<1>9. Coming'
  BY <1>0, <1>2, <1>6, <1>7, ComingStays
<1>10. Queue'
  <2>1. CASE p.reply = "ok" \/ p.button = "forward"
    BY <1>0, <1>2, <2>1, CloseKeeps
  <2>2. CASE ~(p.reply = "ok" \/ p.button = "forward")
    BY <1>0, <1>2, <2>2 DEF Queue
  <2> QED
    BY <2>1, <2>2
<1>11. PICK s : s = RemoveAt(posts, i)
  OBVIOUS
<1>12. /\ s \in Seq(Post) /\ Len(s) = n - 1 /\ posts' = s
       /\ \A j \in 1 .. n - 1 : s[j] \in {posts[j], posts[j + 1]}
  <2>1. posts \in Seq(Post) /\ n \in Nat /\ i \in 1 .. n
    BY <1>4
  <2>2. /\ s \in Seq(Post) /\ Len(s) = n - 1
        /\ \A j \in 1 .. n - 1 : s[j] \in {posts[j], posts[j + 1]}
    BY <1>3, <1>11, <2>1, RemoveParts
  <2> QED
    BY <1>2, <1>11, <2>2
<1>13. Posted'
  <2>1. ASSUME NEW j \in 1 .. n - 1
        PROVE s[j].reply = "ok" => pause[s[j].id] \in {"decided", "over"}
    <3>1. PICK k \in 1 .. n : s[j] = posts[k]
      <4>1. j \in 1 .. n /\ j + 1 \in 1 .. n
        BY <1>4
      <4>2. s[j] = posts[j] \/ s[j] = posts[j + 1]
        BY <1>12
      <4> QED
        BY <4>1, <4>2
    <3>2. Accepted(posts[k])
      BY <1>0, <1>3 DEF Posted
    <3> QED
      BY <3>1, <3>2 DEF Accepted
  <2>2. n - 1 <= MaxPosts
    BY <1>4
  <2> QED
    BY <1>2, <1>12, <2>1, <2>2 DEF Posted, Accepted
<1>14. Calm'
  <2> SUFFICES ASSUME ~hasty' PROVE Calm'
    BY DEF Calm
  <2>1. n <= 1
    BY <1>0, <1>2, <1>3, <1>4 DEF Calm, Basic
  <2>2. Len(posts') = 0
    BY <1>4, <1>12, <2>1
  <2> QED
    BY <2>2 DEF Calm
<1>15. Kept'
  <2> SUFFICES ASSUME NEW q \in owed', pause[q] \in {"announced", "waiting"} PROVE Shows(q)'
    BY <1>2 DEF Kept
  <2>1. q \in owed /\ q \in Request /\ Shows(q)
    BY <1>0, <1>6 DEF Basic, Kept
  <2>2. CASE p.reply = "ok" \/ p.button = "forward"
    <3>1. q # dialog
      <4> SUFFICES ASSUME q = dialog PROVE FALSE
        OBVIOUS
      <4>1. ~hasty /\ ~(p.reply = "refused" /\ q = p.id)
        BY <1>2, <2>2
      <4>2. p.id = dialog
        BY <1>0, <1>1, <1>3, <1>4, <4>1 DEF Calm
      <4>3. p.reply = "ok"
        BY <1>2, <1>5, <4>1, <4>2 DEF Post
      <4> QED
        BY <1>5, <4>2, <4>3 DEF Accepted
    <3>2. q \in ToSet(waitq)
      BY <2>1, <3>1 DEF Shows
    <3>3. view[q] \notin {"absent", "pending", "over"} /\ view[q] \in View
      BY <1>0, <2>1 DEF Seen, Basic
    <3>4. view[q] = "paused"
      BY <3>3 DEF View
    <3> QED
      BY <1>0, <1>2, <2>2, <3>2, <3>4, CloseKeeps
  <2>3. CASE ~(p.reply = "ok" \/ p.button = "forward")
    BY <1>2, <2>1, <2>3 DEF Shows
  <2> QED
    BY <2>2, <2>3
<1> QED
  BY <1>8, <1>9, <1>10, <1>13, <1>14, <1>15 DEF Inv
-----------------------------------------------------------------------------
LEMMA InitInv == Init => Inv
<1> SUFFICES ASSUME Init PROVE Inv
  OBVIOUS
<1>1. /\ pause = [r \in Request |-> "new"] /\ stored = {} /\ connected = TRUE /\ events = << >>
      /\ view = Nothing /\ loaded = {} /\ fetched = NoFetch
      /\ dialog = None /\ waitq = << >> /\ owed = {}
      /\ posts = << >> /\ hasty = FALSE /\ trouble = 0
  BY DEF Init
<1>2. /\ \A S : << >> \in Seq(S)
      /\ Len(<< >>) = 0 /\ ToSet(<< >>) = {} /\ IsInjective(<< >>)
  BY DEF ToSet, IsInjective
<1>3. /\ Nothing \in [Request -> View] /\ \A r \in Request : Nothing[r] = "absent"
      /\ NoFetch \in [Request -> View \cup {"none", "asked"}]
      /\ \A r \in Request : NoFetch[r] = "none"
  BY DEF Nothing, NoFetch, View
<1>4. Basic
  <2>1. 0 \in 0 .. MaxTrouble
    OBVIOUS
  <2> QED
    BY <1>1, <1>3, <2>1 DEF Basic, Pauses
<1>5. Queue
  BY <1>1, <1>2 DEF Queue
<1>6. Coming
  BY <1>1, <1>2 DEF Coming
<1>7. Seen
  BY <1>1, <1>3 DEF Seen
<1>8. Posted
  BY <1>1, <1>2 DEF Posted
<1>9. Calm /\ Kept
  BY <1>1, <1>2 DEF Calm, Kept
<1> QED
  BY <1>4, <1>5, <1>6, <1>7, <1>8, <1>9 DEF Inv

\* One step per action.
LEMMA NextInv == Inv /\ [Next]_vars => Inv'
<1> SUFFICES ASSUME Inv, [Next]_vars PROVE Inv'
  OBVIOUS
<1>1. ASSUME NEW r \in Request,
             \/ Add(r) \/ Announce(r) \/ Register(r) \/ OtherDecides(r)
             \/ EndPause(r) \/ Evict(r)
      PROVE  Inv'
  BY <1>1, AddKeeps, AnnounceKeeps, RegisterKeeps, EndPauseKeeps, EvictKeeps
<1>2. ASSUME NEW r \in Request, SelectCapture(r) \/ ServeDetail(r) \/ Detail(r) PROVE Inv'
  BY <1>2, FetchKeeps, DetailKeeps
<1>3. CASE ClearCaptures
  BY <1>3, ClearKeeps
<1>4. CASE Disconnect
  BY <1>4, DisconnectKeeps
<1>5. CASE Reconnect \/ Reload
  BY <1>5, ReconnectKeeps, ReloadKeeps
<1>6. CASE HandleCapture \/ HandleIntercepted \/ HandleList
  BY <1>6, HandleCaptureKeeps, HandleInterceptedKeeps, HandleListKeeps
<1>7. CASE ForwardOriginal \/ ForwardModified \/ DropRequest
  BY <1>7, ButtonsPress, PressKeeps
<1>8. ASSUME NEW i \in 1 .. MaxPosts, Serve(i) \/ Continue(i) PROVE Inv'
  BY <1>8, ServeKeeps, ContinueKeeps
<1>9. CASE UNCHANGED vars
  <2>1. UNCHANGED <<pause, stored, connected, events, view, loaded, fetched,
                    dialog, waitq, owed, posts, hasty, trouble>>
    BY <1>9 DEF vars, serverVars, listVars, dialogVars, postVars
  <2>2. Later
    BY <2>1 DEF Later
  <2>3. Coming'
    BY <2>1, <2>2, ComingStays DEF Inv
  <2> QED
    BY <2>1, <2>3 DEF Inv, Basic, Queue, Seen, Posted, Accepted, Calm, Kept, Shows
<1> QED
  BY <1>1, <1>2, <1>3, <1>4, <1>5, <1>6, <1>7, <1>8, <1>9 DEF Next

LEMMA InvTypes == Inv => TypeOK
<1> SUFFICES ASSUME Inv PROVE TypeOK
  OBVIOUS
<1>1. Basic /\ Queue /\ Coming /\ Posted
  BY DEF Inv
<1>2. {connected, hasty} \subseteq BOOLEAN
  BY <1>1 DEF Basic
<1>3. {stored, loaded, owed} \subseteq SUBSET Request
  BY <1>1 DEF Basic
<1>4. fetched \in [Request -> {"none", "asked", "absent", "pending", "paused", "over"}]
  BY <1>1 DEF Basic, View
<1> QED
  BY <1>1, <1>2, <1>3, <1>4 DEF TypeOK, Basic, Pauses, View, Queue, Coming, Posted

LEMMA InvNeverForgotten == Inv => NeverForgotten
BY DEF Inv, Queue, Kept, Shows, NeverForgotten

\* At every moment the state of the page and of the gate has its types: the
\* queue behind the dialog holds no request twice, nor the one in the dialog,
\* and no bound of the run is passed.
THEOREM TypeCorrect == Spec => []TypeOK
<1>1. Spec => []Inv
  BY InitInv, NextInv, PTL DEF Spec
<1> QED
  BY <1>1, InvTypes, PTL

\* Whatever is lost and whoever else decides, the page shows or queues every
\* pause that it was told of and that still waits, unless one of the five
\* exceptions listed at NeverForgotten has met that pause; and nothing queues
\* behind a dialog that is closed.
THEOREM PausesKept == Spec => []NeverForgotten
<1>1. Spec => []Inv
  BY InitInv, NextInv, PTL DEF Spec
<1> QED
  BY <1>1, InvNeverForgotten, PTL
=============================================================================
