----------------------------- MODULE EngineProofs ----------------------------
(***************************************************************************)
(* What the functions of Engine compute, for every input: first the        *)
(* induction that the proofs use and the equations of the loops, then the  *)
(* properties of MCEngine one by one.                                      *)
(***************************************************************************)
EXTENDS MCEngine, SequenceTheorems, WellFoundedInduction, TLAPS

\* A set of naturals that is not empty has a least element.
LEMMA FirstPosition ==
    ASSUME NEW T, T \subseteq Nat, T # {}
    PROVE  \E i \in T : \A j \in T : i <= j
<1>1. \E x \in T : \A y \in T : ~ (<<y, x>> \in OpToRel(<, Nat))
  BY NatLessThanWellFounded, WFMin
<1>2. ASSUME NEW x \in Nat, NEW y \in Nat, y < x PROVE <<y, x>> \in OpToRel(<, Nat)
  BY <1>2 DEF OpToRel
<1>3. PICK x \in T : \A y \in T : ~ (<<y, x>> \in OpToRel(<, Nat))
  BY <1>1
<1>4. \A y \in T : ~ (y < x)
  BY <1>2, <1>3
<1> QED
  BY <1>4

\* Induction, for a property that is given as a set.
LEMMA Inductive ==
    ASSUME NEW T, 0 \in T, \A n \in Nat : n \in T => n + 1 \in T
    PROVE  \A n \in Nat : n \in T
<1> SUFFICES ASSUME NEW k \in Nat, k \notin T PROVE FALSE
  OBVIOUS
<1> DEFINE U == {n \in Nat : n \notin T}
<1>1. PICK i \in U : \A j \in U : i <= j
  BY FirstPosition
<1>2. i - 1 \in Nat /\ i - 1 \notin U /\ i = (i - 1) + 1
  BY <1>1
<1> QED
  BY <1>1, <1>2

-----------------------------------------------------------------------------
\* One round of the loop over the rules.
Round(done, r, phase) ==
    IF r.enabled /\ r.phase = phase THEN ApplyRule(done, r) ELSE done

Start(msg) == [msg |-> msg, modified |-> FALSE]

\* f is what the recursion of Rounds defines, for n rules.
IsRounds(f, n, rs, phase, msg) ==
    f = [i \in 0 .. n |-> IF i = 0 THEN Start(msg) ELSE Round(f[i - 1], rs[i], phase)]

\* The recursion of Rounds defines a function.
LEMMA RoundsExist ==
    ASSUME NEW rs, NEW phase, NEW msg
    PROVE  \A n \in Nat : \E f : IsRounds(f, n, rs, phase, msg)
<1> DEFINE T == {n \in Nat : \E f : IsRounds(f, n, rs, phase, msg)}
<1>1. 0 \in T
  <2> DEFINE f == [i \in 0 .. 0 |-> Start(msg)]
  <2>1. IsRounds(f, 0, rs, phase, msg)
    BY DEF IsRounds
  <2> QED
    BY <2>1
<1>2. ASSUME NEW n \in Nat, n \in T PROVE n + 1 \in T
  <2>1. PICK f : IsRounds(f, n, rs, phase, msg)
    BY <1>2
  <2> DEFINE g == [i \in 0 .. n + 1 |->
                       IF i = n + 1 THEN Round(f[n], rs[n + 1], phase) ELSE f[i]]
  <2>2. \A i \in 0 .. n + 1 : i # 0 => i - 1 \in 0 .. n /\ g[i - 1] = f[i - 1]
    OBVIOUS
  <2>3. ASSUME NEW i \in 0 .. n + 1
        PROVE  g[i] = IF i = 0 THEN Start(msg) ELSE Round(g[i - 1], rs[i], phase)
    <3>1. CASE i = n + 1
      BY <2>2, <3>1
    <3>2. CASE i # n + 1
      <4>1. i \in 0 .. n
        BY <3>2
      <4> QED
        BY <2>1, <2>2, <4>1 DEF IsRounds
    <3> QED
      BY <3>1, <3>2
  <2>4. IsRounds(g, n + 1, rs, phase, msg)
    BY <2>3 DEF IsRounds
  <2>5. \E h : IsRounds(h, n + 1, rs, phase, msg)
    BY <2>4
  <2> QED
    BY <2>5
<1> HIDE DEF T
<1>3. \A n \in Nat : n \in T
  BY <1>1, <1>2, Inductive
<1> QED
  BY <1>3 DEF T

\* The equations of the loop over the rules.
LEMMA RoundsEquations ==
    ASSUME NEW S, NEW rs \in Seq(S), NEW phase, NEW msg
    PROVE  /\ Rounds(rs, phase, msg)[0] = Start(msg)
           /\ \A i \in 1 .. Len(rs) : Rounds(rs, phase, msg)[i] =
                  Round(Rounds(rs, phase, msg)[i - 1], rs[i], phase)
<1>1. PICK n \in Nat : n = Len(rs)
  BY LenProperties
<1>2. \E f : IsRounds(f, n, rs, phase, msg)
  BY RoundsExist
<1>3. PICK done : done = Rounds(rs, phase, msg)
  OBVIOUS
<1>4. done = CHOOSE f : IsRounds(f, n, rs, phase, msg)
  BY <1>1, <1>3, Zenon DEF Rounds, Round, Start, IsRounds
<1>5. IsRounds(done, n, rs, phase, msg)
  BY <1>2, <1>4, Zenon
<1>6. done[0] = Start(msg)
  BY <1>5 DEF IsRounds
<1>7. \A i \in 1 .. n : done[i] = Round(done[i - 1], rs[i], phase)
  BY <1>5 DEF IsRounds
<1> QED
  BY <1>1, <1>3, <1>6, <1>7

\* The list of rules as the code has it: any words, any parts.
RuleOf(Phase, Part, Sym) ==
    [enabled : BOOLEAN, phase : Phase, part : Part, anchored : BOOLEAN,
     word : Seq(Sym), replacement : Seq(Sym)]

\* What a rule makes of the values of its part.
Values(r, vs) ==
    IF r.part = "body" /\ vs = << << >> >> THEN vs ELSE [i \in DOMAIN vs |-> Rewritten(r, vs[i])]

Active(r, phase) == r.enabled /\ r.phase = phase

\* A round rewrites the part of its rule and nothing else.
LEMMA RoundParts ==
    ASSUME NEW d, NEW r, NEW phase
    PROVE  /\ DOMAIN Round(d, r, phase).msg = DOMAIN d.msg
           /\ \A p \in DOMAIN d.msg : Round(d, r, phase).msg[p] =
                  IF Active(r, phase) /\ r.part = p THEN Values(r, d.msg[p]) ELSE d.msg[p]
<1>1. CASE ~ Active(r, phase)
  BY <1>1 DEF Round, Active
<1>2. CASE Active(r, phase)
  <2>1. Round(d, r, phase) = ApplyRule(d, r)
    BY <1>2 DEF Round, Active
  <2>2. CASE r.part \notin DOMAIN d.msg
    BY <1>2, <2>1, <2>2 DEF ApplyRule
  <2>3. CASE r.part \in DOMAIN d.msg /\ r.part = "body" /\ d.msg[r.part] = << << >> >>
    BY <1>2, <2>1, <2>3 DEF ApplyRule, Values
  <2>4. CASE r.part \in DOMAIN d.msg /\ ~ (r.part = "body" /\ d.msg[r.part] = << << >> >>)
    <3>1. PICK new : new = [i \in DOMAIN d.msg[r.part] |-> Rewritten(r, d.msg[r.part][i])]
      OBVIOUS
    <3>2. Round(d, r, phase).msg = [d.msg EXCEPT ![r.part] = new]
      BY <2>1, <2>4, <3>1 DEF ApplyRule
    <3>3. Values(r, d.msg[r.part]) = new
      BY <2>4, <3>1 DEF Values
    <3> QED
      BY <1>2, <2>4, <3>2, <3>3
  <2> QED
    BY <2>2, <2>3, <2>4
<1> QED
  BY <1>1, <1>2

\* After any number of rounds, a part is as if only its rules were enabled.
LEMMA PartsAlone ==
    ASSUME NEW Phase, NEW Part, NEW Sym, NEW rs \in Seq(RuleOf(Phase, Part, Sym)),
           NEW phase, NEW msg, NEW p \in DOMAIN msg
    PROVE  Apply(rs, phase, msg).msg[p] = Apply(OnlyFor(rs, p), phase, msg).msg[p]
<1>1. PICK n \in Nat : n = Len(rs)
  BY LenProperties
<1>2. PICK qs : qs = OnlyFor(rs, p)
  OBVIOUS
<1>3. DOMAIN rs = 1 .. n /\ \A i \in 1 .. n : rs[i] \in RuleOf(Phase, Part, Sym)
  BY <1>1
<1>4. \A i \in 1 .. n :
          qs[i] = IF rs[i].part = p THEN rs[i] ELSE [rs[i] EXCEPT !.enabled = FALSE]
  BY <1>2, <1>3 DEF OnlyFor
<1>5. qs \in Seq(RuleOf(Phase, Part, Sym)) /\ Len(qs) = n
  <2>1. \A i \in 1 .. n : qs[i] \in RuleOf(Phase, Part, Sym)
    BY <1>3, <1>4 DEF RuleOf
  <2>2. qs = [i \in 1 .. n |-> qs[i]]
    BY <1>2, <1>3 DEF OnlyFor
  <2> QED
    BY <2>1, <2>2
<1>6. \A i \in 1 .. n :
          IF rs[i].part = p THEN qs[i] = rs[i] ELSE ~ Active(qs[i], phase)
  BY <1>3, <1>4 DEF RuleOf, Active
<1>7. PICK f : f = Rounds(rs, phase, msg)
  OBVIOUS
<1>8. PICK g : g = Rounds(qs, phase, msg)
  OBVIOUS
<1>9. f[0] = Start(msg) /\ \A i \in 1 .. n : f[i] = Round(f[i - 1], rs[i], phase)
  BY <1>1, <1>7, RoundsEquations
<1>10. g[0] = Start(msg) /\ \A i \in 1 .. n : g[i] = Round(g[i - 1], qs[i], phase)
  BY <1>5, <1>8, RoundsEquations
<1> DEFINE Same(i) == /\ DOMAIN f[i].msg = DOMAIN msg /\ DOMAIN g[i].msg = DOMAIN msg
                      /\ f[i].msg[p] = g[i].msg[p]
           T == {i \in Nat : i <= n => Same(i)}
<1>11. 0 \in T
  BY <1>9, <1>10 DEF Start
<1>12. ASSUME NEW i \in Nat, i \in T PROVE i + 1 \in T
  <2> SUFFICES ASSUME i + 1 <= n PROVE Same(i + 1)
    OBVIOUS
  <2>1. Same(i) /\ i + 1 \in 1 .. n /\ (i + 1) - 1 = i
    BY <1>12
  <2>2. f[i + 1] = Round(f[i], rs[i + 1], phase) /\ g[i + 1] = Round(g[i], qs[i + 1], phase)
    BY <1>9, <1>10, <2>1
  <2>3. DOMAIN f[i + 1].msg = DOMAIN msg /\ DOMAIN g[i + 1].msg = DOMAIN msg
    BY <2>1, <2>2, RoundParts
  <2>4. f[i + 1].msg[p] = IF Active(rs[i + 1], phase) /\ rs[i + 1].part = p
                          THEN Values(rs[i + 1], f[i].msg[p]) ELSE f[i].msg[p]
    BY <2>1, <2>2, RoundParts
  <2>5. g[i + 1].msg[p] = IF Active(qs[i + 1], phase) /\ qs[i + 1].part = p
                          THEN Values(qs[i + 1], g[i].msg[p]) ELSE g[i].msg[p]
    BY <2>1, <2>2, RoundParts
  <2>6. f[i + 1].msg[p] = g[i + 1].msg[p]
    BY <1>6, <2>1, <2>4, <2>5
  <2> QED
    BY <2>3, <2>6
<1> HIDE DEF T
<1>13. n \in T
  BY <1>11, <1>12, Inductive
<1> QED
  BY <1>1, <1>2, <1>5, <1>7, <1>8, <1>13 DEF T, Apply

-----------------------------------------------------------------------------
\* m has the parts of msg.
SameParts(m, msg) == m = [p \in DOMAIN msg |-> m[p]]

\* The loop keeps the parts, and its flag tells of every change.
LEMMA FlagTells ==
    ASSUME NEW S, NEW rs \in Seq(S), NEW phase, NEW msg, SameParts(msg, msg)
    PROVE  /\ SameParts(Apply(rs, phase, msg).msg, msg)
           /\ Apply(rs, phase, msg).modified \/ Apply(rs, phase, msg).msg = msg
<1>1. PICK n \in Nat : n = Len(rs)
  BY LenProperties
<1>2. PICK f : f = Rounds(rs, phase, msg)
  OBVIOUS
<1>3. f[0] = Start(msg) /\ \A i \in 1 .. n : f[i] = Round(f[i - 1], rs[i], phase)
  BY <1>1, <1>2, RoundsEquations
<1> DEFINE Good(d) == SameParts(d.msg, msg) /\ (d.modified \/ d.msg = msg)
           T == {i \in Nat : i <= n => Good(f[i])}
<1>4. 0 \in T
  BY <1>3 DEF Start
<1>5. ASSUME NEW d, NEW r, Good(d) PROVE Good(Round(d, r, phase))
  <2>1. CASE Round(d, r, phase) = d
    BY <1>5, <2>1
  <2>2. CASE Round(d, r, phase) # d
    <3>1. PICK new : new = [i \in DOMAIN d.msg[r.part] |-> Rewritten(r, d.msg[r.part][i])]
      OBVIOUS
    <3>2. r.part \in DOMAIN d.msg
      BY <2>2 DEF Round, ApplyRule
    <3>3. PICK m : m = [d.msg EXCEPT ![r.part] = new]
      OBVIOUS
    <3>4. Round(d, r, phase) = [msg      |-> m,
                                modified |-> d.modified \/ new # d.msg[r.part]]
      BY <2>2, <3>1, <3>3 DEF Round, ApplyRule
    <3>5. PICK b : b = (d.modified \/ new # d.msg[r.part])
      OBVIOUS
    <3>6. Round(d, r, phase) = [msg |-> m, modified |-> b]
      BY <3>4, <3>5, Zenon
    <3>7. Round(d, r, phase).msg = m /\ Round(d, r, phase).modified = b
      BY <3>6
    <3>8. (d.modified \/ new # d.msg[r.part]) => Round(d, r, phase).modified
      BY <3>5, <3>7, Zenon
    <3>9. SameParts(m, msg)
      BY <1>5, <3>3 DEF SameParts
    <3>10. new = d.msg[r.part] => m = d.msg
      BY <1>5, <3>2, <3>3 DEF SameParts
    <3> QED
      BY <1>5, <3>9, <3>10, <3>7, <3>8
  <2> QED
    BY <2>1, <2>2
<1> HIDE DEF Good
<1>6. ASSUME NEW i \in Nat, i \in T PROVE i + 1 \in T
  <2>1. i + 1 <= n => f[i + 1] = Round(f[i], rs[i + 1], phase)
    BY <1>3
  <2> QED
    BY <1>5, <1>6, <2>1
<1> HIDE DEF T
<1>7. n \in T
  BY <1>4, <1>6, Inductive
<1> QED
  BY <1>1, <1>2, <1>7 DEF T, Good, Apply

\* What is captured is what is sent.
LEMMA CapturedIsSent ==
    ASSUME NEW S, NEW rs \in Seq(S), NEW msg, SameParts(msg, msg)
    PROVE  Captured(rs, msg) = Apply(rs, "request", msg).msg
BY FlagTells DEF Captured

\* Without rules a message stays as it is.
LEMMA NoRules ==
    ASSUME NEW msg
    PROVE  Apply(<< >>, "request", msg).msg = msg
<1>1. << >> \in Seq({}) /\ Len(<< >>) = 0
  OBVIOUS
<1>2. Rounds(<< >>, "request", msg)[0] = Start(msg)
  BY <1>1, RoundsEquations
<1> QED
  BY <1>1, <1>2 DEF Apply, Start

\* A replay that posts nothing, or what it was shown, has the message of the
\* capture.
LEMMA ReplayedCapture ==
    ASSUME NEW capture, SameParts(capture, capture), {"url", "body"} \subseteq DOMAIN capture,
           NEW post,
           \A p \in {"url", "body"} : post[p] \in {<< << >> >>, capture[p]},
           post.headers \in {None, [k \in DOMAIN capture \ {"url", "body"} |-> capture[k]]}
    PROVE  Replayed(post, capture) = capture
<1>1. PICK hs : hs = [k \in DOMAIN capture \ {"url", "body"} |-> capture[k]]
  OBVIOUS
<1>2. hs = IF post.headers # None THEN post.headers
           ELSE [k \in DOMAIN capture \ {"url", "body"} |-> capture[k]]
  BY <1>1
<1>3. Replayed(post, capture) =
        [p \in {"url", "body"} \cup DOMAIN hs |->
            IF p \notin {"url", "body"} THEN hs[p]
            ELSE IF post[p] = << << >> >> THEN capture[p] ELSE post[p]]
  BY <1>2 DEF Replayed
<1>4. {"url", "body"} \cup DOMAIN hs = DOMAIN capture
  BY <1>1
<1>5. \A p \in DOMAIN capture :
        capture[p] = IF p \notin {"url", "body"} THEN hs[p]
                     ELSE IF post[p] = << << >> >> THEN capture[p] ELSE post[p]
  BY <1>1
<1> QED
  BY <1>3, <1>4, <1>5 DEF SameParts

-----------------------------------------------------------------------------
\* Where the marker m ends in the stream s.
EndsOf(s, m) == {i \in 2 .. Len(s) : SubSeq(s, i - 1, i) = m}

\* A subsequence of two elements.
LEMMA TwoElements ==
    ASSUME NEW S, NEW s \in Seq(S), NEW i \in 1 .. Len(s) - 1
    PROVE  SubSeq(s, i, i + 1) = <<s[i], s[i + 1]>>
<1>1. \A j \in i .. i + 1 : s[j] \in S
  BY ElementOfSeq
<1>2. PICK t : t = SubSeq(s, i, i + 1)
  OBVIOUS
<1>3. t \in Seq(S) /\ Len(t) = 2
  BY <1>1, <1>2, SubSeqProperties
<1>4. t[1] = s[i] /\ t[2] = s[i + 1]
  BY <1>1, <1>2, SubSeqProperties
<1>5. PICK u : u = <<s[i], s[i + 1]>>
  OBVIOUS
<1>6. u \in Seq(S) /\ Len(u) = 2 /\ u[1] = s[i] /\ u[2] = s[i + 1]
  BY <1>1, <1>5
<1>7. \A j \in 1 .. Len(t) : t[j] = u[j]
  BY <1>3, <1>4, <1>6
<1>8. t = u
  BY <1>3, <1>6, <1>7, SeqEqual
<1> QED
  BY <1>2, <1>5, <1>8

\* A prefix contains the marker when one ends in it.
LEMMA MarkedPrefix ==
    ASSUME NEW S, NEW s \in Seq(S), NEW c \in 0 .. Len(s), NEW m
    PROVE  Marked(SubSeq(s, 1, c), m) <=> \E i \in EndsOf(s, m) : i <= c
<1>1. \A i \in 1 .. c : s[i] \in S
  BY ElementOfSeq
<1>2. PICK t : t = SubSeq(s, 1, c)
  OBVIOUS
<1>3. t \in Seq(S) /\ Len(t) = c /\ \A i \in 1 .. c : t[i] = s[i]
  BY <1>1, <1>2, SubSeqProperties
<1>4. \A i \in 1 .. c - 1 : SubSeq(t, i, i + 1) = SubSeq(s, i, i + 1)
  <2> TAKE i \in 1 .. c - 1
  <2>1. SubSeq(t, i, i + 1) = <<t[i], t[i + 1]>>
    BY <1>3, TwoElements
  <2>2. SubSeq(s, i, i + 1) = <<s[i], s[i + 1]>>
    BY TwoElements
  <2>3. i \in 1 .. c /\ i + 1 \in 1 .. c
    OBVIOUS
  <2>4. t[i] = s[i] /\ t[i + 1] = s[i + 1]
    BY <1>3, <2>3
  <2> QED
    BY <2>1, <2>2, <2>4
<1>5. Marked(t, m) <=> \E i \in 1 .. c - 1 : SubSeq(s, i, i + 1) = m
  BY <1>3, <1>4 DEF Marked
<1>6. ASSUME NEW i \in 1 .. c - 1, SubSeq(s, i, i + 1) = m
      PROVE  i + 1 \in EndsOf(s, m) /\ i + 1 <= c
  <2>1. i + 1 \in 2 .. Len(s) /\ (i + 1) - 1 = i /\ i + 1 <= c
    OBVIOUS
  <2> QED
    BY <1>6, <2>1 DEF EndsOf
<1>7. ASSUME NEW j \in EndsOf(s, m), j <= c
      PROVE  j - 1 \in 1 .. c - 1 /\ SubSeq(s, j - 1, (j - 1) + 1) = m
  <2>1. j \in 2 .. Len(s) /\ SubSeq(s, j - 1, j) = m
    BY DEF EndsOf
  <2>2. (j - 1) + 1 = j /\ j - 1 \in 1 .. c - 1
    BY <1>7, <2>1
  <2> QED
    BY <2>1, <2>2
<1> QED
  BY <1>2, <1>5, <1>6, <1>7

\* What the verdict on a prefix says.
LEMMA Verdicts ==
    ASSUME NEW prefix
    PROVE  /\ Classify(prefix) = "refusal" <=> Marked(prefix, Refusal)
           /\ Classify(prefix) = "passthrough" =>
                  \E m \in Content : Marked(prefix, m)
           /\ Classify(prefix) \in {None, "refusal", "passthrough"}
BY EngineAssumption DEF Classify

\* The verdict of the peek is that of one of the prefixes, and where it has
\* decided there was no verdict before.
LEMMA EarlyRefusal ==
    ASSUME NEW S, NEW s \in Seq(S), NEW cuts, cuts \subseteq 1 .. Len(s), Len(s) \in cuts
    PROVE  /\ (\E i \in EndsOf(s, Refusal) : i <= MaxPeek /\
                   \A m \in Content : \A j \in EndsOf(s, m) : i < j)
               => Peek(s, cuts) = "refusal"
           /\ Peek(s, cuts) = "refusal" => EndsOf(s, Refusal) # {}
<1>1. PICK decided : decided = {c \in cuts : Classify(SubSeq(s, 1, c)) # None \/ c >= MaxPeek}
  OBVIOUS
<1>2. PICK d : d = Min(decided)
  OBVIOUS
<1>3. Peek(s, cuts) =
        IF decided = {} \/ Classify(SubSeq(s, 1, d)) = None THEN "passthrough"
        ELSE Classify(SubSeq(s, 1, d))
  BY <1>1, <1>2, Zenon DEF Peek
<1>4. Len(s) \in Nat /\ \A i \in EndsOf(s, Refusal) : i \in 2 .. Len(s)
  BY LenProperties DEF EndsOf
<1>5. ASSUME decided # {} PROVE d \in decided /\ d \in 1 .. Len(s)
  <2>1. decided \subseteq Nat
    <3>1. decided \subseteq cuts
      BY <1>1, Zenon
    <3>2. 1 .. Len(s) \subseteq Nat
      OBVIOUS
    <3> QED
      BY <3>1, <3>2, Zenon
  <2>2. \E i \in decided : \A j \in decided : i <= j
    BY <1>5, <2>1, FirstPosition
  <2>3. d = CHOOSE i \in decided : \A j \in decided : i <= j
    BY <1>2, Zenon DEF Min
  <2>4. d \in decided
    BY <2>2, <2>3, Zenon
  <2> QED
    BY <1>1, <2>4
<1>6. \A c \in 1 .. Len(s) : c \in 0 .. Len(s)
  BY <1>4
<1>7. ASSUME NEW c \in 1 .. Len(s)
      PROVE  Classify(SubSeq(s, 1, c)) = "refusal" <=> \E i \in EndsOf(s, Refusal) : i <= c
  BY <1>6, MarkedPrefix, Verdicts
<1>8. ASSUME NEW i \in EndsOf(s, Refusal), i <= MaxPeek,
             \A m \in Content : \A j \in EndsOf(s, m) : i < j
      PROVE  Peek(s, cuts) = "refusal"
  <2>1. Len(s) \in 1 .. Len(s) /\ i <= Len(s)
    BY <1>4
  <2>2. Len(s) \in decided
    BY <1>1, <1>7, <2>1, EngineAssumption
  <2>3. d \in decided /\ d \in 1 .. Len(s)
    BY <1>5, <2>2
  <2>4. CASE i <= d
    BY <1>3, <1>7, <2>2, <2>3, <2>4, EngineAssumption
  <2>5. CASE ~ (i <= d)
    <3>1. Classify(SubSeq(s, 1, d)) # None
      BY <1>1, <1>4, <1>8, <2>3, <2>5, EngineAssumption
    <3>2. ASSUME NEW m \in Content PROVE ~ Marked(SubSeq(s, 1, d), m)
      <4>1. \A j \in EndsOf(s, m) : i < j /\ j \in Nat
        BY <1>8, <1>4 DEF EndsOf
      <4>2. \A j \in EndsOf(s, m) : ~ (j <= d)
        BY <1>4, <2>3, <2>5, <4>1
      <4> QED
        BY <1>6, <2>3, <4>2, MarkedPrefix
    <3>3. Classify(SubSeq(s, 1, d)) = "refusal"
      BY <3>1, <3>2, Verdicts
    <3> QED
      BY <1>3, <2>2, <3>3, EngineAssumption
  <2> QED
    BY <2>4, <2>5
<1>9. ASSUME Peek(s, cuts) = "refusal" PROVE EndsOf(s, Refusal) # {}
  <2>1. decided # {} /\ Classify(SubSeq(s, 1, d)) = "refusal"
    BY <1>3, <1>9
  <2> QED
    BY <1>5, <1>7, <2>1
<1> QED
  BY <1>8, <1>9

-----------------------------------------------------------------------------
\* What the jobs of MCEngine are.
Symbols == {"a", "b"}

AnyRule == RuleOf({"request", "response"}, {"url", "body", "X"}, Symbols)

Stream == {"stop", "block", "refusal", "text", "end_turn"}

RequestJob ==
    /\ job.rules \in Seq(AnyRule)
    /\ SameParts(job.message, job.message) /\ {"url", "body"} \subseteq DOMAIN job.message

ChunksJob ==
    /\ job.rules \in Seq(BodyRule)
    /\ job.first \in Seq(Symbols) /\ job.second \in Seq(Symbols)

StreamJob ==
    /\ job.stream \in Seq(Stream)
    /\ job.cuts \subseteq 1 .. Len(job.stream) /\ Len(job.stream) \in job.cuts

RetryJob == job.body \in Body /\ job.headers \in Headers

JobOK ==
    /\ job.kind = "request" => RequestJob
    /\ job.kind = "chunks" => ChunksJob
    /\ job.kind = "stream" => StreamJob
    /\ job.kind = "retry" => RetryJob

\* A bounded sequence is a sequence.
LEMMA BoundedIsSeq ==
    ASSUME NEW S, NEW n, NEW s \in SeqOf(S, n)
    PROVE  s \in Seq(S)
<1>1. PICK m \in 0 .. n : s \in [1 .. m -> S]
  BY DEF SeqOf
<1> QED
  BY <1>1

\* The rules of the request jobs.
LEMMA RequestRules ==
    ASSUME NEW r \in Rule({"url", "body", "X"}, {"request"})
                     \cup Rule({"body"}, {"response"}) \cup Special
    PROVE  r \in AnyRule
<1>1. /\ <<"a">> \in Seq(Symbols) /\ <<"b">> \in Seq(Symbols) /\ << >> \in Seq(Symbols)
      /\ <<"a", "b">> \in Seq(Symbols) /\ <<"a", "a">> \in Seq(Symbols)
  BY DEF Symbols
<1>2. CASE r \in Rule({"url", "body", "X"}, {"request"})
  BY <1>1, <1>2 DEF Rule, AnyRule, RuleOf
<1>3. CASE r \in Rule({"body"}, {"response"})
  BY <1>1, <1>3 DEF Rule, AnyRule, RuleOf
<1>4. CASE r \in Special
  BY <1>1, <1>4 DEF Special, AnyRule, RuleOf
<1> QED
  BY <1>2, <1>3, <1>4

\* The messages of the request jobs.
LEMMA RequestMessages ==
    ASSUME NEW m \in Message
    PROVE  SameParts(m, m) /\ {"url", "body"} \subseteq DOMAIN m
<1>1. PICK u \in {<<"a">>, <<"a", "b">>}, b \in Text,
           hs \in {<< >>, [Connection |-> << <<"a">> >>],
                  [X |-> << <<"a", "b">>, <<"b">> >>]} :
          m = [p \in {"url", "body"} \cup DOMAIN hs |->
                  IF p = "url" THEN <<u>> ELSE IF p = "body" THEN <<b>> ELSE hs[p]]
  BY DEF Message
<1> QED
  BY <1>1 DEF SameParts

\* Every job is as described.
LEMMA JobTypes == Spec => []JobOK
<1>1. Init => JobOK
  BY DEF Init, JobOK
<1>2. JobOK /\ [Next]_job => JobOK'
  <2> SUFFICES ASSUME JobOK, [Next]_job PROVE JobOK'
    OBVIOUS
  <2>1. CASE UNCHANGED job
    BY <2>1 DEF JobOK, RequestJob, ChunksJob, StreamJob, RetryJob
  <2>2. CASE RewriteRequest
    <3>1. PICK rs \in SeqOf(Rule({"url", "body", "X"}, {"request"})
                            \cup Rule({"body"}, {"response"}) \cup Special, MaxRules),
               m \in Message : job' = [kind |-> "request", rules |-> rs, message |-> m]
      BY <2>2 DEF RewriteRequest
    <3>2. rs \in Seq(AnyRule)
      <4>1. PICK k \in 0 .. MaxRules :
                rs \in [1 .. k -> Rule({"url", "body", "X"}, {"request"})
                                  \cup Rule({"body"}, {"response"}) \cup Special]
        BY DEF SeqOf
      <4>2. \A i \in 1 .. k : rs[i] \in AnyRule
        BY <4>1, RequestRules
      <4> QED
        BY <4>1, <4>2
    <3>3. SameParts(m, m) /\ {"url", "body"} \subseteq DOMAIN m
      BY RequestMessages
    <3>4. job'.kind = "request" /\ job'.rules = rs /\ job'.message = m
      BY <3>1
    <3> QED
      BY <3>2, <3>3, <3>4 DEF JobOK, RequestJob
  <2>3. CASE RewriteChunks
    <3>1. PICK rs \in SeqOf(BodyRule, 2), s \in Text, t \in Text :
              job' = [kind |-> "chunks", rules |-> rs, first |-> s, second |-> t]
      BY <2>3 DEF RewriteChunks
    <3>2. rs \in Seq(BodyRule) /\ s \in Seq(Symbols) /\ t \in Seq(Symbols)
      BY BoundedIsSeq DEF Text, Symbols
    <3>3. job'.kind = "chunks" /\ job'.rules = rs /\ job'.first = s /\ job'.second = t
      BY <3>1
    <3> QED
      BY <3>2, <3>3 DEF JobOK, ChunksJob
  <2>4. CASE PeekStream
    <3>1. PICK s \in SeqOf(Stream, MaxStream) \ {<< >>} :
              \E cuts \in SUBSET (1 .. Len(s)) :
                  job' = [kind |-> "stream", stream |-> s, cuts |-> cuts \cup {Len(s)}]
      BY <2>4 DEF PeekStream, Stream
    <3>2. PICK cuts \in SUBSET (1 .. Len(s)) :
              job' = [kind |-> "stream", stream |-> s, cuts |-> cuts \cup {Len(s)}]
      BY <3>1
    <3>3. s \in Seq(Stream) /\ s # << >>
      BY BoundedIsSeq
    <3>4. Len(s) \in 1 .. Len(s)
      BY <3>3
    <3>5. job'.kind = "stream" /\ job'.stream = s /\ job'.cuts = cuts \cup {Len(s)}
      BY <3>2
    <3> QED
      BY <3>3, <3>4, <3>5 DEF JobOK, StreamJob
  <2>5. CASE PrepareRetry
    <3>1. PICK b \in Body, hs \in Headers :
              job' = [kind |-> "retry", body |-> b, headers |-> hs]
      BY <2>5 DEF PrepareRetry
    <3> QED
      BY <3>1 DEF JobOK, RetryJob
  <2> QED
    BY <2>1, <2>2, <2>3, <2>4, <2>5 DEF Next
<1> QED
  BY <1>1, <1>2, PTL DEF Spec

\* PartsAreIndependent (rules.go:114-157): no rule keeps another from its part,
\* for rule lists of any length.
THEOREM PartsIndependent == Spec => []PartsAreIndependent
<1>1. JobOK => PartsAreIndependent
  BY PartsAlone DEF JobOK, RequestJob, AnyRule, PartsAreIndependent
<1> QED
  BY <1>1, JobTypes, PTL

\* ReplaySendsTheSame (api.go:356-371, proxy.go:105-114): a replay of a capture
\* sends what was sent, for rule lists of any length.
THEOREM ReplayIsFaithful == Spec => []ReplaySendsTheSame
<1>1. JobOK => ReplaySendsTheSame
  <2> SUFFICES ASSUME JobOK, job.kind = "request" PROVE ReplaySendsTheSame
    BY DEF ReplaySendsTheSame
  <2>1. RequestJob
    BY DEF JobOK
  <2>2. PICK capture : capture = Captured(job.rules, job.message)
    OBVIOUS
  <2>3. PICK headers : headers = [k \in DOMAIN capture \ {"url", "body"} |-> capture[k]]
    OBVIOUS
  <2>4. capture = Apply(job.rules, "request", job.message).msg
    BY <2>1, <2>2, CapturedIsSent DEF RequestJob
  <2>5. SameParts(capture, job.message)
    BY <2>1, <2>4, FlagTells DEF RequestJob
  <2>6. SameParts(capture, capture) /\ {"url", "body"} \subseteq DOMAIN capture
    BY <2>1, <2>5 DEF SameParts, RequestJob
  <2>7. ASSUME NEW post \in {[url |-> << << >> >>, body |-> << << >> >>, headers |-> None],
                             [url |-> capture.url, body |-> capture.body, headers |-> headers]}
        PROVE  Replayed(post, capture) = capture
    <3>1. \A p \in {"url", "body"} : post[p] \in {<< << >> >>, capture[p]}
      OBVIOUS
    <3>2. post.headers \in {None, headers}
      OBVIOUS
    <3> QED
      BY <2>3, <2>6, <3>1, <3>2, ReplayedCapture
  <2>8. Apply(<< >>, "request", capture).msg = capture
    BY NoRules
  <2> QED
    BY <2>2, <2>3, <2>4, <2>7, <2>8, Zenon DEF ReplaySendsTheSame
<1> QED
  BY <1>1, JobTypes, PTL

\* EarlyRefusalIsSeen (proxy.go:349-383): a refusal that comes first and within
\* the window is recognised, for streams, reads and windows of any length.
THEOREM RefusalIsSeen == Spec => []EarlyRefusalIsSeen
<1>1. JobOK => EarlyRefusalIsSeen
  <2> SUFFICES ASSUME JobOK, job.kind = "stream" PROVE EarlyRefusalIsSeen
    BY DEF EarlyRefusalIsSeen
  <2>1. StreamJob
    BY DEF JobOK
  <2>2. PICK s : s = job.stream
    OBVIOUS
  <2>3. /\ (\E i \in EndsOf(s, Refusal) : i <= MaxPeek /\
                \A m \in Content : \A j \in EndsOf(s, m) : i < j)
            => Peek(s, job.cuts) = "refusal"
        /\ Peek(s, job.cuts) = "refusal" => EndsOf(s, Refusal) # {}
    BY <2>1, <2>2, EarlyRefusal DEF StreamJob
  <2> QED
    BY <2>2, <2>3, Zenon DEF EarlyRefusalIsSeen, EndsOf
<1> QED
  BY <1>1, JobTypes, PTL

-----------------------------------------------------------------------------
\* Induction downwards, from the end of a text to its start.
LEMMA Downwards ==
    ASSUME NEW n \in Nat, NEW T,
           \A i \in 1 .. n : (\A j \in i + 1 .. n : j \in T) => i \in T
    PROVE  \A i \in 1 .. n : i \in T
<1> SUFFICES ASSUME NEW k \in 1 .. n, k \notin T PROVE FALSE
  OBVIOUS
<1> DEFINE U == {d \in Nat : d < n /\ n - d \notin T}
<1>1. n - k \in U
  BY DEF U
<1>2. PICK d \in U : \A e \in U : d <= e
  <2>1. U \subseteq Nat /\ U # {}
    BY <1>1
  <2> HIDE DEF U
  <2> QED
    BY <2>1, FirstPosition
<1>3. n - d \in 1 .. n /\ n - d \notin T /\ d \in Nat
  BY <1>2
<1>4. ASSUME NEW j \in (n - d) + 1 .. n PROVE j \in T
  <2>1. n - j \in Nat /\ n - j < d /\ n - j < n /\ n - (n - j) = j
    BY <1>3
  <2>2. n - j \notin U
    BY <1>2, <1>3, <2>1
  <2> QED
    BY <2>1, <2>2
<1> QED
  BY <1>3, <1>4

\* The body of the recursion of RewrittenFrom.
FromHere(r, text, i, f) ==
    IF Occurs(r, text, i) /\ r.word # << >>
    THEN r.replacement \o f[i + Len(r.word)]
    ELSE (IF Occurs(r, text, i) THEN r.replacement ELSE << >>)
         \o (IF i > Len(text) THEN << >> ELSE <<text[i]>> \o f[i + 1])

IsFrom(f, k, r, text) == f = [i \in k .. Len(text) + 1 |-> FromHere(r, text, i, f)]

\* It only looks at what comes after.
LEMMA LooksAhead ==
    ASSUME NEW S, NEW r, r.word \in Seq(S), NEW text \in Seq(S),
           NEW i \in 1 .. Len(text) + 1, NEW f, NEW g,
           \A j \in i + 1 .. Len(text) + 1 : f[j] = g[j]
    PROVE  FromHere(r, text, i, f) = FromHere(r, text, i, g)
<1>1. PICK n \in Nat : n = Len(text)
  BY LenProperties
<1>2. PICK m \in Nat : m = Len(r.word)
  BY LenProperties
<1>3. CASE Occurs(r, text, i) /\ r.word # << >>
  <2>1. m # 0
    BY <1>2, <1>3, EmptySeq
  <2>2. i + m - 1 <= n
    BY <1>1, <1>2, <1>3 DEF Occurs
  <2>3. i + m \in i + 1 .. n + 1
    BY <1>1, <2>1, <2>2
  <2> QED
    BY <1>1, <1>2, <1>3, <2>3 DEF FromHere
<1>4. CASE ~ (Occurs(r, text, i) /\ r.word # << >>)
  <2>1. CASE i > n
    BY <1>1, <1>4, <2>1 DEF FromHere
  <2>2. CASE ~ (i > n)
    <3>1. i + 1 \in i + 1 .. n + 1
      BY <1>1, <2>2
    <3> QED
      BY <1>1, <1>4, <2>2, <3>1 DEF FromHere
  <2> QED
    BY <2>1, <2>2
<1> QED
  BY <1>3, <1>4

\* The recursion of RewrittenFrom defines a function.
LEMMA FromExists ==
    ASSUME NEW S, NEW r, r.word \in Seq(S), NEW text \in Seq(S)
    PROVE  \E f : IsFrom(f, 1, r, text)
<1>1. PICK n \in Nat : n = Len(text) + 1 /\ n >= 1
  BY LenProperties
<1> DEFINE T == {k \in 1 .. n : \E f : IsFrom(f, k, r, text)}
<1>2. ASSUME NEW k \in 1 .. n, \A j \in k + 1 .. n : j \in T PROVE k \in T
  <2>1. PICK f : \A j \in k + 1 .. n : f[j] = FromHere(r, text, j, f)
    <3>1. CASE k = n
      BY <3>1
    <3>2. CASE k # n
      <4>1. k + 1 \in T
        <5>1. k + 1 \in k + 1 .. n
          BY <1>1, <3>2
        <5> HIDE DEF T
        <5> QED
          BY <1>2, <5>1
      <4>2. PICK f : IsFrom(f, k + 1, r, text)
        BY <4>1
      <4> QED
        BY <1>1, <4>2 DEF IsFrom
    <3> QED
      BY <3>1, <3>2
  <2> DEFINE g == [i \in k .. n |-> IF i = k THEN FromHere(r, text, k, f) ELSE f[i]]
  <2>2. \A j \in k + 1 .. n : g[j] = f[j]
    OBVIOUS
  <2>3. ASSUME NEW i \in k .. n PROVE g[i] = FromHere(r, text, i, g)
    <3>1. FromHere(r, text, i, f) = FromHere(r, text, i, g)
      <4> HIDE DEF g
      <4>1. \A j \in i + 1 .. Len(text) + 1 : f[j] = g[j]
        BY <1>1, <2>2
      <4>2. i \in 1 .. Len(text) + 1
        BY <1>1
      <4> QED
        BY <4>1, <4>2, LooksAhead
    <3>2. CASE i = k
      BY <3>1, <3>2
    <3>3. CASE i # k
      BY <2>1, <3>1, <3>3
    <3> QED
      BY <3>2, <3>3
  <2>4. IsFrom(g, k, r, text)
    <3>1. g = [i \in k .. n |-> g[i]]
      OBVIOUS
    <3> HIDE DEF g
    <3> QED
      BY <1>1, <2>3, <3>1 DEF IsFrom
  <2>5. \E h : IsFrom(h, k, r, text)
    BY <2>4
  <2> QED
    BY <2>5
<1> HIDE DEF T
<1>3. \A k \in 1 .. n : k \in T
  BY <1>1, <1>2, Downwards
<1>4. 1 \in T
  BY <1>1, <1>3
<1> QED
  BY <1>4 DEF T

\* The equations of RewrittenFrom.
LEMMA FromEquations ==
    ASSUME NEW S, NEW r, r.word \in Seq(S), NEW text \in Seq(S)
    PROVE  \A i \in 1 .. Len(text) + 1 :
               RewrittenFrom(r, text)[i] = FromHere(r, text, i, RewrittenFrom(r, text))
<1>1. \E f : IsFrom(f, 1, r, text)
  BY FromExists
<1>2. PICK from : from = RewrittenFrom(r, text)
  OBVIOUS
<1>3. from = CHOOSE f : IsFrom(f, 1, r, text)
  BY <1>2, Zenon DEF RewrittenFrom, IsFrom, FromHere
<1>4. IsFrom(from, 1, r, text)
  BY <1>1, <1>3, Zenon
<1> QED
  BY <1>2, <1>4 DEF IsFrom

\* A rule as the response bodies meet it: any word but the empty one, and no
\* anchor.
Plain(r, S) ==
    r.word \in Seq(S) /\ r.word # << >> /\ r.replacement \in Seq(S) /\ ~ r.anchored

\* The m symbols of the word are those of the text, of length n, from i on.
Matches(word, m, text, n, i) ==
    i + m - 1 <= n /\ \A k \in 1 .. m : text[i + k - 1] = word[k]

\* Where a word occurs, symbol by symbol.
LEMMA OccursAt ==
    ASSUME NEW S, NEW r, Plain(r, S), NEW text \in Seq(S), NEW i \in Nat, i >= 1,
           NEW n \in Nat, n = Len(text), NEW m \in Nat, m = Len(r.word)
    PROVE  Occurs(r, text, i) <=> Matches(r.word, m, text, n, i)
<1>1. n = Len(text)
  OBVIOUS
<1>2. m = Len(r.word) /\ m # 0
  BY EmptySeq DEF Plain
<1>3. ASSUME i + m - 1 <= n
      PROVE  SubSeq(text, i, i + m - 1) = r.word <=>
                 \A k \in 1 .. m : text[i + k - 1] = r.word[k]
  <2>1. PICK t : t = SubSeq(text, i, i + m - 1)
    OBVIOUS
  <2>2. \A k \in i .. i + m - 1 : text[k] \in S
    BY <1>1, <1>3, ElementOfSeq
  <2>3. t \in Seq(S) /\ Len(t) = m /\ \A k \in 1 .. m : t[k] = text[i + k - 1]
    <3>1. i + m - 1 \in Int /\ (i + m - 1) - i + 1 = m /\ i <= i + m - 1
      BY <1>2
    <3> QED
      BY <2>1, <2>2, <3>1, SubSeqProperties
  <2>4. r.word \in Seq(S)
    BY DEF Plain
  <2>5. (\A k \in 1 .. m : t[k] = r.word[k]) => t = r.word
    BY <1>2, <2>3, <2>4, SeqEqual
  <2> QED
    BY <2>1, <2>3, <2>5
<1> QED
  BY <1>1, <1>2, <1>3 DEF Occurs, Plain, Matches

\* The recursion of RewrittenFrom for such a rule: where its word occurs, it is
\* replaced.
LEMMA HereMatch ==
    ASSUME NEW r, NEW text, NEW i, NEW f, Occurs(r, text, i), r.word # << >>
    PROVE  FromHere(r, text, i, f) = r.replacement \o f[i + Len(r.word)]
BY Zenon DEF FromHere

\* Where the word does not occur, one symbol is copied.
LEMMA HereCopy ==
    ASSUME NEW r, NEW text, NEW i, NEW f, ~ Occurs(r, text, i), ~ (i > Len(text))
    PROVE  FromHere(r, text, i, f) = << >> \o (<<text[i]>> \o f[i + 1])
BY Zenon DEF FromHere

\* Behind the text there is nothing left.
LEMMA HereEnd ==
    ASSUME NEW r, NEW text, NEW i, NEW f, ~ Occurs(r, text, i), i > Len(text)
    PROVE  FromHere(r, text, i, f) = << >> \o << >>
BY Zenon DEF FromHere

\* f is what a plain rule makes of the text, of length n, from each position
\* on; its word has m symbols.
Rewrites(f, r, m, text, n, S) ==
    /\ f[n + 1] = << >>
    /\ \A i \in 1 .. n + 1 : f[i] \in Seq(S)
    /\ \A i \in 1 .. n :
           IF Occurs(r, text, i)
           THEN i + m \in i + 1 .. n + 1 /\ f[i] = r.replacement \o f[i + m]
           ELSE f[i] = <<text[i]>> \o f[i + 1]

\* What a plain rule makes of the text from a position on.
LEMMA PlainRewrites ==
    ASSUME NEW S, NEW r, Plain(r, S), NEW text \in Seq(S),
           NEW n \in Nat, n = Len(text), NEW m \in Nat, m = Len(r.word),
           NEW f, f = RewrittenFrom(r, text)
    PROVE  Rewrites(f, r, m, text, n, S)
<1>1. n = Len(text)
  OBVIOUS
<1>2. m = Len(r.word) /\ m # 0
  BY EmptySeq DEF Plain
<1>3. \A i \in 1 .. n + 1 : f[i] = FromHere(r, text, i, f)
  BY <1>1, FromEquations DEF Plain
<1>4. \A i \in 1 .. n + 1 : Occurs(r, text, i) => i + m \in i + 1 .. n + 1
  BY <1>1, <1>2 DEF Occurs
<1>5. f[n + 1] = << >>
  <2>1. ~ Occurs(r, text, n + 1)
    BY <1>4
  <2>2. f[n + 1] = << >> \o << >>
    <3>1. n + 1 > Len(text) /\ n + 1 \in 1 .. n + 1
      BY <1>1
    <3> QED
      BY <1>3, <2>1, <3>1, HereEnd
  <2> QED
    BY <2>2
<1>6. ASSUME NEW i \in 1 .. n, ~ Occurs(r, text, i)
      PROVE  f[i] = << >> \o (<<text[i]>> \o f[i + 1])
  <2>1. ~ (i > Len(text))
    BY <1>1
  <2>2. FromHere(r, text, i, f) = << >> \o (<<text[i]>> \o f[i + 1])
    BY <1>6, <2>1, HereCopy
  <2>3. f[i] = FromHere(r, text, i, f)
    <3>1. i \in 1 .. n + 1
      OBVIOUS
    <3> QED
      BY <1>3, <3>1
  <2> QED
    BY <2>2, <2>3, Zenon
<1>7. ASSUME NEW i \in 1 .. n, Occurs(r, text, i)
      PROVE  f[i] = r.replacement \o f[i + m]
  <2>1. i \in 1 .. n + 1
    OBVIOUS
  <2>2. r.word # << >>
    BY DEF Plain
  <2>3. FromHere(r, text, i, f) = r.replacement \o f[i + Len(r.word)]
    BY <1>7, <2>2, HereMatch, Zenon
  <2>4. f[i] = FromHere(r, text, i, f)
    BY <1>3, <2>1
  <2> QED
    BY <1>2, <2>3, <2>4, Zenon
<1>8. \A i \in 1 .. n : <<text[i]>> \in Seq(S)
  BY <1>1, ElementOfSeq
<1> DEFINE T == {i \in 1 .. n + 1 : f[i] \in Seq(S)}
<1>9. ASSUME NEW i \in 1 .. n + 1, \A j \in i + 1 .. n + 1 : j \in T PROVE i \in T
  <2>1. CASE i = n + 1
    <3>1. << >> \in Seq(S)
      OBVIOUS
    <3> QED
      BY <1>5, <2>1, <3>1
  <2>2. CASE i # n + 1 /\ Occurs(r, text, i)
    <3>1. f[i + m] \in Seq(S)
      BY <1>4, <1>9, <2>2
    <3>2. r.replacement \in Seq(S)
      BY DEF Plain
    <3>3. r.replacement \o f[i + m] \in Seq(S)
      BY <3>1, <3>2, ConcatProperties
    <3>4. i \in 1 .. n
      BY <2>2
    <3>5. f[i] = r.replacement \o f[i + m]
      BY <1>7, <2>2, <3>4
    <3> QED
      BY <3>3, <3>5
  <2>3. CASE i # n + 1 /\ ~ Occurs(r, text, i)
    <3>1. i \in 1 .. n /\ i + 1 \in i + 1 .. n + 1
      BY <2>3
    <3>2. f[i + 1] \in Seq(S)
      BY <1>9, <3>1
    <3>3. << >> \in Seq(S)
      OBVIOUS
    <3>4. <<text[i]>> \o f[i + 1] \in Seq(S)
      BY <1>8, <3>1, <3>2, ConcatProperties
    <3>5. << >> \o (<<text[i]>> \o f[i + 1]) \in Seq(S)
      BY <3>3, <3>4, ConcatProperties
    <3> QED
      BY <1>6, <2>3, <3>1, <3>5
  <2> QED
    BY <2>1, <2>2, <2>3
<1>10. n + 1 \in Nat
  OBVIOUS
<1> HIDE DEF T
<1>11. \A i \in 1 .. n + 1 : i \in T
  BY <1>9, <1>10, Downwards
<1>12. \A i \in 1 .. n + 1 : f[i] \in Seq(S)
  BY <1>11 DEF T
<1>13. ASSUME NEW i \in 1 .. n, ~ Occurs(r, text, i)
       PROVE  f[i] = <<text[i]>> \o f[i + 1]
  <2>1. i + 1 \in 1 .. n + 1
    OBVIOUS
  <2>2. <<text[i]>> \o f[i + 1] \in Seq(S)
    BY <1>8, <1>12, <2>1, ConcatProperties
  <2> QED
    BY <1>6, <1>13, <2>2, ConcatEmptySeq
<1>14. \A i \in 1 .. n : i \in 1 .. n + 1
  OBVIOUS
<1> QED
  BY <1>4, <1>5, <1>7, <1>12, <1>13, <1>14 DEF Rewrites

\* The symbols of a concatenation.
LEMMA Joined ==
    ASSUME NEW S, NEW s \in Seq(S), NEW t \in Seq(S)
    PROVE  /\ s \o t \in Seq(S) /\ Len(s \o t) = Len(s) + Len(t)
           /\ \A i \in 1 .. Len(s) : (s \o t)[i] = s[i]
           /\ \A j \in 1 .. Len(t) : (s \o t)[Len(s) + j] = t[j]
<1>1. PICK a \in Nat : a = Len(s)
  BY LenProperties
<1>2. PICK b \in Nat : b = Len(t)
  BY LenProperties
<1>3. PICK u : u = s \o t
  OBVIOUS
<1>4. u \in Seq(S) /\ Len(u) = a + b
  BY <1>1, <1>2, <1>3, ConcatProperties
<1>5. \A i \in 1 .. a + b : u[i] = IF i <= a THEN s[i] ELSE t[i - a]
  BY <1>1, <1>2, <1>3, ConcatProperties
<1>6. \A i \in 1 .. a : u[i] = s[i]
  BY <1>5
<1>7. \A j \in 1 .. b : u[a + j] = t[j]
  <2> TAKE j \in 1 .. b
  <2>1. a + j \in 1 .. a + b /\ ~ (a + j <= a) /\ (a + j) - a = j
    OBVIOUS
  <2> QED
    BY <1>5, <2>1
<1> QED
  BY <1>1, <1>2, <1>3, <1>4, <1>6, <1>7

\* Behind the cut a word occurs where it occurs in the second text.
LEMMA OccursBehind ==
    ASSUME NEW S, NEW r, Plain(r, S), NEW s \in Seq(S), NEW t \in Seq(S),
           NEW j \in 1 .. Len(t)
    PROVE  Occurs(r, s \o t, Len(s) + j) <=> Occurs(r, t, j)
<1>1. PICK a \in Nat : a = Len(s)
  BY LenProperties
<1>2. PICK b \in Nat : b = Len(t)
  BY LenProperties
<1>3. PICK m \in Nat : m = Len(r.word)
  BY LenProperties DEF Plain
<1>4. PICK u : u = s \o t
  OBVIOUS
<1>5. u \in Seq(S) /\ Len(u) = a + b /\ \A i \in 1 .. b : u[a + i] = t[i]
  BY <1>1, <1>2, <1>4, Joined
<1>6. j \in 1 .. b /\ j \in Nat /\ j >= 1 /\ a + j \in Nat /\ a + j >= 1
  BY <1>2
<1>7. Occurs(r, u, a + j) <=> Matches(r.word, m, u, a + b, a + j)
  <2>1. a + b \in Nat
    OBVIOUS
  <2> QED
    BY <1>3, <1>5, <1>6, <2>1, OccursAt
<1>8. Occurs(r, t, j) <=> Matches(r.word, m, t, b, j)
  BY <1>2, <1>3, <1>6, OccursAt
<1>9. (a + j) + m - 1 <= a + b <=> j + m - 1 <= b
  BY <1>6
<1>10. ASSUME j + m - 1 <= b, NEW k \in 1 .. m
       PROVE  u[(a + j) + k - 1] = t[j + k - 1]
  <2>1. j + k - 1 \in 1 .. b /\ (a + j) + k - 1 = a + (j + k - 1)
    BY <1>6, <1>10
  <2> QED
    BY <1>5, <2>1
<1> QED
  BY <1>1, <1>4, <1>7, <1>8, <1>9, <1>10 DEF Matches

\* Before the cut it occurs where it occurs in the first text, unless a match
\* lies across the cut.
LEMMA OccursBefore ==
    ASSUME NEW S, NEW r, Plain(r, S), NEW s \in Seq(S), NEW t \in Seq(S),
           ~ Straddles(r, s, t), NEW i \in 1 .. Len(s)
    PROVE  Occurs(r, s \o t, i) <=> Occurs(r, s, i)
<1>1. PICK a \in Nat : a = Len(s)
  BY LenProperties
<1>2. PICK b \in Nat : b = Len(t)
  BY LenProperties
<1>3. PICK m \in Nat : m = Len(r.word)
  BY LenProperties DEF Plain
<1>4. PICK u : u = s \o t
  OBVIOUS
<1>5. u \in Seq(S) /\ Len(u) = a + b /\ \A k \in 1 .. a : u[k] = s[k]
  BY <1>1, <1>2, <1>4, Joined
<1>6. i \in 1 .. a /\ i \in Nat /\ i >= 1
  BY <1>1
<1>7. Occurs(r, u, i) <=> Matches(r.word, m, u, a + b, i)
  <2>1. a + b \in Nat
    OBVIOUS
  <2> QED
    BY <1>3, <1>5, <1>6, <2>1, OccursAt
<1>8. Occurs(r, s, i) <=> Matches(r.word, m, s, a, i)
  BY <1>1, <1>3, <1>6, OccursAt
<1>9. Occurs(r, u, i) => ~ (i + m - 1 > a)
  BY <1>1, <1>3, <1>4 DEF Straddles
<1>10. ASSUME i + m - 1 <= a
       PROVE  i + m - 1 <= a + b /\ \A k \in 1 .. m : u[i + k - 1] = s[i + k - 1]
  <2>1. i + m - 1 <= a + b
    BY <1>6, <1>10
  <2>2. ASSUME NEW k \in 1 .. m PROVE u[i + k - 1] = s[i + k - 1]
    <3>1. i + k - 1 \in 1 .. a
      BY <1>6, <1>10
    <3> QED
      BY <1>5, <3>1
  <2> QED
    BY <2>1, <2>2
<1>11. i + m - 1 <= a \/ i + m - 1 > a
  BY <1>6
<1> QED
  BY <1>4, <1>7, <1>8, <1>9, <1>10, <1>11 DEF Matches

\* From d on, u is the text t, of length n, for the rule.
Agree(r, u, d, t, n) ==
    \A j \in 1 .. n : u[d + j] = t[j] /\ (Occurs(r, u, d + j) <=> Occurs(r, t, j))

\* Behind the cut the rule makes the same of the concatenation as of the second
\* text.
LEMMA RewritesBehind ==
    ASSUME NEW S, NEW r, NEW m \in Nat, NEW a \in Nat, NEW b \in Nat, NEW u, NEW t,
           NEW f, Rewrites(f, r, m, u, a + b, S), NEW h, Rewrites(h, r, m, t, b, S),
           Agree(r, u, a, t, b)
    PROVE  f[a + 1] = h[1]
<1> USE DEF Agree
<1> DEFINE T == {j \in 1 .. b + 1 : f[a + j] = h[j]}
<1>1. ASSUME NEW j \in 1 .. b + 1, \A k \in j + 1 .. b + 1 : k \in T PROVE j \in T
  <2>1. CASE j = b + 1
    <3>1. a + j = (a + b) + 1
      BY <2>1
    <3>2. f[(a + b) + 1] = << >> /\ h[b + 1] = << >>
      BY DEF Rewrites
    <3> QED
      BY <2>1, <3>1, <3>2
  <2>2. CASE j # b + 1
    <3>1. j \in 1 .. b /\ a + j \in 1 .. a + b
      BY <2>2
    <3>2. CASE Occurs(r, t, j)
      <4>1. j + m \in j + 1 .. b + 1 /\ h[j] = r.replacement \o h[j + m]
        BY <3>1, <3>2 DEF Rewrites
      <4>2. f[a + j] = r.replacement \o f[(a + j) + m]
        BY <3>1, <3>2 DEF Rewrites
      <4>3. f[a + (j + m)] = h[j + m] /\ (a + j) + m = a + (j + m)
        BY <1>1, <4>1
      <4> QED
        BY <4>1, <4>2, <4>3
    <3>3. CASE ~ Occurs(r, t, j)
      <4>1. h[j] = <<t[j]>> \o h[j + 1]
        BY <3>1, <3>3 DEF Rewrites
      <4>2. f[a + j] = <<u[a + j]>> \o f[(a + j) + 1]
        BY <3>1, <3>3 DEF Rewrites
      <4>3. j + 1 \in j + 1 .. b + 1
        BY <3>1
      <4>4. f[a + (j + 1)] = h[j + 1] /\ (a + j) + 1 = a + (j + 1)
        BY <1>1, <4>3
      <4> QED
        BY <3>1, <4>1, <4>2, <4>4
    <3> QED
      BY <3>2, <3>3
  <2> QED
    BY <2>1, <2>2
<1>2. b + 1 \in Nat
  OBVIOUS
<1> HIDE DEF T
<1>3. \A j \in 1 .. b + 1 : j \in T
  BY <1>1, <1>2, Downwards
<1>4. 1 \in 1 .. b + 1
  OBVIOUS
<1> QED
  BY <1>3, <1>4 DEF T

\* What is put in front of a text that ends in z ends in z.
IsJoined(u, s, t) == u = s \o t

\* Concatenation is associative, in the terms of IsJoined.
LEMMA InFront ==
    ASSUME NEW S, NEW x \in Seq(S), NEW y \in Seq(S), NEW z \in Seq(S),
           NEW w, IsJoined(w, y, z), NEW f, IsJoined(f, x, w), NEW g, IsJoined(g, x, y)
    PROVE  IsJoined(f, g, z)
<1>1. (x \o y) \o z = x \o (y \o z)
  BY ConcatAssociative
<1> QED
  BY <1>1, Zenon DEF IsJoined

\* Before the cut it makes the same as of the first text, and then goes on.
BeforeCut(S, r, m, u, n, s, a, f, g, rest) ==
    /\ r.replacement \in Seq(S) /\ m \in Nat /\ n \in Nat /\ a \in Nat /\ a <= n
    /\ s \in Seq(S) /\ a = Len(s) /\ Agree(r, u, 0, s, a)
    /\ Rewrites(f, r, m, u, n, S) /\ Rewrites(g, r, m, s, a, S)
    /\ rest = f[a + 1]

\* What is made of a joint text begins with what is made of its first half.
LEMMA RewritesBefore ==
    ASSUME NEW S, NEW r, NEW m, NEW u, NEW n, NEW s, NEW a, NEW f, NEW g, NEW rest,
           BeforeCut(S, r, m, u, n, s, a, f, g, rest)
    PROVE  f[1] = g[1] \o rest
<1>a. /\ r.replacement \in Seq(S) /\ m \in Nat /\ n \in Nat /\ a \in Nat /\ a <= n
      /\ s \in Seq(S) /\ a = Len(s) /\ Agree(r, u, 0, s, a)
      /\ Rewrites(f, r, m, u, n, S) /\ Rewrites(g, r, m, s, a, S)
      /\ rest = f[a + 1]
  BY DEF BeforeCut
<1> USE <1>a
<1>b. rest \in Seq(S)
  <2>1. a + 1 \in 1 .. n + 1
    OBVIOUS
  <2> QED
    BY <2>1 DEF Rewrites
<1> USE <1>b
<1> DEFINE T == {i \in 1 .. a + 1 : f[i] = g[i] \o rest}
<1>0. \A i \in 1 .. a : u[i] = s[i] /\ (Occurs(r, u, i) <=> Occurs(r, s, i))
  <2> TAKE i \in 1 .. a
  <2>1. 0 + i = i
    OBVIOUS
  <2> QED
    BY <2>1 DEF Agree
<1>1. ASSUME NEW i \in 1 .. a + 1, \A k \in i + 1 .. a + 1 : k \in T PROVE i \in T
  <2>1. CASE i = a + 1
    <3>1. g[i] = << >>
      BY <2>1 DEF Rewrites
    <3>2. << >> \o rest = rest
      BY ConcatEmptySeq
    <3> QED
      BY <2>1, <3>1, <3>2
  <2>2. CASE i # a + 1
    <3>1. i \in 1 .. a /\ i \in 1 .. n
      BY <2>2
    <3>2. CASE Occurs(r, s, i)
      <4>1. i + m \in i + 1 .. a + 1 /\ g[i] = r.replacement \o g[i + m]
        BY <3>1, <3>2 DEF Rewrites
      <4>2. f[i] = r.replacement \o f[i + m]
        BY <1>0, <3>1, <3>2 DEF Rewrites
      <4>3. f[i + m] = g[i + m] \o rest
        BY <1>1, <4>1
      <4>4. g[i + m] \in Seq(S)
        BY <4>1 DEF Rewrites
      <4> QED
        <5>1. PICK y \in Seq(S) : y = g[i + m]
          BY <4>4
        <5>2. PICK w : w = f[i + m]
          OBVIOUS
        <5>3. IsJoined(w, y, rest)
          BY <4>3, <5>1, <5>2, Zenon DEF IsJoined
        <5>4. IsJoined(f[i], r.replacement, w) /\ IsJoined(g[i], r.replacement, y)
          BY <4>1, <4>2, <5>1, <5>2, Zenon DEF IsJoined
        <5>5. IsJoined(f[i], g[i], rest)
          BY <5>3, <5>4, InFront
        <5> QED
          BY <5>5 DEF IsJoined
    <3>3. CASE ~ Occurs(r, s, i)
      <4>1. g[i] = <<s[i]>> \o g[i + 1]
        BY <3>1, <3>3 DEF Rewrites
      <4>2. f[i] = <<u[i]>> \o f[i + 1]
        BY <1>0, <3>1, <3>3 DEF Rewrites
      <4>3. i + 1 \in i + 1 .. a + 1
        BY <3>1
      <4>4. f[i + 1] = g[i + 1] \o rest
        BY <1>1, <4>3
      <4>5. g[i + 1] \in Seq(S)
        BY <4>3 DEF Rewrites
      <4>6. <<s[i]>> \in Seq(S)
        BY <3>1, ElementOfSeq
      <4>7. u[i] = s[i]
        BY <1>0, <3>1
      <4> QED
        <5>1. PICK y \in Seq(S) : y = g[i + 1]
          BY <4>5
        <5>2. PICK w : w = f[i + 1]
          OBVIOUS
        <5>3. PICK x \in Seq(S) : x = <<s[i]>>
          BY <4>6
        <5>4. IsJoined(w, y, rest)
          BY <4>4, <5>1, <5>2, Zenon DEF IsJoined
        <5>5. IsJoined(f[i], x, w) /\ IsJoined(g[i], x, y)
          BY <4>1, <4>2, <4>7, <5>1, <5>2, <5>3, Zenon DEF IsJoined
        <5>6. IsJoined(f[i], g[i], rest)
          BY <5>4, <5>5, InFront
        <5> QED
          BY <5>6 DEF IsJoined
    <3> QED
      BY <3>2, <3>3
  <2> QED
    BY <2>1, <2>2
<1>2. a + 1 \in Nat
  OBVIOUS
<1> HIDE DEF T
<1>3. \A i \in 1 .. a + 1 : i \in T
  BY <1>1, <1>2, Downwards
<1>4. 1 \in 1 .. a + 1
  OBVIOUS
<1> QED
  BY <1>3, <1>4 DEF T

\* Where no match lies across the cut, the concatenation is rewritten text by
\* text.
LEMMA Uncut ==
    ASSUME NEW S, NEW r, Plain(r, S), NEW s \in Seq(S), NEW t \in Seq(S),
           ~ Straddles(r, s, t)
    PROVE  Rewritten(r, s \o t) = Rewritten(r, s) \o Rewritten(r, t)
<1>1. PICK a \in Nat : a = Len(s)
  BY LenProperties
<1>2. PICK b \in Nat : b = Len(t)
  BY LenProperties
<1>3. PICK m \in Nat : m = Len(r.word)
  BY LenProperties DEF Plain
<1>4. PICK u : u = s \o t
  OBVIOUS
<1>5. PICK f : f = RewrittenFrom(r, u)
  OBVIOUS
<1>6. PICK g : g = RewrittenFrom(r, s)
  OBVIOUS
<1>7. PICK h : h = RewrittenFrom(r, t)
  OBVIOUS
<1>8. /\ u \in Seq(S) /\ Len(u) = a + b /\ a + b \in Nat
      /\ \A i \in 1 .. a : u[i] = s[i]
      /\ \A j \in 1 .. b : u[a + j] = t[j]
  BY <1>1, <1>2, <1>4, Joined
<1>9. Rewrites(f, r, m, u, a + b, S)
  BY <1>3, <1>5, <1>8, PlainRewrites
<1>10. Rewrites(g, r, m, s, a, S)
  BY <1>1, <1>3, <1>6, PlainRewrites
<1>11. Rewrites(h, r, m, t, b, S)
  BY <1>2, <1>3, <1>7, PlainRewrites
<1>12. Agree(r, u, 0, s, a)
  <2>1. \A i \in 1 .. a : Occurs(r, u, i) <=> Occurs(r, s, i)
    BY <1>1, <1>4, OccursBefore
  <2>2. \A i \in 1 .. a : 0 + i = i
    OBVIOUS
  <2> QED
    BY <1>8, <2>1, <2>2 DEF Agree
<1>13. Agree(r, u, a, t, b)
  <2>1. \A j \in 1 .. b : Occurs(r, u, a + j) <=> Occurs(r, t, j)
    BY <1>1, <1>2, <1>4, OccursBehind
  <2> QED
    BY <1>8, <2>1 DEF Agree
<1>14. f[a + 1] = h[1]
  BY <1>9, <1>11, <1>13, RewritesBehind
<1>15. r.replacement \in Seq(S) /\ a <= a + b
  BY DEF Plain
<1>16. PICK rest : rest = f[a + 1]
  OBVIOUS
<1>17. BeforeCut(S, r, m, u, a + b, s, a, f, g, rest)
  BY <1>1, <1>8, <1>9, <1>10, <1>12, <1>15, <1>16 DEF BeforeCut
<1>18. f[1] = g[1] \o rest
  BY <1>17, RewritesBefore
<1> QED
  BY <1>4, <1>5, <1>6, <1>7, <1>14, <1>16, <1>18 DEF Rewritten

\* A plain rule makes a text of a text, and nothing of nothing.
LEMMA RewrittenText ==
    ASSUME NEW S, NEW r, Plain(r, S), NEW text \in Seq(S)
    PROVE  Rewritten(r, text) \in Seq(S) /\ (text = << >> => Rewritten(r, text) = << >>)
<1>1. PICK n \in Nat : n = Len(text)
  BY LenProperties
<1>2. PICK m \in Nat : m = Len(r.word)
  BY LenProperties DEF Plain
<1>3. PICK f : f = RewrittenFrom(r, text)
  OBVIOUS
<1>4. Rewrites(f, r, m, text, n, S)
  BY <1>1, <1>2, <1>3, PlainRewrites
<1>5. f[1] \in Seq(S)
  <2>1. 1 \in 1 .. n + 1
    OBVIOUS
  <2> QED
    BY <1>4, <2>1 DEF Rewrites
<1>6. text = << >> => f[1] = << >>
  <2>1. text = << >> => n + 1 = 1
    BY <1>1
  <2> QED
    BY <1>4, <2>1 DEF Rewrites
<1> QED
  BY <1>3, <1>5, <1>6 DEF Rewritten

\* A rule that is meant for response bodies.
ChunkRule(r, S) ==
    Plain(r, S) /\ Active(r, "response") /\ r.part = "body"

\* It rewrites the one text of a body, be it empty or not.
LEMMA ChunkValues ==
    ASSUME NEW S, NEW r, ChunkRule(r, S), NEW x \in Seq(S)
    PROVE  Values(r, <<x>>) = <<Rewritten(r, x)>>
<1>1. CASE x = << >>
  <2>1. Rewritten(r, x) = << >>
    BY <1>1, RewrittenText DEF ChunkRule
  <2> QED
    BY <1>1, <2>1 DEF Values, ChunkRule
<1>2. CASE x # << >>
  <2>1. <<x>> # << << >> >>
    BY <1>2
  <2>2. Values(r, <<x>>) = [i \in DOMAIN <<x>> |-> Rewritten(r, <<x>>[i])]
    BY <2>1 DEF Values
  <2>3. DOMAIN <<x>> = 1 .. 1 /\ <<x>>[1] = x
    OBVIOUS
  <2>4. [i \in 1 .. 1 |-> Rewritten(r, <<x>>[i])] = <<Rewritten(r, x)>>
    BY <2>3
  <2> QED
    BY <2>2, <2>3, <2>4
<1> QED
  BY <1>1, <1>2

\* The message is the body x, as ApplyResponseBody has it.
IsChunk(d, x) == DOMAIN d.msg = {"body"} /\ d.msg["body"] = <<x>>

\* One round of the loop over the rules, for a chunk.
LEMMA ChunkRound ==
    ASSUME NEW S, NEW r, ChunkRule(r, S), NEW x \in Seq(S), NEW d, IsChunk(d, x)
    PROVE  IsChunk(Round(d, r, "response"), Rewritten(r, x))
<1>1. PICK e : e = Round(d, r, "response")
  OBVIOUS
<1>2. PICK p : p = "body"
  OBVIOUS
<1>3. DOMAIN d.msg = {p} /\ d.msg[p] = <<x>>
  BY <1>2 DEF IsChunk
<1>4. Active(r, "response") /\ r.part = p
  BY <1>2 DEF ChunkRule
<1>5. /\ DOMAIN e.msg = DOMAIN d.msg
      /\ \A q \in DOMAIN d.msg : e.msg[q] =
             IF Active(r, "response") /\ r.part = q THEN Values(r, d.msg[q]) ELSE d.msg[q]
  BY <1>1, RoundParts
<1>6. e.msg[p] = Values(r, d.msg[p])
  BY <1>3, <1>4, <1>5
<1>7. Values(r, <<x>>) = <<Rewritten(r, x)>>
  BY ChunkValues
<1>8. e.msg[p] = <<Rewritten(r, x)>> /\ DOMAIN e.msg = {p}
  BY <1>3, <1>5, <1>6, <1>7, Zenon
<1> QED
  BY <1>1, <1>2, <1>8 DEF IsChunk

\* The texts of a chunk, rule by rule: y[i] is what i rules have made of it.
ChunkTexts(y, n, rs, S, c) ==
    /\ y[0] = c
    /\ \A i \in 0 .. n : y[i] \in Seq(S)
    /\ \A i \in 1 .. n : y[i] = Rewritten(rs[i], y[i - 1])

\* The states of the loop over the rules are the texts of a chunk.
LEMMA TextsOfChunk ==
    ASSUME NEW S, NEW R, NEW rs \in Seq(R), \A r \in R : ChunkRule(r, S),
           NEW n \in Nat, n = Len(rs), NEW c \in Seq(S),
           NEW f, f = Rounds(rs, "response", [body |-> <<c>>]),
           NEW y, y = [i \in 0 .. n |-> f[i].msg.body[1]]
    PROVE  ChunkTexts(y, n, rs, S, c)
<1>1. PICK msg : msg = [body |-> <<c>>]
  OBVIOUS
<1>2. DOMAIN msg = {"body"} /\ msg["body"] = <<c>>
  BY <1>1
<1>3. f[0] = Start(msg) /\ \A i \in 1 .. n : f[i] = Round(f[i - 1], rs[i], "response")
  BY <1>1, RoundsEquations
<1>4. \A i \in 1 .. n : ChunkRule(rs[i], S)
  BY ElementOfSeq
<1>5. ASSUME NEW i \in 0 .. n, NEW x, IsChunk(f[i], x) PROVE y[i] = x
  BY <1>5 DEF IsChunk
<1>6. IsChunk(f[0], c)
  BY <1>2, <1>3 DEF IsChunk, Start
<1> DEFINE One(i) == IsChunk(f[i], y[i]) /\ y[i] \in Seq(S)
           T == {i \in Nat : i <= n => One(i)}
<1>7. y[0] = c
  <2>1. 0 \in 0 .. n
    OBVIOUS
  <2> HIDE DEF One, T
  <2> QED
    BY <1>5, <1>6, <2>1
<1>8. One(0)
  BY <1>6, <1>7
<1>9. ASSUME NEW i \in Nat, i + 1 <= n, One(i)
      PROVE  One(i + 1) /\ y[i + 1] = Rewritten(rs[i + 1], y[i])
  <2>1. i + 1 \in 1 .. n /\ i + 1 \in 0 .. n /\ (i + 1) - 1 = i
    BY <1>9
  <2>2. PICK k \in 1 .. n : k = i + 1 /\ k \in 0 .. n
    BY <2>1
  <2>3. PICK x \in Seq(S) : x = y[i]
    BY <1>9
  <2>4. ChunkRule(rs[k], S) /\ IsChunk(f[i], x)
    BY <1>4, <1>9, <2>3
  <2>5. f[k] = Round(f[i], rs[k], "response")
    BY <1>3, <2>1, <2>2
  <2>6. IsChunk(f[k], Rewritten(rs[k], x))
    BY <2>4, <2>5, ChunkRound
  <2>7. y[k] = Rewritten(rs[k], x)
    BY <1>5, <2>2, <2>6
  <2>8. Rewritten(rs[k], x) \in Seq(S)
    BY <2>4, RewrittenText DEF ChunkRule
  <2> QED
    BY <2>2, <2>3, <2>6, <2>7, <2>8
<1> HIDE DEF One
<1>10. 0 \in T
  BY <1>8
<1>11. ASSUME NEW i \in Nat, i \in T PROVE i + 1 \in T
  <2>1. i + 1 <= n => One(i + 1)
    <3> SUFFICES ASSUME i + 1 <= n PROVE One(i + 1)
      OBVIOUS
    <3>1. One(i)
      BY <1>11
    <3> QED
      BY <1>9, <3>1
  <2> QED
    BY <2>1
<1> HIDE DEF T
<1>12. \A i \in Nat : i \in T
  BY <1>10, <1>11, Inductive
<1>13. \A i \in 0 .. n : One(i)
  BY <1>12 DEF T
<1>14. \A i \in 0 .. n : y[i] \in Seq(S)
  BY <1>13 DEF One
<1>15. ASSUME NEW i \in 1 .. n PROVE y[i] = Rewritten(rs[i], y[i - 1])
  <2>1. PICK k \in Nat : k = i - 1
    OBVIOUS
  <2>2. k + 1 = i /\ k + 1 <= n /\ k \in 0 .. n
    BY <2>1
  <2>3. One(k)
    BY <1>13, <2>2
  <2>4. y[k + 1] = Rewritten(rs[k + 1], y[k])
    BY <1>9, <2>2, <2>3
  <2> QED
    BY <2>1, <2>2, <2>4
<1> QED
  BY <1>7, <1>14, <1>15 DEF ChunkTexts

\* The first k elements of a sequence.
LEMMA FirstElements ==
    ASSUME NEW R, NEW rs \in Seq(R), NEW k \in 0 .. Len(rs), NEW qs, qs = SubSeq(rs, 1, k)
    PROVE  qs \in Seq(R) /\ Len(qs) = k /\ \A i \in 1 .. k : qs[i] = rs[i]
<1>1. \A i \in 1 .. k : rs[i] \in R
  BY ElementOfSeq
<1>2. CASE k = 0
  BY <1>2, SubSeqProperties, EmptySeq
<1>3. CASE k # 0
  <2>1. \A i \in 1 .. k : (1 + i) - 1 = i
    OBVIOUS
  <2>2. 1 \in Int /\ k \in Int /\ 1 <= k + 1 /\ (k - 1) + 1 = k
    OBVIOUS
  <2>3. qs \in Seq(R) /\ Len(qs) = k
    BY <1>1, <1>3, <2>2, SubSeqProperties
  <2>4. \A i \in 1 .. k : qs[i] = rs[(1 + i) - 1]
    BY <1>1, <1>3, <2>2, <2>3, SubSeqProperties
  <2> QED
    BY <2>1, <2>3, <2>4
<1> QED
  BY <1>2, <1>3

\* What the first rules of a list do is what a list of them does.
FirstRules(qs, k, rs, R) == rs \in Seq(R) /\ k \in 0 .. Len(rs) /\ qs = SubSeq(rs, 1, k)

\* After k rules it is in the same state.
LEMMA PrefixRounds ==
    ASSUME NEW R, NEW rs, NEW k, NEW qs, FirstRules(qs, k, rs, R), NEW phase, NEW msg
    PROVE  Len(qs) = k /\ Rounds(qs, phase, msg)[k] = Rounds(rs, phase, msg)[k]
<1>a. rs \in Seq(R) /\ k \in 0 .. Len(rs) /\ qs = SubSeq(rs, 1, k)
  BY DEF FirstRules
<1>b. PICK n \in Nat : n = Len(rs)
  BY <1>a, LenProperties
<1>c. PICK f : f = Rounds(rs, phase, msg)
  OBVIOUS
<1>d. PICK g : g = Rounds(qs, phase, msg)
  OBVIOUS
<1> USE <1>a, <1>b, <1>c, <1>d
<1>1. qs \in Seq(R) /\ Len(qs) = k /\ \A i \in 1 .. k : qs[i] = rs[i]
  BY FirstElements
<1>2. f[0] = Start(msg) /\ \A i \in 1 .. n : f[i] = Round(f[i - 1], rs[i], phase)
  BY RoundsEquations
<1>3. g[0] = Start(msg) /\ \A i \in 1 .. k : g[i] = Round(g[i - 1], qs[i], phase)
  <2>1. qs \in Seq(R)
    BY <1>1
  <2>2. /\ g[0] = Start(msg)
        /\ \A i \in 1 .. Len(qs) : g[i] = Round(g[i - 1], qs[i], phase)
    BY <2>1, RoundsEquations
  <2> QED
    BY <1>1, <2>2
<1> DEFINE T == {i \in Nat : i <= k => g[i] = f[i]}
<1>4. 0 \in T
  BY <1>2, <1>3
<1>5. ASSUME NEW i \in Nat, i \in T PROVE i + 1 \in T
  <2>1. CASE i + 1 <= k
    <3>1. i + 1 \in 1 .. k /\ i + 1 \in 1 .. n /\ (i + 1) - 1 = i
      BY <2>1
    <3>2. f[i] = g[i]
      BY <1>5, <2>1
    <3> QED
      BY <1>1, <1>2, <1>3, <3>1, <3>2
  <2> QED
    BY <2>1
<1> HIDE DEF T
<1>6. \A i \in Nat : i \in T
  BY <1>4, <1>5, Inductive
<1> QED
  BY <1>1, <1>6 DEF T

\* The text that the first k rules make of a chunk, and what the loop holds
\* after each rule.
OutOf(rs, k, c) == ApplyResponseBody(SubSeq(rs, 1, k), c)

ChunkRounds(rs, c) == Rounds(rs, "response", [body |-> <<c>>])

\* The two agree.
LEMMA ChunkOut ==
    ASSUME NEW R, NEW rs \in Seq(R), NEW k \in 0 .. Len(rs), NEW c
    PROVE  OutOf(rs, k, c) = ChunkRounds(rs, c)[k].msg.body[1]
<1>1. PICK qs : qs = SubSeq(rs, 1, k)
  OBVIOUS
<1>2. FirstRules(qs, k, rs, R)
  BY <1>1 DEF FirstRules
<1>3. \A phase, msg : Len(qs) = k /\ Rounds(qs, phase, msg)[k] = Rounds(rs, phase, msg)[k]
  BY <1>2, PrefixRounds
<1>4. ChunkRounds(qs, c)[k] = ChunkRounds(rs, c)[k]
  BY <1>3, Zenon DEF ChunkRounds
<1>5. ApplyResponseBody(qs, c) = ChunkRounds(qs, c)[Len(qs)].msg.body[1]
  BY Zenon DEF ApplyResponseBody, Apply, ChunkRounds
<1> QED
  BY <1>1, <1>3, <1>4, <1>5, Zenon DEF OutOf

\* Of n plain rules, none has a match across the cut between its texts.
Clean(rs, n, S, x, y) ==
    \A i \in 1 .. n : Plain(rs[i], S) /\ ~ Straddles(rs[i], x[i - 1], y[i - 1])

\* Rule by rule, the texts of the two chunks are those of the whole, where no
\* match lies across the cut.
ThreeTexts(x, y, z, n, rs, S, s, t) ==
    /\ n \in Nat /\ Clean(rs, n, S, x, y)
    /\ ChunkTexts(x, n, rs, S, s) /\ ChunkTexts(y, n, rs, S, t)
    /\ ChunkTexts(z, n, rs, S, s \o t)

\* Then, rule by rule, the texts of the joint chunk are those of its halves,
\* joined.
LEMMA ChunksJoin ==
    ASSUME NEW S, NEW n, NEW rs, NEW s, NEW t, NEW x, NEW y, NEW z,
           ThreeTexts(x, y, z, n, rs, S, s, t)
    PROVE  \A i \in 0 .. n : IsJoined(z[i], x[i], y[i])
<1>0. /\ n \in Nat /\ Clean(rs, n, S, x, y)
      /\ ChunkTexts(x, n, rs, S, s) /\ ChunkTexts(y, n, rs, S, t)
      /\ ChunkTexts(z, n, rs, S, s \o t)
  BY DEF ThreeTexts
<1> USE <1>0
<1> DEFINE Joint(i) == z[i] = x[i] \o y[i]
           T == {i \in Nat : i <= n => Joint(i)}
<1>1. 0 \in T
  BY DEF ChunkTexts
<1>2. ASSUME NEW i \in Nat, i \in T PROVE i + 1 \in T
  <2>1. ASSUME i + 1 <= n PROVE Joint(i + 1)
    <3>1. PICK k \in 1 .. n : k = i + 1 /\ k - 1 = i
      BY <2>1
    <3>2. PICK a \in Seq(S) : a = x[i]
      BY <2>1 DEF ChunkTexts
    <3>3. PICK b \in Seq(S) : b = y[i]
      BY <2>1 DEF ChunkTexts
    <3>4. z[i] = a \o b
      <4>1. i <= n
        BY <2>1
      <4>2. Joint(i)
        <5> HIDE DEF Joint
        <5> QED
          BY <1>2, <4>1
      <4> QED
        BY <3>2, <3>3, <4>2, Zenon
    <3>5. ~ Straddles(rs[k], a, b) /\ Plain(rs[k], S)
      BY <3>1, <3>2, <3>3 DEF Clean
    <3>6. Rewritten(rs[k], a \o b) = Rewritten(rs[k], a) \o Rewritten(rs[k], b)
      BY <3>5, Uncut
    <3>7. /\ x[k] = Rewritten(rs[k], a) /\ y[k] = Rewritten(rs[k], b)
          /\ z[k] = Rewritten(rs[k], z[i])
      BY <3>1, <3>2, <3>3 DEF ChunkTexts
    <3>8. z[k] = x[k] \o y[k]
      BY <3>4, <3>6, <3>7
    <3> QED
      BY <3>1, <3>8
  <2> HIDE DEF Joint
  <2> QED
    BY <2>1
<1> HIDE DEF T
<1>3. \A i \in Nat : i \in T
  BY <1>1, <1>2, Inductive
<1> TAKE i \in 0 .. n
<1>4. i \in Nat /\ i <= n
  OBVIOUS
<1>5. i \in T
  BY <1>3, <1>4
<1> QED
  BY <1>4, <1>5, Zenon DEF T, IsJoined

\* Every chunk has its texts.
LEMMA TextsOut ==
    ASSUME NEW S, NEW R, NEW rs \in Seq(R), \A r \in R : ChunkRule(r, S),
           NEW n \in Nat, n = Len(rs), NEW c \in Seq(S)
    PROVE  \E y : ChunkTexts(y, n, rs, S, c) /\ \A k \in 0 .. n : y[k] = OutOf(rs, k, c)
<1>1. PICK f : f = ChunkRounds(rs, c)
  OBVIOUS
<1>2. PICK y : y = [i \in 0 .. n |-> f[i].msg.body[1]]
  OBVIOUS
<1>3. ChunkTexts(y, n, rs, S, c)
  BY <1>1, <1>2, TextsOfChunk DEF ChunkRounds
<1>4. \A k \in 0 .. n : OutOf(rs, k, c) = f[k].msg.body[1]
  BY <1>1, ChunkOut
<1> QED
  BY <1>2, <1>3, <1>4

\* No rule of the list, of length n, has a match across the cut.
Uncuts(rs, n, s, t) ==
    \A k \in 1 .. n : ~ Straddles(rs[k], OutOf(rs, k - 1, s), OutOf(rs, k - 1, t))

\* Chunk by chunk, the rules make what they make of the whole, where no match
\* lies across the cut.
LEMMA ChunkByChunk ==
    ASSUME NEW S, NEW R, NEW rs \in Seq(R), \A r \in R : ChunkRule(r, S),
           NEW s \in Seq(S), NEW t \in Seq(S), NEW n \in Nat, n = Len(rs),
           NEW u, IsJoined(u, s, t), Uncuts(rs, n, s, t)
    PROVE  IsJoined(OutOf(rs, n, u), OutOf(rs, n, s), OutOf(rs, n, t))
<1>1. PICK v \in Seq(S) : v = u
  BY ConcatProperties DEF IsJoined
<1>2. PICK x : ChunkTexts(x, n, rs, S, s) /\ \A k \in 0 .. n : x[k] = OutOf(rs, k, s)
  BY TextsOut
<1>3. PICK y : ChunkTexts(y, n, rs, S, t) /\ \A k \in 0 .. n : y[k] = OutOf(rs, k, t)
  BY TextsOut
<1>4. PICK z : ChunkTexts(z, n, rs, S, u) /\ \A k \in 0 .. n : z[k] = OutOf(rs, k, u)
  <2>1. \E z : ChunkTexts(z, n, rs, S, v) /\ \A k \in 0 .. n : z[k] = OutOf(rs, k, v)
    BY TextsOut
  <2> QED
    BY <1>1, <2>1
<1>5. \A k \in 1 .. n : k - 1 \in 0 .. n
  OBVIOUS
<1>6. \A k \in 1 .. n : Plain(rs[k], S)
  BY ElementOfSeq DEF ChunkRule
<1>7. Clean(rs, n, S, x, y)
  BY <1>2, <1>3, <1>5, <1>6 DEF Clean, Uncuts
<1>8. \A k \in 0 .. n : IsJoined(z[k], x[k], y[k])
  <2>1. ThreeTexts(x, y, z, n, rs, S, s, t)
    BY <1>2, <1>3, <1>4, <1>7 DEF ThreeTexts, IsJoined
  <2> QED
    BY <2>1, ChunksJoin
<1>9. n \in 0 .. n
  OBVIOUS
<1> QED
  BY <1>2, <1>3, <1>4, <1>8, <1>9

\* The rules of the chunk jobs.
LEMMA ChunkRules ==
    ASSUME NEW r \in BodyRule
    PROVE  ChunkRule(r, Symbols)
<1>1. /\ <<"a">> \in Seq(Symbols) /\ << >> \in Seq(Symbols)
      /\ <<"a", "b">> \in Seq(Symbols) /\ <<"a", "a">> \in Seq(Symbols)
      /\ <<"b", "a">> \in Seq(Symbols)
  BY DEF Symbols
<1>2. <<"a">> # << >> /\ <<"a", "b">> # << >> /\ <<"a", "a">> # << >>
  OBVIOUS
<1> QED
  BY <1>1, <1>2 DEF BodyRule, ChunkRule, Plain, Active

\* CutsOnlyHideMatches (rules.go:4-5, 159-184): where no match lies across the
\* cut, two chunks come out as the whole would, for rule lists and texts of any
\* length.
THEOREM ChunksRewritten == Spec => []CutsOnlyHideMatches
<1>1. JobOK => CutsOnlyHideMatches
  <2> SUFFICES ASSUME JobOK, job.kind = "chunks" PROVE CutsOnlyHideMatches
    BY DEF CutsOnlyHideMatches
  <2>1. ChunksJob
    BY DEF JobOK
  <2>2. PICK rs \in Seq(BodyRule) : rs = job.rules
    BY <2>1 DEF ChunksJob
  <2>3. PICK s \in Seq(Symbols) : s = job.first
    BY <2>1 DEF ChunksJob
  <2>4. PICK t \in Seq(Symbols) : t = job.second
    BY <2>1 DEF ChunksJob
  <2>5. PICK n \in Nat : n = Len(rs)
    BY LenProperties
  <2>6. PICK u : IsJoined(u, s, t)
    BY DEF IsJoined
  <2>7. ASSUME Uncuts(rs, n, s, t)
        PROVE  IsJoined(OutOf(rs, n, u), OutOf(rs, n, s), OutOf(rs, n, t))
    <3>1. \A r \in BodyRule : ChunkRule(r, Symbols)
      BY ChunkRules
    <3> QED
      BY <2>5, <2>6, <2>7, <3>1, ChunkByChunk
  <2> QED
    BY <2>2, <2>3, <2>4, <2>5, <2>6, <2>7, Zenon
       DEF CutsOnlyHideMatches, OutOf, Uncuts, IsJoined
<1> QED
  BY <1>1, JobTypes, PTL

-----------------------------------------------------------------------------
\* One round of the loop of KeptUpTo.
Keep(kept, e, R) == IF e \in R THEN kept ELSE Append(kept, e)

\* f is what the recursion of KeptUpTo defines, for n elements.
IsKept(f, n, s, R) ==
    f = [i \in 0 .. n |-> IF i = 0 THEN << >> ELSE Keep(f[i - 1], s[i], R)]

\* The recursion of KeptUpTo defines a function.
LEMMA KeptExist ==
    ASSUME NEW s, NEW R
    PROVE  \A n \in Nat : \E f : IsKept(f, n, s, R)
<1> DEFINE T == {n \in Nat : \E f : IsKept(f, n, s, R)}
<1>1. 0 \in T
  <2> DEFINE f == [i \in 0 .. 0 |-> << >>]
  <2>1. IsKept(f, 0, s, R)
    BY DEF IsKept
  <2> QED
    BY <2>1
<1>2. ASSUME NEW n \in Nat, n \in T PROVE n + 1 \in T
  <2>1. PICK f : IsKept(f, n, s, R)
    BY <1>2
  <2> DEFINE g == [i \in 0 .. n + 1 |->
                       IF i = n + 1 THEN Keep(f[n], s[n + 1], R) ELSE f[i]]
  <2>2. \A i \in 0 .. n + 1 : i # 0 => i - 1 \in 0 .. n /\ g[i - 1] = f[i - 1]
    OBVIOUS
  <2>3. ASSUME NEW i \in 0 .. n + 1
        PROVE  g[i] = IF i = 0 THEN << >> ELSE Keep(g[i - 1], s[i], R)
    <3>1. CASE i = n + 1
      BY <2>2, <3>1
    <3>2. CASE i # n + 1
      <4>1. i \in 0 .. n
        BY <3>2
      <4> QED
        BY <2>1, <2>2, <4>1 DEF IsKept
    <3> QED
      BY <3>1, <3>2
  <2>4. IsKept(g, n + 1, s, R)
    BY <2>3 DEF IsKept
  <2>5. \E h : IsKept(h, n + 1, s, R)
    BY <2>4
  <2> QED
    BY <2>5
<1> HIDE DEF T
<1>3. \A n \in Nat : n \in T
  BY <1>1, <1>2, Inductive
<1> QED
  BY <1>3 DEF T

\* What is kept of one element.
Single(e, R) == IF e \in R THEN << >> ELSE <<e>>

\* f[i] is what is kept of the first i elements of s, of length n.
KeptLoop(f, n, s, R, S) ==
    /\ f[0] = << >>
    /\ \A i \in 0 .. n : f[i] \in Seq(S \ R)
    /\ \A i \in 1 .. n : IsJoined(f[i], f[i - 1], Single(s[i], R))

\* The loop of KeptUpTo, and what it has kept at its end.
LEMMA KeptRounds ==
    ASSUME NEW S, NEW R, NEW s \in Seq(S), NEW n \in Nat, n = Len(s)
    PROVE  \E f : KeptLoop(f, n, s, R, S) /\ f[n] = Kept(s, R)
<1>1. PICK f : f = KeptUpTo(s, R)
  OBVIOUS
<1>2. f = CHOOSE g : IsKept(g, n, s, R)
  BY <1>1, Zenon DEF KeptUpTo, IsKept, Keep
<1>3. \E g : IsKept(g, n, s, R)
  BY KeptExist
<1>4. IsKept(f, n, s, R)
  BY <1>2, <1>3, Zenon
<1>5. f[0] = << >>
  BY <1>4 DEF IsKept
<1>6. \A i \in 1 .. n : f[i] = Keep(f[i - 1], s[i], R)
  BY <1>4 DEF IsKept
<1> DEFINE Typed(i) == f[i] \in Seq(S \ R)
           T == {i \in Nat : i <= n => Typed(i)}
<1>7. ASSUME NEW i \in Nat, i + 1 <= n, Typed(i)
      PROVE  Typed(i + 1) /\ IsJoined(f[i + 1], f[i], Single(s[i + 1], R))
  <2>1. PICK k \in 1 .. n : k = i + 1 /\ k - 1 = i
    BY <1>7
  <2>2. PICK x \in Seq(S \ R) : x = f[i]
    BY <1>7
  <2>3. PICK e \in S : e = s[k]
    BY ElementOfSeq
  <2>4. f[k] = IF e \in R THEN x ELSE Append(x, e)
    BY <1>6, <2>1, <2>2, <2>3 DEF Keep
  <2>5. CASE e \in R
    <3>1. x \o << >> = x
      BY ConcatEmptySeq
    <3> QED
      BY <2>1, <2>2, <2>3, <2>4, <2>5, <3>1 DEF IsJoined, Single
  <2>6. CASE e \notin R
    <3>1. e \in S \ R
      BY <2>6
    <3>2. Append(x, e) \in Seq(S \ R) /\ Append(x, e) = x \o <<e>>
      BY <3>1, AppendProperties, AppendIsConcat
    <3> QED
      BY <2>1, <2>2, <2>3, <2>4, <2>6, <3>2 DEF IsJoined, Single
  <2> QED
    BY <2>5, <2>6
<1>8. Typed(0)
  <2>1. << >> \in Seq(S \ R)
    OBVIOUS
  <2> QED
    BY <1>5, <2>1
<1> HIDE DEF Typed
<1>9. 0 \in T
  BY <1>8
<1>10. ASSUME NEW i \in Nat, i \in T PROVE i + 1 \in T
  <2>1. i + 1 <= n => Typed(i + 1)
    <3> SUFFICES ASSUME i + 1 <= n PROVE Typed(i + 1)
      OBVIOUS
    <3>1. Typed(i)
      BY <1>10
    <3> QED
      BY <1>7, <3>1
  <2> QED
    BY <2>1
<1> HIDE DEF T
<1>11. \A i \in Nat : i \in T
  BY <1>9, <1>10, Inductive
<1>12. \A i \in 0 .. n : Typed(i)
  BY <1>11 DEF T
<1>13. ASSUME NEW i \in 1 .. n PROVE IsJoined(f[i], f[i - 1], Single(s[i], R))
  <2>1. PICK k \in Nat : k = i - 1 /\ k + 1 = i /\ k + 1 <= n /\ k \in 0 .. n
    OBVIOUS
  <2>2. Typed(k)
    BY <1>12, <2>1
  <2>3. IsJoined(f[k + 1], f[k], Single(s[k + 1], R))
    BY <1>7, <2>1, <2>2
  <2> QED
    BY <2>1, <2>3
<1>14. KeptLoop(f, n, s, R, S)
  BY <1>5, <1>12, <1>13 DEF KeptLoop, Typed
<1>15. f[n] = Kept(s, R)
  BY <1>1, Zenon DEF Kept
<1> QED
  BY <1>14, <1>15

\* What is put behind a text that starts with x starts with x.
LEMMA Behind ==
    ASSUME NEW S, NEW x \in Seq(S), NEW y \in Seq(S), NEW z \in Seq(S),
           NEW g, IsJoined(g, x, y), NEW f, IsJoined(f, g, z), NEW w, IsJoined(w, y, z)
    PROVE  IsJoined(f, x, w)
<1>1. (x \o y) \o z = x \o (y \o z)
  BY ConcatAssociative
<1> QED
  BY <1>1, Zenon DEF IsJoined

\* Of one element, nothing or the element is kept.
LEMMA SingleText ==
    ASSUME NEW S, NEW R, NEW e \in S
    PROVE  Single(e, R) \in Seq(S \ R)
<1>1. CASE e \in R
  <2>1. << >> \in Seq(S \ R)
    OBVIOUS
  <2> QED
    BY <1>1, <2>1 DEF Single
<1>2. CASE e \notin R
  <2>1. <<e>> \in Seq(S \ R)
    BY <1>2
  <2> QED
    BY <1>2, <2>1 DEF Single
<1> QED
  BY <1>1, <1>2

\* The elements of u, of length a + b, are those of s and then those of t.
IsSplit(u, s, a, t, b, S) ==
    /\ a \in Nat /\ b \in Nat
    /\ \A i \in 1 .. a : u[i] = s[i]
    /\ \A j \in 1 .. b : u[a + j] = t[j] /\ t[j] \in S

\* The loop over u keeps what the loops over s and t keep.
LEMMA KeptSplit ==
    ASSUME NEW S, NEW R, NEW u, NEW s, NEW a, NEW t, NEW b, IsSplit(u, s, a, t, b, S),
           NEW f, KeptLoop(f, a + b, u, R, S), NEW g, KeptLoop(g, a, s, R, S),
           NEW h, KeptLoop(h, b, t, R, S)
    PROVE  IsJoined(f[a + b], g[a], h[b])
<1>0. a \in Nat /\ b \in Nat
  BY DEF IsSplit
<1> USE <1>0
<1> DEFINE T == {i \in Nat : i <= a => f[i] = g[i]}
<1>1. 0 \in T
  BY DEF KeptLoop
<1>2. ASSUME NEW i \in Nat, i \in T PROVE i + 1 \in T
  <2>1. CASE i + 1 <= a
    <3>1. PICK k \in 1 .. a : k = i + 1 /\ k - 1 = i /\ k \in 1 .. a + b
      BY <2>1
    <3>2. f[i] = g[i] /\ u[k] = s[k]
      BY <1>2, <2>1, <3>1 DEF IsSplit
    <3>3. IsJoined(f[k], f[i], Single(u[k], R)) /\ IsJoined(g[k], g[i], Single(s[k], R))
      BY <3>1 DEF KeptLoop
    <3>4. f[k] = g[k]
      BY <3>2, <3>3, Zenon DEF IsJoined
    <3> QED
      BY <3>1, <3>4
  <2> QED
    BY <2>1
<1> DEFINE Behind1(j) == IsJoined(f[a + j], g[a], h[j])
           U == {j \in Nat : j <= b => Behind1(j)}
<1>3. \A i \in Nat : i \in T
  <2> HIDE DEF T
  <2> QED
    BY <1>1, <1>2, Inductive
<1>4. f[a] = g[a] /\ a + 0 = a
  BY <1>3
<1> HIDE DEF T
<1>5. PICK x \in Seq(S \ R) : x = g[a]
  <2>1. a \in 0 .. a
    OBVIOUS
  <2> QED
    BY <2>1 DEF KeptLoop
<1>6. Behind1(0)
  <2>1. x \o << >> = x
    BY ConcatEmptySeq
  <2>2. h[0] = << >>
    BY DEF KeptLoop
  <2> QED
    BY <1>4, <1>5, <2>1, <2>2 DEF IsJoined
<1>7. 0 \in U
  <2> HIDE DEF Behind1
  <2> QED
    BY <1>6
<1>8. ASSUME NEW j \in Nat, j \in U PROVE j + 1 \in U
  <2>1. ASSUME j + 1 <= b PROVE Behind1(j + 1)
    <3>1. PICK k \in 1 .. b : k = j + 1 /\ k - 1 = j /\ j \in 0 .. b
      BY <2>1
    <3>2. Behind1(j)
      <4>1. j <= b
        BY <2>1
      <4> HIDE DEF Behind1
      <4> QED
        BY <1>8, <4>1
    <3>3. PICK m \in 1 .. a + b : m = a + k /\ m - 1 = a + j
      BY <3>1
    <3>4. PICK y \in Seq(S \ R) : y = h[j]
      BY <3>1 DEF KeptLoop
    <3>5. PICK z \in Seq(S \ R) : z = Single(t[k], R)
      BY <3>1, SingleText DEF IsSplit
    <3>6. u[m] = t[k]
      BY <3>1, <3>3 DEF IsSplit
    <3>7. IsJoined(f[m], f[a + j], z)
      BY <3>3, <3>5, <3>6 DEF KeptLoop
    <3>8. IsJoined(h[k], y, z)
      BY <3>1, <3>4, <3>5 DEF KeptLoop
    <3>9. IsJoined(f[a + j], x, y)
      BY <1>5, <3>2, <3>4
    <3>10. IsJoined(f[m], x, h[k])
      BY <3>7, <3>8, <3>9, Behind
    <3> QED
      BY <1>5, <3>1, <3>3, <3>10
  <2> HIDE DEF Behind1
  <2> QED
    BY <2>1
<1> HIDE DEF U
<1>9. \A j \in Nat : j \in U
  BY <1>7, <1>8, Inductive
<1>10. b \in U /\ b <= b
  BY <1>9
<1> QED
  BY <1>10, Zenon DEF U

\* What is kept of a concatenation.
LEMMA KeptJoined ==
    ASSUME NEW S, NEW R, NEW s \in Seq(S), NEW t \in Seq(S), NEW u, IsJoined(u, s, t)
    PROVE  IsJoined(Kept(u, R), Kept(s, R), Kept(t, R))
<1>1. PICK a \in Nat : a = Len(s)
  BY LenProperties
<1>2. PICK b \in Nat : b = Len(t)
  BY LenProperties
<1>3. PICK v \in Seq(S) : v = u
  BY ConcatProperties DEF IsJoined
<1>4. /\ Len(v) = a + b
      /\ \A i \in 1 .. a : v[i] = s[i]
      /\ \A j \in 1 .. b : v[a + j] = t[j]
  BY <1>1, <1>2, <1>3, Joined DEF IsJoined
<1>5. \A j \in 1 .. b : t[j] \in S
  BY <1>2, ElementOfSeq
<1>6. IsSplit(v, s, a, t, b, S)
  BY <1>4, <1>5 DEF IsSplit
<1>7. PICK n \in Nat : n = a + b
  OBVIOUS
<1>8. PICK f : KeptLoop(f, n, v, R, S) /\ f[n] = Kept(v, R)
  BY <1>4, <1>7, KeptRounds
<1>9. PICK g : KeptLoop(g, a, s, R, S) /\ g[a] = Kept(s, R)
  BY <1>1, KeptRounds
<1>10. PICK h : KeptLoop(h, b, t, R, S) /\ h[b] = Kept(t, R)
  BY <1>2, KeptRounds
<1>11. KeptLoop(f, a + b, v, R, S)
  BY <1>7, <1>8
<1>12. IsJoined(f[a + b], g[a], h[b])
  BY <1>6, <1>9, <1>10, <1>11, KeptSplit
<1> QED
  BY <1>3, <1>7, <1>8, <1>9, <1>10, <1>12

-----------------------------------------------------------------------------
\* The body of the recursion of FlattenSeq, and what it defines for n texts.
FlatHere(q, i, f) == IF i = 1 THEN q[i] ELSE f[i - 1] \o q[i]

IsFlat(f, n, q) == f = [i \in 1 .. n |-> FlatHere(q, i, f)]

\* The recursion of FlattenSeq defines a function.
LEMMA FlatExist ==
    ASSUME NEW q
    PROVE  \A n \in Nat : \E f : IsFlat(f, n, q)
<1> DEFINE T == {n \in Nat : \E f : IsFlat(f, n, q)}
<1>1. 0 \in T
  <2> DEFINE f == [i \in 1 .. 0 |-> << >>]
  <2>1. IsFlat(f, 0, q)
    BY DEF IsFlat
  <2> QED
    BY <2>1
<1>2. ASSUME NEW n \in Nat, n \in T PROVE n + 1 \in T
  <2>1. PICK f : IsFlat(f, n, q)
    BY <1>2
  <2> DEFINE g == [i \in 1 .. n + 1 |->
                       IF i = n + 1 THEN FlatHere(q, n + 1, f) ELSE f[i]]
  <2>2. \A i \in 1 .. n + 1 : i # 1 => i - 1 \in 1 .. n /\ g[i - 1] = f[i - 1]
    OBVIOUS
  <2>3. ASSUME NEW i \in 1 .. n + 1 PROVE g[i] = FlatHere(q, i, g)
    <3>1. FlatHere(q, i, f) = FlatHere(q, i, g)
      <4> HIDE DEF g
      <4> QED
        BY <2>2 DEF FlatHere
    <3>2. CASE i = n + 1
      BY <3>1, <3>2
    <3>3. CASE i # n + 1
      <4>1. i \in 1 .. n
        BY <3>3
      <4> QED
        BY <2>1, <3>1, <4>1 DEF IsFlat
    <3> QED
      BY <3>2, <3>3
  <2>4. IsFlat(g, n + 1, q)
    <3>1. g = [i \in 1 .. n + 1 |-> g[i]]
      OBVIOUS
    <3> HIDE DEF g
    <3> QED
      BY <2>3, <3>1 DEF IsFlat
  <2>5. \E h : IsFlat(h, n + 1, q)
    BY <2>4
  <2> QED
    BY <2>5
<1> HIDE DEF T
<1>3. \A n \in Nat : n \in T
  BY <1>1, <1>2, Inductive
<1> QED
  BY <1>3 DEF T

\* f[i] is the first i texts of q, of length n, one after the other.
FlatLoop(f, n, q, S) ==
    /\ n \in Nat /\ n >= 1 /\ f[1] = q[1]
    /\ \A i \in 1 .. n : f[i] \in Seq(S)
    /\ \A i \in 1 .. n : i # 1 => IsJoined(f[i], f[i - 1], q[i])

\* The loop of FlattenSeq.
LEMMA FlatRounds ==
    ASSUME NEW S, NEW q \in Seq(Seq(S)), NEW n \in Nat, n = Len(q), n >= 1
    PROVE  \E f : FlatLoop(f, n, q, S) /\ f[n] = FlattenSeq(q)
<1>1. PICK f : f = CHOOSE g : IsFlat(g, n, q)
  OBVIOUS
<1>2. FlattenSeq(q) = f[n]
  <2>1. ~ (Len(q) = 0)
    OBVIOUS
  <2> QED
    BY <1>1, <2>1, Zenon DEF FlattenSeq, IsFlat, FlatHere
<1>3. \E g : IsFlat(g, n, q)
  BY FlatExist
<1>4. IsFlat(f, n, q)
  BY <1>1, <1>3, Zenon
<1>5. \A i \in 1 .. n : f[i] = FlatHere(q, i, f)
  BY <1>4 DEF IsFlat
<1>6. 1 \in 1 .. n
  OBVIOUS
<1>7. f[1] = q[1]
  BY <1>5, <1>6 DEF FlatHere
<1>8. \A i \in 1 .. n : i # 1 => f[i] = f[i - 1] \o q[i]
  BY <1>5, Zenon DEF FlatHere
<1> DEFINE T == {i \in Nat : i + 1 <= n => f[i + 1] \in Seq(S)}
<1>9. 0 \in T
  <2>1. q[1] \in Seq(S)
    BY <1>6, ElementOfSeq
  <2> QED
    BY <1>7, <2>1
<1>10. ASSUME NEW i \in Nat, i \in T PROVE i + 1 \in T
  <2>1. CASE (i + 1) + 1 <= n
    <3>1. PICK k \in 1 .. n : k = (i + 1) + 1 /\ k - 1 = i + 1 /\ k # 1
      BY <2>1
    <3>2. PICK x \in Seq(S) : x = f[i + 1]
      BY <1>10, <2>1
    <3>3. PICK y \in Seq(S) : y = q[k]
      BY ElementOfSeq
    <3>4. x \o y \in Seq(S)
      BY ConcatProperties
    <3>5. f[k] = x \o y
      BY <1>8, <3>1, <3>2, <3>3
    <3>6. f[(i + 1) + 1] \in Seq(S)
      BY <3>1, <3>4, <3>5
    <3> QED
      BY <3>6
  <2> QED
    BY <2>1
<1>11. \A i \in 1 .. n : f[i] \in Seq(S)
  <2>1. \A i \in Nat : i \in T
    <3> HIDE DEF T
    <3> QED
      BY <1>9, <1>10, Inductive
  <2> TAKE i \in 1 .. n
  <2>2. PICK k \in Nat : k = i - 1 /\ k + 1 = i /\ k + 1 <= n
    OBVIOUS
  <2>3. k \in T
    BY <2>1
  <2> QED
    BY <2>2, <2>3
<1>12. FlatLoop(f, n, q, S)
  BY <1>7, <1>8, <1>11 DEF FlatLoop, IsJoined
<1> QED
  BY <1>2, <1>12

\* Flattening no texts gives nothing.
LEMMA FlatNothing == FlattenSeq(<< >>) = << >>
<1>1. Len(<< >>) = 0
  BY EmptySeq
<1> QED
  BY <1>1, Zenon DEF FlattenSeq

\* One text more.
LEMMA FlatAppended ==
    ASSUME NEW S, NEW q \in Seq(Seq(S)), NEW w \in Seq(S), NEW p, IsJoined(p, q, <<w>>)
    PROVE  FlattenSeq(q) \in Seq(S) /\ IsJoined(FlattenSeq(p), FlattenSeq(q), w)
<1>1. PICK n \in Nat : n = Len(q)
  BY LenProperties
<1>2. PICK one \in Seq(Seq(S)) : one = <<w>> /\ Len(one) = 1 /\ one[1] = w
  <2>1. PICK U : U = Seq(S)
    OBVIOUS
  <2>2. w \in U
    BY <2>1
  <2>3. <<w>> \in Seq(U) /\ Len(<<w>>) = 1 /\ <<w>>[1] = w
    BY <2>2
  <2> QED
    BY <2>1, <2>3
<1>3. PICK v \in Seq(Seq(S)) : v = p
  BY <1>2, ConcatProperties DEF IsJoined
<1>4. /\ Len(v) = n + 1 /\ \A i \in 1 .. n : v[i] = q[i]
      /\ v[n + 1] = w
  <2>1. /\ Len(v) = n + 1 /\ \A i \in 1 .. n : v[i] = q[i]
        /\ \A j \in 1 .. 1 : v[n + j] = one[j]
    BY <1>1, <1>2, <1>3, Joined DEF IsJoined
  <2>2. 1 \in 1 .. 1
    OBVIOUS
  <2> QED
    BY <1>2, <2>1, <2>2
<1>5. PICK m \in Nat : m = n + 1 /\ m >= 1 /\ m - 1 = n /\ m \in 1 .. m
  OBVIOUS
<1>6. PICK f : FlatLoop(f, m, v, S) /\ f[m] = FlattenSeq(v)
  BY <1>4, <1>5, FlatRounds
<1>7. CASE n = 0
  <2>1. q = << >>
    BY <1>1, <1>7, EmptySeq
  <2>2. FlattenSeq(q) = << >>
    BY <2>1, FlatNothing
  <2>3. f[m] = w
    BY <1>4, <1>5, <1>6, <1>7 DEF FlatLoop
  <2>4. << >> \o w = w /\ << >> \in Seq(S)
    BY ConcatEmptySeq, EmptySeq
  <2> QED
    BY <1>3, <1>6, <2>2, <2>3, <2>4, Zenon DEF IsJoined
<1>8. CASE n # 0
  <2>1. n >= 1 /\ n \in 1 .. n
    BY <1>8
  <2>2. PICK g : FlatLoop(g, n, q, S) /\ g[n] = FlattenSeq(q)
    BY <1>1, <2>1, FlatRounds
  <2> DEFINE T == {i \in Nat : i + 1 <= n => f[i + 1] = g[i + 1]}
  <2>3. 0 \in T
    BY <1>4, <1>6, <2>1, <2>2 DEF FlatLoop
  <2>4. ASSUME NEW i \in Nat, i \in T PROVE i + 1 \in T
    <3>1. CASE (i + 1) + 1 <= n
      <4>1. PICK k \in 1 .. n : k = (i + 1) + 1 /\ k - 1 = i + 1 /\ k # 1 /\ k \in 1 .. m
        BY <1>5, <3>1
      <4>2. f[i + 1] = g[i + 1] /\ v[k] = q[k]
        BY <1>4, <2>4, <3>1, <4>1
      <4>3. IsJoined(f[k], f[i + 1], v[k]) /\ IsJoined(g[k], g[i + 1], q[k])
        BY <1>6, <2>2, <4>1 DEF FlatLoop
      <4>4. f[k] = g[k]
        BY <4>2, <4>3, Zenon DEF IsJoined
      <4> QED
        BY <4>1, <4>4
    <3> QED
      BY <3>1
  <2>5. f[n] = g[n]
    <3> HIDE DEF T
    <3>1. \A i \in Nat : i \in T
      BY <2>3, <2>4, Inductive
    <3>2. PICK k \in Nat : k = n - 1 /\ k + 1 = n /\ k + 1 <= n
      BY <2>1
    <3> QED
      BY <3>1, <3>2 DEF T
  <2>6. IsJoined(f[m], f[n], v[m])
    <3>1. m # 1
      BY <1>5, <1>8
    <3> QED
      BY <1>5, <1>6, <3>1 DEF FlatLoop
  <2>7. g[n] \in Seq(S)
    BY <2>1, <2>2 DEF FlatLoop
  <2> QED
    BY <1>3, <1>4, <1>5, <1>6, <2>2, <2>5, <2>6, <2>7
<1> QED
  BY <1>7, <1>8

-----------------------------------------------------------------------------
\* What is kept has none of what is removed.
LEMMA KeptText ==
    ASSUME NEW S, NEW R, NEW s \in Seq(S)
    PROVE  Kept(s, R) \in Seq(S \ R)
<1>1. PICK n \in Nat : n = Len(s)
  BY LenProperties
<1>2. PICK f : KeptLoop(f, n, s, R, S) /\ f[n] = Kept(s, R)
  BY <1>1, KeptRounds
<1>3. n \in 0 .. n
  OBVIOUS
<1> QED
  BY <1>2, <1>3 DEF KeptLoop

\* Of nothing, nothing is kept.
LEMMA KeptNothing ==
    ASSUME NEW R
    PROVE  Kept(<< >>, R) = << >>
<1>1. << >> \in Seq({}) /\ Len(<< >>) = 0
  BY EmptySeq
<1>2. PICK f : KeptLoop(f, 0, << >>, R, {}) /\ f[0] = Kept(<< >>, R)
  BY <1>1, KeptRounds
<1> QED
  BY <1>2 DEF KeptLoop

\* The first k elements, of which the last is x.
LEMMA FirstAndLast ==
    ASSUME NEW R, NEW s \in Seq(R), NEW k \in 1 .. Len(s), NEW i, i = k - 1,
           NEW p, p = SubSeq(s, 1, k), NEW q, q = SubSeq(s, 1, i)
    PROVE  q \in Seq(R) /\ IsJoined(p, q, <<s[k]>>)
<1>1. PICK n \in Nat : n = Len(s)
  BY LenProperties
<1>2. 1 \in 1 .. n /\ k \in 1 .. n /\ i \in 0 .. n
  BY <1>1
<1>3. p = SubSeq(s, 1, k - 1) \o <<s[k]>>
  BY <1>1, <1>2, SubSeqRecursiveSecond
<1>4. q \in Seq(R)
  BY <1>1, <1>2, FirstElements
<1> QED
  BY <1>3, <1>4 DEF IsJoined

\* The tokens of a header value, all values together, are the tokens it had
\* but for those removed.
LEMMA TokensKept ==
    ASSUME NEW S, NEW Q, NEW vs \in Seq(Seq(S))
    PROVE  FlattenSeq(StripBetaTokens(vs, Q)) = Kept(FlattenSeq(vs), Q \cup {Blank})
<1>1. PICK n \in Nat : n = Len(vs)
  BY LenProperties
<1>2. PICK R : R = Q \cup {Blank}
  OBVIOUS
<1>3. PICK V : V = Seq(S)
  OBVIOUS
<1>4. PICK ws : ws = [i \in DOMAIN vs |-> Kept(vs[i], R)]
  OBVIOUS
<1>5. DOMAIN vs = 1 .. n
  BY <1>1, LenProperties
<1>6. \A i \in 1 .. n : vs[i] \in Seq(S) /\ ws[i] = Kept(vs[i], R) /\ ws[i] \in V
  <2> TAKE i \in 1 .. n
  <2>1. PICK v \in Seq(S) : v = vs[i]
    BY <1>1, ElementOfSeq
  <2>2. Kept(v, R) \in Seq(S \ R)
    BY KeptText
  <2>3. Kept(v, R) \in Seq(S)
    BY <2>2, SeqMonotonic
  <2> QED
    BY <1>3, <1>4, <1>5, <2>1, <2>3
<1>7. ws \in Seq(V) /\ n = Len(ws)
  BY <1>4, <1>5, <1>6
<1>8. StripBetaTokens(vs, Q) = Kept(ws, {<< >>})
  BY <1>2, <1>4, Zenon DEF StripBetaTokens
<1>9. PICK f : KeptLoop(f, n, ws, {<< >>}, V) /\ f[n] = Kept(ws, {<< >>})
  BY <1>7, KeptRounds
<1> DEFINE First(i) == SubSeq(vs, 1, i)
           Same(i) == FlattenSeq(f[i]) = Kept(FlattenSeq(First(i)), R)
           T == {i \in Nat : i <= n => Same(i)}
<1>10. Same(0)
  <2>1. f[0] = << >>
    BY <1>9 DEF KeptLoop
  <2>2. First(0) = << >>
    BY SubSeqEmpty
  <2>3. FlattenSeq(<< >>) = << >> /\ Kept(<< >>, R) = << >>
    BY FlatNothing, KeptNothing
  <2> HIDE DEF First
  <2> QED
    BY <2>1, <2>2, <2>3, Zenon
<1>11. ASSUME NEW i \in Nat, i + 1 <= n, Same(i) PROVE Same(i + 1)
  <2>1. PICK k \in 1 .. n : k = i + 1 /\ k - 1 = i /\ i \in 0 .. n
    BY <1>11
  <2>2. PICK v \in Seq(S) : v = vs[k]
    BY <1>6
  <2>3. PICK w \in Seq(S) : w = ws[k] /\ w = Kept(v, R)
    BY <1>3, <1>6, <2>2
  <2>4. PICK p : p = First(k)
    OBVIOUS
  <2>5. PICK q : q = First(i)
    OBVIOUS
  <2>6. q \in Seq(Seq(S)) /\ IsJoined(p, q, <<v>>)
    <3>1. k \in 1 .. Len(vs) /\ i = k - 1
      BY <1>1, <2>1
    <3>2. p = SubSeq(vs, 1, k) /\ q = SubSeq(vs, 1, i)
      BY <2>4, <2>5
    <3> QED
      BY <2>2, <3>1, <3>2, FirstAndLast
  <2>7. FlattenSeq(q) \in Seq(S) /\ IsJoined(FlattenSeq(p), FlattenSeq(q), v)
    BY <2>6, FlatAppended
  <2>8. IsJoined(Kept(FlattenSeq(p), R), Kept(FlattenSeq(q), R), w)
    BY <2>3, <2>7, KeptJoined
  <2>9. PICK x \in Seq(Seq(S)) : x = f[i]
    <3>1. f[i] \in Seq(V \ {<< >>})
      BY <1>9, <2>1 DEF KeptLoop
    <3>2. f[i] \in Seq(V)
      BY <3>1, SeqMonotonic
    <3> QED
      BY <1>3, <3>2
  <2>10. IsJoined(f[k], x, Single(w, {<< >>}))
    BY <1>9, <2>1, <2>3, <2>9 DEF KeptLoop
  <2>11. FlattenSeq(x) = Kept(FlattenSeq(q), R)
    BY <1>11, <2>5, <2>9, Zenon
  <2>12. CASE w = << >>
    <3>1. f[k] = x
      <4>1. x \o << >> = x
        BY ConcatEmptySeq
      <4> QED
        BY <2>10, <2>12, <4>1 DEF IsJoined, Single
    <3>2. Kept(FlattenSeq(p), R) = Kept(FlattenSeq(q), R)
      <4>1. PICK y \in Seq(S \ R) : y = Kept(FlattenSeq(q), R)
        BY <2>7, KeptText
      <4>2. y \o << >> = y
        BY ConcatEmptySeq
      <4> QED
        BY <2>8, <2>12, <4>1, <4>2, Zenon DEF IsJoined
    <3>3. Same(k)
      BY <2>4, <2>11, <3>1, <3>2, Zenon
    <3> QED
      BY <2>1, <3>3
  <2>13. CASE w # << >>
    <3>1. IsJoined(f[k], x, <<w>>)
      BY <2>10, <2>13 DEF Single
    <3>2. IsJoined(FlattenSeq(f[k]), FlattenSeq(x), w)
      BY <3>1, FlatAppended
    <3>3. Same(k)
      BY <2>4, <2>8, <2>11, <3>2, Zenon DEF IsJoined
    <3> QED
      BY <2>1, <3>3
  <2> QED
    BY <2>12, <2>13
<1> HIDE DEF Same
<1>12. 0 \in T
  BY <1>10
<1>13. ASSUME NEW i \in Nat, i \in T PROVE i + 1 \in T
  <2>1. i + 1 <= n => Same(i + 1)
    <3> SUFFICES ASSUME i + 1 <= n PROVE Same(i + 1)
      OBVIOUS
    <3>1. Same(i)
      BY <1>13
    <3> QED
      BY <1>11, <3>1
  <2> QED
    BY <2>1
<1> HIDE DEF T
<1>14. \A i \in Nat : i \in T
  BY <1>12, <1>13, Inductive
<1>15. Same(n)
  BY <1>14 DEF T
<1>16. First(n) = vs
  BY <1>1, SubSeqFull
<1> HIDE DEF First
<1> QED
  BY <1>2, <1>8, <1>9, <1>15, <1>16, Zenon DEF Same

\* Flattening texts gives a text.
LEMMA FlatText ==
    ASSUME NEW S, NEW vs \in Seq(Seq(S))
    PROVE  FlattenSeq(vs) \in Seq(S)
<1>1. PICK w \in Seq(S) : w = << >>
  BY EmptySeq
<1>2. PICK p : IsJoined(p, vs, <<w>>)
  BY DEF IsJoined
<1> QED
  BY <1>2, FlatAppended

\* The tokens and the headers of the retry jobs.
Token == {Tier, "beta", Blank}

\* The header values of a retry job are texts of tokens.
LEMMA RetryHeaders ==
    ASSUME NEW hs \in Headers
    PROVE  /\ "Anthropic-Beta" \in DOMAIN hs
           /\ DOMAIN hs \subseteq {"Anthropic-Beta", "anthropic-beta", "X"}
           /\ \A k \in DOMAIN hs : hs[k] \in Seq(Seq(Token))
<1>1. \A v \in Beta : v \in Seq(Token)
  BY BoundedIsSeq DEF Beta, Token
<1>2. PICK V : V = Seq(Token)
  OBVIOUS
<1>3. CASE hs \in {[k \in {"Anthropic-Beta", "X"} |-> v] : v \in SeqOf(Beta, 2)}
  <2>1. PICK v \in SeqOf(Beta, 2) : hs = [k \in {"Anthropic-Beta", "X"} |-> v]
    BY <1>3
  <2>2. v \in Seq(Beta)
    BY BoundedIsSeq
  <2>3. v \in Seq(V)
    BY <1>1, <1>2, <2>2, SeqMonotonic
  <2> QED
    BY <1>2, <2>1, <2>3
<1>4. CASE hs \in [{"Anthropic-Beta", "anthropic-beta"} -> {<<v>> : v \in Beta}]
  <2>1. ASSUME NEW k \in DOMAIN hs PROVE hs[k] \in Seq(V)
    <3>1. PICK v \in Beta : hs[k] = <<v>>
      BY <1>4
    <3>2. v \in V
      BY <1>1, <1>2
    <3> QED
      BY <3>1, <3>2
  <2> QED
    BY <1>2, <1>4, <2>1
<1> QED
  BY <1>3, <1>4 DEF Headers

\* What is left of the values of a header for the retry.
LEMMA RetryTokens ==
    ASSUME NEW vs \in Seq(Seq(Token)), NEW all, all = FlattenSeq(StripBetaTokens(vs, {Tier}))
    PROVE  all = Kept(FlattenSeq(vs), {Tier, Blank}) /\ Tier \notin ToSet(all)
<1>1. {Tier} \cup {Blank} = {Tier, Blank}
  OBVIOUS
<1>2. all = Kept(FlattenSeq(vs), {Tier, Blank})
  BY <1>1, TokensKept
<1>3. PICK s \in Seq(Token) : s = FlattenSeq(vs)
  BY FlatText
<1>4. Kept(s, {Tier, Blank}) \in Seq(Token \ {Tier, Blank})
  BY KeptText
<1>5. PICK t \in Seq(Token \ {Tier, Blank}) : t = all
  BY <1>2, <1>3, <1>4
<1>6. Tier \notin ToSet(t)
  BY DEF ToSet
<1> QED
  BY <1>2, <1>5, <1>6

\* The outcomes of PrepareFallback.
IsPrepared(p, b, hs) ==
    /\ p.outcome = "retry" <=> b.json = "object"
    /\ p.outcome = "retry" =>
         /\ p.body = [b EXCEPT !.model = "new",
                               !.effort = IF @ = "xhigh" THEN "max" ELSE @]
         /\ p.headers = PrepareHeaders(hs)

\* PrepareFallback lets an object through, with the new model, and nothing else.
LEMMA Prepared ==
    ASSUME NEW b \in Body, NEW hs
    PROVE  IsPrepared(PrepareFallback(b, hs, "new"), b, hs)
<1>0. PICK p : p = PrepareFallback(b, hs, "new")
  OBVIOUS
<1> SUFFICES IsPrepared(p, b, hs)
  BY <1>0
<1>1. CASE b.json = "other"
  <2>1. p = [outcome |-> "error"]
    BY <1>0, <1>1, Zenon DEF PrepareFallback
  <2> QED
    BY <1>1, <2>1 DEF IsPrepared
<1>2. CASE b.json = "null"
  <2>1. b.json # "other"
    BY <1>2
  <2>2. p = [outcome |-> "panic"]
    BY <1>0, <1>2, <2>1, Zenon DEF PrepareFallback
  <2> QED
    BY <1>2, <2>2 DEF IsPrepared
<1>3. CASE b.json = "object"
  <2>1. b.json # "other" /\ b.json # "null"
    BY <1>3
  <2>2. p = [outcome |-> "retry",
             body    |-> [b EXCEPT !.model = "new",
                                   !.effort = IF @ = "xhigh" THEN "max" ELSE @],
             headers |-> PrepareHeaders(hs)]
    BY <1>0, <2>1, Zenon DEF PrepareFallback
  <2> QED
    BY <1>3, <2>2 DEF IsPrepared
<1> QED
  BY <1>1, <1>2, <1>3 DEF Body

\* RetryIsAcceptable (proxy.go:550-614): the retry differs from the request in
\* its model, its effort and the tokens of the extra tier, and in nothing else,
\* for header values of any length.
THEOREM RetryAcceptable == Spec => []RetryIsAcceptable
<1>1. JobOK => RetryIsAcceptable
  <2> SUFFICES ASSUME JobOK, job.kind = "retry" PROVE RetryIsAcceptable
    BY DEF RetryIsAcceptable
  <2>1. RetryJob
    BY DEF JobOK
  <2>2. PICK b \in Body : b = job.body
    BY <2>1 DEF RetryJob
  <2>3. PICK hs \in Headers : hs = job.headers
    BY <2>1 DEF RetryJob
  <2>4. PICK p : p = PrepareFallback(b, hs, "new")
    OBVIOUS
  <2>5. /\ p.outcome = "retry" <=> b.json = "object"
        /\ p.outcome = "retry" =>
             /\ p.body = [b EXCEPT !.model = "new",
                                   !.effort = IF @ = "xhigh" THEN "max" ELSE @]
             /\ p.headers = PrepareHeaders(hs)
    BY <2>4, Prepared, Zenon DEF IsPrepared
  <2>6. ASSUME p.outcome = "retry"
        PROVE  /\ p.body.model = "new" /\ p.body.effort # "xhigh"
               /\ b.effort # "xhigh" => p.body.effort = b.effort
    <3>1. p.body = [b EXCEPT !.model = "new",
                             !.effort = IF @ = "xhigh" THEN "max" ELSE @]
      BY <2>5, <2>6
    <3> QED
      BY <3>1 DEF Body
  <2>7. ASSUME p.outcome = "retry", NEW k \in DOMAIN hs
        PROVE  /\ DOMAIN p.headers = DOMAIN hs
               /\ k = "X" => p.headers[k] = hs[k]
               /\ k # "X" => p.headers[k] = StripBetaTokens(hs[k], {Tier})
    <3>1. p.headers = PrepareHeaders(hs)
      BY <2>5, <2>7
    <3>2. k \in {"Anthropic-Beta", "anthropic-beta", "X"}
      BY RetryHeaders
    <3> QED
      BY <3>1, <3>2 DEF PrepareHeaders, Canonical
  <2>8. ASSUME p.outcome = "retry", NEW vs \in Outgoing(p.headers)["Anthropic-Beta"]
        PROVE  Tier \notin ToSet(FlattenSeq(vs))
    <3>1. "Anthropic-Beta" \in DOMAIN hs /\ DOMAIN p.headers = DOMAIN hs
      BY <2>7, <2>8, RetryHeaders
    <3>2. PICK j \in DOMAIN hs : Canonical(j) = "Anthropic-Beta" /\ vs = p.headers[j]
      BY <2>8, <3>1 DEF Outgoing, Canonical, Skipped
    <3>3. j # "X"
      BY <3>2 DEF Canonical
    <3>4. vs = StripBetaTokens(hs[j], {Tier})
      BY <2>7, <2>8, <3>2, <3>3
    <3>5. hs[j] \in Seq(Seq(Token))
      BY RetryHeaders
    <3> QED
      BY <3>4, <3>5, RetryTokens
  <2>9. ASSUME p.outcome = "retry", NEW k \in DOMAIN hs
        PROVE  FlattenSeq(p.headers[k]) =
               IF k = "X" THEN FlattenSeq(hs[k])
               ELSE Kept(FlattenSeq(hs[k]), {Tier, Blank})
    <3>1. hs[k] \in Seq(Seq(Token))
      BY RetryHeaders
    <3>2. k # "X" => FlattenSeq(StripBetaTokens(hs[k], {Tier}))
                     = Kept(FlattenSeq(hs[k]), {Tier, Blank})
      BY <3>1, RetryTokens
    <3> QED
      BY <2>7, <2>9, <3>2
  <2> QED
    BY <2>2, <2>3, <2>4, <2>5, <2>6, <2>8, <2>9, Zenon DEF RetryIsAcceptable
<1> QED
  BY <1>1, JobTypes, PTL
=============================================================================
