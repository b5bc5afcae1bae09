----------------------------- MODULE StoreProofs ----------------------------
(***************************************************************************)
(* The invariants of Store, for every set of ids, every content and every  *)
(* size of the ring.                                                       *)
(***************************************************************************)
EXTENDS Store, SequenceTheorems, TLAPS

\* The conjunction is inductive: that the map and the list agree after an
\* eviction needs the list to be exactly the newest ids of the log.
StoreInv == TypeOK /\ KeepsNewest /\ NoOrphan /\ ListedIsStored

\* A suffix of a sequence that leaves out its first k elements.
LEMMA SuffixProperties ==
    ASSUME NEW S, NEW s \in Seq(S), NEW k \in Nat, k <= Len(s)
    PROVE  /\ SubSeq(s, k + 1, Len(s)) \in Seq(S)
           /\ Len(SubSeq(s, k + 1, Len(s))) = Len(s) - k
           /\ \A i \in 1 .. Len(s) - k : SubSeq(s, k + 1, Len(s))[i] = s[i + k]
<1> DEFINE m == k + 1
           n == Len(s)
<1>1. n \in Nat /\ m \in Int /\ n \in Int /\ m >= 1
  BY LenProperties
<1>2. \A i \in m .. n : s[i] \in S
  BY <1>1, ElementOfSeq
<1>3. n - m + 1 = n - k /\ (m <= n \/ n - k = 0)
  BY <1>1
<1>4. \A i \in 1 .. n - k : m + i - 1 = i + k
  BY <1>1
<1> HIDE DEF m, n
<1>5. /\ SubSeq(s, m, n) \in Seq(S)
      /\ Len(SubSeq(s, m, n)) = IF m <= n THEN n - m + 1 ELSE 0
      /\ \A i \in 1 .. n - m + 1 : SubSeq(s, m, n)[i] = s[m + i - 1]
  BY <1>1, <1>2, SubSeqProperties
<1>6. Len(SubSeq(s, m, n)) = n - k
  BY <1>1, <1>3, <1>5
<1>7. \A i \in 1 .. n - k : SubSeq(s, m, n)[i] = s[i + k]
  BY <1>3, <1>4, <1>5
<1> QED
  BY <1>5, <1>6, <1>7 DEF m, n

\* The same for a suffix that has a name.
LEMMA SuffixNamed ==
    ASSUME NEW S, NEW s \in Seq(S), NEW k \in Nat, k <= Len(s),
           NEW t, t = SubSeq(s, k + 1, Len(s))
    PROVE  /\ t \in Seq(S)
           /\ Len(t) = Len(s) - k
           /\ \A i \in 1 .. Len(s) - k : t[i] = s[i + k]
BY SuffixProperties, Zenon

\* Add leaves in the map the new id and the old ones, but for the evicted.
LEMMA AddStored ==
    ASSUME NEW s, NEW id, NEW c, NEW x
    PROVE  x \in Stored(Add(s, id, c)) <=>
               /\ x \in Stored(s) \cup {id}
               /\ \A i \in 1 .. Overflow(Len(Append(s.order, id))) :
                      Append(s.order, id)[i] # x
BY DEF Add, Stored, Without

\* Add leaves the captures it keeps as they were.
LEMMA AddCaptures ==
    ASSUME NEW s, NEW id, NEW c, NEW x \in Stored(Add(s, id, c))
    PROVE  Add(s, id, c).captures[x] = IF x = id THEN c ELSE s.captures[x]
BY DEF Add, Stored, Without

\* When the newest n of l ids are kept, the number left out grows by one
\* exactly when n were kept.
LEMMA LeftOut ==
    ASSUME NEW l \in Nat, NEW n \in Nat
    PROVE  /\ Excess(l, n) \in Nat /\ Excess(l, n) <= l
           /\ Excess((l - Excess(l, n)) + 1, n) \in Nat
           /\ Excess((l - Excess(l, n)) + 1, n) <= (l - Excess(l, n)) + 1
           /\ Excess(l + 1, n) = Excess(l, n) + Excess((l - Excess(l, n)) + 1, n)
BY DEF Excess

\* Appending to the newest n elements and dropping what exceeds n gives the
\* newest n elements of the longer sequence.
LEMMA SlideNewest ==
    ASSUME NEW S, NEW s \in Seq(S), NEW x \in S, NEW n \in Nat
    PROVE  Newest(Append(Newest(s, n), x), n) = Newest(Append(s, x), n)
<1>1. PICK l \in Nat : l = Len(s)
  BY LenProperties
<1>2. PICK k \in Nat : k = Excess(l, n)
  BY LeftOut
<1>3. PICK over \in Nat : over = Excess((l - k) + 1, n)
  BY <1>2, LeftOut
<1>4. /\ k <= l /\ over <= (l - k) + 1 /\ Excess(l + 1, n) = k + over
  BY <1>2, <1>3, LeftOut
<1>5. PICK kept : kept = Newest(s, n)
  OBVIOUS
<1>6. kept = SubSeq(s, k + 1, Len(s))
  BY <1>1, <1>2, <1>5 DEF Newest
<1>7. kept \in Seq(S) /\ Len(kept) = l - k /\ \A i \in 1 .. l - k : kept[i] = s[i + k]
  <2>1. k <= Len(s)
    BY <1>1, <1>4
  <2> QED
    BY <2>1, <1>1, <1>6, SuffixProperties
<1>8. PICK list : list = Append(kept, x)
  OBVIOUS
<1>9. PICK ext : ext = Append(s, x)
  OBVIOUS
<1>10. /\ list \in Seq(S) /\ Len(list) = (l - k) + 1
       /\ \A i \in 1 .. l - k : list[i] = kept[i]
       /\ list[(l - k) + 1] = x
  BY <1>7, <1>8, AppendProperties
<1>11. /\ ext \in Seq(S) /\ Len(ext) = l + 1
       /\ \A i \in 1 .. l : ext[i] = s[i]
       /\ ext[l + 1] = x
  BY <1>1, <1>9, AppendProperties
<1>12. PICK a : a = SubSeq(list, over + 1, Len(list))
  OBVIOUS
<1>13. PICK b : b = SubSeq(ext, (k + over) + 1, Len(ext))
  OBVIOUS
<1>14. a = Newest(list, n) /\ b = Newest(ext, n)
  BY <1>3, <1>4, <1>10, <1>11, <1>12, <1>13 DEF Newest
<1>15. /\ a \in Seq(S) /\ Len(a) = Len(list) - over
       /\ \A i \in 1 .. Len(list) - over : a[i] = list[i + over]
  <2>1. list \in Seq(S)
    BY <1>10
  <2>2. over <= Len(list)
    BY <1>4, <1>10
  <2> QED
    BY <2>1, <2>2, <1>12, SuffixNamed
<1>16. /\ b \in Seq(S) /\ Len(b) = Len(ext) - (k + over)
       /\ \A i \in 1 .. Len(ext) - (k + over) : b[i] = ext[i + (k + over)]
  <2>1. ext \in Seq(S)
    BY <1>11
  <2>2. k + over <= Len(ext) /\ k + over \in Nat
    BY <1>4, <1>11
  <2> QED
    BY <2>1, <2>2, <1>13, SuffixNamed
<1>17. Len(a) = ((l - k) + 1) - over /\ Len(b) = Len(a)
  <2>1. Len(list) = (l - k) + 1 /\ Len(ext) = l + 1
    BY <1>10, <1>11
  <2>2. Len(a) = Len(list) - over /\ Len(b) = Len(ext) - (k + over)
    BY <1>15, <1>16, Zenon
  <2> QED
    BY <2>1, <2>2
<1>18. ASSUME NEW i \in 1 .. Len(a) PROVE a[i] = b[i]
  <2>1. i \in Nat /\ 1 <= i /\ i + over <= (l - k) + 1
    BY <1>4, <1>17
  <2>2. a[i] = list[i + over] /\ b[i] = ext[i + (k + over)]
    BY <1>15, <1>16, <1>17
  <2>3. CASE i + over = (l - k) + 1
    <3>1. i + (k + over) = l + 1
      BY <2>1, <2>3, <1>4
    <3> QED
      BY <3>1, <2>2, <2>3, <1>10, <1>11
  <2>4. CASE i + over <= l - k
    <3>1. /\ i + over \in 1 .. l - k /\ i + (k + over) \in 1 .. l
          /\ (i + over) + k = i + (k + over)
      BY <2>1, <2>4, <1>4
    <3>2. list[i + over] = kept[i + over] /\ ext[i + (k + over)] = s[i + (k + over)]
      BY <3>1, <1>10, <1>11
    <3>3. kept[i + over] = s[i + (k + over)]
      BY <3>1, <1>7
    <3> QED
      BY <3>2, <3>3, <2>2
  <2> QED
    BY <2>1, <2>3, <2>4, <1>4
<1>19. a = b
  BY <1>15, <1>16, <1>17, <1>18, SeqEqual
<1> QED
  BY <1>5, <1>8, <1>9, <1>14, <1>19

\* Add keeps the list equal to the newest ids of the log.
LEMMA AddOrder ==
    ASSUME NEW id \in Id, NEW c, TypeOK, KeepsNewest
    PROVE  /\ Add(ring, id, c).order = Newest(Append(log, id), MaxCaptures)
           /\ Add(ring, id, c).order \in Seq(Id)
           /\ Len(Add(ring, id, c).order) <= MaxCaptures
<1>1. PICK list : list = Append(ring.order, id)
  OBVIOUS
<1>2. Add(ring, id, c).order = SubSeq(list, Overflow(Len(list)) + 1, Len(list))
  BY <1>1 DEF Add
<1>3. Add(ring, id, c).order = Newest(list, MaxCaptures)
  BY <1>2 DEF Newest, Overflow, Excess
<1>4. log \in Seq(Id) /\ ring.order \in Seq(Id) /\ ring.order = Newest(log, MaxCaptures)
  BY DEF TypeOK, KeepsNewest
<1>5. Newest(list, MaxCaptures) = Newest(Append(log, id), MaxCaptures)
  BY <1>1, <1>4, SlideNewest, MaxAssumption
<1>6. list \in Seq(Id) /\ Len(list) \in Nat
  BY <1>1, <1>4, AppendProperties, LenProperties
<1>7. PICK over : over = Excess(Len(list), MaxCaptures)
  OBVIOUS
<1>8. over \in Nat /\ over <= Len(list) /\ Len(list) - over <= MaxCaptures
  BY <1>6, <1>7, MaxAssumption DEF Excess
<1>9. Newest(list, MaxCaptures) = SubSeq(list, over + 1, Len(list))
  BY <1>7 DEF Newest
<1>10. /\ Newest(list, MaxCaptures) \in Seq(Id)
       /\ Len(Newest(list, MaxCaptures)) = Len(list) - over
  BY <1>6, <1>8, <1>9, SuffixProperties
<1> QED
  BY <1>3, <1>5, <1>8, <1>10

\* Add shifts the extended list to the left by the number of evicted ids.
LEMMA AddElements ==
    ASSUME NEW id \in Id, NEW c, TypeOK
    PROVE  LET list == Append(ring.order, id)
               over == Overflow(Len(list))
               new  == Add(ring, id, c).order
           IN  /\ Len(list) \in Nat /\ over \in Nat /\ over <= Len(list)
               /\ Len(new) = Len(list) - over
               /\ \A i \in 1 .. Len(list) - over : new[i] = list[i + over]
<1>1. PICK list : list = Append(ring.order, id)
  OBVIOUS
<1>2. PICK over : over = Overflow(Len(list))
  OBVIOUS
<1>3. list \in Seq(Id) /\ Len(list) \in Nat
  BY <1>1, AppendProperties, LenProperties DEF TypeOK
<1>4. over \in Nat /\ over <= Len(list)
  BY <1>2, <1>3, MaxAssumption DEF Overflow
<1>5. Add(ring, id, c).order = SubSeq(list, over + 1, Len(list))
  BY <1>1, <1>2 DEF Add
<1>6. /\ Len(Add(ring, id, c).order) = Len(list) - over
      /\ \A i \in 1 .. Len(list) - over : Add(ring, id, c).order[i] = list[i + over]
  BY <1>3, <1>4, <1>5, SuffixProperties
<1> QED
  BY <1>1, <1>2, <1>3, <1>4, <1>6

\* What Add leaves in the map it leaves in the list.
LEMMA AddNoOrphan ==
    ASSUME NEW id \in Id, NEW c, TypeOK, NoOrphan
    PROVE  Stored(Add(ring, id, c)) \subseteq Listed(Add(ring, id, c))
<1>1. PICK list : list = Append(ring.order, id)
  OBVIOUS
<1>2. PICK over : over = Overflow(Len(list))
  OBVIOUS
<1>3. PICK new : new = Add(ring, id, c).order
  OBVIOUS
<1>4. /\ Len(list) \in Nat /\ over \in Nat /\ over <= Len(list)
      /\ Len(new) = Len(list) - over
      /\ \A i \in 1 .. Len(list) - over : new[i] = list[i + over]
  BY <1>1, <1>2, <1>3, AddElements
<1>5. /\ Len(ring.order) \in Nat /\ Len(list) = Len(ring.order) + 1
      /\ \A i \in 1 .. Len(ring.order) : list[i] = ring.order[i]
      /\ list[Len(ring.order) + 1] = id
  BY <1>1, AppendProperties, LenProperties DEF TypeOK
<1> SUFFICES ASSUME NEW x \in Stored(Add(ring, id, c))
             PROVE  \E j \in 1 .. Len(new) : new[j] = x
  BY <1>3 DEF Listed
<1>6. x \in Stored(ring) \cup {id} /\ \A i \in 1 .. over : list[i] # x
  <2>1. /\ x \in Stored(ring) \cup {id}
        /\ \A i \in 1 .. Overflow(Len(Append(ring.order, id))) :
               Append(ring.order, id)[i] # x
    BY AddStored, Zenon
  <2> QED
    BY <2>1, <1>1, <1>2
<1>7. \E i \in 1 .. Len(list) : list[i] = x
  <2>1. CASE x = id
    BY <2>1, <1>5
  <2>2. CASE x \in Stored(ring)
    <3>1. PICK i \in 1 .. Len(ring.order) : ring.order[i] = x
      BY <2>2 DEF NoOrphan, Listed
    <3>2. i \in 1 .. Len(list) /\ list[i] = x
      BY <3>1, <1>5
    <3> QED
      BY <3>2
  <2> QED
    BY <2>1, <2>2, <1>6
<1>8. PICK i \in 1 .. Len(list) : list[i] = x
  BY <1>7
<1>9. i > over
  BY <1>4, <1>6, <1>8
<1>10. i - over \in 1 .. Len(list) - over /\ (i - over) + over = i
  BY <1>4, <1>8, <1>9
<1> QED
  BY <1>4, <1>8, <1>10

\* When no id of the log was added twice, what Add leaves in the list it
\* leaves in the map.
LEMMA AddListed ==
    ASSUME NEW id \in Id, NEW c, TypeOK, KeepsNewest, ListedIsStored,
           Injective(Append(log, id))
    PROVE  Listed(Add(ring, id, c)) \subseteq Stored(Add(ring, id, c))
<1>1. PICK list : list = Append(ring.order, id)
  OBVIOUS
<1>2. PICK over : over = Overflow(Len(list))
  OBVIOUS
<1>3. PICK new : new = Add(ring, id, c).order
  OBVIOUS
<1>4. /\ Len(list) \in Nat /\ over \in Nat /\ over <= Len(list)
      /\ Len(new) = Len(list) - over
      /\ \A i \in 1 .. Len(list) - over : new[i] = list[i + over]
  BY <1>1, <1>2, <1>3, AddElements
<1>5. /\ Len(ring.order) \in Nat /\ Len(list) = Len(ring.order) + 1
      /\ \A i \in 1 .. Len(ring.order) : list[i] = ring.order[i]
      /\ list[Len(ring.order) + 1] = id
  BY <1>1, AppendProperties, LenProperties DEF TypeOK
<1>6. PICK ext : ext = Append(log, id)
  OBVIOUS
<1>7. /\ Len(log) \in Nat /\ Len(ext) = Len(log) + 1
      /\ \A i \in 1 .. Len(log) : ext[i] = log[i]
      /\ ext[Len(log) + 1] = id
  BY <1>6, AppendProperties, LenProperties DEF TypeOK
<1>8. PICK k : k = Excess(Len(log), MaxCaptures)
  OBVIOUS
<1>9. k \in Nat /\ k <= Len(log)
  BY <1>7, <1>8, MaxAssumption DEF Excess
<1>10. ring.order = SubSeq(log, k + 1, Len(log))
  BY <1>8 DEF KeepsNewest, Newest
<1>11. /\ Len(ring.order) = Len(log) - k
       /\ \A i \in 1 .. Len(log) - k : ring.order[i] = log[i + k]
  BY <1>9, <1>10, SuffixProperties DEF TypeOK
<1>12. \A i \in 1 .. Len(list) : list[i] = ext[i + k] /\ i + k \in 1 .. Len(ext)
  <2> SUFFICES ASSUME NEW i \in 1 .. Len(list)
               PROVE  list[i] = ext[i + k] /\ i + k \in 1 .. Len(ext)
    OBVIOUS
  <2>1. CASE i = Len(list)
    <3>1. i = Len(ring.order) + 1 /\ i + k = Len(log) + 1
      BY <2>1, <1>5, <1>7, <1>9, <1>11
    <3> QED
      BY <3>1, <1>5, <1>7
  <2>2. CASE i <= Len(ring.order)
    <3>1. i \in 1 .. Len(ring.order) /\ i \in 1 .. Len(log) - k /\ i + k \in 1 .. Len(log)
      BY <2>2, <1>5, <1>7, <1>9, <1>11
    <3> QED
      BY <3>1, <1>5, <1>7, <1>11
  <2> QED
    BY <2>1, <2>2, <1>4, <1>5
<1>13. \A i, j \in 1 .. Len(ext) : ext[i] = ext[j] => i = j
  BY <1>6 DEF Injective
<1>14. \A i, j \in 1 .. Len(list) : list[i] = list[j] => i = j
  <2> SUFFICES ASSUME NEW i \in 1 .. Len(list), NEW j \in 1 .. Len(list),
                      list[i] = list[j]
               PROVE  i = j
    OBVIOUS
  <2>1. ext[i + k] = ext[j + k] /\ i + k \in 1 .. Len(ext) /\ j + k \in 1 .. Len(ext)
    BY <1>12
  <2>2. i + k = j + k
    BY <2>1, <1>13
  <2> QED
    BY <2>2, <1>4, <1>9
<1>15. Injective(log)
  BY <1>7, <1>13 DEF Injective
<1> SUFFICES ASSUME NEW i \in 1 .. Len(new)
             PROVE  new[i] \in Stored(Add(ring, id, c))
  BY <1>3 DEF Listed
<1>16. i + over \in 1 .. Len(list) /\ new[i] = list[i + over] /\ i + over > over
  BY <1>4
<1>17. new[i] \in Stored(ring) \cup {id}
  <2>1. CASE i + over = Len(list)
    BY <2>1, <1>5, <1>16
  <2>2. CASE i + over <= Len(ring.order)
    <3>1. new[i] = ring.order[i + over] /\ i + over \in 1 .. Len(ring.order)
      BY <2>2, <1>5, <1>16
    <3> QED
      BY <3>1, <1>15 DEF ListedIsStored, Listed
  <2> QED
    BY <2>1, <2>2, <1>5, <1>16
<1>18. \A j \in 1 .. over : list[j] # new[i]
  BY <1>4, <1>14, <1>16
<1> QED
  BY <1>1, <1>2, <1>17, <1>18, AddStored
-----------------------------------------------------------------------------
\* Update changes a capture, never the ids of the list and of the map.
LEMMA UpdateKeepsIds ==
    ASSUME NEW id \in Id, NEW c \in Content, TypeOK
    PROVE  /\ Update(ring, id, c).order = ring.order
           /\ Stored(Update(ring, id, c)) = Stored(ring)
           /\ \A x \in Stored(ring) : Update(ring, id, c).captures[x] \in Content
<1>1. CASE id \in Stored(ring)
  <2>1. Update(ring, id, c).captures = [ring.captures EXCEPT ![id] = c]
    BY <1>1 DEF Update
  <2>2. Update(ring, id, c).order = ring.order
    BY <1>1 DEF Update
  <2> QED
    BY <2>1, <2>2 DEF Stored, TypeOK
<1>2. CASE id \notin Stored(ring)
  BY <1>2 DEF Update, TypeOK
<1> QED
  BY <1>1, <1>2

\* The empty ring satisfies the invariant with an empty log.
LEMMA EmptyRingInv == (ring = EmptyRing /\ log = << >>) => StoreInv
<1> SUFFICES ASSUME ring = EmptyRing, log = << >> PROVE StoreInv
  OBVIOUS
<1>1. Len(ring.order) = 0 /\ ring.order = << >> /\ Stored(ring) = {}
  BY DEF EmptyRing, Stored
<1>2. TypeOK
  BY <1>1, EmptySeq, MaxAssumption DEF TypeOK
<1>3. Newest(log, MaxCaptures) = << >>
  BY SubSeqEmpty, MaxAssumption DEF Newest, Excess
<1> QED
  BY <1>1, <1>2, <1>3 DEF StoreInv, KeepsNewest, NoOrphan, ListedIsStored, Listed

LEMMA InitInv == Init => StoreInv
BY EmptyRingInv DEF Init

\* Every call of a method of the store preserves the invariant.
LEMMA NextInv == StoreInv /\ [Next]_vars => StoreInv'
<1> SUFFICES ASSUME StoreInv, [Next]_vars
             PROVE  StoreInv'
  OBVIOUS
<1> USE DEF StoreInv
<1>1. ASSUME NEW id \in Id, NEW c \in Content, AddCapture(id, c)
      PROVE  StoreInv'
  <2>1. ring' = Add(ring, id, c) /\ log' = Append(log, id)
    BY <1>1 DEF AddCapture
  <2>2. TypeOK'
    <3>1. log' \in Seq(Id)
      BY <2>1, AppendProperties DEF TypeOK
    <3>2. ring'.order \in Seq(Id) /\ Len(ring'.order) <= MaxCaptures
      BY <2>1, AddOrder
    <3>3. \A x \in Stored(ring)' : x \in Id /\ ring'.captures[x] \in Content
      <4>1. Stored(ring)' = Stored(Add(ring, id, c))
        BY <2>1 DEF Stored
      <4> QED
        BY <2>1, <4>1, AddStored, AddCaptures DEF TypeOK
    <3> QED
      BY <3>1, <3>2, <3>3 DEF TypeOK
  <2>3. KeepsNewest'
    BY <2>1, AddOrder DEF KeepsNewest
  <2>4. NoOrphan'
    BY <2>1, AddNoOrphan DEF NoOrphan
  <2>5. ListedIsStored'
    BY <2>1, AddListed DEF ListedIsStored
  <2> QED
    BY <2>2, <2>3, <2>4, <2>5
<1>2. ASSUME NEW id \in Id, NEW c \in Content, UpdateCapture(id, c)
      PROVE  StoreInv'
  <2>1. ring' = Update(ring, id, c) /\ log' = log
    BY <1>2 DEF UpdateCapture
  <2>2. /\ ring'.order = ring.order
        /\ Stored(ring') = Stored(ring)
        /\ \A x \in Stored(ring) : ring'.captures[x] \in Content
    BY <2>1, UpdateKeepsIds
  <2>3. Listed(ring') = Listed(ring)
    BY <2>2 DEF Listed
  <2> QED
    BY <2>1, <2>2, <2>3 DEF TypeOK, KeepsNewest, NoOrphan, ListedIsStored
<1>3. CASE ClearCaptures
  <2>1. (ring = EmptyRing /\ log = << >>)'
    BY <1>3 DEF ClearCaptures, Clear
  <2> QED
    BY <2>1, EmptyRingInv, PTL
<1>4. CASE UNCHANGED vars
  BY <1>4 DEF vars, TypeOK, KeepsNewest, NoOrphan, ListedIsStored
<1> QED
  BY <1>1, <1>2, <1>3, <1>4 DEF Next

\* The invariant holds in every reachable state.
LEMMA StoreInvariant == Spec => []StoreInv
BY InitInv, NextInv, PTL DEF Spec

\* The ring is well formed and never holds more than -max-captures captures.
THEOREM TypeCorrect == Spec => []TypeOK
<1>1. StoreInv => TypeOK
  BY DEF StoreInv
<1> QED
  BY <1>1, StoreInvariant, PTL

\* Eviction forgets the oldest captures and only those.
THEOREM RingKeepsNewest == Spec => []KeepsNewest
<1>1. StoreInv => KeepsNewest
  BY DEF StoreInv
<1> QED
  BY <1>1, StoreInvariant, PTL

\* The map and the list agree: no capture outlives its place in the list,
\* and without collisions every listed id has its capture.
THEOREM RingMapMatchesList == Spec => []MapMatchesList
<1>1. StoreInv => MapMatchesList
  BY DEF StoreInv, MapMatchesList
<1> QED
  BY <1>1, StoreInvariant, PTL
=============================================================================
