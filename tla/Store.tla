-------------------------------- MODULE Store -------------------------------
(***************************************************************************)
(* The ring of captures under any sequence of calls of its methods.  Ids   *)
(* come from id.New (6 random bytes), which does not rule out a repeated   *)
(* id: Add takes any id, and the properties say what a collision costs.    *)
(***************************************************************************)
EXTENDS Ring, FiniteSets

CONSTANTS Id,       \* capture ids
          Content,  \* what a capture may hold
          MaxLog    \* bound of the run: Adds between two Clears

ASSUME MaxLogAssumption == MaxLog \in Nat

VARIABLES ring,     \* s.captures and s.order
          log       \* history: the ids added since the last Clear

vars == <<ring, log>>

Init == /\ ring = EmptyRing
        /\ log = << >>

AddCapture(id, c) ==
    /\ Len(log) < MaxLog
    /\ ring' = Add(ring, id, c)
    /\ log' = Append(log, id)

UpdateCapture(id, c) ==
    /\ ring' = Update(ring, id, c)
    /\ UNCHANGED log

ClearCaptures ==
    /\ ring' = Clear(ring)
    /\ log' = << >>

Next == \/ \E id \in Id, c \in Content : AddCapture(id, c) \/ UpdateCapture(id, c)
        \/ ClearCaptures

Spec == Init /\ [][Next]_vars

-----------------------------------------------------------------------------
Injective(s) == \A i, j \in 1 .. Len(s) : s[i] = s[j] => i = j

\* How far l exceeds n.
Excess(l, n) == IF l > n THEN l - n ELSE 0

\* The last n elements of s, all of them when there are fewer.
Newest(s, n) == SubSeq(s, Excess(Len(s), n) + 1, Len(s))

\* The list and the map hold ids and captures, and the list never holds more
\* than -max-captures ids between two calls (Add, store.go:88-98).
TypeOK ==
    /\ log \in Seq(Id)
    /\ ring.order \in Seq(Id)
    /\ Len(ring.order) <= MaxCaptures
    /\ Stored(ring) \subseteq Id
    /\ \A id \in Stored(ring) : ring.captures[id] \in Content

\* Whatever the calls, the list holds exactly the most recent Adds since the
\* last Clear, oldest first: eviction takes the oldest and nothing else
\* (store.go:91-97), whatever the size of the ring, zero included.
KeepsNewest == ring.order = Newest(log, MaxCaptures)

\* A capture that can be read is always in the list the UI is shown: the map
\* holds nothing that eviction or Clear has forgotten.
NoOrphan == Stored(ring) \subseteq Listed(ring)

\* While ids do not collide every listed id has its capture.  After a
\* collision it may not: the second eviction of the id finds its entry gone.
ListedIsStored == Injective(log) => Listed(ring) \subseteq Stored(ring)

\* Eviction and Clear take the same ids out of the map and out of the list:
\* nothing leaks (NoOrphan), and SnapshotAll (store.go:160-163) never
\* marshals a nil capture (ListedIsStored).
MapMatchesList == NoOrphan /\ ListedIsStored
=============================================================================
