-------------------------------- MODULE Ring --------------------------------
(***************************************************************************)
(* The captures half of internal/store/store.go: a map from capture id to  *)
(* capture and the list of ids in the order they were added, bounded by    *)
(* -max-captures.  A value of the ring is a record                         *)
(*     [captures |-> partial function from ids, order |-> sequence of ids] *)
(* and each method of *Store that changes the two fields is an operator    *)
(* from one value to the next: every method holds s.mu from its first      *)
(* access to its last, so the modules that share the ring apply one        *)
(* operator per step.                                                      *)
(***************************************************************************)
EXTENDS Naturals, Sequences

CONSTANT MaxCaptures    \* -max-captures, the argument of store.New

ASSUME MaxAssumption == MaxCaptures \in Nat

\* store.New
EmptyRing == [captures |-> [id \in {} |-> {}], order |-> << >>]

Stored(s) == DOMAIN s.captures

Listed(s) == {s.order[i] : i \in 1 .. Len(s.order)}

\* How many ids the loop of Add pops from the front of a list of n ids.
Overflow(n) == IF n > MaxCaptures THEN n - MaxCaptures ELSE 0

\* The captures once ids are deleted from the map.
Without(captures, ids) == [id \in DOMAIN captures \ ids |-> captures[id]]

\* Mutants of Add: the loop is missing; it pops the newest ids; it forgets
\* the map.
AddUnbounded(s, id, c) ==
    [captures |-> [x \in Stored(s) \cup {id} |-> IF x = id THEN c ELSE s.captures[x]],
     order    |-> Append(s.order, id)]

AddPopsNewest(s, id, c) ==
    LET kept == SubSeq(Append(s.order, id), 1, Len(s.order) + 1 - Overflow(Len(s.order) + 1))
    IN  [captures |-> [x \in {kept[i] : i \in 1 .. Len(kept)} |->
                           IF x = id THEN c ELSE s.captures[x]],
         order    |-> kept]

AddLeaks(s, id, c) ==
    LET list == Append(s.order, id)
    IN  [captures |-> AddUnbounded(s, id, c).captures,
         order    |-> SubSeq(list, Overflow(Len(list)) + 1, Len(list))]

\* Store.Add: the new id goes to the end of the list, then the oldest
\* ids are popped, and deleted from the map, until the list fits.
Add(s, id, c) ==
    LET list    == Append(s.order, id)
        over    == Overflow(Len(list))
        evicted == {list[i] : i \in 1 .. over}
        stored  == [x \in Stored(s) \cup {id} |->
                        IF x = id THEN c ELSE s.captures[x]]
    IN  [captures |-> Without(stored, evicted),
         order    |-> SubSeq(list, over + 1, Len(list))]

\* Store.Update and Mutate, where c is what fn makes of the capture: an
\* id that is not in the map is left alone (the call returns false).
Update(s, id, c) ==
    IF id \in Stored(s)
    THEN [captures |-> [s.captures EXCEPT ![id] = c], order |-> s.order]
    ELSE s

\* Store.Clear
Clear(s) == EmptyRing

\* Store.SnapshotAllSummaries: the ids it lists, skipping the ids of the
\* list that are no longer in the map.
Summaries(s) == SelectSeq(s.order, LAMBDA id : id \in Stored(s))
=============================================================================
