----------------------------- MODULE CacheLock ------------------------------
(***************************************************************************)
(* The lock around a cache strategy (cache/Cache.go) with LRUCache behind  *)
(* it, down to the pointers of container/list.  Get holds the read lock    *)
(* while LRUCache.Get moves an element to the front, so several of these   *)
(* moves run at once; Set holds the write lock alone.                      *)
(*                                                                         *)
(* A move is six assignments (container/list, move), one step each here:   *)
(* of the outcomes the data race on the pointers allows, those in which    *)
(* the assignments of two goroutines interleave.  Entries all have size 1, *)
(* and values are versions: each Set stores the next one.  A cache that no *)
(* one has used is an empty LRUCache: the two goroutines that may both     *)
(* create it in Get store equal ones.                                      *)
(***************************************************************************)
EXTENDS Integers, FiniteSets

CONSTANTS
    Readers,   \* goroutines that call Get
    Keys,
    Capacity,  \* maxBytes, in entries
    MaxSets,   \* bound on the calls of Set
    MaxRacySets,  \* bound on them in behaviours in which Gets overlap
    Nil

ASSUME BoundsAssumption ==
    Capacity \in Nat \ {0} /\ MaxSets \in Nat /\ MaxRacySets \in 0..MaxSets

Root == 0                 \* &l.root
Elements == 1..MaxSets    \* *list.Element, in order of allocation
ASSUME NilAssumption == Nil \notin Int

VARIABLES
    links,       \* .next and .prev of the elements and the root
    inList,      \* the elements e with e.list == l
    length,      \* l.len
    nbytes,
    keyToEntry,  \* keyToEntry[k]: the element of a key, or Nil
    entry,       \* entry[e]: the key and the value of an allocated element
    sets,        \* calls of Set so far
    writing,     \* a Set holds the write lock, evicting
    pc,          \* pc[r]: 0 outside Get, else the next assignment of its move
    ele,         \* ele[r]: the element r's Get found
    last,        \* history: the version last set for a key
    raced        \* history: two goroutines have been moving elements at once

list == <<links, inList, length>>
vars == <<links, inList, length, nbytes, keyToEntry, entry, sets, writing, pc, ele,
          last, raced>>

-----------------------------------------------------------------------------
SetNext(l, x, y) == [l EXCEPT !.next[x] = y]
SetPrev(l, x, y) == [l EXCEPT !.prev[x] = y]

\* Assignment i of list.move(e, &l.root).
Assign(l, e, i) ==
    CASE i = 1 -> SetNext(l, l.prev[e], l.next[e])
      [] i = 2 -> SetPrev(l, l.next[e], l.prev[e])
      [] i = 3 -> SetPrev(l, e, Root)
      [] i = 4 -> SetNext(l, e, l.next[Root])
      [] i = 5 -> SetNext(l, l.prev[e], e)
      [] i = 6 -> SetPrev(l, l.next[e], e)

\* Assignments 1 and 2: e is taken out of the ring.
Unlinked(l, e) == Assign(Assign(l, e, 1), e, 2)

\* Assignments 3 to 6, which list.insert has too: e is put behind the root.
LinkedFront(l, e) == Assign(Assign(Assign(Assign(l, e, 3), e, 4), e, 5), e, 6)

\* MoveToFront returns at once for an element that is first, or in no list.
Stays(e) == e \notin inList \/ links.next[Root] = e

MovedToFront(e) == IF Stays(e) THEN links ELSE LinkedFront(Unlinked(links, e), e)
PushedFront(e) == LinkedFront(links, e)

\* list.remove: assignments 1 and 2, then both pointers nil.
Removed(e) ==
    LET l == Unlinked(links, e) IN [l EXCEPT !.next[e] = Nil, !.prev[e] = Nil]

NobodyReads == \A r \in Readers : pc[r] = 0

\* The bounds, as guards of Get and Set.
MayOverlap == sets <= MaxRacySets \/ NobodyReads
MaySet == sets < IF raced THEN MaxRacySets ELSE MaxSets

-----------------------------------------------------------------------------
Init ==
    /\ links = [next |-> [e \in Elements \union {Root} |-> IF e = Root THEN Root ELSE Nil],
                prev |-> [e \in Elements \union {Root} |-> IF e = Root THEN Root ELSE Nil]]
    /\ inList = {}
    /\ length = 0
    /\ nbytes = 0
    /\ keyToEntry = [k \in Keys |-> Nil]
    /\ entry = [e \in Elements |-> Nil]
    /\ sets = 0
    /\ writing = FALSE
    /\ pc = [r \in Readers |-> 0]
    /\ ele = [r \in Readers |-> Nil]
    /\ last = [k \in Keys |-> Nil]
    /\ raced = FALSE

\* Get, from RLock to RUnlock: the key is not there.
GetMisses(r, k) ==
    /\ pc[r] = 0 /\ ~writing
    /\ keyToEntry[k] = Nil
    /\ UNCHANGED vars

\* Get, under RLock: the key is there; its element is moved, from now on.
GetFinds(r, k) ==
    /\ pc[r] = 0 /\ ~writing /\ MayOverlap
    /\ keyToEntry[k] # Nil
    /\ ele' = [ele EXCEPT ![r] = keyToEntry[k]]
    /\ pc' = [pc EXCEPT ![r] = IF Stays(keyToEntry[k]) THEN 7 ELSE 1]
    /\ UNCHANGED <<list, nbytes, keyToEntry, entry, sets, writing, last, raced>>

Move(r) ==
    /\ pc[r] \in 1..6
    /\ links' = Assign(links, ele[r], pc[r])
    /\ pc' = [pc EXCEPT ![r] = @ + 1]
    /\ raced' = (raced \/ \E s \in Readers \ {r} : pc[s] \in 2..6)
    /\ UNCHANGED <<inList, length, nbytes, keyToEntry, entry, sets, writing, ele,
                   last>>

\* entry[ele[r]].value is returned, after RUnlock.
Return(r) ==
    /\ pc[r] = 7
    /\ pc' = [pc EXCEPT ![r] = 0]
    /\ ele' = [ele EXCEPT ![r] = Nil]
    /\ UNCHANGED <<list, nbytes, keyToEntry, entry, sets, writing, last, raced>>

\* Mutant: the write lock does not wait for the readers.
UpdateUnlocked(k) ==
    /\ ~writing
    /\ MaySet
    /\ keyToEntry[k] # Nil
    /\ links' = MovedToFront(keyToEntry[k])
    /\ entry' = [entry EXCEPT ![keyToEntry[k]].value = sets + 1]
    /\ sets' = sets + 1
    /\ last' = [last EXCEPT ![k] = sets + 1]
    /\ UNCHANGED <<inList, length, nbytes, keyToEntry, writing, pc, ele, raced>>

\* Set of a key that is there, from Lock to Unlock.
Update(k) ==
    /\ NobodyReads /\ ~writing
    /\ MaySet
    /\ keyToEntry[k] # Nil
    /\ links' = MovedToFront(keyToEntry[k])
    /\ entry' = [entry EXCEPT ![keyToEntry[k]].value = sets + 1]
    /\ sets' = sets + 1
    /\ last' = [last EXCEPT ![k] = sets + 1]
    /\ UNCHANGED <<inList, length, nbytes, keyToEntry, writing, pc, ele, raced>>

\* Mutant: the write lock does not wait for the readers.
InsertUnlocked(k) ==
    LET e == sets + 1 IN
    /\ ~writing
    /\ MaySet
    /\ keyToEntry[k] = Nil
    /\ links' = PushedFront(e)
    /\ inList' = inList \union {e}
    /\ length' = length + 1
    /\ keyToEntry' = [keyToEntry EXCEPT ![k] = e]
    /\ entry' = [entry EXCEPT ![e] = [key |-> k, value |-> sets + 1]]
    /\ nbytes' = nbytes + 1
    /\ sets' = sets + 1
    /\ last' = [last EXCEPT ![k] = sets + 1]
    /\ writing' = TRUE
    /\ UNCHANGED <<pc, ele, raced>>

\* Set of a new key: Lock, PushFront of a new element, and on to the loop.
Insert(k) ==
    LET e == sets + 1 IN
    /\ NobodyReads /\ ~writing
    /\ MaySet
    /\ keyToEntry[k] = Nil
    /\ links' = PushedFront(e)
    /\ inList' = inList \union {e}
    /\ length' = length + 1
    /\ keyToEntry' = [keyToEntry EXCEPT ![k] = e]
    /\ entry' = [entry EXCEPT ![e] = [key |-> k, value |-> sets + 1]]
    /\ nbytes' = nbytes + 1
    /\ sets' = sets + 1
    /\ last' = [last EXCEPT ![k] = sets + 1]
    /\ writing' = TRUE
    /\ UNCHANGED <<pc, ele, raced>>

\* Mutant: the key stays in the map.
EvictFromList ==
    /\ writing /\ nbytes > Capacity
    /\ LET e == links.prev[Root] IN
       /\ e # Root
       /\ IF e \in inList
          THEN links' = Removed(e) /\ inList' = inList \ {e} /\ length' = length - 1
          ELSE UNCHANGED list
       /\ nbytes' = nbytes - 1
    /\ UNCHANGED <<keyToEntry, entry, sets, writing, pc, ele, last, raced>>

\* RemoveOldest of the element Back returns; list.Remove does nothing for one
\* that is in no list.
Evict ==
    /\ writing /\ nbytes > Capacity
    /\ LET e == links.prev[Root] IN
       /\ length > 0 /\ e # Root
       /\ IF e \in inList
          THEN links' = Removed(e) /\ inList' = inList \ {e} /\ length' = length - 1
          ELSE UNCHANGED list
       /\ keyToEntry' = [keyToEntry EXCEPT ![entry[e].key] = Nil]
       /\ nbytes' = nbytes - 1
    /\ UNCHANGED <<entry, sets, writing, pc, ele, last, raced>>

\* Back returned the root, which has no entry: the type assertion panics, and
\* the deferred Unlock runs.
EvictPanics ==
    /\ writing /\ nbytes > Capacity
    /\ length > 0 /\ links.prev[Root] = Root
    /\ writing' = FALSE
    /\ UNCHANGED <<list, nbytes, keyToEntry, entry, sets, pc, ele, last, raced>>

\* There is room: Unlock.
Unlock ==
    /\ writing /\ nbytes <= Capacity
    /\ writing' = FALSE
    /\ UNCHANGED <<list, nbytes, keyToEntry, entry, sets, pc, ele, last, raced>>

Next ==
    \/ \E r \in Readers, k \in Keys : GetMisses(r, k) \/ GetFinds(r, k)
    \/ \E r \in Readers : Move(r) \/ Return(r)
    \/ \E k \in Keys : Update(k) \/ Insert(k)
    \/ Evict \/ EvictPanics \/ Unlock

Spec == Init /\ [][Next]_vars

-----------------------------------------------------------------------------
\* Whatever happened to the list, the map leads from a key to an element that is
\* in the list and holds the key with the value last set for it, and so does the
\* element a Get has found: it never returns another key's data or an old value
\* (Cache.go:29-53).
MapHoldsLastSet ==
    /\ \A k \in Keys : keyToEntry[k] # Nil =>
        /\ keyToEntry[k] \in inList
        /\ entry[keyToEntry[k]] = [key |-> k, value |-> last[k]]
    /\ \A r \in Readers : pc[r] # 0 =>
        \E k \in Keys : ele[r] = keyToEntry[k]

\* No move dereferences nil: the element a Get found, and those its assignments
\* go through, stay allocated and linked while it is under way.
NeverNil ==
    \A e \in inList \union {Root} : links.next[e] # Nil /\ links.prev[e] # Nil

Linked == {keyToEntry[k] : k \in Keys} \ {Nil}
Ring == Linked \union {Root}

\* While nobody moves or evicts, the list is a ring through the root of exactly
\* the elements the map knows, the same in both directions, and as long as l.len
\* and nbytes say.
Whole ==
    (NobodyReads /\ ~writing) =>
        /\ \A e \in Ring : links.next[e] \in Ring /\ links.prev[links.next[e]] = e
        /\ \A part \in SUBSET Ring :
            (Root \in part /\ \A e \in part : links.next[e] \in part) => part = Ring
        /\ length = Cardinality(Linked) /\ nbytes = Cardinality(Linked)

\* Until two Gets have moved elements at once, the list stays whole, through any
\* sequence of Sets, evictions and Gets (Cache.go:29-53 over container/list).
RingWhole == ~raced => Whole

\* The lock makes concurrent use of the cache safe ("the cache is made concurrent
\* by a lock", README.md:70): the list stays whole after any number of Gets.
ConcurrentGetsAreSafe == Whole

=============================================================================
