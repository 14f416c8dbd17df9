-------------------------------- MODULE LRU ---------------------------------
(***************************************************************************)
(* LRUCache (cache/LRU.go): a list from the most to the least recently     *)
(* used entry, and a map from keys to the list's elements.  Each operation *)
(* is one step: the strategy itself takes no lock and has no callbacks     *)
(* that come back to it.  An element of the list is named by its key.      *)
(***************************************************************************)
EXTENDS Integers, Sequences, FiniteSets, SequencesExt

CONSTANTS
    Keys, Values,
    KeyLen,      \* KeyLen[k]: len(key)
    ValueLen,    \* ValueLen[v]: value.Len()
    Capacities,  \* the maxBytes NewLRU is given
    Miss

ASSUME LenAssumption ==
    KeyLen \in [Keys -> Nat] /\ ValueLen \in [Values -> Nat]
ASSUME CapacityAssumption == Capacities \subseteq Int
ASSUME MissAssumption == Miss \notin Values

VARIABLES
    maxBytes,    \* set once; not positive means unbounded
    nbytes,
    ll,          \* front to back
    keyToEntry,  \* the keys of the map
    ret,         \* what the last Get returned
    evicted,     \* the entries the last call passed to OnEvicted
    recent       \* history: the keys by last use (Get that hit, or Set)

vars == <<maxBytes, nbytes, ll, keyToEntry, ret, evicted, recent>>

Entry == [key: Keys, value: Values]

KeysOf(list) == {list[i].key : i \in DOMAIN list}
At(list, k) == CHOOSE i \in DOMAIN list : list[i].key = k
EntrySize(entry) == KeyLen[entry.key] + ValueLen[entry.value]

\* The bytes of a list's entries, one by one.  (A list has an entry at most once.)
Bytes(entries) == UNION {{e} \X (1..EntrySize(e)) : e \in entries}
Size(list) == Cardinality(Bytes(ToSet(list)))

\* ll.Remove of k's element
Without(list, k) == RemoveAt(list, At(list, k))

\* ll.MoveToFront of k's element
MovedToFront(list, k) == <<list[At(list, k)]>> \o Without(list, k)

Used(k) == <<k>> \o RemoveFirst(recent, k)

-----------------------------------------------------------------------------
Init ==
    /\ maxBytes \in Capacities
    /\ nbytes = 0
    /\ ll = <<>>
    /\ keyToEntry = {}
    /\ ret = Miss
    /\ evicted = {}
    /\ recent = <<>>

Get(k) ==
    /\ IF k \in keyToEntry
       THEN /\ ll' = MovedToFront(ll, k)
            /\ ret' = ll[At(ll, k)].value
            /\ recent' = Used(k)
       ELSE ret' = Miss /\ UNCHANGED <<ll, recent>>
    /\ evicted' = {}
    /\ UNCHANGED <<maxBytes, nbytes, keyToEntry>>

\* Mutant: the new value is not accounted for.
UpdateUncounted(k, v) ==
    /\ k \in keyToEntry
    /\ ll' = [MovedToFront(ll, k) EXCEPT ![1].value = v]
    /\ recent' = Used(k)
    /\ evicted' = {}
    /\ UNCHANGED <<maxBytes, nbytes, keyToEntry, ret>>

\* Set of a key that is there: moved to the front and its value replaced.
Update(k, v) ==
    /\ k \in keyToEntry
    /\ nbytes' = nbytes + ValueLen[v] - ValueLen[ll[At(ll, k)].value]
    /\ ll' = [MovedToFront(ll, k) EXCEPT ![1].value = v]
    /\ recent' = Used(k)
    /\ evicted' = {}
    /\ UNCHANGED <<maxBytes, keyToEntry, ret>>

\* Mutant: a full cache has no room.
FitsStrictly(list, bytes, n) ==
    \/ maxBytes <= 0
    \/ bytes - Size(SubSeq(list, n + 1, Len(list))) < maxBytes

\* The loop of Set has room after dropping the oldest entries of list but the
\* first n.
Fits(list, bytes, n) ==
    \/ maxBytes <= 0
    \/ bytes - Size(SubSeq(list, n + 1, Len(list))) <= maxBytes

\* Set of a new key: pushed to the front, then the oldest dropped until the
\* cache is within maxBytes.
Insert(k, v) ==
    LET list == <<[key |-> k, value |-> v]>> \o ll
        bytes == nbytes + KeyLen[k] + ValueLen[v]
    IN
    /\ k \notin keyToEntry
    /\ \E n \in 0..Len(list) :
        /\ Fits(list, bytes, n)
        /\ \A more \in (n + 1)..Len(list) : ~Fits(list, bytes, more)
        /\ ll' = SubSeq(list, 1, n)
        /\ evicted' = ToSet(SubSeq(list, n + 1, Len(list)))
        /\ keyToEntry' = (keyToEntry \union {k}) \ {e.key : e \in evicted'}
        /\ nbytes' = bytes - Size(SubSeq(list, n + 1, Len(list)))
    /\ recent' = Used(k)
    /\ UNCHANGED <<maxBytes, ret>>

Set(k, v) == Update(k, v) \/ Insert(k, v)

\* Mutant: OnEvicted is not called.
DelSilently(k) ==
    /\ IF k \in keyToEntry
       THEN /\ ll' = Without(ll, k)
            /\ keyToEntry' = keyToEntry \ {k}
            /\ nbytes' = nbytes - EntrySize(ll[At(ll, k)])
       ELSE UNCHANGED <<ll, keyToEntry, nbytes>>
    /\ evicted' = {}
    /\ UNCHANGED <<maxBytes, ret, recent>>

Del(k) ==
    /\ IF k \in keyToEntry
       THEN /\ ll' = Without(ll, k)
            /\ keyToEntry' = keyToEntry \ {k}
            /\ nbytes' = nbytes - EntrySize(ll[At(ll, k)])
            /\ evicted' = {ll[At(ll, k)]}
       ELSE evicted' = {} /\ UNCHANGED <<ll, keyToEntry, nbytes>>
    /\ UNCHANGED <<maxBytes, ret, recent>>

\* Mutant: the key is left in the map.
RemoveFromList ==
    /\ IF ll # <<>>
       THEN /\ ll' = Front(ll)
            /\ nbytes' = nbytes - EntrySize(Last(ll))
            /\ evicted' = {Last(ll)}
       ELSE evicted' = {} /\ UNCHANGED <<ll, nbytes>>
    /\ UNCHANGED <<maxBytes, keyToEntry, ret, recent>>

\* Mutant: the front of the list is removed.
RemoveNewest ==
    /\ IF ll # <<>>
       THEN /\ ll' = Tail(ll)
            /\ keyToEntry' = keyToEntry \ {Head(ll).key}
            /\ nbytes' = nbytes - EntrySize(Head(ll))
            /\ evicted' = {Head(ll)}
       ELSE evicted' = {} /\ UNCHANGED <<ll, keyToEntry, nbytes>>
    /\ UNCHANGED <<maxBytes, ret, recent>>

RemoveOldest ==
    /\ IF ll # <<>>
       THEN /\ ll' = Front(ll)
            /\ keyToEntry' = keyToEntry \ {Last(ll).key}
            /\ nbytes' = nbytes - EntrySize(Last(ll))
            /\ evicted' = {Last(ll)}
       ELSE evicted' = {} /\ UNCHANGED <<ll, keyToEntry, nbytes>>
    /\ UNCHANGED <<maxBytes, ret, recent>>

Next ==
    \/ \E k \in Keys : Get(k) \/ Del(k)
    \/ \E k \in Keys, v \in Values : Set(k, v)
    \/ RemoveOldest

Spec == Init /\ [][Next]_vars

-----------------------------------------------------------------------------
\* The list and the map hold the same keys, each once: no element is left in one
\* of them by an eviction, a deletion or a re-insertion (l. 35-100).
ListMatchesMap ==
    /\ KeysOf(ll) = keyToEntry
    /\ \A i, j \in DOMAIN ll : ll[i].key = ll[j].key => i = j

\* nbytes is what the entries really take: the loop of Set ends, and evicts no
\* more and no less than it has to (l. 54, 64, 81, 95).
SizeIsExact == nbytes = Size(ll)

\* Position of a key in the history, from the most recent.
Age(k) == CHOOSE i \in DOMAIN recent' : recent'[i] = k

\* Whoever makes room drops older entries than all it keeps (LRU_test.go:26,
\* "when it is full the oldest node is removed").
DropsOldest ==
    [][(RemoveOldest \/ \E k \in Keys, v \in Values : Set(k, v)) =>
        \A gone \in evicted' : \A k \in keyToEntry' : Age(k) < Age(gone.key)]_vars

\* A Set whose entry fits alone leaves it in the cache, and a Set of a new key
\* leaves the cache within its bound.
SetMakesRoom ==
    [][\A k \in Keys, v \in Values :
        Set(k, v) =>
            /\ (maxBytes <= 0 \/ KeyLen[k] + ValueLen[v] <= maxBytes)
                => [key |-> k, value |-> v] \in ToSet(ll')
            /\ (k \notin keyToEntry /\ maxBytes > 0) => nbytes' <= maxBytes]_vars

Abstract == INSTANCE BoundedCache WITH
    contents <- [k \in keyToEntry |-> ll[At(ll, k)].value]

\* Whatever the order of calls, an LRUCache is a bounded cache: it returns what
\* was last set or nothing, and reports every entry it drops.
IsBoundedCache == Abstract!Spec

=============================================================================
