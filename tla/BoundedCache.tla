---------------------------- MODULE BoundedCache ----------------------------
(***************************************************************************)
(* What the interface Cache (cache/Cache.go) promises to its callers,      *)
(* whatever its eviction strategy: a map whose Set may lose entries.  What *)
(* Get returns is what the last Set of the key stored, or nothing; an      *)
(* entry disappears only by Del, by RemoveOldest or to make room in a Set, *)
(* and each one that does is reported to OnEvicted with its value.         *)
(***************************************************************************)
EXTENDS Naturals, FiniteSets

CONSTANTS Keys, Values, Miss

VARIABLES
    contents,  \* the map: a function on the keys that are present
    ret,       \* what the last Get returned
    evicted    \* the entries the last call reported to OnEvicted

vars == <<contents, ret, evicted>>

Entries(map) == {[key |-> k, value |-> map[k]] : k \in DOMAIN map}

\* map with k bound to v, without the entries of lost.
Stored(map, k, v) == [x \in DOMAIN map \union {k} |-> IF x = k THEN v ELSE map[x]]
Without(map, lost) == [x \in DOMAIN map \ {e.key : e \in lost} |-> map[x]]

Init == contents = [k \in {} |-> Miss] /\ ret = Miss /\ evicted = {}

Get(k) ==
    /\ ret' = IF k \in DOMAIN contents THEN contents[k] ELSE Miss
    /\ evicted' = {}
    /\ UNCHANGED contents

\* Storing reports what it drops, the new entry included if it cannot stay.
Set(k, v) ==
    /\ \E lost \in SUBSET Entries(Stored(contents, k, v)) :
        /\ contents' = Without(Stored(contents, k, v), lost)
        /\ evicted' = lost
    /\ UNCHANGED ret

\* A Set of an absent key that fails while it makes room: not stored.
SetFails(k) ==
    /\ k \notin DOMAIN contents
    /\ \E lost \in SUBSET Entries(contents) :
        /\ contents' = Without(contents, lost)
        /\ evicted' = lost
    /\ UNCHANGED ret

Del(k) ==
    /\ evicted' = {e \in Entries(contents) : e.key = k}
    /\ contents' = Without(contents, evicted')
    /\ UNCHANGED ret

\* Dropping one entry, if there is one.
RemoveOldest ==
    /\ evicted' \in SUBSET Entries(contents)
    /\ Cardinality(evicted') <= 1
    /\ contents' = Without(contents, evicted')
    /\ UNCHANGED ret

Next ==
    \/ \E k \in Keys : Get(k) \/ SetFails(k) \/ Del(k)
    \/ \E k \in Keys, v \in Values : Set(k, v)
    \/ RemoveOldest

Spec == Init /\ [][Next]_vars

=============================================================================
