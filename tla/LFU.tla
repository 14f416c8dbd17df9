-------------------------------- MODULE LFU ---------------------------------
(***************************************************************************)
(* LFUCache (cache/LFU.go): for each use count a list of the entries with  *)
(* that count, from the most to the least recently used.  Each operation   *)
(* is one step.  An element of a list is named by its key.                 *)
(*                                                                         *)
(* RemoveOldest takes the back of the list minFreq names; when that list   *)
(* is not there it panics, with what it and its caller had done in place   *)
(* (the callers recover).                                                  *)
(***************************************************************************)
EXTENDS Integers, Sequences, FiniteSets, SequencesExt

CONSTANTS
    Keys, Values,
    KeyLen,      \* KeyLen[k]: len(key)
    ValueLen,    \* ValueLen[v]: value.Len()
    Capacities,  \* the maxBytes NewLFUCache is given
    MaxFreq,     \* bound on the uses of one entry
    Miss

ASSUME LenAssumption ==
    KeyLen \in [Keys -> Nat] /\ ValueLen \in [Values -> Nat]
ASSUME CapacityAssumption == Capacities \subseteq Int
ASSUME FreqAssumption == MaxFreq \in Nat \ {0}
ASSUME MissAssumption == Miss \notin Values

VARIABLES
    maxBytes, nBytes, minFreq,
    keyToEntry,  \* from the keys present to their entries
    freqToList,  \* from use counts to the non-empty lists
    ret,         \* what the last Get returned
    evicted,     \* the entries the last call passed to OnEvicted
    panicked,    \* the last call panicked
    recent       \* history: the keys by last use (Get that hit, or Set)

vars == <<maxBytes, nBytes, minFreq, keyToEntry, freqToList, ret, evicted,
          panicked, recent>>

Freqs == 1..MaxFreq
LFUEntry == [value: Values, freq: Freqs]

EntrySize(k, v) == KeyLen[k] + ValueLen[v] + 8

At(list, k) == CHOOSE i \in DOMAIN list : list[i] = k
Drop(f, x) == [y \in DOMAIN f \ {x} |-> f[y]]
Put(f, x, v) == [y \in DOMAIN f \union {x} |-> IF y = x THEN v ELSE f[y]]

Used(k) == <<k>> \o RemoveFirst(recent, k)

\* list.Remove of k's element; a list that is empty then is deleted.
ListWithout(lists, freq, k) ==
    LET list == RemoveAt(lists[freq], At(lists[freq], k)) IN
    IF list = <<>> THEN Drop(lists, freq) ELSE [lists EXCEPT ![freq] = list]

\* Mutant: a list that is there is replaced.
PushedAnew(lists, freq, k) == Put(lists, freq, <<k>>)

\* Mutant: pushed to the back.
PushedBack(lists, freq, k) ==
    Put(lists, freq, (IF freq \in DOMAIN lists THEN lists[freq] ELSE <<>>) \o <<k>>)

\* list.PushFront, in a new list if there is none.
Pushed(lists, freq, k) ==
    Put(lists, freq, <<k>> \o (IF freq \in DOMAIN lists THEN lists[freq] ELSE <<>>))

-----------------------------------------------------------------------------
Init ==
    /\ maxBytes \in Capacities
    /\ nBytes = 0
    /\ minFreq = 1
    /\ keyToEntry = <<>>
    /\ freqToList = <<>>
    /\ ret = Miss
    /\ evicted = {}
    /\ panicked = FALSE
    /\ recent = <<>>

\* GetEntry of a key that is there: its entry, now with value v, moves to the
\* next list up.
Bump(k, v) ==
    LET freq == keyToEntry[k].freq
        rest == ListWithout(freqToList, freq, k)
    IN
    /\ freq < MaxFreq
    /\ freqToList' = Pushed(rest, freq + 1, k)
    /\ keyToEntry' = [keyToEntry EXCEPT ![k] = [value |-> v, freq |-> freq + 1]]
    /\ minFreq' = IF freq \notin DOMAIN rest /\ minFreq = freq THEN minFreq + 1 ELSE minFreq
    /\ recent' = Used(k)
    /\ evicted' = {}
    /\ panicked' = FALSE

Hit(k) ==
    /\ k \in DOMAIN keyToEntry
    /\ Bump(k, keyToEntry[k].value)
    /\ ret' = keyToEntry[k].value
    /\ UNCHANGED <<maxBytes, nBytes>>

NotFound(k) ==
    /\ k \notin DOMAIN keyToEntry
    /\ ret' = Miss
    /\ evicted' = {}
    /\ panicked' = FALSE
    /\ UNCHANGED <<maxBytes, nBytes, minFreq, keyToEntry, freqToList, recent>>

Get(k) == Hit(k) \/ NotFound(k)

\* Mutant: the new value is not accounted for.
UpdateUncounted(k, v) ==
    /\ k \in DOMAIN keyToEntry
    /\ Bump(k, v)
    /\ UNCHANGED <<maxBytes, nBytes, ret>>

\* Set of a key that is there.
Update(k, v) ==
    /\ k \in DOMAIN keyToEntry
    /\ Bump(k, v)
    /\ nBytes' = nBytes + ValueLen[v] - ValueLen[keyToEntry[k].value]
    /\ UNCHANGED <<maxBytes, ret>>

\* What n calls of RemoveOldest in a row take: minFreq does not change
\* between them, so all come from the back of one list.
Victims(n) == IF n = 0 THEN {} ELSE
    LET list == freqToList[minFreq]
    IN ToSet(SubSeq(list, Len(list) - n + 1, Len(list)))

\* The bytes of the entries of keys, one by one.
Bytes(keys) == UNION {{k} \X (1..EntrySize(k, keyToEntry[k].value)) : k \in keys}
VictimsSize(n) == Cardinality(Bytes(Victims(n)))

Available == IF minFreq \in DOMAIN freqToList THEN Len(freqToList[minFreq]) ELSE 0

ListsWithoutVictims(n) ==
    IF n = 0 THEN freqToList
    ELSE IF n = Available THEN Drop(freqToList, minFreq)
    ELSE [freqToList EXCEPT ![minFreq] = SubSeq(@, 1, Len(@) - n)]

EntriesWithoutVictims(n) == [k \in DOMAIN keyToEntry \ Victims(n) |-> keyToEntry[k]]

\* Mutant: OnEvicted is not called.
ReportNothing(n) == evicted' = {}

ReportVictims(n) ==
    evicted' = {[key |-> k, value |-> keyToEntry[k].value] : k \in Victims(n)}

HasRoom(size, n) == maxBytes <= 0 \/ nBytes - VictimsSize(n) + size <= maxBytes

\* Mutant: minFreq is not reset for the new entry.
InsertKeepsMinFreq(k, v) ==
    /\ k \notin DOMAIN keyToEntry
    /\ \E n \in 0..Available :
        /\ HasRoom(EntrySize(k, v), n)
        /\ \A fewer \in 0..(n - 1) : ~HasRoom(EntrySize(k, v), fewer)
        /\ freqToList' = Pushed(ListsWithoutVictims(n), 1, k)
        /\ keyToEntry' = Put(EntriesWithoutVictims(n), k, [value |-> v, freq |-> 1])
        /\ nBytes' = nBytes - VictimsSize(n) + EntrySize(k, v)
        /\ ReportVictims(n)
    /\ recent' = Used(k)
    /\ panicked' = FALSE
    /\ UNCHANGED <<maxBytes, minFreq, ret>>

\* Set of a new key: n entries are evicted until there is room, then the entry
\* becomes the first of those used once.
Insert(k, v) ==
    /\ k \notin DOMAIN keyToEntry
    /\ \E n \in 0..Available :
        /\ HasRoom(EntrySize(k, v), n)
        /\ \A fewer \in 0..(n - 1) : ~HasRoom(EntrySize(k, v), fewer)
        /\ freqToList' = Pushed(ListsWithoutVictims(n), 1, k)
        /\ keyToEntry' = Put(EntriesWithoutVictims(n), k, [value |-> v, freq |-> 1])
        /\ nBytes' = nBytes - VictimsSize(n) + EntrySize(k, v)
        /\ ReportVictims(n)
    /\ minFreq' = 1
    /\ recent' = Used(k)
    /\ panicked' = FALSE
    /\ UNCHANGED <<maxBytes, ret>>

\* There is still no room when the list minFreq names is used up: the next
\* RemoveOldest panics, before the new entry is anywhere.
InsertPanics(k, v) ==
    /\ k \notin DOMAIN keyToEntry
    /\ \A n \in 0..Available : ~HasRoom(EntrySize(k, v), n)
    /\ freqToList' = ListsWithoutVictims(Available)
    /\ keyToEntry' = EntriesWithoutVictims(Available)
    /\ nBytes' = nBytes - VictimsSize(Available)
    /\ ReportVictims(Available)
    /\ panicked' = TRUE
    /\ UNCHANGED <<maxBytes, minFreq, ret, recent>>

Set(k, v) == Update(k, v) \/ Insert(k, v) \/ InsertPanics(k, v)

\* Mutant: the largest integer is left when there is no list.
LeastFreqUnreset(lists) ==
    IF DOMAIN lists = {} THEN MaxFreq + 1
    ELSE CHOOSE f \in DOMAIN lists : \A g \in DOMAIN lists : f <= g

\* The least use count left, 0 when the cache is empty.
LeastFreq(lists) ==
    IF DOMAIN lists = {} THEN 0
    ELSE CHOOSE f \in DOMAIN lists : \A g \in DOMAIN lists : f <= g

Del(k) ==
    /\ IF k \in DOMAIN keyToEntry
       THEN LET freq == keyToEntry[k].freq
                rest == ListWithout(freqToList, freq, k)
            IN
            /\ freqToList' = rest
            /\ keyToEntry' = Drop(keyToEntry, k)
            /\ minFreq' = IF freq \notin DOMAIN rest /\ minFreq = freq
                          THEN LeastFreq(rest) ELSE minFreq
            /\ nBytes' = nBytes - EntrySize(k, keyToEntry[k].value)
            /\ evicted' = {[key |-> k, value |-> keyToEntry[k].value]}
       ELSE evicted' = {} /\ UNCHANGED <<freqToList, keyToEntry, minFreq, nBytes>>
    /\ panicked' = FALSE
    /\ UNCHANGED <<maxBytes, ret, recent>>

RemoveOldest ==
    /\ IF Available > 0
       THEN /\ freqToList' = ListsWithoutVictims(1)
            /\ keyToEntry' = EntriesWithoutVictims(1)
            /\ nBytes' = nBytes - VictimsSize(1)
            /\ ReportVictims(1)
            /\ panicked' = FALSE
       ELSE /\ evicted' = {} /\ panicked' = TRUE
            /\ UNCHANGED <<freqToList, keyToEntry, nBytes>>
    /\ UNCHANGED <<maxBytes, minFreq, ret, recent>>

Next ==
    \/ \E k \in Keys : Get(k) \/ Del(k)
    \/ \E k \in Keys, v \in Values : Set(k, v)
    \/ RemoveOldest

Spec == Init /\ [][Next]_vars

-----------------------------------------------------------------------------
TypeOK ==
    /\ maxBytes \in Capacities /\ nBytes \in Int /\ minFreq \in 0..MaxFreq
    /\ DOMAIN keyToEntry \subseteq Keys
    /\ \A k \in DOMAIN keyToEntry : keyToEntry[k] \in LFUEntry
    /\ DOMAIN freqToList \subseteq Freqs
    /\ \A f \in DOMAIN freqToList : freqToList[f] \in Seq(Keys) \ {<<>>}
    /\ ret \in Values \union {Miss}
    /\ evicted \subseteq [key: Keys, value: Values]
    /\ panicked \in BOOLEAN
    /\ recent \in Seq(Keys)

\* Each entry is once in the list of its own use count and nowhere else, also
\* after a call that panicked half-way: no element is left behind when its
\* count changes (GetEntry, l. 43-66; Del, l. 98-123; RemoveOldest, l. 131-141).
ListsMatchMap ==
    /\ \A k \in DOMAIN keyToEntry : \A f \in DOMAIN freqToList :
        k \in ToSet(freqToList[f]) <=> f = keyToEntry[k].freq
    /\ \A k \in DOMAIN keyToEntry : keyToEntry[k].freq \in DOMAIN freqToList
    /\ \A f \in DOMAIN freqToList :
        /\ ToSet(freqToList[f]) \subseteq DOMAIN keyToEntry
        /\ \A i, j \in DOMAIN freqToList[f] :
            freqToList[f][i] = freqToList[f][j] => i = j

\* nBytes is what the entries take, the 8 bytes of the count included (l. 73, 82,
\* 124, 142).
SizeIsExact == nBytes = Cardinality(Bytes(DOMAIN keyToEntry))

\* minFreq never passes the least count in use, and is it whenever its list is
\* there: RemoveOldest, which leaves minFreq alone, never evicts a frequently
\* used entry in place of a rarely used one.
MinFreqIsLeast ==
    keyToEntry # <<>> =>
        /\ minFreq <= LeastFreq(freqToList)
        /\ minFreq \in DOMAIN freqToList => minFreq = LeastFreq(freqToList)

Age(k) == CHOOSE i \in DOMAIN recent : recent[i] = k

\* What is evicted to make room was used least often, and longest ago of those
\* used as often.
DropsLeastUsed ==
    [][(RemoveOldest \/ \E k \in Keys, v \in Values : Set(k, v)) =>
        \A gone \in evicted' : \A k \in DOMAIN keyToEntry' \intersect DOMAIN keyToEntry :
            \/ keyToEntry[gone.key].freq < keyToEntry[k].freq
            \/ /\ keyToEntry[gone.key].freq = keyToEntry[k].freq
               /\ Age(k) < Age(gone.key)]_vars

\* A Set of a new key whose entry fits in the bound makes room for it ("when it
\* is full the oldest node is removed", LFU_test.go:26).
SetMakesRoom ==
    [][\A k \in Keys, v \in Values :
        (/\ Set(k, v) /\ k \notin DOMAIN keyToEntry
         /\ EntrySize(k, v) <= maxBytes) => ~panicked']_vars

Abstract == INSTANCE BoundedCache WITH
    contents <- [k \in DOMAIN keyToEntry |-> keyToEntry[k].value]

\* An LFUCache is a bounded cache, whose Set of a new key may fail.
IsBoundedCache == Abstract!Spec

=============================================================================
