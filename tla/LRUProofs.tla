----------------------------- MODULE LRUProofs ------------------------------
(***************************************************************************)
(* Proofs about LRU, for any keys, values, sizes and bounds: the list and  *)
(* the map agree in every reachable state, and so every step is one of the *)
(* BoundedCache whose entries are those of the list.  The list is ordered  *)
(* by last use (Aged), so that the oldest entries are dropped, and nbytes  *)
(* is the number of bytes of its entries (Sized), so that Set makes room.  *)
(***************************************************************************)
EXTENDS LRU, SequenceTheorems, FiniteSetTheorems, TLAPS

\* The keys of a list of entries, each once.
Unique(list) == \A i, j \in DOMAIN list : list[i].key = list[j].key => i = j

\* The part of the state the list and the map depend on.
IInv == ll \in Seq(Entry) /\ ListMatchesMap

\* The position of a key that is in the list.
LEMMA AtFacts ==
  ASSUME NEW list \in Seq(Entry), NEW k \in KeysOf(list)
  PROVE  At(list, k) \in 1..Len(list) /\ list[At(list, k)].key = k
  <1>1. \E i \in DOMAIN list : list[i].key = k
    BY DEF KeysOf
  <1>2. At(list, k) \in DOMAIN list /\ list[At(list, k)].key = k
    BY <1>1 DEF At
  <1> QED BY <1>2

\* Removing an element: the others stay, in order.
LEMMA RemoveAtFacts ==
  ASSUME NEW S, NEW list \in Seq(S), NEW i \in 1..Len(list)
  PROVE  /\ RemoveAt(list, i) \in Seq(S)
         /\ Len(RemoveAt(list, i)) = Len(list) - 1
         /\ \A j \in 1..(Len(list) - 1) :
                RemoveAt(list, i)[j] = IF j < i THEN list[j] ELSE list[j + 1]
  <1> DEFINE left == SubSeq(list, 1, i - 1)
             right == SubSeq(list, i + 1, Len(list))
  <1>0. Len(list) \in Nat /\ i \in Nat /\ 1 <= i /\ i <= Len(list)
    OBVIOUS
  <1>1. left \in Seq(S) /\ Len(left) = i - 1 /\ \A j \in 1..(i - 1) : left[j] = list[j]
    OBVIOUS
  <1>2. /\ right \in Seq(S) /\ Len(right) = Len(list) - i
        /\ \A j \in 1..(Len(list) - i) : right[j] = list[i + j]
    OBVIOUS
  <1>3. RemoveAt(list, i) = left \o right
    BY DEF RemoveAt
  <1> HIDE DEF left, right
  <1>4. /\ left \o right \in Seq(S)
        /\ Len(left \o right) = Len(left) + Len(right)
        /\ \A j \in 1..(Len(left) + Len(right)) : (left \o right)[j] =
               IF j <= Len(left) THEN left[j] ELSE right[j - Len(left)]
    BY <1>1, <1>2, ConcatProperties
  <1>5. Len(left) + Len(right) = Len(list) - 1
    BY <1>0, <1>1, <1>2
  <1>6. ASSUME NEW j \in 1..(Len(list) - 1)
        PROVE  RemoveAt(list, i)[j] = IF j < i THEN list[j] ELSE list[j + 1]
    <2>1. RemoveAt(list, i)[j] = IF j <= i - 1 THEN left[j] ELSE right[j - (i - 1)]
      BY <1>1, <1>3, <1>4, <1>5
    <2>2. CASE j < i
      <3>1. j \in 1..(i - 1) /\ j <= i - 1
        BY <1>0, <2>2
      <3> QED BY <1>1, <2>1, <2>2, <3>1
    <2>3. CASE ~(j < i)
      <3>1. j - (i - 1) \in 1..(Len(list) - i) /\ ~(j <= i - 1) /\ i + (j - (i - 1)) = j + 1
        BY <1>0, <2>3
      <3>2. right[j - (i - 1)] = list[i + (j - (i - 1))]
        BY <1>2, <3>1
      <3> QED BY <2>1, <2>3, <3>1, <3>2
    <2> QED BY <2>2, <2>3
  <1> QED BY <1>3, <1>4, <1>5, <1>6

\* Removing the element of a key removes that key and no other.
LEMMA WithoutFacts ==
  ASSUME NEW list \in Seq(Entry), Unique(list), NEW k \in KeysOf(list)
  PROVE  /\ Without(list, k) \in Seq(Entry)
         /\ Unique(Without(list, k))
         /\ KeysOf(Without(list, k)) = KeysOf(list) \ {k}
         /\ ToSet(Without(list, k)) = ToSet(list) \ {list[At(list, k)]}
  <1> DEFINE i == At(list, k)
             rest == Without(list, k)
             Old(j) == IF j < i THEN j ELSE j + 1
  <1>1. i \in 1..Len(list) /\ list[i].key = k
    BY AtFacts
  <1> HIDE DEF i
  <1>2. rest \in Seq(Entry) /\ Len(rest) = Len(list) - 1 /\ DOMAIN rest = 1..(Len(list) - 1)
    BY <1>1, RemoveAtFacts, SMTT(40) DEF Without, i
  <1>3. \A j \in 1..(Len(list) - 1) : rest[j] = IF j < i THEN list[j] ELSE list[j + 1]
    BY <1>1, RemoveAtFacts DEF Without, i
  <1> HIDE DEF rest
  <1>4. \A j \in 1..(Len(list) - 1) :
            rest[j] = list[Old(j)] /\ Old(j) \in 1..Len(list) /\ Old(j) # i
    BY <1>1, <1>3
  <1>5. \A j, h \in 1..(Len(list) - 1) : Old(j) = Old(h) => j = h
    BY <1>1
  <1>6. \A h \in 1..Len(list) : h # i => \E j \in 1..(Len(list) - 1) : Old(j) = h
    <2> SUFFICES ASSUME NEW h \in 1..Len(list), h # i
                 PROVE  \E j \in 1..(Len(list) - 1) : Old(j) = h
      OBVIOUS
    <2>1. CASE h < i
      <3>1. h \in 1..(Len(list) - 1) /\ Old(h) = h
        BY <1>1, <2>1
      <3> QED BY <3>1
    <2>2. CASE ~(h < i)
      <3>1. h - 1 \in 1..(Len(list) - 1) /\ Old(h - 1) = h
        BY <1>1, <2>2
      <3> QED BY <3>1
    <2> QED BY <2>1, <2>2
  <1> HIDE DEF Old
  <1>7. Unique(rest)
    BY <1>2, <1>4, <1>5 DEF Unique
  <1>8. KeysOf(rest) \subseteq KeysOf(list) \ {k}
    BY <1>1, <1>2, <1>4 DEF Unique, KeysOf
  <1>9. KeysOf(list) \ {k} \subseteq KeysOf(rest)
    <2> SUFFICES ASSUME NEW x \in KeysOf(list), x # k
                 PROVE  x \in KeysOf(rest)
      OBVIOUS
    <2>1. PICK h \in 1..Len(list) : list[h].key = x
      BY DEF KeysOf
    <2>2. PICK j \in 1..(Len(list) - 1) : Old(j) = h
      BY <1>1, <1>6, <2>1
    <2> QED BY <1>2, <1>4, <2>1, <2>2 DEF KeysOf
  <1>10. ToSet(rest) \subseteq ToSet(list) \ {list[i]}
    BY <1>1, <1>2, <1>4 DEF Unique, ToSet
  <1>11. ToSet(list) \ {list[i]} \subseteq ToSet(rest)
    <2> SUFFICES ASSUME NEW e \in ToSet(list), e # list[i] PROVE e \in ToSet(rest)
      OBVIOUS
    <2>1. PICK h \in 1..Len(list) : list[h] = e
      BY DEF ToSet
    <2>2. PICK j \in 1..(Len(list) - 1) : Old(j) = h
      BY <1>6, <2>1
    <2> QED BY <1>2, <1>4, <2>1, <2>2 DEF ToSet
  <1> QED BY <1>2, <1>7, <1>8, <1>9, <1>10, <1>11 DEF rest, i

\* Pushing an entry whose key is not in the list to its front.
LEMMA PushFacts ==
  ASSUME NEW list \in Seq(Entry), Unique(list),
         NEW e \in Entry, e.key \notin KeysOf(list)
  PROVE  /\ <<e>> \o list \in Seq(Entry)
         /\ Unique(<<e>> \o list)
         /\ KeysOf(<<e>> \o list) = KeysOf(list) \union {e.key}
         /\ 1 \in DOMAIN (<<e>> \o list) /\ (<<e>> \o list)[1] = e
         /\ ToSet(<<e>> \o list) = ToSet(list) \union {e}
  <1> DEFINE longer == <<e>> \o list
  <1>1. /\ longer \in Seq(Entry)
        /\ DOMAIN longer = 1..(Len(list) + 1)
        /\ longer[1] = e
        /\ \A j \in 1..(Len(list) + 1) : j # 1 => j - 1 \in 1..Len(list) /\ longer[j] = list[j - 1]
    OBVIOUS
  <1>2. \A j \in 1..Len(list) : j + 1 \in DOMAIN longer /\ longer[j + 1] = list[j]
    OBVIOUS
  <1>3. DOMAIN list = 1..Len(list) /\ Len(list) \in Nat
    OBVIOUS
  <1> HIDE DEF longer
  <1>4. \A j \in DOMAIN list : list[j].key # e.key
    BY DEF KeysOf
  <1>5. Unique(longer)
    <2> SUFFICES ASSUME NEW j \in DOMAIN longer, NEW h \in DOMAIN longer,
                        longer[j].key = longer[h].key
                 PROVE  j = h
      BY DEF Unique
    <2>1. CASE j = 1 \/ h = 1
      BY <1>1, <1>3, <1>4, <2>1
    <2>2. CASE j # 1 /\ h # 1
      <3>1. /\ j \in Nat /\ j - 1 \in DOMAIN list /\ longer[j] = list[j - 1]
            /\ h \in Nat /\ h - 1 \in DOMAIN list /\ longer[h] = list[h - 1]
        BY <1>1, <1>3, <2>2
      <3>2. list[j - 1].key = list[h - 1].key
        BY <3>1
      <3>3. j - 1 = h - 1
        BY <3>1, <3>2 DEF Unique
      <3> QED BY <3>1, <3>3
    <2> QED BY <2>1, <2>2
  <1>6. 1 \in DOMAIN longer
    BY <1>1, <1>3
  <1>7. KeysOf(longer) \subseteq KeysOf(list) \union {e.key}
    BY <1>1, <1>3 DEF KeysOf
  <1>8. KeysOf(list) \union {e.key} \subseteq KeysOf(longer)
    BY SMTT(40), <1>1, <1>2, <1>3, <1>6 DEF KeysOf
  <1>9. ToSet(longer) \subseteq ToSet(list) \union {e}
    BY <1>1, <1>3 DEF ToSet
  <1>10. ToSet(list) \union {e} \subseteq ToSet(longer)
    BY <1>1, <1>2, <1>3, <1>6 DEF ToSet
  <1> QED BY <1>1, <1>5, <1>6, <1>7, <1>8, <1>9, <1>10 DEF longer

\* Keeping the first n entries of a list.
LEMMA PrefixFacts ==
  ASSUME NEW list \in Seq(Entry), Unique(list), NEW n \in 0..Len(list)
  PROVE  /\ SubSeq(list, 1, n) \in Seq(Entry)
         /\ Unique(SubSeq(list, 1, n))
         /\ KeysOf(SubSeq(list, 1, n)) =
                KeysOf(list) \ {e.key : e \in ToSet(SubSeq(list, n + 1, Len(list)))}
         /\ ToSet(SubSeq(list, 1, n)) = ToSet(list) \ ToSet(SubSeq(list, n + 1, Len(list)))
         /\ ToSet(SubSeq(list, n + 1, Len(list))) \subseteq ToSet(list)
  <1> DEFINE kept == SubSeq(list, 1, n)
             gone == SubSeq(list, n + 1, Len(list))
  <1>0. Len(list) \in Nat /\ DOMAIN list = 1..Len(list) /\ n \in Nat /\ n <= Len(list)
    OBVIOUS
  <1>1. /\ kept \in Seq(Entry) /\ DOMAIN kept = 1..n
        /\ \A j \in 1..n : kept[j] = list[j]
    OBVIOUS
  <1>2. /\ DOMAIN gone = 1..(Len(list) - n)
        /\ \A j \in 1..(Len(list) - n) : gone[j] = list[n + j]
    OBVIOUS
  <1> HIDE DEF kept, gone
  <1>3. Unique(kept)
    BY <1>0, <1>1 DEF Unique
  <1>4. ToSet(gone) = {list[h] : h \in (n + 1)..Len(list)}
    <2>1. \A j \in 1..(Len(list) - n) : n + j \in (n + 1)..Len(list)
      BY <1>0
    <2>2. \A h \in (n + 1)..Len(list) : h - n \in 1..(Len(list) - n) /\ n + (h - n) = h
      BY <1>0
    <2>3. \A h \in (n + 1)..Len(list) : gone[h - n] = list[h] /\ h - n \in DOMAIN gone
      BY <1>2, <2>2
    <2>4. ToSet(gone) \subseteq {list[h] : h \in (n + 1)..Len(list)}
      BY <1>2, <2>1 DEF ToSet
    <2>5. {list[h] : h \in (n + 1)..Len(list)} \subseteq ToSet(gone)
      <3> SUFFICES ASSUME NEW h \in (n + 1)..Len(list) PROVE list[h] \in ToSet(gone)
        OBVIOUS
      <3> QED BY <2>3, Zenon DEF ToSet
    <2> QED BY <2>4, <2>5
  <1>5. KeysOf(kept) = {list[h].key : h \in 1..n}
    BY <1>1 DEF KeysOf
  <1>6. {e.key : e \in ToSet(gone)} = {list[h].key : h \in (n + 1)..Len(list)}
    BY <1>4
  <1>7. KeysOf(list) = {list[h].key : h \in 1..Len(list)}
    BY <1>0 DEF KeysOf
  <1>8. \A h \in 1..Len(list) : h \in 1..n \/ h \in (n + 1)..Len(list)
    BY <1>0
  <1>9. \A h \in 1..n : h \in 1..Len(list) /\ \A j \in (n + 1)..Len(list) : list[h].key # list[j].key
    BY <1>0 DEF Unique
  <1>10. KeysOf(kept) = KeysOf(list) \ {e.key : e \in ToSet(gone)}
    <2>1. KeysOf(kept) \subseteq KeysOf(list) \ {e.key : e \in ToSet(gone)}
      BY <1>5, <1>6, <1>7, <1>9
    <2>2. ASSUME NEW x \in KeysOf(list), x \notin {e.key : e \in ToSet(gone)}
          PROVE  x \in KeysOf(kept)
      <3>1. PICK h \in 1..Len(list) : x = list[h].key
        BY <1>7
      <3>2. h \notin (n + 1)..Len(list)
        BY <1>6, <2>2, <3>1
      <3> QED BY <1>5, <1>8, <3>1, <3>2
    <2> QED BY <2>1, <2>2
  <1>11. ToSet(list) = {list[h] : h \in 1..Len(list)} /\ ToSet(kept) = {list[h] : h \in 1..n}
    BY <1>0, <1>1 DEF ToSet
  <1>12. ToSet(kept) = ToSet(list) \ ToSet(gone)
    <2>1. \A h \in 1..n : \A j \in (n + 1)..Len(list) : list[h] # list[j]
      BY <1>9
    <2> QED BY <1>4, <1>8, <1>9, <1>11, <2>1
  <1>13. ToSet(gone) \subseteq ToSet(list)
    <2>1. \A h \in (n + 1)..Len(list) : h \in 1..Len(list)
      BY <1>0
    <2> QED BY <1>4, <1>11, <2>1
  <1> QED BY <1>1, <1>3, <1>10, <1>12, <1>13 DEF kept, gone

\* MoveToFront keeps the entries.
LEMMA MoveFacts ==
  ASSUME NEW list \in Seq(Entry), Unique(list), NEW k \in KeysOf(list)
  PROVE  /\ MovedToFront(list, k) \in Seq(Entry)
         /\ Unique(MovedToFront(list, k))
         /\ KeysOf(MovedToFront(list, k)) = KeysOf(list)
         /\ 1 \in DOMAIN MovedToFront(list, k)
         /\ MovedToFront(list, k)[1] = list[At(list, k)]
         /\ ToSet(MovedToFront(list, k)) = ToSet(list)
  <1> DEFINE e == list[At(list, k)]
  <1>1. e \in Entry /\ e.key = k
    BY AtFacts
  <1>2. /\ Without(list, k) \in Seq(Entry)
        /\ Unique(Without(list, k))
        /\ KeysOf(Without(list, k)) = KeysOf(list) \ {k}
        /\ ToSet(Without(list, k)) = ToSet(list) \ {e}
    BY WithoutFacts
  <1>7. e \in ToSet(list)
    BY AtFacts DEF ToSet
  <1>3. MovedToFront(list, k) = <<e>> \o Without(list, k)
    BY DEF MovedToFront
  <1> HIDE DEF e
  <1>4. e.key \notin KeysOf(Without(list, k))
    BY <1>1, <1>2
  <1>5. /\ <<e>> \o Without(list, k) \in Seq(Entry)
        /\ Unique(<<e>> \o Without(list, k))
        /\ KeysOf(<<e>> \o Without(list, k)) = KeysOf(Without(list, k)) \union {e.key}
        /\ 1 \in DOMAIN (<<e>> \o Without(list, k)) /\ (<<e>> \o Without(list, k))[1] = e
        /\ ToSet(<<e>> \o Without(list, k)) = ToSet(Without(list, k)) \union {e}
    BY <1>1, <1>2, <1>4, PushFacts
  <1>6. (KeysOf(list) \ {k}) \union {k} = KeysOf(list)
    OBVIOUS
  <1> QED BY <1>1, <1>2, <1>3, <1>5, <1>6, <1>7 DEF e

\* Replacing the value of the first entry keeps the keys.
LEMMA ReplaceFacts ==
  ASSUME NEW list \in Seq(Entry), Unique(list), 1 \in DOMAIN list, NEW v \in Values
  PROVE  /\ [list EXCEPT ![1].value = v] \in Seq(Entry)
         /\ Unique([list EXCEPT ![1].value = v])
         /\ KeysOf([list EXCEPT ![1].value = v]) = KeysOf(list)
         /\ ToSet([list EXCEPT ![1].value = v])
              = (ToSet(list) \ {list[1]}) \union {[key |-> list[1].key, value |-> v]}
  <1> DEFINE new == [list EXCEPT ![1].value = v]
  <1>1. \A j \in DOMAIN list : list[j] \in Entry
    OBVIOUS
  <1>2. DOMAIN new = DOMAIN list /\ \A j \in DOMAIN list : new[j] \in Entry /\ new[j].key = list[j].key
    BY <1>1 DEF Entry
  <1>3. new \in Seq(Entry)
    BY <1>1 DEF Entry
  <1>6. new[1] = [key |-> list[1].key, value |-> v] /\ \A j \in DOMAIN list : j # 1 => new[j] = list[j]
    BY <1>1 DEF Entry
  <1> HIDE DEF new
  <1>7. \A j \in DOMAIN list : j # 1 => list[j] # list[1]
    BY DEF Unique
  <1>8. ToSet(new) = (ToSet(list) \ {list[1]}) \union {[key |-> list[1].key, value |-> v]}
    <2> DEFINE e == [key |-> list[1].key, value |-> v]
    <2>1. ToSet(new) \subseteq (ToSet(list) \ {list[1]}) \union {e}
      BY <1>2, <1>6, <1>7 DEF ToSet
    <2>2. (ToSet(list) \ {list[1]}) \union {e} \subseteq ToSet(new)
      <3>1. e \in ToSet(new)
        BY <1>2, <1>6 DEF ToSet
      <3>2. ASSUME NEW x \in ToSet(list), x # list[1] PROVE x \in ToSet(new)
        <4>1. PICK j \in DOMAIN list : list[j] = x
          BY DEF ToSet
        <4> QED BY <1>2, <1>6, <3>2, <4>1 DEF ToSet
      <3> HIDE DEF e
      <3> QED BY <3>1, <3>2
    <2> QED BY <2>1, <2>2
  <1>4. Unique(new)
    BY <1>2 DEF Unique
  <1>5. KeysOf(new) = KeysOf(list)
    BY <1>2 DEF KeysOf
  <1> QED BY <1>3, <1>4, <1>5, <1>8 DEF new

\* The invariant is inductive.
LEMMA NextIInv == IInv /\ [Next]_vars => IInv'
  <1> SUFFICES ASSUME IInv, [Next]_vars PROVE IInv'
    OBVIOUS
  <1>1. ll \in Seq(Entry) /\ Unique(ll) /\ KeysOf(ll) = keyToEntry
    BY DEF IInv, ListMatchesMap, Unique
  <1>2. SUFFICES ll' \in Seq(Entry) /\ Unique(ll') /\ KeysOf(ll') = keyToEntry'
    BY DEF IInv, ListMatchesMap, Unique, KeysOf
  <1>3. ASSUME NEW k \in Keys, Get(k)
        PROVE  ll' \in Seq(Entry) /\ Unique(ll') /\ KeysOf(ll') = keyToEntry'
    <2>1. CASE k \in keyToEntry
      BY <1>1, <1>3, <2>1, MoveFacts DEF Get
    <2>2. CASE k \notin keyToEntry
      BY <1>1, <1>3, <2>2 DEF Get
    <2> QED BY <2>1, <2>2
  <1>4. ASSUME NEW k \in Keys, Del(k)
        PROVE  ll' \in Seq(Entry) /\ Unique(ll') /\ KeysOf(ll') = keyToEntry'
    <2>1. CASE k \in keyToEntry
      BY <1>1, <1>4, <2>1, WithoutFacts DEF Del
    <2>2. CASE k \notin keyToEntry
      BY <1>1, <1>4, <2>2 DEF Del
    <2> QED BY <2>1, <2>2
  <1>5. ASSUME NEW k \in Keys, NEW v \in Values, Update(k, v)
        PROVE  ll' \in Seq(Entry) /\ Unique(ll') /\ KeysOf(ll') = keyToEntry'
    <2> DEFINE moved == MovedToFront(ll, k)
    <2>1. moved \in Seq(Entry) /\ Unique(moved) /\ KeysOf(moved) = KeysOf(ll) /\ 1 \in DOMAIN moved
      BY <1>1, <1>5, MoveFacts DEF Update
    <2>2. ll' = [moved EXCEPT ![1].value = v] /\ keyToEntry' = keyToEntry
      BY <1>5 DEF Update
    <2> HIDE DEF moved
    <2> QED BY <1>1, <2>1, <2>2, ReplaceFacts
  <1>6. ASSUME NEW k \in Keys, NEW v \in Values, Insert(k, v)
        PROVE  ll' \in Seq(Entry) /\ Unique(ll') /\ KeysOf(ll') = keyToEntry'
    <2> DEFINE e == [key |-> k, value |-> v]
               list == <<e>> \o ll
    <2>1. e \in Entry /\ e.key = k /\ k \notin keyToEntry
      BY <1>6 DEF Entry, Insert
    <2>2. PICK n \in 0..Len(list) :
            /\ ll' = SubSeq(list, 1, n)
            /\ evicted' = ToSet(SubSeq(list, n + 1, Len(list)))
            /\ keyToEntry' = (keyToEntry \union {k}) \ {x.key : x \in evicted'}
      BY <1>6 DEF Insert
    <2> HIDE DEF e
    <2>3. list \in Seq(Entry) /\ Unique(list) /\ KeysOf(list) = KeysOf(ll) \union {k}
      BY <1>1, <2>1, PushFacts
    <2> HIDE DEF list
    <2> QED BY <1>1, <2>2, <2>3, PrefixFacts
  <1>7. CASE RemoveOldest
    <2>1. CASE ll = <<>>
      BY <1>1, <1>7, <2>1 DEF RemoveOldest
    <2>2. CASE ll # <<>>
      <3> DEFINE n == Len(ll) - 1
      <3>1. n \in 0..Len(ll) /\ Len(ll) \in Nat /\ n + 1 = Len(ll)
        BY <1>1, <2>2
      <3>2. ll' = SubSeq(ll, 1, n) /\ keyToEntry' = keyToEntry \ {ll[Len(ll)].key}
        BY <1>7, <2>2 DEF RemoveOldest, Front, Last
      <3>3. LET last == SubSeq(ll, Len(ll), Len(ll))
            IN  DOMAIN last = {1} /\ last[1] = ll[Len(ll)]
        BY <1>1, <3>1
      <3>4. ToSet(SubSeq(ll, n + 1, Len(ll))) = {ll[Len(ll)]}
        BY <3>1, <3>3 DEF ToSet
      <3> HIDE DEF n
      <3> QED BY <1>1, <3>1, <3>2, <3>4, PrefixFacts
    <2> QED BY <2>1, <2>2
  <1>8. CASE UNCHANGED vars
    BY <1>1, <1>8 DEF vars
  <1> QED BY <1>3, <1>4, <1>5, <1>6, <1>7, <1>8 DEF Next, Set

\* The list and the map of an LRUCache hold the same keys, each once, whatever the
\* keys, sizes and bound and whatever calls were made (cache/LRU.go:35-100).
THEOREM ListAndMapAgree == Spec => []ListMatchesMap
  <1>1. Init => IInv
    BY DEF Init, IInv, ListMatchesMap, KeysOf
  <1>2. IInv /\ [Next]_vars => IInv'
    BY NextIInv
  <1>3. IInv => ListMatchesMap
    BY DEF IInv
  <1> QED BY <1>1, <1>2, <1>3, PTL DEF Spec

-----------------------------------------------------------------------------
\* In a sequence without repetition, x is somewhere in front of y.
Distinct(s) == \A i, j \in DOMAIN s : s[i] = s[j] => i = j
Before(s, x, y) == \E i, j \in DOMAIN s : i < j /\ s[i] = x /\ s[j] = y

\* The same of the keys of a list of entries.
Precedes(list, x, y) == \E i, j \in DOMAIN list : i < j /\ list[i].key = x /\ list[j].key = y

\* Taking a key out of the history: the others stay, in order.
LEMMA RemoveFirstFacts ==
  ASSUME NEW s \in Seq(Keys), Distinct(s), NEW k
  PROVE  /\ RemoveFirst(s, k) \in Seq(Keys)
         /\ Distinct(RemoveFirst(s, k))
         /\ ToSet(RemoveFirst(s, k)) = ToSet(s) \ {k}
         /\ \A x, y : (x # k /\ y # k /\ Before(s, x, y)) => Before(RemoveFirst(s, k), x, y)
  <1> DEFINE rest == RemoveFirst(s, k)
  <1>0. DOMAIN s = 1..Len(s) /\ Len(s) \in Nat
    OBVIOUS
  <1>1. CASE k \notin ToSet(s)
    <2>1. rest = s
      BY <1>0, <1>1 DEF RemoveFirst, ToSet
    <2> QED BY <1>1, <2>1
  <1>2. CASE k \in ToSet(s)
    <2>1. PICK i \in 1..Len(s) : s[i] = k
      BY <1>0, <1>2 DEF ToSet
    <2>2. {j \in 1..Len(s) : s[j] = k} = {i}
      BY <1>0, <2>1 DEF Distinct
    <2>3. Min({i}) = i
      BY DEF Min
    <2>4. rest = RemoveAt(s, i)
      BY <2>1, <2>2, <2>3 DEF RemoveFirst, SelectInSeq
    <2>5. rest \in Seq(Keys) /\ DOMAIN rest = 1..(Len(s) - 1)
      <3>1. rest \in Seq(Keys) /\ Len(rest) = Len(s) - 1
        BY <2>1, <2>4, RemoveAtFacts
      <3> QED BY <3>1
    <2>6. \A j \in 1..(Len(s) - 1) : rest[j] = IF j < i THEN s[j] ELSE s[j + 1]
      BY <2>1, <2>4, RemoveAtFacts
    <2> HIDE DEF rest
    <2> DEFINE Old(j) == IF j < i THEN j ELSE j + 1
               New(h) == IF h < i THEN h ELSE h - 1
    <2>7. \A j \in DOMAIN rest : Old(j) \in DOMAIN s /\ Old(j) # i /\ rest[j] = s[Old(j)]
      BY <1>0, <2>1, <2>5, <2>6
    <2>8. \A j, h \in DOMAIN rest : Old(j) = Old(h) => j = h
      BY <1>0, <2>1, <2>5
    <2>9. \A h \in DOMAIN s : h # i => New(h) \in DOMAIN rest /\ Old(New(h)) = h
      BY <1>0, <2>1, <2>5
    <2>10. \A h, j \in DOMAIN s : h < j /\ h # i /\ j # i => New(h) < New(j)
      BY <1>0, <2>1
    <2> HIDE DEF Old, New
    <2>11. Distinct(rest)
      BY <2>7, <2>8 DEF Distinct
    <2>12. \A h \in DOMAIN s : h # i => rest[New(h)] = s[h]
      BY <2>7, <2>9
    <2>13. \A h \in DOMAIN s : s[h] = k => h = i
      BY <1>0, <2>1 DEF Distinct
    <2>14. ToSet(rest) \subseteq ToSet(s) \ {k}
      BY <2>7, <2>13 DEF ToSet
    <2>15. ToSet(s) \ {k} \subseteq ToSet(rest)
      BY <2>1, <2>9, <2>12 DEF ToSet
    <2>16. ASSUME NEW x, NEW y, x # k, y # k, Before(s, x, y)
           PROVE  Before(rest, x, y)
      <3>1. PICK h, j \in DOMAIN s : h < j /\ s[h] = x /\ s[j] = y
        BY <2>16 DEF Before
      <3>2. h # i /\ j # i
        BY <2>1, <2>16, <3>1
      <3> QED BY <2>9, <2>10, <2>12, <3>1, <3>2 DEF Before
    <2> QED BY <2>5, <2>11, <2>14, <2>15, <2>16 DEF rest
  <1> QED BY <1>1, <1>2

\* Using a key puts it in front of the others, which stay in order.
LEMMA UsedFacts ==
  ASSUME recent \in Seq(Keys), Distinct(recent), NEW k \in Keys
  PROVE  /\ Used(k) \in Seq(Keys)
         /\ Distinct(Used(k))
         /\ ToSet(Used(k)) = ToSet(recent) \union {k}
         /\ \A y \in ToSet(recent) : y # k => Before(Used(k), k, y)
         /\ \A x, y : (x # k /\ y # k /\ Before(recent, x, y)) => Before(Used(k), x, y)
  <1> DEFINE rest == RemoveFirst(recent, k)
             new == <<k>> \o rest
  <1>1. /\ rest \in Seq(Keys) /\ Distinct(rest) /\ ToSet(rest) = ToSet(recent) \ {k}
        /\ \A x, y : (x # k /\ y # k /\ Before(recent, x, y)) => Before(rest, x, y)
    BY RemoveFirstFacts
  <1> HIDE DEF rest
  <1>2. /\ new \in Seq(Keys) /\ DOMAIN new = 1..(Len(rest) + 1) /\ new[1] = k
        /\ \A j \in 1..Len(rest) : new[j + 1] = rest[j]
    BY <1>1
  <1>3. DOMAIN rest = 1..Len(rest) /\ Len(rest) \in Nat
    BY <1>1
  <1> HIDE DEF new
  <1>4. \A j \in DOMAIN new : j = 1 \/ (j - 1 \in DOMAIN rest /\ new[j] = rest[j - 1])
    BY <1>2, <1>3
  <1>5. \A j \in DOMAIN rest : j + 1 \in DOMAIN new /\ new[j + 1] = rest[j] /\ rest[j] # k
    <2>1. \A j \in DOMAIN rest : rest[j] # k
      BY <1>1 DEF ToSet
    <2> QED BY <1>2, <1>3, <2>1
  <1>6. 1 \in DOMAIN new
    BY <1>2, <1>3
  <1>7. Distinct(new)
    <2> SUFFICES ASSUME NEW j \in DOMAIN new, NEW h \in DOMAIN new, new[j] = new[h]
                 PROVE  j = h
      BY DEF Distinct
    <2>1. CASE j = 1 \/ h = 1
      BY <1>2, <1>4, <1>5, <2>1
    <2>2. CASE j # 1 /\ h # 1
      <3>1. /\ j - 1 \in DOMAIN rest /\ h - 1 \in DOMAIN rest /\ rest[j - 1] = rest[h - 1]
            /\ j \in Nat /\ h \in Nat
        BY <1>2, <1>3, <1>4, <2>2
      <3>2. j - 1 = h - 1
        BY <1>1, <3>1 DEF Distinct
      <3> QED BY <3>1, <3>2
    <2> QED BY <2>1, <2>2
  <1>8. ToSet(new) \subseteq ToSet(recent) \union {k}
    <2>1. \A j \in DOMAIN new : new[j] = k \/ new[j] \in ToSet(rest)
      BY <1>2, <1>4 DEF ToSet
    <2> QED BY <1>1, <2>1 DEF ToSet
  <1>9. ToSet(recent) \union {k} \subseteq ToSet(new)
    <2>1. k \in ToSet(new)
      BY <1>2, <1>6 DEF ToSet
    <2>2. ASSUME NEW y \in ToSet(rest) PROVE y \in ToSet(new)
      BY <1>5 DEF ToSet
    <2> QED BY <1>1, <2>1, <2>2
  <1>10. ASSUME NEW y \in ToSet(recent), y # k
         PROVE  Before(new, k, y)
    <2>1. PICK j \in DOMAIN rest : rest[j] = y
      BY <1>1, <1>10 DEF ToSet
    <2>2. j \in Nat /\ 1 <= j /\ 1 < j + 1
      BY <1>3
    <2> QED BY <1>2, <1>5, <1>6, <2>1, <2>2 DEF Before
  <1>11. ASSUME NEW x, NEW y, Before(rest, x, y)
         PROVE  Before(new, x, y)
    <2>1. PICK i, j \in DOMAIN rest : i < j /\ rest[i] = x /\ rest[j] = y
      BY <1>11 DEF Before
    <2>2. i + 1 < j + 1
      BY <1>3, <2>1
    <2> QED BY <1>5, <2>1, <2>2 DEF Before
  <1> QED BY <1>1, <1>2, <1>7, <1>8, <1>9, <1>10, <1>11 DEF Used, new, rest

\* The list is ordered like a sequence.
Ordered(list, s) == \A x, y : Precedes(list, x, y) => Before(s, x, y)

\* The entries are in the list by last use.
Aged ==
    /\ recent \in Seq(Keys) /\ Distinct(recent)
    /\ KeysOf(ll) \subseteq ToSet(recent)
    /\ Ordered(ll, recent)

\* Dropping an element keeps the order of the others.
LEMMA WithoutOrder ==
  ASSUME NEW list \in Seq(Entry), Unique(list), NEW k \in KeysOf(list),
         NEW x, NEW y, Precedes(Without(list, k), x, y)
  PROVE  Precedes(list, x, y) /\ x # k /\ y # k
  <1> DEFINE i == At(list, k)
             rest == Without(list, k)
             Old(j) == IF j < i THEN j ELSE j + 1
  <1>0. DOMAIN list = 1..Len(list) /\ Len(list) \in Nat
    OBVIOUS
  <1>1. i \in 1..Len(list) /\ list[i].key = k
    BY AtFacts
  <1> HIDE DEF i
  <1>2. rest \in Seq(Entry) /\ Len(rest) = Len(list) - 1
    BY <1>1, RemoveAtFacts DEF Without, i
  <1>3. \A j \in 1..(Len(list) - 1) : rest[j] = IF j < i THEN list[j] ELSE list[j + 1]
    BY <1>1, RemoveAtFacts DEF Without, i
  <1>4. DOMAIN rest = 1..(Len(list) - 1)
    BY <1>2
  <1> HIDE DEF rest
  <1>5. \A j \in DOMAIN rest : Old(j) \in DOMAIN list /\ Old(j) # i /\ rest[j] = list[Old(j)]
    BY <1>0, <1>1, <1>3, <1>4
  <1>6. \A j, h \in DOMAIN rest : j < h => Old(j) < Old(h)
    BY <1>0, <1>1, <1>4
  <1> HIDE DEF Old
  <1>7. PICK j, h \in DOMAIN rest : j < h /\ rest[j].key = x /\ rest[h].key = y
    BY DEF Precedes, rest
  <1>8. \A g \in DOMAIN list : list[g].key = k => g = i
    BY <1>0, <1>1 DEF Unique
  <1>9. x # k /\ y # k
    BY <1>5, <1>7, <1>8
  <1> QED BY <1>5, <1>6, <1>7, <1>9 DEF Precedes

\* Using a key, whose entry is put in front of the others, keeps the order.
LEMMA PushOrder ==
  ASSUME NEW e \in Entry, NEW list \in Seq(Entry),
         recent \in Seq(Keys), Distinct(recent),
         KeysOf(list) \subseteq ToSet(recent) \ {e.key},
         Ordered(list, recent)
  PROVE  Ordered(<<e>> \o list, Used(e.key))
  <1> DEFINE new == <<e>> \o list
             k == e.key
  <1>0. DOMAIN list = 1..Len(list) /\ Len(list) \in Nat /\ k \in Keys
    BY DEF Entry
  <1>1. /\ DOMAIN new = 1..(Len(list) + 1) /\ new[1] = e
        /\ \A j \in 1..(Len(list) + 1) : j # 1 => new[j] = list[j - 1]
    OBVIOUS
  <1> HIDE DEF new
  <1>2. \A j \in DOMAIN list : list[j].key \in ToSet(recent) /\ list[j].key # k
    BY DEF KeysOf
  <1> HIDE DEF k
  <1> SUFFICES ASSUME NEW x, NEW y, Precedes(new, x, y)
               PROVE  Before(Used(k), x, y)
    BY DEF Ordered, new, k
  <1>3. PICK i, j \in DOMAIN new : i < j /\ new[i].key = x /\ new[j].key = y
    BY DEF Precedes
  <1>4. j - 1 \in DOMAIN list /\ y = list[j - 1].key
    BY <1>0, <1>1, <1>3
  <1>5. CASE i = 1
    <2>1. x = k
      BY <1>1, <1>3, <1>5 DEF k
    <2> QED BY <1>0, <1>2, <1>4, <2>1, UsedFacts
  <1>6. CASE i # 1
    <2>1. i - 1 \in DOMAIN list /\ x = list[i - 1].key /\ i - 1 < j - 1
      BY <1>0, <1>1, <1>3, <1>6
    <2>2. Before(recent, x, y)
      BY <1>4, <2>1 DEF Ordered, Precedes
    <2>3. x # k /\ y # k
      BY <1>2, <1>4, <2>1
    <2> QED BY <1>0, <2>2, <2>3, UsedFacts
  <1> QED BY <1>5, <1>6

\* Cutting a list off at the end: the order stays, and what is kept precedes what
\* is cut off.
LEMMA PrefixOrder ==
  ASSUME NEW list \in Seq(Entry), NEW n \in 0..Len(list), NEW s, Ordered(list, s)
  PROVE  /\ Ordered(SubSeq(list, 1, n), s)
         /\ \A x \in KeysOf(SubSeq(list, 1, n)) :
              \A e \in ToSet(SubSeq(list, n + 1, Len(list))) : Before(s, x, e.key)
  <1> DEFINE kept == SubSeq(list, 1, n)
             gone == SubSeq(list, n + 1, Len(list))
  <1>0. DOMAIN list = 1..Len(list) /\ Len(list) \in Nat /\ n \in Nat /\ n <= Len(list)
    OBVIOUS
  <1>1. DOMAIN kept = 1..n /\ \A j \in 1..n : kept[j] = list[j]
    OBVIOUS
  <1>2. DOMAIN gone = 1..(Len(list) - n) /\ \A j \in 1..(Len(list) - n) : gone[j] = list[n + j]
    OBVIOUS
  <1> HIDE DEF kept, gone
  <1>3. \A j \in DOMAIN kept : j \in DOMAIN list /\ j <= n /\ kept[j] = list[j]
    BY <1>0, <1>1
  <1>4. \A j \in DOMAIN gone : n + j \in DOMAIN list /\ n < n + j /\ gone[j] = list[n + j]
    BY <1>0, <1>2
  <1>5. Ordered(kept, s)
    BY <1>3 DEF Ordered, Precedes
  <1>6. ASSUME NEW x \in KeysOf(kept), NEW e \in ToSet(gone)
        PROVE  Before(s, x, e.key)
    <2>1. PICK i \in DOMAIN kept : x = kept[i].key
      BY DEF KeysOf
    <2>2. PICK j \in DOMAIN gone : e = gone[j]
      BY DEF ToSet
    <2>3. i \in DOMAIN list /\ n + j \in DOMAIN list /\ i < n + j
      BY <1>0, <1>3, <1>4, <2>1, <2>2
    <2>4. list[i].key = x /\ list[n + j].key = e.key
      BY <1>3, <1>4, <2>1, <2>2
    <2> QED BY <2>3, <2>4 DEF Ordered, Precedes
  <1> QED BY <1>5, <1>6 DEF kept, gone

\* Moving the entry of a key that is used.
LEMMA MoveOrder ==
  ASSUME IInv, Aged, NEW k \in Keys, k \in keyToEntry
  PROVE  /\ Ordered(MovedToFront(ll, k), Used(k))
         /\ KeysOf(MovedToFront(ll, k)) \subseteq ToSet(Used(k))
  <1> DEFINE rest == Without(ll, k)
             e == ll[At(ll, k)]
  <1>1. ll \in Seq(Entry) /\ Unique(ll) /\ k \in KeysOf(ll)
    BY DEF IInv, ListMatchesMap, Unique
  <1>2. e \in Entry /\ e.key = k
    BY <1>1, AtFacts
  <1>3. rest \in Seq(Entry) /\ KeysOf(rest) = KeysOf(ll) \ {k}
    BY <1>1, WithoutFacts
  <1>4. Ordered(rest, recent)
    BY <1>1, WithoutOrder DEF Aged, Ordered
  <1>5. MovedToFront(ll, k) = <<e>> \o rest
    BY DEF MovedToFront
  <1>6. KeysOf(MovedToFront(ll, k)) = KeysOf(ll)
    BY <1>1, MoveFacts
  <1> HIDE DEF rest, e
  <1>7. Ordered(<<e>> \o rest, Used(k))
    BY <1>2, <1>3, <1>4, PushOrder DEF Aged
  <1>8. KeysOf(ll) \subseteq ToSet(Used(k))
    BY UsedFacts DEF Aged
  <1> QED BY <1>5, <1>6, <1>7, <1>8

\* The list goes on being ordered by last use, and what is evicted to make room was
\* used before all that is kept.
LEMMA AgedStep ==
  ASSUME IInv, Aged, [Next]_vars
  PROVE  /\ Aged'
         /\ (RemoveOldest \/ \E k \in Keys, v \in Values : Set(k, v)) =>
              \A gone \in evicted' : \A x \in KeysOf(ll') : Before(recent', x, gone.key)
  <1> DEFINE Older == \A gone \in evicted' : \A x \in KeysOf(ll') :
                        Before(recent', x, gone.key)
  <1>1. ll \in Seq(Entry) /\ Unique(ll) /\ KeysOf(ll) = keyToEntry
    BY DEF IInv, ListMatchesMap, Unique
  <1>2. Aged' <=> /\ recent' \in Seq(Keys) /\ Distinct(recent')
                  /\ KeysOf(ll') \subseteq ToSet(recent')
                  /\ Ordered(ll', recent')
    BY DEF Aged, Distinct, KeysOf, Ordered, ToSet, Precedes, Before
  <1>3. ASSUME recent' = recent, KeysOf(ll') \subseteq KeysOf(ll), Ordered(ll', recent)
        PROVE  Aged'
    BY <1>2, <1>3 DEF Aged
  <1>4. ASSUME ll' = ll, recent' = recent
        PROVE  Aged'
    BY <1>3, <1>4 DEF Aged
  <1>5. ASSUME NEW k \in Keys, recent' = Used(k),
               KeysOf(ll') \subseteq ToSet(Used(k)), Ordered(ll', Used(k))
        PROVE  Aged'
    BY <1>2, <1>5, UsedFacts DEF Aged
  <1>6. ASSUME NEW k \in Keys, Get(k)
        PROVE  Aged'
    <2>1. CASE k \in keyToEntry
      <3>1. ll' = MovedToFront(ll, k) /\ recent' = Used(k)
        BY <1>6, <2>1 DEF Get
      <3> QED BY <1>5, <2>1, <3>1, MoveOrder
    <2>2. CASE k \notin keyToEntry
      BY <1>4, <1>6, <2>2 DEF Get
    <2> QED BY <2>1, <2>2
  <1>7. ASSUME NEW k \in Keys, Del(k)
        PROVE  Aged'
    <2>1. CASE k \in keyToEntry
      <3>1. ll' = Without(ll, k) /\ recent' = recent
        BY <1>7, <2>1 DEF Del
      <3>2. KeysOf(ll') \subseteq KeysOf(ll)
        BY <1>1, <2>1, <3>1, WithoutFacts
      <3>3. Ordered(ll', recent)
        BY <1>1, <2>1, <3>1, WithoutOrder DEF Aged, Ordered
      <3> QED BY <1>3, <3>1, <3>2, <3>3
    <2>2. CASE k \notin keyToEntry
      BY <1>4, <1>7, <2>2 DEF Del
    <2> QED BY <2>1, <2>2
  <1>8. ASSUME NEW k \in Keys, NEW v \in Values, Update(k, v)
        PROVE  Aged' /\ Older
    <2> DEFINE moved == MovedToFront(ll, k)
    <2>1. moved \in Seq(Entry) /\ Unique(moved) /\ 1 \in DOMAIN moved
      BY <1>1, <1>8, MoveFacts DEF Update
    <2>2. Ordered(moved, Used(k)) /\ KeysOf(moved) \subseteq ToSet(Used(k))
      BY <1>8, MoveOrder DEF Update
    <2>3. ll' = [moved EXCEPT ![1].value = v] /\ recent' = Used(k) /\ evicted' = {}
      BY <1>8 DEF Update
    <2> HIDE DEF moved
    <2>4. DOMAIN ll' = DOMAIN moved /\ \A j \in DOMAIN moved : ll'[j].key = moved[j].key
      <3>1. \A j \in DOMAIN moved : moved[j] \in Entry
        BY <2>1
      <3> QED BY <2>3, <3>1 DEF Entry
    <2>5. KeysOf(ll') = KeysOf(moved) /\ Ordered(ll', Used(k))
      BY <2>2, <2>4 DEF KeysOf, Ordered, Precedes
    <2> QED BY <1>5, <2>2, <2>3, <2>5
  <1>9. ASSUME NEW k \in Keys, NEW v \in Values, Insert(k, v)
        PROVE  Aged' /\ Older
    <2> DEFINE e == [key |-> k, value |-> v]
               list == <<e>> \o ll
    <2>1. e \in Entry /\ e.key = k /\ k \notin KeysOf(ll) /\ recent' = Used(k)
      BY <1>1, <1>9 DEF Entry, Insert
    <2>2. PICK n \in 0..Len(list) :
            /\ ll' = SubSeq(list, 1, n)
            /\ evicted' = ToSet(SubSeq(list, n + 1, Len(list)))
      BY <1>9 DEF Insert
    <2> HIDE DEF e
    <2>3. list \in Seq(Entry) /\ Unique(list) /\ KeysOf(list) = KeysOf(ll) \union {k}
      BY <1>1, <2>1, PushFacts
    <2>4. Ordered(list, Used(k))
      BY <1>1, <2>1, PushOrder DEF Aged
    <2>5. KeysOf(list) \subseteq ToSet(Used(k))
      BY <2>3, UsedFacts DEF Aged
    <2> HIDE DEF list
    <2>6. KeysOf(ll') \subseteq KeysOf(list)
      BY <2>2, <2>3, PrefixFacts
    <2>7. Ordered(ll', Used(k)) /\ Older
      BY <2>1, <2>2, <2>3, <2>4, PrefixOrder
    <2> HIDE DEF Older
    <2> QED BY <1>5, <2>1, <2>5, <2>6, <2>7
  <1>10. ASSUME RemoveOldest
         PROVE  Aged' /\ Older
    <2>1. CASE ll = <<>>
      <3>1. ll' = ll /\ recent' = recent /\ evicted' = {}
        BY <1>10, <2>1 DEF RemoveOldest
      <3> QED BY <1>4, <3>1
    <2>2. CASE ll # <<>>
      <3> DEFINE n == Len(ll) - 1
                 e == ll[Len(ll)]
      <3>1. n \in 0..Len(ll) /\ Len(ll) \in Nat /\ n + 1 = Len(ll)
        BY <1>1, <2>2
      <3>2. ll' = SubSeq(ll, 1, n) /\ evicted' = {e} /\ recent' = recent
        BY <1>10, <2>2 DEF RemoveOldest, Front, Last
      <3>3. LET last == SubSeq(ll, Len(ll), Len(ll))
            IN  DOMAIN last = {1} /\ last[1] = e
        BY <1>1, <3>1
      <3>4. ToSet(SubSeq(ll, n + 1, Len(ll))) = {e}
        BY <3>1, <3>3 DEF ToSet
      <3> HIDE DEF n, e
      <3>5. KeysOf(ll') \subseteq KeysOf(ll)
        BY <1>1, <3>1, <3>2, PrefixFacts
      <3>6. Ordered(ll', recent) /\ Older
        BY <1>1, <3>1, <3>2, <3>4, PrefixOrder DEF Aged
      <3> HIDE DEF Older
      <3> QED BY <1>3, <3>2, <3>5, <3>6
    <2> QED BY <2>1, <2>2
  <1>11. CASE UNCHANGED vars
    <2>1. ll' = ll /\ recent' = recent /\ evicted' = evicted
      BY <1>11 DEF vars
    <2>2. Aged'
      BY <1>4, <2>1
    <2> QED BY <1>8, <1>9, <1>10, <2>2 DEF Set
  <1>12. Aged'
    BY <1>6, <1>7, <1>8, <1>9, <1>10, <1>11 DEF Next, Set
  <1>13. (RemoveOldest \/ \E k \in Keys, v \in Values : Set(k, v)) => Older
    BY <1>8, <1>9, <1>10 DEF Set
  <1> QED BY <1>12, <1>13

\* A key that is before another in the history is younger.
LEMMA AgeFacts ==
  ASSUME Distinct(recent'), NEW x, NEW y, Before(recent', x, y)
  PROVE  Age(x) < Age(y)
  <1>1. PICK i, j \in DOMAIN recent' : i < j /\ recent'[i] = x /\ recent'[j] = y
    BY DEF Before
  <1>2. Age(x) = i /\ Age(y) = j
    BY <1>1 DEF Distinct, Age
  <1> QED BY <1>1, <1>2

\* Whoever makes room drops only entries that were used before all that it keeps
\* (cache/LRU.go:66-69, 88-100; LRU_test.go:26).
THEOREM OldestAreDropped == Spec => DropsOldest
  <1>1. Init => IInv /\ Aged
    <2> SUFFICES ASSUME Init PROVE IInv /\ Aged
      OBVIOUS
    <2>1. ll = <<>> /\ recent = <<>> /\ keyToEntry = {}
      BY DEF Init
    <2> QED BY <2>1 DEF IInv, Aged, ListMatchesMap, KeysOf, Distinct, Ordered, Precedes
  <1>2. IInv /\ Aged /\ [Next]_vars => IInv' /\ Aged'
    BY NextIInv, AgedStep
  <1>3. IInv /\ Aged /\ [Next]_vars =>
          [(RemoveOldest \/ \E k \in Keys, v \in Values : Set(k, v)) =>
            \A gone \in evicted' : \A k \in keyToEntry' : Age(k) < Age(gone.key)]_vars
    <2> SUFFICES ASSUME IInv, Aged, [Next]_vars,
                        RemoveOldest \/ \E k \in Keys, v \in Values : Set(k, v),
                        NEW gone \in evicted', NEW k \in keyToEntry'
                 PROVE  Age(k) < Age(gone.key)
      OBVIOUS
    <2>1. keyToEntry' = KeysOf(ll')
      BY NextIInv DEF IInv, ListMatchesMap, KeysOf
    <2>2. Before(recent', k, gone.key) /\ Distinct(recent')
      BY <2>1, AgedStep DEF Aged, Distinct
    <2> QED BY <2>2, AgeFacts
  <1> QED BY <1>1, <1>2, <1>3, PTL DEF Spec, DropsOldest

-----------------------------------------------------------------------------
\* The map a list of entries stands for.
Contents(list) == [k \in KeysOf(list) |-> list[At(list, k)].value]

\* It depends on the set of the entries only.
LEMMA ContentsFacts ==
  ASSUME NEW list \in Seq(Entry), Unique(list)
  PROVE  /\ KeysOf(list) = {e.key : e \in ToSet(list)}
         /\ \A e \in ToSet(list) :
              /\ e \in Entry /\ list[At(list, e.key)] = e
              /\ e.key \in KeysOf(list) /\ Contents(list)[e.key] = e.value
         /\ \A k \in KeysOf(list) :
              /\ [key |-> k, value |-> Contents(list)[k]] \in ToSet(list)
              /\ [key |-> k, value |-> Contents(list)[k]] = list[At(list, k)]
  <1>1. KeysOf(list) = {e.key : e \in ToSet(list)}
    BY DEF KeysOf, ToSet
  <1>2. ASSUME NEW e \in ToSet(list)
        PROVE  /\ e \in Entry /\ list[At(list, e.key)] = e
               /\ e.key \in KeysOf(list) /\ Contents(list)[e.key] = e.value
    <2>1. PICK i \in DOMAIN list : list[i] = e
      BY DEF ToSet
    <2>2. e \in Entry
      BY <2>1
    <2>3. e.key \in KeysOf(list)
      BY <1>1
    <2>4. At(list, e.key) \in DOMAIN list /\ list[At(list, e.key)].key = e.key
      BY <2>3, AtFacts
    <2>5. At(list, e.key) = i
      BY <2>1, <2>4 DEF Unique
    <2> QED BY <2>1, <2>2, <2>3, <2>5 DEF Contents
  <1>3. ASSUME NEW k \in KeysOf(list)
        PROVE  /\ [key |-> k, value |-> Contents(list)[k]] \in ToSet(list)
               /\ [key |-> k, value |-> Contents(list)[k]] = list[At(list, k)]
    <2> DEFINE e == list[At(list, k)]
    <2>1. At(list, k) \in DOMAIN list /\ e.key = k
      BY AtFacts
    <2>2. e \in Entry /\ e \in ToSet(list)
      BY <2>1 DEF ToSet
    <2>3. Contents(list)[k] = e.value
      BY DEF Contents
    <2> HIDE DEF e
    <2>4. [key |-> k, value |-> e.value] = e
      BY <2>1, <2>2 DEF Entry
    <2> QED BY <2>2, <2>3, <2>4 DEF e
  <1> QED BY <1>1, <1>2, <1>3

\* Two lists of the same entries stand for the same map.
LEMMA SameContents ==
  ASSUME NEW list \in Seq(Entry), Unique(list), NEW map,
         map = [k \in DOMAIN map |-> map[k]],
         ToSet(list) = Abstract!Entries(map)
  PROVE  Contents(list) = map
  <1>1. KeysOf(list) = DOMAIN map
    <2>1. \A x : x \in KeysOf(list) <=> \E e \in Abstract!Entries(map) : x = e.key
      BY ContentsFacts
    <2>2. \A k \in DOMAIN map : [key |-> k, value |-> map[k]] \in Abstract!Entries(map)
      BY DEF Abstract!Entries
    <2>3. \A k \in DOMAIN map : k \in KeysOf(list)
      <3> SUFFICES ASSUME NEW k \in DOMAIN map PROVE k \in KeysOf(list)
        OBVIOUS
      <3>1. k = [key |-> k, value |-> map[k]].key
        OBVIOUS
      <3> QED BY <2>1, <2>2, <3>1
    <2>4. \A e \in Abstract!Entries(map) : e.key \in DOMAIN map
      BY DEF Abstract!Entries
    <2>5. \A x \in KeysOf(list) : x \in DOMAIN map
      BY <2>1, <2>4
    <2> QED BY <2>3, <2>5, Zenon
  <1>2. ASSUME NEW k \in DOMAIN map PROVE Contents(list)[k] = map[k]
    <2> DEFINE e == [key |-> k, value |-> map[k]]
    <2>1. e \in ToSet(list)
      BY DEF Abstract!Entries
    <2>2. Contents(list)[e.key] = e.value
      BY <2>1, ContentsFacts
    <2> QED BY <2>2
  <1>3. Contents(list) = [k \in DOMAIN map |-> list[At(list, k)].value]
    BY <1>1 DEF Contents
  <1>4. \A k \in DOMAIN map : list[At(list, k)].value = map[k]
    BY <1>2, <1>3
  <1> QED BY <1>3, <1>4

\* The map's entries are the list's elements.
LEMMA EntriesOfContents ==
  ASSUME NEW list \in Seq(Entry), Unique(list)
  PROVE  Abstract!Entries(Contents(list)) = ToSet(list)
  <1>1. DOMAIN Contents(list) = KeysOf(list)
    BY DEF Contents
  <1>2. Abstract!Entries(Contents(list)) \subseteq ToSet(list)
    BY <1>1, ContentsFacts DEF Abstract!Entries
  <1>3. ASSUME NEW e \in ToSet(list) PROVE e \in Abstract!Entries(Contents(list))
    <2>1. e \in Entry /\ e.key \in DOMAIN Contents(list) /\ Contents(list)[e.key] = e.value
      BY <1>1, ContentsFacts
    <2>2. e = [key |-> e.key, value |-> e.value]
      BY <2>1 DEF Entry
    <2> QED BY <2>1, <2>2 DEF Abstract!Entries
  <1> QED BY <1>2, <1>3

\* What storing and dropping do to the entries of a map.
LEMMA StoredFacts ==
  ASSUME NEW map, NEW k, NEW v
  PROVE  Abstract!Entries(Abstract!Stored(map, k, v))
           = {e \in Abstract!Entries(map) : e.key # k} \union {[key |-> k, value |-> v]}
  <1> DEFINE new == Abstract!Stored(map, k, v)
             e0 == [key |-> k, value |-> v]
  <1>1. DOMAIN new = DOMAIN map \union {k} /\ new[k] = v
        /\ \A x \in DOMAIN map : x # k => new[x] = map[x]
    BY DEF Abstract!Stored
  <1> HIDE DEF new
  <1>2. ASSUME NEW e \in Abstract!Entries(new)
        PROVE  e \in {x \in Abstract!Entries(map) : x.key # k} \union {e0}
    <2>1. PICK x \in DOMAIN new : e = [key |-> x, value |-> new[x]]
      BY DEF Abstract!Entries
    <2>2. CASE x = k
      BY <1>1, <2>1, <2>2
    <2>3. CASE x # k
      <3>1. x \in DOMAIN map /\ e = [key |-> x, value |-> map[x]] /\ e.key # k
        BY <1>1, <2>1, <2>3
      <3> QED BY <3>1 DEF Abstract!Entries
    <2> QED BY <2>2, <2>3
  <1>3. e0 \in Abstract!Entries(new)
    BY <1>1 DEF Abstract!Entries
  <1>4. ASSUME NEW e \in Abstract!Entries(map), e.key # k PROVE e \in Abstract!Entries(new)
    <2>1. PICK x \in DOMAIN map : e = [key |-> x, value |-> map[x]]
      BY DEF Abstract!Entries
    <2>2. x # k
      BY <1>4, <2>1
    <2> QED BY <1>1, <2>1, <2>2 DEF Abstract!Entries
  <1> HIDE DEF e0
  <1>5. Abstract!Entries(new) = {x \in Abstract!Entries(map) : x.key # k} \union {e0}
    BY <1>2, <1>3, <1>4
  <1> QED BY <1>5 DEF new, e0

\* Dropping entries takes exactly them out of the map.
LEMMA DroppedFacts ==
  ASSUME NEW map, NEW lost \in SUBSET Abstract!Entries(map)
  PROVE  /\ Abstract!Entries(Abstract!Without(map, lost)) = Abstract!Entries(map) \ lost
         /\ Abstract!Without(map, lost)
              = [x \in DOMAIN Abstract!Without(map, lost) |-> Abstract!Without(map, lost)[x]]
  <1> DEFINE new == Abstract!Without(map, lost)
  <1>1. DOMAIN new = DOMAIN map \ {e.key : e \in lost} /\ \A x \in DOMAIN new : new[x] = map[x]
    BY DEF Abstract!Without
  <1>2. new = [x \in DOMAIN new |-> new[x]]
    BY DEF Abstract!Without
  <1> HIDE DEF new
  <1>3. \A x \in DOMAIN map : [key |-> x, value |-> map[x]].key = x
    OBVIOUS
  <1>4. ASSUME NEW x \in DOMAIN map
        PROVE  x \in DOMAIN new <=> [key |-> x, value |-> map[x]] \notin lost
    <2>1. ASSUME NEW e \in lost, e.key = x PROVE e = [key |-> x, value |-> map[x]]
      BY <2>1 DEF Abstract!Entries
    <2> QED BY <1>1, <1>3, <2>1
  <1>5. ASSUME NEW e \in Abstract!Entries(new) PROVE e \in Abstract!Entries(map) \ lost
    <2>1. PICK x \in DOMAIN new : e = [key |-> x, value |-> new[x]]
      BY DEF Abstract!Entries
    <2>2. x \in DOMAIN map /\ e = [key |-> x, value |-> map[x]]
      BY <1>1, <2>1
    <2> QED BY <1>4, <2>1, <2>2 DEF Abstract!Entries
  <1>6. ASSUME NEW e \in Abstract!Entries(map) \ lost PROVE e \in Abstract!Entries(new)
    <2>1. PICK x \in DOMAIN map : e = [key |-> x, value |-> map[x]]
      BY DEF Abstract!Entries
    <2> QED BY <1>1, <1>4, <2>1 DEF Abstract!Entries
  <1> QED BY <1>2, <1>5, <1>6 DEF new

\* BoundedCache's Cardinality is FiniteSets'.
LEMMA SameCardinality == \A S : Abstract!Cardinality(S) = Cardinality(S)
  BY DEF Abstract!Cardinality, Cardinality

\* Every step of an LRUCache is a step of the cache its callers were promised.
LEMMA StepIsAbstract ==
  ASSUME IInv, IInv', [Next]_vars
  PROVE  [Abstract!Next]_(Abstract!vars)
  <1> DEFINE bar == [k \in keyToEntry |-> ll[At(ll, k)].value]
  <1>1. ll \in Seq(Entry) /\ Unique(ll) /\ KeysOf(ll) = keyToEntry
    BY DEF IInv, ListMatchesMap, Unique
  <1>2. ll' \in Seq(Entry) /\ Unique(ll') /\ KeysOf(ll') = keyToEntry'
    BY DEF IInv, ListMatchesMap, Unique, KeysOf
  <1>3. bar = Contents(ll) /\ bar' = Contents(ll') /\ DOMAIN bar = keyToEntry
    BY <1>1, <1>2 DEF Contents, At
  <1>4. Abstract!Entries(bar) = ToSet(ll)
    BY <1>1, <1>3, EntriesOfContents
  <1>5. bar = [k \in DOMAIN bar |-> bar[k]]
    OBVIOUS
  <1> HIDE DEF bar
  <1>6. ASSUME NEW k \in Keys, Get(k) PROVE Abstract!Get(k)
    <2>1. CASE k \in keyToEntry
      <3>1. ToSet(ll') = ToSet(ll)
        BY <1>1, <1>6, <2>1, MoveFacts DEF Get
      <3>2. bar' = bar
        BY <1>2, <1>3, <1>4, <1>5, <3>1, SameContents
      <3>3. ret' = bar[k] /\ evicted' = {}
        BY <1>1, <1>3, <1>6, <2>1 DEF Get, Contents
      <3> QED BY <1>3, <2>1, <3>2, <3>3 DEF Abstract!Get, bar
    <2>2. CASE k \notin keyToEntry
      <3>1. bar' = bar
        BY <1>6, <2>2 DEF Get, bar
      <3> QED BY <1>3, <1>6, <2>2, <3>1 DEF Get, Abstract!Get, bar
    <2> QED BY <2>1, <2>2
  <1>7. ASSUME NEW lost \in SUBSET ToSet(ll), ToSet(ll') = ToSet(ll) \ lost
        PROVE  bar' = Abstract!Without(bar, lost)
    <2> DEFINE new == Abstract!Without(bar, lost)
    <2>1. Abstract!Entries(new) = ToSet(ll) \ lost /\ new = [x \in DOMAIN new |-> new[x]]
      BY <1>4, DroppedFacts
    <2> HIDE DEF new
    <2>2. ToSet(ll') = Abstract!Entries(new)
      BY <1>7, <2>1
    <2>3. Contents(ll') = new
      BY <1>2, <2>1, <2>2, SameContents
    <2> QED BY <1>3, <2>3 DEF new
  <1>8. ASSUME NEW k \in Keys, Del(k) PROVE Abstract!Del(k)
    <2>1. CASE k \in keyToEntry
      <3> DEFINE e == ll[At(ll, k)]
      <3>1. e \in ToSet(ll) /\ e.key = k
        BY <1>1, <2>1, AtFacts DEF ToSet
      <3>2. evicted' = {e} /\ ToSet(ll') = ToSet(ll) \ {e} /\ ret' = ret
        BY <1>1, <1>8, <2>1, WithoutFacts DEF Del
      <3>3. \A x \in ToSet(ll) : x.key = k => x = e
        BY <1>1, ContentsFacts
      <3> HIDE DEF e
      <3>4. evicted' = {x \in ToSet(ll) : x.key = k}
        BY <3>1, <3>2, <3>3
      <3>5. evicted' \in SUBSET ToSet(ll) /\ ToSet(ll') = ToSet(ll) \ evicted'
        BY <3>1, <3>2
      <3>6. bar' = Abstract!Without(bar, evicted')
        BY <1>7, <3>5
      <3> QED BY <1>4, <3>2, <3>4, <3>6 DEF Abstract!Del, bar
    <2>2. CASE k \notin keyToEntry
      <3>1. evicted' = {} /\ ll' = ll /\ ret' = ret
        BY <1>8, <2>2 DEF Del
      <3>2. \A x \in ToSet(ll) : x.key # k
        BY <1>1, <2>2, ContentsFacts
      <3>3. evicted' = {x \in ToSet(ll) : x.key = k}
        BY <3>1, <3>2
      <3>4. evicted' \in SUBSET ToSet(ll) /\ ToSet(ll') = ToSet(ll) \ evicted'
        BY <3>1
      <3>5. bar' = Abstract!Without(bar, evicted')
        BY <1>7, <3>4
      <3> QED BY <1>4, <3>1, <3>3, <3>5 DEF Abstract!Del, bar
    <2> QED BY <2>1, <2>2
  <1>9. ASSUME NEW k, NEW v, NEW lost \in SUBSET (ToSet(ll) \union {[key |-> k, value |-> v]}),
               ToSet(ll') = ({e \in ToSet(ll) : e.key # k} \union {[key |-> k, value |-> v]}) \ lost,
               lost \in SUBSET ({e \in ToSet(ll) : e.key # k} \union {[key |-> k, value |-> v]}),
               evicted' = lost, ret' = ret
        PROVE  Abstract!Set(k, v)
    <2> DEFINE stored == Abstract!Stored(bar, k, v)
    <2>1. Abstract!Entries(stored)
            = {e \in ToSet(ll) : e.key # k} \union {[key |-> k, value |-> v]}
      BY <1>4, StoredFacts
    <2> HIDE DEF stored
    <2>2. lost \in SUBSET Abstract!Entries(stored) /\ ToSet(ll') = Abstract!Entries(stored) \ lost
      BY <1>9, <2>1
    <2> DEFINE new == Abstract!Without(stored, lost)
    <2>3. Abstract!Entries(new) = ToSet(ll') /\ new = [x \in DOMAIN new |-> new[x]]
      BY <2>2, DroppedFacts
    <2> HIDE DEF new
    <2>4. Contents(ll') = new
      BY <1>2, <2>3, SameContents
    <2>5. bar' = new
      BY <1>3, <2>4
    <2> QED BY <1>9, <2>2, <2>5 DEF Abstract!Set, stored, bar, new
  <1>10. ASSUME NEW k \in Keys, NEW v \in Values, Update(k, v) PROVE Abstract!Set(k, v)
    <2> DEFINE moved == MovedToFront(ll, k)
               e0 == [key |-> k, value |-> v]
    <2>1. moved \in Seq(Entry) /\ Unique(moved) /\ 1 \in DOMAIN moved
          /\ moved[1] = ll[At(ll, k)] /\ ToSet(moved) = ToSet(ll)
      BY <1>1, <1>10, MoveFacts DEF Update
    <2>2. ll' = [moved EXCEPT ![1].value = v] /\ k \in KeysOf(ll) /\ evicted' = {} /\ ret' = ret
      BY <1>1, <1>10 DEF Update
    <2>3. moved[1].key = k
      BY <1>1, <2>1, <2>2, AtFacts
    <2> HIDE DEF moved
    <2>4. ToSet(ll') = (ToSet(ll) \ {moved[1]}) \union {e0}
      BY <2>1, <2>2, <2>3, ReplaceFacts
    <2>5. ToSet(ll) \ {moved[1]} = {e \in ToSet(ll) : e.key # k}
      <3>1. \A e \in ToSet(ll) : e.key = k => e = moved[1]
        BY <1>1, <2>1, ContentsFacts
      <3> QED BY <2>3, <3>1
    <2> HIDE DEF e0
    <2>6. ToSet(ll') = ({e \in ToSet(ll) : e.key # k} \union {e0}) \ {}
      BY <2>4, <2>5
    <2>7. {} \in SUBSET (ToSet(ll) \union {e0})
          /\ {} \in SUBSET ({e \in ToSet(ll) : e.key # k} \union {e0})
      OBVIOUS
    <2> QED BY <1>9, <2>2, <2>6, <2>7 DEF e0
  <1>11. ASSUME NEW k \in Keys, NEW v \in Values, Insert(k, v) PROVE Abstract!Set(k, v)
    <2> DEFINE e0 == [key |-> k, value |-> v]
               list == <<e0>> \o ll
    <2>1. e0 \in Entry /\ e0.key = k /\ k \notin keyToEntry /\ ret' = ret
      BY <1>11 DEF Entry, Insert
    <2>2. PICK n \in 0..Len(list) :
            /\ ll' = SubSeq(list, 1, n)
            /\ evicted' = ToSet(SubSeq(list, n + 1, Len(list)))
      BY <1>11 DEF Insert
    <2> HIDE DEF e0
    <2>3. list \in Seq(Entry) /\ Unique(list) /\ ToSet(list) = ToSet(ll) \union {e0}
      BY <1>1, <2>1, PushFacts
    <2> HIDE DEF list
    <2>4. ToSet(ll') = ToSet(list) \ evicted' /\ evicted' \subseteq ToSet(list)
      BY <2>2, <2>3, PrefixFacts
    <2>5. {e \in ToSet(ll) : e.key # k} = ToSet(ll)
      BY <1>1, <2>1, ContentsFacts
    <2>6. ToSet(ll') = ({e \in ToSet(ll) : e.key # k} \union {e0}) \ evicted'
      BY <2>3, <2>4, <2>5
    <2>7. evicted' \in SUBSET ({e \in ToSet(ll) : e.key # k} \union {e0})
          /\ evicted' \in SUBSET (ToSet(ll) \union {e0})
      BY <2>3, <2>4, <2>5
    <2> QED BY <1>9, <2>1, <2>6, <2>7 DEF e0
  <1>12. ASSUME RemoveOldest PROVE Abstract!RemoveOldest
    <2>1. CASE ll = <<>>
      <3>1. evicted' = {} /\ ll' = ll /\ ret' = ret
        BY <1>12, <2>1 DEF RemoveOldest
      <3>2. evicted' \in SUBSET ToSet(ll) /\ ToSet(ll') = ToSet(ll) \ evicted'
        BY <3>1
      <3>3. bar' = Abstract!Without(bar, evicted')
        BY <1>7, <3>2
      <3>4. Cardinality(evicted') <= 1
        BY <3>1, FS_EmptySet
      <3> QED BY <1>4, <3>1, <3>2, <3>3, <3>4, SameCardinality DEF Abstract!RemoveOldest, bar
    <2>2. CASE ll # <<>>
      <3> DEFINE n == Len(ll) - 1
                 e == ll[Len(ll)]
      <3>1. n \in 0..Len(ll) /\ Len(ll) \in Nat /\ n + 1 = Len(ll)
        BY <1>1, <2>2
      <3>2. ll' = SubSeq(ll, 1, n) /\ evicted' = {e} /\ ret' = ret
        BY <1>12, <2>2 DEF RemoveOldest, Front, Last
      <3>3. LET last == SubSeq(ll, Len(ll), Len(ll))
            IN  DOMAIN last = {1} /\ last[1] = e
        BY <1>1, <3>1
      <3>4. ToSet(SubSeq(ll, n + 1, Len(ll))) = {e}
        BY <3>1, <3>3 DEF ToSet
      <3> HIDE DEF n, e
      <3>5. evicted' \in SUBSET ToSet(ll) /\ ToSet(ll') = ToSet(ll) \ evicted'
        BY <1>1, <3>1, <3>2, <3>4, PrefixFacts
      <3>6. bar' = Abstract!Without(bar, evicted')
        BY <1>7, <3>5
      <3>7. Cardinality(evicted') <= 1
        <4>1. Cardinality({e}) = 1
          BY FS_Singleton
        <4>2. Cardinality(evicted') = 1
          BY <3>2, <4>1
        <4> QED BY <4>2
      <3> QED BY <1>4, <3>2, <3>5, <3>6, <3>7, SameCardinality DEF Abstract!RemoveOldest, bar
    <2> QED BY <2>1, <2>2
  <1>13. CASE UNCHANGED vars
    BY <1>13 DEF vars, Abstract!vars
  <1> QED BY <1>6, <1>8, <1>10, <1>11, <1>12, <1>13 DEF Next, Set, Abstract!Next

\* An LRUCache is a bounded cache: what Get returns is what was last set or
\* nothing, and every entry that is dropped is reported with its value.
THEOREM ImplementsBoundedCache == Spec => IsBoundedCache
  <1>1. Init => IInv
    BY DEF Init, IInv, ListMatchesMap, KeysOf
  <1>2. IInv /\ [Next]_vars => IInv'
    BY NextIInv
  <1>3. Init => Abstract!Init
    BY DEF Init, Abstract!Init
  <1>4. IInv /\ IInv' /\ [Next]_vars => [Abstract!Next]_(Abstract!vars)
    BY StepIsAbstract
  <1> QED BY <1>1, <1>2, <1>3, <1>4, PTL DEF Spec, IsBoundedCache, Abstract!Spec

-----------------------------------------------------------------------------
\* The bytes of one entry.
LEMMA BytesOfOne ==
  ASSUME NEW e \in Entry
  PROVE  /\ EntrySize(e) \in Nat
         /\ IsFiniteSet({e} \X (1..EntrySize(e)))
         /\ Cardinality({e} \X (1..EntrySize(e))) = EntrySize(e)
  <1> DEFINE n == EntrySize(e)
  <1>1. n \in Nat
    BY LenAssumption DEF EntrySize, Entry
  <1> HIDE DEF n
  <1>2. IsFiniteSet({e}) /\ Cardinality({e}) = 1
    BY FS_Singleton
  <1>3. IsFiniteSet(1..n) /\ Cardinality(1..n) = n
    <2>1. 1 \in Int /\ n \in Int
      BY <1>1
    <2>2. IsFiniteSet(1..n) /\ Cardinality(1..n) = IF 1 > n THEN 0 ELSE n - 1 + 1
      BY <2>1, FS_Interval
    <2> QED BY <1>1, <2>2
  <1>4. /\ IsFiniteSet({e} \X (1..n))
        /\ Cardinality({e} \X (1..n)) = Cardinality({e}) * Cardinality(1..n)
    BY <1>2, <1>3, FS_Product
  <1>5. 1 * n = n
    BY <1>1
  <1> QED BY <1>1, <1>2, <1>3, <1>4, <1>5 DEF n

\* Finitely many entries have finitely many bytes.
LEMMA BytesFinite ==
  ASSUME NEW S \in SUBSET Entry, IsFiniteSet(S)
  PROVE  IsFiniteSet(Bytes(S)) /\ Cardinality(Bytes(S)) \in Nat
  <1> DEFINE Blocks == {{e} \X (1..EntrySize(e)) : e \in S}
             f == [e \in S |-> {e} \X (1..EntrySize(e))]
  <1>1. f \in Surjection(S, Blocks)
    BY DEF Surjection
  <1>2. \A T \in Blocks : IsFiniteSet(T)
    BY BytesOfOne
  <1>3. Bytes(S) = UNION Blocks
    BY DEF Bytes
  <1> HIDE DEF Blocks, f
  <1>4. IsFiniteSet(Blocks)
    BY <1>1, FS_Surjection
  <1>5. IsFiniteSet(UNION Blocks)
    BY <1>2, <1>4, FS_UNION
  <1> QED BY <1>3, <1>5, FS_CardinalityType

\* The bytes of some of the entries and those of the others are all the bytes.
LEMMA BytesSplit ==
  ASSUME NEW S \in SUBSET Entry, IsFiniteSet(S), NEW T \in SUBSET S
  PROVE  /\ IsFiniteSet(T) /\ IsFiniteSet(S \ T)
         /\ Cardinality(Bytes(S)) = Cardinality(Bytes(S \ T)) + Cardinality(Bytes(T))
  <1>1. IsFiniteSet(T) /\ IsFiniteSet(S \ T)
    BY FS_Subset, FS_Difference
  <1>2. /\ IsFiniteSet(Bytes(T)) /\ Cardinality(Bytes(T)) \in Nat
        /\ IsFiniteSet(Bytes(S \ T)) /\ Cardinality(Bytes(S \ T)) \in Nat
    BY <1>1, BytesFinite
  <1>3. Bytes(S) = Bytes(S \ T) \union Bytes(T)
    BY DEF Bytes
  <1>4. Bytes(S \ T) \cap Bytes(T) = {}
    <2>1. \A U \in SUBSET Entry : \A b \in Bytes(U) : b[1] \in U
      BY DEF Bytes
    <2> QED BY <2>1
  <1>5. Cardinality(Bytes(S \ T) \cap Bytes(T)) = 0
    BY <1>4, FS_EmptySet
  <1>6. Cardinality(Bytes(S \ T) \union Bytes(T))
          = Cardinality(Bytes(S \ T)) + Cardinality(Bytes(T))
              - Cardinality(Bytes(S \ T) \cap Bytes(T))
    BY <1>2, FS_Union
  <1> QED BY <1>1, <1>2, <1>3, <1>5, <1>6

\* One entry more or less.
LEMMA BytesChange ==
  ASSUME NEW S \in SUBSET Entry, IsFiniteSet(S), NEW e \in Entry
  PROVE  /\ Cardinality(Bytes({e})) = EntrySize(e)
         /\ e \in S => Cardinality(Bytes(S \ {e})) = Cardinality(Bytes(S)) - EntrySize(e)
         /\ e \notin S => Cardinality(Bytes(S \union {e})) = Cardinality(Bytes(S)) + EntrySize(e)
  <1>1. Bytes({e}) = {e} \X (1..EntrySize(e))
    BY DEF Bytes
  <1>2. EntrySize(e) \in Nat /\ Cardinality(Bytes({e})) = EntrySize(e)
    BY <1>1, BytesOfOne
  <1>3. ASSUME e \in S
        PROVE  Cardinality(Bytes(S \ {e})) = Cardinality(Bytes(S)) - EntrySize(e)
    <2>1. {e} \in SUBSET S
      BY <1>3
    <2>2. /\ IsFiniteSet(S \ {e})
          /\ Cardinality(Bytes(S)) = Cardinality(Bytes(S \ {e})) + Cardinality(Bytes({e}))
      BY <2>1, BytesSplit
    <2>3. Cardinality(Bytes(S \ {e})) \in Nat
      BY <2>2, BytesFinite
    <2> QED BY <1>2, <2>2, <2>3
  <1>4. ASSUME e \notin S
        PROVE  Cardinality(Bytes(S \union {e})) = Cardinality(Bytes(S)) + EntrySize(e)
    <2> DEFINE more == S \union {e}
    <2>1. more \in SUBSET Entry /\ {e} \in SUBSET more /\ more \ {e} = S
      BY <1>4
    <2>2. IsFiniteSet(more)
      BY FS_AddElement
    <2> HIDE DEF more
    <2>3. Cardinality(Bytes(more)) = Cardinality(Bytes(more \ {e})) + Cardinality(Bytes({e}))
      BY <2>1, <2>2, BytesSplit
    <2> QED BY <1>2, <2>1, <2>3 DEF more
  <1> QED BY <1>2, <1>3, <1>4

\* A list has finitely many entries.
LEMMA FiniteList ==
  ASSUME NEW list \in Seq(Entry)
  PROVE  /\ ToSet(list) \in SUBSET Entry /\ IsFiniteSet(ToSet(list))
         /\ Size(list) \in Nat
  <1>1. ToSet(list) \in SUBSET Entry
    BY DEF ToSet
  <1>2. DOMAIN list = 1..Len(list) /\ Len(list) \in Nat
    OBVIOUS
  <1>3. list \in Surjection(1..Len(list), ToSet(list))
    BY <1>2 DEF Surjection, ToSet
  <1>4. IsFiniteSet(1..Len(list))
    BY <1>2, FS_Interval
  <1>5. IsFiniteSet(ToSet(list))
    BY <1>3, <1>4, FS_Surjection
  <1> QED BY <1>1, <1>5, BytesFinite DEF Size

\* The bytes counted are the bytes of the entries; the bound does not change.
Sized == maxBytes \in Capacities /\ SizeIsExact

\* The list of Insert before it makes room.
Longer(k, v) == <<[key |-> k, value |-> v]>> \o ll

\* Its size, and what a number of entries fewer leaves.
LEMMA InsertSize ==
  ASSUME IInv, Sized, NEW k \in Keys, NEW v \in Values, k \notin keyToEntry
  PROVE  LET list == Longer(k, v) IN
         /\ list \in Seq(Entry) /\ Unique(list) /\ Len(list) = Len(ll) + 1
         /\ list[1] = [key |-> k, value |-> v]
         /\ Size(list) = nbytes + KeyLen[k] + ValueLen[v]
         /\ \A n \in 0..Len(list) :
              Size(SubSeq(list, 1, n)) = Size(list) - Size(SubSeq(list, n + 1, Len(list)))
         /\ SubSeq(list, 2, Len(list)) = ll
         /\ nbytes \in Nat /\ KeyLen[k] \in Nat /\ ValueLen[v] \in Nat
  <1> DEFINE e == [key |-> k, value |-> v]
             list == Longer(k, v)
  <1>1. ll \in Seq(Entry) /\ Unique(ll) /\ KeysOf(ll) = keyToEntry
    BY DEF IInv, ListMatchesMap, Unique
  <1>2. e \in Entry /\ e.key = k /\ EntrySize(e) = KeyLen[k] + ValueLen[v]
    BY DEF Entry, EntrySize
  <1>3. KeyLen[k] \in Nat /\ ValueLen[v] \in Nat
    BY LenAssumption
  <1> HIDE DEF e
  <1>4. list = <<e>> \o ll
    BY DEF e, Longer
  <1> HIDE DEF list
  <1>5. /\ list \in Seq(Entry) /\ Unique(list) /\ list[1] = e
        /\ ToSet(list) = ToSet(ll) \union {e}
    BY <1>1, <1>2, <1>4, PushFacts
  <1>6. e \notin ToSet(ll)
    BY <1>1, <1>2 DEF ToSet, KeysOf
  <1>7. ToSet(ll) \in SUBSET Entry /\ IsFiniteSet(ToSet(ll)) /\ Size(ll) \in Nat
    BY <1>1, FiniteList
  <1>8. Size(list) = nbytes + KeyLen[k] + ValueLen[v]
    <2>1. Cardinality(Bytes(ToSet(ll) \union {e})) = Cardinality(Bytes(ToSet(ll))) + EntrySize(e)
      BY <1>2, <1>6, <1>7, BytesChange
    <2>2. Size(list) = nbytes + EntrySize(e)
      BY <1>5, <2>1 DEF Size, Sized, SizeIsExact
    <2> QED BY <1>2, <1>3, <1>7, <2>2 DEF Sized, SizeIsExact
  <1>9. ASSUME NEW n \in 0..Len(list)
        PROVE  Size(SubSeq(list, 1, n)) = Size(list) - Size(SubSeq(list, n + 1, Len(list)))
    <2> DEFINE kept == SubSeq(list, 1, n)
               gone == SubSeq(list, n + 1, Len(list))
    <2>1. /\ kept \in Seq(Entry) /\ ToSet(kept) = ToSet(list) \ ToSet(gone)
          /\ ToSet(gone) \subseteq ToSet(list)
      BY <1>5, PrefixFacts
    <2>2. gone \in Seq(Entry)
      BY <1>5
    <2> HIDE DEF kept, gone
    <2>3. Size(kept) \in Nat /\ Size(gone) \in Nat
      BY <2>1, <2>2, FiniteList
    <2>4. ToSet(list) \in SUBSET Entry /\ IsFiniteSet(ToSet(list))
      BY <1>5, FiniteList
    <2>5. Cardinality(Bytes(ToSet(list)))
            = Cardinality(Bytes(ToSet(list) \ ToSet(gone))) + Cardinality(Bytes(ToSet(gone)))
      BY <2>1, <2>4, BytesSplit
    <2>6. Size(list) = Size(kept) + Size(gone)
      BY <2>1, <2>5 DEF Size
    <2> QED BY <2>3, <2>6 DEF kept, gone
  <1>10. Len(list) = Len(ll) + 1 /\ SubSeq(list, 2, Len(list)) = ll
    BY <1>1, <1>2, <1>4
  <1> QED BY <1>3, <1>5, <1>7, <1>8, <1>9, <1>10 DEF e, list, Sized, SizeIsExact

\* No step makes the count differ from the bytes of the entries.
LEMMA SizedStep == IInv /\ Sized /\ [Next]_vars => Sized'
  <1> SUFFICES ASSUME IInv, Sized, [Next]_vars PROVE Sized'
    OBVIOUS
  <1>1. ll \in Seq(Entry) /\ Unique(ll) /\ KeysOf(ll) = keyToEntry
    BY DEF IInv, ListMatchesMap, Unique
  <1>2. Sized' <=> maxBytes' \in Capacities /\ nbytes' = Size(ll')
    BY DEF Sized, SizeIsExact, Size, Bytes, ToSet, EntrySize
  <1>3. /\ ToSet(ll) \in SUBSET Entry /\ IsFiniteSet(ToSet(ll)) /\ Size(ll) \in Nat
        /\ nbytes = Size(ll) /\ maxBytes \in Capacities
    BY <1>1, FiniteList DEF Sized, SizeIsExact
  <1>4. ASSUME ToSet(ll') = ToSet(ll), nbytes' = nbytes, maxBytes' = maxBytes
        PROVE  Sized'
    BY <1>2, <1>3, <1>4 DEF Size
  <1>5. ASSUME NEW e \in ToSet(ll), ToSet(ll') = ToSet(ll) \ {e},
               nbytes' = nbytes - EntrySize(e), maxBytes' = maxBytes
        PROVE  Sized'
    <2>1. Cardinality(Bytes(ToSet(ll) \ {e})) = Cardinality(Bytes(ToSet(ll))) - EntrySize(e)
      BY <1>3, BytesChange
    <2> QED BY <1>2, <1>3, <1>5, <2>1 DEF Size
  <1>6. ASSUME NEW k \in Keys, Get(k)
        PROVE  Sized'
    <2>1. ToSet(ll') = ToSet(ll)
      BY <1>1, <1>6, MoveFacts DEF Get
    <2> QED BY <1>4, <1>6, <2>1 DEF Get
  <1>7. ASSUME NEW k \in Keys, Del(k)
        PROVE  Sized'
    <2>1. CASE k \in keyToEntry
      <3>1. ll[At(ll, k)] \in ToSet(ll)
        BY <1>1, <2>1, AtFacts DEF ToSet
      <3>2. ToSet(ll') = ToSet(ll) \ {ll[At(ll, k)]}
        BY <1>1, <1>7, <2>1, WithoutFacts DEF Del
      <3> QED BY <1>5, <1>7, <2>1, <3>1, <3>2 DEF Del
    <2>2. CASE k \notin keyToEntry
      BY <1>4, <1>7, <2>2 DEF Del
    <2> QED BY <2>1, <2>2
  <1>8. ASSUME NEW k \in Keys, NEW v \in Values, Update(k, v)
        PROVE  Sized'
    <2> DEFINE moved == MovedToFront(ll, k)
               old == ll[At(ll, k)]
               new == [key |-> k, value |-> v]
    <2>1. moved \in Seq(Entry) /\ Unique(moved) /\ 1 \in DOMAIN moved
          /\ moved[1] = old /\ ToSet(moved) = ToSet(ll)
      BY <1>1, <1>8, MoveFacts DEF Update
    <2>2. /\ ll' = [moved EXCEPT ![1].value = v] /\ k \in KeysOf(ll)
          /\ nbytes' = nbytes + ValueLen[v] - ValueLen[old.value] /\ maxBytes' = maxBytes
      BY <1>1, <1>8 DEF Update
    <2>3. old \in ToSet(ll) /\ old \in Entry /\ old.key = k
      BY <1>1, <2>2, AtFacts DEF ToSet
    <2>4. \A x \in ToSet(ll) : x.key = k => x = old
      BY <1>1, ContentsFacts
    <2>5. new \in Entry /\ new.key = k /\ new.value = v
      BY DEF Entry
    <2> HIDE DEF moved, old
    <2>6. ToSet(ll') = (ToSet(ll) \ {old}) \union {new}
      BY <2>1, <2>2, <2>3, ReplaceFacts
    <2> HIDE DEF new
    <2> DEFINE rest == ToSet(ll) \ {old}
    <2>7. rest \in SUBSET Entry /\ IsFiniteSet(rest) /\ new \notin rest
      BY <1>3, <2>4, <2>5, FS_RemoveElement
    <2>8. Cardinality(Bytes(rest)) = Cardinality(Bytes(ToSet(ll))) - EntrySize(old)
      BY <1>3, <2>3, BytesChange
    <2> HIDE DEF rest
    <2>9. Cardinality(Bytes(rest \union {new})) = Cardinality(Bytes(rest)) + EntrySize(new)
      BY <2>5, <2>7, BytesChange
    <2>10. ToSet(ll') = rest \union {new}
      BY <2>6 DEF rest
    <2>11. Size(ll') = Size(ll) - EntrySize(old) + EntrySize(new)
      BY <2>8, <2>9, <2>10 DEF Size
    <2>12. /\ EntrySize(old) = KeyLen[k] + ValueLen[old.value]
           /\ EntrySize(new) = KeyLen[k] + ValueLen[v]
           /\ KeyLen[k] \in Nat /\ ValueLen[v] \in Nat /\ ValueLen[old.value] \in Nat
      BY <2>3, <2>5, LenAssumption DEF EntrySize, Entry
    <2>13. nbytes' = Size(ll')
      BY <1>3, <2>2, <2>11, <2>12
    <2> QED BY <1>2, <1>3, <2>2, <2>13
  <1>9. ASSUME NEW k \in Keys, NEW v \in Values, Insert(k, v)
        PROVE  Sized'
    <2> DEFINE list == Longer(k, v)
               bytes == nbytes + KeyLen[k] + ValueLen[v]
    <2>1. k \notin keyToEntry /\ maxBytes' = maxBytes
      BY <1>9 DEF Insert
    <2>2. PICK n \in 0..Len(list) :
            /\ ll' = SubSeq(list, 1, n)
            /\ nbytes' = bytes - Size(SubSeq(list, n + 1, Len(list)))
      BY <1>9 DEF Insert, Longer
    <2>3. /\ Size(list) = bytes
          /\ Size(SubSeq(list, 1, n)) = Size(list) - Size(SubSeq(list, n + 1, Len(list)))
      BY <2>1, InsertSize
    <2>4. nbytes' = Size(ll')
      BY <2>2, <2>3
    <2> QED BY <1>2, <1>3, <2>1, <2>4
  <1>10. CASE RemoveOldest
    <2>1. CASE ll = <<>>
      BY <1>4, <1>10, <2>1 DEF RemoveOldest
    <2>2. CASE ll # <<>>
      <3> DEFINE n == Len(ll) - 1
                 e == ll[Len(ll)]
      <3>1. n \in 0..Len(ll) /\ Len(ll) \in Nat /\ n + 1 = Len(ll) /\ Len(ll) \in DOMAIN ll
        BY <1>1, <2>2
      <3>2. ll' = SubSeq(ll, 1, n) /\ nbytes' = nbytes - EntrySize(e) /\ maxBytes' = maxBytes
        BY <1>10, <2>2 DEF RemoveOldest, Front, Last
      <3>3. LET last == SubSeq(ll, Len(ll), Len(ll))
            IN  DOMAIN last = {1} /\ last[1] = e
        BY <1>1, <3>1
      <3>4. ToSet(SubSeq(ll, n + 1, Len(ll))) = {e}
        BY <3>1, <3>3 DEF ToSet
      <3>5. e \in ToSet(ll)
        BY <3>1 DEF ToSet
      <3> HIDE DEF n, e
      <3>6. ToSet(ll') = ToSet(ll) \ {e}
        BY <1>1, <3>1, <3>2, <3>4, PrefixFacts
      <3> QED BY <1>5, <3>2, <3>5, <3>6
    <2> QED BY <2>1, <2>2
  <1>11. CASE UNCHANGED vars
    BY <1>4, <1>11 DEF vars
  <1> QED BY <1>6, <1>7, <1>8, <1>9, <1>10, <1>11 DEF Next, Set

\* The count starts at no bytes for no entries.
LEMMA InitSized == Init => IInv /\ Sized
  <1> SUFFICES ASSUME Init PROVE IInv /\ Sized
    OBVIOUS
  <1>1. IInv
    BY DEF Init, IInv, ListMatchesMap, KeysOf
  <1>2. Bytes(ToSet(ll)) = {}
    BY DEF Init, Bytes, ToSet
  <1>3. Size(ll) = 0
    BY <1>2, FS_EmptySet DEF Size
  <1> QED BY <1>1, <1>3 DEF Init, Sized, SizeIsExact

\* The bytes an LRUCache counts are those its entries take, whatever was set,
\* replaced, deleted and evicted (cache/LRU.go:54, 64, 81, 95).
THEOREM CountIsExact == Spec => []SizeIsExact
  <1>1. Init => IInv /\ Sized
    BY InitSized
  <1>2. IInv /\ Sized /\ [Next]_vars => IInv' /\ Sized'
    BY NextIInv, SizedStep
  <1>3. Sized => SizeIsExact
    BY DEF Sized
  <1> QED BY <1>1, <1>2, <1>3, PTL DEF Spec

\* A Set makes room for its entry when there is any to be made, and a new key leaves
\* the cache within its bound.
LEMMA RoomIsMade ==
  ASSUME IInv, Sized, NEW k \in Keys, NEW v \in Values, Set(k, v)
  PROVE  /\ (maxBytes <= 0 \/ KeyLen[k] + ValueLen[v] <= maxBytes)
              => [key |-> k, value |-> v] \in ToSet(ll')
         /\ (k \notin keyToEntry /\ maxBytes > 0) => nbytes' <= maxBytes
  <1>1. ll \in Seq(Entry) /\ Unique(ll) /\ KeysOf(ll) = keyToEntry
    BY DEF IInv, ListMatchesMap, Unique
  <1>2. CASE Update(k, v)
    <2> DEFINE moved == MovedToFront(ll, k)
    <2>1. /\ moved \in Seq(Entry) /\ Unique(moved) /\ 1 \in DOMAIN moved
          /\ moved[1] = ll[At(ll, k)] /\ k \in KeysOf(ll)
          /\ ll' = [moved EXCEPT ![1].value = v] /\ k \in keyToEntry
      BY <1>1, <1>2, MoveFacts DEF Update
    <2>2. moved[1].key = k
      BY <1>1, <2>1, AtFacts
    <2> HIDE DEF moved
    <2>3. [key |-> k, value |-> v] \in ToSet(ll')
      BY <2>1, <2>2, ReplaceFacts
    <2> QED BY <2>1, <2>3
  <1>3. CASE Insert(k, v)
    <2> DEFINE list == Longer(k, v)
               bytes == nbytes + KeyLen[k] + ValueLen[v]
    <2>1. k \notin keyToEntry
      BY <1>3 DEF Insert
    <2>2. PICK n \in 0..Len(list) :
            /\ Fits(list, bytes, n)
            /\ \A more \in (n + 1)..Len(list) : ~Fits(list, bytes, more)
            /\ ll' = SubSeq(list, 1, n)
            /\ nbytes' = bytes - Size(SubSeq(list, n + 1, Len(list)))
      BY <1>3 DEF Insert, Longer
    <2>3. /\ list \in Seq(Entry) /\ Len(list) = Len(ll) + 1 /\ list[1] = [key |-> k, value |-> v]
          /\ SubSeq(list, 2, Len(list)) = ll
          /\ nbytes \in Nat /\ KeyLen[k] \in Nat /\ ValueLen[v] \in Nat
      BY <2>1, InsertSize
    <2>4. maxBytes \in Int /\ nbytes = Size(ll)
      BY CapacityAssumption DEF Sized, SizeIsExact
    <2> HIDE DEF list
    <2>5. ASSUME maxBytes <= 0 \/ KeyLen[k] + ValueLen[v] <= maxBytes
          PROVE  [key |-> k, value |-> v] \in ToSet(ll')
      <3>1. Fits(list, bytes, 1)
        <4>1. SubSeq(list, 1 + 1, Len(list)) = ll
          BY <2>3
        <4>2. maxBytes <= 0 \/ bytes - Size(ll) <= maxBytes
          BY <2>3, <2>4, <2>5
        <4> QED BY <4>1, <4>2 DEF Fits
      <3>2. n # 0
        BY <1>1, <2>2, <2>3, <3>1
      <3>3. 1 \in DOMAIN ll' /\ ll'[1] = list[1]
        BY <2>2, <2>3, <3>2
      <3> QED BY <2>3, <3>3 DEF ToSet
    <2>6. ASSUME maxBytes > 0 PROVE nbytes' <= maxBytes
      BY <2>2, <2>4, <2>6 DEF Fits
    <2> QED BY <2>5, <2>6
  <1> QED BY <1>2, <1>3 DEF Set

\* Whatever is in an LRUCache, a Set whose entry fits alone leaves it there, and the
\* Set of a new key leaves the cache within its bound (cache/LRU.go:62-71).
THEOREM RoomForTheNew == Spec => SetMakesRoom
  <1>1. Init => IInv /\ Sized
    BY InitSized
  <1>2. IInv /\ Sized /\ [Next]_vars => IInv' /\ Sized'
    BY NextIInv, SizedStep
  <1>3. IInv /\ Sized /\ [Next]_vars =>
          [\A k \in Keys, v \in Values :
              Set(k, v) =>
                  /\ (maxBytes <= 0 \/ KeyLen[k] + ValueLen[v] <= maxBytes)
                      => [key |-> k, value |-> v] \in ToSet(ll')
                  /\ (k \notin keyToEntry /\ maxBytes > 0) => nbytes' <= maxBytes]_vars
    BY RoomIsMade
  <1> QED BY <1>1, <1>2, <1>3, PTL DEF Spec, SetMakesRoom

=============================================================================
