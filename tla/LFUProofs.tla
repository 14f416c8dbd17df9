----------------------------- MODULE LFUProofs -----------------------------
(***************************************************************************)
(* Proofs about LFU, for any keys, values, sizes, bounds and use counts.   *)
(*                                                                         *)
(* What the lists hold is all that matters: HeldAt(lists, f) is the set of *)
(* the keys in the list of count f.  Each operation changes these sets as  *)
(* it changes the counts of the map (Match), and minFreq never passes a    *)
(* count whose list is there (Least).  Each list is ordered by last use    *)
(* (Aged), and nBytes is the number of bytes of the map's entries (Sized). *)
(***************************************************************************)
EXTENDS LFU, SequenceTheorems, FiniteSetTheorems, WellFoundedInduction, TLAPS

Distinct(list) == \A i, j \in DOMAIN list : list[i] = list[j] => i = j

\* x is somewhere in front of y.
Before(list, x, y) == \E i, j \in DOMAIN list : i < j /\ list[i] = x /\ list[j] = y

\* Lists by use count, none of them empty.
Sound(lists) ==
    /\ DOMAIN lists \subseteq Freqs
    /\ \A f \in DOMAIN lists : lists[f] \in Seq(Keys) \ {<<>>} /\ Distinct(lists[f])

HeldAt(lists, f) == IF f \in DOMAIN lists THEN ToSet(lists[f]) ELSE {}

Match(lists, map) ==
    \A f \in Freqs : HeldAt(lists, f) = {k \in DOMAIN map : map[k].freq = f}

EntriesOK(map) ==
    /\ DOMAIN map \subseteq Keys
    /\ \A k \in DOMAIN map : map[k] \in LFUEntry

Least == \A f \in DOMAIN freqToList : minFreq <= f

IInv ==
    /\ minFreq \in 0..MaxFreq
    /\ EntriesOK(keyToEntry)
    /\ Sound(freqToList)
    /\ Match(freqToList, keyToEntry)
    /\ Least

-----------------------------------------------------------------------------
\* A list without one of its keys: the others stay, in order.
LEMMA RemoveFacts ==
  ASSUME NEW list \in Seq(Keys), Distinct(list), NEW k \in ToSet(list)
  PROVE  /\ RemoveAt(list, At(list, k)) \in Seq(Keys)
         /\ Distinct(RemoveAt(list, At(list, k)))
         /\ ToSet(RemoveAt(list, At(list, k))) = ToSet(list) \ {k}
         /\ \A x, y : Before(RemoveAt(list, At(list, k)), x, y)
                        <=> x # k /\ y # k /\ Before(list, x, y)
  <1> DEFINE i == At(list, k)
             rest == RemoveAt(list, i)
             Old(j) == IF j < i THEN j ELSE j + 1
             left == SubSeq(list, 1, i - 1)
             right == SubSeq(list, i + 1, Len(list))
  <1>1. i \in 1..Len(list) /\ list[i] = k
    <2>1. \E j \in DOMAIN list : list[j] = k
      BY DEF ToSet
    <2>2. i \in DOMAIN list /\ list[i] = k
      BY <2>1 DEF At
    <2> QED BY <2>2
  <1> HIDE DEF i
  <1>2. Len(list) \in Nat /\ i \in Nat /\ 1 <= i /\ i <= Len(list) /\ DOMAIN list = 1..Len(list)
    BY <1>1
  <1>3. left \in Seq(Keys) /\ Len(left) = i - 1 /\ \A j \in 1..(i - 1) : left[j] = list[j]
    BY <1>1
  <1>4. /\ right \in Seq(Keys) /\ Len(right) = Len(list) - i
        /\ \A j \in 1..(Len(list) - i) : right[j] = list[i + j]
    BY <1>1
  <1>5. rest = left \o right
    BY DEF RemoveAt
  <1> HIDE DEF left, right
  <1>6. /\ left \o right \in Seq(Keys)
        /\ Len(left \o right) = Len(left) + Len(right)
        /\ \A j \in 1..(Len(left) + Len(right)) : (left \o right)[j] =
               IF j <= Len(left) THEN left[j] ELSE right[j - Len(left)]
    BY <1>3, <1>4, ConcatProperties
  <1>7. Len(left) + Len(right) = Len(list) - 1
    BY <1>2, <1>3, <1>4
  <1>8. rest \in Seq(Keys) /\ Len(rest) = Len(list) - 1 /\ DOMAIN rest = 1..(Len(list) - 1)
    BY <1>5, <1>6, <1>7
  <1>9. ASSUME NEW j \in 1..(Len(list) - 1)
        PROVE  rest[j] = list[Old(j)] /\ Old(j) \in 1..Len(list) /\ Old(j) # i
    <2>1. rest[j] = IF j <= i - 1 THEN left[j] ELSE right[j - (i - 1)]
      BY <1>3, <1>5, <1>6, <1>7
    <2>2. CASE j < i
      <3>1. j \in 1..(i - 1) /\ j <= i - 1
        BY <1>2, <2>2
      <3> QED BY <1>2, <1>3, <2>1, <2>2, <3>1
    <2>3. CASE ~(j < i)
      <3>1. j - (i - 1) \in 1..(Len(list) - i) /\ ~(j <= i - 1) /\ i + (j - (i - 1)) = j + 1
        BY <1>2, <2>3
      <3>2. right[j - (i - 1)] = list[i + (j - (i - 1))]
        BY <1>4, <3>1
      <3> QED BY <1>2, <2>1, <2>3, <3>1, <3>2
    <2> QED BY <2>2, <2>3
  <1> HIDE DEF rest
  <1>10. \A j, h \in 1..(Len(list) - 1) : Old(j) = Old(h) => j = h
    BY <1>2
  <1>11. ASSUME NEW h \in 1..Len(list), h # i
         PROVE  \E j \in 1..(Len(list) - 1) : Old(j) = h
    <2>1. CASE h < i
      <3>1. h \in 1..(Len(list) - 1) /\ Old(h) = h
        BY <1>2, <2>1
      <3> QED BY <3>1
    <2>2. CASE ~(h < i)
      <3>1. h - 1 \in 1..(Len(list) - 1) /\ Old(h - 1) = h
        BY <1>2, <1>11, <2>2
      <3> QED BY <3>1
    <2> QED BY <2>1, <2>2
  <1>15. \A j, h \in 1..(Len(list) - 1) : j < h <=> Old(j) < Old(h)
    BY <1>2
  <1> HIDE DEF Old
  <1>12. Distinct(rest)
    <2> SUFFICES ASSUME NEW j \in 1..(Len(list) - 1), NEW h \in 1..(Len(list) - 1),
                        rest[j] = rest[h]
                 PROVE  j = h
      BY <1>8 DEF Distinct
    <2>1. /\ rest[j] = list[Old(j)] /\ Old(j) \in DOMAIN list
          /\ rest[h] = list[Old(h)] /\ Old(h) \in DOMAIN list
      BY <1>2, <1>9
    <2>2. Old(j) = Old(h)
      BY <2>1 DEF Distinct
    <2> QED BY <1>10, <2>2
  <1>13. ToSet(rest) \subseteq ToSet(list) \ {k}
    <2> SUFFICES ASSUME NEW x \in ToSet(rest) PROVE x \in ToSet(list) /\ x # k
      OBVIOUS
    <2>1. PICK j \in 1..(Len(list) - 1) : rest[j] = x
      BY <1>8 DEF ToSet
    <2>2. x = list[Old(j)] /\ Old(j) \in DOMAIN list /\ Old(j) # i
      BY <1>2, <1>9, <2>1
    <2>3. x # k
      BY <1>1, <1>2, <2>2 DEF Distinct
    <2> QED BY <2>2, <2>3 DEF ToSet
  <1>14. ToSet(list) \ {k} \subseteq ToSet(rest)
    <2> SUFFICES ASSUME NEW x \in ToSet(list), x # k PROVE x \in ToSet(rest)
      OBVIOUS
    <2>1. PICK h \in 1..Len(list) : list[h] = x
      BY <1>2 DEF ToSet
    <2>2. h # i
      BY <1>1, <2>1
    <2>3. PICK j \in 1..(Len(list) - 1) : Old(j) = h
      BY <1>11, <2>2
    <2> QED BY <1>8, <1>9, <2>1, <2>3 DEF ToSet
  <1>16. ASSUME NEW x, NEW y, Before(rest, x, y) PROVE x # k /\ y # k /\ Before(list, x, y)
    <2>1. PICK j, h \in 1..(Len(list) - 1) : j < h /\ rest[j] = x /\ rest[h] = y
      BY <1>8, <1>16 DEF Before
    <2>2. Old(j) < Old(h) /\ Old(j) \in DOMAIN list /\ Old(h) \in DOMAIN list
      BY <1>2, <1>9, <1>15, <2>1
    <2>3. x \in ToSet(rest) /\ y \in ToSet(rest)
      BY <1>8, <2>1 DEF ToSet
    <2> QED BY <1>9, <1>13, <2>1, <2>2, <2>3 DEF Before
  <1>17. ASSUME NEW x, NEW y, x # k, y # k, Before(list, x, y) PROVE Before(rest, x, y)
    <2>1. PICK a, b \in 1..Len(list) : a < b /\ list[a] = x /\ list[b] = y
      BY <1>2, <1>17 DEF Before
    <2>2. a # i /\ b # i
      BY <1>1, <1>17, <2>1
    <2>3. PICK j \in 1..(Len(list) - 1) : Old(j) = a
      BY <1>11, <2>2
    <2>4. PICK h \in 1..(Len(list) - 1) : Old(h) = b
      BY <1>11, <2>2
    <2>5. j < h /\ rest[j] = x /\ rest[h] = y
      BY <1>9, <1>15, <2>1, <2>3, <2>4
    <2> QED BY <1>8, <2>5 DEF Before
  <1> QED BY <1>8, <1>12, <1>13, <1>14, <1>16, <1>17 DEF rest, i

\* A list with one more key in front.
LEMMA PushFacts ==
  ASSUME NEW list \in Seq(Keys), Distinct(list), NEW k \in Keys, k \notin ToSet(list)
  PROVE  /\ <<k>> \o list \in Seq(Keys) \ {<<>>}
         /\ Distinct(<<k>> \o list)
         /\ ToSet(<<k>> \o list) = ToSet(list) \union {k}
  <1> DEFINE longer == <<k>> \o list
  <1>1. /\ longer \in Seq(Keys)
        /\ DOMAIN longer = 1..(Len(list) + 1)
        /\ longer[1] = k
        /\ \A j \in 1..(Len(list) + 1) : j # 1 => j - 1 \in 1..Len(list) /\ longer[j] = list[j - 1]
    OBVIOUS
  <1>2. \A j \in 1..Len(list) : j + 1 \in DOMAIN longer /\ longer[j + 1] = list[j]
    OBVIOUS
  <1>3. DOMAIN list = 1..Len(list) /\ Len(list) \in Nat
    OBVIOUS
  <1>4. longer # <<>>
    OBVIOUS
  <1> HIDE DEF longer
  <1>5. \A j \in DOMAIN list : list[j] # k
    BY DEF ToSet
  <1>6. Distinct(longer)
    <2> SUFFICES ASSUME NEW j \in DOMAIN longer, NEW h \in DOMAIN longer, longer[j] = longer[h]
                 PROVE  j = h
      BY DEF Distinct
    <2>1. CASE j = 1 \/ h = 1
      BY <1>1, <1>3, <1>5, <2>1
    <2>2. CASE j # 1 /\ h # 1
      <3>1. /\ j \in Nat /\ j - 1 \in DOMAIN list /\ longer[j] = list[j - 1]
            /\ h \in Nat /\ h - 1 \in DOMAIN list /\ longer[h] = list[h - 1]
        BY <1>1, <1>3, <2>2
      <3>2. j - 1 = h - 1
        BY <3>1 DEF Distinct
      <3> QED BY <3>1, <3>2
    <2> QED BY <2>1, <2>2
  <1>7. 1 \in DOMAIN longer
    BY <1>1, <1>3
  <1>8. ASSUME NEW x \in ToSet(longer) PROVE x \in ToSet(list) \union {k}
    <2>1. PICK j \in DOMAIN longer : longer[j] = x
      BY Zenon DEF ToSet
    <2>2. CASE j = 1
      BY <1>1, <2>1, <2>2
    <2>3. CASE j # 1
      <3>1. j - 1 \in DOMAIN list /\ list[j - 1] = x
        BY <1>1, <1>3, <2>1, <2>3
      <3> QED BY <3>1, Zenon DEF ToSet
    <2> QED BY <2>2, <2>3
  <1>9. ASSUME NEW x \in ToSet(list) \union {k} PROVE x \in ToSet(longer)
    <2>1. CASE x = k
      BY <1>1, <1>7, <2>1, Zenon DEF ToSet
    <2>2. CASE x \in ToSet(list)
      <3>1. PICK j \in DOMAIN list : list[j] = x
        BY <2>2, Zenon DEF ToSet
      <3>2. j + 1 \in DOMAIN longer /\ longer[j + 1] = x
        BY <1>2, <1>3, <3>1
      <3> QED BY <3>2, Zenon DEF ToSet
    <2> QED BY <2>1, <2>2
  <1> QED BY <1>1, <1>4, <1>6, <1>8, <1>9 DEF longer

\* The first keys of a list and the others.
LEMMA PrefixFacts ==
  ASSUME NEW list \in Seq(Keys), Distinct(list), NEW n \in 0..Len(list)
  PROVE  /\ SubSeq(list, 1, Len(list) - n) \in Seq(Keys)
         /\ Distinct(SubSeq(list, 1, Len(list) - n))
         /\ ToSet(SubSeq(list, 1, Len(list) - n))
              = ToSet(list) \ ToSet(SubSeq(list, Len(list) - n + 1, Len(list)))
         /\ n < Len(list) => SubSeq(list, 1, Len(list) - n) # <<>>
         /\ n = Len(list) => ToSet(SubSeq(list, Len(list) - n + 1, Len(list))) = ToSet(list)
         /\ n = 1 => ToSet(SubSeq(list, Len(list) - n + 1, Len(list))) = {list[Len(list)]}
         /\ ToSet(SubSeq(list, Len(list) - n + 1, Len(list))) \subseteq ToSet(list)
  <1> DEFINE m == Len(list) - n
             kept == SubSeq(list, 1, m)
             gone == SubSeq(list, m + 1, Len(list))
  <1>1. Len(list) \in Nat /\ DOMAIN list = 1..Len(list) /\ n \in Nat /\ n <= Len(list)
        /\ m \in 0..Len(list) /\ Len(list) - m = n
    OBVIOUS
  <1> HIDE DEF m
  <1>2. /\ kept \in Seq(Keys) /\ DOMAIN kept = 1..m /\ Len(kept) = m
        /\ \A j \in 1..m : kept[j] = list[j]
    BY <1>1
  <1>3. /\ DOMAIN gone = 1..n
        /\ \A j \in 1..n : gone[j] = list[m + j]
    <2>1. /\ DOMAIN gone = 1..(Len(list) - m)
          /\ \A j \in 1..(Len(list) - m) : gone[j] = list[m + j]
      <3>1. m \in 0..Len(list)
        BY <1>1
      <3> QED BY <3>1
    <2> QED BY <1>1, <2>1
  <1> HIDE DEF kept, gone
  <1>4. Distinct(kept)
    BY <1>1, <1>2 DEF Distinct
  <1>5. ToSet(gone) = {list[h] : h \in (m + 1)..Len(list)}
    <2>1. \A j \in 1..n : m + j \in (m + 1)..Len(list)
      BY <1>1
    <2>2. \A h \in (m + 1)..Len(list) : h - m \in 1..n /\ m + (h - m) = h
      BY <1>1
    <2>3. \A h \in (m + 1)..Len(list) : gone[h - m] = list[h] /\ h - m \in DOMAIN gone
      BY <1>3, <2>2
    <2>4. ToSet(gone) \subseteq {list[h] : h \in (m + 1)..Len(list)}
      BY <1>3, <2>1 DEF ToSet
    <2>5. {list[h] : h \in (m + 1)..Len(list)} \subseteq ToSet(gone)
      <3> SUFFICES ASSUME NEW h \in (m + 1)..Len(list) PROVE list[h] \in ToSet(gone)
        OBVIOUS
      <3> QED BY <2>3, Zenon DEF ToSet
    <2> QED BY <2>4, <2>5
  <1>6. ToSet(list) = {list[h] : h \in 1..Len(list)} /\ ToSet(kept) = {list[h] : h \in 1..m}
    BY <1>1, <1>2 DEF ToSet
  <1>7. \A h \in 1..Len(list) : h \in 1..m \/ h \in (m + 1)..Len(list)
    BY <1>1
  <1>8. \A h \in 1..m : h \in 1..Len(list) /\ \A j \in (m + 1)..Len(list) : list[h] # list[j]
    BY <1>1 DEF Distinct
  <1>9. \A h \in (m + 1)..Len(list) : h \in 1..Len(list)
    BY <1>1
  <1>10. ToSet(kept) = ToSet(list) \ ToSet(gone)
    BY <1>5, <1>6, <1>7, <1>8
  <1>11. ToSet(gone) \subseteq ToSet(list)
    BY <1>5, <1>6, <1>9
  <1>12. n < Len(list) => kept # <<>>
    BY <1>1, <1>2
  <1>13. n = Len(list) => ToSet(gone) = ToSet(list)
    <2>1. n = Len(list) => ToSet(kept) = {}
      BY <1>1, <1>2 DEF ToSet
    <2> QED BY <2>1, <1>10, <1>11
  <1>14. n = 1 => ToSet(gone) = {list[Len(list)]}
    <2> SUFFICES ASSUME n = 1 PROVE ToSet(gone) = {list[Len(list)]}
      OBVIOUS
    <2>1. DOMAIN gone = {1} /\ gone[1] = list[Len(list)]
      BY <1>1, <1>3
    <2> QED BY <2>1 DEF ToSet
  <1> QED BY <1>2, <1>4, <1>10, <1>11, <1>12, <1>13, <1>14 DEF kept, gone, m

\* Only the empty list holds no key.
LEMMA EmptyFacts ==
  /\ <<>> \in Seq(Keys) /\ Distinct(<<>>) /\ ToSet(<<>>) = {}
  /\ \A list \in Seq(Keys) : ToSet(list) = {} <=> list = <<>>
  <1>1. <<>> \in Seq(Keys) /\ Distinct(<<>>) /\ ToSet(<<>>) = {}
    BY DEF Distinct, ToSet
  <1>2. ASSUME NEW list \in Seq(Keys), ToSet(list) = {} PROVE list = <<>>
    <2>1. DOMAIN list = 1..Len(list) /\ Len(list) \in Nat
      OBVIOUS
    <2>2. 1 \notin DOMAIN list
      BY <1>2, Zenon DEF ToSet
    <2>3. Len(list) = 0
      BY <2>1, <2>2
    <2> QED BY <2>3
  <1> QED BY <1>1, <1>2

-----------------------------------------------------------------------------
\* The three ways the lists change.
LEMMA ListWithoutFacts ==
  ASSUME NEW lists, Sound(lists), NEW f \in DOMAIN lists, NEW k \in ToSet(lists[f])
  PROVE  /\ Sound(ListWithout(lists, f, k))
         /\ DOMAIN ListWithout(lists, f, k) \subseteq DOMAIN lists
         /\ \A g \in DOMAIN lists : g # f => g \in DOMAIN ListWithout(lists, f, k)
         /\ HeldAt(ListWithout(lists, f, k), f) = HeldAt(lists, f) \ {k}
         /\ \A g : g # f => HeldAt(ListWithout(lists, f, k), g) = HeldAt(lists, g)
  <1> DEFINE rest == RemoveAt(lists[f], At(lists[f], k))
             new == ListWithout(lists, f, k)
  <1>1. lists[f] \in Seq(Keys) /\ Distinct(lists[f]) /\ DOMAIN lists \subseteq Freqs
        /\ \A g \in DOMAIN lists : lists[g] \in Seq(Keys) \ {<<>>} /\ Distinct(lists[g])
    BY DEF Sound
  <1>2. rest \in Seq(Keys) /\ Distinct(rest) /\ ToSet(rest) = ToSet(lists[f]) \ {k}
    BY <1>1, RemoveFacts
  <1>3. new = IF rest = <<>> THEN Drop(lists, f) ELSE [lists EXCEPT ![f] = rest]
    BY DEF ListWithout
  <1> HIDE DEF rest, new
  <1>4. CASE rest = <<>>
    <2>1. DOMAIN new = DOMAIN lists \ {f} /\ \A g \in DOMAIN new : new[g] = lists[g]
      BY <1>3, <1>4 DEF Drop
    <2>2. Sound(new)
      BY <1>1, <2>1 DEF Sound
    <2>3. ToSet(lists[f]) \ {k} = {}
      BY <1>2, <1>4, EmptyFacts
    <2> QED BY <2>1, <2>2, <2>3 DEF HeldAt, new
  <1>5. CASE rest # <<>>
    <2>1. DOMAIN new = DOMAIN lists /\ new[f] = rest /\ \A g \in DOMAIN new : g # f => new[g] = lists[g]
      BY <1>3, <1>5
    <2>2. Sound(new)
      BY <1>1, <1>2, <1>5, <2>1 DEF Sound
    <2> QED BY <1>2, <2>1, <2>2 DEF HeldAt, new
  <1> QED BY <1>4, <1>5

\* A push makes no empty list.
LEMMA PushedFacts ==
  ASSUME NEW lists, Sound(lists), NEW f \in Freqs, NEW k \in Keys, k \notin HeldAt(lists, f)
  PROVE  /\ Sound(Pushed(lists, f, k))
         /\ DOMAIN Pushed(lists, f, k) = DOMAIN lists \union {f}
  <1> DEFINE old == IF f \in DOMAIN lists THEN lists[f] ELSE <<>>
             list == <<k>> \o old
             new == Pushed(lists, f, k)
  <1>1. DOMAIN lists \subseteq Freqs
        /\ \A g \in DOMAIN lists : lists[g] \in Seq(Keys) \ {<<>>} /\ Distinct(lists[g])
    BY DEF Sound
  <1>2. old \in Seq(Keys) /\ Distinct(old) /\ ToSet(old) = HeldAt(lists, f)
    BY <1>1, EmptyFacts DEF HeldAt
  <1> HIDE DEF old
  <1>3. list \in Seq(Keys) \ {<<>>} /\ Distinct(list) /\ ToSet(list) = HeldAt(lists, f) \union {k}
    BY <1>2, PushFacts
  <1>4. DOMAIN new = DOMAIN lists \union {f} /\ new[f] = list
        /\ \A g \in DOMAIN lists : g # f => new[g] = lists[g]
    BY DEF Pushed, Put, old
  <1> HIDE DEF list, new
  <1>5. Sound(new)
    BY <1>1, <1>3, <1>4 DEF Sound
  <1> QED BY <1>4, <1>5 DEF new

\* It adds its key to one list.
LEMMA PushedHolds ==
  ASSUME NEW lists, Sound(lists), NEW f \in Freqs, NEW k \in Keys, k \notin HeldAt(lists, f)
  PROVE  /\ HeldAt(Pushed(lists, f, k), f) = HeldAt(lists, f) \union {k}
         /\ \A g : g # f => HeldAt(Pushed(lists, f, k), g) = HeldAt(lists, g)
  <1> DEFINE old == IF f \in DOMAIN lists THEN lists[f] ELSE <<>>
             list == <<k>> \o old
             new == Pushed(lists, f, k)
  <1>1. old \in Seq(Keys) /\ Distinct(old) /\ ToSet(old) = HeldAt(lists, f)
    BY EmptyFacts DEF HeldAt, Sound
  <1> HIDE DEF old
  <1>2. ToSet(list) = HeldAt(lists, f) \union {k}
    BY <1>1, PushFacts
  <1>3. DOMAIN new = DOMAIN lists \union {f} /\ new[f] = list
        /\ \A g \in DOMAIN lists : g # f => new[g] = lists[g]
    BY DEF Pushed, Put, old
  <1> HIDE DEF list, new
  <1>4. HeldAt(new, f) = HeldAt(lists, f) \union {k}
    BY <1>2, <1>3 DEF HeldAt
  <1>5. \A g : g # f => HeldAt(new, g) = HeldAt(lists, g)
    BY <1>3 DEF HeldAt
  <1> QED BY <1>4, <1>5 DEF new

\* Evictions take keys from the list minFreq names.
LEMMA VictimsFacts ==
  ASSUME Sound(freqToList), NEW n \in 0..Available
  PROVE  /\ Sound(ListsWithoutVictims(n))
         /\ DOMAIN ListsWithoutVictims(n) \subseteq DOMAIN freqToList
         /\ Victims(n) \subseteq HeldAt(freqToList, minFreq)
         /\ HeldAt(ListsWithoutVictims(n), minFreq) = HeldAt(freqToList, minFreq) \ Victims(n)
         /\ \A g : g # minFreq => HeldAt(ListsWithoutVictims(n), g) = HeldAt(freqToList, g)
         /\ n = 1 => \E k : Victims(n) = {k}
  <1> DEFINE new == ListsWithoutVictims(n)
             list == freqToList[minFreq]
  <1>1. CASE n = 0
    <2>1. new = freqToList /\ Victims(n) = {}
      BY <1>1 DEF ListsWithoutVictims, Victims
    <2> QED BY <1>1, <2>1
  <1>2. CASE n # 0
    <2>1. minFreq \in DOMAIN freqToList /\ Available = Len(list)
      <3>1. Available # 0
        BY <1>2
      <3> QED BY <3>1 DEF Available
    <2>2. /\ list \in Seq(Keys) /\ Distinct(list) /\ DOMAIN freqToList \subseteq Freqs
          /\ \A g \in DOMAIN freqToList :
                freqToList[g] \in Seq(Keys) \ {<<>>} /\ Distinct(freqToList[g])
          /\ HeldAt(freqToList, minFreq) = ToSet(list)
      BY <2>1 DEF Sound, HeldAt
    <2> DEFINE kept == SubSeq(list, 1, Len(list) - n)
               gone == SubSeq(list, Len(list) - n + 1, Len(list))
    <2>3. Victims(n) = ToSet(gone)
      BY <1>2 DEF Victims
    <2>4. new = IF n = Len(list) THEN Drop(freqToList, minFreq)
                ELSE [freqToList EXCEPT ![minFreq] = kept]
      BY <1>2, <2>1 DEF ListsWithoutVictims
    <2> HIDE DEF list, new
    <2>5. n \in 0..Len(list) /\ Len(list) \in Nat
      BY <2>1, <2>2
    <2>6. /\ kept \in Seq(Keys) /\ Distinct(kept) /\ ToSet(kept) = ToSet(list) \ ToSet(gone)
          /\ n < Len(list) => kept # <<>>
          /\ n = Len(list) => ToSet(gone) = ToSet(list)
          /\ n = 1 => ToSet(gone) = {list[Len(list)]}
          /\ ToSet(gone) \subseteq ToSet(list)
      BY <2>2, <2>5, PrefixFacts
    <2> HIDE DEF kept, gone
    <2>7. CASE n = Len(list)
      <3>1. DOMAIN new = DOMAIN freqToList \ {minFreq} /\ \A g \in DOMAIN new : new[g] = freqToList[g]
        BY <2>4, <2>7 DEF Drop
      <3>2. Sound(new)
        BY <2>2, <3>1 DEF Sound
      <3>3. HeldAt(new, minFreq) = {}
        BY <3>1 DEF HeldAt
      <3>4. \A g : g # minFreq => HeldAt(new, g) = HeldAt(freqToList, g)
        BY <3>1 DEF HeldAt
      <3> QED BY <2>2, <2>3, <2>6, <2>7, <3>1, <3>2, <3>3, <3>4 DEF new
    <2>8. CASE n # Len(list)
      <3>1. /\ DOMAIN new = DOMAIN freqToList /\ new[minFreq] = kept
            /\ \A g \in DOMAIN new : g # minFreq => new[g] = freqToList[g]
        BY <2>1, <2>4, <2>8
      <3>2. kept # <<>>
        BY <2>5, <2>6, <2>8
      <3>3. Sound(new)
        BY <2>2, <2>6, <3>1, <3>2 DEF Sound
      <3>4. HeldAt(new, minFreq) = ToSet(kept)
        BY <2>1, <3>1 DEF HeldAt
      <3>5. \A g : g # minFreq => HeldAt(new, g) = HeldAt(freqToList, g)
        BY <3>1 DEF HeldAt
      <3> QED BY <2>2, <2>3, <2>6, <3>1, <3>3, <3>4, <3>5 DEF new
    <2> QED BY <2>7, <2>8
  <1> QED BY <1>1, <1>2

\* The least of some use counts.
LEMMA LeastFacts ==
  ASSUME NEW lists, DOMAIN lists \subseteq Freqs
  PROVE  /\ LeastFreq(lists) \in 0..MaxFreq
         /\ \A f \in DOMAIN lists : LeastFreq(lists) <= f
         /\ DOMAIN lists # {} => LeastFreq(lists) \in DOMAIN lists
  <1>1. \A f \in DOMAIN lists : f \in 1..MaxFreq /\ f \in Nat
    BY FreqAssumption DEF Freqs
  <1>2. CASE DOMAIN lists = {}
    BY <1>2, FreqAssumption DEF LeastFreq
  <1>3. CASE DOMAIN lists # {}
    <2>1. IsWellFoundedOn(OpToRel(<, Nat), Nat)
      BY NatLessThanWellFounded
    <2>2. DOMAIN lists \subseteq Nat
      BY <1>1
    <2>3. PICK f \in DOMAIN lists : \A g \in DOMAIN lists : <<g, f>> \notin OpToRel(<, Nat)
      BY <1>3, <2>1, <2>2, WFMin
    <2>4. \A g \in DOMAIN lists : f <= g
      <3>1. \A g \in DOMAIN lists : ~(g < f)
        BY <2>2, <2>3 DEF OpToRel
      <3> QED BY <2>2, <3>1
    <2>5. LeastFreq(lists) \in DOMAIN lists /\ \A g \in DOMAIN lists : LeastFreq(lists) <= g
      BY <1>3, <2>4 DEF LeastFreq
    <2> QED BY <1>1, <2>5
  <1> QED BY <1>2, <1>3

-----------------------------------------------------------------------------
\* What is left after evictions is consistent.
LEMMA EvictionFacts ==
  ASSUME IInv, NEW n \in 0..Available
  PROVE  /\ Sound(ListsWithoutVictims(n))
         /\ DOMAIN ListsWithoutVictims(n) \subseteq DOMAIN freqToList
         /\ EntriesOK(EntriesWithoutVictims(n))
         /\ DOMAIN EntriesWithoutVictims(n) = DOMAIN keyToEntry \ Victims(n)
         /\ Match(ListsWithoutVictims(n), EntriesWithoutVictims(n))
         /\ Victims(n) \subseteq DOMAIN keyToEntry
         /\ n = 1 => \E k : Victims(n) = {k}
  <1> DEFINE lists == ListsWithoutVictims(n)
             map == EntriesWithoutVictims(n)
             gone == Victims(n)
  <1>1. /\ Sound(lists) /\ DOMAIN lists \subseteq DOMAIN freqToList
        /\ gone \subseteq HeldAt(freqToList, minFreq)
        /\ HeldAt(lists, minFreq) = HeldAt(freqToList, minFreq) \ gone
        /\ \A g : g # minFreq => HeldAt(lists, g) = HeldAt(freqToList, g)
        /\ n = 1 => \E k : gone = {k}
    BY VictimsFacts DEF IInv
  <1>2. DOMAIN map = DOMAIN keyToEntry \ gone /\ \A k \in DOMAIN map : map[k] = keyToEntry[k]
    BY DEF EntriesWithoutVictims
  <1> HIDE DEF lists, map, gone
  <1>3. EntriesOK(map)
    BY <1>2 DEF IInv, EntriesOK
  <1>4. \A k \in gone : k \in DOMAIN keyToEntry /\ keyToEntry[k].freq = minFreq
    <2>1. gone # {} => minFreq \in Freqs
      BY <1>1 DEF HeldAt, IInv, Sound
    <2> QED BY <1>1, <2>1 DEF IInv, Match
  <1>5. ASSUME NEW f \in Freqs PROVE HeldAt(lists, f) = {k \in DOMAIN map : map[k].freq = f}
    <2>1. HeldAt(freqToList, f) = {k \in DOMAIN keyToEntry : keyToEntry[k].freq = f}
      BY DEF IInv, Match
    <2>2. CASE f = minFreq
      BY <1>1, <1>2, <2>1, <2>2
    <2>3. CASE f # minFreq
      BY <1>1, <1>2, <1>4, <2>1, <2>3
    <2> QED BY <2>2, <2>3
  <1> QED BY <1>1, <1>2, <1>3, <1>4, <1>5 DEF Match, lists, map, gone

\* An entry that was used once more.
LEMMA BumpFacts ==
  ASSUME IInv, NEW k \in DOMAIN keyToEntry, NEW v \in Values, Bump(k, v)
  PROVE  IInv'
  <1> DEFINE f == keyToEntry[k].freq
             rest == ListWithout(freqToList, f, k)
             new == Pushed(rest, f + 1, k)
  <1>1. k \in Keys /\ f \in Freqs /\ MaxFreq \in Nat /\ f \in 1..MaxFreq /\ f < MaxFreq
        /\ DOMAIN keyToEntry \subseteq Keys
        /\ \A x \in DOMAIN keyToEntry : keyToEntry[x] \in LFUEntry
    BY FreqAssumption DEF IInv, EntriesOK, LFUEntry, Freqs, Bump
  <1>2. /\ freqToList' = new
        /\ keyToEntry' = [keyToEntry EXCEPT ![k] = [value |-> v, freq |-> f + 1]]
        /\ minFreq' = IF f \notin DOMAIN rest /\ minFreq = f THEN minFreq + 1 ELSE minFreq
    BY DEF Bump
  <1> HIDE DEF f
  <1>3. \A g \in Freqs : HeldAt(freqToList, g) = {x \in DOMAIN keyToEntry : keyToEntry[x].freq = g}
    BY DEF IInv, Match
  <1>4. f \in DOMAIN freqToList /\ k \in ToSet(freqToList[f])
    <2>1. k \in HeldAt(freqToList, f)
      BY <1>1, <1>3 DEF f
    <2> QED BY <2>1 DEF HeldAt
  <1>5. /\ Sound(rest) /\ DOMAIN rest \subseteq DOMAIN freqToList
        /\ HeldAt(rest, f) = HeldAt(freqToList, f) \ {k}
        /\ \A g : g # f => HeldAt(rest, g) = HeldAt(freqToList, g)
    BY <1>4, ListWithoutFacts DEF IInv
  <1> HIDE DEF rest
  <1>6. f + 1 \in Freqs /\ f + 1 # f /\ f \in Nat
    BY <1>1 DEF Freqs
  <1>7. k \notin HeldAt(rest, f + 1)
    BY <1>3, <1>5, <1>6 DEF f
  <1>8. /\ Sound(new) /\ DOMAIN new = DOMAIN rest \union {f + 1}
        /\ HeldAt(new, f + 1) = HeldAt(rest, f + 1) \union {k}
        /\ \A g : g # f + 1 => HeldAt(new, g) = HeldAt(rest, g)
    <2> DEFINE up == f + 1
    <2>1. Sound(rest) /\ up \in Freqs /\ k \in Keys /\ k \notin HeldAt(rest, up)
      BY <1>1, <1>5, <1>6, <1>7
    <2> HIDE DEF up
    <2>2. Sound(Pushed(rest, up, k)) /\ DOMAIN Pushed(rest, up, k) = DOMAIN rest \union {up}
      BY <2>1, PushedFacts
    <2>3. /\ HeldAt(Pushed(rest, up, k), up) = HeldAt(rest, up) \union {k}
          /\ \A g : g # up => HeldAt(Pushed(rest, up, k), g) = HeldAt(rest, g)
      BY <2>1, PushedHolds
    <2> QED BY <2>2, <2>3 DEF up
  <1> HIDE DEF new
  <1>9. /\ DOMAIN keyToEntry' = DOMAIN keyToEntry
        /\ keyToEntry'[k] = [value |-> v, freq |-> f + 1]
        /\ \A x \in DOMAIN keyToEntry : x # k => keyToEntry'[x] = keyToEntry[x]
    BY <1>2
  <1>10. EntriesOK(keyToEntry')
    BY <1>1, <1>6, <1>9 DEF EntriesOK, LFUEntry
  <1>11. ASSUME NEW g \in Freqs
         PROVE  HeldAt(new, g) = {x \in DOMAIN keyToEntry' : keyToEntry'[x].freq = g}
    <2>1. keyToEntry'[k].freq = f + 1 /\ keyToEntry[k].freq = f
      BY <1>9 DEF f
    <2>2. CASE g = f + 1
      BY <1>3, <1>5, <1>6, <1>8, <1>9, <2>1, <2>2
    <2>3. CASE g = f
      BY <1>3, <1>5, <1>6, <1>8, <1>9, <2>1, <2>3
    <2>4. CASE g # f /\ g # f + 1
      BY <1>3, <1>5, <1>8, <1>9, <2>1, <2>4
    <2> QED BY <2>2, <2>3, <2>4
  <1>12. /\ minFreq \in 0..MaxFreq /\ \A g \in DOMAIN freqToList : minFreq <= g /\ g \in Nat
    BY FreqAssumption DEF IInv, Least, Sound, Freqs
  <1>13. minFreq' \in 0..MaxFreq
    BY <1>1, <1>2, <1>6, <1>12
  <1>14. ASSUME NEW g \in DOMAIN rest \union {f + 1} PROVE minFreq' <= g
    <2>1. minFreq <= f
      BY <1>4, <1>12
    <2>2. CASE g = f + 1
      BY <1>2, <1>6, <1>12, <2>1, <2>2
    <2>3. CASE g \in DOMAIN rest
      <3>1. minFreq <= g /\ g \in Nat
        BY <1>5, <1>12, <2>3
      <3> QED BY <1>2, <1>6, <1>12, <2>3, <3>1
    <2> QED BY <2>2, <2>3
  <1> QED BY <1>2, <1>8, <1>10, <1>11, <1>13, <1>14 DEF IInv, Match, Least

\* The invariant holds at first, and every step preserves it.
LEMMA InitIInv == Init => IInv
  <1> SUFFICES ASSUME Init PROVE IInv
    OBVIOUS
  <1>1. DOMAIN keyToEntry = {} /\ DOMAIN freqToList = {} /\ minFreq = 1
    BY DEF Init
  <1>2. minFreq \in 0..MaxFreq
    BY <1>1, FreqAssumption
  <1>3. EntriesOK(keyToEntry) /\ Sound(freqToList) /\ Least
    BY <1>1 DEF EntriesOK, Sound, Least
  <1>4. Match(freqToList, keyToEntry)
    BY <1>1 DEF Match, HeldAt
  <1> QED BY <1>2, <1>3, <1>4 DEF IInv

\* A new entry, after the evictions that made room for it.
LEMMA InsertFacts ==
  ASSUME IInv, NEW k \in Keys, NEW v \in Values, Insert(k, v)
  PROVE  IInv'
  <1>1. PICK n \in 0..Available :
          /\ freqToList' = Pushed(ListsWithoutVictims(n), 1, k)
          /\ keyToEntry' = Put(EntriesWithoutVictims(n), k, [value |-> v, freq |-> 1])
    BY DEF Insert
  <1>2. k \notin DOMAIN keyToEntry /\ minFreq' = 1
    BY DEF Insert
  <1> DEFINE lists == ListsWithoutVictims(n)
             map == EntriesWithoutVictims(n)
  <1>3. /\ Sound(lists) /\ EntriesOK(map) /\ Match(lists, map)
        /\ DOMAIN map \subseteq DOMAIN keyToEntry
    BY EvictionFacts
  <1> HIDE DEF lists, map
  <1>4. 1 \in Freqs /\ MaxFreq \in Nat /\ MaxFreq >= 1
    BY FreqAssumption DEF Freqs
  <1>5. \A g \in Freqs : HeldAt(lists, g) = {x \in DOMAIN map : map[x].freq = g}
    BY <1>3 DEF Match
  <1>6. k \notin HeldAt(lists, 1)
    BY <1>2, <1>3, <1>4, <1>5
  <1>7. /\ Sound(freqToList')
        /\ HeldAt(freqToList', 1) = HeldAt(lists, 1) \union {k}
        /\ \A g : g # 1 => HeldAt(freqToList', g) = HeldAt(lists, g)
    <2> DEFINE once == 1
    <2>1. Sound(lists) /\ once \in Freqs /\ k \notin HeldAt(lists, once)
      BY <1>3, <1>4, <1>6
    <2>2. freqToList' = Pushed(lists, once, k)
      BY <1>1 DEF lists
    <2> HIDE DEF once
    <2>3. Sound(Pushed(lists, once, k))
      BY <2>1, PushedFacts
    <2>4. /\ HeldAt(Pushed(lists, once, k), once) = HeldAt(lists, once) \union {k}
          /\ \A g : g # once => HeldAt(Pushed(lists, once, k), g) = HeldAt(lists, g)
      BY <2>1, PushedHolds
    <2> QED BY <2>2, <2>3, <2>4 DEF once
  <1>8. /\ DOMAIN keyToEntry' = DOMAIN map \union {k}
        /\ keyToEntry'[k] = [value |-> v, freq |-> 1]
        /\ \A x \in DOMAIN map : keyToEntry'[x] = map[x]
    BY <1>1, <1>2, <1>3 DEF Put, map
  <1>9. EntriesOK(keyToEntry')
    BY <1>3, <1>4, <1>8 DEF EntriesOK, LFUEntry
  <1>10. ASSUME NEW g \in Freqs
         PROVE  HeldAt(freqToList', g) = {x \in DOMAIN keyToEntry' : keyToEntry'[x].freq = g}
    <2>1. k \notin DOMAIN map /\ keyToEntry'[k].freq = 1
      BY <1>2, <1>3, <1>8
    <2>2. CASE g = 1
      BY <1>5, <1>7, <1>8, <2>1, <2>2
    <2>3. CASE g # 1
      BY <1>5, <1>7, <1>8, <2>1, <2>3
    <2> QED BY <2>2, <2>3
  <1>11. Least'
    BY <1>2, <1>7, FreqAssumption DEF Least, Sound, Freqs
  <1>12. minFreq' \in 0..MaxFreq
    BY <1>2, <1>4
  <1> QED BY <1>7, <1>9, <1>10, <1>11, <1>12 DEF IInv, Match

\* An entry taken out of its list and the map.
LEMMA DelFacts ==
  ASSUME IInv, NEW k \in DOMAIN keyToEntry, Del(k)
  PROVE  IInv'
  <1> DEFINE f == keyToEntry[k].freq
             rest == ListWithout(freqToList, f, k)
  <1>1. /\ freqToList' = rest
        /\ keyToEntry' = Drop(keyToEntry, k)
        /\ minFreq' = IF f \notin DOMAIN rest /\ minFreq = f THEN LeastFreq(rest) ELSE minFreq
    BY DEF Del
  <1>2. f \in Freqs
    BY DEF IInv, EntriesOK, LFUEntry
  <1> HIDE DEF f
  <1>3. \A g \in Freqs : HeldAt(freqToList, g) = {x \in DOMAIN keyToEntry : keyToEntry[x].freq = g}
    BY DEF IInv, Match
  <1>4. f \in DOMAIN freqToList /\ k \in ToSet(freqToList[f])
    <2>1. k \in HeldAt(freqToList, f)
      BY <1>2, <1>3 DEF f
    <2> QED BY <2>1 DEF HeldAt
  <1>5. /\ Sound(rest) /\ DOMAIN rest \subseteq DOMAIN freqToList
        /\ HeldAt(rest, f) = HeldAt(freqToList, f) \ {k}
        /\ \A g : g # f => HeldAt(rest, g) = HeldAt(freqToList, g)
    BY <1>4, ListWithoutFacts DEF IInv
  <1> HIDE DEF rest
  <1>6. /\ DOMAIN keyToEntry' = DOMAIN keyToEntry \ {k}
        /\ \A x \in DOMAIN keyToEntry' : keyToEntry'[x] = keyToEntry[x]
    BY <1>1 DEF Drop
  <1>7. EntriesOK(keyToEntry')
    BY <1>6 DEF IInv, EntriesOK
  <1>8. ASSUME NEW g \in Freqs
        PROVE  HeldAt(rest, g) = {x \in DOMAIN keyToEntry' : keyToEntry'[x].freq = g}
    <2>1. CASE g = f
      BY <1>3, <1>5, <1>6, <2>1
    <2>2. CASE g # f
      BY <1>3, <1>5, <1>6, <2>2 DEF f
    <2> QED BY <2>1, <2>2
  <1>9. /\ LeastFreq(rest) \in 0..MaxFreq
        /\ \A g \in DOMAIN rest : LeastFreq(rest) <= g
    BY <1>5, LeastFacts DEF Sound
  <1>10. minFreq' \in 0..MaxFreq /\ \A g \in DOMAIN rest : minFreq' <= g
    BY <1>1, <1>5, <1>9 DEF IInv, Least
  <1> QED BY <1>1, <1>5, <1>7, <1>8, <1>10 DEF IInv, Match, Least

\* Every call preserves the invariant, also one that panics half-way.
LEMMA NextIInv == IInv /\ [Next]_vars => IInv'
  <1> SUFFICES ASSUME IInv, [Next]_vars PROVE IInv'
    OBVIOUS
  <1>1. ASSUME UNCHANGED <<minFreq, keyToEntry, freqToList>> PROVE IInv'
    BY <1>1 DEF IInv, Match, Least
  <1>2. ASSUME NEW n \in 0..Available, UNCHANGED minFreq,
               freqToList' = ListsWithoutVictims(n), keyToEntry' = EntriesWithoutVictims(n)
        PROVE  IInv'
    <2>1. /\ Sound(freqToList') /\ EntriesOK(keyToEntry') /\ Match(freqToList', keyToEntry')
          /\ DOMAIN freqToList' \subseteq DOMAIN freqToList
      BY <1>2, EvictionFacts
    <2> QED BY <1>2, <2>1 DEF IInv, Match, Least
  <1>3. Available \in Nat
    <2>1. minFreq \in DOMAIN freqToList => freqToList[minFreq] \in Seq(Keys)
      BY DEF IInv, Sound
    <2> QED BY <2>1 DEF Available
  <1>4. ASSUME NEW k \in Keys, Get(k) PROVE IInv'
    <2>1. CASE Hit(k)
      <3>1. keyToEntry[k].value \in Values
        BY <2>1 DEF Hit, IInv, EntriesOK, LFUEntry
      <3> QED BY <2>1, <3>1, BumpFacts DEF Hit
    <2>2. CASE NotFound(k)
      BY <1>1, <2>2 DEF NotFound
    <2> QED BY <1>4, <2>1, <2>2 DEF Get
  <1>5. ASSUME NEW k \in Keys, Del(k) PROVE IInv'
    <2>1. CASE k \in DOMAIN keyToEntry
      BY <1>5, <2>1, DelFacts
    <2>2. CASE k \notin DOMAIN keyToEntry
      BY <1>1, <1>5, <2>2 DEF Del
    <2> QED BY <2>1, <2>2
  <1>6. ASSUME NEW k \in Keys, NEW v \in Values, Set(k, v) PROVE IInv'
    <2>1. CASE Update(k, v)
      BY <2>1, BumpFacts DEF Update
    <2>2. CASE Insert(k, v)
      BY <2>2, InsertFacts
    <2>3. CASE InsertPanics(k, v)
      <3>1. Available \in 0..Available
        BY <1>3
      <3> QED BY <1>2, <2>3, <3>1 DEF InsertPanics
    <2> QED BY <1>6, <2>1, <2>2, <2>3 DEF Set
  <1>7. ASSUME RemoveOldest PROVE IInv'
    <2>1. CASE Available > 0
      <3>1. 1 \in 0..Available
        BY <1>3, <2>1
      <3> QED BY <1>2, <1>7, <2>1, <3>1 DEF RemoveOldest
    <2>2. CASE ~(Available > 0)
      BY <1>1, <1>7, <2>2 DEF RemoveOldest
    <2> QED BY <2>1, <2>2
  <1>8. CASE UNCHANGED vars
    BY <1>1, <1>8 DEF vars
  <1> QED BY <1>4, <1>5, <1>6, <1>7, <1>8 DEF Next

\* Every reachable state satisfies the invariant.
THEOREM InvariantHolds == Spec => []IInv
  BY InitIInv, NextIInv, PTL DEF Spec

\* Each entry is once in the list of its own use count and in no other, also
\* after a call that panicked (LFU.go: GetEntry, Del, RemoveOldest).
THEOREM ListsAndMapAgree == Spec => []ListsMatchMap
  <1>1. IInv => ListsMatchMap
    <2> SUFFICES ASSUME IInv PROVE ListsMatchMap
      OBVIOUS
    <2>1. \A f \in Freqs : HeldAt(freqToList, f) = {k \in DOMAIN keyToEntry : keyToEntry[k].freq = f}
      BY DEF IInv, Match
    <2>2. DOMAIN freqToList \subseteq Freqs
          /\ \A f \in DOMAIN freqToList : HeldAt(freqToList, f) = ToSet(freqToList[f])
      BY DEF IInv, Sound, HeldAt
    <2>3. \A k \in DOMAIN keyToEntry : keyToEntry[k].freq \in Freqs
      BY DEF IInv, EntriesOK, LFUEntry
    <2>4. \A k \in DOMAIN keyToEntry : keyToEntry[k].freq \in DOMAIN freqToList
      <3> SUFFICES ASSUME NEW k \in DOMAIN keyToEntry
                   PROVE  keyToEntry[k].freq \in DOMAIN freqToList
        OBVIOUS
      <3>1. k \in HeldAt(freqToList, keyToEntry[k].freq)
        BY <2>1, <2>3
      <3> QED BY <3>1 DEF HeldAt
    <2>5. \A k \in DOMAIN keyToEntry : \A f \in DOMAIN freqToList :
            k \in ToSet(freqToList[f]) <=> f = keyToEntry[k].freq
      BY <2>1, <2>2
    <2>6. \A f \in DOMAIN freqToList : ToSet(freqToList[f]) \subseteq DOMAIN keyToEntry
      BY <2>1, <2>2
    <2>7. \A f \in DOMAIN freqToList : \A i, j \in DOMAIN freqToList[f] :
            freqToList[f][i] = freqToList[f][j] => i = j
      BY DEF IInv, Sound, Distinct
    <2> QED BY <2>4, <2>5, <2>6, <2>7 DEF ListsMatchMap
  <1> QED BY <1>1, InvariantHolds, PTL

\* minFreq never passes the least count in use, and is it whenever the list it
\* names is there: RemoveOldest evicts no entry used more often than another.
THEOREM MinFreqNeverPasses == Spec => []MinFreqIsLeast
  <1>1. IInv => MinFreqIsLeast
    <2> SUFFICES ASSUME IInv, keyToEntry # <<>>
                 PROVE  /\ minFreq <= LeastFreq(freqToList)
                        /\ minFreq \in DOMAIN freqToList => minFreq = LeastFreq(freqToList)
      BY DEF MinFreqIsLeast
    <2>1. DOMAIN freqToList \subseteq Freqs /\ \A f \in DOMAIN freqToList : minFreq <= f
      BY DEF IInv, Sound, Least
    <2>2. /\ \A f \in DOMAIN freqToList : LeastFreq(freqToList) <= f
          /\ DOMAIN freqToList # {} => LeastFreq(freqToList) \in DOMAIN freqToList
          /\ LeastFreq(freqToList) \in 0..MaxFreq
      BY <2>1, LeastFacts
    <2>3. minFreq \in 0..MaxFreq /\ MaxFreq \in Nat
      BY FreqAssumption DEF IInv
    <2>4. DOMAIN keyToEntry # {}
      OBVIOUS
    <2>5. DOMAIN freqToList # {}
      <3>1. PICK k \in DOMAIN keyToEntry : TRUE
        BY <2>4
      <3>2. keyToEntry[k].freq \in Freqs
        BY DEF IInv, EntriesOK, LFUEntry
      <3>3. k \in HeldAt(freqToList, keyToEntry[k].freq)
        BY <3>2 DEF IInv, Match
      <3> QED BY <3>3 DEF HeldAt
    <2>6. minFreq <= LeastFreq(freqToList)
      BY <2>1, <2>2, <2>5
    <2>7. minFreq \in DOMAIN freqToList => minFreq = LeastFreq(freqToList)
      BY <2>2, <2>3, <2>6
    <2> QED BY <2>6, <2>7
  <1> QED BY <1>1, InvariantHolds, PTL

-----------------------------------------------------------------------------
\* What stands before what in a list does so in s.
Ordered(list, s) == \A x, y : Before(list, x, y) => Before(s, x, y)

\* Each list is ordered by last use: all its keys are in the history, in its order.
AgedLists(lists, s) == \A f \in DOMAIN lists : Ordered(lists[f], s)
Aged ==
    /\ recent \in Seq(Keys) /\ Distinct(recent)
    /\ DOMAIN keyToEntry \subseteq ToSet(recent)
    /\ AgedLists(freqToList, recent)

\* A key pushed to the front of a list is before all that was there.
LEMMA PushOrder ==
  ASSUME NEW list \in Seq(Keys), NEW k \in Keys
  PROVE  \A x, y : Before(<<k>> \o list, x, y)
                     <=> (x = k /\ y \in ToSet(list)) \/ Before(list, x, y)
  <1> DEFINE new == <<k>> \o list
  <1>1. DOMAIN list = 1..Len(list) /\ Len(list) \in Nat
    OBVIOUS
  <1>2. /\ DOMAIN new = 1..(Len(list) + 1) /\ new[1] = k
        /\ \A j \in 1..(Len(list) + 1) : j # 1 => new[j] = list[j - 1]
    OBVIOUS
  <1> HIDE DEF new
  <1>3. \A j \in DOMAIN list : j + 1 \in DOMAIN new /\ new[j + 1] = list[j] /\ 1 < j + 1
    BY <1>1, <1>2
  <1>4. \A j \in DOMAIN new : j # 1 => j - 1 \in DOMAIN list /\ new[j] = list[j - 1]
    BY <1>1, <1>2
  <1>5. 1 \in DOMAIN new
    BY <1>1, <1>2
  <1>6. ASSUME NEW x, NEW y, Before(new, x, y)
        PROVE  (x = k /\ y \in ToSet(list)) \/ Before(list, x, y)
    <2>1. PICK i, j \in DOMAIN new : i < j /\ new[i] = x /\ new[j] = y
      BY <1>6 DEF Before
    <2>2. j - 1 \in DOMAIN list /\ y = list[j - 1]
      BY <1>1, <1>2, <1>4, <2>1
    <2>3. CASE i = 1
      BY <1>2, <2>1, <2>2, <2>3 DEF ToSet
    <2>4. CASE i # 1
      <3>1. i - 1 \in DOMAIN list /\ x = list[i - 1] /\ i - 1 < j - 1
        BY <1>1, <1>2, <1>4, <2>1, <2>4
      <3> QED BY <2>2, <3>1 DEF Before
    <2> QED BY <2>3, <2>4
  <1>7. ASSUME NEW y \in ToSet(list) PROVE Before(new, k, y)
    <2>1. PICK j \in DOMAIN list : list[j] = y
      BY DEF ToSet
    <2> QED BY <1>2, <1>3, <1>5, <2>1 DEF Before
  <1>8. ASSUME NEW x, NEW y, Before(list, x, y) PROVE Before(new, x, y)
    <2>1. PICK i, j \in DOMAIN list : i < j /\ list[i] = x /\ list[j] = y
      BY <1>8 DEF Before
    <2>2. i + 1 < j + 1
      BY <1>1, <2>1
    <2> QED BY <1>3, <2>1, <2>2 DEF Before
  <1> QED BY <1>6, <1>7, <1>8 DEF new

\* Cutting a list off at the end: the order stays, and what is kept was before what
\* is cut off.
LEMMA PrefixOrder ==
  ASSUME NEW list \in Seq(Keys), NEW n \in 0..Len(list)
  PROVE  LET kept == SubSeq(list, 1, Len(list) - n)
             gone == SubSeq(list, Len(list) - n + 1, Len(list))
         IN  /\ \A x, y : Before(kept, x, y) => Before(list, x, y)
             /\ \A x \in ToSet(kept), y \in ToSet(gone) : Before(list, x, y)
  <1> DEFINE m == Len(list) - n
             kept == SubSeq(list, 1, m)
             gone == SubSeq(list, m + 1, Len(list))
  <1>1. DOMAIN list = 1..Len(list) /\ Len(list) \in Nat /\ m \in 0..Len(list)
    OBVIOUS
  <1> HIDE DEF m
  <1>2. DOMAIN kept = 1..m /\ \A j \in 1..m : kept[j] = list[j]
    BY <1>1
  <1>3. DOMAIN gone = 1..(Len(list) - m) /\ \A j \in 1..(Len(list) - m) : gone[j] = list[m + j]
    BY <1>1
  <1> HIDE DEF kept, gone
  <1>4. \A j \in DOMAIN kept : j \in DOMAIN list /\ j <= m /\ kept[j] = list[j]
    BY <1>1, <1>2
  <1>5. \A j \in DOMAIN gone : m + j \in DOMAIN list /\ m < m + j /\ gone[j] = list[m + j]
    BY <1>1, <1>3
  <1>6. \A x, y : Before(kept, x, y) => Before(list, x, y)
    BY <1>4 DEF Before
  <1>7. ASSUME NEW x \in ToSet(kept), NEW y \in ToSet(gone) PROVE Before(list, x, y)
    <2>1. PICK i \in DOMAIN kept : kept[i] = x
      BY DEF ToSet
    <2>2. PICK j \in DOMAIN gone : gone[j] = y
      BY DEF ToSet
    <2>3. i \in DOMAIN list /\ m + j \in DOMAIN list /\ i < m + j
      BY <1>1, <1>4, <1>5, <2>1, <2>2
    <2> QED BY <1>4, <1>5, <2>1, <2>2, <2>3 DEF Before
  <1> QED BY <1>6, <1>7 DEF kept, gone, m

\* Using a key puts it in front of the others, which stay in order.
LEMMA UsedFacts ==
  ASSUME recent \in Seq(Keys), Distinct(recent), NEW k \in Keys
  PROVE  /\ Used(k) \in Seq(Keys)
         /\ Distinct(Used(k))
         /\ ToSet(Used(k)) = ToSet(recent) \union {k}
         /\ \A y \in ToSet(recent) : y # k => Before(Used(k), k, y)
         /\ \A x, y : (x # k /\ y # k /\ Before(recent, x, y)) => Before(Used(k), x, y)
  <1> DEFINE rest == RemoveFirst(recent, k)
  <1>1. /\ rest \in Seq(Keys) /\ Distinct(rest) /\ ToSet(rest) = ToSet(recent) \ {k}
        /\ \A x, y : (x # k /\ y # k /\ Before(recent, x, y)) => Before(rest, x, y)
    <2>1. CASE k \notin ToSet(recent)
      <3>1. rest = recent
        BY <2>1 DEF RemoveFirst, ToSet
      <3> QED BY <2>1, <3>1
    <2>2. CASE k \in ToSet(recent)
      <3>1. PICK i \in 1..Len(recent) : recent[i] = k
        BY <2>2 DEF ToSet
      <3>2. {j \in 1..Len(recent) : recent[j] = k} = {i}
        BY <3>1 DEF Distinct
      <3>3. Min({i}) = i
        BY DEF Min
      <3>4. At(recent, k) = i
        BY <3>1 DEF At, Distinct
      <3>5. rest = RemoveAt(recent, At(recent, k))
        BY <3>1, <3>2, <3>3, <3>4 DEF RemoveFirst, SelectInSeq
      <3> QED BY <2>2, <3>5, RemoveFacts
    <2> QED BY <2>1, <2>2
  <1>2. Used(k) = <<k>> \o rest /\ k \notin ToSet(rest)
    BY <1>1 DEF Used
  <1> HIDE DEF rest
  <1>3. Used(k) \in Seq(Keys) /\ Distinct(Used(k)) /\ ToSet(Used(k)) = ToSet(rest) \union {k}
    BY <1>1, <1>2, PushFacts
  <1>4. \A x, y : Before(Used(k), x, y)
                    <=> (x = k /\ y \in ToSet(rest)) \/ Before(rest, x, y)
    BY <1>1, <1>2, PushOrder
  <1> QED BY <1>1, <1>3, <1>4

\* A key that is used and pushed to a list none of whose keys it is.
LEMMA PushedOrder ==
  ASSUME NEW lists, Sound(lists), AgedLists(lists, recent),
         recent \in Seq(Keys), Distinct(recent), NEW f \in Freqs, NEW k \in Keys,
         \A g \in DOMAIN lists : ToSet(lists[g]) \subseteq ToSet(recent) \ {k}
  PROVE  AgedLists(Pushed(lists, f, k), Used(k))
  <1> DEFINE old == IF f \in DOMAIN lists THEN lists[f] ELSE <<>>
             new == Pushed(lists, f, k)
  <1>1. old \in Seq(Keys) /\ ToSet(old) \subseteq ToSet(recent) \ {k} /\ Ordered(old, recent)
    <2>1. CASE f \in DOMAIN lists
      BY <2>1 DEF Sound, AgedLists
    <2>2. CASE f \notin DOMAIN lists
      <3>1. old = <<>> /\ DOMAIN old = {}
        BY <2>2
      <3> HIDE DEF old
      <3> QED BY <3>1, EmptyFacts DEF Ordered, Before
    <2> QED BY <2>1, <2>2
  <1>2. DOMAIN new = DOMAIN lists \union {f} /\ new[f] = <<k>> \o old
        /\ \A g \in DOMAIN lists : g # f => new[g] = lists[g]
    BY DEF Pushed, Put
  <1> HIDE DEF old, new
  <1>3. ASSUME NEW list \in Seq(Keys), ToSet(list) \subseteq ToSet(recent) \ {k},
               Ordered(list, recent)
        PROVE  Ordered(list, Used(k))
    <2> SUFFICES ASSUME NEW x, NEW y, Before(list, x, y) PROVE Before(Used(k), x, y)
      BY DEF Ordered
    <2>1. x \in ToSet(list) /\ y \in ToSet(list)
      BY DEF Before, ToSet
    <2>2. x # k /\ y # k /\ Before(recent, x, y)
      BY <1>3, <2>1 DEF Ordered
    <2> QED BY <2>2, UsedFacts
  <1>4. Ordered(<<k>> \o old, Used(k))
    <2> SUFFICES ASSUME NEW x, NEW y, Before(<<k>> \o old, x, y) PROVE Before(Used(k), x, y)
      BY DEF Ordered
    <2>1. CASE x = k /\ y \in ToSet(old)
      BY <1>1, <2>1, UsedFacts
    <2>2. CASE Before(old, x, y)
      BY <1>1, <1>3, <2>2 DEF Ordered
    <2> QED BY <1>1, <2>1, <2>2, PushOrder
  <1>5. ASSUME NEW g \in DOMAIN new PROVE Ordered(new[g], Used(k))
    <2>1. CASE g = f
      BY <1>2, <1>4, <2>1
    <2>2. CASE g # f
      <3>1. g \in DOMAIN lists /\ new[g] = lists[g] /\ lists[g] \in Seq(Keys)
        BY <1>2, <2>2 DEF Sound
      <3> QED BY <1>3, <3>1 DEF AgedLists
    <2> QED BY <2>1, <2>2
  <1> QED BY <1>5 DEF AgedLists, new

\* A key taken out of a list.
LEMMA WithoutOrder ==
  ASSUME NEW lists, Sound(lists), NEW s, AgedLists(lists, s),
         NEW f \in DOMAIN lists, NEW k \in ToSet(lists[f])
  PROVE  AgedLists(ListWithout(lists, f, k), s)
  <1> DEFINE rest == RemoveAt(lists[f], At(lists[f], k))
             new == ListWithout(lists, f, k)
  <1>1. lists[f] \in Seq(Keys) /\ Distinct(lists[f]) /\ Ordered(lists[f], s)
    BY DEF Sound, AgedLists
  <1>2. Ordered(rest, s)
    BY <1>1, RemoveFacts DEF Ordered
  <1>3. new = IF rest = <<>> THEN Drop(lists, f) ELSE [lists EXCEPT ![f] = rest]
    BY DEF ListWithout
  <1> HIDE DEF rest, new
  <1>4. \A g \in DOMAIN new : g \in DOMAIN lists /\ (new[g] = lists[g] \/ new[g] = rest)
    BY <1>3 DEF Drop
  <1> QED BY <1>2, <1>4 DEF AgedLists, new

\* Evictions take the keys of a list that were used longest ago.
LEMMA VictimsOrder ==
  ASSUME Sound(freqToList), AgedLists(freqToList, recent), NEW n \in 0..Available
  PROVE  /\ AgedLists(ListsWithoutVictims(n), recent)
         /\ \A x \in HeldAt(freqToList, minFreq) \ Victims(n) :
              \A y \in Victims(n) : Before(recent, x, y)
  <1> DEFINE new == ListsWithoutVictims(n)
             list == freqToList[minFreq]
  <1>1. CASE n = 0
    <2>1. new = freqToList /\ Victims(n) = {}
      BY <1>1 DEF ListsWithoutVictims, Victims
    <2> QED BY <1>1, <2>1
  <1>2. CASE n # 0
    <2>1. minFreq \in DOMAIN freqToList /\ Available = Len(list)
      <3>1. Available # 0
        BY <1>2
      <3> QED BY <3>1 DEF Available
    <2>2. list \in Seq(Keys) /\ Distinct(list) /\ HeldAt(freqToList, minFreq) = ToSet(list)
          /\ Ordered(list, recent)
      BY <2>1 DEF Sound, HeldAt, AgedLists
    <2> DEFINE kept == SubSeq(list, 1, Len(list) - n)
               gone == SubSeq(list, Len(list) - n + 1, Len(list))
    <2>3. Victims(n) = ToSet(gone)
      BY <1>2 DEF Victims
    <2>4. new = IF n = Len(list) THEN Drop(freqToList, minFreq)
                ELSE [freqToList EXCEPT ![minFreq] = kept]
      BY <1>2, <2>1 DEF ListsWithoutVictims
    <2> HIDE DEF list, new
    <2>5. n \in 0..Len(list)
      BY <2>1, <2>2
    <2>6. ToSet(kept) = ToSet(list) \ ToSet(gone)
      BY <2>2, <2>5, PrefixFacts
    <2>7. /\ \A x, y : Before(kept, x, y) => Before(list, x, y)
          /\ \A x \in ToSet(kept), y \in ToSet(gone) : Before(list, x, y)
      BY <2>2, <2>5, PrefixOrder
    <2> HIDE DEF kept, gone
    <2>8. \A g \in DOMAIN new : g \in DOMAIN freqToList /\ (new[g] = freqToList[g] \/ new[g] = kept)
      BY <2>4 DEF Drop
    <2>9. Ordered(kept, recent)
      BY <2>2, <2>7 DEF Ordered
    <2>10. AgedLists(new, recent)
      BY <2>8, <2>9 DEF AgedLists
    <2>11. \A x \in ToSet(kept), y \in ToSet(gone) : Before(recent, x, y)
      BY <2>2, <2>7 DEF Ordered
    <2> QED BY <2>2, <2>3, <2>6, <2>10, <2>11 DEF new
  <1> QED BY <1>1, <1>2

\* The keys of the lists are those of the map.
LEMMA HeldKeys ==
  ASSUME NEW lists, NEW map, Sound(lists), Match(lists, map), NEW f \in DOMAIN lists
  PROVE  ToSet(lists[f]) = {k \in DOMAIN map : map[k].freq = f}
  <1>1. f \in Freqs /\ HeldAt(lists, f) = ToSet(lists[f])
    BY DEF Sound, HeldAt
  <1> QED BY <1>1 DEF Match

\* An entry that is used moves to the front of the next list.
LEMMA BumpOrder ==
  ASSUME IInv, Aged, NEW k \in DOMAIN keyToEntry, NEW v \in Values, Bump(k, v)
  PROVE  Aged'
  <1> DEFINE f == keyToEntry[k].freq
             rest == ListWithout(freqToList, f, k)
  <1>1. /\ k \in Keys /\ f \in Freqs /\ f \in 1..MaxFreq /\ f < MaxFreq /\ MaxFreq \in Nat
        /\ recent \in Seq(Keys) /\ Distinct(recent)
    BY FreqAssumption DEF IInv, EntriesOK, LFUEntry, Freqs, Bump, Aged
  <1>2. /\ freqToList' = Pushed(rest, f + 1, k) /\ recent' = Used(k)
        /\ DOMAIN keyToEntry' = DOMAIN keyToEntry
    BY DEF Bump
  <1> HIDE DEF f
  <1>3. f \in DOMAIN freqToList /\ k \in ToSet(freqToList[f])
    <2>1. k \in HeldAt(freqToList, f)
      BY <1>1 DEF f, IInv, Match
    <2> QED BY <2>1 DEF HeldAt
  <1>4. /\ Sound(rest) /\ DOMAIN rest \subseteq DOMAIN freqToList
        /\ HeldAt(rest, f) = HeldAt(freqToList, f) \ {k}
        /\ \A g : g # f => HeldAt(rest, g) = HeldAt(freqToList, g)
    BY <1>3, ListWithoutFacts DEF IInv
  <1>5. AgedLists(rest, recent)
    BY <1>3, WithoutOrder DEF IInv, Aged
  <1> HIDE DEF rest
  <1>6. ASSUME NEW g \in DOMAIN rest PROVE ToSet(rest[g]) \subseteq ToSet(recent) \ {k}
    <2>1. ToSet(rest[g]) = HeldAt(rest, g) /\ g \in DOMAIN freqToList
          /\ HeldAt(freqToList, g) = ToSet(freqToList[g])
      BY <1>4 DEF HeldAt
    <2>2. ToSet(freqToList[g]) = {x \in DOMAIN keyToEntry : keyToEntry[x].freq = g}
      BY <2>1, HeldKeys DEF IInv
    <2>3. ToSet(rest[g]) \subseteq ToSet(recent)
      BY <1>4, <2>1, <2>2 DEF Aged
    <2>4. k \notin ToSet(rest[g])
      BY <1>4, <2>1, <2>2 DEF f
    <2> QED BY <2>3, <2>4
  <1>7. f + 1 \in Freqs
    BY <1>1 DEF Freqs
  <1>8. AgedLists(freqToList', Used(k))
    BY <1>1, <1>2, <1>4, <1>5, <1>6, <1>7, PushedOrder
  <1>9. Used(k) \in Seq(Keys) /\ Distinct(Used(k)) /\ ToSet(Used(k)) = ToSet(recent) \union {k}
    BY <1>1, UsedFacts
  <1>10. DOMAIN keyToEntry' \subseteq ToSet(Used(k))
    BY <1>2, <1>9 DEF Aged
  <1>11. Aged' <=> /\ recent' \in Seq(Keys) /\ Distinct(recent')
                   /\ DOMAIN keyToEntry' \subseteq ToSet(recent')
                   /\ AgedLists(freqToList', recent')
    BY DEF Aged, AgedLists, Ordered, Before, Distinct, ToSet
  <1> QED BY <1>2, <1>8, <1>9, <1>10, <1>11

\* A new entry, after the evictions that made room for it.
LEMMA InsertOrder ==
  ASSUME IInv, Aged, NEW k \in Keys, NEW v \in Values, Insert(k, v)
  PROVE  Aged'
  <1>1. PICK n \in 0..Available :
          /\ freqToList' = Pushed(ListsWithoutVictims(n), 1, k)
          /\ keyToEntry' = Put(EntriesWithoutVictims(n), k, [value |-> v, freq |-> 1])
    BY DEF Insert
  <1>2. k \notin DOMAIN keyToEntry /\ recent' = Used(k)
    BY DEF Insert
  <1> DEFINE lists == ListsWithoutVictims(n)
             map == EntriesWithoutVictims(n)
             once == 1
  <1>3. /\ Sound(lists) /\ Match(lists, map) /\ DOMAIN map \subseteq DOMAIN keyToEntry
    BY EvictionFacts
  <1>4. AgedLists(lists, recent) /\ recent \in Seq(Keys) /\ Distinct(recent)
    BY VictimsOrder DEF IInv, Aged
  <1>5. freqToList' = Pushed(lists, once, k) /\ once \in Freqs
    BY <1>1, FreqAssumption DEF Freqs
  <1>6. DOMAIN keyToEntry' = DOMAIN map \union {k}
    BY <1>1 DEF Put
  <1> HIDE DEF lists, map, once
  <1>7. ASSUME NEW g \in DOMAIN lists PROVE ToSet(lists[g]) \subseteq ToSet(recent) \ {k}
    <2>1. ToSet(lists[g]) \subseteq DOMAIN map
      BY <1>3, HeldKeys
    <2> QED BY <1>2, <1>3, <2>1 DEF Aged
  <1>8. AgedLists(freqToList', Used(k))
    BY <1>3, <1>4, <1>5, <1>7, PushedOrder
  <1>9. Used(k) \in Seq(Keys) /\ Distinct(Used(k)) /\ ToSet(Used(k)) = ToSet(recent) \union {k}
    BY <1>4, UsedFacts
  <1>10. DOMAIN keyToEntry' \subseteq ToSet(Used(k))
    BY <1>3, <1>6, <1>9 DEF Aged
  <1>11. Aged' <=> /\ recent' \in Seq(Keys) /\ Distinct(recent')
                   /\ DOMAIN keyToEntry' \subseteq ToSet(recent')
                   /\ AgedLists(freqToList', recent')
    BY DEF Aged, AgedLists, Ordered, Before, Distinct, ToSet
  <1> QED BY <1>2, <1>8, <1>9, <1>10, <1>11

\* Evictions come from the back of the list of least count: what is left of it was
\* used after them.
LEMMA VictimsAreOldest ==
  ASSUME IInv, Aged, NEW n \in 0..Available, NEW y \in Victims(n),
         NEW x \in DOMAIN keyToEntry \ Victims(n)
  PROVE  \/ keyToEntry[y].freq < keyToEntry[x].freq
         \/ keyToEntry[y].freq = keyToEntry[x].freq /\ Before(recent, x, y)
  <1>1. Victims(n) \subseteq HeldAt(freqToList, minFreq)
    BY VictimsFacts DEF IInv
  <1>2. minFreq \in DOMAIN freqToList /\ HeldAt(freqToList, minFreq) = ToSet(freqToList[minFreq])
    BY <1>1 DEF HeldAt
  <1>3. y \in DOMAIN keyToEntry /\ keyToEntry[y].freq = minFreq
    BY <1>1, <1>2, HeldKeys DEF IInv
  <1> DEFINE f == keyToEntry[x].freq
  <1>4. f \in Freqs /\ x \in HeldAt(freqToList, f)
    BY DEF IInv, EntriesOK, LFUEntry, Match
  <1> HIDE DEF f
  <1>5. f \in DOMAIN freqToList
    BY <1>4 DEF HeldAt
  <1>6. minFreq <= f /\ f \in Int /\ minFreq \in Int
    BY <1>4, <1>5, FreqAssumption DEF IInv, Least, Freqs
  <1>7. CASE minFreq = f
    <2>1. x \in HeldAt(freqToList, minFreq) \ Victims(n)
      BY <1>4, <1>7
    <2>2. Before(recent, x, y)
      BY <2>1, VictimsOrder DEF IInv, Aged
    <2> QED BY <1>3, <1>7, <2>2 DEF f
  <1>8. CASE minFreq # f
    BY <1>3, <1>6, <1>8 DEF f
  <1> QED BY <1>7, <1>8

\* A key that is before another in the history is younger.
LEMMA AgeFacts ==
  ASSUME Distinct(recent), NEW x, NEW y, Before(recent, x, y)
  PROVE  Age(x) < Age(y)
  <1>1. PICK i, j \in DOMAIN recent : i < j /\ recent[i] = x /\ recent[j] = y
    BY DEF Before
  <1>2. Age(x) = i /\ Age(y) = j
    BY <1>1 DEF Distinct, Age
  <1> QED BY <1>1, <1>2

\* Available counts a list.
LEMMA AvailableType == IInv => Available \in Nat
  <1>1. IInv /\ minFreq \in DOMAIN freqToList => freqToList[minFreq] \in Seq(Keys)
    BY DEF IInv, Sound
  <1> QED BY <1>1 DEF Available

\* The lists stay ordered by last use.
LEMMA AgedStep == IInv /\ Aged /\ [Next]_vars => Aged'
  <1> SUFFICES ASSUME IInv, Aged, [Next]_vars PROVE Aged'
    OBVIOUS
  <1>1. Aged' <=> /\ recent' \in Seq(Keys) /\ Distinct(recent')
                  /\ DOMAIN keyToEntry' \subseteq ToSet(recent')
                  /\ AgedLists(freqToList', recent')
    BY DEF Aged, AgedLists, Ordered, Before, Distinct, ToSet
  <1>2. ASSUME recent' = recent, DOMAIN keyToEntry' \subseteq DOMAIN keyToEntry,
               AgedLists(freqToList', recent)
        PROVE  Aged'
    BY <1>1, <1>2 DEF Aged
  <1>3. ASSUME UNCHANGED <<recent, keyToEntry, freqToList>> PROVE Aged'
    BY <1>2, <1>3 DEF Aged
  <1>4. ASSUME NEW n \in 0..Available, recent' = recent,
               freqToList' = ListsWithoutVictims(n), keyToEntry' = EntriesWithoutVictims(n)
        PROVE  Aged'
    <2>1. DOMAIN keyToEntry' \subseteq DOMAIN keyToEntry
      BY <1>4 DEF EntriesWithoutVictims
    <2>2. AgedLists(freqToList', recent)
      BY <1>4, VictimsOrder DEF IInv, Aged
    <2> QED BY <1>2, <1>4, <2>1, <2>2
  <1>5. ASSUME NEW k \in Keys, Get(k) PROVE Aged'
    <2>1. CASE Hit(k)
      <3>1. keyToEntry[k].value \in Values
        BY <2>1 DEF Hit, IInv, EntriesOK, LFUEntry
      <3> QED BY <2>1, <3>1, BumpOrder DEF Hit
    <2>2. CASE NotFound(k)
      BY <1>3, <2>2 DEF NotFound
    <2> QED BY <1>5, <2>1, <2>2 DEF Get
  <1>6. ASSUME NEW k \in Keys, Del(k) PROVE Aged'
    <2>1. CASE k \in DOMAIN keyToEntry
      <3> DEFINE f == keyToEntry[k].freq
      <3>1. /\ freqToList' = ListWithout(freqToList, f, k) /\ recent' = recent
            /\ DOMAIN keyToEntry' \subseteq DOMAIN keyToEntry
        BY <1>6, <2>1 DEF Del, Drop
      <3>2. f \in DOMAIN freqToList /\ k \in ToSet(freqToList[f])
        <4>1. f \in Freqs
          BY <2>1 DEF IInv, EntriesOK, LFUEntry
        <4>2. k \in HeldAt(freqToList, f)
          BY <2>1, <4>1 DEF IInv, Match
        <4> HIDE DEF f
        <4> QED BY <4>2 DEF HeldAt
      <3> HIDE DEF f
      <3>3. AgedLists(freqToList', recent)
        BY <3>1, <3>2, WithoutOrder DEF IInv, Aged
      <3> QED BY <1>2, <3>1, <3>3
    <2>2. CASE k \notin DOMAIN keyToEntry
      BY <1>3, <1>6, <2>2 DEF Del
    <2> QED BY <2>1, <2>2
  <1>7. ASSUME NEW k \in Keys, NEW v \in Values, Set(k, v) PROVE Aged'
    <2>1. CASE Update(k, v)
      BY <2>1, BumpOrder DEF Update
    <2>2. CASE Insert(k, v)
      BY <2>2, InsertOrder
    <2>3. CASE InsertPanics(k, v)
      <3>1. Available \in 0..Available
        BY AvailableType
      <3> QED BY <1>4, <2>3, <3>1 DEF InsertPanics
    <2> QED BY <1>7, <2>1, <2>2, <2>3 DEF Set
  <1>8. ASSUME RemoveOldest PROVE Aged'
    <2>1. CASE Available > 0
      <3>1. 1 \in 0..Available
        BY <2>1, AvailableType
      <3> QED BY <1>4, <1>8, <2>1, <3>1 DEF RemoveOldest
    <2>2. CASE ~(Available > 0)
      BY <1>3, <1>8, <2>2 DEF RemoveOldest
    <2> QED BY <2>1, <2>2
  <1>9. CASE UNCHANGED vars
    BY <1>3, <1>9 DEF vars
  <1> QED BY <1>5, <1>6, <1>7, <1>8, <1>9 DEF Next

\* What a step evicts to make room was in the cache, and nothing it keeps was used
\* as rarely and as long ago.
LEMMA LeastUsedDropped ==
  ASSUME IInv, Aged, RemoveOldest \/ \E k \in Keys, v \in Values : Set(k, v),
         NEW gone \in evicted', NEW x \in DOMAIN keyToEntry' \intersect DOMAIN keyToEntry
  PROVE  \/ keyToEntry[gone.key].freq < keyToEntry[x].freq
         \/ /\ keyToEntry[gone.key].freq = keyToEntry[x].freq
            /\ Age(x) < Age(gone.key)
  <1>1. ASSUME NEW n \in 0..Available, ReportVictims(n), x \notin Victims(n)
        PROVE  \/ keyToEntry[gone.key].freq < keyToEntry[x].freq
               \/ /\ keyToEntry[gone.key].freq = keyToEntry[x].freq
                  /\ Age(x) < Age(gone.key)
    <2>1. PICK y \in Victims(n) : gone = [key |-> y, value |-> keyToEntry[y].value]
      BY <1>1 DEF ReportVictims
    <2>2. gone.key = y /\ x \in DOMAIN keyToEntry \ Victims(n)
      BY <1>1, <2>1
    <2>3. \/ keyToEntry[y].freq < keyToEntry[x].freq
          \/ keyToEntry[y].freq = keyToEntry[x].freq /\ Before(recent, x, y)
      BY <2>2, VictimsAreOldest
    <2> QED BY <2>2, <2>3, AgeFacts DEF Aged
  <1>2. \A n : DOMAIN EntriesWithoutVictims(n) = DOMAIN keyToEntry \ Victims(n)
    BY DEF EntriesWithoutVictims
  <1>3. ASSUME NEW k \in Keys, NEW v \in Values, Set(k, v), evicted' # {}
        PROVE  \E n \in 0..Available : ReportVictims(n) /\ x \notin Victims(n)
    <2>1. ~Update(k, v)
      BY <1>3 DEF Update, Bump
    <2>2. CASE Insert(k, v)
      <3>1. PICK n \in 0..Available :
              /\ keyToEntry' = Put(EntriesWithoutVictims(n), k, [value |-> v, freq |-> 1])
              /\ ReportVictims(n)
        BY <2>2 DEF Insert
      <3>2. k \notin DOMAIN keyToEntry
        BY <2>2 DEF Insert
      <3>3. DOMAIN keyToEntry' = DOMAIN EntriesWithoutVictims(n) \union {k}
        BY <3>1 DEF Put
      <3> QED BY <1>2, <3>1, <3>2, <3>3
    <2>3. CASE InsertPanics(k, v)
      <3>1. Available \in 0..Available
        BY AvailableType
      <3> QED BY <1>2, <2>3, <3>1 DEF InsertPanics
    <2> QED BY <1>3, <2>1, <2>2, <2>3 DEF Set
  <1>4. CASE RemoveOldest
    <2>1. CASE Available > 0
      <3>1. 1 \in 0..Available
        BY <2>1, AvailableType
      <3> QED BY <1>1, <1>2, <1>4, <2>1, <3>1 DEF RemoveOldest
    <2>2. CASE ~(Available > 0)
      BY <1>4, <2>2 DEF RemoveOldest
    <2> QED BY <2>1, <2>2
  <1>5. CASE \E k \in Keys, v \in Values : Set(k, v)
    BY <1>1, <1>3, <1>5
  <1> QED BY <1>4, <1>5

\* What is evicted to make room was used least often, and longest ago of those used
\* as often, also by a call that panics half-way (cache/LFU.go:76-80, 126-146).
THEOREM LeastUsedAreDropped == Spec => DropsLeastUsed
  <1>1. Init => IInv /\ Aged
    <2> SUFFICES ASSUME Init PROVE IInv /\ Aged
      OBVIOUS
    <2>1. recent = <<>> /\ DOMAIN keyToEntry = {} /\ DOMAIN freqToList = {}
      BY DEF Init
    <2> QED BY <2>1, InitIInv, EmptyFacts DEF Aged, AgedLists
  <1>2. IInv /\ Aged /\ [Next]_vars => IInv' /\ Aged'
    BY NextIInv, AgedStep
  <1>3. IInv /\ Aged /\ [Next]_vars =>
          [(RemoveOldest \/ \E k \in Keys, v \in Values : Set(k, v)) =>
            \A gone \in evicted' : \A k \in DOMAIN keyToEntry' \intersect DOMAIN keyToEntry :
                \/ keyToEntry[gone.key].freq < keyToEntry[k].freq
                \/ /\ keyToEntry[gone.key].freq = keyToEntry[k].freq
                   /\ Age(k) < Age(gone.key)]_vars
    BY LeastUsedDropped
  <1> QED BY <1>1, <1>2, <1>3, PTL DEF Spec, DropsLeastUsed

-----------------------------------------------------------------------------
\* The bytes some entries of a map take.
Blocks(map, keys) == UNION {{k} \X (1..EntrySize(k, map[k].value)) : k \in keys}

\* The bytes of one entry.
LEMMA BytesOfOne ==
  ASSUME NEW k \in Keys, NEW v \in Values
  PROVE  /\ EntrySize(k, v) \in Nat
         /\ IsFiniteSet({k} \X (1..EntrySize(k, v)))
         /\ Cardinality({k} \X (1..EntrySize(k, v))) = EntrySize(k, v)
  <1> DEFINE n == EntrySize(k, v)
  <1>1. n \in Nat
    BY LenAssumption DEF EntrySize
  <1> HIDE DEF n
  <1>2. IsFiniteSet({k}) /\ Cardinality({k}) = 1
    BY FS_Singleton
  <1>3. IsFiniteSet(1..n) /\ Cardinality(1..n) = n
    <2>1. 1 \in Int /\ n \in Int
      BY <1>1
    <2>2. IsFiniteSet(1..n) /\ Cardinality(1..n) = IF 1 > n THEN 0 ELSE n - 1 + 1
      BY <2>1, FS_Interval
    <2> QED BY <1>1, <2>2
  <1>4. /\ IsFiniteSet({k} \X (1..n))
        /\ Cardinality({k} \X (1..n)) = Cardinality({k}) * Cardinality(1..n)
    BY <1>2, <1>3, FS_Product
  <1>5. 1 * n = n
    BY <1>1
  <1> QED BY <1>1, <1>2, <1>3, <1>4, <1>5 DEF n

\* Finitely many entries have finitely many bytes.
LEMMA BlocksFinite ==
  ASSUME NEW map, EntriesOK(map), NEW S \in SUBSET DOMAIN map, IsFiniteSet(S)
  PROVE  IsFiniteSet(Blocks(map, S)) /\ Cardinality(Blocks(map, S)) \in Nat
  <1> DEFINE Each == {{k} \X (1..EntrySize(k, map[k].value)) : k \in S}
             f == [k \in S |-> {k} \X (1..EntrySize(k, map[k].value))]
  <1>1. f \in Surjection(S, Each)
    BY DEF Surjection
  <1>2. \A k \in S : k \in Keys /\ map[k].value \in Values
    BY DEF EntriesOK, LFUEntry
  <1>3. \A T \in Each : IsFiniteSet(T)
    BY <1>2, BytesOfOne
  <1>4. Blocks(map, S) = UNION Each
    BY DEF Blocks
  <1> HIDE DEF Each, f
  <1>5. IsFiniteSet(Each)
    BY <1>1, FS_Surjection
  <1>6. IsFiniteSet(UNION Each)
    BY <1>3, <1>5, FS_UNION
  <1> QED BY <1>4, <1>6, FS_CardinalityType

\* The bytes of some of the entries and those of the others are all the bytes.
LEMMA BlocksSplit ==
  ASSUME NEW map, EntriesOK(map), IsFiniteSet(DOMAIN map), NEW T \in SUBSET DOMAIN map
  PROVE  LET rest == DOMAIN map \ T IN
         /\ IsFiniteSet(rest)
         /\ Cardinality(Blocks(map, T)) \in Nat
         /\ Cardinality(Blocks(map, rest)) \in Nat
         /\ Cardinality(Blocks(map, DOMAIN map))
              = Cardinality(Blocks(map, rest)) + Cardinality(Blocks(map, T))
  <1> DEFINE S == DOMAIN map
             rest == S \ T
  <1>1. IsFiniteSet(T) /\ IsFiniteSet(rest) /\ rest \in SUBSET S
    BY FS_Subset, FS_Difference
  <1>2. /\ IsFiniteSet(Blocks(map, T)) /\ Cardinality(Blocks(map, T)) \in Nat
        /\ IsFiniteSet(Blocks(map, rest)) /\ Cardinality(Blocks(map, rest)) \in Nat
    BY <1>1, BlocksFinite
  <1>3. Blocks(map, S) = Blocks(map, rest) \union Blocks(map, T)
    BY DEF Blocks
  <1>4. Blocks(map, rest) \cap Blocks(map, T) = {}
    <2>1. \A U : \A b \in Blocks(map, U) : b[1] \in U
      BY DEF Blocks
    <2> QED BY <2>1
  <1>5. Cardinality(Blocks(map, rest) \cap Blocks(map, T)) = 0
    BY <1>4, FS_EmptySet
  <1>6. Cardinality(Blocks(map, rest) \union Blocks(map, T))
          = Cardinality(Blocks(map, rest)) + Cardinality(Blocks(map, T))
              - Cardinality(Blocks(map, rest) \cap Blocks(map, T))
    BY <1>2, FS_Union
  <1> DEFINE m == Cardinality(Blocks(map, rest))
             n == Cardinality(Blocks(map, T))
  <1>7. Cardinality(Blocks(map, S)) = m + n - 0 /\ m \in Nat /\ n \in Nat
    BY <1>2, <1>3, <1>5, <1>6, Zenon
  <1> HIDE DEF m, n
  <1>8. Cardinality(Blocks(map, S)) = m + n
    BY <1>7
  <1> QED BY <1>1, <1>2, <1>8 DEF m, n

\* All the bytes are those of one entry and those of the others.
LEMMA BlocksOfOne ==
  ASSUME NEW map, EntriesOK(map), IsFiniteSet(DOMAIN map), NEW k \in DOMAIN map
  PROVE  LET rest == DOMAIN map \ {k} IN
         /\ IsFiniteSet(rest)
         /\ Cardinality(Blocks(map, rest)) \in Nat
         /\ EntrySize(k, map[k].value) \in Nat
         /\ Cardinality(Blocks(map, DOMAIN map))
              = Cardinality(Blocks(map, rest)) + EntrySize(k, map[k].value)
  <1>1. k \in Keys /\ map[k].value \in Values
    BY DEF EntriesOK, LFUEntry
  <1>2. Blocks(map, {k}) = {k} \X (1..EntrySize(k, map[k].value))
    BY DEF Blocks
  <1>3. Cardinality(Blocks(map, {k})) = EntrySize(k, map[k].value)
    BY <1>1, <1>2, BytesOfOne
  <1>4. {k} \in SUBSET DOMAIN map
    OBVIOUS
  <1> QED BY <1>1, <1>3, <1>4, BytesOfOne, BlocksSplit

\* Only the values of the entries count.
LEMMA BlocksAgree ==
  ASSUME NEW map, NEW other, NEW S, \A k \in S : map[k].value = other[k].value
  PROVE  Blocks(map, S) = Blocks(other, S)
  BY DEF Blocks

\* The bytes counted are the bytes of the entries, of which there are finitely many;
\* the bound does not change.
Sized ==
    /\ maxBytes \in Capacities
    /\ IsFiniteSet(DOMAIN keyToEntry)
    /\ SizeIsExact

\* What evictions leave.
LEMMA SizeOfVictims ==
  ASSUME IInv, Sized, NEW n \in 0..Available
  PROVE  LET map == EntriesWithoutVictims(n) IN
         /\ IsFiniteSet(DOMAIN map) /\ VictimsSize(n) \in Nat /\ nBytes \in Nat
         /\ Cardinality(Blocks(map, DOMAIN map)) = nBytes - VictimsSize(n)
         /\ Cardinality(Blocks(map, DOMAIN map)) \in Nat
  <1> DEFINE map == EntriesWithoutVictims(n)
             all == DOMAIN keyToEntry
             rest == all \ Victims(n)
  <1>1. Victims(n) \in SUBSET all /\ DOMAIN map = rest
    BY EvictionFacts
  <1>2. \A k \in rest : map[k].value = keyToEntry[k].value
    BY DEF EntriesWithoutVictims
  <1> HIDE DEF map
  <1>3. Blocks(map, rest) = Blocks(keyToEntry, rest)
    BY <1>2, BlocksAgree
  <1>4. /\ IsFiniteSet(rest)
        /\ Cardinality(Blocks(keyToEntry, Victims(n))) \in Nat
        /\ Cardinality(Blocks(keyToEntry, rest)) \in Nat
        /\ Cardinality(Blocks(keyToEntry, all))
             = Cardinality(Blocks(keyToEntry, rest)) + Cardinality(Blocks(keyToEntry, Victims(n)))
    BY <1>1, BlocksSplit DEF IInv, Sized
  <1>5. /\ nBytes = Cardinality(Blocks(keyToEntry, all))
        /\ VictimsSize(n) = Cardinality(Blocks(keyToEntry, Victims(n)))
    BY DEF Sized, SizeIsExact, VictimsSize, Bytes, Blocks
  <1> QED BY <1>1, <1>3, <1>4, <1>5 DEF map

\* No step makes the count differ from the bytes of the entries.
LEMMA SizedStep == IInv /\ Sized /\ [Next]_vars => Sized'
  <1> SUFFICES ASSUME IInv, Sized, [Next]_vars PROVE Sized'
    OBVIOUS
  <1>1. /\ nBytes = Cardinality(Blocks(keyToEntry, DOMAIN keyToEntry))
        /\ IsFiniteSet(DOMAIN keyToEntry) /\ EntriesOK(keyToEntry)
    BY DEF Sized, SizeIsExact, Bytes, Blocks, IInv
  <1>2. EntriesOK(keyToEntry')
    BY NextIInv DEF IInv
  <1>3. maxBytes' \in Capacities
    <2>1. UNCHANGED maxBytes
      BY DEF Next, vars, Get, Hit, NotFound, Del, Set, Update, Insert, InsertPanics, RemoveOldest
    <2> QED BY <2>1 DEF Sized
  <1>4. ASSUME IsFiniteSet(DOMAIN keyToEntry'),
               nBytes' = Cardinality(Blocks(keyToEntry', DOMAIN keyToEntry'))
        PROVE  Sized'
    BY <1>3, <1>4 DEF Sized, SizeIsExact, Bytes, EntrySize, Blocks
  <1>5. ASSUME UNCHANGED <<nBytes, keyToEntry>> PROVE Sized'
    BY <1>1, <1>4, <1>5
  <1>6. ASSUME NEW n \in 0..Available, keyToEntry' = EntriesWithoutVictims(n),
               nBytes' = nBytes - VictimsSize(n)
        PROVE  Sized'
    BY <1>4, <1>6, SizeOfVictims
  <1>7. ASSUME NEW k \in DOMAIN keyToEntry, NEW v \in Values, Bump(k, v),
               nBytes' = nBytes + ValueLen[v] - ValueLen[keyToEntry[k].value]
        PROVE  Sized'
    <2> DEFINE all == DOMAIN keyToEntry
               rest == all \ {k}
    <2>1. /\ DOMAIN keyToEntry' = all /\ keyToEntry'[k].value = v
          /\ \A x \in rest : keyToEntry'[x].value = keyToEntry[x].value
      BY <1>7 DEF Bump
    <2>2. Blocks(keyToEntry', rest) = Blocks(keyToEntry, rest)
      BY <2>1, BlocksAgree
    <2>3. /\ Cardinality(Blocks(keyToEntry, rest)) \in Nat
          /\ Cardinality(Blocks(keyToEntry, all))
               = Cardinality(Blocks(keyToEntry, rest)) + EntrySize(k, keyToEntry[k].value)
      BY <1>1, BlocksOfOne
    <2>4. Cardinality(Blocks(keyToEntry', all))
            = Cardinality(Blocks(keyToEntry', rest)) + EntrySize(k, v)
      BY <1>1, <1>2, <2>1, BlocksOfOne
    <2>5. k \in Keys /\ keyToEntry[k].value \in Values
      BY <1>1 DEF EntriesOK, LFUEntry
    <2>6. /\ EntrySize(k, v) = KeyLen[k] + ValueLen[v] + 8
          /\ EntrySize(k, keyToEntry[k].value) = KeyLen[k] + ValueLen[keyToEntry[k].value] + 8
          /\ KeyLen[k] \in Nat /\ ValueLen[v] \in Nat /\ ValueLen[keyToEntry[k].value] \in Nat
      BY <2>5, LenAssumption DEF EntrySize
    <2>7. nBytes' = Cardinality(Blocks(keyToEntry', all))
      BY <1>1, <1>7, <2>2, <2>3, <2>4, <2>6
    <2> QED BY <1>1, <1>4, <2>1, <2>7
  <1>8. ASSUME NEW k \in Keys, Get(k) PROVE Sized'
    <2>1. CASE Hit(k)
      <3>1. k \in DOMAIN keyToEntry /\ keyToEntry[k].value \in Values /\ nBytes' = nBytes
            /\ Bump(k, keyToEntry[k].value)
        BY <1>1, <2>1 DEF Hit, EntriesOK, LFUEntry
      <3>2. nBytes \in Int /\ ValueLen[keyToEntry[k].value] \in Int
        BY <1>1, <3>1, BlocksFinite, LenAssumption
      <3>3. nBytes' = nBytes + ValueLen[keyToEntry[k].value] - ValueLen[keyToEntry[k].value]
        BY <3>1, <3>2
      <3> QED BY <1>7, <3>1, <3>3
    <2>2. CASE NotFound(k)
      BY <1>5, <2>2 DEF NotFound
    <2> QED BY <1>8, <2>1, <2>2 DEF Get
  <1>9. ASSUME NEW k \in Keys, Del(k) PROVE Sized'
    <2>1. CASE k \in DOMAIN keyToEntry
      <3> DEFINE rest == DOMAIN keyToEntry \ {k}
      <3>1. /\ DOMAIN keyToEntry' = rest
            /\ \A x \in rest : keyToEntry'[x].value = keyToEntry[x].value
            /\ nBytes' = nBytes - EntrySize(k, keyToEntry[k].value)
        BY <1>9, <2>1 DEF Del, Drop
      <3>2. Blocks(keyToEntry', rest) = Blocks(keyToEntry, rest)
        BY <3>1, BlocksAgree
      <3>3. /\ IsFiniteSet(rest)
            /\ Cardinality(Blocks(keyToEntry, rest)) \in Nat
            /\ EntrySize(k, keyToEntry[k].value) \in Nat
            /\ nBytes = Cardinality(Blocks(keyToEntry, rest)) + EntrySize(k, keyToEntry[k].value)
        BY <1>1, <2>1, BlocksOfOne
      <3> QED BY <1>4, <3>1, <3>2, <3>3
    <2>2. CASE k \notin DOMAIN keyToEntry
      BY <1>5, <1>9, <2>2 DEF Del
    <2> QED BY <2>1, <2>2
  <1>10. ASSUME NEW k \in Keys, NEW v \in Values, Insert(k, v) PROVE Sized'
    <2>1. PICK n \in 0..Available :
            /\ keyToEntry' = Put(EntriesWithoutVictims(n), k, [value |-> v, freq |-> 1])
            /\ nBytes' = nBytes - VictimsSize(n) + EntrySize(k, v)
      BY <1>10 DEF Insert
    <2> DEFINE map == EntriesWithoutVictims(n)
    <2>2. k \notin DOMAIN map
      BY <1>10 DEF Insert, EntriesWithoutVictims
    <2>3. /\ IsFiniteSet(DOMAIN map)
          /\ Cardinality(Blocks(map, DOMAIN map)) = nBytes - VictimsSize(n)
      BY SizeOfVictims
    <2> HIDE DEF map
    <2>4. /\ DOMAIN keyToEntry' = DOMAIN map \union {k} /\ keyToEntry'[k].value = v
          /\ \A x \in DOMAIN map : keyToEntry'[x].value = map[x].value
      BY <2>1, <2>2 DEF Put, map
    <2>5. IsFiniteSet(DOMAIN keyToEntry') /\ DOMAIN keyToEntry' \ {k} = DOMAIN map
      BY <2>2, <2>3, <2>4, FS_AddElement
    <2>6. Blocks(keyToEntry', DOMAIN map) = Blocks(map, DOMAIN map)
      BY <2>4, BlocksAgree
    <2>7. Cardinality(Blocks(keyToEntry', DOMAIN keyToEntry'))
            = Cardinality(Blocks(keyToEntry', DOMAIN map)) + EntrySize(k, v)
      BY <1>2, <2>4, <2>5, BlocksOfOne
    <2> QED BY <1>4, <2>1, <2>3, <2>5, <2>6, <2>7
  <1>11. ASSUME NEW k \in Keys, NEW v \in Values, Set(k, v) PROVE Sized'
    <2>1. CASE Update(k, v)
      BY <1>7, <2>1 DEF Update
    <2>2. CASE InsertPanics(k, v)
      <3>1. Available \in 0..Available
        BY AvailableType
      <3> QED BY <1>6, <2>2, <3>1 DEF InsertPanics
    <2> QED BY <1>10, <1>11, <2>1, <2>2 DEF Set
  <1>12. ASSUME RemoveOldest PROVE Sized'
    <2>1. CASE Available > 0
      <3>1. 1 \in 0..Available
        BY <2>1, AvailableType
      <3> QED BY <1>6, <1>12, <2>1, <3>1 DEF RemoveOldest
    <2>2. CASE ~(Available > 0)
      BY <1>5, <1>12, <2>2 DEF RemoveOldest
    <2> QED BY <2>1, <2>2
  <1>13. CASE UNCHANGED vars
    BY <1>5, <1>13 DEF vars
  <1> QED BY <1>8, <1>9, <1>11, <1>12, <1>13 DEF Next

\* The count starts at no bytes for no entries.
LEMMA InitSized == Init => Sized
  <1> SUFFICES ASSUME Init PROVE Sized
    OBVIOUS
  <1>1. DOMAIN keyToEntry = {} /\ nBytes = 0 /\ maxBytes \in Capacities
    BY DEF Init
  <1>2. Bytes(DOMAIN keyToEntry) = {}
    BY <1>1 DEF Bytes
  <1> QED BY <1>1, <1>2, FS_EmptySet DEF Sized, SizeIsExact

\* The bytes an LFUCache counts are those its entries take, also after a call that
\* evicted entries and then panicked (cache/LFU.go:73, 82, 124, 142).
THEOREM CountIsExact == Spec => []SizeIsExact
  <1>1. IInv /\ Sized /\ [Next]_vars => IInv' /\ Sized'
    BY NextIInv, SizedStep
  <1>2. Sized => SizeIsExact
    BY DEF Sized
  <1> QED BY <1>1, <1>2, InitIInv, InitSized, PTL DEF Spec

-----------------------------------------------------------------------------
\* The types the other invariants do not give.
Answers ==
    /\ ret \in Values \union {Miss}
    /\ evicted \subseteq [key: Keys, value: Values]
    /\ panicked \in BOOLEAN

\* What is returned and reported was in the cache.
LEMMA AnswersStep == IInv /\ Answers /\ [Next]_vars => Answers'
  <1> SUFFICES ASSUME IInv, Answers, [Next]_vars PROVE Answers'
    OBVIOUS
  <1>1. \A k \in DOMAIN keyToEntry :
            [key |-> k, value |-> keyToEntry[k].value] \in [key: Keys, value: Values]
    BY DEF IInv, EntriesOK, LFUEntry
  <1>2. ASSUME NEW n \in 0..Available, ReportVictims(n)
        PROVE  evicted' \subseteq [key: Keys, value: Values]
    <2>1. Victims(n) \subseteq DOMAIN keyToEntry
      BY EvictionFacts
    <2> QED BY <1>1, <1>2, <2>1 DEF ReportVictims
  <1>3. ret' \in Values \union {Miss}
    BY DEF Answers, Next, vars, Get, Hit, NotFound, Del, Set, Update, Insert, InsertPanics,
           RemoveOldest, IInv, EntriesOK, LFUEntry
  <1>4. panicked' \in BOOLEAN
    BY DEF Answers, Next, vars, Get, Hit, Bump, NotFound, Del, Set, Update, Insert, InsertPanics,
           RemoveOldest
  <1>5. ASSUME NEW k \in Keys, Get(k) \/ Del(k)
        PROVE  evicted' \subseteq [key: Keys, value: Values]
    BY <1>1, <1>5 DEF Get, Hit, Bump, NotFound, Del
  <1>6. ASSUME NEW k \in Keys, NEW v \in Values, Set(k, v)
        PROVE  evicted' \subseteq [key: Keys, value: Values]
    <2>1. CASE Update(k, v)
      BY <2>1 DEF Update, Bump
    <2>2. CASE Insert(k, v)
      BY <1>2, <2>2 DEF Insert
    <2>3. CASE InsertPanics(k, v)
      <3>1. Available \in 0..Available
        BY AvailableType
      <3> QED BY <1>2, <2>3, <3>1 DEF InsertPanics
    <2> QED BY <1>6, <2>1, <2>2, <2>3 DEF Set
  <1>7. ASSUME RemoveOldest
        PROVE  evicted' \subseteq [key: Keys, value: Values]
    <2>1. CASE Available > 0
      <3>1. 1 \in 0..Available
        BY <2>1, AvailableType
      <3> QED BY <1>2, <1>7, <2>1, <3>1 DEF RemoveOldest
    <2>2. CASE ~(Available > 0)
      BY <1>7, <2>2 DEF RemoveOldest
    <2> QED BY <2>1, <2>2
  <1>8. CASE UNCHANGED vars
    BY <1>8 DEF vars, Answers
  <1> QED BY <1>3, <1>4, <1>5, <1>6, <1>7, <1>8 DEF Answers, Next

\* The cache, what it counts, returns and reports, and the order of use are well
\* formed in every reachable state (the fields of LFUCache, cache/LFU.go:13-30).
THEOREM TypeCorrect == Spec => []TypeOK
  <1>1. Init => Answers /\ Aged
    <2> SUFFICES ASSUME Init PROVE Answers /\ Aged
      OBVIOUS
    <2>1. recent = <<>> /\ DOMAIN keyToEntry = {} /\ DOMAIN freqToList = {}
          /\ ret = Miss /\ evicted = {} /\ panicked = FALSE
      BY DEF Init
    <2>2. Aged
      BY <2>1, EmptyFacts DEF Aged, AgedLists
    <2> QED BY <2>1, <2>2 DEF Answers
  <1>2. IInv /\ Aged /\ Sized /\ Answers /\ [Next]_vars
          => IInv' /\ Aged' /\ Sized' /\ Answers'
    BY NextIInv, AgedStep, SizedStep, AnswersStep
  <1>3. IInv /\ Aged /\ Sized /\ Answers => TypeOK
    <2> SUFFICES ASSUME IInv, Aged, Sized, Answers PROVE TypeOK
      OBVIOUS
    <2>1. nBytes \in Int
      <3>1. nBytes = Cardinality(Blocks(keyToEntry, DOMAIN keyToEntry))
        BY DEF Sized, SizeIsExact, Bytes, Blocks
      <3>2. Cardinality(Blocks(keyToEntry, DOMAIN keyToEntry)) \in Nat
        BY BlocksFinite DEF IInv, Sized
      <3> QED BY <3>1, <3>2
    <2>2. /\ maxBytes \in Capacities /\ minFreq \in 0..MaxFreq /\ recent \in Seq(Keys)
          /\ DOMAIN keyToEntry \subseteq Keys
          /\ \A k \in DOMAIN keyToEntry : keyToEntry[k] \in LFUEntry
      BY DEF IInv, Aged, Sized, EntriesOK
    <2>3. /\ DOMAIN freqToList \subseteq Freqs
          /\ \A f \in DOMAIN freqToList : freqToList[f] \in Seq(Keys) \ {<<>>}
      BY DEF IInv, Sound
    <2> QED BY <2>1, <2>2, <2>3 DEF TypeOK, Answers
  <1> QED BY <1>1, <1>2, <1>3, InitIInv, InitSized, PTL DEF Spec

-----------------------------------------------------------------------------
\* BoundedCache's Cardinality is FiniteSets'.
LEMMA SameCardinality == \A S : Abstract!Cardinality(S) = Cardinality(S)
  BY DEF Abstract!Cardinality, Cardinality

\* Every step of an LFUCache is a step of the cache its callers were promised.
LEMMA StepIsAbstract ==
  ASSUME IInv, [Next]_vars
  PROVE  [Abstract!Next]_(Abstract!vars)
  <1> DEFINE bar == [k \in DOMAIN keyToEntry |-> keyToEntry[k].value]
             gone(n) == {[key |-> x, value |-> keyToEntry[x].value] : x \in Victims(n)}
  <1>1. DOMAIN bar = DOMAIN keyToEntry /\ \A k \in DOMAIN keyToEntry : bar[k] = keyToEntry[k].value
    OBVIOUS
  <1>2. \A k \in DOMAIN keyToEntry : keyToEntry[k] \in LFUEntry
    BY DEF IInv, EntriesOK
  <1>3. ASSUME UNCHANGED keyToEntry PROVE bar' = bar
    BY <1>3
  <1>4. bar' = [k \in DOMAIN keyToEntry' |-> keyToEntry'[k].value]
    OBVIOUS
  <1> HIDE DEF bar
  <1>5. ASSUME NEW n \in 0..Available
        PROVE  /\ gone(n) \in SUBSET Abstract!Entries(bar)
               /\ {e.key : e \in gone(n)} = Victims(n)
    <2> DEFINE victims == Victims(n)
               lost == {[key |-> x, value |-> keyToEntry[x].value] : x \in victims}
    <2>1. victims \subseteq DOMAIN keyToEntry
      BY EvictionFacts
    <2>2. gone(n) = lost
      OBVIOUS
    <2> HIDE DEF victims
    <2>3. lost \in SUBSET Abstract!Entries(bar)
      BY <1>1, <2>1 DEF Abstract!Entries
    <2>4. {e.key : e \in lost} = victims
      <3>1. ASSUME NEW x \in victims PROVE x \in {e.key : e \in lost}
        <4> DEFINE e0 == [key |-> x, value |-> keyToEntry[x].value]
        <4>1. e0 \in lost /\ e0.key = x
          OBVIOUS
        <4> HIDE DEF e0, lost
        <4> QED BY <4>1
      <3>2. \A e \in lost : e.key \in victims
        OBVIOUS
      <3> HIDE DEF lost
      <3> QED BY <3>1, <3>2
    <2> QED BY <2>2, <2>3, <2>4 DEF victims
  <1>6. ASSUME NEW n \in 0..Available, keyToEntry' = EntriesWithoutVictims(n)
        PROVE  bar' = Abstract!Without(bar, gone(n))
    <2>1. /\ DOMAIN keyToEntry' = DOMAIN keyToEntry \ Victims(n)
          /\ \A k \in DOMAIN keyToEntry' : keyToEntry'[k] = keyToEntry[k]
      BY <1>6 DEF EntriesWithoutVictims
    <2>2. Abstract!Without(bar, gone(n)) = [k \in DOMAIN keyToEntry \ Victims(n) |-> bar[k]]
      BY <1>1, <1>5 DEF Abstract!Without
    <2> QED BY <1>1, <1>4, <2>1, <2>2
  <1>7. Available \in Nat
    <2>1. minFreq \in DOMAIN freqToList => freqToList[minFreq] \in Seq(Keys)
      BY DEF IInv, Sound
    <2> QED BY <2>1 DEF Available
  <1>8. ASSUME NEW k \in Keys, Get(k) PROVE Abstract!Get(k)
    <2>1. CASE Hit(k)
      <3>1. k \in DOMAIN keyToEntry /\ ret' = keyToEntry[k].value /\ evicted' = {}
            /\ keyToEntry' = [keyToEntry EXCEPT ![k] =
                                [value |-> keyToEntry[k].value, freq |-> keyToEntry[k].freq + 1]]
        BY <2>1 DEF Hit, Bump
      <3>2. DOMAIN keyToEntry' = DOMAIN keyToEntry
            /\ \A x \in DOMAIN keyToEntry : keyToEntry'[x].value = keyToEntry[x].value
        BY <3>1
      <3>3. bar' = bar
        BY <1>4, <3>2 DEF bar
      <3> QED BY <1>1, <3>1, <3>3 DEF Abstract!Get, bar
    <2>2. CASE NotFound(k)
      <3>1. k \notin DOMAIN keyToEntry /\ ret' = Miss /\ evicted' = {} /\ bar' = bar
        BY <1>3, <2>2 DEF NotFound
      <3> QED BY <1>1, <3>1 DEF Abstract!Get, bar
    <2> QED BY <1>8, <2>1, <2>2 DEF Get
  <1>9. ASSUME NEW k \in Keys, Del(k) PROVE Abstract!Del(k)
    <2>1. CASE k \in DOMAIN keyToEntry
      <3>1. evicted' = {[key |-> k, value |-> keyToEntry[k].value]} /\ ret' = ret
            /\ keyToEntry' = Drop(keyToEntry, k)
        BY <1>9, <2>1 DEF Del
      <3>2. evicted' = {e \in Abstract!Entries(bar) : e.key = k} /\ {e.key : e \in evicted'} = {k}
        BY <1>1, <2>1, <3>1 DEF Abstract!Entries
      <3>3. DOMAIN keyToEntry' = DOMAIN keyToEntry \ {k}
            /\ \A x \in DOMAIN keyToEntry' : keyToEntry'[x] = keyToEntry[x]
        BY <3>1 DEF Drop
      <3>4. bar' = [x \in DOMAIN keyToEntry \ {k} |-> bar[x]]
        BY <1>1, <1>4, <3>3
      <3>5. bar' = Abstract!Without(bar, evicted')
        BY <1>1, <3>2, <3>4 DEF Abstract!Without
      <3> QED BY <3>1, <3>2, <3>5 DEF Abstract!Del, bar
    <2>2. CASE k \notin DOMAIN keyToEntry
      <3>1. evicted' = {} /\ ret' = ret /\ bar' = bar
        BY <1>3, <1>9, <2>2 DEF Del
      <3>2. evicted' = {e \in Abstract!Entries(bar) : e.key = k}
        BY <1>1, <2>2, <3>1 DEF Abstract!Entries
      <3>3. bar' = Abstract!Without(bar, evicted')
        <4>1. {e.key : e \in evicted'} = {} /\ bar = [x \in DOMAIN bar |-> bar[x]]
          BY <3>1 DEF bar
        <4> QED BY <3>1, <4>1 DEF Abstract!Without
      <3> QED BY <3>1, <3>2, <3>3 DEF Abstract!Del, bar
    <2> QED BY <2>1, <2>2
  <1>10. ASSUME NEW k \in Keys, NEW v \in Values, NEW lost \in SUBSET Abstract!Entries(bar),
                \A e \in lost : e.key # k,
                DOMAIN keyToEntry' = (DOMAIN keyToEntry \ {e.key : e \in lost}) \union {k},
                keyToEntry'[k].value = v,
                \A x \in DOMAIN keyToEntry' : x # k => keyToEntry'[x].value = keyToEntry[x].value,
                evicted' = lost, ret' = ret
         PROVE  Abstract!Set(k, v)
    <2> DEFINE stored == Abstract!Stored(bar, k, v)
    <2>1. /\ DOMAIN stored = DOMAIN keyToEntry \union {k} /\ stored[k] = v
          /\ \A x \in DOMAIN keyToEntry : x # k => stored[x] = keyToEntry[x].value
      BY <1>1 DEF Abstract!Stored
    <2> HIDE DEF stored
    <2>2. lost \in SUBSET Abstract!Entries(stored)
      <3> SUFFICES ASSUME NEW e \in lost PROVE e \in Abstract!Entries(stored)
        OBVIOUS
      <3>1. PICK x \in DOMAIN keyToEntry : e = [key |-> x, value |-> keyToEntry[x].value]
        BY <1>1 DEF Abstract!Entries
      <3>2. x # k
        BY <1>10, <3>1
      <3> QED BY <2>1, <3>1, <3>2 DEF Abstract!Entries
    <2> DEFINE names == {e.key : e \in lost}
    <2>3. k \notin names
      BY <1>10
    <2>4. Abstract!Without(stored, lost) = [x \in DOMAIN stored \ names |-> stored[x]]
      BY DEF Abstract!Without
    <2>5. DOMAIN keyToEntry' = (DOMAIN keyToEntry \ names) \union {k}
      BY <1>10
    <2> HIDE DEF names
    <2>6. DOMAIN keyToEntry' = DOMAIN stored \ names
      BY <2>1, <2>3, <2>5
    <2>7. ASSUME NEW x \in DOMAIN keyToEntry' PROVE keyToEntry'[x].value = stored[x]
      <3>1. CASE x = k
        BY <1>10, <2>1, <3>1
      <3>2. CASE x # k
        BY <1>10, <2>1, <2>5, <3>2
      <3> QED BY <3>1, <3>2
    <2>8. bar' = Abstract!Without(stored, lost)
      BY <1>4, <2>4, <2>6, <2>7
    <2> QED BY <1>10, <2>2, <2>8 DEF Abstract!Set, stored, bar
  <1>11. ASSUME NEW k \in Keys, NEW v \in Values, Update(k, v) PROVE Abstract!Set(k, v)
    <2>1. k \in DOMAIN keyToEntry /\ evicted' = {} /\ ret' = ret
          /\ keyToEntry' = [keyToEntry EXCEPT ![k] = [value |-> v, freq |-> keyToEntry[k].freq + 1]]
      BY <1>11 DEF Update, Bump
    <2> DEFINE lost == {}
    <2>2. /\ lost \in SUBSET Abstract!Entries(bar) /\ \A e \in lost : e.key # k
          /\ DOMAIN keyToEntry' = (DOMAIN keyToEntry \ {e.key : e \in lost}) \union {k}
          /\ keyToEntry'[k].value = v
          /\ \A x \in DOMAIN keyToEntry' : x # k => keyToEntry'[x].value = keyToEntry[x].value
          /\ evicted' = lost
      BY <2>1
    <2> HIDE DEF lost
    <2> QED BY <1>10, <2>1, <2>2
  <1>12. ASSUME NEW k \in Keys, NEW v \in Values, Insert(k, v) PROVE Abstract!Set(k, v)
    <2>1. k \notin DOMAIN keyToEntry /\ ret' = ret
      BY <1>12 DEF Insert
    <2>2. PICK n \in 0..Available :
            /\ keyToEntry' = Put(EntriesWithoutVictims(n), k, [value |-> v, freq |-> 1])
            /\ ReportVictims(n)
      BY <1>12 DEF Insert
    <2>3. evicted' = gone(n)
      BY <2>2 DEF ReportVictims
    <2>4. gone(n) \in SUBSET Abstract!Entries(bar) /\ {e.key : e \in gone(n)} = Victims(n)
          /\ Victims(n) \subseteq DOMAIN keyToEntry
      BY <1>5, EvictionFacts
    <2>5. /\ DOMAIN keyToEntry' = (DOMAIN keyToEntry \ Victims(n)) \union {k}
          /\ keyToEntry'[k].value = v
          /\ \A x \in DOMAIN keyToEntry' : x # k => keyToEntry'[x].value = keyToEntry[x].value
      BY <2>1, <2>2 DEF Put, EntriesWithoutVictims
    <2> HIDE DEF gone
    <2>6. \A e \in gone(n) : e.key # k
      BY <2>1, <2>4
    <2> QED BY <1>10, <2>1, <2>3, <2>4, <2>5, <2>6
  <1>13. ASSUME NEW k \in Keys, NEW v \in Values, InsertPanics(k, v) PROVE Abstract!SetFails(k)
    <2>1. k \notin DOMAIN bar /\ ret' = ret /\ evicted' = gone(Available)
      BY <1>1, <1>13 DEF InsertPanics, ReportVictims
    <2>2. Available \in 0..Available
      BY <1>7
    <2>3. gone(Available) \in SUBSET Abstract!Entries(bar)
      BY <1>5, <2>2
    <2>4. bar' = Abstract!Without(bar, gone(Available))
      BY <1>6, <1>13, <2>2 DEF InsertPanics
    <2> HIDE DEF gone
    <2> QED BY <2>1, <2>3, <2>4 DEF Abstract!SetFails, bar
  <1>14. ASSUME RemoveOldest PROVE Abstract!RemoveOldest
    <2>1. CASE Available > 0
      <3>1. 1 \in 0..Available
        BY <1>7, <2>1
      <3>2. evicted' = gone(1) /\ ret' = ret /\ keyToEntry' = EntriesWithoutVictims(1)
        BY <1>14, <2>1 DEF RemoveOldest, ReportVictims
      <3>3. gone(1) \in SUBSET Abstract!Entries(bar) /\ bar' = Abstract!Without(bar, gone(1))
        BY <1>5, <1>6, <3>1, <3>2
      <3>4. Cardinality(evicted') <= 1
        <4>1. PICK k : Victims(1) = {k}
          BY <3>1, EvictionFacts
        <4> DEFINE e == [key |-> k, value |-> keyToEntry[k].value]
        <4>2. evicted' = {e}
          BY <3>2, <4>1
        <4> HIDE DEF e
        <4>3. Cardinality({e}) = 1
          BY FS_Singleton
        <4> QED BY <4>2, <4>3
      <3> HIDE DEF gone
      <3> QED BY <3>2, <3>3, <3>4, SameCardinality DEF Abstract!RemoveOldest, bar
    <2>2. CASE ~(Available > 0)
      <3>1. evicted' = {} /\ ret' = ret /\ bar' = bar
        BY <1>3, <1>14, <2>2 DEF RemoveOldest
      <3>2. {e.key : e \in {}} = {} /\ bar = [x \in DOMAIN bar |-> bar[x]]
        BY DEF bar
      <3>3. bar' = Abstract!Without(bar, {})
        BY <3>1, <3>2 DEF Abstract!Without
      <3>4. Cardinality(evicted') <= 1
        BY <3>1, FS_EmptySet
      <3> QED BY <3>1, <3>3, <3>4, SameCardinality DEF Abstract!RemoveOldest, bar
    <2> QED BY <2>1, <2>2
  <1>15. CASE UNCHANGED vars
    BY <1>3, <1>15 DEF vars, Abstract!vars, bar
  <1> QED BY <1>8, <1>9, <1>11, <1>12, <1>13, <1>14, <1>15 DEF Next, Set, Abstract!Next

\* An LFUCache is a bounded cache whose Set of a new key may fail: Get returns
\* what was last set or nothing, and every entry that is dropped is reported,
\* also those a call evicted before it panicked.
THEOREM ImplementsBoundedCache == Spec => IsBoundedCache
  <1>1. Init => Abstract!Init
    BY DEF Init, Abstract!Init
  <1>2. IInv /\ [Next]_vars => [Abstract!Next]_(Abstract!vars)
    BY StepIsAbstract
  <1> QED BY <1>1, <1>2, InvariantHolds, PTL DEF Spec, IsBoundedCache, Abstract!Spec

=============================================================================
