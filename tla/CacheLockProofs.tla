-------------------------- MODULE CacheLockProofs ---------------------------
(***************************************************************************)
(* Proofs about CacheLock, for any goroutines, keys, capacity and number   *)
(* of calls.                                                               *)
(*                                                                         *)
(* That no pointer of a listed element is nil, and that the map leads to   *)
(* the value last set, need the lock only (Guarded): no element leaves the *)
(* list while somebody reads.  That the list stays a ring needs that no    *)
(* two goroutines have been in the middle of a move at once: then the      *)
(* links are those of a ring after the first assignments of one move       *)
(* (Rung), and taking an element out of a ring and putting one behind the  *)
(* root both give a ring again.                                            *)
(***************************************************************************)
EXTENDS CacheLock, FiniteSetTheorems, TLAPS

Nodes == Elements \union {Root}

Links == [next : [Nodes -> Nodes \union {Nil}], prev : [Nodes -> Nodes \union {Nil}]]

\* No element of S, nor the root, has a nil pointer.
Alive(l, S) == \A x \in S \union {Root} : l.next[x] # Nil /\ l.prev[x] # Nil

\* The links lead through S and the root, in one circle, in both directions.
RingOf(l, S) ==
    /\ \A x \in S \union {Root} :
        /\ l.next[x] \in S \union {Root} /\ l.prev[x] \in S \union {Root}
        /\ l.prev[l.next[x]] = x /\ l.next[l.prev[x]] = x
    /\ \A part \in SUBSET (S \union {Root}) :
        (Root \in part /\ \A x \in part : l.next[x] \in part) => part = S \union {Root}

-----------------------------------------------------------------------------
\* A store to one pointer, of an element or nil.
LEMMA SetTyped ==
    ASSUME NEW l \in Links, NEW x \in Nodes, NEW y \in Nodes \union {Nil}
    PROVE  SetNext(l, x, y) \in Links /\ SetPrev(l, x, y) \in Links
  BY DEF SetNext, SetPrev, Links

\* Which pointer each assignment stores to, and what.
LEMMA AssignIs ==
    ASSUME NEW l, NEW e
    PROVE  /\ Assign(l, e, 1) = SetNext(l, l.prev[e], l.next[e])
           /\ Assign(l, e, 2) = SetPrev(l, l.next[e], l.prev[e])
           /\ Assign(l, e, 3) = SetPrev(l, e, Root)
           /\ Assign(l, e, 4) = SetNext(l, e, l.next[Root])
           /\ Assign(l, e, 5) = SetNext(l, l.prev[e], e)
           /\ Assign(l, e, 6) = SetPrev(l, l.next[e], e)
  BY DEF Assign

\* A pointer to an element leaves the listed elements without nil.
LEMMA SetAlive ==
    ASSUME NEW l \in Links, NEW S \in SUBSET Elements, Alive(l, S),
           NEW x \in Nodes, NEW y \in Nodes
    PROVE  Alive(SetNext(l, x, y), S) /\ Alive(SetPrev(l, x, y), S)
  <1>1. Nil \notin Nodes /\ S \union {Root} \subseteq Nodes
    BY NilAssumption, BoundsAssumption DEF Nodes, Elements, Root
  <1> DEFINE R == S \union {Root}
  <1>2. \A z \in R : z \in Nodes /\ l.next[z] # Nil /\ l.prev[z] # Nil
    BY <1>1 DEF Alive
  <1>3. y # Nil
    BY <1>1
  <1> HIDE DEF R
  <1>4. \A z \in R : /\ SetNext(l, x, y).next[z] # Nil /\ SetNext(l, x, y).prev[z] # Nil
                     /\ SetPrev(l, x, y).next[z] # Nil /\ SetPrev(l, x, y).prev[z] # Nil
    BY <1>2, <1>3 DEF SetNext, SetPrev, Links
  <1> QED BY <1>4 DEF Alive, R

\* Any one assignment of a move leaves the listed elements without nil.
LEMMA AssignFacts ==
    ASSUME NEW l \in Links, NEW S \in SUBSET Elements, NEW e \in S, Alive(l, S),
           NEW i \in 1..6
    PROVE  Assign(l, e, i) \in Links /\ Alive(Assign(l, e, i), S)
  <1>1. /\ e \in Nodes /\ Root \in Nodes
        /\ l.next[e] \in Nodes /\ l.prev[e] \in Nodes /\ l.next[Root] \in Nodes
    BY DEF Nodes, Links, Alive
  <1>2. \A x, y \in Nodes : /\ SetNext(l, x, y) \in Links /\ Alive(SetNext(l, x, y), S)
                            /\ SetPrev(l, x, y) \in Links /\ Alive(SetPrev(l, x, y), S)
    BY SetTyped, SetAlive
  <1>3. i = 1 \/ i = 2 \/ i = 3 \/ i = 4 \/ i = 5 \/ i = 6
    OBVIOUS
  <1> QED BY <1>1, <1>2, <1>3, AssignIs

\* Taking an element out.
LEMMA UnlinkedFacts ==
    ASSUME NEW l \in Links, NEW S \in SUBSET Elements, NEW e \in S, Alive(l, S)
    PROVE  Unlinked(l, e) \in Links /\ Alive(Unlinked(l, e), S)
  <1> DEFINE l1 == Assign(l, e, 1)
  <1>1. l1 \in Links /\ Alive(l1, S)
    BY AssignFacts
  <1>2. Unlinked(l, e) = Assign(l1, e, 2)
    BY DEF Unlinked
  <1> HIDE DEF l1
  <1> QED BY <1>1, <1>2, AssignFacts

\* Putting one in, which may have nil pointers before.
LEMMA LinkedFacts ==
    ASSUME NEW l \in Links, NEW S \in SUBSET Elements, NEW e \in Elements, Alive(l, S)
    PROVE  LinkedFront(l, e) \in Links /\ Alive(LinkedFront(l, e), S \union {e})
  <1>1. Nil \notin Nodes
    BY NilAssumption, BoundsAssumption DEF Nodes, Elements, Root
  <1> DEFINE l3 == Assign(l, e, 3)
             l4 == Assign(l3, e, 4)
             l5 == Assign(l4, e, 5)
  <1>2. e \in Nodes /\ Root \in Nodes
    BY DEF Nodes
  <1>3. l3 \in Links /\ l3.prev[e] = Root /\ Alive(l3, S)
    <2>1. l3 = SetPrev(l, e, Root)
      BY AssignIs
    <2> HIDE DEF l3
    <2>2. l3 \in Links /\ l3.prev[e] = Root
      BY <1>2, <2>1 DEF SetNext, SetPrev, Links
    <2> QED BY <1>2, <2>1, <2>2, SetAlive
  <1>4. l4 \in Links /\ Alive(l4, S \union {e})
    <2>1. l4 = SetNext(l3, e, l3.next[Root])
      BY AssignIs
    <2> HIDE DEF l3, l4
    <2>2. l3.next[Root] \in Nodes
      BY <1>2, <1>3 DEF Links, Alive
    <2>3. l4 \in Links /\ l4.next[e] = l3.next[Root] /\ l4.prev[e] = Root
      BY <1>2, <1>3, <2>1, <2>2 DEF SetNext, SetPrev, Links
    <2>4. Alive(l4, S) /\ l4.next[e] # Nil /\ l4.prev[e] # Nil
      BY <1>1, <1>2, <1>3, <2>1, <2>2, <2>3, SetAlive
    <2> QED BY <2>3, <2>4 DEF Alive
  <1>5. l5 \in Links /\ Alive(l5, S \union {e})
    <2> HIDE DEF l4
    <2> QED BY <1>4, AssignFacts
  <1>6. Assign(l5, e, 6) \in Links /\ Alive(Assign(l5, e, 6), S \union {e})
    <2> HIDE DEF l5
    <2> QED BY <1>5, AssignFacts
  <1> QED BY <1>6 DEF LinkedFront

\* A ring has no nil.
LEMMA RingIsAlive ==
    ASSUME NEW l, NEW S \in SUBSET Elements, RingOf(l, S)
    PROVE  Alive(l, S)
  <1>1. Nil \notin Nodes /\ S \union {Root} \subseteq Nodes
    BY NilAssumption, BoundsAssumption DEF Nodes, Elements, Root
  <1> DEFINE R == S \union {Root}
  <1>2. \A x \in R : l.next[x] \in R /\ l.prev[x] \in R
    BY DEF RingOf
  <1> QED BY <1>1, <1>2 DEF Alive

\* Without one of its elements a ring is a ring.
LEMMA UnlinkedRing ==
    ASSUME NEW l \in Links, NEW S \in SUBSET Elements, NEW e \in S, RingOf(l, S)
    PROVE  RingOf(Unlinked(l, e), S \ {e})
  <1> DEFINE R == S \union {Root}
             p == l.prev[e]
             n == l.next[e]
             m == Unlinked(l, e)
  <1>1. e # Root /\ R \subseteq Nodes /\ S \subseteq Nodes
    BY DEF Elements, Root, Nodes
  <1>2. /\ \A x \in R : /\ l.next[x] \in R /\ l.prev[x] \in R
                        /\ l.prev[l.next[x]] = x /\ l.next[l.prev[x]] = x
        /\ \A part \in SUBSET R :
            (Root \in part /\ \A x \in part : l.next[x] \in part) => part = R
    BY DEF RingOf
  <1> HIDE DEF R
  <1>3. e \in R /\ Root \in R /\ R \ {e} = (S \ {e}) \union {Root}
    BY <1>1 DEF R
  <1>4. n \in R /\ p \in R /\ n # e /\ p # e
    <2>1. n # e
      <3> SUFFICES ASSUME n = e PROVE FALSE
        OBVIOUS
      <3>1. \A x \in R \ {e} : l.next[x] \in R \ {e}
        BY <1>2, <1>3
      <3> QED BY <1>1, <1>2, <1>3, <3>1
    <2> QED BY <1>2, <1>3, <2>1
  <1>5. \A x \in Nodes : /\ m.next[x] = IF x = p THEN n ELSE l.next[x]
                         /\ m.prev[x] = IF x = n THEN p ELSE l.prev[x]
    <2> DEFINE l1 == Assign(l, e, 1)
    <2>1. l1 = SetNext(l, p, n) /\ m = Assign(l1, e, 2)
      BY AssignIs DEF Unlinked
    <2>2. m = SetPrev(l1, l1.next[e], l1.prev[e])
      BY <2>1, AssignIs
    <2>3. n \in Nodes /\ p \in Nodes /\ e \in Nodes
      BY <1>1, <1>4
    <2> HIDE DEF l1, m, n, p
    <2>4. /\ l1 \in Links
          /\ \A x \in Nodes : /\ l1.next[x] = IF x = p THEN n ELSE l.next[x]
                              /\ l1.prev[x] = l.prev[x]
      BY <2>1, <2>3 DEF SetNext, SetPrev, Links
    <2>5. l1.next[e] = n /\ l1.prev[e] = p
      BY <1>4, <2>3, <2>4 DEF n, p
    <2>6. \A x \in Nodes : /\ m.next[x] = l1.next[x]
                           /\ m.prev[x] = IF x = n THEN p ELSE l1.prev[x]
      BY <2>2, <2>3, <2>4, <2>5 DEF SetNext, SetPrev, Links
    <2> QED BY <2>4, <2>6
  <1>6. \A x \in R \ {e} :
            /\ m.next[x] = IF x = p THEN n ELSE l.next[x]
            /\ m.prev[x] = IF x = n THEN p ELSE l.prev[x]
    BY <1>1, <1>3, <1>5
  <1> HIDE DEF m
  <1>7. \A x \in R \ {e} :
            /\ m.next[x] \in R \ {e} /\ m.prev[x] \in R \ {e}
            /\ m.prev[m.next[x]] = x /\ m.next[m.prev[x]] = x
    BY <1>2, <1>3, <1>4, <1>6
  <1>8. ASSUME NEW part \in SUBSET (R \ {e}), Root \in part, \A x \in part : m.next[x] \in part
        PROVE  part = R \ {e}
    <2>1. CASE p \in part
      <3>1. n \in part
        BY <1>4, <1>6, <1>8, <2>1
      <3> DEFINE more == part \union {e}
      <3>2. l.next[e] \in more /\ l.next[p] \in more
        BY <1>2, <1>3, <3>1
      <3>3. \A x \in part : x # p => l.next[x] \in more
        BY <1>6, <1>8
      <3>4. more \in SUBSET R /\ Root \in more /\ \A x \in more : l.next[x] \in more
        BY <1>3, <1>8, <3>2, <3>3
      <3>5. more = R
        BY <1>2, <3>4
      <3> QED BY <1>8, <3>5
    <2>2. CASE p \notin part
      <3>1. \A x \in part : l.next[x] \in part
        BY <1>6, <1>8, <2>2
      <3>2. part = R
        BY <1>2, <1>8, <3>1
      <3> QED BY <1>3, <1>8, <3>2
    <2> QED BY <2>1, <2>2
  <1> DEFINE T == (S \ {e}) \union {Root}
  <1>9. /\ \A x \in T : /\ m.next[x] \in T /\ m.prev[x] \in T
                        /\ m.prev[m.next[x]] = x /\ m.next[m.prev[x]] = x
        /\ \A part \in SUBSET T :
            (Root \in part /\ \A x \in part : m.next[x] \in part) => part = T
    <2>1. T = R \ {e}
      BY <1>3
    <2> HIDE DEF T
    <2> QED BY <1>7, <1>8, <2>1
  <1> QED BY <1>9 DEF RingOf, m

\* With a new element behind the root it is one, too.
LEMMA LinkedRing ==
    ASSUME NEW l \in Links, NEW S \in SUBSET Elements, NEW e \in Elements \ S, RingOf(l, S)
    PROVE  RingOf(LinkedFront(l, e), S \union {e})
  <1> DEFINE R == S \union {Root}
             f == l.next[Root]
             m == LinkedFront(l, e)
  <1>1. e # Root /\ R \subseteq Nodes /\ e \in Nodes
    BY DEF Elements, Root, Nodes
  <1>2. /\ \A x \in R : /\ l.next[x] \in R /\ l.prev[x] \in R
                        /\ l.prev[l.next[x]] = x /\ l.next[l.prev[x]] = x
        /\ \A part \in SUBSET R :
            (Root \in part /\ \A x \in part : l.next[x] \in part) => part = R
    BY DEF RingOf
  <1> HIDE DEF R
  <1>3. e \notin R /\ Root \in R /\ R \union {e} = (S \union {e}) \union {Root} /\ f \in R
    BY <1>1, <1>2 DEF R
  <1>4. \A x \in Nodes :
            /\ m.next[x] = IF x = Root THEN e ELSE IF x = e THEN f ELSE l.next[x]
            /\ m.prev[x] = IF x = f THEN e ELSE IF x = e THEN Root ELSE l.prev[x]
    <2> DEFINE l3 == Assign(l, e, 3)
               l4 == Assign(l3, e, 4)
               l5 == Assign(l4, e, 5)
    <2>1. /\ l3 = SetPrev(l, e, Root)
          /\ l4 = SetNext(l3, e, l3.next[Root])
          /\ l5 = SetNext(l4, l4.prev[e], e)
          /\ m = Assign(l5, e, 6)
      BY AssignIs DEF LinkedFront
    <2>2. m = SetPrev(l5, l5.next[e], e)
      BY <2>1, AssignIs
    <2>3. Root \in Nodes /\ f \in Nodes
      BY <1>1, <1>3
    <2> HIDE DEF l3, l4, l5, m
    <2>4. l3 \in Links
          /\ \A x \in Nodes : l3.next[x] = l.next[x]
                              /\ l3.prev[x] = IF x = e THEN Root ELSE l.prev[x]
      BY <1>1, <2>1, <2>3 DEF SetNext, SetPrev, Links
    <2>5. l3.next[Root] = f
      BY <2>3, <2>4
    <2> HIDE DEF f
    <2>6. l4 \in Links
          /\ \A x \in Nodes : l4.next[x] = (IF x = e THEN f ELSE l3.next[x])
                              /\ l4.prev[x] = l3.prev[x]
      BY <1>1, <2>1, <2>3, <2>4, <2>5 DEF SetNext, SetPrev, Links
    <2>7. l4.prev[e] = Root
      BY <1>1, <2>4, <2>6
    <2>8. l5 \in Links
          /\ \A x \in Nodes : l5.next[x] = (IF x = Root THEN e ELSE l4.next[x])
                              /\ l5.prev[x] = l4.prev[x]
      BY <1>1, <2>1, <2>3, <2>6, <2>7 DEF SetNext, SetPrev, Links
    <2>9. l5.next[e] = f
      BY <1>1, <2>6, <2>8
    <2>10. \A x \in Nodes : m.next[x] = l5.next[x]
                            /\ m.prev[x] = IF x = f THEN e ELSE l5.prev[x]
      BY <1>1, <2>2, <2>3, <2>8, <2>9 DEF SetNext, SetPrev, Links
    <2> QED BY <2>4, <2>6, <2>8, <2>10
  <1>5. \A x \in R \union {e} :
            /\ m.next[x] = IF x = Root THEN e ELSE IF x = e THEN f ELSE l.next[x]
            /\ m.prev[x] = IF x = f THEN e ELSE IF x = e THEN Root ELSE l.prev[x]
    BY <1>1, <1>4
  <1> HIDE DEF m
  <1>6. \A x \in R \union {e} :
            /\ m.next[x] \in R \union {e} /\ m.prev[x] \in R \union {e}
            /\ m.prev[m.next[x]] = x /\ m.next[m.prev[x]] = x
    <2> HIDE DEF f
    <2>1. e # f /\ l.next[Root] = f /\ l.prev[f] = Root
      BY <1>2, <1>3 DEF f
    <2>2. m.next[Root] = e /\ m.prev[e] = Root /\ m.next[e] = f /\ m.prev[f] = e
      BY <1>1, <1>3, <1>5, <2>1
    <2>3. \A x \in R : x # Root => m.next[x] = l.next[x] /\ l.next[x] \in R /\ l.next[x] # f
      BY <1>2, <1>3, <1>5, <2>1
    <2>4. \A x \in R : x # f => m.prev[x] = l.prev[x] /\ l.prev[x] \in R /\ l.prev[x] # Root
      BY <1>2, <1>3, <1>5, <2>1
    <2>5. \A x \in R \union {e} : m.next[x] \in R \union {e} /\ m.prev[m.next[x]] = x
      BY <1>2, <1>3, <2>2, <2>3, <2>4
    <2>6. \A x \in R \union {e} : m.prev[x] \in R \union {e} /\ m.next[m.prev[x]] = x
      BY <1>2, <1>3, <2>2, <2>3, <2>4
    <2> QED BY <2>5, <2>6
  <1>7. ASSUME NEW part \in SUBSET (R \union {e}), Root \in part, \A x \in part : m.next[x] \in part
        PROVE  part = R \union {e}
    <2>1. e \in part
      BY <1>3, <1>5, <1>7
    <2>2. f \in part
      BY <1>1, <1>5, <1>7, <2>1
    <2>3. \A x \in part \ {e} : l.next[x] \in part \ {e}
      BY <1>2, <1>3, <1>5, <1>7, <2>2
    <2>4. part \ {e} = R
      BY <1>1, <1>2, <1>7, <2>3
    <2> QED BY <1>7, <2>1, <2>4
  <1> DEFINE T == (S \union {e}) \union {Root}
  <1>8. /\ \A x \in T : /\ m.next[x] \in T /\ m.prev[x] \in T
                        /\ m.prev[m.next[x]] = x /\ m.next[m.prev[x]] = x
        /\ \A part \in SUBSET T :
            (Root \in part /\ \A x \in part : m.next[x] \in part) => part = T
    <2>1. T = R \union {e}
      BY <1>3
    <2> HIDE DEF T
    <2> QED BY <1>6, <1>7, <2>1
  <1> QED BY <1>8 DEF RingOf, m

\* A whole move.
LEMMA MovedRing ==
    ASSUME NEW l \in Links, NEW S \in SUBSET Elements, NEW e \in S, RingOf(l, S)
    PROVE  LinkedFront(Unlinked(l, e), e) \in Links
           /\ RingOf(LinkedFront(Unlinked(l, e), e), S)
  <1>1. Unlinked(l, e) \in Links /\ Alive(Unlinked(l, e), S) /\ RingOf(Unlinked(l, e), S \ {e})
    BY UnlinkedFacts, UnlinkedRing, RingIsAlive
  <1>2. S = (S \ {e}) \union {e} /\ e \in Elements \ (S \ {e}) /\ S \ {e} \in SUBSET Elements
    OBVIOUS
  <1>3. RingOf(LinkedFront(Unlinked(l, e), e), (S \ {e}) \union {e})
    BY <1>1, <1>2, LinkedRing
  <1> QED BY <1>1, <1>2, <1>3, LinkedFacts

\* Links that agree on a set and the root lead through them alike.
LEMMA SameRing ==
    ASSUME NEW l, NEW m, NEW S,
           \A x \in S \union {Root} : m.next[x] = l.next[x] /\ m.prev[x] = l.prev[x]
    PROVE  (Alive(l, S) => Alive(m, S)) /\ (RingOf(l, S) => RingOf(m, S))
  <1> DEFINE R == S \union {Root}
  <1>1. \A x \in R : m.next[x] = l.next[x] /\ m.prev[x] = l.prev[x]
    OBVIOUS
  <1>2. Alive(l, S) => Alive(m, S)
    BY <1>1 DEF Alive
  <1>3. ASSUME RingOf(l, S)
        PROVE  RingOf(m, S)
    <2>1. \A x \in R : /\ l.next[x] \in R /\ l.prev[x] \in R
                       /\ l.prev[l.next[x]] = x /\ l.next[l.prev[x]] = x
      BY <1>3 DEF RingOf
    <2>2. \A part \in SUBSET R :
            (Root \in part /\ \A x \in part : l.next[x] \in part) => part = R
      BY <1>3 DEF RingOf
    <2> HIDE DEF R
    <2>3. \A x \in R : /\ m.next[x] \in R /\ m.prev[x] \in R
                       /\ m.prev[m.next[x]] = x /\ m.next[m.prev[x]] = x
      BY <1>1, <2>1
    <2>4. \A part \in SUBSET R :
            (Root \in part /\ \A x \in part : m.next[x] \in part) => part = R
      BY <1>1, <2>2
    <2> QED BY <2>3, <2>4 DEF RingOf, R
  <1> QED BY <1>2, <1>3

\* list.Remove: the ring without the element, whose own pointers are nil.
LEMMA RemovedFacts ==
    ASSUME links \in Links, NEW S \in SUBSET Elements, NEW e \in S, Alive(links, S)
    PROVE  /\ Removed(e) \in Links
           /\ Alive(Removed(e), S \ {e})
           /\ RingOf(links, S) => RingOf(Removed(e), S \ {e})
  <1> DEFINE u == Unlinked(links, e)
             m == Removed(e)
  <1>1. u \in Links /\ Alive(u, S)
    BY UnlinkedFacts
  <1>2. e \in Nodes
    BY DEF Nodes
  <1>3. m = [u EXCEPT !.next[e] = Nil, !.prev[e] = Nil]
    BY DEF Removed
  <1> HIDE DEF u, m
  <1>4. m \in Links
    BY <1>1, <1>2, <1>3 DEF Links
  <1>5. \A x \in Nodes : x # e => m.next[x] = u.next[x] /\ m.prev[x] = u.prev[x]
    BY <1>1, <1>2, <1>3 DEF Links
  <1>6. \A x \in (S \ {e}) \union {Root} : x \in Nodes /\ x # e
    BY DEF Nodes, Elements, Root
  <1>7. Alive(u, S \ {e})
    BY <1>1 DEF Alive
  <1>8. Alive(m, S \ {e})
    BY <1>5, <1>6, <1>7, SameRing
  <1>9. ASSUME RingOf(links, S)
        PROVE  RingOf(m, S \ {e})
    <2>1. RingOf(u, S \ {e})
      BY <1>9, UnlinkedRing DEF u
    <2> QED BY <1>5, <1>6, <2>1, SameRing
  <1> QED BY <1>4, <1>8, <1>9 DEF m

\* LRUCache.Get and Set: to the front.
LEMMA MovedFacts ==
    ASSUME links \in Links, NEW S \in SUBSET Elements, NEW e \in S, Alive(links, S)
    PROVE  /\ MovedToFront(e) \in Links
           /\ Alive(MovedToFront(e), S)
           /\ RingOf(links, S) => RingOf(MovedToFront(e), S)
  <1> DEFINE u == Unlinked(links, e)
  <1>1. u \in Links /\ Alive(u, S)
    BY UnlinkedFacts
  <1>2. LinkedFront(u, e) \in Links /\ Alive(LinkedFront(u, e), S \union {e})
    <2> HIDE DEF u
    <2> QED BY <1>1, LinkedFacts
  <1>3. S \union {e} = S
    OBVIOUS
  <1>4. RingOf(links, S) => RingOf(LinkedFront(u, e), S)
    BY MovedRing
  <1>5. MovedToFront(e) = links \/ MovedToFront(e) = LinkedFront(u, e)
    BY DEF MovedToFront
  <1> HIDE DEF u
  <1> QED BY <1>2, <1>3, <1>4, <1>5

-----------------------------------------------------------------------------
\* The links after the first n assignments of the move of e.
Partly(l, e, n) ==
    LET l1 == Assign(l, e, 1)
        l2 == Assign(l1, e, 2)
        l3 == Assign(l2, e, 3)
        l4 == Assign(l3, e, 4)
        l5 == Assign(l4, e, 5)
    IN CASE n = 1 -> l1 [] n = 2 -> l2 [] n = 3 -> l3 [] n = 4 -> l4 [] n = 5 -> l5
         [] n = 6 -> Assign(l5, e, 6)

Typed ==
    /\ links \in Links
    /\ sets \in 0..MaxSets /\ inList \subseteq 1..sets
    /\ length \in Int /\ nbytes \in Int
    /\ writing \in BOOLEAN /\ raced \in BOOLEAN
    /\ pc \in [Readers -> 0..7] /\ DOMAIN ele = Readers
    /\ DOMAIN keyToEntry = Keys /\ DOMAIN entry = Elements /\ DOMAIN last = Keys

\* Who evicts is alone, and who moves an element moves one of the list.
Guarded ==
    /\ writing => NobodyReads
    /\ \A r \in Readers : pc[r] # 0 => ele[r] \in inList

Moving(r) == pc[r] \in 2..6

\* The list has the elements the map knows, and is as long as it should be.
InMap == inList = Linked /\ length = Cardinality(Linked) /\ nbytes = Cardinality(Linked)

\* At most one goroutine is in the middle of a move.
Alone == \A r, s \in Readers : Moving(r) /\ Moving(s) => r = s

\* The links are a ring, but for the move under way.
Rung ==
    \E l \in Links :
        /\ RingOf(l, inList)
        /\ (\A r \in Readers : ~Moving(r)) => links = l
        /\ \A r \in Readers : Moving(r) => links = Partly(l, ele[r], pc[r] - 1)

\* As long as no two moves have overlapped.
Sound == ~raced => InMap /\ Alone /\ Rung

IInv == Typed /\ Guarded /\ NeverNil /\ MapHoldsLastSet /\ Sound

-----------------------------------------------------------------------------
\* What the invariant says of the links, in the terms of the lemmas above.
LEMMA LinksFacts ==
    ASSUME IInv
    PROVE  links \in Links /\ inList \in SUBSET Elements /\ Alive(links, inList)
  BY BoundsAssumption DEF IInv, Typed, NeverNil, Alive, Elements

\* The element a Set allocates is new.
LEMMA NewElement ==
    ASSUME IInv, MaySet
    PROVE  sets + 1 \in Elements \ inList /\ sets + 1 \in 1..MaxSets
  BY BoundsAssumption DEF IInv, Typed, MaySet, Elements

\* The keys of the map have different elements, all of them in the list.
LEMMA MapFacts ==
    ASSUME MapHoldsLastSet, NEW k \in Keys, keyToEntry[k] # Nil
    PROVE  /\ keyToEntry[k] \in inList
           /\ entry[keyToEntry[k]] = [key |-> k, value |-> last[k]]
           /\ \A h \in Keys : keyToEntry[h] = keyToEntry[k] => h = k
  <1>1. ASSUME NEW h \in Keys, keyToEntry[h] = keyToEntry[k]
        PROVE  entry[keyToEntry[h]].key = h
    <2>1. entry[keyToEntry[h]] = [key |-> h, value |-> last[h]]
      BY <1>1 DEF MapHoldsLastSet
    <2> QED BY <2>1
  <1>2. entry[keyToEntry[k]] = [key |-> k, value |-> last[k]]
    BY DEF MapHoldsLastSet
  <1>3. \A h \in Keys : keyToEntry[h] = keyToEntry[k] => h = k
    BY <1>1, <1>2
  <1> QED BY <1>2, <1>3 DEF MapHoldsLastSet

\* No step makes a pointer of a listed element, or of the root, nil.
LEMMA LinksStep ==
    ASSUME IInv, [Next]_vars
    PROVE  links' \in Links /\ inList' \in SUBSET Elements /\ Alive(links', inList')
  <1>1. links \in Links /\ inList \in SUBSET Elements /\ Alive(links, inList)
    BY LinksFacts
  <1>2. CASE UNCHANGED links /\ UNCHANGED inList
    BY <1>1, <1>2
  <1>3. ASSUME NEW r \in Readers, Move(r)
        PROVE  links' \in Links /\ inList' \in SUBSET Elements /\ Alive(links', inList')
    <2>1. pc[r] \in 1..6 /\ ele[r] \in inList
      BY <1>3 DEF Move, IInv, Guarded
    <2>2. links' = Assign(links, ele[r], pc[r]) /\ inList' = inList
      BY <1>3 DEF Move
    <2> QED BY <1>1, <2>1, <2>2, AssignFacts
  <1>4. ASSUME NEW k \in Keys, Update(k)
        PROVE  links' \in Links /\ inList' \in SUBSET Elements /\ Alive(links', inList')
    <2>1. keyToEntry[k] \in inList
      BY <1>4, MapFacts DEF Update, IInv
    <2>2. links' = MovedToFront(keyToEntry[k]) /\ inList' = inList
      BY <1>4 DEF Update
    <2> QED BY <1>1, <2>1, <2>2, MovedFacts
  <1>5. ASSUME NEW k \in Keys, Insert(k)
        PROVE  links' \in Links /\ inList' \in SUBSET Elements /\ Alive(links', inList')
    <2>1. links' = LinkedFront(links, sets + 1) /\ inList' = inList \union {sets + 1} /\ MaySet
      BY <1>5 DEF Insert, PushedFront
    <2>2. sets + 1 \in Elements
      BY <2>1, NewElement
    <2> QED BY <1>1, <2>1, <2>2, LinkedFacts
  <1>6. CASE Evict
    <2>1. CASE links.prev[Root] \in inList
      <3>1. links' = Removed(links.prev[Root]) /\ inList' = inList \ {links.prev[Root]}
        BY <1>6, <2>1 DEF Evict
      <3> QED BY <1>1, <2>1, <3>1, RemovedFacts
    <2>2. CASE links.prev[Root] \notin inList
      BY <1>2, <1>6, <2>2 DEF Evict, list
    <2> QED BY <2>1, <2>2
  <1> QED BY <1>2, <1>3, <1>4, <1>5, <1>6
          DEF Next, vars, list, GetMisses, GetFinds, Return, EvictPanics, Unlock

\* Each step keeps the types.
LEMMA TypedStep ==
    ASSUME IInv, [Next]_vars
    PROVE  Typed'
  <1>1. links' \in Links
    BY LinksStep
  <1>2. Typed
    BY DEF IInv
  <1>3. CASE UNCHANGED vars
    BY <1>1, <1>2, <1>3 DEF Typed, vars, list
  <1>4. ASSUME NEW r \in Readers, NEW k \in Keys, GetFinds(r, k)
        PROVE  Typed'
    BY <1>1, <1>2, <1>4 DEF Typed, GetFinds, list
  <1>5. ASSUME NEW r \in Readers, Move(r)
        PROVE  Typed'
    BY <1>1, <1>2, <1>5 DEF Typed, Move
  <1>6. ASSUME NEW r \in Readers, Return(r)
        PROVE  Typed'
    BY <1>1, <1>2, <1>6 DEF Typed, Return, list
  <1>7. ASSUME NEW k \in Keys, Update(k)
        PROVE  Typed'
    <2>1. sets + 1 \in 1..MaxSets
      BY <1>7, NewElement DEF Update
    <2> QED BY <1>1, <1>2, <1>7, <2>1 DEF Typed, Update
  <1>8. ASSUME NEW k \in Keys, Insert(k)
        PROVE  Typed'
    <2>1. sets + 1 \in 1..MaxSets
      BY <1>8, NewElement DEF Insert
    <2>2. inList' \subseteq 1..sets'
      BY <1>2, <1>8 DEF Typed, Insert
    <2> QED BY <1>1, <1>2, <1>8, <2>1, <2>2 DEF Typed, Insert
  <1>9. CASE Evict
    <2>1. /\ inList' \subseteq inList /\ length' \in Int /\ nbytes' \in Int
          /\ DOMAIN keyToEntry' = Keys
      BY <1>2, <1>9 DEF Typed, Evict, list
    <2> QED BY <1>1, <1>2, <1>9, <2>1 DEF Typed, Evict
  <1>10. CASE EvictPanics \/ Unlock
    BY <1>1, <1>2, <1>10 DEF Typed, EvictPanics, Unlock, list
  <1> QED BY <1>3, <1>4, <1>5, <1>6, <1>7, <1>8, <1>9, <1>10 DEF Next, GetMisses

\* No Set runs while a Get holds the read lock, and no element that a Get moves
\* leaves the list.
LEMMA GuardedStep ==
    ASSUME IInv, [Next]_vars
    PROVE  Guarded'
  <1>1. Guarded /\ Typed /\ MapHoldsLastSet
    BY DEF IInv
  <1>2. CASE UNCHANGED <<writing, pc, ele, inList>>
    BY <1>1, <1>2 DEF Guarded, NobodyReads
  <1>3. ASSUME NEW r \in Readers, NEW k \in Keys, GetFinds(r, k)
        PROVE  Guarded'
    <2>1. keyToEntry[k] \in inList
      BY <1>1, <1>3, MapFacts DEF GetFinds
    <2> QED BY <1>1, <1>3, <2>1 DEF Guarded, Typed, GetFinds, list
  <1>4. ASSUME NEW r \in Readers, Move(r)
        PROVE  Guarded'
    <2>1. ~NobodyReads
      BY <1>4 DEF Move, NobodyReads
    <2> QED BY <1>1, <1>4, <2>1 DEF Guarded, Typed, Move
  <1>5. ASSUME NEW r \in Readers, Return(r)
        PROVE  Guarded'
    <2>1. ~NobodyReads
      BY <1>5 DEF Return, NobodyReads
    <2> QED BY <1>1, <1>5, <2>1 DEF Guarded, Typed, Return, list
  <1>6. ASSUME NEW k \in Keys, Insert(k)
        PROVE  Guarded'
    BY <1>6 DEF Guarded, Insert, NobodyReads
  <1>7. CASE Evict
    BY <1>1, <1>7 DEF Guarded, Evict, NobodyReads
  <1>8. CASE EvictPanics \/ Unlock
    BY <1>1, <1>8 DEF Guarded, EvictPanics, Unlock, list
  <1> QED BY <1>2, <1>3, <1>4, <1>5, <1>6, <1>7, <1>8 DEF Next, GetMisses, Update, vars

\* The map goes on leading to the values last set.
LEMMA MapStep ==
    ASSUME IInv, [Next]_vars
    PROVE  MapHoldsLastSet'
  <1> DEFINE Held == \A k \in Keys : keyToEntry[k] # Nil =>
                        /\ keyToEntry[k] \in inList
                        /\ entry[keyToEntry[k]] = [key |-> k, value |-> last[k]]
             Found == \A r \in Readers : pc[r] # 0 => \E k \in Keys : ele[r] = keyToEntry[k]
  <1>0. MapHoldsLastSet <=> Held /\ Found
    BY DEF MapHoldsLastSet
  <1>1. Held /\ Found /\ Guarded /\ Typed
    BY <1>0 DEF IInv
  <1>2. ASSUME NobodyReads, pc' = pc
        PROVE  Found'
    BY <1>2 DEF NobodyReads
  <1>3. ASSUME UNCHANGED <<keyToEntry, inList, entry, last, pc, ele>>
        PROVE  Held' /\ Found'
    BY <1>1, <1>3
  <1>4. ASSUME NEW r \in Readers, NEW k \in Keys, GetFinds(r, k)
        PROVE  Held' /\ Found'
    BY <1>1, <1>4 DEF GetFinds, list, Typed
  <1>5. ASSUME NEW r \in Readers, Move(r)
        PROVE  Held' /\ Found'
    <2>1. pc[r] # 0 /\ UNCHANGED <<keyToEntry, inList, entry, last, ele>>
      BY <1>5 DEF Move
    <2>2. \A s \in Readers : pc'[s] # 0 => pc[s] # 0
      BY <1>1, <1>5, <2>1 DEF Move, Typed
    <2> QED BY <1>1, <2>1, <2>2
  <1>6. ASSUME NEW r \in Readers, Return(r)
        PROVE  Held' /\ Found'
    BY <1>1, <1>6 DEF Return, list, Typed
  <1>7. ASSUME NEW k \in Keys, Update(k)
        PROVE  Held' /\ Found'
    <2> DEFINE e == keyToEntry[k]
    <2>1. /\ e \in inList /\ entry[e] = [key |-> k, value |-> last[k]]
          /\ \A h \in Keys : keyToEntry[h] = e => h = k
      BY <1>7, MapFacts DEF IInv, Update
    <2>2. e \in DOMAIN entry
      BY <2>1, LinksFacts DEF IInv, Typed
    <2>3. /\ UNCHANGED <<keyToEntry, inList, pc>> /\ NobodyReads
          /\ entry' = [entry EXCEPT ![e].value = sets + 1]
          /\ last' = [last EXCEPT ![k] = sets + 1]
      BY <1>7 DEF Update
    <2> HIDE DEF e
    <2>4. entry'[e] = [key |-> k, value |-> sets + 1] /\ last'[k] = sets + 1
      BY <1>1, <2>1, <2>2, <2>3 DEF Typed
    <2>5. \A h \in Keys : h # k => last'[h] = last[h]
      BY <1>1, <2>3 DEF Typed
    <2>6. \A x : x \in DOMAIN entry /\ x # e => entry'[x] = entry[x]
      BY <2>3
    <2>7. ASSUME NEW h \in Keys, keyToEntry'[h] # Nil
          PROVE  /\ keyToEntry'[h] \in inList'
                 /\ entry'[keyToEntry'[h]] = [key |-> h, value |-> last'[h]]
      <3>1. keyToEntry[h] \in inList /\ entry[keyToEntry[h]] = [key |-> h, value |-> last[h]]
        BY <1>1, <2>3, <2>7
      <3>2. CASE h = k
        BY <2>3, <2>4, <3>1, <3>2 DEF e
      <3>3. CASE h # k
        <4>1. keyToEntry[h] # e
          BY <2>1, <3>3
        <4>2. keyToEntry[h] \in DOMAIN entry
          BY <3>1, LinksFacts DEF IInv, Typed
        <4> QED BY <2>3, <2>5, <2>6, <3>1, <3>3, <4>1, <4>2
      <3> QED BY <3>2, <3>3
    <2> QED BY <1>2, <2>3, <2>7
  <1>8. ASSUME NEW k \in Keys, Insert(k)
        PROVE  Held' /\ Found'
    <2> DEFINE e == sets + 1
    <2>1. e \in DOMAIN entry /\ e \notin inList
      BY <1>1, <1>8, NewElement DEF Insert, Typed
    <2>2. /\ inList' = inList \union {e} /\ pc' = pc /\ NobodyReads
          /\ keyToEntry' = [keyToEntry EXCEPT ![k] = e]
          /\ entry' = [entry EXCEPT ![e] = [key |-> k, value |-> e]]
          /\ last' = [last EXCEPT ![k] = e]
      BY <1>8 DEF Insert
    <2> HIDE DEF e
    <2>3. ASSUME NEW h \in Keys, keyToEntry'[h] # Nil
          PROVE  /\ keyToEntry'[h] \in inList'
                 /\ entry'[keyToEntry'[h]] = [key |-> h, value |-> last'[h]]
      <3>1. CASE h = k
        <4>1. keyToEntry'[h] = e /\ last'[h] = e
          BY <1>1, <2>2, <3>1 DEF Typed
        <4>2. entry'[e] = [key |-> k, value |-> e]
          BY <2>1, <2>2
        <4> QED BY <2>2, <3>1, <4>1, <4>2
      <3>2. CASE h # k
        <4>1. keyToEntry'[h] = keyToEntry[h] /\ last'[h] = last[h]
          BY <1>1, <2>2, <3>2 DEF Typed
        <4>2. /\ keyToEntry[h] \in inList
              /\ entry[keyToEntry[h]] = [key |-> h, value |-> last[h]]
          BY <1>1, <2>3, <4>1
        <4>3. entry'[keyToEntry[h]] = entry[keyToEntry[h]]
          <5>1. keyToEntry[h] \in DOMAIN entry /\ keyToEntry[h] # e
            BY <2>1, <4>2, LinksFacts DEF IInv, Typed
          <5> QED BY <2>2, <5>1
        <4> QED BY <2>2, <4>1, <4>2, <4>3
      <3> QED BY <3>1, <3>2
    <2> QED BY <1>2, <2>2, <2>3
  <1>9. ASSUME Evict
        PROVE  Held' /\ Found'
    <2> DEFINE e == links.prev[Root]
    <2>1. /\ NobodyReads /\ UNCHANGED <<entry, last, pc>>
          /\ keyToEntry' = [keyToEntry EXCEPT ![entry[e].key] = Nil]
          /\ inList' = inList \/ inList' = inList \ {e}
      BY <1>1, <1>9 DEF Evict, Guarded, list
    <2> HIDE DEF e
    <2>2. ASSUME NEW h \in Keys, keyToEntry'[h] # Nil
          PROVE  /\ keyToEntry'[h] \in inList'
                 /\ entry'[keyToEntry'[h]] = [key |-> h, value |-> last'[h]]
      <3>1. keyToEntry'[h] = keyToEntry[h] /\ h # entry[e].key
        BY <1>1, <2>1, <2>2 DEF Typed
      <3>2. /\ keyToEntry[h] \in inList
            /\ entry[keyToEntry[h]] = [key |-> h, value |-> last[h]]
        BY <1>1, <2>2, <3>1
      <3>3. keyToEntry[h] # e
        BY <3>1, <3>2
      <3> QED BY <2>1, <3>1, <3>2, <3>3
    <2> QED BY <1>2, <2>1, <2>2
  <1>10. MapHoldsLastSet' <=> Held' /\ Found'
    BY DEF MapHoldsLastSet
  <1> HIDE DEF Held, Found
  <1> QED BY <1>3, <1>4, <1>5, <1>6, <1>7, <1>8, <1>9, <1>10
          DEF Next, vars, list, GetMisses, EvictPanics, Unlock

\* Who has the list to itself finds a ring.
LEMMA QuietRing ==
    ASSUME Rung, NobodyReads
    PROVE  RingOf(links, inList)
  BY DEF Rung, NobodyReads, Moving

\* Elements are finitely many.
LEMMA LinkedFinite ==
    ASSUME IInv, ~raced
    PROVE  IsFiniteSet(Linked)
  <1>0. Linked = inList
    BY DEF IInv, Sound, InMap
  <1>1. Linked \subseteq 1..sets /\ sets \in Int
    BY <1>0, BoundsAssumption DEF IInv, Typed
  <1>2. IsFiniteSet(1..sets)
    BY <1>1, FS_Interval
  <1> QED BY <1>1, <1>2, FS_Subset

\* The list, the map and the counters change together.
LEMMA InMapStep ==
    ASSUME IInv, [Next]_vars, ~raced
    PROVE  InMap'
  <1>1. InMap /\ Rung /\ Typed /\ Guarded /\ MapHoldsLastSet
    BY DEF IInv, Sound
  <1>2. IsFiniteSet(Linked)
    BY LinkedFinite
  <1>3. CASE UNCHANGED <<inList, keyToEntry, length, nbytes>>
    BY <1>1, <1>3 DEF InMap, Linked
  <1>4. ASSUME NEW k \in Keys, Insert(k)
        PROVE  InMap'
    <2> DEFINE e == sets + 1
    <2>1. e \notin inList /\ e # Nil
      BY <1>4, NewElement, NilAssumption DEF Insert, Elements
    <2>2. /\ keyToEntry[k] = Nil
          /\ keyToEntry' = [keyToEntry EXCEPT ![k] = e] /\ inList' = inList \union {e}
          /\ length' = length + 1 /\ nbytes' = nbytes + 1
      BY <1>4 DEF Insert
    <2> HIDE DEF e
    <2>3. Linked' = Linked \union {e}
      BY <1>1, <2>1, <2>2 DEF Linked, Typed
    <2>4. Cardinality(Linked \union {e}) = Cardinality(Linked) + 1
      BY <1>1, <1>2, <2>1, FS_AddElement DEF InMap
    <2> QED BY <1>1, <2>2, <2>3, <2>4 DEF InMap
  <1>5. CASE Evict
    <2> DEFINE e == links.prev[Root]
    <2>1. e \in inList
      <3>1. RingOf(links, inList) /\ e # Root
        BY <1>1, <1>5, QuietRing DEF Evict, Guarded
      <3> QED BY <3>1 DEF RingOf
    <2>2. PICK k \in Keys : keyToEntry[k] = e
      BY <1>1, <2>1 DEF InMap, Linked
    <2>3. e # Nil
      BY <1>1, <2>1 DEF InMap, Linked
    <2>4. entry[e].key = k /\ \A h \in Keys : keyToEntry[h] = e => h = k
      <3>1. /\ entry[e] = [key |-> k, value |-> last[k]]
            /\ \A h \in Keys : keyToEntry[h] = e => h = k
        BY <1>1, <2>2, <2>3, MapFacts
      <3> QED BY <3>1
    <2>5. /\ keyToEntry' = [keyToEntry EXCEPT ![k] = Nil] /\ inList' = inList \ {e}
          /\ length' = length - 1 /\ nbytes' = nbytes - 1
      BY <1>5, <2>1, <2>4 DEF Evict
    <2> HIDE DEF e
    <2>6. Linked' = Linked \ {e}
      BY <1>1, <2>2, <2>3, <2>4, <2>5 DEF Linked, Typed
    <2>7. Cardinality(Linked \ {e}) = Cardinality(Linked) - 1
      BY <1>1, <1>2, <2>1, FS_RemoveElement DEF InMap
    <2> QED BY <1>1, <2>5, <2>6, <2>7 DEF InMap
  <1> QED BY <1>3, <1>4, <1>5
          DEF Next, vars, list, GetMisses, GetFinds, Move, Return, Update, EvictPanics, Unlock

\* Nobody in the middle of a move, and a ring.
LEMMA Settled ==
    ASSUME links' \in Links, RingOf(links', inList'), \A r \in Readers : ~Moving(r)'
    PROVE  Alone' /\ Rung'
  BY DEF Alone, Rung

\* Steps that begin or end no move and leave the links alone.
LEMMA SameMoves ==
    ASSUME Alone, Rung, links' = links, inList' = inList,
           \A r \in Readers : /\ Moving(r)' <=> Moving(r)
                              /\ Moving(r) => pc'[r] = pc[r] /\ ele'[r] = ele[r]
    PROVE  Alone' /\ Rung'
  <1>1. Alone'
    BY DEF Alone
  <1>2. PICK l \in Links :
            /\ RingOf(l, inList)
            /\ (\A r \in Readers : ~Moving(r)) => links = l
            /\ \A r \in Readers : Moving(r) => links = Partly(l, ele[r], pc[r] - 1)
    BY DEF Rung
  <1>3. /\ RingOf(l, inList')
        /\ (\A r \in Readers : ~Moving(r)') => links' = l
        /\ \A r \in Readers : Moving(r)' => links' = Partly(l, ele'[r], pc'[r] - 1)
    BY <1>2
  <1> QED BY <1>1, <1>3 DEF Rung

\* One move after another keeps the ring.
LEMMA RungStep ==
    ASSUME IInv, [Next]_vars, ~raced, ~raced'
    PROVE  Alone' /\ Rung'
  <1>1. Alone /\ Rung /\ Typed /\ Guarded
    BY DEF IInv, Sound
  <1>2. links \in Links /\ inList \in SUBSET Elements /\ Alive(links, inList)
    BY LinksFacts
  <1>3. CASE UNCHANGED <<links, inList, pc, ele>>
    BY <1>1, <1>3, SameMoves DEF Moving
  <1>4. ASSUME NEW r \in Readers, NEW k \in Keys, GetFinds(r, k)
        PROVE  Alone' /\ Rung'
    <2>1. links' = links /\ inList' = inList
      BY <1>4 DEF GetFinds, list
    <2>2. ASSUME NEW s \in Readers
          PROVE  /\ Moving(s)' <=> Moving(s)
                 /\ Moving(s) => pc'[s] = pc[s] /\ ele'[s] = ele[s]
      BY <1>1, <1>4 DEF GetFinds, Moving, Typed
    <2> QED BY <1>1, <2>1, <2>2, SameMoves
  <1>5. ASSUME NEW r \in Readers, Return(r)
        PROVE  Alone' /\ Rung'
    <2>1. links' = links /\ inList' = inList
      BY <1>5 DEF Return, list
    <2>2. ASSUME NEW s \in Readers
          PROVE  /\ Moving(s)' <=> Moving(s)
                 /\ Moving(s) => pc'[s] = pc[s] /\ ele'[s] = ele[s]
      BY <1>1, <1>5 DEF Return, Moving, Typed
    <2> QED BY <1>1, <2>1, <2>2, SameMoves
  <1>6. ASSUME NEW r \in Readers, Move(r)
        PROVE  Alone' /\ Rung'
    <2> DEFINE e == ele[r]
    <2>1. \A s \in Readers \ {r} : ~Moving(s)
      BY <1>6 DEF Move, Moving
    <2>2. /\ pc[r] \in 1..6 /\ e \in inList /\ inList' = inList /\ ele' = ele
          /\ links' = Assign(links, e, pc[r])
          /\ pc'[r] = pc[r] + 1 /\ \A s \in Readers \ {r} : pc'[s] = pc[s]
      BY <1>1, <1>6 DEF Move, Guarded, Typed
    <2>3. \A s \in Readers \ {r} : ~Moving(s)'
      BY <2>1, <2>2 DEF Moving
    <2>4. links' \in Links
      BY LinksStep
    <2>5. PICK l \in Links :
            /\ RingOf(l, inList)
            /\ (\A s \in Readers : ~Moving(s)) => links = l
            /\ \A s \in Readers : Moving(s) => links = Partly(l, ele[s], pc[s] - 1)
      BY <1>1 DEF Rung
    <2>6. ASSUME pc[r] # 6, links' = Partly(l, e, pc[r])
          PROVE  Alone' /\ Rung'
      <3>1. pc'[r] - 1 = pc[r] /\ Moving(r)'
        BY <2>2, <2>6 DEF Moving
      <3>2. Alone'
        BY <2>3 DEF Alone
      <3>3. \A s \in Readers : Moving(s)' => links' = Partly(l, ele'[s], pc'[s] - 1)
        BY <2>2, <2>3, <2>6, <3>1
      <3> QED BY <2>2, <2>5, <3>1, <3>2, <3>3 DEF Rung
    <2>7. CASE pc[r] = 1
      <3>1. links = l
        BY <2>1, <2>5, <2>7 DEF Moving
      <3>2. links' = Partly(l, e, 1)
        BY <2>2, <2>7, <3>1 DEF Partly
      <3> QED BY <2>6, <2>7, <3>2
    <2>8. CASE pc[r] \in 2..5
      <3>1. links = Partly(l, e, pc[r] - 1)
        BY <2>5, <2>8 DEF Moving
      <3>2. pc[r] = 2 \/ pc[r] = 3 \/ pc[r] = 4 \/ pc[r] = 5
        BY <2>8
      <3>3. links' = Partly(l, e, pc[r])
        BY <2>2, <3>1, <3>2 DEF Partly
      <3> QED BY <2>6, <3>2, <3>3
    <2>9. CASE pc[r] = 6
      <3>1. links = Partly(l, e, 5)
        BY <2>5, <2>9 DEF Moving
      <3>2. links' = LinkedFront(Unlinked(l, e), e)
        BY <2>2, <2>9, <3>1 DEF Partly, LinkedFront, Unlinked
      <3>3. RingOf(links', inList')
        BY <1>2, <2>2, <2>5, <3>2, MovedRing
      <3>4. \A s \in Readers : ~Moving(s)'
        BY <2>2, <2>3, <2>9 DEF Moving
      <3> QED BY <2>4, <3>3, <3>4, Settled
    <2> QED BY <2>2, <2>7, <2>8, <2>9
  <1>7. ASSUME NEW k \in Keys, Update(k)
        PROVE  Alone' /\ Rung'
    <2>1. /\ links' = MovedToFront(keyToEntry[k]) /\ inList' = inList
          /\ keyToEntry[k] # Nil /\ NobodyReads /\ pc' = pc
      BY <1>7 DEF Update
    <2>2. keyToEntry[k] \in inList
      BY <2>1, MapFacts DEF IInv
    <2>3. links' \in Links /\ RingOf(links', inList')
      BY <1>1, <1>2, <2>1, <2>2, QuietRing, MovedFacts
    <2> QED BY <2>1, <2>3, Settled DEF Moving, NobodyReads
  <1>8. ASSUME NEW k \in Keys, Insert(k)
        PROVE  Alone' /\ Rung'
    <2>1. /\ links' = LinkedFront(links, sets + 1) /\ inList' = inList \union {sets + 1}
          /\ MaySet /\ NobodyReads /\ pc' = pc
      BY <1>8 DEF Insert, PushedFront
    <2>2. sets + 1 \in Elements \ inList
      BY <2>1, NewElement
    <2>3. RingOf(links', inList')
      BY <1>1, <1>2, <2>1, <2>2, QuietRing, LinkedRing
    <2> QED BY <2>1, <2>3, LinksStep, Settled DEF Moving, NobodyReads
  <1>9. CASE Evict
    <2> DEFINE e == links.prev[Root]
    <2>1. NobodyReads /\ pc' = pc /\ e # Root
      BY <1>1, <1>9 DEF Evict, Guarded
    <2>2. RingOf(links, inList)
      BY <1>1, <2>1, QuietRing
    <2>3. e \in inList
      BY <2>1, <2>2 DEF RingOf
    <2>4. links' = Removed(e) /\ inList' = inList \ {e}
      BY <1>9, <2>3 DEF Evict
    <2>5. links' \in Links /\ RingOf(links', inList')
      BY <1>2, <2>2, <2>3, <2>4, RemovedFacts
    <2> QED BY <2>1, <2>5, Settled DEF Moving, NobodyReads
  <1> QED BY <1>3, <1>4, <1>5, <1>6, <1>7, <1>8, <1>9
          DEF Next, vars, list, GetMisses, EvictPanics, Unlock

\* Until two moves have overlapped, the list is sound.
LEMMA SoundStep ==
    ASSUME IInv, [Next]_vars
    PROVE  Sound'
  <1>1. raced => raced'
    BY DEF Next, vars, GetMisses, GetFinds, Move, Return, Update, Insert, Evict,
           EvictPanics, Unlock
  <1> QED BY <1>1, InMapStep, RungStep DEF Sound

\* The empty cache satisfies the invariant.
LEMMA InitIInv ==
    ASSUME Init
    PROVE  IInv
  <1>1. Typed
    <2>1. sets \in 0..MaxSets /\ inList \subseteq 1..sets
      BY BoundsAssumption DEF Init
    <2>2. links \in Links
      <3> DEFINE start == [x \in Nodes |-> IF x = Root THEN Root ELSE Nil]
      <3>1. start \in [Nodes -> Nodes \union {Nil}]
        BY DEF Nodes
      <3>2. links = [next |-> start, prev |-> start]
        BY DEF Init, Nodes
      <3> HIDE DEF start
      <3> QED BY <3>1, <3>2 DEF Links
    <2>3. writing \in BOOLEAN /\ raced \in BOOLEAN
      BY DEF Init
    <2>4. /\ length \in Int /\ nbytes \in Int /\ pc \in [Readers -> 0..7]
          /\ DOMAIN ele = Readers /\ DOMAIN keyToEntry = Keys
          /\ DOMAIN entry = Elements /\ DOMAIN last = Keys
      BY DEF Init
    <2> QED BY <2>1, <2>2, <2>3, <2>4 DEF Typed
  <1>2. Guarded /\ MapHoldsLastSet
    BY DEF Init, Guarded, NobodyReads, MapHoldsLastSet
  <1>3. links.next[Root] = Root /\ links.prev[Root] = Root /\ inList = {}
    BY DEF Init
  <1>4. NeverNil
    BY <1>3, NilAssumption DEF NeverNil, Root
  <1>5. RingOf(links, inList)
    BY <1>3 DEF RingOf
  <1>6. \A r \in Readers : ~Moving(r)
    BY DEF Init, Moving
  <1>7. Linked = {}
    BY DEF Init, Linked
  <1>8. InMap
    BY <1>7, FS_EmptySet DEF InMap, Init
  <1>9. Alone /\ Rung
    BY <1>1, <1>5, <1>6 DEF Alone, Rung, Typed
  <1> QED BY <1>1, <1>2, <1>4, <1>8, <1>9 DEF IInv, Sound

\* Every step keeps the invariant.
LEMMA NextIInv ==
    ASSUME IInv, [Next]_vars
    PROVE  IInv'
  <1>1. NeverNil'
    BY LinksStep DEF NeverNil, Alive
  <1> QED BY <1>1, TypedStep, GuardedStep, MapStep, SoundStep DEF IInv

\* Every reachable state satisfies it.
LEMMA Invariance == Spec => []IInv
  BY InitIInv, NextIInv, PTL DEF Spec

\* A move never goes through a nil pointer, however many of them overlap: the
\* write lock keeps an element in the list while somebody moves it.
THEOREM NoMoveMeetsNil == Spec => []NeverNil
  <1>1. IInv => NeverNil
    BY DEF IInv
  <1> QED BY <1>1, Invariance, PTL

\* A Get returns the value last set for its key, although the moves of other
\* Gets break the list (Cache.go:29-53).
THEOREM GetReturnsLastSet == Spec => []MapHoldsLastSet
  <1>1. IInv => MapHoldsLastSet
    BY DEF IInv
  <1> QED BY <1>1, Invariance, PTL

\* Gets that do not overlap leave the list a ring of the elements of the map, in
\* both directions and of the length the cache counts.
THEOREM LoneGetsAreSafe == Spec => []RingWhole
  <1>1. ASSUME IInv
        PROVE  RingWhole
    <2> SUFFICES ASSUME ~raced, NobodyReads
                 PROVE  /\ \A e \in Ring : /\ links.next[e] \in Ring
                                           /\ links.prev[links.next[e]] = e
                        /\ \A part \in SUBSET Ring :
                            (Root \in part /\ \A e \in part : links.next[e] \in part)
                                => part = Ring
                        /\ length = Cardinality(Linked) /\ nbytes = Cardinality(Linked)
      BY DEF RingWhole, Whole
    <2>1. InMap /\ Rung
      BY <1>1 DEF IInv, Sound
    <2>2. Ring = inList \union {Root} /\ RingOf(links, inList)
      BY <2>1, QuietRing DEF InMap, Ring
    <2> QED BY <2>1, <2>2 DEF InMap, RingOf
  <1> QED BY <1>1, Invariance, PTL

=============================================================================
