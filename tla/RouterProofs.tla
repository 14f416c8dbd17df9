---------------------------- MODULE RouterProofs ----------------------------
(***************************************************************************)
(* Proofs about Router and RouteSearch, for every set of methods, segments,*)
(* patterns, handlers and requests: what the run checks holds of Spec.     *)
(*                                                                         *)
(* The argument: a walk that is not refused only meets nodes that carry    *)
(* the texts of its own segments (TreeInv says which text a node has), so  *)
(* the route it writes again is the route that was there, and old nodes do *)
(* not change (WalkKeeps).  The rest is that a new node has no handler.    *)
(*                                                                         *)
(* Of the lookup: what a call of BackSearchChild returns (Settles) follows *)
(* from what the calls it makes return, along its loop, because behind a   *)
(* child of no better kind there is no better node (KindDecides).          *)
(***************************************************************************)
EXTENDS RouteSearch, SequenceTheorems, FiniteSetTheorems, WellFoundedInduction, TLAPS

TreeType(tree) ==
    /\ tree = [p \in DOMAIN tree |-> tree[p]]
    /\ \A p \in DOMAIN tree : p \in Seq(Slots) /\ tree[p] \in Node

\* RouteSpellsPath of one tree.
TreeSpells(tree) ==
    \A p \in DOMAIN tree :
        /\ Root \in DOMAIN tree
        /\ Len(tree[p].route) = Len(p)
        /\ \A i \in 1..Len(p) :
            /\ SubSeq(p, 1, i) \in DOMAIN tree
            /\ tree[SubSeq(p, 1, i)].path = tree[p].route[i]

\* The slot of a static or star child says what its text is: why these kinds
\* need no conflict check.
TextFitsSlot(tree) ==
    \A p \in DOMAIN tree :
        p # Root =>
            /\ p[Len(p)].typ = "static" => tree[p].path = p[Len(p)].key
            /\ p[Len(p)].typ = "star" => tree[p].path = "*"

\* There is one slot for a parameter and one for a star.
Keyless(slot) == slot.typ \in {"param", "star"} => slot.key = ""

\* The trees are finite, and a node has at most one child of these kinds.
OneOfAKind(tree) ==
    /\ IsFiniteSet(DOMAIN tree)
    /\ \A p \in DOMAIN tree : \A i \in 1..Len(p) : Keyless(p[i])

TreeInv(tree) ==
    TreeType(tree) /\ TreeSpells(tree) /\ TextFitsSlot(tree) /\ OneOfAKind(tree)

RegisteredType ==
    registered \subseteq
        [method: Methods, segs: Seq(Segs), handlefunc: HandleFuncs]

\* The inductive invariant.
IInv ==
    /\ DOMAIN trees = Methods
    /\ \A m \in Methods : TreeInv(trees[m])
    /\ RegisteredType
    /\ HandlersExact

AllSegs == Segs \union {EmptySeg}

-----------------------------------------------------------------------------
(* Positions.                                                              *)

\* A segment's slot is a slot, and its path and name are strings.
LEMMA SlotType == \A s \in AllSegs : Slot(s) \in Slots /\ s.path \in Texts
                                     /\ s.paramName \in Texts /\ s.typ \in NodeTypes
  <1> TAKE s \in AllSegs
  <1>1. /\ s.typ \in NodeTypes /\ s.path \in Texts /\ s.expr \in Texts
        /\ s.paramName \in Texts
    <2>1. CASE s \in Segs
      BY <2>1, SegsAssumption
    <2>2. CASE s = EmptySeg
      BY <2>2, TextsAssumption DEF EmptySeg, NodeTypes
    <2> QED BY <2>1, <2>2 DEF AllSegs
  <1> DEFINE key == CASE s.typ = "static" -> s.path
                      [] s.typ = "regexp" -> s.expr
                      [] OTHER -> ""
  <1>2. key \in Texts
    BY <1>1, TextsAssumption
  <1>3. Slot(s) = [typ |-> s.typ, key |-> key]
    BY DEF Slot
  <1> HIDE DEF key
  <1> QED BY <1>1, <1>2, <1>3 DEF Slots

\* Only static and regexp children are found by a key.
LEMMA SlotKeyless == \A seg : Keyless(Slot(seg))
  BY Zenon DEF Keyless, Slot

\* The position of the first n segments has n slots, its prefixes are the
\* positions of the shorter walks, and it determines n.
LEMMA PositionFacts ==
  ASSUME NEW segs \in Seq(AllSegs), NEW n \in 0..Len(segs)
  PROVE  /\ Position(segs, n) \in Seq(Slots)
         /\ Len(Position(segs, n)) = n
         /\ \A i \in 1..n : SubSeq(Position(segs, n), 1, i) = Position(segs, i)
         /\ \A i \in 1..n : Position(segs, n)[i] = Slot(segs[i])
         /\ RouteText(segs, n) \in Seq(Texts)
         /\ Len(RouteText(segs, n)) = n
  <1>1. \A i \in 1..n : segs[i] \in AllSegs
    OBVIOUS
  <1>2. /\ Position(segs, n) \in Seq(Slots)
        /\ Len(Position(segs, n)) = n
    BY <1>1, SlotType DEF Position
  <1>3. ASSUME NEW i \in 1..n
        PROVE  SubSeq(Position(segs, n), 1, i) = Position(segs, i)
    BY <1>2 DEF Position
  <1>4. \A i \in 1..n : Position(segs, n)[i] = Slot(segs[i])
    BY DEF Position
  <1>5. RouteText(segs, n) \in Seq(Texts) /\ Len(RouteText(segs, n)) = n
    BY <1>1, SlotType DEF RouteText
  <1> QED BY <1>2, <1>3, <1>4, <1>5

\* The positions on the walk's way.
LEMMA WayFacts ==
  ASSUME NEW segs \in Seq(AllSegs), NEW n \in 0..Len(segs),
         NEW p \in {Position(segs, i) : i \in 1..n}
  PROVE  /\ Len(p) \in 1..n /\ Len(p) \in 0..Len(segs)
         /\ p = Position(segs, Len(p))
         /\ p \in Seq(Slots) /\ p # Root
  <1>1. PICK i \in 1..n : p = Position(segs, i)
    OBVIOUS
  <1>2. i \in 0..Len(segs)
    OBVIOUS
  <1>3. Len(p) = i /\ p \in Seq(Slots)
    BY <1>1, <1>2, PositionFacts
  <1> QED BY <1>1, <1>2, <1>3 DEF Root

\* The root of a tree.
LEMMA RootFacts ==
  /\ Root \in Seq(Slots) /\ Len(Root) = 0
  /\ RootNode \in Node /\ RootNode.handlefunc = Nil /\ Len(RootNode.route) = 0
  <1>1. Root \in Seq(Slots) /\ Len(Root) = 0
    BY EmptySeq DEF Root
  <1>2. <<>> \in Seq(Texts)
    BY EmptySeq
  <1>3. "/" \in Texts /\ "" \in Texts
    BY TextsAssumption
  <1>4. RootNode.route = <<>> /\ RootNode.handlefunc = Nil
    BY DEF RootNode
  <1>5. RootNode \in Node
    BY <1>2, <1>3 DEF RootNode, Node
  <1>6. Len(RootNode.route) = 0
    BY <1>4
  <1> QED BY <1>1, <1>4, <1>5, <1>6

-----------------------------------------------------------------------------
(* One walk.                                                               *)

\* A node that a walk meets carries the text of the walk's segment.
LEMMA WalkMeetsItsTexts ==
  ASSUME NEW tree, TreeInv(tree),
         NEW segs \in Seq(AllSegs), NEW n \in 0..Len(segs),
         \A i \in 1..n : ~Refuses(tree, segs, i),
         NEW i \in 1..n, Position(segs, i) \in DOMAIN tree
  PROVE  tree[Position(segs, i)].path = segs[i].path
  <1> DEFINE p == Position(segs, i)
  <1>1. segs[i] \in Segs
    BY DEF Refuses, AllSegs
  <1>2. i \in 0..Len(segs)
    OBVIOUS
  <1>3. Len(p) = i /\ p[Len(p)] = Slot(segs[i]) /\ p # Root
    BY <1>2, PositionFacts DEF Root
  <1>4. CASE segs[i].typ \in {"regexp", "param"}
    BY <1>4 DEF Refuses, Conflicts
  <1>5. CASE segs[i].typ = "static"
    <2>1. Slot(segs[i]).typ = "static" /\ Slot(segs[i]).key = segs[i].path
      BY <1>5 DEF Slot
    <2> QED BY <2>1, <1>3 DEF TreeInv, TextFitsSlot
  <1>6. CASE segs[i].typ = "star"
    <2>1. Slot(segs[i]).typ = "star" /\ segs[i].path = "*"
      BY <1>1, <1>6, SegsAssumption DEF Slot
    <2> QED BY <2>1, <1>3 DEF TreeInv, TextFitsSlot
  <1> QED BY <1>1, <1>4, <1>5, <1>6, SegsAssumption DEF NodeTypes

\* So its route is the one the walk writes.
LEMMA WalkMeetsItsRoute ==
  ASSUME NEW tree, TreeInv(tree),
         NEW segs \in Seq(AllSegs), NEW n \in 0..Len(segs),
         \A i \in 1..n : ~Refuses(tree, segs, i),
         NEW i \in 1..n, Position(segs, i) \in DOMAIN tree
  PROVE  tree[Position(segs, i)].route = RouteText(segs, i)
  <1> DEFINE p == Position(segs, i)
             route == tree[p].route
  <1>1. i \in 0..Len(segs)
    OBVIOUS
  <1>2. /\ Len(p) = i /\ \A j \in 1..i : SubSeq(p, 1, j) = Position(segs, j)
        /\ RouteText(segs, i) \in Seq(Texts) /\ Len(RouteText(segs, i)) = i
    BY <1>1, PositionFacts
  <1>3. route \in Seq(Texts) /\ Len(route) = i
    BY <1>2 DEF TreeInv, TreeType, TreeSpells, Node
  <1>4. ASSUME NEW j \in 1..i
        PROVE  route[j] = segs[j].path
    <2>1. Position(segs, j) \in DOMAIN tree /\ tree[Position(segs, j)].path = route[j]
      <3>1. p \in DOMAIN tree /\ j \in 1..Len(p) /\ SubSeq(p, 1, j) = Position(segs, j)
        BY <1>2
      <3> HIDE DEF p
      <3>2. SubSeq(p, 1, j) \in DOMAIN tree /\ tree[SubSeq(p, 1, j)].path = tree[p].route[j]
        BY <3>1 DEF TreeInv, TreeSpells
      <3> QED BY <3>1, <3>2
    <2>2. tree[Position(segs, j)].path = segs[j].path
      BY <2>1, WalkMeetsItsTexts
    <2> QED BY <2>1, <2>2
  <1>5. \A j \in 1..i : RouteText(segs, i)[j] = segs[j].path
    BY DEF RouteText
  <1> DEFINE text == RouteText(segs, i)
  <1>6. /\ route \in Seq(Texts) /\ text \in Seq(Texts) /\ Len(route) = Len(text)
        /\ \A j \in 1..Len(route) : route[j] = text[j]
    <2>1. Len(route) = i /\ Len(text) = i /\ i \in Nat
      BY <1>2, <1>3
    <2>2. \A j \in 1..i : route[j] = text[j]
      BY <1>4, <1>5
    <2> QED BY <1>2, <1>3, <2>1, <2>2
  <1> HIDE DEF route, text
  <1>7. route = text
    BY ONLY <1>6, SeqEqual
  <1> QED BY <1>7 DEF route, text

\* A walk that is not refused leaves every node there was as it was, and the
\* nodes it makes have no handler.
LEMMA WalkKeeps ==
  ASSUME NEW tree, TreeInv(tree),
         NEW segs \in Seq(AllSegs), NEW n \in 0..Len(segs),
         \A i \in 1..n : ~Refuses(tree, segs, i)
  PROVE  LET new == Walked(tree, segs, n) IN
         /\ Position(segs, n) \in DOMAIN new
         /\ \A p \in DOMAIN tree : p \in DOMAIN new /\ new[p] = tree[p]
         /\ \A p \in DOMAIN new \ DOMAIN tree : new[p].handlefunc = Nil
         /\ \A i \in 1..n : Position(segs, i) \notin DOMAIN tree =>
                new[Position(segs, i)] =
                    [NewNode(segs[i]) EXCEPT !.route = RouteText(segs, i)]
         /\ Root \notin DOMAIN tree => new[Root] = RootNode
         /\ TreeInv(new)
  <1> DEFINE way == {Position(segs, i) : i \in 1..n}
             new == Walked(tree, segs, n)
  <1>1. Position(segs, 0) = Root
    BY DEF Position, Root
  <1>2. Position(segs, n) \in way \union {Root}
    <2>1. CASE n = 0
      BY <1>1, <2>1
    <2>2. CASE n \in 1..n
      BY <2>2
    <2> QED BY <2>1, <2>2
  <1>3. Root \notin way
    BY WayFacts
  <1>4. DOMAIN new = DOMAIN tree \union way \union {Root}
    BY DEF Walked
  <1>5. ASSUME NEW p \in DOMAIN tree PROVE new[p] = tree[p]
    <2>1. CASE p \in way
      <3>1. new[p] = [tree[p] EXCEPT !.route = RouteText(segs, Len(p))]
        BY <2>1 DEF Walked
      <3>2. Len(p) \in 1..n /\ p = Position(segs, Len(p))
        BY <2>1, WayFacts
      <3>3. tree[p].route = RouteText(segs, Len(p))
        BY <3>2, WalkMeetsItsRoute
      <3>4. tree[p] \in Node
        BY DEF TreeInv, TreeType
      <3> QED BY <3>1, <3>3, <3>4 DEF Node
    <2>2. CASE p \notin way
      BY <2>2 DEF Walked
    <2> QED BY <2>1, <2>2
  <1>6. ASSUME NEW i \in 1..n, Position(segs, i) \notin DOMAIN tree
        PROVE  new[Position(segs, i)] =
                   [NewNode(segs[i]) EXCEPT !.route = RouteText(segs, i)]
    <2>1. Position(segs, i) \in way /\ i \in 0..Len(segs)
      OBVIOUS
    <2>2. Len(Position(segs, i)) = i
      BY <2>1, PositionFacts
    <2> QED BY <1>6, <2>1, <2>2 DEF Walked
  <1>7. Root \notin DOMAIN tree => new[Root] = RootNode
    BY <1>3 DEF Walked
  <1>8. ASSUME NEW p \in DOMAIN new \ DOMAIN tree
        PROVE  new[p].handlefunc = Nil
    <2>1. CASE p \in way
      <3>1. PICK i \in 1..n : p = Position(segs, i)
        BY <2>1
      <3> QED BY <1>6, <3>1 DEF NewNode
    <2>2. CASE p = Root
      BY <2>2, <1>7, RootFacts
    <2> QED BY <1>4, <2>1, <2>2
  <1>9. ASSUME NEW i \in 1..n
        PROVE  /\ Position(segs, i) \in DOMAIN new
               /\ new[Position(segs, i)].path = segs[i].path
    <2>1. CASE Position(segs, i) \in DOMAIN tree
      BY <1>4, <1>5, <2>1, WalkMeetsItsTexts
    <2>2. CASE Position(segs, i) \notin DOMAIN tree
      BY <1>4, <1>6, <2>2 DEF NewNode
    <2> QED BY <2>1, <2>2
  <1>10. TreeType(new)
    <2>1. new = [p \in DOMAIN new |-> new[p]]
      BY DEF Walked
    <2>2. ASSUME NEW p \in DOMAIN tree
          PROVE  p \in Seq(Slots) /\ new[p] \in Node
      BY <1>5 DEF TreeInv, TreeType
    <2>3. ASSUME NEW i \in 1..n, Position(segs, i) \notin DOMAIN tree
          PROVE  Position(segs, i) \in Seq(Slots) /\ new[Position(segs, i)] \in Node
      <3>1. i \in 0..Len(segs) /\ segs[i] \in AllSegs
        OBVIOUS
      <3>2. Position(segs, i) \in Seq(Slots) /\ RouteText(segs, i) \in Seq(Texts)
        BY <3>1, PositionFacts
      <3>3. segs[i].path \in Texts /\ segs[i].paramName \in Texts
        BY <3>1, SlotType
      <3> QED BY <1>6, <2>3, <3>2, <3>3 DEF NewNode, Node
    <2>4. Root \in Seq(Slots) /\ RootNode \in Node
      BY RootFacts
    <2> HIDE DEF new
    <2> QED BY <1>4, <1>7, <2>1, <2>2, <2>3, <2>4 DEF TreeType
  <1>11. TreeSpells(new)
    <2>1. SUFFICES ASSUME NEW p \in DOMAIN new
                   PROVE  /\ Len(new[p].route) = Len(p)
                          /\ \A i \in 1..Len(p) :
                              /\ SubSeq(p, 1, i) \in DOMAIN new
                              /\ new[SubSeq(p, 1, i)].path = new[p].route[i]
      BY <1>4 DEF TreeSpells
    <2> HIDE DEF new
    <2>2. CASE p \in DOMAIN tree
      BY <1>4, <1>5, <2>2 DEF TreeInv, TreeSpells
    <2>3. CASE p \in way /\ p \notin DOMAIN tree
      <3>1. PICK i \in 1..n : p = Position(segs, i)
        BY <2>3
      <3>2. new[p].route = RouteText(segs, i)
        BY <1>6, <2>3, <3>1 DEF NewNode
      <3>3. i \in 0..Len(segs)
        OBVIOUS
      <3>4. /\ Len(p) = i /\ Len(RouteText(segs, i)) = i
            /\ \A j \in 1..i : SubSeq(p, 1, j) = Position(segs, j)
        BY <3>1, <3>3, PositionFacts
      <3>5. \A j \in 1..i : RouteText(segs, i)[j] = segs[j].path
        BY DEF RouteText
      <3>6. \A j \in 1..i : j \in 1..n
        OBVIOUS
      <3> QED BY <1>9, <3>2, <3>4, <3>5, <3>6
    <2>4. CASE p = Root /\ p \notin DOMAIN tree
      <3>1. new[p] = RootNode
        BY <1>7, <2>4
      <3> QED BY <2>4, <3>1, RootFacts
    <2> QED BY <1>4, <2>2, <2>3, <2>4
  <1>12. TextFitsSlot(new)
    <2>1. SUFFICES ASSUME NEW p \in DOMAIN new, p # Root
                   PROVE  /\ p[Len(p)].typ = "static" => new[p].path = p[Len(p)].key
                          /\ p[Len(p)].typ = "star" => new[p].path = "*"
      BY DEF TextFitsSlot
    <2> HIDE DEF new
    <2>2. CASE p \in DOMAIN tree
      BY <1>5, <2>1, <2>2 DEF TreeInv, TextFitsSlot
    <2>3. CASE p \in way
      <3>1. PICK i \in 1..n : p = Position(segs, i)
        BY <2>3
      <3>2. i \in 0..Len(segs) /\ segs[i] \in Segs
        BY DEF Refuses, AllSegs
      <3>3. p[Len(p)] = Slot(segs[i])
        BY <3>1, <3>2, PositionFacts
      <3>4. new[p].path = segs[i].path
        BY <1>9, <3>1
      <3>5. Slot(segs[i]).typ = segs[i].typ
        BY DEF Slot
      <3>6. segs[i].typ = "static" => Slot(segs[i]).key = segs[i].path
        BY DEF Slot
      <3>7. segs[i].typ = "star" => segs[i].path = "*"
        BY <3>2, SegsAssumption
      <3> QED BY <3>3, <3>4, <3>5, <3>6, <3>7
    <2> QED BY <1>4, <2>1, <2>2, <2>3
  <1>13. OneOfAKind(new)
    <2>1. IsFiniteSet(DOMAIN tree)
      BY DEF TreeInv, OneOfAKind
    <2>2. IsFiniteSet(way)
      <3> DEFINE f == [i \in 1..n |-> Position(segs, i)]
      <3>1. f \in Surjection(1..n, way)
        BY DEF Surjection
      <3>2. IsFiniteSet(1..n)
        BY FS_Interval
      <3> HIDE DEF f, way
      <3> QED BY <3>1, <3>2, FS_Surjection
    <2>3. IsFiniteSet(DOMAIN tree \union way)
      BY <2>1, <2>2, FS_Union
    <2>4. IsFiniteSet(DOMAIN new)
      BY <1>4, <2>3, FS_AddElement
    <2>5. ASSUME NEW p \in DOMAIN tree, NEW i \in 1..Len(p) PROVE Keyless(p[i])
      BY DEF TreeInv, OneOfAKind
    <2>6. ASSUME NEW p \in way, NEW i \in 1..Len(p) PROVE Keyless(p[i])
      <3>1. PICK j \in 1..n : p = Position(segs, j)
        OBVIOUS
      <3>2. j \in 0..Len(segs) /\ segs \in Seq(AllSegs)
        OBVIOUS
      <3>3. Len(p) = j /\ \A k \in 1..j : p[k] = Slot(segs[k])
        BY <3>1, <3>2, PositionFacts
      <3>4. i \in 1..j
        BY <3>3
      <3>5. p[i] = Slot(segs[i])
        BY <3>3, <3>4
      <3> QED BY <3>5, SlotKeyless
    <2>7. ~\E i \in 1..Len(Root) : TRUE
      BY RootFacts
    <2> HIDE DEF new
    <2> QED BY <1>4, <2>4, <2>5, <2>6, <2>7 DEF OneOfAKind
  <1>15. TreeInv(new)
    BY <1>10, <1>11, <1>12, <1>13 DEF TreeInv
  <1>14. Position(segs, n) \in DOMAIN new /\ DOMAIN tree \subseteq DOMAIN new
    BY <1>2, <1>4
  <1> HIDE DEF new
  <1> QED BY <1>5, <1>6, <1>7, <1>8, <1>14, <1>15 DEF new

\* The node a walk ends at has the walk's text as its route, "/" included.
LEMMA WalkEndsAtItsRoute ==
  ASSUME NEW tree, TreeInv(tree),
         NEW segs \in Seq(AllSegs), NEW n \in 0..Len(segs),
         \A i \in 1..n : ~Refuses(tree, segs, i)
  PROVE  Walked(tree, segs, n)[Position(segs, n)].route = RouteText(segs, n)
  <1> DEFINE new == Walked(tree, segs, n)
             end == Position(segs, n)
  <1>1. CASE n \in 1..n /\ end \in DOMAIN tree
    <2>1. new[end] = tree[end]
      BY <1>1, WalkKeeps
    <2>2. tree[end].route = RouteText(segs, n)
      BY <1>1, WalkMeetsItsRoute
    <2> QED BY <2>1, <2>2
  <1>2. CASE n \in 1..n /\ end \notin DOMAIN tree
    <2>1. new[end] = [NewNode(segs[n]) EXCEPT !.route = RouteText(segs, n)]
      BY <1>2, WalkKeeps
    <2> QED BY <2>1 DEF NewNode
  <1>3. CASE n = 0
    <2>1. end = Root /\ RouteText(segs, n) \in Seq(Texts) /\ Len(RouteText(segs, n)) = 0
      BY <1>3, PositionFacts DEF Position, Root
    <2>2. TreeInv(new) /\ end \in DOMAIN new
      BY WalkKeeps
    <2> HIDE DEF new
    <2>3. Len(new[end].route) = Len(end) /\ new[end].route \in Seq(Texts)
      BY <2>2 DEF TreeInv, TreeSpells, TreeType, Node
    <2>4. Len(new[end].route) = 0
      BY <2>1, <2>3, RootFacts
    <2> QED BY <2>1, <2>3, <2>4, SeqEqual DEF new
  <1> QED BY <1>1, <1>2, <1>3

-----------------------------------------------------------------------------
(* The steps of Spec.                                                      *)

\* A pattern's segments are segments.
LEMMA SegsOfType ==
  ASSUME NEW pattern \in Patterns
  PROVE  SegsOf(pattern) \in Seq(AllSegs)
  <1>1. pattern \in Seq(AllSegs) /\ pattern # <<>>
    BY PatternsAssumption DEF AllSegs
  <1>2. Tail(pattern) \in Seq(AllSegs)
    BY <1>1
  <1>3. <<>> \in Seq(AllSegs)
    BY EmptySeq
  <1> QED BY <1>2, <1>3 DEF SegsOf

\* A walk that gets to the end met no empty segment.
LEMMA WalkedToTheEnd ==
  ASSUME NEW tree, NEW segs \in Seq(AllSegs), WalksTo(tree, segs, Len(segs))
  PROVE  segs \in Seq(Segs)
  <1>1. \A i \in 1..Len(segs) : segs[i] \in Segs
    BY DEF WalksTo, Refuses, AllSegs
  <1> QED BY <1>1

\* The invariant holds of an engine without routes.
THEOREM InitIInv == Init => IInv
  <1> SUFFICES ASSUME Init PROVE IInv
    OBVIOUS
  <1>1. DOMAIN trees = Methods
    BY DEF Init
  <1>2. ASSUME NEW m \in Methods
        PROVE  TreeInv(trees[m]) /\ DOMAIN trees[m] = {}
    <2>1. trees[m] = <<>> /\ DOMAIN trees[m] = {}
      BY DEF Init
    <2>2. trees[m] = [p \in DOMAIN trees[m] |-> trees[m][p]]
      BY <2>1
    <2>3. OneOfAKind(trees[m])
      BY <2>1, FS_EmptySet DEF OneOfAKind
    <2> QED BY <2>1, <2>2, <2>3 DEF TreeInv, TreeType, TreeSpells, TextFitsSlot
  <1>3. RegisteredType /\ HandlersExact
    BY <1>2 DEF Init, RegisteredType, HandlersExact
  <1> QED BY <1>1, <1>2, <1>3 DEF IInv

\* A refused call: only the tree of its method grows, by nodes without handlers.
LEMMA WalkOnlyStep ==
  ASSUME IInv, NEW m \in Methods,
         NEW segs \in Seq(AllSegs), NEW n \in 0..Len(segs),
         WalksTo(trees[m], segs, n),
         trees' = [trees EXCEPT ![m] = Walked(@, segs, n)],
         UNCHANGED registered
  PROVE  IInv'
  <1> DEFINE new == Walked(trees[m], segs, n)
  <1>1. \A i \in 1..n : ~Refuses(trees[m], segs, i)
    BY DEF WalksTo
  <1>2. TreeInv(trees[m])
    BY DEF IInv
  <1>3. /\ TreeInv(new)
        /\ \A p \in DOMAIN trees[m] : p \in DOMAIN new /\ new[p] = trees[m][p]
        /\ \A p \in DOMAIN new \ DOMAIN trees[m] : new[p].handlefunc = Nil
    BY <1>1, <1>2, WalkKeeps
  <1>4. /\ DOMAIN trees' = Methods /\ trees'[m] = new
        /\ \A x \in Methods \ {m} : trees'[x] = trees[x]
    BY DEF IInv
  <1> HIDE DEF new
  <1>5. \A x \in Methods : TreeInv(trees'[x])
    BY <1>3, <1>4 DEF IInv
  <1>6. RegisteredType'
    BY DEF IInv, RegisteredType
  <1>7. \A x \in Methods : \A p \in DOMAIN trees[x] :
            p \in DOMAIN trees'[x] /\ trees'[x][p] = trees[x][p]
    BY <1>3, <1>4
  <1>8. ASSUME NEW r \in registered
        PROVE  LET end == Position(r.segs, Len(r.segs)) IN
               /\ end \in DOMAIN trees'[r.method]
               /\ trees'[r.method][end].handlefunc = r.handlefunc
               /\ trees'[r.method][end].route = RouteText(r.segs, Len(r.segs))
    BY <1>7 DEF IInv, HandlersExact, RegisteredType
  <1>9. ASSUME NEW x \in Methods, NEW p \in DOMAIN trees'[x],
               trees'[x][p].handlefunc # Nil
        PROVE  \E r \in registered : r.method = x /\ Position(r.segs, Len(r.segs)) = p
    <2>1. p \in DOMAIN trees[x] /\ trees[x][p].handlefunc # Nil
      BY <1>3, <1>4, <1>9
    <2> QED BY <2>1 DEF IInv, HandlersExact
  <1>10. HandlersExact'
    BY <1>8, <1>9 DEF HandlersExact
  <1> QED BY <1>4, <1>5, <1>6, <1>10 DEF IInv

\* An accepted call: the walk, and a handler where there was none.
LEMMA RouteAddedStep ==
  ASSUME IInv, NEW m \in Methods, NEW pattern \in Patterns, NEW h \in HandleFuncs,
         RouteAdded(m, pattern, h)
  PROVE  IInv'
  <1> DEFINE segs == SegsOf(pattern)
             n == Len(segs)
             new == Walked(trees[m], segs, n)
             end == Position(segs, n)
             entry == [method |-> m, segs |-> segs, handlefunc |-> h]
             added == [new EXCEPT ![end].handlefunc = h]
  <1>1. segs \in Seq(AllSegs)
    BY SegsOfType
  <1>2. /\ WalksTo(trees[m], segs, n) /\ new[end].handlefunc = Nil
        /\ trees' = [trees EXCEPT ![m] = added]
        /\ registered' = registered \union {entry}
    BY DEF RouteAdded
  <1> HIDE DEF segs
  <1>3. n \in 0..Len(segs)
    BY <1>1
  <1>4. TreeInv(trees[m]) /\ \A i \in 1..n : ~Refuses(trees[m], segs, i)
    BY <1>2 DEF IInv, WalksTo
  <1>5. segs \in Seq(Segs)
    BY <1>1, <1>2, WalkedToTheEnd
  <1> HIDE DEF n
  <1>6. /\ TreeInv(new) /\ end \in DOMAIN new
        /\ \A p \in DOMAIN trees[m] : p \in DOMAIN new /\ new[p] = trees[m][p]
        /\ \A p \in DOMAIN new \ DOMAIN trees[m] : new[p].handlefunc = Nil
    BY <1>1, <1>3, <1>4, WalkKeeps
  <1>7. new[end].route = RouteText(segs, n)
    BY <1>1, <1>3, <1>4, WalkEndsAtItsRoute
  <1> HIDE DEF new, end
  <1>8. /\ DOMAIN added = DOMAIN new
        /\ \A p \in DOMAIN new \ {end} : added[p] = new[p]
        /\ added[end].handlefunc = h /\ added[end].path = new[end].path
        /\ added[end].route = new[end].route /\ added[end] \in Node
        /\ added = [p \in DOMAIN added |-> added[p]]
    BY <1>6 DEF TreeInv, TreeType, Node
  <1>9. TreeInv(added)
    <2> HIDE DEF added
    <2>1. \A p \in DOMAIN new : added[p].path = new[p].path /\ added[p].route = new[p].route
      BY <1>6, <1>8
    <2>2. TreeType(added)
      BY <1>6, <1>8 DEF TreeInv, TreeType
    <2>3. TreeSpells(added)
      BY <1>6, <1>8, <2>1 DEF TreeInv, TreeSpells
    <2>4. TextFitsSlot(added)
      BY <1>6, <1>8, <2>1 DEF TreeInv, TextFitsSlot
    <2>5. OneOfAKind(added)
      BY <1>6, <1>8 DEF TreeInv, OneOfAKind
    <2> QED BY <2>2, <2>3, <2>4, <2>5 DEF TreeInv
  <1>10. /\ DOMAIN trees' = Methods /\ trees'[m] = added
         /\ \A x \in Methods \ {m} : trees'[x] = trees[x]
    BY <1>2 DEF IInv
  <1> HIDE DEF added
  <1>11. \A x \in Methods : TreeInv(trees'[x])
    BY <1>9, <1>10 DEF IInv
  <1>12. RegisteredType'
    BY <1>2, <1>5 DEF IInv, RegisteredType
  <1>13. ASSUME NEW r \in registered
         PROVE  LET last == Position(r.segs, Len(r.segs)) IN
                /\ last \in DOMAIN trees'[r.method]
                /\ trees'[r.method][last].handlefunc = r.handlefunc
                /\ trees'[r.method][last].route = RouteText(r.segs, Len(r.segs))
    <2> DEFINE last == Position(r.segs, Len(r.segs))
    <2>1. /\ r.method \in Methods /\ r.handlefunc # Nil
          /\ last \in DOMAIN trees[r.method]
          /\ trees[r.method][last].handlefunc = r.handlefunc
          /\ trees[r.method][last].route = RouteText(r.segs, Len(r.segs))
      BY HandlersAssumption DEF IInv, HandlersExact, RegisteredType
    <2> HIDE DEF last
    <2>2. CASE r.method # m
      BY <1>10, <2>1, <2>2 DEF last
    <2>3. CASE r.method = m
      <3>1. last \in DOMAIN new /\ new[last] = trees[m][last] /\ last # end
        BY <1>2, <1>6, <2>1, <2>3 DEF new, end
      <3> QED BY <1>8, <1>10, <2>1, <2>3, <3>1 DEF last
    <2> QED BY <2>2, <2>3
  <1>14. /\ end \in DOMAIN trees'[m]
         /\ trees'[m][end].handlefunc = h
         /\ trees'[m][end].route = RouteText(segs, n)
    BY <1>6, <1>7, <1>8, <1>10
  <1>15. ASSUME NEW x \in Methods, NEW p \in DOMAIN trees'[x],
                trees'[x][p].handlefunc # Nil
         PROVE  \E r \in registered' : r.method = x /\ Position(r.segs, Len(r.segs)) = p
    <2>1. CASE x = m /\ p = end
      <3>1. entry \in registered' /\ entry.method = x
        BY <1>2, <2>1
      <3>2. Position(entry.segs, Len(entry.segs)) = p
        BY <2>1 DEF end, n
      <3> QED BY <3>1, <3>2
    <2>2. CASE ~(x = m /\ p = end)
      <3>1. p \in DOMAIN trees[x] /\ trees[x][p].handlefunc # Nil
        BY <1>6, <1>8, <1>10, <1>15, <2>2
      <3>2. PICK r \in registered : r.method = x /\ Position(r.segs, Len(r.segs)) = p
        BY <3>1 DEF IInv, HandlersExact
      <3> QED BY <1>2, <3>2
    <2> QED BY <2>1, <2>2
  <1>16. HandlersExact'
    BY <1>2, <1>13, <1>14, <1>15 DEF HandlersExact, n, end
  <1> QED BY <1>10, <1>11, <1>12, <1>16 DEF IInv

\* A step that changes nothing preserves the invariant.
LEMMA StutterStep == IInv /\ UNCHANGED vars => IInv'
  BY DEF vars, IInv, HandlersExact, RegisteredType

\* One step of Next, by the outcome of the call.
THEOREM NextIInv == IInv /\ [Next]_vars => IInv'
  <1> SUFFICES ASSUME IInv, [Next]_vars PROVE IInv'
    OBVIOUS
  <1>1. CASE UNCHANGED vars
    BY <1>1, StutterStep
  <1>2. ASSUME NEW m \in Methods, NEW pattern \in Patterns, NEW h \in HandleFuncs,
               Route(m, pattern, h)
        PROVE  IInv'
    <2>1. CASE RouteMalformed(m, pattern)
      BY <2>1, StutterStep DEF RouteMalformed
    <2>2. CASE RouteRefused(m, pattern)
      <3> DEFINE segs == SegsOf(pattern)
      <3>1. segs \in Seq(AllSegs)
        BY SegsOfType
      <3>2. PICK n \in 0..Len(segs) :
              /\ WalksTo(trees[m], segs, n)
              /\ trees' = [trees EXCEPT ![m] = Walked(@, segs, n)]
        BY <2>2 DEF RouteRefused
      <3>3. UNCHANGED registered
        BY <2>2 DEF RouteRefused
      <3> HIDE DEF segs
      <3> QED BY <3>1, <3>2, <3>3, WalkOnlyStep
    <2>3. CASE RouteTaken(m, pattern)
      <3> DEFINE segs == SegsOf(pattern)
      <3>1. segs \in Seq(AllSegs)
        BY SegsOfType
      <3>2. /\ WalksTo(trees[m], segs, Len(segs))
            /\ trees' = [trees EXCEPT ![m] = Walked(@, segs, Len(segs))]
            /\ UNCHANGED registered
        BY <2>3 DEF RouteTaken
      <3> HIDE DEF segs
      <3>3. Len(segs) \in 0..Len(segs)
        BY <3>1
      <3> QED BY <3>1, <3>2, <3>3, WalkOnlyStep
    <2>4. CASE RouteAdded(m, pattern, h)
      BY <2>4, RouteAddedStep
    <2> QED BY <1>2, <2>1, <2>2, <2>3, <2>4 DEF Route
  <1> QED BY <1>1, <1>2 DEF Next

\* Every reachable state satisfies the invariant.
THEOREM InvariantHolds == Spec => []IInv
  BY InitIInv, NextIInv, PTL DEF Spec

\* What the inductive invariant says of two registered routes.
LEMMA CompatibleFromIInv == IInv => AcceptedCompatible
  <1> SUFFICES ASSUME IInv, NEW r \in registered, NEW s \in registered,
                      r.method = s.method
               PROVE  /\ \A n \in 1..Len(r.segs) :
                            (n <= Len(s.segs) /\ Position(r.segs, n) = Position(s.segs, n))
                                => r.segs[n] = s.segs[n]
                      /\ r.segs = s.segs => r = s
    BY DEF AcceptedCompatible
  \* A node on the way to a registered route has the text of its segment.
  <1>1. ASSUME NEW q \in registered, NEW n \in 1..Len(q.segs)
        PROVE  /\ q.segs[n] \in Segs
               /\ trees[q.method][Position(q.segs, n)].path = q.segs[n].path
    <2> DEFINE len == Len(q.segs)
               end == Position(q.segs, len)
               tree == trees[q.method]
    <2>1. q.segs \in Seq(Segs) /\ q.method \in Methods
      BY DEF IInv, RegisteredType
    <2>2. q.segs \in Seq(AllSegs) /\ len \in 0..len
      BY <2>1, SeqMonotonic DEF AllSegs
    <2>3. Len(end) = len /\ SubSeq(end, 1, n) = Position(q.segs, n)
      BY <2>2, PositionFacts
    <2>4. end \in DOMAIN tree /\ tree[end].route = RouteText(q.segs, len)
      BY DEF IInv, HandlersExact
    <2>5. RouteText(q.segs, len)[n] = q.segs[n].path
      BY DEF RouteText
    <2>6. TreeSpells(tree)
      BY <2>1 DEF IInv, TreeInv
    <2> HIDE DEF end, tree, len
    <2>7. n \in 1..len
      BY DEF len
    <2>8. tree[SubSeq(end, 1, n)].path = tree[end].route[n]
      BY <2>3, <2>4, <2>6, <2>7 DEF TreeSpells
    <2>9. tree[Position(q.segs, n)].path = q.segs[n].path
      BY <2>3, <2>4, <2>5, <2>8
    <2>10. q.segs[n] \in Segs
      BY <2>1
    <2> QED BY <2>9, <2>10 DEF tree
  <1>2. ASSUME NEW n \in 1..Len(r.segs), n <= Len(s.segs),
               Position(r.segs, n) = Position(s.segs, n)
        PROVE  r.segs[n] = s.segs[n]
    <2>1. Len(s.segs) \in Nat /\ n \in 1..Len(s.segs)
      BY <1>2 DEF IInv, RegisteredType
    <2>2. r.segs[n].path = s.segs[n].path
      BY <1>1, <1>2, <2>1
    <2> QED BY <1>1, <2>1, <2>2, SegsAssumption
  <1>3. ASSUME r.segs = s.segs PROVE r = s
    <2>1. r.handlefunc = s.handlefunc
      BY <1>3 DEF IInv, HandlersExact
    <2>2. /\ r \in [method: Methods, segs: Seq(Segs), handlefunc: HandleFuncs]
          /\ s \in [method: Methods, segs: Seq(Segs), handlefunc: HandleFuncs]
      BY DEF IInv, RegisteredType
    <2> QED BY <1>3, <2>1, <2>2
  <1> QED BY <1>2, <1>3

-----------------------------------------------------------------------------
(* The properties of Spec.                                                 *)

\* The trees and the history have their types in every reachable state.
THEOREM TypeCorrect == Spec => []TypeOK
  <1>1. IInv => TypeOK
    BY DEF IInv, TreeInv, TreeType, RegisteredType, TypeOK
  <1> QED BY <1>1, InvariantHolds, PTL

\* A node's route always spells the way to it: ctx.MatchRoute is right for every
\* set of patterns, whatever was refused before.
THEOREM RouteSpells == Spec => []RouteSpellsPath
  <1>1. IInv => RouteSpellsPath
    BY DEF IInv, TreeInv, TreeSpells, RouteSpellsPath
  <1> QED BY <1>1, InvariantHolds, PTL

\* No registration overwrites, moves or invents a handler, for any patterns.
THEOREM HandlersAreRegistered == Spec => []HandlersExact
  <1>1. IInv => HandlersExact
    BY DEF IInv
  <1> QED BY <1>1, InvariantHolds, PTL

\* Conflicting patterns are never both accepted, in any order of calls.
THEOREM ConflictsRefused == Spec => []AcceptedCompatible
  BY CompatibleFromIInv, InvariantHolds, PTL

\* Walking a pattern keeps the nodes that are there.
LEMMA WalkStepStays ==
  ASSUME IInv, NEW m \in Methods,
         NEW segs \in Seq(AllSegs), NEW n \in 0..Len(segs),
         WalksTo(trees[m], segs, n)
  PROVE  \A p \in DOMAIN trees[m] :
            /\ p \in DOMAIN Walked(trees[m], segs, n)
            /\ Walked(trees[m], segs, n)[p] = trees[m][p]
  <1>1. TreeInv(trees[m]) /\ \A i \in 1..n : ~Refuses(trees[m], segs, i)
    BY DEF IInv, WalksTo
  <1> QED BY <1>1, WalkKeeps

\* No step removes or renames a node or takes a handler away, for any patterns.
THEOREM NodesAreKept == Spec => NodesStay
  <1> DEFINE Stay ==
        \A m \in Methods : \A p \in DOMAIN trees[m] :
            LET old == trees[m][p] new == trees'[m][p] IN
            /\ p \in DOMAIN trees'[m]
            /\ new.path = old.path /\ new.paramName = old.paramName
            /\ new.route = old.route
            /\ old.handlefunc # Nil => new.handlefunc = old.handlefunc
  <1>1. ASSUME IInv, Next PROVE Stay
    <2>1. PICK m \in Methods, pattern \in Patterns, h \in HandleFuncs :
            Route(m, pattern, h)
      BY <1>1 DEF Next
    <2> DEFINE segs == SegsOf(pattern)
               len == Len(segs)
    <2>2. segs \in Seq(AllSegs)
      BY SegsOfType
    <2>3. len \in 0..len
      BY <2>2
    <2>4. DOMAIN trees = Methods
      BY <1>1 DEF IInv
    <2>5. CASE RouteMalformed(m, pattern)
      BY <2>5 DEF RouteMalformed, vars
    <2>6. CASE \E n \in 0..len :
                 /\ WalksTo(trees[m], segs, n)
                 /\ trees' = [trees EXCEPT ![m] = Walked(@, segs, n)]
      <3>1. PICK n \in 0..len :
                 /\ WalksTo(trees[m], segs, n)
                 /\ trees' = [trees EXCEPT ![m] = Walked(@, segs, n)]
        BY <2>6
      <3> HIDE DEF segs
      <3>2. \A p \in DOMAIN trees[m] :
                p \in DOMAIN trees'[m] /\ trees'[m][p] = trees[m][p]
        BY <1>1, <2>2, <2>4, <3>1, WalkStepStays
      <3>3. \A x \in Methods \ {m} : trees'[x] = trees[x]
        BY <2>4, <3>1
      <3> QED BY <3>2, <3>3
    <2>7. CASE RouteAdded(m, pattern, h)
      <3> DEFINE new == Walked(trees[m], segs, len)
                 end == Position(segs, len)
      <3>1. /\ WalksTo(trees[m], segs, len) /\ new[end].handlefunc = Nil
            /\ trees' = [trees EXCEPT ![m] = [new EXCEPT ![end].handlefunc = h]]
        BY <2>7 DEF RouteAdded
      <3> HIDE DEF segs
      <3>2. \A p \in DOMAIN trees[m] : p \in DOMAIN new /\ new[p] = trees[m][p]
        BY <1>1, <2>2, <2>3, <3>1, WalkStepStays
      <3>3. trees'[m] = [new EXCEPT ![end].handlefunc = h]
        BY <2>4, <3>1
      <3>4. \A x \in Methods \ {m} : trees'[x] = trees[x]
        BY <2>4, <3>1
      <3>5. \A p \in DOMAIN trees[m] : trees[m][p] \in Node
        BY <1>1 DEF IInv, TreeInv, TreeType
      <3> HIDE DEF new, end
      <3>6. ASSUME NEW p \in DOMAIN trees[m]
            PROVE  LET old == trees[m][p] now == trees'[m][p] IN
                   /\ p \in DOMAIN trees'[m]
                   /\ now.path = old.path /\ now.paramName = old.paramName
                   /\ now.route = old.route
                   /\ old.handlefunc # Nil => now.handlefunc = old.handlefunc
        <4>1. CASE p = end
          BY <3>1, <3>2, <3>3, <3>5, <4>1 DEF Node
        <4>2. CASE p # end
          BY <3>2, <3>3, <4>2
        <4> QED BY <4>1, <4>2
      <3> QED BY <3>4, <3>6
    <2>8. RouteRefused(m, pattern) \/ RouteTaken(m, pattern) =>
            \E n \in 0..len :
                 /\ WalksTo(trees[m], segs, n)
                 /\ trees' = [trees EXCEPT ![m] = Walked(@, segs, n)]
      BY <2>3 DEF RouteRefused, RouteTaken
    <2> HIDE DEF segs, len, Stay
    <2> QED BY <2>1, <2>5, <2>6, <2>7, <2>8 DEF Route
  <1>2. IInv /\ [Next]_vars => [Stay]_vars
    BY <1>1
  <1> HIDE DEF Stay
  <1>3. [][Stay]_vars => NodesStay
    BY DEF Stay, NodesStay
  <1> QED BY <1>2, <1>3, InvariantHolds, PTL DEF Spec

-----------------------------------------------------------------------------
(* Enumerations: the orders in which children are tried.                   *)

\* s has each element of S once, and nothing else.
Lists(s, S) ==
    /\ s \in Seq(S)
    /\ \A i, j \in DOMAIN s : s[i] = s[j] => i = j
    /\ \A x \in S : \E i \in DOMAIN s : s[i] = x

\* What SetToSeqs returns are such sequences.
LEMMA EachOnce ==
  ASSUME NEW S, IsFiniteSet(S), NEW s \in SetToSeqs(S)
  PROVE  Lists(s, S)
  <1> DEFINE D == 1..Cardinality(S)
  <1>1. Cardinality(S) \in Nat
    BY FS_CardinalityType
  <1>2. s \in [D -> S] /\ \A i, j \in D : i # j => s[i] # s[j]
    BY DEF SetToSeqs
  <1>3. s \in Injection(D, S)
    BY <1>2 DEF Injection, IsInjective
  <1>4. Cardinality(D) = Cardinality(S)
    BY <1>1, FS_Interval
  <1>5. s \in Surjection(D, S)
    BY <1>3, <1>4, FS_Injection
  <1>6. \A x \in S : \E i \in D : s[i] = x
    BY <1>5 DEF Surjection
  <1>7. s \in Seq(S) /\ DOMAIN s = D
    BY <1>1, <1>2
  <1> QED BY <1>2, <1>6, <1>7 DEF Lists

\* SetToSeq returns one of them.
LEMMA OneOfTheOrders ==
  ASSUME NEW S, IsFiniteSet(S)
  PROVE  SetToSeq(S) \in SetToSeqs(S)
  <1> DEFINE D == 1..Cardinality(S)
  <1>1. PICK f : f \in Bijection(D, S)
    BY FS_CardinalityType DEF ExistsBijection
  <1>2. f \in [D -> S] /\ IsInjective(f)
    BY <1>1 DEF Bijection, Injection
  <1>3. SetToSeq(S) \in [D -> S] /\ IsInjective(SetToSeq(S))
    BY <1>2, Zenon DEF SetToSeq
  <1> DEFINE s == SetToSeq(S)
  <1> HIDE DEF s
  <1>4. \A i, j \in D : i # j => s[i] # s[j]
    BY <1>3 DEF IsInjective, s
  <1>5. s \in SetToSeqs(S)
    BY <1>3, <1>4 DEF SetToSeqs, s
  <1> QED BY <1>5 DEF s

\* a is s, of length k, followed by t, of length l.
Follows(a, s, k, S, t, l, T) ==
    /\ k \in Nat /\ l \in Nat /\ DOMAIN s = 1..k /\ DOMAIN t = 1..l
    /\ DOMAIN a = 1..(k + l)
    /\ \A i \in 1..k : a[i] = s[i] /\ s[i] \in S
    /\ \A i \in (k + 1)..(k + l) : i - k \in 1..l /\ a[i] = t[i - k] /\ t[i - k] \in T

\* Two enumerations, one after the other.
LEMMA ListsConcat ==
  ASSUME NEW S, NEW T, S \cap T = {}, NEW s, Lists(s, S), NEW t, Lists(t, T)
  PROVE  Lists(s \o t, S \union T) /\ Follows(s \o t, s, Len(s), S, t, Len(t), T)
  <1> DEFINE c == s \o t  k == Len(s)  l == Len(t)
  <1>1. s \in Seq(S) /\ t \in Seq(T)
    BY DEF Lists
  <1>2. s \in Seq(S \union T) /\ t \in Seq(S \union T)
    BY <1>1
  <1>3. /\ k \in Nat /\ l \in Nat /\ DOMAIN s = 1..k /\ DOMAIN t = 1..l
        /\ \A i \in 1..k : s[i] \in S
        /\ \A i \in 1..l : t[i] \in T
    BY <1>1
  <1>4. c \in Seq(S \union T) /\ DOMAIN c = 1..(k + l)
    BY <1>2, ConcatProperties
  <1>5. \A i \in 1..(k + l) : c[i] = IF i <= k THEN s[i] ELSE t[i - k]
    BY <1>2, ConcatProperties
  <1> HIDE DEF c, k, l
  <1>6. \A i \in 1..k : i \in 1..(k + l) /\ c[i] = s[i] /\ s[i] \in S
    BY <1>3, <1>5
  <1>7. \A i \in (k + 1)..(k + l) : i - k \in 1..l /\ c[i] = t[i - k] /\ t[i - k] \in T
    BY <1>3, <1>5
  <1>8. \A i \in 1..(k + l) : i \in 1..k \/ i \in (k + 1)..(k + l)
    BY <1>3
  <1>9. ASSUME NEW i \in 1..(k + l), NEW j \in 1..(k + l), c[i] = c[j] PROVE i = j
    <2>1. \A x, y \in 1..k : s[x] = s[y] => x = y
      BY <1>3 DEF Lists
    <2>2. \A x, y \in 1..l : t[x] = t[y] => x = y
      BY <1>3 DEF Lists
    <2>3. CASE i \in 1..k /\ j \in 1..k
      BY <1>6, <1>9, <2>1, <2>3
    <2>4. CASE i \in (k + 1)..(k + l) /\ j \in (k + 1)..(k + l)
      <3>1. i - k = j - k
        BY <1>7, <1>9, <2>2, <2>4
      <3> QED BY <1>3, <3>1
    <2>5. ~(i \in 1..k /\ j \in (k + 1)..(k + l)) /\ ~(j \in 1..k /\ i \in (k + 1)..(k + l))
      BY <1>6, <1>7, <1>9
    <2> QED BY <1>8, <2>3, <2>4, <2>5
  <1>10. ASSUME NEW x \in S \union T PROVE \E i \in 1..(k + l) : c[i] = x
    <2>1. CASE x \in S
      <3>1. PICK i \in 1..k : s[i] = x
        BY <1>3, <2>1 DEF Lists
      <3> QED BY <1>6, <3>1
    <2>2. CASE x \in T
      <3>1. PICK i \in 1..l : t[i] = x
        BY <1>3, <2>2 DEF Lists
      <3>2. i + k \in (k + 1)..(k + l) /\ i + k \in 1..(k + l) /\ (i + k) - k = i
        BY <1>3
      <3>3. c[i + k] = t[i]
        BY <1>7, <3>2
      <3> QED BY <3>1, <3>2, <3>3
    <2> QED BY <2>1, <2>2
  <1>11. Lists(c, S \union T)
    BY <1>4, <1>9, <1>10 DEF Lists
  <1>12. Follows(c, s, k, S, t, l, T)
    BY <1>3, <1>4, <1>6, <1>7 DEF Follows
  <1> QED BY <1>11, <1>12 DEF c, k, l

\* A child's place in the documented order, by its kind.
RankOf(p) == Rank(Last(p).typ)

\* Better kinds come first.
Ranked(s) == \A i, j \in DOMAIN s : i < j => RankOf(s[i]) <= RankOf(s[j])

\* What is in front of c is of a better kind.
FirstOfKind(s, c) ==
    \A i, j \in DOMAIN s : i < j /\ s[j] = c => RankOf(s[i]) < RankOf(c)

Kind(S, r) == IsFiniteSet(S) /\ \A x \in S : RankOf(x) = r

\* Children of a better kind in front of others.
LEMMA RankedConcat ==
  ASSUME NEW S, NEW T, NEW s, NEW t, S \cap T = {}, Lists(s, S), Lists(t, T),
         NEW r \in Nat, \A x \in S : RankOf(x) \in Nat /\ RankOf(x) < r,
         \A x \in T : RankOf(x) = r,
         Ranked(s)
  PROVE  /\ Ranked(s \o t)
         /\ \A c \in S : FirstOfKind(s, c) => FirstOfKind(s \o t, c)
         /\ \A c \in T : t[1] = c => FirstOfKind(s \o t, c)
  <1> DEFINE a == s \o t  k == Len(s)  l == Len(t)
  <1>1. /\ k \in Nat /\ l \in Nat /\ DOMAIN s = 1..k /\ DOMAIN t = 1..l
        /\ DOMAIN a = 1..(k + l)
        /\ \A i \in 1..k : a[i] = s[i] /\ s[i] \in S
        /\ \A i \in (k + 1)..(k + l) : i - k \in 1..l /\ a[i] = t[i - k] /\ t[i - k] \in T
    <2>1. Follows(s \o t, s, Len(s), S, t, Len(t), T)
      BY ListsConcat
    <2> HIDE DEF a, k, l
    <2>2. Follows(a, s, k, S, t, l, T)
      BY <2>1 DEF a, k, l
    <2> QED BY <2>2 DEF Follows
  <1> HIDE DEF a, k, l
  <1>2. /\ \A i \in 1..(k + l) : i \in 1..k \/ i \in (k + 1)..(k + l)
        /\ \A i, j \in 1..(k + l) : i < j /\ j \in 1..k => i \in 1..k
    BY <1>1
  <1>3. \A i \in 1..k : RankOf(a[i]) \in Nat /\ RankOf(a[i]) < r
    BY <1>1
  <1>4. \A i \in (k + 1)..(k + l) : RankOf(a[i]) = r
    BY <1>1
  <1>5. Ranked(a)
    <2> SUFFICES ASSUME NEW i \in 1..(k + l), NEW j \in 1..(k + l), i < j
                 PROVE  RankOf(a[i]) <= RankOf(a[j])
      BY <1>1 DEF Ranked
    <2>1. CASE i \in 1..k /\ j \in 1..k
      <3>1. RankOf(s[i]) <= RankOf(s[j])
        BY <1>1, <2>1 DEF Ranked
      <3> QED BY <1>1, <2>1, <3>1
    <2>2. CASE i \in 1..k /\ j \in (k + 1)..(k + l)
      BY <1>3, <1>4, <2>2
    <2>3. CASE i \in (k + 1)..(k + l) /\ j \in (k + 1)..(k + l)
      BY <1>4, <2>3
    <2> QED BY <1>2, <2>1, <2>2, <2>3
  <1>6. ASSUME NEW c \in S, FirstOfKind(s, c) PROVE FirstOfKind(a, c)
    <2> SUFFICES ASSUME NEW i \in 1..(k + l), NEW j \in 1..(k + l), i < j, a[j] = c
                 PROVE  RankOf(a[i]) < RankOf(c)
      BY <1>1 DEF FirstOfKind
    <2>1. j \in 1..k
      BY <1>1, <1>2
    <2>2. i \in 1..k /\ s[j] = c
      BY <1>1, <1>2, <2>1
    <2>3. RankOf(s[i]) < RankOf(c)
      BY <1>1, <1>6, <2>1, <2>2 DEF FirstOfKind
    <2> QED BY <1>1, <2>2, <2>3
  <1>7. ASSUME NEW c \in T, t[1] = c PROVE FirstOfKind(a, c)
    <2> SUFFICES ASSUME NEW i \in 1..(k + l), NEW j \in 1..(k + l), i < j, a[j] = c
                 PROVE  RankOf(a[i]) < RankOf(c)
      BY <1>1 DEF FirstOfKind
    <2>1. j \in (k + 1)..(k + l)
      BY <1>1, <1>2
    <2>2. t[j - k] = c /\ j - k \in 1..l
      BY <1>1, <2>1
    <2>3. 1 \in 1..l
      BY <1>1, <2>2
    <2>4. \A x, y \in 1..l : t[x] = t[y] => x = y
      BY <1>1, Zenon DEF Lists
    <2>6. j - k = 1
      BY <1>7, <2>2, <2>3, <2>4
    <2>5. i \in 1..k
      BY <1>1, <2>6
    <2> QED BY <1>3, <2>5
  <1> QED BY <1>5, <1>6, <1>7 DEF a

\* Every sequence of the elements, each once, is one of the orders.
LEMMA OrdersAreAll ==
  ASSUME NEW S, NEW s, Lists(s, S)
  PROVE  s \in SetToSeqs(S)
  <1>1. s \in Seq(S) /\ Len(s) \in Nat /\ DOMAIN s = 1..Len(s) /\ s \in [1..Len(s) -> S]
    BY DEF Lists
  <1>2. s \in Bijection(1..Len(s), S)
    BY <1>1 DEF Lists, Bijection, Injection, Surjection, IsInjective
  <1>3. ExistsBijection(1..Len(s), S)
    BY <1>2 DEF ExistsBijection
  <1>4. Cardinality(S) = Len(s)
    BY <1>1, <1>3, FS_CountingElements
  <1>5. \A i, j \in 1..Len(s) : i # j => s[i] # s[j]
    BY <1>1 DEF Lists
  <1> QED BY <1>1, <1>4, <1>5 DEF SetToSeqs

\* Any element comes first in one of the orders.
LEMMA AnyMayBeFirst ==
  ASSUME NEW S, IsFiniteSet(S), NEW c \in S
  PROVE  \E s \in SetToSeqs(S) : s[1] = c
  <1> DEFINE one == <<c>>
             others == S \ {c}
             rest == SetToSeq(others)
  <1>1. IsFiniteSet(others)
    BY FS_Subset
  <1>2. Lists(rest, others)
    BY <1>1, OneOfTheOrders, EachOnce
  <1>3. Lists(one, {c}) /\ Len(one) = 1 /\ one[1] = c
    BY DEF Lists
  <1>4. {c} \cap others = {} /\ {c} \union others = S
    OBVIOUS
  <1> HIDE DEF one, others, rest
  <1>5. Lists(one \o rest, S) /\ Follows(one \o rest, one, Len(one), {c}, rest, Len(rest), others)
    BY <1>2, <1>3, <1>4, ListsConcat
  <1>6. (one \o rest)[1] = c
    <2> DEFINE a == one \o rest
    <2>1. Follows(a, one, 1, {c}, rest, Len(rest), others)
      BY <1>3, <1>5
    <2> HIDE DEF a
    <2>2. a[1] = one[1]
      BY <2>1 DEF Follows
    <2> QED BY <1>3, <2>2 DEF a
  <1> QED BY <1>5, <1>6, OrdersAreAll

\* A kind of which there is at most one child.
LEMMA LoneChild ==
  ASSUME NEW S, NEW s, Lists(s, S), \A x, y \in S : x = y
  PROVE  \A c \in S : s[1] = c
  <1> SUFFICES ASSUME NEW c \in S PROVE s[1] = c
    OBVIOUS
  <1>1. s \in Seq(S) /\ \E i \in DOMAIN s : s[i] = c
    BY DEF Lists
  <1>2. s[1] \in S
    BY <1>1
  <1> QED BY <1>2

\* Four kinds of children, one after the other.
LEMMA FourKinds ==
  ASSUME NEW A, NEW B, NEW C, NEW D, Kind(A, 1), Kind(B, 2), Kind(C, 3), Kind(D, 4),
         NEW a, NEW b, NEW c, NEW d, Lists(a, A), Lists(b, B), Lists(c, C), Lists(d, D)
  PROVE  /\ Lists(a \o b \o c \o d, A \union B \union C \union D)
         /\ Ranked(a \o b \o c \o d)
         /\ \A x \in A : a[1] = x => FirstOfKind(a \o b \o c \o d, x)
         /\ \A x \in B : b[1] = x => FirstOfKind(a \o b \o c \o d, x)
         /\ \A x \in C : c[1] = x => FirstOfKind(a \o b \o c \o d, x)
         /\ \A x \in D : d[1] = x => FirstOfKind(a \o b \o c \o d, x)
  <1>1. /\ \A x \in A : RankOf(x) = 1
        /\ \A x \in B : RankOf(x) = 2
        /\ \A x \in C : RankOf(x) = 3
        /\ \A x \in D : RankOf(x) = 4
    BY DEF Kind
  <1> DEFINE none == <<>>
             AB == A \union B
             ABC == AB \union C
             ab == a \o b
             abc == ab \o c
             abcd == abc \o d
  <1>2. Lists(none, {}) /\ Ranked(none)
    BY DEF Lists, Ranked
  <1>3. none \o a = a
    <2>1. a \in Seq(A)
      BY DEF Lists
    <2> QED BY <2>1
  <1> HIDE DEF none
  <1>4. Ranked(a) /\ \A x \in A : a[1] = x => FirstOfKind(a, x)
    <2>1. \A x \in {} : RankOf(x) \in Nat /\ RankOf(x) < 1
      OBVIOUS
    <2>2. {} \cap A = {} /\ 1 \in Nat
      OBVIOUS
    <2>3. Ranked(none \o a) /\ \A x \in A : a[1] = x => FirstOfKind(none \o a, x)
      BY <1>1, <1>2, <2>1, <2>2, RankedConcat
    <2> QED BY <1>3, <2>3
  <1> HIDE DEF AB, ab, ABC, abc, abcd
  <1>5. /\ Lists(ab, AB) /\ Ranked(ab)
        /\ \A x \in A : FirstOfKind(a, x) => FirstOfKind(ab, x)
        /\ \A x \in B : b[1] = x => FirstOfKind(ab, x)
    <2>1. A \cap B = {}
      BY <1>1
    <2>2. Lists(ab, AB)
      BY <2>1, ListsConcat DEF ab, AB
    <2>3. \A x \in A : RankOf(x) \in Nat /\ RankOf(x) < 2
      BY <1>1
    <2>4. /\ Ranked(a \o b) /\ \A x \in A : FirstOfKind(a, x) => FirstOfKind(a \o b, x)
          /\ \A x \in B : b[1] = x => FirstOfKind(a \o b, x)
      BY <1>1, <1>4, <2>1, <2>3, RankedConcat
    <2> QED BY <2>2, <2>4 DEF ab
  <1>6. \A x \in AB : RankOf(x) \in Nat /\ RankOf(x) < 3
    BY <1>1 DEF AB
  <1>7. /\ Lists(abc, ABC) /\ Ranked(abc)
        /\ \A x \in AB : FirstOfKind(ab, x) => FirstOfKind(abc, x)
        /\ \A x \in C : c[1] = x => FirstOfKind(abc, x)
    <2>1. AB \cap C = {}
      BY <1>1, <1>6
    <2>2. Lists(abc, ABC)
      BY <1>5, <2>1, ListsConcat DEF abc, ABC
    <2>3. /\ Ranked(ab \o c) /\ \A x \in AB : FirstOfKind(ab, x) => FirstOfKind(ab \o c, x)
          /\ \A x \in C : c[1] = x => FirstOfKind(ab \o c, x)
      BY <1>1, <1>5, <1>6, <2>1, RankedConcat
    <2> QED BY <2>2, <2>3 DEF abc
  <1>8. \A x \in ABC : RankOf(x) \in Nat /\ RankOf(x) < 4
    BY <1>1, <1>6 DEF ABC
  <1>9. /\ Lists(abcd, ABC \union D) /\ Ranked(abcd)
        /\ \A x \in ABC : FirstOfKind(abc, x) => FirstOfKind(abcd, x)
        /\ \A x \in D : d[1] = x => FirstOfKind(abcd, x)
    <2>1. ABC \cap D = {}
      BY <1>1, <1>8
    <2>2. Lists(abcd, ABC \union D)
      BY <1>7, <2>1, ListsConcat DEF abcd
    <2>3. /\ Ranked(abc \o d) /\ \A x \in ABC : FirstOfKind(abc, x) => FirstOfKind(abc \o d, x)
          /\ \A x \in D : d[1] = x => FirstOfKind(abc \o d, x)
      BY <1>1, <1>7, <1>8, <2>1, RankedConcat
    <2> QED BY <2>2, <2>3 DEF abcd
  <1>10. A \subseteq AB /\ B \subseteq AB /\ AB \subseteq ABC /\ C \subseteq ABC
    BY DEF AB, ABC
  <1>11. /\ \A x \in A : a[1] = x => FirstOfKind(abcd, x)
         /\ \A x \in B : b[1] = x => FirstOfKind(abcd, x)
         /\ \A x \in C : c[1] = x => FirstOfKind(abcd, x)
    BY <1>4, <1>5, <1>7, <1>9, <1>10
  <1> QED BY <1>9, <1>11 DEF abcd, abc, ab, ABC, AB

-----------------------------------------------------------------------------
(* The children of a node.                                                 *)

\* p is on the way to q, or q.
Begins(p, q) == Len(p) <= Len(q) /\ \A i \in 1..Len(p) : q[i] = p[i]

\* The children that BackSearchChild tries for a text.
Tried(tree, pos, text) ==
    {c \in DOMAIN tree :
        Len(c) = Len(pos) + 1 /\ Begins(pos, c) /\ Accepts(c[Len(c)], text)}

\* Positions are sequences.
LEMMA NodePositions ==
  ASSUME NEW tree, TreeInv(tree), NEW p \in DOMAIN tree
  PROVE  /\ p \in Seq(Slots) /\ Len(p) \in Nat /\ DOMAIN p = 1..Len(p)
         /\ \A i \in 1..Len(p) : p[i] \in Slots /\ Keyless(p[i])
         /\ p = Root <=> Len(p) = 0
  <1>1. p \in Seq(Slots)
    BY DEF TreeInv, TreeType
  <1>2. \A i \in 1..Len(p) : Keyless(p[i])
    BY DEF TreeInv, OneOfAKind
  <1>3. p = Root <=> Len(p) = 0
    BY <1>1 DEF Root
  <1> QED BY <1>1, <1>2, <1>3

\* The node on the way to p with the first i of its slots.
LEMMA OnTheWay ==
  ASSUME NEW tree, TreeInv(tree), NEW p \in DOMAIN tree, NEW i \in 0..Len(p)
  PROVE  /\ SubSeq(p, 1, i) \in DOMAIN tree
         /\ Len(SubSeq(p, 1, i)) = i
         /\ \A j \in 1..i : SubSeq(p, 1, i)[j] = p[j]
         /\ Begins(SubSeq(p, 1, i), p)
  <1>1. p \in Seq(Slots) /\ Len(p) \in Nat
    BY NodePositions
  <1> DEFINE q == SubSeq(p, 1, i)
  <1>2. Len(q) = i /\ \A j \in 1..i : q[j] = p[j]
    BY <1>1
  <1>3. q \in DOMAIN tree
    <2>1. CASE i = 0
      <3>1. q \in Seq(Slots) /\ Len(q) = 0
        BY <1>1, <2>1
      <3>2. q = Root
        BY <3>1 DEF Root
      <3> QED BY <3>2 DEF TreeInv, TreeSpells
    <2>2. CASE i \in 1..Len(p)
      BY <2>2 DEF TreeInv, TreeSpells
    <2> QED BY <1>1, <2>1, <2>2
  <1> HIDE DEF q
  <1>4. Begins(q, p)
    BY <1>1, <1>2 DEF Begins
  <1> QED BY <1>2, <1>3, <1>4 DEF q

\* A node on the way to p is given by its depth.
LEMMA WayIsUnique ==
  ASSUME NEW p \in Seq(Slots), NEW q \in Seq(Slots), Begins(q, p)
  PROVE  /\ SubSeq(p, 1, Len(q)) = q
         /\ \A i \in 0..Len(q) : SubSeq(p, 1, i) = SubSeq(q, 1, i)
         /\ Len(p) = Len(q) => p = q
  <1>1. Len(q) <= Len(p) /\ \A i \in 1..Len(q) : p[i] = q[i]
    BY DEF Begins
  <1>2. SubSeq(p, 1, Len(q)) = q
    <2> DEFINE s == SubSeq(p, 1, Len(q))
    <2>1. s \in Seq(Slots) /\ Len(s) = Len(q) /\ \A i \in 1..Len(q) : s[i] = p[i]
      BY <1>1
    <2> HIDE DEF s
    <2>2. s = q
      BY <1>1, <2>1, SeqEqual
    <2> QED BY <2>2 DEF s
  <1>3. ASSUME NEW i \in 0..Len(q) PROVE SubSeq(p, 1, i) = SubSeq(q, 1, i)
    <2> DEFINE s == SubSeq(p, 1, i)  t == SubSeq(q, 1, i)
    <2>1. s \in Seq(Slots) /\ Len(s) = i /\ \A j \in 1..i : s[j] = p[j]
      BY <1>1
    <2>2. t \in Seq(Slots) /\ Len(t) = i /\ \A j \in 1..i : t[j] = q[j]
      BY <1>1
    <2>3. \A j \in 1..i : s[j] = t[j]
      BY <1>1, <2>1, <2>2
    <2> HIDE DEF s, t
    <2>4. s = t
      BY <2>1, <2>2, <2>3, SeqEqual
    <2> QED BY <2>4 DEF s, t
  <1>4. Len(p) = Len(q) => p = q
    BY <1>1, SeqEqual
  <1> QED BY <1>2, <1>3, <1>4

\* Who is on the way to a node is on the way to those behind it.
LEMMA WayGoesOn ==
  ASSUME NEW p \in Seq(Slots), NEW q \in Seq(Slots), NEW r \in Seq(Slots),
         Begins(p, q), Begins(q, r)
  PROVE  Begins(p, r)
  BY DEF Begins

\* A child of a node: a slot more.
LEMMA ChildIs ==
  ASSUME NEW tree, TreeInv(tree), NEW pos \in DOMAIN tree, NEW c \in DOMAIN tree
  PROVE  (c # Root /\ Front(c) = pos) <=> (Len(c) = Len(pos) + 1 /\ Begins(pos, c))
  <1>1. /\ c \in Seq(Slots) /\ Len(c) \in Nat /\ pos \in Seq(Slots) /\ Len(pos) \in Nat
        /\ c = Root <=> Len(c) = 0
    BY NodePositions
  <1>2. ASSUME Len(c) = Len(pos) + 1, Begins(pos, c) PROVE c # Root /\ Front(c) = pos
    <2>1. SubSeq(c, 1, Len(pos)) = pos
      BY <1>1, <1>2, WayIsUnique
    <2> QED BY <1>1, <1>2, <2>1 DEF Front
  <1>3. ASSUME c # Root, Front(c) = pos PROVE Len(c) = Len(pos) + 1 /\ Begins(pos, c)
    <2>1. Len(c) - 1 \in 0..Len(c)
      BY <1>1, <1>3
    <2>2. Len(pos) = Len(c) - 1 /\ Begins(pos, c)
      BY <1>3, <2>1, OnTheWay DEF Front
    <2> QED BY <1>1, <2>2
  <1> QED BY <1>2, <1>3

\* What a slot of each kind accepts (Accepts and ChildrenFor say it alike), and the
\* order of the kinds.
LEMMA KindsOfSlots ==
  /\ \A slot, text :
       (CASE slot.typ = "static" -> slot.key = text
          [] slot.typ = "regexp" -> <<slot.key, text>> \in MatchString
          [] OTHER -> TRUE) <=> Accepts(slot, text)
  /\ Rank("static") = 1 /\ Rank("regexp") = 2 /\ Rank("param") = 3 /\ Rank("star") = 4
  /\ \A slot \in Slots : slot.typ \in {"static", "regexp", "param", "star"}
  /\ \A a, b \in Slots : a.typ = b.typ /\ a.key = b.key => a = b
  <1>1. /\ Rank("static") = 1 /\ Rank("regexp") = 2 /\ Rank("param") = 3 /\ Rank("star") = 4
    BY DEF Rank
  <1>2. \A slot \in Slots : slot.typ \in {"static", "regexp", "param", "star"}
    BY DEF Slots, NodeTypes
  <1>3. \A a, b \in Slots : a.typ = b.typ /\ a.key = b.key => a = b
    BY DEF Slots
  <1>4. \A slot, text :
           (CASE slot.typ = "static" -> slot.key = text
              [] slot.typ = "regexp" -> <<slot.key, text>> \in MatchString
              [] OTHER -> TRUE) <=> Accepts(slot, text)
    BY Zenon DEF Accepts
  <1> QED BY <1>1, <1>2, <1>3, <1>4

\* The children of one type are those of the node with that slot.
LEMMA ChildrenOfType ==
  ASSUME NEW tree, TreeInv(tree), NEW pos \in DOMAIN tree, NEW text, NEW type
  PROVE  \A c : c \in ChildrenFor(tree, pos, type, text) <=>
                  c \in Tried(tree, pos, text) /\ c[Len(c)].typ = type
  <1> SUFFICES ASSUME NEW c \in DOMAIN tree
               PROVE  c \in ChildrenFor(tree, pos, type, text) <=>
                        c \in Tried(tree, pos, text) /\ c[Len(c)].typ = type
    BY DEF ChildrenFor, Tried
  <1>1. (c # Root /\ Front(c) = pos) <=> (Len(c) = Len(pos) + 1 /\ Begins(pos, c))
    BY ChildIs
  <1>2. c[Len(c)].typ = type =>
          ((CASE type = "static" -> Last(c).key = text
              [] type = "regexp" -> <<Last(c).key, text>> \in MatchString
              [] OTHER -> TRUE) <=> Accepts(c[Len(c)], text))
    BY KindsOfSlots, Zenon DEF Last
  <1> QED BY <1>1, <1>2, Zenon DEF ChildrenFor, Tried, Last

\* A node has one child at most of each kind but regexps.
LEMMA OnlyChild ==
  ASSUME NEW tree, TreeInv(tree), NEW pos \in DOMAIN tree, NEW text,
         NEW type \in {"static", "param", "star"}
  PROVE  \A x, y \in ChildrenFor(tree, pos, type, text) : x = y
  <1> SUFFICES ASSUME NEW x \in ChildrenFor(tree, pos, type, text),
                      NEW y \in ChildrenFor(tree, pos, type, text)
               PROVE  x = y
    OBVIOUS
  <1>1. /\ x \in Tried(tree, pos, text) /\ x[Len(x)].typ = type
        /\ y \in Tried(tree, pos, text) /\ y[Len(y)].typ = type
    BY ChildrenOfType
  <1>2. /\ x \in DOMAIN tree /\ Len(x) = Len(pos) + 1 /\ Begins(pos, x)
        /\ Accepts(x[Len(x)], text)
        /\ y \in DOMAIN tree /\ Len(y) = Len(pos) + 1 /\ Begins(pos, y)
        /\ Accepts(y[Len(y)], text)
    BY <1>1 DEF Tried
  <1>3. /\ x \in Seq(Slots) /\ y \in Seq(Slots) /\ Len(pos) \in Nat
        /\ x[Len(x)] \in Slots /\ Keyless(x[Len(x)])
        /\ y[Len(y)] \in Slots /\ Keyless(y[Len(y)])
    <2>1. Len(pos) \in Nat
      BY NodePositions
    <2>2. Len(x) \in 1..Len(x) /\ Len(y) \in 1..Len(y)
      BY <1>2, <2>1
    <2> QED BY <1>2, <2>1, <2>2, NodePositions
  <1> DEFINE a == x[Len(x)]  b == y[Len(y)]
  <1>4. a.key = b.key
    <2>1. /\ a.typ = type /\ b.typ = type /\ Accepts(a, text) /\ Accepts(b, text)
          /\ Keyless(a) /\ Keyless(b)
      BY <1>1, <1>2, <1>3
    <2> HIDE DEF a, b
    <2> QED BY <2>1 DEF Accepts, Keyless
  <1>5. a = b
    <2>1. a \in Slots /\ b \in Slots /\ a.typ = b.typ
      BY <1>1, <1>3
    <2> HIDE DEF a, b
    <2> QED BY <1>4, <2>1 DEF Slots
  <1>6. \A i \in 1..Len(x) : x[i] = y[i]
    <2>1. \A i \in 1..Len(pos) : x[i] = y[i]
      BY <1>2 DEF Begins
    <2>2. x[Len(pos) + 1] = y[Len(pos) + 1]
      BY <1>2, <1>5
    <2>3. \A i \in 1..(Len(pos) + 1) : i \in 1..Len(pos) \/ i = Len(pos) + 1
      BY <1>3
    <2> QED BY <1>2, <2>1, <2>2, <2>3
  <1> QED BY <1>2, <1>3, <1>6, SeqEqual

\* In every order the children of a node that accept the text are each tried once,
\* better kinds first; and each may be the first of its kind.
LEMMA OrdersFacts ==
  ASSUME NEW tree, TreeInv(tree), NEW pos \in DOMAIN tree, NEW text
  PROVE  /\ TryOrders(tree, pos, text) # {}
         /\ \A order \in TryOrders(tree, pos, text) :
              Lists(order, Tried(tree, pos, text)) /\ Ranked(order)
         /\ \A c \in Tried(tree, pos, text) :
              \E order \in TryOrders(tree, pos, text) : FirstOfKind(order, c)
  <1> DEFINE A == ChildrenFor(tree, pos, "static", text)
             B == ChildrenFor(tree, pos, "regexp", text)
             C == ChildrenFor(tree, pos, "param", text)
             D == ChildrenFor(tree, pos, "star", text)
             all == Tried(tree, pos, text)
             a == SetToSeq(A)
             c == SetToSeq(C)
             d == SetToSeq(D)
  <1>1. TryOrders(tree, pos, text) = {a \o b \o c \o d : b \in SetToSeqs(B)}
    BY Zenon DEF TryOrders
  <1>2. IsFiniteSet(A) /\ IsFiniteSet(B) /\ IsFiniteSet(C) /\ IsFiniteSet(D)
    <2>1. A \subseteq DOMAIN tree /\ B \subseteq DOMAIN tree /\ C \subseteq DOMAIN tree
          /\ D \subseteq DOMAIN tree
      BY Zenon DEF ChildrenFor
    <2>2. IsFiniteSet(DOMAIN tree)
      BY DEF TreeInv, OneOfAKind
    <2> HIDE DEF A, B, C, D
    <2> QED BY <2>1, <2>2, FS_Subset
  <1>3. Kind(A, 1) /\ Kind(B, 2) /\ Kind(C, 3) /\ Kind(D, 4)
    <2>1. /\ \A x \in A : Last(x).typ = "static"
          /\ \A x \in B : Last(x).typ = "regexp"
          /\ \A x \in C : Last(x).typ = "param"
          /\ \A x \in D : Last(x).typ = "star"
      BY Zenon DEF ChildrenFor
    <2> HIDE DEF A, B, C, D
    <2> QED BY <1>2, <2>1, KindsOfSlots, Zenon DEF Kind, RankOf
  <1>4. A \union B \union C \union D = all
    <2>1. ASSUME NEW x \in all PROVE x \in A \/ x \in B \/ x \in C \/ x \in D
      <3>1. x \in DOMAIN tree /\ Len(x) = Len(pos) + 1
        BY DEF Tried
      <3>2. Len(x) \in 1..Len(x)
        BY <3>1, NodePositions
      <3>3. x[Len(x)] \in Slots
        BY <3>1, <3>2, NodePositions
      <3>4. x[Len(x)].typ \in {"static", "regexp", "param", "star"}
        BY <3>3, KindsOfSlots, Zenon
      <3> QED BY <3>4, ChildrenOfType, Zenon
    <2>2. ASSUME NEW x, x \in A \/ x \in B \/ x \in C \/ x \in D PROVE x \in all
      BY <2>2, ChildrenOfType, Zenon
    <2> HIDE DEF A, B, C, D, all
    <2> QED BY <2>1, <2>2
  <1>5. /\ \A x, y \in A : x = y
        /\ \A x, y \in C : x = y
        /\ \A x, y \in D : x = y
    BY OnlyChild, Zenon
  <1> HIDE DEF A, B, C, D
  <1>6. Lists(a, A) /\ Lists(c, C) /\ Lists(d, D)
    BY <1>2, OneOfTheOrders, EachOnce
  <1>7. \A b \in SetToSeqs(B) : Lists(b, B)
    BY <1>2, EachOnce
  <1>8. SetToSeq(B) \in SetToSeqs(B)
    BY <1>2, OneOfTheOrders
  <1> HIDE DEF a, c, d, all
  <1>9. ASSUME NEW b \in SetToSeqs(B)
        PROVE  /\ Lists(a \o b \o c \o d, all)
               /\ Ranked(a \o b \o c \o d)
               /\ \A x \in A : a[1] = x => FirstOfKind(a \o b \o c \o d, x)
               /\ \A x \in B : b[1] = x => FirstOfKind(a \o b \o c \o d, x)
               /\ \A x \in C : c[1] = x => FirstOfKind(a \o b \o c \o d, x)
               /\ \A x \in D : d[1] = x => FirstOfKind(a \o b \o c \o d, x)
    <2>1. Lists(b, B)
      BY <1>7
    <2>2. /\ Lists(a \o b \o c \o d, A \union B \union C \union D)
          /\ Ranked(a \o b \o c \o d)
          /\ \A x \in A : a[1] = x => FirstOfKind(a \o b \o c \o d, x)
          /\ \A x \in B : b[1] = x => FirstOfKind(a \o b \o c \o d, x)
          /\ \A x \in C : c[1] = x => FirstOfKind(a \o b \o c \o d, x)
          /\ \A x \in D : d[1] = x => FirstOfKind(a \o b \o c \o d, x)
      BY <1>3, <1>6, <2>1, FourKinds
    <2> QED BY <1>4, <2>2, Zenon
  <1>10. ASSUME NEW x \in all
         PROVE  \E order \in TryOrders(tree, pos, text) : FirstOfKind(order, x)
    <2>1. x \in A \/ x \in B \/ x \in C \/ x \in D
      BY <1>4
    <2>2. (x \in A => a[1] = x) /\ (x \in C => c[1] = x) /\ (x \in D => d[1] = x)
      BY <1>5, <1>6, LoneChild
    <2>3. CASE x \in B
      <3>1. PICK b \in SetToSeqs(B) : b[1] = x
        BY <1>2, <2>3, AnyMayBeFirst
      <3>2. FirstOfKind(a \o b \o c \o d, x)
        BY <1>9, <2>3, <3>1, Zenon
      <3> QED BY <1>1, <3>2, Zenon
    <2>4. CASE x \notin B
      <3> DEFINE b == SetToSeq(B)
      <3>1. FirstOfKind(a \o b \o c \o d, x)
        BY <1>8, <1>9, <2>1, <2>2, <2>4, Zenon
      <3> QED BY <1>1, <1>8, <3>1, Zenon
    <2> QED BY <2>3, <2>4
  <1>11. TryOrders(tree, pos, text) # {}
    BY <1>1, <1>8
  <1>12. \A order \in TryOrders(tree, pos, text) : Lists(order, all) /\ Ranked(order)
    BY <1>1, <1>9, Zenon
  <1> QED BY <1>10, <1>11, <1>12 DEF all

-----------------------------------------------------------------------------
(* The recursive definitions.                                              *)

\* A set of numbers that is not empty has a least one.
LEMMA LeastNat ==
  ASSUME NEW S \in SUBSET Nat, S # {}
  PROVE  \E n \in S : \A k \in S : n <= k
  <1>1. IsWellFoundedOn(OpToRel(<, Nat), Nat)
    BY NatLessThanWellFounded
  <1>2. PICK n \in S : \A k \in S : <<k, n>> \notin OpToRel(<, Nat)
    BY <1>1, WFMin
  <1>3. \A k \in S : ~(k < n)
    BY <1>2 DEF OpToRel
  <1> QED BY <1>3

\* Induction up to L, for a set of numbers.
LEMMA UpTo ==
  ASSUME NEW L \in Nat, NEW S \in SUBSET (0..L), 0 \in S,
         \A k \in 1..L : k - 1 \in S => k \in S
  PROVE  \A k \in 0..L : k \in S
  <1> DEFINE bad == (0..L) \ S
  <1> SUFFICES ASSUME bad # {} PROVE FALSE
    OBVIOUS
  <1>1. bad \in SUBSET Nat
    OBVIOUS
  <1>2. PICK n \in bad : \A k \in bad : n <= k
    BY <1>1, LeastNat
  <1>3. n \in 1..L /\ n - 1 \in 0..L /\ n - 1 \notin bad
    BY <1>2
  <1> QED BY <1>2, <1>3

IsLoop(tried, tree, order, text, search) ==
    /\ tried[0] = {NotFound(NoWrites)}
    /\ \A k \in 1..Len(order) :
         tried[k] = TryChild(tree, order[k], text, tried[k - 1], search[order[k]])

\* The loop over the children, turn by turn.
LEMMA TryChildrenDef ==
  ASSUME NEW tree, NEW order, Len(order) \in Nat, NEW text, NEW search
  PROVE  IsLoop(TryChildren(tree, order, text, search), tree, order, text, search)
  <1> DEFINE L == Len(order)
             none == {NotFound(NoWrites)}
             Turn(k, before) == TryChild(tree, order[k], text, before, search[order[k]])
             Tries(f, k) == f = [n \in 0..k |-> IF n = 0 THEN none ELSE Turn(n, f[n - 1])]
             S == {k \in 0..L : \E f : Tries(f, k)}
  <1> HIDE DEF Turn, none
  <1>1. L \in Nat
    OBVIOUS
  <1>2. 0 \in S
    <2> DEFINE f == [n \in 0..0 |-> none]
    <2>1. f = [n \in 0..0 |-> IF n = 0 THEN none ELSE Turn(n, f[n - 1])]
      OBVIOUS
    <2>2. Tries(f, 0)
      BY <2>1
    <2> HIDE DEF f, Tries, L
    <2> QED BY <1>1, <2>2
  <1> HIDE DEF L
  <1>3. ASSUME NEW k \in 1..L, k - 1 \in S PROVE k \in S
    <2>1. PICK f : Tries(f, k - 1)
      BY <1>3
    <2> DEFINE g == [n \in 0..k |-> IF n = k THEN Turn(k, f[k - 1]) ELSE f[n]]
    <2>2. ASSUME NEW n \in 0..k PROVE g[n] = IF n = 0 THEN none ELSE Turn(n, g[n - 1])
      <3>1. k \in Nat /\ k >= 1 /\ (n # 0 => n - 1 \in 0..k /\ n - 1 # k)
        BY <1>1
      <3>2. CASE n = k
        BY <3>1, <3>2
      <3>3. CASE n # k
        <4>1. n \in 0..(k - 1)
          BY <3>1, <3>3
        <4>2. f[n] = IF n = 0 THEN none ELSE Turn(n, f[n - 1])
          BY <2>1, <4>1
        <4> QED BY <3>1, <3>3, <4>2
      <3> QED BY <3>2, <3>3
    <2>3. g = [n \in 0..k |-> g[n]]
      OBVIOUS
    <2> HIDE DEF g
    <2>4. Tries(g, k)
      BY <2>2, <2>3
    <2>5. k \in 0..L
      BY <1>1
    <2> HIDE DEF Tries
    <2> QED BY <2>4, <2>5
  <1>4. L \in S
    <2>1. S \in SUBSET (0..L)
      OBVIOUS
    <2>2. \A k \in 1..L : k - 1 \in S => k \in S
      BY <1>3
    <2> HIDE DEF S
    <2>3. \A k \in 0..L : k \in S
      BY <1>1, <1>2, <2>1, <2>2, UpTo
    <2> QED BY <1>1, <2>3
  <1> DEFINE tried == TryChildren(tree, order, text, search)
  <1>5. tried = CHOOSE f : Tries(f, L)
    BY Zenon DEF TryChildren, L, Turn, none
  <1>6. \E f : Tries(f, L)
    BY <1>4
  <1> HIDE DEF Tries, tried
  <1>7. Tries(tried, L)
    BY <1>5, <1>6, Zenon
  <1>8. tried = [n \in 0..L |-> IF n = 0 THEN none ELSE Turn(n, tried[n - 1])]
    BY <1>7, Zenon DEF Tries
  <1>9. tried[0] = none /\ \A n \in 1..L : tried[n] = Turn(n, tried[n - 1])
    <2>1. ASSUME NEW n \in 0..L PROVE tried[n] = IF n = 0 THEN none ELSE Turn(n, tried[n - 1])
      BY <1>8, Zenon
    <2>2. 0 \in 0..L /\ \A n \in 1..L : n \in 0..L /\ n # 0
      BY <1>1
    <2> QED BY <2>1, <2>2, Zenon
  <1> QED BY <1>9, Zenon DEF IsLoop, tried, L, Turn, none

\* The loop looks at the searches of its own children only.
LEMMA TryChildrenReads ==
  ASSUME NEW tree, NEW order, Len(order) \in Nat, NEW text, NEW f, NEW g,
         \A i \in 1..Len(order) : f[order[i]] = g[order[i]]
  PROVE  TryChildren(tree, order, text, f)[Len(order)] =
         TryChildren(tree, order, text, g)[Len(order)]
  <1> DEFINE L == Len(order)
             F == TryChildren(tree, order, text, f)
             G == TryChildren(tree, order, text, g)
             S == {k \in 0..L : F[k] = G[k]}
  <1>1. /\ F[0] = {NotFound(NoWrites)} /\ G[0] = {NotFound(NoWrites)}
        /\ \A k \in 1..L :
             /\ F[k] = TryChild(tree, order[k], text, F[k - 1], f[order[k]])
             /\ G[k] = TryChild(tree, order[k], text, G[k - 1], g[order[k]])
    <2>1. IsLoop(F, tree, order, text, f) /\ IsLoop(G, tree, order, text, g)
      BY TryChildrenDef
    <2> HIDE DEF F, G
    <2> QED BY <2>1, Zenon DEF IsLoop
  <1>2. L \in Nat
    OBVIOUS
  <1>3. \A k \in 1..L : f[order[k]] = g[order[k]]
    OBVIOUS
  <1> HIDE DEF L, F, G
  <1>4. S \in SUBSET (0..L) /\ 0 \in S
    <2>1. F[0] = G[0]
      BY <1>1, Zenon
    <2> QED BY <1>2, <2>1
  <1>5. ASSUME NEW k \in 1..L, k - 1 \in S PROVE k \in S
    BY <1>1, <1>2, <1>3, <1>5
  <1> HIDE DEF S
  <1>6. \A k \in 0..L : k \in S
    BY <1>2, <1>4, <1>5, UpTo
  <1>7. F[L] = G[L]
    BY <1>2, <1>6 DEF S
  <1> QED BY <1>7 DEF F, G, L

\* A call looks at the searches of deeper nodes only.
LEMMA SearchReads ==
  ASSUME NEW tree, TreeInv(tree), NEW segs, Len(segs) \in Nat,
         NEW pos \in DOMAIN tree, Len(pos) <= Len(segs), NEW f, NEW g,
         \A c \in DOMAIN tree : Len(pos) < Len(c) /\ Len(c) <= Len(segs) => f[c] = g[c]
  PROVE  BackSearchChild(tree, pos, segs, f) = BackSearchChild(tree, pos, segs, g)
  <1>1. CASE Len(pos) = Len(segs)
    BY <1>1, Zenon DEF BackSearchChild
  <1>2. CASE Len(pos) # Len(segs)
    <2> DEFINE text == segs[Len(pos) + 1]
    <2>1. Len(pos) \in Nat /\ Len(pos) < Len(segs)
      BY <1>2, NodePositions
    <2> HIDE DEF text
    <2>2. ASSUME NEW order \in TryOrders(tree, pos, text)
          PROVE  TryChildren(tree, order, text, f)[Len(order)] =
                 TryChildren(tree, order, text, g)[Len(order)]
      <3>1. order \in Seq(Tried(tree, pos, text))
        BY OrdersFacts DEF Lists
      <3>2. Len(order) \in Nat /\ \A i \in 1..Len(order) : order[i] \in Tried(tree, pos, text)
        BY <3>1
      <3>3. \A c \in Tried(tree, pos, text) : f[c] = g[c]
        BY <2>1 DEF Tried
      <3> QED BY <3>2, <3>3, TryChildrenReads
    <2>3. BackSearchChild(tree, pos, segs, f) =
            UNION {TryChildren(tree, order, text, f)[Len(order)] :
                   order \in TryOrders(tree, pos, text)}
      BY <1>2, Zenon DEF BackSearchChild, text
    <2>4. BackSearchChild(tree, pos, segs, g) =
            UNION {TryChildren(tree, order, text, g)[Len(order)] :
                   order \in TryOrders(tree, pos, text)}
      BY <1>2, Zenon DEF BackSearchChild, text
    <2>5. {TryChildren(tree, order, text, f)[Len(order)] : order \in TryOrders(tree, pos, text)}
        = {TryChildren(tree, order, text, g)[Len(order)] : order \in TryOrders(tree, pos, text)}
      BY <2>2
    <2> QED BY <2>3, <2>4, <2>5, Zenon
  <1> QED BY <1>1, <1>2

\* Every call's outcomes are those of the body, with the outcomes of the calls it makes.
LEMMA SearchesDef ==
  ASSUME NEW tree, TreeInv(tree), NEW segs, Len(segs) \in Nat
  PROVE  \A pos \in DOMAIN tree : Len(pos) <= Len(segs) =>
           Searches(tree, segs)[pos] = BackSearchChild(tree, pos, segs, Searches(tree, segs))
  <1> DEFINE L == Len(segs)
             D == {p \in DOMAIN tree : Len(p) <= L}
             Body(f, pos) == BackSearchChild(tree, pos, segs, f)
             From(f, n) == \A pos \in D : L - n <= Len(pos) => f[pos] = Body(f, pos)
             S == {n \in 0..L : \E f : From(f, n)}
  <1>1. L \in Nat /\ \A p \in D : Len(p) \in 0..L
    BY NodePositions
  <1>2. \A f, g, pos : pos \in D /\ (\A c \in D : Len(pos) < Len(c) => f[c] = g[c]) =>
          Body(f, pos) = Body(g, pos)
    <2> SUFFICES ASSUME NEW f, NEW g, NEW pos \in D, \A c \in D : Len(pos) < Len(c) => f[c] = g[c]
                 PROVE  Body(f, pos) = Body(g, pos)
      BY Zenon
    <2>1. \A c \in DOMAIN tree : Len(pos) < Len(c) /\ Len(c) <= Len(segs) => f[c] = g[c]
      OBVIOUS
    <2> QED BY <2>1, SearchReads
  <1>3. \A f, pos : pos \in D /\ Len(pos) = L => Body(f, pos) = {Found(pos, NoWrites)}
    BY Zenon DEF BackSearchChild
  <1>4. Searches(tree, segs) = CHOOSE f : f = [pos \in D |-> Body(f, pos)]
    BY Zenon DEF Searches
  <1> HIDE DEF L, D, Body
  <1>5. 0 \in S
    <2> DEFINE f == [pos \in D |-> {Found(pos, NoWrites)}]
    <2>1. ASSUME NEW pos \in D, L - 0 <= Len(pos) PROVE f[pos] = Body(f, pos)
      <3>1. Len(pos) = L
        BY <1>1, <2>1
      <3>2. f[pos] = {Found(pos, NoWrites)}
        OBVIOUS
      <3> HIDE DEF f
      <3> QED BY <1>3, <3>1, <3>2, Zenon
    <2> HIDE DEF f
    <2>2. From(f, 0)
      BY <2>1
    <2> HIDE DEF From
    <2> QED BY <1>1, <2>2
  <1>6. ASSUME NEW n \in 1..L, n - 1 \in S PROVE n \in S
    <2>1. PICK f : From(f, n - 1)
      BY <1>6
    <2> DEFINE g == [pos \in D |-> IF Len(pos) = L - n THEN Body(f, pos) ELSE f[pos]]
    <2>2. \A c \in D : L - n < Len(c) => f[c] = g[c]
      BY <1>1
    <2>3. \A pos \in D : Len(pos) = L - n => g[pos] = Body(f, pos)
      OBVIOUS
    <2> HIDE DEF g
    <2>4. ASSUME NEW pos \in D, L - n <= Len(pos) PROVE g[pos] = Body(g, pos)
      <3>1. \A c \in D : Len(pos) < Len(c) => f[c] = g[c]
        BY <1>1, <2>2, <2>4
      <3>2. Body(f, pos) = Body(g, pos)
        BY <1>2, <3>1, Zenon
      <3>3. CASE Len(pos) = L - n
        BY <2>3, <3>2, <3>3
      <3>4. CASE Len(pos) # L - n
        <4>1. L - n < Len(pos) /\ L - (n - 1) <= Len(pos)
          BY <1>1, <2>4, <3>4
        <4>2. f[pos] = Body(f, pos)
          BY <2>1, <4>1
        <4> QED BY <2>2, <3>2, <4>1, <4>2
      <3> QED BY <3>3, <3>4
    <2>5. From(g, n)
      BY <2>4
    <2>6. n \in 0..L
      BY <1>1
    <2> HIDE DEF From
    <2> QED BY <2>5, <2>6
  <1>7. L \in S
    <2>1. S \in SUBSET (0..L)
      OBVIOUS
    <2>2. \A k \in 1..L : k - 1 \in S => k \in S
      BY <1>6
    <2> HIDE DEF S
    <2>3. \A k \in 0..L : k \in S
      BY <1>1, <1>5, <2>1, <2>2, UpTo
    <2> QED BY <1>1, <2>3
  <1>8. \E f : f = [pos \in D |-> Body(f, pos)]
    <2>1. PICK f : From(f, L)
      BY <1>7
    <2> DEFINE g == [pos \in D |-> f[pos]]
    <2>2. \A pos \in D : f[pos] = Body(f, pos)
      BY <1>1, <2>1
    <2>3. \A pos \in D : g[pos] = f[pos]
      OBVIOUS
    <2>4. g = [pos \in D |-> g[pos]]
      OBVIOUS
    <2> HIDE DEF g, From
    <2>5. \A pos \in D : Body(f, pos) = Body(g, pos)
      BY <1>2, <2>3, Zenon
    <2>6. \A pos \in D : g[pos] = Body(g, pos)
      BY <2>2, <2>3, <2>5, Zenon
    <2>7. g = [pos \in D |-> Body(g, pos)]
      BY <2>4, <2>6
    <2> QED BY <2>7
  <1> DEFINE s == Searches(tree, segs)
  <1> HIDE DEF s, From
  <1>9. s = [pos \in D |-> Body(s, pos)]
    BY <1>4, <1>8, Zenon DEF s
  <1>10. \A pos \in D : s[pos] = Body(s, pos)
    BY <1>9, Zenon
  <1> QED BY <1>10, Zenon DEF s, D, L, Body


-----------------------------------------------------------------------------
(* Where a search may end.                                                 *)

\* The nodes of S that no other is better than.
BestOf(S) == {p \in S : ~\E q \in S : Better(q, p)}

\* The first segments of the request lead to the node at pos.
Reached(tree, segs, pos) ==
    /\ pos \in DOMAIN tree /\ Len(pos) <= Len(segs)
    /\ \A i \in 1..Len(pos) : Accepts(pos[i], segs[i])

\* The nodes where the search of the node at pos may end.
Ends(tree, segs, pos) ==
    {p \in Matches(tree, segs) : Begins(pos, p) /\ (p # pos \/ Len(pos) = Len(segs))}

\* Those where trying the child c may end.
EndsVia(tree, segs, c) == {p \in Matches(tree, segs) : Begins(c, p)}

\* The kinds are ordered as numbers are.
LEMMA RankFacts == \A slot \in Slots : Rank(slot.typ) \in Nat
  <1> SUFFICES ASSUME NEW slot \in Slots PROVE Rank(slot.typ) \in Nat
    OBVIOUS
  <1>1. \/ Rank(slot.typ) = 1 \/ Rank(slot.typ) = 2
        \/ Rank(slot.typ) = 3 \/ Rank(slot.typ) = 4
    BY KindsOfSlots, Zenon
  <1> QED BY <1>1

\* A node that matches was reached, and the segments end there or its star takes
\* what is left.
LEMMA MatchFacts ==
  ASSUME NEW tree, NEW segs
  PROVE  \A p : p \in Matches(tree, segs) <=>
                  /\ Reached(tree, segs, p)
                  /\ Len(p) = Len(segs) \/ (p # Root /\ TakesTail(tree, p))
  BY Zenon DEF Matches, Reached

\* A node on the way to another is not better than it, and worse if it is not it.
LEMMA LongerIsBetter ==
  ASSUME NEW p \in Seq(Slots), NEW q \in Seq(Slots), Begins(p, q)
  PROVE  ~Better(p, q) /\ (Len(p) < Len(q) => Better(q, p))
  <1>1. /\ Len(p) \in Nat /\ Len(q) \in Nat /\ Len(p) <= Len(q)
        /\ \A i \in 1..Len(p) : q[i] = p[i] /\ Rank(p[i].typ) \in Nat
    BY RankFacts DEF Begins
  <1>2. ~Better(p, q)
    BY <1>1 DEF Better
  <1>3. ASSUME Len(p) < Len(q) PROVE Better(q, p)
    <2> DEFINE i == Len(p) + 1
    <2>1. i \in 1..Len(q) /\ i > Len(p) /\ \A j \in 1..(i - 1) : j <= Len(p) /\ q[j] = p[j]
      BY <1>1, <1>3
    <2> HIDE DEF i
    <2> QED BY <2>1 DEF Better
  <1> QED BY <1>2, <1>3

\* Of what is behind two children of a node, the children's kinds decide.
LEMMA KindDecides ==
  ASSUME NEW n \in Nat, NEW c \in Seq(Slots), NEW d \in Seq(Slots),
         Len(c) = n + 1, Len(d) = n + 1, c # d, \A i \in 1..n : c[i] = d[i],
         NEW p \in Seq(Slots), NEW q \in Seq(Slots), Begins(c, p), Begins(d, q)
  PROVE  /\ RankOf(c) <= RankOf(d) => ~Better(q, p)
         /\ RankOf(c) < RankOf(d) => Better(p, q)
  <1> DEFINE k == n + 1
  <1>1. /\ k \in Nat /\ k \in 1..Len(p) /\ k \in 1..Len(q)
        /\ Len(p) \in Nat /\ Len(q) \in Nat
        /\ p[k] = c[k] /\ q[k] = d[k]
        /\ \A i \in 1..(k - 1) : p[i] = q[i] /\ i <= Len(p) /\ i <= Len(q)
    BY DEF Begins
  <1>2. c[k] # d[k]
    <2> SUFFICES ASSUME c[k] = d[k] PROVE FALSE
      OBVIOUS
    <2>1. \A i \in 1..k : c[i] = d[i]
      OBVIOUS
    <2> QED BY <2>1, SeqEqual
  <1>3. RankOf(c) = Rank(p[k].typ) /\ RankOf(d) = Rank(q[k].typ)
    BY <1>1 DEF RankOf, Last
  <1>4. /\ \A i \in 1..Len(p) : Rank(p[i].typ) \in Nat
        /\ \A i \in 1..Len(q) : Rank(q[i].typ) \in Nat
    <2>1. (\A i \in 1..Len(p) : p[i] \in Slots) /\ (\A i \in 1..Len(q) : q[i] \in Slots)
      OBVIOUS
    <2> QED BY <2>1, RankFacts
  <1> HIDE DEF k
  <1>5. ASSUME RankOf(c) <= RankOf(d), Better(q, p) PROVE FALSE
    <2>1. PICK i \in 1..Len(q) :
            /\ \A j \in 1..(i - 1) : j <= Len(p) /\ q[j] = p[j]
            /\ i > Len(p) \/ Rank(q[i].typ) < Rank(p[i].typ)
      BY <1>5, Zenon DEF Better
    <2>2. CASE i < k
      <3>1. i \in 1..(k - 1)
        BY <1>1, <2>2
      <3>2. p[i] = q[i] /\ ~(i > Len(p)) /\ Rank(q[i].typ) \in Nat
        BY <1>1, <1>4, <3>1
      <3>3. Rank(q[i].typ) < Rank(q[i].typ)
        BY <2>1, <3>2
      <3> QED BY <3>2, <3>3
    <2>3. CASE i = k
      BY <1>1, <1>3, <1>4, <1>5, <2>1, <2>3
    <2>4. CASE i > k
      <3>1. k \in 1..(i - 1)
        BY <1>1, <2>4
      <3> QED BY <1>1, <1>2, <2>1, <3>1
    <2> QED BY <1>1, <2>2, <2>3, <2>4
  <1>6. ASSUME RankOf(c) < RankOf(d) PROVE Better(p, q)
    BY <1>1, <1>3, <1>6 DEF Better
  <1> QED BY <1>5, <1>6

\* What is behind a child of a node is behind the node, and the other way round.
LEMMA EndsOfNode ==
  ASSUME NEW tree, TreeInv(tree), NEW segs, Len(segs) \in Nat,
         NEW pos, Reached(tree, segs, pos), Len(pos) < Len(segs)
  PROVE  /\ \A c \in Tried(tree, pos, segs[Len(pos) + 1]) :
              Reached(tree, segs, c) /\ EndsVia(tree, segs, c) \subseteq Ends(tree, segs, pos)
         /\ \A p \in Ends(tree, segs, pos) :
              \E c \in Tried(tree, pos, segs[Len(pos) + 1]) : p \in EndsVia(tree, segs, c)
  <1>1. /\ pos \in DOMAIN tree /\ pos \in Seq(Slots) /\ Len(pos) \in Nat
        /\ \A i \in 1..Len(pos) : Accepts(pos[i], segs[i])
    BY NodePositions DEF Reached
  <1>2. ASSUME NEW c \in Tried(tree, pos, segs[Len(pos) + 1])
        PROVE  Reached(tree, segs, c) /\ EndsVia(tree, segs, c) \subseteq Ends(tree, segs, pos)
    <2>1. /\ c \in DOMAIN tree /\ Len(c) = Len(pos) + 1 /\ Begins(pos, c)
          /\ Accepts(c[Len(c)], segs[Len(pos) + 1])
      BY DEF Tried
    <2>2. c \in Seq(Slots)
      BY <2>1, NodePositions
    <2>3. Reached(tree, segs, c)
      <3>1. \A i \in 1..Len(c) : Accepts(c[i], segs[i])
        <4> TAKE i \in 1..Len(c)
        <4>1. CASE i = Len(c)
          BY <2>1, <4>1
        <4>2. CASE i # Len(c)
          <5>1. i \in 1..Len(pos)
            BY <1>1, <2>1, <4>2
          <5> QED BY <1>1, <2>1, <5>1 DEF Begins
        <4> QED BY <4>1, <4>2
      <3> QED BY <1>1, <2>1, <3>1 DEF Reached
    <2>4. ASSUME NEW p \in EndsVia(tree, segs, c) PROVE p \in Ends(tree, segs, pos)
      <3>1. p \in Matches(tree, segs) /\ Begins(c, p)
        BY DEF EndsVia
      <3>2. p \in DOMAIN tree
        BY <3>1, MatchFacts DEF Reached
      <3>3. p \in Seq(Slots)
        BY <3>2, NodePositions
      <3>4. Begins(pos, p)
        BY <1>1, <2>1, <2>2, <3>1, <3>3, WayGoesOn
      <3>5. Len(p) >= Len(pos) + 1
        BY <2>1, <3>1 DEF Begins
      <3>6. p # pos
        BY <1>1, <3>5
      <3> QED BY <3>1, <3>4, <3>6 DEF Ends
    <2> QED BY <2>3, <2>4
  <1>3. ASSUME NEW p \in Ends(tree, segs, pos)
        PROVE  \E c \in Tried(tree, pos, segs[Len(pos) + 1]) : p \in EndsVia(tree, segs, c)
    <2>1. p \in Matches(tree, segs) /\ Begins(pos, p) /\ p # pos
      BY <1>1 DEF Ends
    <2>2. /\ p \in DOMAIN tree /\ Len(p) <= Len(segs)
          /\ \A i \in 1..Len(p) : Accepts(p[i], segs[i])
      BY <2>1, MatchFacts DEF Reached
    <2>3. p \in Seq(Slots) /\ Len(p) \in Nat
      BY <2>2, NodePositions
    <2>4. Len(p) # Len(pos) /\ Len(pos) <= Len(p)
      BY <1>1, <2>1, <2>3, WayIsUnique DEF Begins
    <2> DEFINE n == Len(pos) + 1
               c == SubSeq(p, 1, n)
    <2>5. n \in 0..Len(p) /\ n \in 1..Len(p)
      BY <1>1, <2>3, <2>4
    <2>6. /\ c \in DOMAIN tree /\ Len(c) = n /\ \A j \in 1..n : c[j] = p[j]
          /\ Begins(c, p)
      BY <2>2, <2>5, OnTheWay
    <2> HIDE DEF c
    <2>7. Begins(pos, c)
      BY <1>1, <2>1, <2>6 DEF Begins
    <2>8. Accepts(c[Len(c)], segs[Len(pos) + 1])
      BY <1>1, <2>2, <2>5, <2>6
    <2>9. c \in Tried(tree, pos, segs[Len(pos) + 1])
      BY <2>6, <2>7, <2>8 DEF Tried
    <2>10. p \in EndsVia(tree, segs, c)
      BY <2>1, <2>6 DEF EndsVia
    <2> QED BY <2>9, <2>10
  <1> QED BY <1>2, <1>3

\* Nothing is behind the last level but the node itself.
LEMMA EndsOfLast ==
  ASSUME NEW tree, TreeInv(tree), NEW segs, Len(segs) \in Nat,
         NEW pos, Reached(tree, segs, pos), Len(pos) = Len(segs)
  PROVE  Ends(tree, segs, pos) = {pos} /\ BestOf(Ends(tree, segs, pos)) = {pos}
  <1>1. pos \in DOMAIN tree /\ pos \in Seq(Slots)
    BY NodePositions DEF Reached
  <1>2. Begins(pos, pos)
    BY <1>1 DEF Begins
  <1>3. pos \in Ends(tree, segs, pos)
    BY <1>2, MatchFacts DEF Ends
  <1>4. ASSUME NEW p \in Ends(tree, segs, pos) PROVE p = pos
    <2>1. p \in Matches(tree, segs) /\ Begins(pos, p)
      BY DEF Ends
    <2>2. p \in DOMAIN tree /\ Len(p) <= Len(segs)
      BY <2>1, MatchFacts DEF Reached
    <2>3. p \in Seq(Slots)
      BY <2>2, NodePositions
    <2>4. Len(p) = Len(pos)
      BY <1>1, <2>1, <2>2, <2>3 DEF Begins
    <2> QED BY <1>1, <2>1, <2>3, <2>4, WayIsUnique
  <1>5. Ends(tree, segs, pos) = {pos}
    BY <1>3, <1>4
  <1>6. ~Better(pos, pos)
    BY <1>1, <1>2, LongerIsBetter
  <1> QED BY <1>5, <1>6 DEF BestOf

-----------------------------------------------------------------------------
(* What a search returns.                                                  *)

\* Somewhere below the node at pos a node binds the name.
BoundBelow(tree, pos, name) ==
    \E q \in DOMAIN tree :
        Begins(pos, q) /\ \E j \in Levels(tree, q, name) : Len(pos) < j

\* The outcome ends at one of the best nodes of E, or there is none.
EndsWell(r, E) == IF r.found THEN r.n \in BestOf(E) ELSE E = {}

\* The names that have a value are bound to the segment of the last level below
\* pos that binds them.
ValuesFit(tree, segs, pos, r) ==
    \A name \in DOMAIN r.writes :
        r.writes[name] # Absent =>
            \E i \in Levels(tree, r.n, name) :
                /\ Len(pos) < i /\ r.writes[name] = segs[i]
                /\ \A j \in Levels(tree, r.n, name) : j <= i

\* The names bound below pos are written, and have a value if they are not bound
\* again.
NamesFit(tree, pos, r) ==
    \A i \in (Len(pos) + 1)..Len(r.n) : \A name :
        BindsAt(tree, r.n, i, name) =>
            /\ name \in DOMAIN r.writes
            /\ r.writes[name] # Absent \/ BoundAgain(tree, r.n, i, name)

\* What the search of the node at pos writes.
WritesFit(tree, segs, pos, r) ==
    /\ \A name \in DOMAIN r.writes : BoundBelow(tree, pos, name)
    /\ r.found => /\ r.n \in DOMAIN tree /\ Begins(pos, r.n)
                  /\ ValuesFit(tree, segs, pos, r) /\ NamesFit(tree, pos, r)
    /\ ~r.found => \A name \in DOMAIN r.writes : r.writes[name] = Absent

\* An outcome of the search of the node at pos, of which E is the set of nodes it
\* may have ended at so far.
Outcome(tree, segs, pos, E, r) == EndsWell(r, E) /\ WritesFit(tree, segs, pos, r)

\* What the outcomes of a search are: no wrong one, and all that are right.
Settles(tree, segs, pos, R) ==
    /\ R # {} /\ \A r \in R : Outcome(tree, segs, pos, Ends(tree, segs, pos), r)
    /\ \A p \in BestOf(Ends(tree, segs, pos)) : \E r \in R : r.found /\ r.n = p

\* The fields of an outcome.
LEMMA OutcomeFields ==
  /\ \A r, p, w : r = Found(p, w) => r.found /\ r.n = p /\ r.writes = w
  /\ \A r, w : r = NotFound(w) => ~r.found /\ r.writes = w
  BY DEF Found, NotFound

\* Writes one after the other.
LEMMA ThenFacts ==
  ASSUME NEW a, NEW b
  PROVE  /\ DOMAIN Then(a, b) = DOMAIN a \union DOMAIN b
         /\ \A x \in DOMAIN b : Then(a, b)[x] = b[x]
         /\ \A x \in DOMAIN a \ DOMAIN b : Then(a, b)[x] = a[x]
  BY DEF Then

\* Trying a child has three ends; own are its writes and those of its search.
ThreeEnds(r, tree, c, own, res) ==
    /\ res.found => r = Found(res.n, own)
    /\ ~res.found /\ TakesTail(tree, c) => r = Found(c, own)
    /\ ~res.found /\ ~TakesTail(tree, c) => r = NotFound(Then(own, RemoveValue(tree, c)))

\* They are those of AfterChild.
LEMMA AfterChildCases ==
  ASSUME NEW tree, NEW c, NEW text, NEW before, NEW res
  PROVE  ThreeEnds(AfterChild(tree, c, text, before, res), tree, c,
                   Then(Then(before, addValue(tree, c, text)), res.writes), res)
  <1>1. CASE res.found
    BY <1>1, Zenon DEF AfterChild, ThreeEnds
  <1>2. CASE ~res.found /\ TakesTail(tree, c)
    BY <1>2, Zenon DEF AfterChild, ThreeEnds
  <1>3. CASE ~res.found /\ ~TakesTail(tree, c)
    BY <1>3, Zenon DEF AfterChild, ThreeEnds
  <1> QED BY <1>1, <1>2, <1>3, Zenon

\* A child that binds writes its name, others write none; a star is such a one.
LEMMA ChildWrites ==
  ASSUME NEW tree, TreeInv(tree), NEW c \in DOMAIN tree, Len(c) # 0, NEW text
  PROVE  /\ DOMAIN RemoveValue(tree, c) = DOMAIN addValue(tree, c, text)
         /\ \A x \in DOMAIN addValue(tree, c, text) : addValue(tree, c, text)[x] = text
         /\ \A x \in DOMAIN RemoveValue(tree, c) : RemoveValue(tree, c)[x] = Absent
         /\ \A x : x \in DOMAIN addValue(tree, c, text) <=> BindsAt(tree, c, Len(c), x)
         /\ TakesTail(tree, c) => DOMAIN addValue(tree, c, text) = {}
  <1>1. SubSeq(c, 1, Len(c)) = c
    <2>1. c \in Seq(Slots)
      BY NodePositions
    <2>2. Begins(c, c)
      BY <2>1 DEF Begins
    <2> QED BY <2>1, <2>2, WayIsUnique
  <1>2. \A x : BindsAt(tree, c, Len(c), x) <=> Names(c) /\ tree[c].paramName = x
    BY <1>1, Zenon DEF BindsAt
  <1>3. TakesTail(tree, c) => ~Names(c)
    BY DEF TakesTail, Names
  <1>4. CASE Names(c)
    <2>1. /\ addValue(tree, c, text) = [x \in {tree[c].paramName} |-> text]
          /\ RemoveValue(tree, c) = [x \in {tree[c].paramName} |-> Absent]
      BY <1>4, Zenon DEF addValue, RemoveValue
    <2> QED BY <1>2, <1>3, <1>4, <2>1
  <1>5. CASE ~Names(c)
    <2>1. addValue(tree, c, text) = NoWrites /\ RemoveValue(tree, c) = NoWrites
      BY <1>5, Zenon DEF addValue, RemoveValue
    <2>2. DOMAIN NoWrites = {}
      BY DEF NoWrites
    <2> QED BY <1>2, <1>5, <2>1, <2>2, Zenon
  <1> QED BY <1>4, <1>5

\* Levels of the way to a node, and of a node behind it.
LEMMA LevelsOnTheWay ==
  ASSUME NEW tree, TreeInv(tree), NEW p \in DOMAIN tree, NEW c \in DOMAIN tree, Begins(c, p),
         NEW name
  PROVE  /\ \A i \in 1..Len(c) : BindsAt(tree, p, i, name) <=> BindsAt(tree, c, i, name)
         /\ \A i : i \in Levels(tree, p, name) <=>
                     i \in 1..Len(p) /\ BindsAt(tree, p, i, name)
  <1>1. p \in Seq(Slots) /\ c \in Seq(Slots)
    BY NodePositions
  <1>2. \A i \in 1..Len(c) : i \in 0..Len(c)
    BY <1>1
  <1>3. \A i \in 1..Len(c) : SubSeq(p, 1, i) = SubSeq(c, 1, i)
    BY <1>1, <1>2, WayIsUnique
  <1>4. \A i \in 1..Len(c) : BindsAt(tree, p, i, name) <=> BindsAt(tree, c, i, name)
    BY <1>3, Zenon DEF BindsAt
  <1>5. \A i : i \in Levels(tree, p, name) <=>
                 i \in 1..Len(p) /\ BindsAt(tree, p, i, name)
    BY Zenon DEF Levels
  <1> QED BY <1>4, <1>5

\* A name bound below a child is bound below the node, and again on the way of
\* what is behind the child.
LEMMA BelowChild ==
  ASSUME NEW tree, TreeInv(tree), NEW pos \in DOMAIN tree, NEW c \in DOMAIN tree,
         Len(c) = Len(pos) + 1, Begins(pos, c), NEW name
  PROVE  /\ BoundBelow(tree, c, name) => BoundBelow(tree, pos, name)
         /\ BindsAt(tree, c, Len(c), name) => BoundBelow(tree, pos, name)
         /\ \A p \in DOMAIN tree :
              Begins(c, p) /\ BoundBelow(tree, c, name) => BoundAgain(tree, p, Len(c), name)
  <1>1. /\ pos \in Seq(Slots) /\ Len(pos) \in Nat /\ c \in Seq(Slots) /\ Len(c) \in 1..Len(c)
    BY NodePositions
  <1>2. ASSUME BoundBelow(tree, c, name) PROVE BoundBelow(tree, pos, name)
    <2>1. PICK q \in DOMAIN tree :
            Begins(c, q) /\ \E j \in Levels(tree, q, name) : Len(c) < j
      BY <1>2, Zenon DEF BoundBelow
    <2>2. PICK j \in Levels(tree, q, name) : Len(c) < j
      BY <2>1
    <2>3. q \in Seq(Slots)
      BY NodePositions
    <2>4. Begins(pos, q)
      BY <1>1, <2>1, <2>3, WayGoesOn
    <2>5. j \in 1..Len(q)
      BY <2>2 DEF Levels
    <2>6. Len(pos) < j
      BY <1>1, <2>2, <2>3, <2>5
    <2> QED BY <2>2, <2>4, <2>6 DEF BoundBelow
  <1>3. ASSUME BindsAt(tree, c, Len(c), name) PROVE BoundBelow(tree, pos, name)
    <2>1. Len(c) \in Levels(tree, c, name) /\ Len(pos) < Len(c)
      BY <1>1, <1>3 DEF Levels
    <2> QED BY <2>1 DEF BoundBelow
  <1>4. ASSUME NEW p \in DOMAIN tree, Begins(c, p), BoundBelow(tree, c, name)
        PROVE  BoundAgain(tree, p, Len(c), name)
    <2>1. PICK q \in DOMAIN tree :
            Begins(c, q) /\ \E j \in Levels(tree, q, name) : Len(c) < j
      BY <1>4, Zenon DEF BoundBelow
    <2>2. PICK j \in Levels(tree, q, name) : Len(c) < j
      BY <2>1
    <2>3. q \in Seq(Slots) /\ p \in Seq(Slots)
      BY NodePositions
    <2>4. SubSeq(q, 1, Len(c)) = c /\ SubSeq(p, 1, Len(c)) = c
      BY <1>1, <1>4, <2>1, <2>3, WayIsUnique
    <2>5. j \in 1..Len(q)
      BY <2>2 DEF Levels
    <2>6. Len(q) > Len(c)
      BY <1>1, <2>2, <2>3, <2>5
    <2> QED BY <2>2, <2>4, <2>6 DEF BoundAgain
  <1> QED BY <1>2, <1>3, <1>4

\* What is behind a child is behind it, or the child whose star takes the rest.
LEMMA EndsOfChild ==
  ASSUME NEW tree, TreeInv(tree), NEW segs, Len(segs) \in Nat, NEW c, Reached(tree, segs, c)
  PROVE  /\ BestOf(Ends(tree, segs, c)) \subseteq BestOf(EndsVia(tree, segs, c))
         /\ Ends(tree, segs, c) = {} /\ Len(c) # 0 /\ TakesTail(tree, c) =>
              BestOf(EndsVia(tree, segs, c)) = {c}
         /\ Ends(tree, segs, c) = {} /\ ~TakesTail(tree, c) => EndsVia(tree, segs, c) = {}
         /\ \A p \in BestOf(EndsVia(tree, segs, c)) :
              \/ p \in BestOf(Ends(tree, segs, c))
              \/ p = c /\ Ends(tree, segs, c) = {} /\ TakesTail(tree, c)
  <1> DEFINE E == Ends(tree, segs, c)
             V == EndsVia(tree, segs, c)
  <1>1. c \in DOMAIN tree /\ c \in Seq(Slots) /\ Len(c) \in Nat /\ Len(c) <= Len(segs)
    BY NodePositions DEF Reached
  <1>2. ASSUME NEW p \in V
        PROVE  /\ p \in Seq(Slots) /\ Begins(c, p)
               /\ p \in E \/ (p = c /\ TakesTail(tree, c))
    <2>1. p \in Matches(tree, segs) /\ Begins(c, p)
      BY DEF EndsVia
    <2>2. /\ p \in DOMAIN tree
          /\ Len(p) = Len(segs) \/ TakesTail(tree, p)
      BY <2>1, MatchFacts DEF Reached
    <2>3. p \in Seq(Slots)
      BY <2>2, NodePositions
    <2>4. CASE p # c
      BY <2>1, <2>3, <2>4 DEF Ends
    <2>5. CASE p = c
      BY <2>1, <2>2, <2>3, <2>5 DEF Ends
    <2> QED BY <2>4, <2>5
  <1>3. \A p \in E : p \in V
    BY DEF Ends, EndsVia
  <1>4. ASSUME NEW p \in E PROVE p # c => Better(p, c)
    <2>1. p \in Seq(Slots) /\ Begins(c, p)
      BY <1>2, <1>3
    <2>2. p # c => Len(c) < Len(p)
      BY <1>1, <2>1, WayIsUnique DEF Begins
    <2> QED BY <1>1, <2>1, <2>2, LongerIsBetter
  <1>5. \A p \in V : ~Better(c, p)
    BY <1>1, <1>2, LongerIsBetter
  <1>6. Len(c) # 0 /\ TakesTail(tree, c) => c \in V
    <2>1. Begins(c, c)
      BY <1>1 DEF Begins
    <2>2. Len(c) # 0 => c # Root
      BY <1>1, NodePositions
    <2> QED BY <2>1, <2>2, MatchFacts DEF EndsVia
  <1> HIDE DEF E, V
  <1>7. ASSUME NEW p \in BestOf(E) PROVE p \in BestOf(V)
    <2>1. p \in E /\ p \in V /\ \A q \in E : ~Better(q, p)
      BY <1>3, <1>7 DEF BestOf
    <2>2. \A q \in V : ~Better(q, p)
      BY <1>2, <1>5, <2>1
    <2> QED BY <2>1, <2>2 DEF BestOf
  <1>8. E = {} /\ Len(c) # 0 /\ TakesTail(tree, c) => BestOf(V) = {c}
    BY <1>2, <1>5, <1>6 DEF BestOf
  <1>9. E = {} /\ ~TakesTail(tree, c) => V = {}
    BY <1>2
  <1>10. ASSUME NEW p \in BestOf(V)
         PROVE  p \in BestOf(E) \/ (p = c /\ E = {} /\ TakesTail(tree, c))
    <2>1. p \in V /\ \A q \in V : ~Better(q, p)
      BY <1>10 DEF BestOf
    <2>2. p \in E => p \in BestOf(E)
      BY <1>3, <2>1 DEF BestOf
    <2>3. CASE p \notin E
      <3>1. p = c /\ TakesTail(tree, c)
        BY <1>2, <2>1, <2>3
      <3>2. \A q \in E : q # c
        BY <2>3, <3>1
      <3>3. E = {}
        BY <1>3, <1>4, <2>1, <3>1, <3>2
      <3> QED BY <3>1, <3>3
    <2> QED BY <2>2, <2>3
  <1> QED BY <1>7, <1>8, <1>9, <1>10 DEF E, V

\* What trying a child ends at.
LEMMA ChildEndsWell ==
  ASSUME NEW tree, TreeInv(tree), NEW segs, Len(segs) \in Nat, NEW c, Reached(tree, segs, c),
         Len(c) # 0, NEW text, NEW before, NEW res, EndsWell(res, Ends(tree, segs, c))
  PROVE  EndsWell(AfterChild(tree, c, text, before, res), EndsVia(tree, segs, c))
  <1> DEFINE r == AfterChild(tree, c, text, before, res)
             E == Ends(tree, segs, c)
             V == EndsVia(tree, segs, c)
  <1>1. /\ res.found => r.found /\ r.n = res.n
        /\ ~res.found /\ TakesTail(tree, c) => r.found /\ r.n = c
        /\ ~res.found /\ ~TakesTail(tree, c) => ~r.found
    <2> DEFINE w == Then(Then(before, addValue(tree, c, text)), res.writes)
    <2>1. ThreeEnds(r, tree, c, w, res)
      BY AfterChildCases
    <2> HIDE DEF r, w
    <2>2. /\ res.found => r = Found(res.n, w)
          /\ ~res.found /\ TakesTail(tree, c) => r = Found(c, w)
          /\ ~res.found /\ ~TakesTail(tree, c) => r = NotFound(Then(w, RemoveValue(tree, c)))
      BY <2>1, Zenon DEF ThreeEnds
    <2>3. r = Found(res.n, w) => r.found /\ r.n = res.n
      BY OutcomeFields
    <2>4. r = Found(c, w) => r.found /\ r.n = c
      BY OutcomeFields
    <2>5. r = NotFound(Then(w, RemoveValue(tree, c))) => ~r.found
      BY OutcomeFields
    <2> QED BY <2>2, <2>3, <2>4, <2>5, Zenon
  <1>2. /\ BestOf(E) \subseteq BestOf(V)
        /\ E = {} /\ TakesTail(tree, c) => BestOf(V) = {c}
        /\ E = {} /\ ~TakesTail(tree, c) => V = {}
    BY EndsOfChild, Zenon
  <1>3. /\ res.found => res.n \in BestOf(E)
        /\ ~res.found => E = {}
    BY Zenon DEF EndsWell
  <1> HIDE DEF r, E, V
  <1>4. CASE res.found
    <2>1. r.n \in BestOf(V)
      BY <1>1, <1>2, <1>3, <1>4
    <2> QED BY <1>1, <1>4, <2>1, Zenon DEF EndsWell, r, V
  <1>5. CASE ~res.found /\ TakesTail(tree, c)
    <2>1. r.n \in BestOf(V)
      BY <1>1, <1>2, <1>3, <1>5
    <2> QED BY <1>1, <1>5, <2>1, Zenon DEF EndsWell, r, V
  <1>6. CASE ~res.found /\ ~TakesTail(tree, c)
    <2>1. V = {}
      BY <1>2, <1>3, <1>6
    <2> QED BY <1>1, <1>6, <2>1, Zenon DEF EndsWell, r, V
  <1> QED BY <1>4, <1>5, <1>6

\* The searches that failed left no value.
NothingBound(tree, pos, writes) ==
    \A name \in DOMAIN writes : BoundBelow(tree, pos, name) /\ writes[name] = Absent

\* The writes of trying a child: before, then its own, then those behind it.
Merges(w, a, b, c) ==
    /\ \A x : x \in DOMAIN w <=> x \in DOMAIN a \/ x \in DOMAIN b \/ x \in DOMAIN c
    /\ \A x \in DOMAIN c : w[x] = c[x]
    /\ \A x \in DOMAIN b : x \notin DOMAIN c => w[x] = b[x]
    /\ \A x \in DOMAIN a : x \notin DOMAIN c /\ x \notin DOMAIN b => w[x] = a[x]

\* They are those of Then.
LEMMA TriedWrites ==
  ASSUME NEW a, NEW b, NEW c
  PROVE  Merges(Then(Then(a, b), c), a, b, c)
  <1> DEFINE ab == Then(a, b)
             w == Then(ab, c)
  <1>1. /\ DOMAIN ab = DOMAIN a \union DOMAIN b
        /\ \A x \in DOMAIN b : ab[x] = b[x]
        /\ \A x \in DOMAIN a \ DOMAIN b : ab[x] = a[x]
    BY ThenFacts, Zenon
  <1> HIDE DEF ab
  <1>2. /\ DOMAIN w = DOMAIN ab \union DOMAIN c
        /\ \A x \in DOMAIN c : w[x] = c[x]
        /\ \A x \in DOMAIN ab \ DOMAIN c : w[x] = ab[x]
    BY ThenFacts, Zenon
  <1> HIDE DEF w
  <1> QED BY <1>1, <1>2 DEF w, ab, Merges

\* What the child's own search found is right for the node.
LEMMA FoundBehind ==
  ASSUME NEW tree, TreeInv(tree), NEW segs, NEW pos \in DOMAIN tree,
         NEW c \in DOMAIN tree, Len(c) = Len(pos) + 1, Begins(pos, c),
         segs[Len(c)] # Absent,
         NEW n \in DOMAIN tree, Begins(c, n),
         NEW before, NothingBound(tree, pos, before),
         NEW res, res.found, res.n = n, WritesFit(tree, segs, c, res),
         NEW r, r.n = n,
         r.writes = Then(Then(before, addValue(tree, c, segs[Len(c)])), res.writes)
  PROVE  ValuesFit(tree, segs, pos, r) /\ NamesFit(tree, pos, r)
  <1> DEFINE own == addValue(tree, c, segs[Len(c)])
             behind == res.writes
             w == Then(Then(before, own), behind)
  <1>1. /\ \A x : x \in DOMAIN w <=> x \in DOMAIN before \/ x \in DOMAIN own \/ x \in DOMAIN behind
        /\ \A x \in DOMAIN behind : w[x] = behind[x]
        /\ \A x \in DOMAIN own : x \notin DOMAIN behind => w[x] = own[x]
        /\ \A x \in DOMAIN before : x \notin DOMAIN behind /\ x \notin DOMAIN own => w[x] = before[x]
    <2>1. Merges(w, before, own, behind)
      BY TriedWrites
    <2> HIDE DEF w, own, behind
    <2> QED BY <2>1, Zenon DEF Merges
  <1>2. /\ Len(pos) \in Nat /\ Len(c) \in Nat /\ Len(n) \in Nat /\ Len(c) # 0
        /\ Len(c) \in 1..Len(c) /\ Len(c) \in 1..Len(n) /\ Len(c) <= Len(n)
    <2>1. Len(pos) \in Nat /\ Len(c) \in Nat /\ Len(n) \in Nat
      BY NodePositions
    <2> QED BY <2>1 DEF Begins
  <1>3. /\ \A x \in DOMAIN own : own[x] = segs[Len(c)]
        /\ \A x : x \in DOMAIN own <=> BindsAt(tree, c, Len(c), x)
    BY <1>2, ChildWrites, Zenon
  <1>4. /\ \A x : \A i \in 1..Len(c) : BindsAt(tree, n, i, x) <=> BindsAt(tree, c, i, x)
        /\ \A x, i : i \in Levels(tree, n, x) <=> i \in 1..Len(n) /\ BindsAt(tree, n, i, x)
    BY LevelsOnTheWay, Zenon
  <1>5. \A x \in DOMAIN before : before[x] = Absent
    BY Zenon DEF NothingBound
  <1>6. /\ \A x \in DOMAIN behind : BoundBelow(tree, c, x)
        /\ \A x \in DOMAIN behind : behind[x] # Absent =>
             \E i \in Levels(tree, n, x) :
                /\ Len(c) < i /\ behind[x] = segs[i]
                /\ \A j \in Levels(tree, n, x) : j <= i
        /\ \A i \in (Len(c) + 1)..Len(n) : \A x : BindsAt(tree, n, i, x) =>
             x \in DOMAIN behind /\ (behind[x] # Absent \/ BoundAgain(tree, n, i, x))
    BY Zenon DEF WritesFit, ValuesFit, NamesFit
  <1>11. r.writes = w
    OBVIOUS
  <1> HIDE DEF own, behind, w
  <1>7. ASSUME NEW x \in DOMAIN w, w[x] # Absent
        PROVE  \E i \in Levels(tree, n, x) :
                  /\ Len(pos) < i /\ w[x] = segs[i]
                  /\ \A j \in Levels(tree, n, x) : j <= i
    <2>1. CASE x \in DOMAIN behind
      <3>1. PICK i \in Levels(tree, n, x) :
                /\ Len(c) < i /\ behind[x] = segs[i]
                /\ \A j \in Levels(tree, n, x) : j <= i
        BY <1>1, <1>6, <1>7, <2>1
      <3>2. i \in 1..Len(n)
        BY <1>4, <3>1
      <3>3. Len(pos) < i /\ w[x] = segs[i]
        BY <1>1, <1>2, <2>1, <3>1, <3>2
      <3> QED BY <3>1, <3>3
    <2>2. CASE x \notin DOMAIN behind
      <3>1. x \in DOMAIN own
        BY <1>1, <1>5, <1>7, <2>2
      <3>2. w[x] = segs[Len(c)]
        BY <1>1, <1>3, <2>2, <3>1
      <3>3. Len(c) \in Levels(tree, n, x)
        BY <1>2, <1>3, <1>4, <3>1
      <3>4. ASSUME NEW j \in Levels(tree, n, x) PROVE j <= Len(c)
        <4>1. j \in 1..Len(n) /\ BindsAt(tree, n, j, x)
          BY <1>4
        <4>2. j \in (Len(c) + 1)..Len(n) => x \in DOMAIN behind
          BY <1>6, <4>1
        <4> QED BY <1>2, <2>2, <4>1, <4>2
      <3>5. Len(pos) < Len(c)
        BY <1>2
      <3> QED BY <3>2, <3>3, <3>4, <3>5
    <2> QED BY <2>1, <2>2
  <1>8. ASSUME NEW i \in (Len(pos) + 1)..Len(n), NEW x, BindsAt(tree, n, i, x)
        PROVE  x \in DOMAIN w /\ (w[x] # Absent \/ BoundAgain(tree, n, i, x))
    <2>1. i = Len(c) \/ i \in (Len(c) + 1)..Len(n)
      BY <1>2
    <2>2. CASE i \in (Len(c) + 1)..Len(n)
      BY <1>1, <1>6, <1>8, <2>2
    <2>3. CASE i = Len(c)
      <3>1. x \in DOMAIN own
        BY <1>2, <1>3, <1>4, <1>8, <2>3
      <3>2. x \in DOMAIN behind => BoundAgain(tree, n, Len(c), x)
        BY <1>6, BelowChild
      <3>3. x \notin DOMAIN behind => w[x] = segs[Len(c)]
        BY <1>1, <1>3, <3>1
      <3> QED BY <1>1, <2>3, <3>1, <3>2, <3>3
    <2> QED BY <2>1, <2>2, <2>3
  <1>9. ValuesFit(tree, segs, pos, r)
    BY <1>7, <1>11 DEF ValuesFit
  <1>10. NamesFit(tree, pos, r)
    BY <1>8, <1>11 DEF NamesFit
  <1> QED BY <1>9, <1>10

\* No name has a value when the child has failed, nor when its star takes the rest.
Fruitless(tree, pos, c, w) ==
    /\ NothingBound(tree, pos, Then(w, RemoveValue(tree, c)))
    /\ TakesTail(tree, c) =>
         NothingBound(tree, pos, w) /\ \A x : ~BindsAt(tree, c, Len(c), x)

\* So it is when nothing was found behind it.
LEMMA NothingBehind ==
  ASSUME NEW tree, TreeInv(tree), NEW pos \in DOMAIN tree,
         NEW c \in DOMAIN tree, Len(c) = Len(pos) + 1, Begins(pos, c), NEW text,
         NEW before, NothingBound(tree, pos, before),
         NEW behind, NothingBound(tree, c, behind)
  PROVE  Fruitless(tree, pos, c, Then(Then(before, addValue(tree, c, text)), behind))
  <1> DEFINE own == addValue(tree, c, text)
             w == Then(Then(before, own), behind)
             undo == RemoveValue(tree, c)
             all == Then(w, undo)
  <1>1. /\ \A x : x \in DOMAIN w <=> x \in DOMAIN before \/ x \in DOMAIN own \/ x \in DOMAIN behind
        /\ \A x \in DOMAIN behind : w[x] = behind[x]
        /\ \A x \in DOMAIN own : x \notin DOMAIN behind => w[x] = own[x]
        /\ \A x \in DOMAIN before : x \notin DOMAIN behind /\ x \notin DOMAIN own => w[x] = before[x]
    <2>1. Merges(w, before, own, behind)
      BY TriedWrites
    <2> HIDE DEF w, own
    <2> QED BY <2>1, Zenon DEF Merges
  <1>2. Len(c) # 0
    <2>1. Len(pos) \in Nat
      BY NodePositions
    <2> QED BY <2>1
  <1>3. /\ DOMAIN undo = DOMAIN own
        /\ \A x \in DOMAIN undo : undo[x] = Absent
        /\ \A x : x \in DOMAIN own <=> BindsAt(tree, c, Len(c), x)
        /\ TakesTail(tree, c) => DOMAIN own = {}
    BY <1>2, ChildWrites, Zenon
  <1>4. /\ \A x \in DOMAIN before : BoundBelow(tree, pos, x) /\ before[x] = Absent
        /\ \A x \in DOMAIN behind : BoundBelow(tree, c, x) /\ behind[x] = Absent
    BY Zenon DEF NothingBound
  <1>5. \A x : BoundBelow(tree, c, x) \/ BindsAt(tree, c, Len(c), x) => BoundBelow(tree, pos, x)
    BY BelowChild
  <1>6. /\ DOMAIN all = DOMAIN w \union DOMAIN undo
        /\ \A x \in DOMAIN undo : all[x] = undo[x]
        /\ \A x \in DOMAIN w \ DOMAIN undo : all[x] = w[x]
    BY ThenFacts, Zenon
  <1> HIDE DEF own, w, undo, all
  <1>7. \A x \in DOMAIN w : BoundBelow(tree, pos, x) /\ (x \notin DOMAIN own => w[x] = Absent)
    BY <1>1, <1>3, <1>4, <1>5
  <1>8. NothingBound(tree, pos, all)
    BY <1>3, <1>5, <1>6, <1>7 DEF NothingBound
  <1>9. TakesTail(tree, c) => NothingBound(tree, pos, w) /\ \A x : ~BindsAt(tree, c, Len(c), x)
    BY <1>3, <1>7 DEF NothingBound
  <1> QED BY <1>8, <1>9, Zenon DEF Fruitless, all, w, undo, own

\* What trying a child writes.
LEMMA ChildWritesFit ==
  ASSUME NEW tree, TreeInv(tree), NEW segs, NEW pos \in DOMAIN tree,
         NEW c \in DOMAIN tree, Len(c) = Len(pos) + 1, Begins(pos, c),
         segs[Len(c)] # Absent,
         NEW before, NothingBound(tree, pos, before),
         NEW res, WritesFit(tree, segs, c, res)
  PROVE  WritesFit(tree, segs, pos, AfterChild(tree, c, segs[Len(c)], before, res))
  <1> DEFINE text == segs[Len(c)]
             r == AfterChild(tree, c, text, before, res)
             own == addValue(tree, c, text)
             w == Then(Then(before, own), res.writes)
             all == Then(w, RemoveValue(tree, c))
  <1>1. ThreeEnds(r, tree, c, w, res)
    BY AfterChildCases
  <1>2. /\ pos \in Seq(Slots) /\ c \in Seq(Slots) /\ Len(pos) \in Nat /\ Len(c) \in Nat
        /\ Len(c) # 0 /\ Begins(c, c)
    <2>1. pos \in Seq(Slots) /\ c \in Seq(Slots) /\ Len(pos) \in Nat /\ Len(c) \in Nat
      BY NodePositions
    <2> QED BY <2>1 DEF Begins
  <1>3. /\ \A x \in DOMAIN res.writes : BoundBelow(tree, c, x)
        /\ res.found => res.n \in DOMAIN tree /\ Begins(c, res.n)
        /\ ~res.found => NothingBound(tree, c, res.writes)
    BY Zenon DEF WritesFit, NothingBound
  <1>4. \A x \in DOMAIN w : BoundBelow(tree, pos, x)
    <2>1. \A x : x \in DOMAIN w <=>
            x \in DOMAIN before \/ x \in DOMAIN own \/ x \in DOMAIN res.writes
      <3>1. Merges(w, before, own, res.writes)
        BY TriedWrites
      <3> HIDE DEF w, own
      <3> QED BY <3>1, Zenon DEF Merges
    <2>2. \A x : x \in DOMAIN own <=> BindsAt(tree, c, Len(c), x)
      BY <1>2, ChildWrites, Zenon
    <2>3. \A x : BoundBelow(tree, c, x) \/ BindsAt(tree, c, Len(c), x) => BoundBelow(tree, pos, x)
      BY BelowChild
    <2>4. \A x \in DOMAIN before : BoundBelow(tree, pos, x)
      BY Zenon DEF NothingBound
    <2> HIDE DEF w, own
    <2> QED BY <1>3, <2>1, <2>2, <2>3, <2>4, Zenon
  <1>5. CASE res.found
    <2>1. r.found /\ r.n = res.n /\ r.writes = w
      <3> HIDE DEF r, w
      <3>1. r = Found(res.n, w)
        BY <1>1, <1>5, Zenon DEF ThreeEnds
      <3> QED BY <3>1, OutcomeFields
    <2>2. res.n \in DOMAIN tree /\ Begins(c, res.n)
      BY <1>3, <1>5
    <2>3. Begins(pos, r.n)
      <3>1. res.n \in Seq(Slots)
        BY <2>2, NodePositions
      <3>2. Begins(pos, res.n)
        BY <1>2, <2>2, <3>1, WayGoesOn
      <3> QED BY <2>1, <3>2, Zenon
    <2> HIDE DEF r
    <2>4. ValuesFit(tree, segs, pos, r) /\ NamesFit(tree, pos, r)
      BY <1>5, <2>1, <2>2, FoundBehind
    <2> QED BY <1>4, <2>1, <2>2, <2>3, <2>4, Zenon DEF WritesFit, r
  <1>6. CASE ~res.found
    <2>1. /\ NothingBound(tree, pos, all)
          /\ TakesTail(tree, c) =>
               NothingBound(tree, pos, w) /\ \A x : ~BindsAt(tree, c, Len(c), x)
      <3>1. NothingBound(tree, c, res.writes)
        BY <1>3, <1>6, Zenon
      <3>2. Fruitless(tree, pos, c, w)
        BY <3>1, NothingBehind
      <3> HIDE DEF w
      <3> QED BY <3>2, Zenon DEF Fruitless, all
    <2>2. CASE TakesTail(tree, c)
      <3>1. r.found /\ r.n = c /\ r.writes = w
        <4> HIDE DEF r, w
        <4>1. r = Found(c, w)
          BY <1>1, <1>6, <2>2, Zenon DEF ThreeEnds
        <4> QED BY <4>1, OutcomeFields
      <3>2. \A x \in DOMAIN r.writes : r.writes[x] = Absent
        BY <2>1, <2>2, <3>1, Zenon DEF NothingBound
      <3> HIDE DEF r, w
      <3>3. ValuesFit(tree, segs, pos, r)
        BY <3>2, Zenon DEF ValuesFit
      <3>4. NamesFit(tree, pos, r)
        <4>1. \A i \in (Len(pos) + 1)..Len(c) : i = Len(c)
          BY <1>2
        <4> QED BY <2>1, <2>2, <3>1, <4>1, Zenon DEF NamesFit
      <3> QED BY <1>4, <3>1, <3>3, <3>4, Zenon DEF WritesFit, r
    <2>3. CASE ~TakesTail(tree, c)
      <3>1. ~r.found /\ r.writes = all
        <4> HIDE DEF r, w, all
        <4>1. r = NotFound(all)
          BY <1>1, <1>6, <2>3, Zenon DEF ThreeEnds, all
        <4> QED BY <4>1, OutcomeFields
      <3> QED BY <2>1, <3>1, Zenon DEF WritesFit, NothingBound
    <2> QED BY <2>2, <2>3
  <1> QED BY <1>5, <1>6

-----------------------------------------------------------------------------
(* The loop over the children, and the search.                             *)

\* A turn of the loop keeps what was found, or tries the child.
LEMMA TurnOfLoop ==
  ASSUME NEW tree, NEW c, NEW text, NEW outcomes, NEW results
  PROVE  /\ \A t \in TryChild(tree, c, text, outcomes, results) :
              \/ t \in outcomes /\ t.found
              \/ \E u \in outcomes, res \in results :
                   ~u.found /\ t = AfterChild(tree, c, text, u.writes, res)
         /\ \A t \in outcomes : t.found => t \in TryChild(tree, c, text, outcomes, results)
         /\ \A t \in outcomes, res \in results : ~t.found =>
              AfterChild(tree, c, text, t.writes, res)
                \in TryChild(tree, c, text, outcomes, results)
  <1>1. \A t : t \in TryChild(tree, c, text, outcomes, results) <=>
          \E u \in outcomes :
             t \in IF u.found THEN {u}
                  ELSE {AfterChild(tree, c, text, u.writes, res) : res \in results}
    BY DEF TryChild
  <1>2. ASSUME NEW t \in TryChild(tree, c, text, outcomes, results)
        PROVE  \/ t \in outcomes /\ t.found
               \/ \E u \in outcomes, res \in results :
                    ~u.found /\ t = AfterChild(tree, c, text, u.writes, res)
    <2>1. PICK u \in outcomes :
             t \in IF u.found THEN {u}
                  ELSE {AfterChild(tree, c, text, u.writes, res) : res \in results}
      BY <1>1, <1>2, Zenon
    <2>2. CASE u.found
      BY <2>1, <2>2
    <2>3. CASE ~u.found
      BY <2>1, <2>3
    <2> QED BY <2>2, <2>3
  <1>3. ASSUME NEW t \in outcomes, t.found
        PROVE  t \in TryChild(tree, c, text, outcomes, results)
    BY <1>1, <1>3
  <1>4. ASSUME NEW t \in outcomes, NEW res \in results, ~t.found
        PROVE  AfterChild(tree, c, text, t.writes, res)
                 \in TryChild(tree, c, text, outcomes, results)
    BY <1>1, <1>4
  <1> QED BY <1>2, <1>3, <1>4

\* The nodes behind the first k children.
BehindFirst(tree, segs, order, k) == UNION {EndsVia(tree, segs, order[j]) : j \in 1..k}

\* What the loop has after each turn: outcomes that are right for the children tried.
LEMMA LoopOutcomes ==
  ASSUME NEW tree, TreeInv(tree), NEW segs, Len(segs) \in Nat,
         NEW pos, Reached(tree, segs, pos), Len(pos) < Len(segs),
         segs[Len(pos) + 1] # Absent,
         NEW order, Lists(order, Tried(tree, pos, segs[Len(pos) + 1])), Ranked(order),
         NEW search,
         \A c \in Tried(tree, pos, segs[Len(pos) + 1]) : Settles(tree, segs, c, search[c]),
         NEW tried, IsLoop(tried, tree, order, segs[Len(pos) + 1], search)
  PROVE  \A k \in 0..Len(order) :
           /\ tried[k] # {}
           /\ \A t \in tried[k] :
                Outcome(tree, segs, pos, BehindFirst(tree, segs, order, k), t)
  <1> DEFINE L == Len(order)
             text == segs[Len(pos) + 1]
             E(k) == BehindFirst(tree, segs, order, k)
             S == {k \in 0..L : /\ tried[k] # {}
                                /\ \A t \in tried[k] : Outcome(tree, segs, pos, E(k), t)}
  <1>1. /\ L \in Nat /\ DOMAIN order = 1..L
        /\ \A j \in 1..L : order[j] \in Tried(tree, pos, text)
    BY DEF Lists
  <1>2. pos \in DOMAIN tree /\ pos \in Seq(Slots) /\ Len(pos) \in Nat
    BY NodePositions DEF Reached
  <1>3. ASSUME NEW j \in 1..L
        PROVE  /\ order[j] \in DOMAIN tree /\ order[j] \in Seq(Slots)
               /\ Len(order[j]) = Len(pos) + 1 /\ Begins(pos, order[j])
               /\ Reached(tree, segs, order[j])
    <2>1. order[j] \in DOMAIN tree /\ Len(order[j]) = Len(pos) + 1 /\ Begins(pos, order[j])
      BY <1>1 DEF Tried
    <2>2. Reached(tree, segs, order[j])
      BY <1>1, EndsOfNode
    <2> QED BY <2>1, <2>2, NodePositions
  <1>4. 0 \in S
    <2>1. tried[0] = {NotFound(NoWrites)}
      BY Zenon DEF IsLoop
    <2>2. E(0) = {}
      BY DEF BehindFirst
    <2>3. ASSUME NEW t, t = NotFound(NoWrites) PROVE Outcome(tree, segs, pos, E(0), t)
      <3>1. ~t.found /\ t.writes = NoWrites
        BY <2>3, OutcomeFields, Zenon
      <3>2. DOMAIN t.writes = {}
        BY <3>1 DEF NoWrites
      <3>3. EndsWell(t, E(0))
        BY <2>2, <3>1, Zenon DEF EndsWell
      <3>4. WritesFit(tree, segs, pos, t)
        BY <3>1, <3>2, Zenon DEF WritesFit
      <3> QED BY <3>3, <3>4, Zenon DEF Outcome
    <2> HIDE DEF E, L
    <2> QED BY <1>1, <2>1, <2>3
  <1>5. ASSUME NEW k \in 1..L, k - 1 \in S PROVE k \in S
    <2> DEFINE c == order[k]
    <2>1. tried[k] = TryChild(tree, c, text, tried[k - 1], search[c])
      BY Zenon DEF IsLoop
    <2>2. /\ tried[k - 1] # {}
          /\ \A t \in tried[k - 1] : Outcome(tree, segs, pos, E(k - 1), t)
      BY <1>5
    <2>3. /\ c \in DOMAIN tree /\ c \in Seq(Slots)
          /\ Len(c) = Len(pos) + 1 /\ Begins(pos, c) /\ Reached(tree, segs, c)
          /\ c \in Tried(tree, pos, text) /\ Len(c) # 0
      BY <1>1, <1>2, <1>3
    <2>4. /\ search[c] # {}
          /\ \A res \in search[c] : Outcome(tree, segs, c, Ends(tree, segs, c), res)
      BY <2>3, Zenon DEF Settles
    <2>5. E(k) = E(k - 1) \union EndsVia(tree, segs, c)
      <3>1. 1..k = (1..(k - 1)) \union {k}
        BY <1>1
      <3> QED BY <3>1 DEF BehindFirst
    \* Nothing behind a later child is better.
    <2>6. ASSUME NEW p \in E(k - 1), NEW q \in EndsVia(tree, segs, c) PROVE ~Better(q, p)
      <3>1. PICK j \in 1..(k - 1) : p \in EndsVia(tree, segs, order[j])
        BY <2>6 DEF BehindFirst
      <3>2. j \in 1..L /\ j < k
        BY <1>1
      <3> DEFINE b == order[j]
      <3>3. /\ b \in Seq(Slots) /\ Len(b) = Len(pos) + 1 /\ Begins(pos, b)
        BY <1>3, <3>2
      <3>4. b # c /\ RankOf(b) <= RankOf(c)
        <4>1. \A x, y \in DOMAIN order : order[x] = order[y] => x = y
          BY Zenon DEF Lists
        <4>2. \A x, y \in DOMAIN order : x < y => RankOf(order[x]) <= RankOf(order[y])
          BY Zenon DEF Ranked
        <4>3. j # k /\ j \in DOMAIN order /\ k \in DOMAIN order
          BY <1>1, <3>2
        <4> QED BY <3>2, <4>1, <4>2, <4>3, Zenon
      <3>5. p \in Seq(Slots) /\ q \in Seq(Slots) /\ Begins(b, p) /\ Begins(c, q)
        <4>1. p \in Matches(tree, segs) /\ q \in Matches(tree, segs) /\ Begins(b, p) /\ Begins(c, q)
          BY <2>6, <3>1, Zenon DEF EndsVia
        <4>2. p \in DOMAIN tree /\ q \in DOMAIN tree
          BY <4>1, MatchFacts, Zenon DEF Reached
        <4> QED BY <4>1, <4>2, NodePositions
      <3> HIDE DEF b, c, E
      <3>6. \A i \in 1..Len(pos) : b[i] = c[i]
        BY <2>3, <3>3 DEF Begins
      <3> QED BY <1>2, <2>3, <3>3, <3>4, <3>5, <3>6, KindDecides
    <2> HIDE DEF c, E, text
    \* What was found stays the best.
    <2>7. ASSUME NEW t \in tried[k - 1], t.found PROVE Outcome(tree, segs, pos, E(k), t)
      <3>1. Outcome(tree, segs, pos, E(k - 1), t)
        BY <2>2
      <3>2. t.n \in BestOf(E(k - 1)) /\ WritesFit(tree, segs, pos, t)
        BY <2>7, <3>1, Zenon DEF Outcome, EndsWell
      <3>3. t.n \in BestOf(E(k))
        BY <2>5, <2>6, <3>2 DEF BestOf
      <3> QED BY <2>7, <3>2, <3>3, Zenon DEF Outcome, EndsWell
    \* Trying the child after others that failed.
    <2>8. ASSUME NEW u \in tried[k - 1], ~u.found, NEW res \in search[c],
                 NEW t, t = AfterChild(tree, c, text, u.writes, res)
          PROVE  Outcome(tree, segs, pos, E(k), t)
      <3>1. Outcome(tree, segs, pos, E(k - 1), u)
        BY <2>2
      <3>2. E(k - 1) = {} /\ NothingBound(tree, pos, u.writes)
        BY <2>8, <3>1, Zenon DEF Outcome, EndsWell, WritesFit, NothingBound
      <3>3. E(k) = EndsVia(tree, segs, c)
        BY <2>5, <3>2
      <3>4. EndsWell(res, Ends(tree, segs, c)) /\ WritesFit(tree, segs, c, res)
        BY <2>4, Zenon DEF Outcome
      <3>5. EndsWell(t, EndsVia(tree, segs, c))
        BY <2>3, <2>8, <3>4, ChildEndsWell
      <3>6. text = segs[Len(c)] /\ segs[Len(c)] # Absent
        BY <2>3 DEF text
      <3>7. WritesFit(tree, segs, pos, t)
        BY <1>2, <2>3, <2>8, <3>2, <3>4, <3>6, ChildWritesFit
      <3> QED BY <3>3, <3>5, <3>7, Zenon DEF Outcome
    <2>9. \A t \in tried[k] : Outcome(tree, segs, pos, E(k), t)
      BY <2>1, <2>7, <2>8, TurnOfLoop
    <2>10. tried[k] # {}
      <3>1. PICK u \in tried[k - 1] : TRUE
        BY <2>2
      <3>2. PICK res \in search[c] : TRUE
        BY <2>4
      <3>3. u.found => u \in tried[k]
        BY <2>1, <3>1, TurnOfLoop
      <3>4. ~u.found => AfterChild(tree, c, text, u.writes, res) \in tried[k]
        BY <2>1, <3>1, <3>2, TurnOfLoop
      <3> QED BY <3>3, <3>4
    <2>11. k \in 0..L
      BY <1>1
    <2> QED BY <2>9, <2>10, <2>11
  <1>6. S \in SUBSET (0..L)
    OBVIOUS
  <1> HIDE DEF S
  <1>7. \A k \in 0..L : k \in S
    BY <1>1, <1>4, <1>5, <1>6, UpTo
  <1> QED BY <1>7 DEF S

\* What is best behind the first child of its kind is one of the loop's outcomes.
LEMMA LoopReaches ==
  ASSUME NEW tree, TreeInv(tree), NEW segs, Len(segs) \in Nat,
         NEW pos, Reached(tree, segs, pos), Len(pos) < Len(segs),
         segs[Len(pos) + 1] # Absent,
         NEW order, Lists(order, Tried(tree, pos, segs[Len(pos) + 1])), Ranked(order),
         NEW search,
         \A d \in Tried(tree, pos, segs[Len(pos) + 1]) : Settles(tree, segs, d, search[d]),
         NEW tried, IsLoop(tried, tree, order, segs[Len(pos) + 1], search),
         NEW c \in Tried(tree, pos, segs[Len(pos) + 1]), FirstOfKind(order, c),
         NEW p \in EndsVia(tree, segs, c), p \in BestOf(Ends(tree, segs, pos))
  PROVE  \E t \in tried[Len(order)] : t.found /\ t.n = p
  <1> DEFINE L == Len(order)
             text == segs[Len(pos) + 1]
             E(k) == BehindFirst(tree, segs, order, k)
  <1>1. /\ L \in Nat /\ DOMAIN order = 1..L
        /\ \A j \in 1..L : order[j] \in Tried(tree, pos, text)
        /\ \E i \in 1..L : order[i] = c
    BY DEF Lists
  <1>2. PICK i \in 1..L : order[i] = c
    BY <1>1
  <1>3. /\ \A k \in 0..L : /\ tried[k] # {}
                           /\ \A t \in tried[k] : Outcome(tree, segs, pos, E(k), t)
        /\ \A k \in 1..L : tried[k] = TryChild(tree, order[k], text, tried[k - 1], search[order[k]])
    <2>1. \A k \in 0..L : /\ tried[k] # {}
                          /\ \A t \in tried[k] : Outcome(tree, segs, pos, E(k), t)
      BY LoopOutcomes
    <2>2. \A k \in 1..L : tried[k] = TryChild(tree, order[k], text, tried[k - 1], search[order[k]])
      BY Zenon DEF IsLoop
    <2> QED BY <2>1, <2>2
  <1>4. pos \in DOMAIN tree /\ pos \in Seq(Slots) /\ Len(pos) \in Nat
    BY NodePositions DEF Reached
  <1>5. ASSUME NEW d \in Tried(tree, pos, text)
        PROVE  /\ d \in DOMAIN tree /\ d \in Seq(Slots) /\ Len(d) # 0
               /\ Len(d) = Len(pos) + 1 /\ Begins(pos, d) /\ Reached(tree, segs, d)
               /\ EndsVia(tree, segs, d) \subseteq Ends(tree, segs, pos)
    <2>1. d \in DOMAIN tree /\ Len(d) = Len(pos) + 1 /\ Begins(pos, d)
      BY DEF Tried
    <2>2. Reached(tree, segs, d) /\ EndsVia(tree, segs, d) \subseteq Ends(tree, segs, pos)
      BY EndsOfNode
    <2> QED BY <1>4, <2>1, <2>2, NodePositions
  <1>6. ASSUME NEW d \in Tried(tree, pos, text), NEW q \in EndsVia(tree, segs, d)
        PROVE  q \in Seq(Slots) /\ Begins(d, q)
    <2>1. q \in Matches(tree, segs) /\ Begins(d, q)
      BY Zenon DEF EndsVia
    <2>2. q \in DOMAIN tree
      BY <2>1, MatchFacts, Zenon DEF Reached
    <2> QED BY <2>1, <2>2, NodePositions
  <1>7. \A q \in Ends(tree, segs, pos) : ~Better(q, p)
    BY Zenon DEF BestOf
  <1> HIDE DEF L, text
  \* Nothing is behind the children before c.
  <1>8. E(i - 1) = {}
    <2> SUFFICES ASSUME NEW q \in E(i - 1) PROVE FALSE
      OBVIOUS
    <2>1. PICK j \in 1..(i - 1) : q \in EndsVia(tree, segs, order[j])
      BY DEF BehindFirst
    <2> DEFINE d == order[j]
    <2>2. j \in 1..L /\ j < i
      BY <1>1, <1>2
    <2>3. d \in Tried(tree, pos, text) /\ c \in Tried(tree, pos, text)
      BY <1>1, <1>2, <2>2
    <2>4. RankOf(d) < RankOf(c)
      BY <1>1, <1>2, <2>2 DEF FirstOfKind
    <2> HIDE DEF d
    <2>5. q \in EndsVia(tree, segs, d)
      BY <2>1 DEF d
    <2>6. /\ d \in Seq(Slots) /\ Len(d) = Len(pos) + 1 /\ Begins(pos, d)
          /\ c \in Seq(Slots) /\ Len(c) = Len(pos) + 1 /\ Begins(pos, c)
          /\ q \in Ends(tree, segs, pos)
      BY <1>5, <2>3, <2>5
    <2>7. q \in Seq(Slots) /\ Begins(d, q) /\ p \in Seq(Slots) /\ Begins(c, p)
      BY <1>6, <2>3, <2>5
    <2>8. \A x \in 1..Len(pos) : d[x] = c[x]
      BY <2>6 DEF Begins
    <2>9. c # d
      <3>1. RankOf(c) \in Nat
        <4>1. c[Len(c)] \in Slots
          BY <1>4, <2>6
        <4> QED BY <4>1, RankFacts DEF RankOf, Last
      <3> QED BY <2>4, <3>1
    <2>10. Better(q, p)
      BY <1>4, <2>4, <2>6, <2>7, <2>8, <2>9, KindDecides
    <2> QED BY <1>7, <2>6, <2>10
  \* So c is tried, and finds p.
  <1>9. \E t \in tried[i] : t.found /\ t.n = p
    <2>1. i - 1 \in 0..L
      BY <1>1
    <2>2. PICK u \in tried[i - 1] : TRUE
      BY <1>3, <2>1
    <2>3. Outcome(tree, segs, pos, E(i - 1), u)
      BY <1>3, <2>1
    <2>4. ~u.found
      <3> SUFFICES ASSUME u.found PROVE FALSE
        OBVIOUS
      <3> HIDE DEF E
      <3>1. u.n \in BestOf(E(i - 1))
        BY <2>3, Zenon DEF Outcome, EndsWell
      <3> QED BY <1>8, <3>1 DEF BestOf
    <2>5. /\ Reached(tree, segs, c) /\ Len(c) # 0
          /\ EndsVia(tree, segs, c) \subseteq Ends(tree, segs, pos)
          /\ c \in Tried(tree, pos, text)
      BY <1>1, <1>2, <1>5
    <2>6. p \in BestOf(EndsVia(tree, segs, c))
      BY <1>7, <2>5 DEF BestOf
    <2>7. /\ search[c] # {}
          /\ \A res \in search[c] : EndsWell(res, Ends(tree, segs, c))
          /\ \A q \in BestOf(Ends(tree, segs, c)) : \E res \in search[c] : res.found /\ res.n = q
      BY <2>5, Zenon DEF Settles, Outcome, text
    <2>8. ASSUME NEW res \in search[c],
                 \/ res.found /\ res.n = p
                 \/ ~res.found /\ TakesTail(tree, c) /\ p = c
          PROVE  \E t \in tried[i] : t.found /\ t.n = p
      <3> DEFINE t == AfterChild(tree, c, text, u.writes, res)
                 w == Then(Then(u.writes, addValue(tree, c, text)), res.writes)
      <3>1. ThreeEnds(t, tree, c, w, res)
        BY AfterChildCases
      <3>2. t \in tried[i]
        BY <1>2, <1>3, <2>2, <2>4, TurnOfLoop
      <3> HIDE DEF t, w
      <3>3. t = Found(p, w)
        BY <2>8, <3>1, Zenon DEF ThreeEnds
      <3> QED BY <3>2, <3>3, OutcomeFields
    <2>9. \/ p \in BestOf(Ends(tree, segs, c))
          \/ p = c /\ Ends(tree, segs, c) = {} /\ TakesTail(tree, c)
      BY <2>5, <2>6, EndsOfChild
    <2>10. CASE p \in BestOf(Ends(tree, segs, c))
      BY <2>7, <2>8, <2>10
    <2>11. CASE p = c /\ Ends(tree, segs, c) = {} /\ TakesTail(tree, c)
      <3>1. PICK res \in search[c] : TRUE
        BY <2>7
      <3>2. ~res.found
        <4>1. res.found => res.n \in BestOf(Ends(tree, segs, c))
          BY <2>7, Zenon DEF EndsWell
        <4> QED BY <2>11, <4>1 DEF BestOf
      <3> QED BY <2>8, <2>11, <3>1, <3>2
    <2> QED BY <2>9, <2>10, <2>11
  \* The turns after it keep it.
  <1> DEFINE K == {k \in 0..L : i <= k => \E t \in tried[k] : t.found /\ t.n = p}
  <1>10. 0 \in K
    BY <1>1, <1>2
  <1>11. ASSUME NEW k \in 1..L, k - 1 \in K PROVE k \in K
    <2>1. k \in 0..L
      BY <1>1
    <2>2. ASSUME i <= k - 1 PROVE \E t \in tried[k] : t.found /\ t.n = p
      <3>1. PICK t \in tried[k - 1] : t.found /\ t.n = p
        BY <1>11, <2>2
      <3>2. t \in tried[k]
        BY <1>3, <3>1, TurnOfLoop
      <3> QED BY <3>1, <3>2
    <2>3. i <= k => i <= k - 1 \/ i = k
      BY <1>1
    <2> QED BY <1>9, <2>1, <2>2, <2>3
  <1>12. K \in SUBSET (0..L)
    OBVIOUS
  <1> HIDE DEF K
  <1>13. \A k \in 0..L : k \in K
    BY <1>1, <1>10, <1>11, <1>12, UpTo
  <1>14. L \in K /\ i <= L
    BY <1>1, <1>2, <1>13
  <1> QED BY <1>14 DEF K, L

\* A search settles when those of the children do.
LEMMA NodeSettles ==
  ASSUME NEW tree, TreeInv(tree), NEW segs, Len(segs) \in Nat,
         NEW pos, Reached(tree, segs, pos), Len(pos) < Len(segs),
         segs[Len(pos) + 1] # Absent, NEW search,
         \A c \in Tried(tree, pos, segs[Len(pos) + 1]) : Settles(tree, segs, c, search[c])
  PROVE  Settles(tree, segs, pos, BackSearchChild(tree, pos, segs, search))
  <1> DEFINE text == segs[Len(pos) + 1]
             After(order) == TryChildren(tree, order, text, search)[Len(order)]
             orders == TryOrders(tree, pos, text)
             R == BackSearchChild(tree, pos, segs, search)
             E == Ends(tree, segs, pos)
  <1>1. pos \in DOMAIN tree /\ Len(pos) \in Nat /\ Len(pos) # Len(segs)
    BY NodePositions DEF Reached
  <1>2. R = UNION {After(order) : order \in orders}
    BY <1>1, Zenon DEF BackSearchChild
  <1>3. /\ orders # {}
        /\ \A order \in orders : Lists(order, Tried(tree, pos, text)) /\ Ranked(order)
        /\ \A c \in Tried(tree, pos, text) : \E order \in orders : FirstOfKind(order, c)
    BY <1>1, OrdersFacts
  <1>4. ASSUME NEW order \in orders
        PROVE  /\ Len(order) \in Nat
               /\ IsLoop(TryChildren(tree, order, text, search), tree, order, text, search)
               /\ After(order) # {}
               /\ \A t \in After(order) : Outcome(tree, segs, pos, E, t)
    <2>1. Lists(order, Tried(tree, pos, text)) /\ Ranked(order)
      BY <1>3
    <2>2. /\ Len(order) \in Nat /\ DOMAIN order = 1..Len(order)
          /\ \A j \in 1..Len(order) : order[j] \in Tried(tree, pos, text)
          /\ \A c \in Tried(tree, pos, text) : \E j \in 1..Len(order) : order[j] = c
      <3> DEFINE T == Tried(tree, pos, text)
      <3>1. order \in Seq(T) /\ \A c \in T : \E j \in DOMAIN order : order[j] = c
        BY <2>1, Zenon DEF Lists
      <3> HIDE DEF T
      <3>2. Len(order) \in Nat /\ DOMAIN order = 1..Len(order)
            /\ \A j \in 1..Len(order) : order[j] \in T
        BY <3>1
      <3> QED BY <3>1, <3>2 DEF T
    <2> DEFINE tried == TryChildren(tree, order, text, search)
    <2>3. IsLoop(tried, tree, order, text, search)
      BY <2>2, TryChildrenDef
    <2>4. BehindFirst(tree, segs, order, Len(order)) = E
      <3>1. /\ \A c \in Tried(tree, pos, text) : EndsVia(tree, segs, c) \subseteq E
            /\ \A p \in E : \E c \in Tried(tree, pos, text) : p \in EndsVia(tree, segs, c)
        BY EndsOfNode
      <3> HIDE DEF E, text
      <3> QED BY <2>2, <3>1 DEF BehindFirst
    <2>5. /\ tried[Len(order)] # {}
          /\ \A t \in tried[Len(order)] :
               Outcome(tree, segs, pos, BehindFirst(tree, segs, order, Len(order)), t)
      <3> HIDE DEF tried
      <3>1. Len(order) \in 0..Len(order)
        BY <2>2
      <3> QED BY <2>1, <2>3, <3>1, LoopOutcomes
    <2> QED BY <2>2, <2>3, <2>4, <2>5, Zenon
  <1>5. ASSUME NEW p \in BestOf(E) PROVE \E r \in R : r.found /\ r.n = p
    <2>1. PICK c \in Tried(tree, pos, text) : p \in EndsVia(tree, segs, c)
      BY EndsOfNode DEF BestOf
    <2>2. PICK order \in orders : FirstOfKind(order, c)
      BY <1>3
    <2> DEFINE tried == TryChildren(tree, order, text, search)
    <2>3. IsLoop(tried, tree, order, text, search)
      BY <1>4
    <2>4. \E t \in tried[Len(order)] : t.found /\ t.n = p
      <3> HIDE DEF tried, orders, R
      <3> QED BY <1>3, <2>1, <2>2, <2>3, LoopReaches
    <2> QED BY <1>2, <2>4
  <1>6. \A r \in R : Outcome(tree, segs, pos, E, r)
    <2> HIDE DEF After, orders, R, E
    <2> QED BY <1>2, <1>4
  <1>7. R # {}
    <2> HIDE DEF After, orders, R, E
    <2>1. PICK order \in orders : TRUE
      BY <1>3
    <2>2. PICK t \in After(order) : TRUE
      BY <1>4
    <2>3. t \in R
      BY <1>2
    <2> QED BY <2>3
  <1> HIDE DEF R, E
  <1> QED BY <1>5, <1>6, <1>7, Zenon DEF Settles, E, R

\* A search at the end of the segments settles.
LEMMA LastSettles ==
  ASSUME NEW tree, TreeInv(tree), NEW segs, Len(segs) \in Nat,
         NEW pos, Reached(tree, segs, pos), Len(pos) = Len(segs), NEW search
  PROVE  Settles(tree, segs, pos, BackSearchChild(tree, pos, segs, search))
  <1> DEFINE R == BackSearchChild(tree, pos, segs, search)
             r == Found(pos, NoWrites)
  <1>1. R = {r}
    BY Zenon DEF BackSearchChild
  <1>2. pos \in DOMAIN tree /\ pos \in Seq(Slots) /\ Len(pos) \in Nat
    BY NodePositions DEF Reached
  <1>3. BestOf(Ends(tree, segs, pos)) = {pos}
    BY EndsOfLast
  <1>4. r.found /\ r.n = pos /\ r.writes = NoWrites
    <2>1. r = Found(pos, NoWrites)
      OBVIOUS
    <2> HIDE DEF r
    <2> QED BY <2>1, OutcomeFields
  <1> HIDE DEF r, R
  <1>5. DOMAIN r.writes = {} /\ \A i \in (Len(pos) + 1)..Len(r.n) : FALSE
    BY <1>2, <1>4 DEF NoWrites
  <1>6. Begins(pos, pos)
    BY <1>2 DEF Begins
  <1>7. ValuesFit(tree, segs, pos, r) /\ NamesFit(tree, pos, r)
    BY <1>5, Zenon DEF ValuesFit, NamesFit
  <1>8. WritesFit(tree, segs, pos, r)
    BY <1>2, <1>4, <1>5, <1>6, <1>7, Zenon DEF WritesFit
  <1>9. EndsWell(r, Ends(tree, segs, pos))
    BY <1>3, <1>4, Zenon DEF EndsWell
  <1>10. Outcome(tree, segs, pos, Ends(tree, segs, pos), r)
    BY <1>8, <1>9, Zenon DEF Outcome
  <1> QED BY <1>1, <1>3, <1>4, <1>10, Zenon DEF Settles, R

\* Every search settles: from the deepest nodes up.
LEMMA SearchSettles ==
  ASSUME NEW tree, TreeInv(tree), NEW segs, Len(segs) \in Nat,
         \A i \in 1..Len(segs) : segs[i] # Absent
  PROVE  \A pos : Reached(tree, segs, pos) =>
           Settles(tree, segs, pos, Searches(tree, segs)[pos])
  <1> DEFINE L == Len(segs)
             search == Searches(tree, segs)
             S == {n \in 0..L : \A pos : Reached(tree, segs, pos) /\ Len(pos) = L - n =>
                                  Settles(tree, segs, pos, search[pos])}
  <1>1. \A pos : Reached(tree, segs, pos) =>
          /\ Len(pos) \in Nat /\ Len(pos) <= L
          /\ search[pos] = BackSearchChild(tree, pos, segs, search)
    BY NodePositions, SearchesDef DEF Reached
  <1>2. L \in Nat
    OBVIOUS
  <1> HIDE DEF search
  <1>3. 0 \in S
    <2>1. ASSUME NEW pos, Reached(tree, segs, pos), Len(pos) = L - 0
          PROVE  Settles(tree, segs, pos, search[pos])
      <3>1. Len(pos) = Len(segs)
        BY <1>2, <2>1
      <3>2. search[pos] = BackSearchChild(tree, pos, segs, search)
        BY <1>1, <2>1
      <3> QED BY <2>1, <3>1, <3>2, LastSettles
    <2> QED BY <1>2, <2>1
  <1>4. ASSUME NEW n \in 1..L, n - 1 \in S PROVE n \in S
    <2>1. ASSUME NEW pos, Reached(tree, segs, pos), Len(pos) = L - n
          PROVE  Settles(tree, segs, pos, search[pos])
      <3>1. /\ Len(pos) < Len(segs) /\ Len(pos) + 1 \in 1..Len(segs)
            /\ Len(pos) + 1 = L - (n - 1)
        BY <1>2, <2>1
      <3>2. ASSUME NEW c \in Tried(tree, pos, segs[Len(pos) + 1])
            PROVE  Settles(tree, segs, c, search[c])
        <4>1. Reached(tree, segs, c)
          BY <2>1, <3>1, EndsOfNode
        <4>2. Len(c) = L - (n - 1)
          BY <3>1 DEF Tried
        <4> QED BY <1>4, <4>1, <4>2
      <3>3. search[pos] = BackSearchChild(tree, pos, segs, search)
        BY <1>1, <2>1
      <3> QED BY <2>1, <3>1, <3>2, <3>3, NodeSettles
    <2>2. n \in 0..L
      BY <1>2
    <2> QED BY <2>1, <2>2
  <1>5. S \in SUBSET (0..L)
    OBVIOUS
  <1>6. \A n \in 0..L : n \in S
    <2> HIDE DEF S
    <2> QED BY <1>2, <1>3, <1>4, <1>5, UpTo
  <1>7. ASSUME NEW pos, Reached(tree, segs, pos) PROVE Settles(tree, segs, pos, search[pos])
    <2>1. L - Len(pos) \in 0..L /\ Len(pos) = L - (L - Len(pos))
      BY <1>1, <1>2, <1>7
    <2> QED BY <1>6, <1>7, <2>1
  <1> QED BY <1>7 DEF search

-----------------------------------------------------------------------------
(* The lookup.                                                             *)

\* Trimming leaves a sequence of texts, one at least.
LEMMA PathSegsFacts ==
  ASSUME NEW path \in Paths
  PROVE  /\ PathSegs(path) \in Seq(Texts) /\ Len(PathSegs(path)) >= 1
         /\ \A i \in 1..Len(PathSegs(path)) : PathSegs(path)[i] # Absent
  <1> DEFINE T == {i \in DOMAIN path : path[i] # ""}
             one == <<"">>
             a == CHOOSE i \in T : \A j \in T : i <= j
             b == CHOOSE i \in T : \A j \in T : j <= i
  <1>1. path \in Seq(Texts)
    BY PathsAssumption
  <1>2. PathSegs(path) = IF T = {} THEN one ELSE SubSeq(path, a, b)
    BY Zenon DEF PathSegs
  <1>3. one \in Seq(Texts) /\ Len(one) = 1
    <2> DEFINE e == ""
    <2>1. e \in Texts
      BY TextsAssumption
    <2> HIDE DEF e
    <2>2. <<e>> \in Seq(Texts) /\ Len(<<e>>) = 1
      BY <2>1
    <2> QED BY <2>2 DEF e
  <1>4. T \in SUBSET (1..Len(path)) /\ Len(path) \in Nat
    <2>1. T \subseteq DOMAIN path
      BY Zenon
    <2>2. DOMAIN path = 1..Len(path) /\ Len(path) \in Nat
      BY <1>1
    <2> HIDE DEF T
    <2> QED BY <2>1, <2>2
  <1> HIDE DEF T, one
  <1>5. ASSUME T # {} PROVE SubSeq(path, a, b) \in Seq(Texts) /\ Len(SubSeq(path, a, b)) >= 1
    <2>1. T \in SUBSET Nat
      BY <1>4
    <2>2. \E i \in T : \A j \in T : i <= j
      BY <1>5, <2>1, LeastNat
    <2>3. \E i \in T : \A j \in T : j <= i
      <3> DEFINE N == Len(path)
                 U == {N - i : i \in T}
      <3>1. U \in SUBSET Nat /\ U # {}
        <4>1. \A i \in T : N - i \in Nat
          BY <1>4
        <4> HIDE DEF N
        <4> QED BY <1>5, <4>1
      <3>2. PICK n \in U : \A k \in U : n <= k
        <4> HIDE DEF U
        <4> QED BY <3>1, LeastNat
      <3>3. PICK i \in T : n = N - i
        BY <3>2
      <3>4. ASSUME NEW j \in T PROVE j <= i
        <4>1. N - i <= N - j
          BY <3>2, <3>3
        <4> QED BY <1>4, <4>1
      <3> QED BY <3>4
    <2>4. a \in T /\ b \in T /\ a <= b
      <3>1. a \in T /\ \A j \in T : a <= j
        BY <2>2, Zenon
      <3>2. b \in T
        BY <2>3, Zenon
      <3> HIDE DEF a, b
      <3> QED BY <3>1, <3>2
    <2> HIDE DEF a, b
    <2>5. a \in 1..Len(path) /\ b \in 1..Len(path)
      BY <1>4, <2>4
    <2> QED BY <1>1, <2>4, <2>5
  <1> DEFINE s == PathSegs(path)
  <1>6. s \in Seq(Texts) /\ Len(s) >= 1
    <2> HIDE DEF a, b
    <2>1. CASE T = {}
      BY <1>2, <1>3, <2>1
    <2>2. CASE T # {}
      BY <1>2, <1>5, <2>2
    <2> QED BY <2>1, <2>2
  <1> HIDE DEF s
  <1>7. \A i \in 1..Len(s) : s[i] # Absent
    BY <1>6, AbsentAssumption
  <1> QED BY <1>6, <1>7 DEF s

\* A lookup that searches ends as the search of the root does.
Looks(m, path) == DOMAIN trees[m] # {} /\ path # <<"", "">>

\* Its outcomes are those of a search that settles, and may be any match.
LEMMA LookupSettles ==
  ASSUME IInv, NEW m \in Methods, NEW path \in Paths, Looks(m, path)
  PROVE  /\ TreeInv(trees[m])
         /\ Settles(trees[m], PathSegs(path), Root,
                    Searches(trees[m], PathSegs(path))[Root])
         /\ Ends(trees[m], PathSegs(path), Root) = Matches(trees[m], PathSegs(path))
         /\ findRouter(m, path) =
              {[found |-> r.found, n |-> r.n, pathParams |-> Bound(r.writes)] :
                 r \in Searches(trees[m], PathSegs(path))[Root]}
  <1> DEFINE tree == trees[m]
             segs == PathSegs(path)
  <1>1. TreeInv(tree)
    BY DEF IInv
  <1>2. findRouter(m, path) =
              {[found |-> r.found, n |-> r.n, pathParams |-> Bound(r.writes)] :
                 r \in Searches(tree, segs)[Root]}
    BY Zenon DEF findRouter, Looks
  <1>3. Len(segs) \in Nat /\ Len(segs) >= 1 /\ \A i \in 1..Len(segs) : segs[i] # Absent
    <2>1. segs \in Seq(Texts) /\ Len(segs) >= 1 /\ \A i \in 1..Len(segs) : segs[i] # Absent
      BY PathSegsFacts
    <2> HIDE DEF segs
    <2> QED BY <2>1
  <1>4. Root \in DOMAIN tree
    <2>1. PICK p \in DOMAIN tree : TRUE
      BY Zenon DEF Looks
    <2> QED BY <1>1, <2>1, Zenon DEF TreeInv, TreeSpells
  <1> HIDE DEF tree, segs
  <1>5. Reached(tree, segs, Root)
    BY <1>3, <1>4, RootFacts DEF Reached
  <1>6. Settles(tree, segs, Root, Searches(tree, segs)[Root])
    BY <1>1, <1>3, <1>5, SearchSettles
  <1>7. ASSUME NEW p \in Matches(tree, segs) PROVE p \in Ends(tree, segs, Root)
    <2>1. p \in DOMAIN tree /\ (Len(p) = Len(segs) \/ p # Root)
      BY MatchFacts, Zenon DEF Reached
    <2>2. Len(p) \in Nat /\ (p = Root => Len(p) = 0)
      BY <1>1, <2>1, MatchFacts, NodePositions DEF Reached
    <2>3. p # Root
      BY <1>3, <2>1, <2>2
    <2>4. Begins(Root, p)
      BY <2>2, RootFacts DEF Begins
    <2> QED BY <2>3, <2>4, Zenon DEF Ends
  <1>8. Ends(tree, segs, Root) = Matches(tree, segs)
    BY <1>7 DEF Ends
  <1> QED BY <1>1, <1>2, <1>6, <1>8 DEF tree, segs

\* What a lookup finds was found by the search of the root.
LEMMA LookupFinds ==
  ASSUME IInv, NEW m \in Methods, NEW path \in Paths, Looks(m, path)
  PROVE  /\ \A o \in findRouter(m, path) :
              \E r \in Searches(trees[m], PathSegs(path))[Root] :
                 /\ Outcome(trees[m], PathSegs(path), Root, Matches(trees[m], PathSegs(path)), r)
                 /\ o.found <=> r.found
                 /\ o.n = r.n /\ o.pathParams = Bound(r.writes)
         /\ \A p \in BestOf(Matches(trees[m], PathSegs(path))) :
              \E o \in findRouter(m, path) : o.found /\ o.n = p
         /\ findRouter(m, path) # {}
  <1> DEFINE R == Searches(trees[m], PathSegs(path))[Root]
             E == Matches(trees[m], PathSegs(path))
             Of(r) == [found |-> r.found, n |-> r.n, pathParams |-> Bound(r.writes)]
  <1>1. findRouter(m, path) = {Of(r) : r \in R}
    BY LookupSettles, Zenon
  <1>2. /\ R # {} /\ \A r \in R : Outcome(trees[m], PathSegs(path), Root, E, r)
        /\ \A p \in BestOf(E) : \E r \in R : r.found /\ r.n = p
    <2>1. /\ Settles(trees[m], PathSegs(path), Root, R)
          /\ Ends(trees[m], PathSegs(path), Root) = E
      BY LookupSettles, Zenon
    <2> HIDE DEF R, E
    <2> QED BY <2>1, Zenon DEF Settles
  <1>3. \A r : (Of(r).found <=> r.found) /\ Of(r).n = r.n /\ Of(r).pathParams = Bound(r.writes)
    OBVIOUS
  <1> HIDE DEF Of, R, E
  <1>4. \A o \in findRouter(m, path) : \E r \in R : o = Of(r)
    BY <1>1
  <1>5. \A r \in R : Of(r) \in findRouter(m, path)
    BY <1>1
  <1>6. ASSUME NEW o \in findRouter(m, path)
        PROVE  \E r \in R : /\ Outcome(trees[m], PathSegs(path), Root, E, r)
                            /\ o.found <=> r.found
                            /\ o.n = r.n /\ o.pathParams = Bound(r.writes)
    <2>1. PICK r \in R : o = Of(r)
      BY <1>4
    <2>2. Outcome(trees[m], PathSegs(path), Root, E, r)
      BY <1>2
    <2>3. (o.found <=> r.found) /\ o.n = r.n /\ o.pathParams = Bound(r.writes)
      BY <1>3, <2>1, Zenon
    <2> QED BY <2>2, <2>3
  <1>7. ASSUME NEW p \in BestOf(E) PROVE \E o \in findRouter(m, path) : o.found /\ o.n = p
    BY <1>2, <1>3, <1>5, Zenon
  <1>8. findRouter(m, path) # {}
    BY <1>2, <1>5, Zenon
  <1> QED BY <1>6, <1>7, <1>8 DEF R, E

\* What the inductive invariant says of the nodes a lookup ends at.
LEMMA BestFromIInv == IInv => FindIsBest
  <1> SUFFICES ASSUME IInv, NEW m \in Methods, NEW path \in Paths, Looks(m, path)
               PROVE  LET best == Best(trees[m], PathSegs(path))
                          outcomes == findRouter(m, path)
                      IN /\ {r.n : r \in {o \in outcomes : o.found}} = best
                         /\ (\E r \in outcomes : ~r.found) <=> best = {}
    BY Zenon DEF FindIsBest, Looks
  <1> DEFINE tree == trees[m]
             segs == PathSegs(path)
             E == Matches(tree, segs)
             out == findRouter(m, path)
             best == Best(tree, segs)
  <1>1. best = BestOf(E)
    BY DEF Best, BestOf
  <1>2. /\ \A o \in out : \E r : Outcome(tree, segs, Root, E, r) /\ (o.found <=> r.found) /\ o.n = r.n
        /\ \A p \in BestOf(E) : \E o \in out : o.found /\ o.n = p
        /\ out # {}
    BY LookupFinds
  <1> HIDE DEF tree, segs, E, out, best
  <1>3. ASSUME NEW o \in out PROVE IF o.found THEN o.n \in best ELSE E = {}
    <2>1. PICK r : Outcome(tree, segs, Root, E, r) /\ (o.found <=> r.found) /\ o.n = r.n
      BY <1>2
    <2>2. IF r.found THEN r.n \in BestOf(E) ELSE E = {}
      BY <2>1, Zenon DEF Outcome, EndsWell
    <2> QED BY <1>1, <2>1, <2>2, Zenon
  <1>4. {r.n : r \in {o \in out : o.found}} = best
    BY <1>1, <1>2, <1>3
  <1>5. E = {} => best = {}
    BY <1>1 DEF BestOf
  <1>6. (\E r \in out : ~r.found) <=> best = {}
    BY <1>2, <1>3, <1>5
  <1> QED BY <1>4, <1>6 DEF best, out, tree, segs

\* What it says of the parameters.
LEMMA ParamsFromIInv == IInv => ParamsLastWins
  <1> SUFFICES ASSUME IInv, NEW m \in Methods, NEW path \in Paths,
                      NEW o \in findRouter(m, path), o.found
               PROVE  /\ \A name \in DOMAIN o.pathParams :
                           \E i \in Levels(trees[m], o.n, name) :
                              /\ \A j \in Levels(trees[m], o.n, name) : j <= i
                              /\ o.pathParams[name] = PathSegs(path)[i]
                      /\ \A i \in 1..Len(o.n) :
                           Names(SubSeq(o.n, 1, i)) =>
                             LET name == trees[m][SubSeq(o.n, 1, i)].paramName IN
                             \/ name \in DOMAIN o.pathParams
                             \/ BoundAgain(trees[m], o.n, i, name)
    BY Zenon DEF ParamsLastWins
  <1> DEFINE tree == trees[m]
             segs == PathSegs(path)
             none == [found |-> FALSE, n |-> Root, pathParams |-> NoParams]
             root == [found |-> TRUE, n |-> Root, pathParams |-> NoParams]
  <1>1. CASE Looks(m, path)
    <2>1. PICK r : /\ Outcome(tree, segs, Root, Matches(tree, segs), r)
                   /\ r.found /\ o.n = r.n /\ o.pathParams = Bound(r.writes)
      BY <1>1, LookupFinds
    <2> DEFINE w == r.writes
               n == r.n
    <2>2. /\ \A x \in DOMAIN w : w[x] # Absent =>
               \E i \in Levels(tree, n, x) :
                 /\ Len(Root) < i /\ w[x] = segs[i]
                 /\ \A j \in Levels(tree, n, x) : j <= i
          /\ \A i \in (Len(Root) + 1)..Len(n) : \A x : BindsAt(tree, n, i, x) =>
               x \in DOMAIN w /\ (w[x] # Absent \/ BoundAgain(tree, n, i, x))
      BY <2>1, Zenon DEF Outcome, WritesFit, ValuesFit, NamesFit
    <2>3. /\ DOMAIN Bound(w) = {x \in DOMAIN w : w[x] # Absent}
          /\ \A x \in DOMAIN Bound(w) : Bound(w)[x] = w[x]
      BY DEF Bound
    <2>4. Len(Root) + 1 = 1
      BY RootFacts
    <2> HIDE DEF w, n, tree, segs
    <2>5. ASSUME NEW x \in DOMAIN Bound(w)
          PROVE  \E i \in Levels(tree, n, x) :
                    /\ \A j \in Levels(tree, n, x) : j <= i
                    /\ Bound(w)[x] = segs[i]
      <3>1. x \in DOMAIN w /\ w[x] # Absent /\ Bound(w)[x] = w[x]
        BY <2>3
      <3> QED BY <2>2, <3>1, Zenon
    <2>6. ASSUME NEW i \in 1..Len(n), Names(SubSeq(n, 1, i))
          PROVE  LET name == tree[SubSeq(n, 1, i)].paramName IN
                 name \in DOMAIN Bound(w) \/ BoundAgain(tree, n, i, name)
      <3> DEFINE name == tree[SubSeq(n, 1, i)].paramName
      <3>1. BindsAt(tree, n, i, name)
        BY <2>6, Zenon DEF BindsAt
      <3> HIDE DEF name
      <3>2. name \in DOMAIN w /\ (w[name] # Absent \/ BoundAgain(tree, n, i, name))
        BY <2>2, <2>4, <3>1
      <3>3. name \in DOMAIN Bound(w) \/ BoundAgain(tree, n, i, name)
        BY <2>3, <3>2
      <3> QED BY <3>3 DEF name
    <2>7. o.n = n /\ o.pathParams = Bound(w)
      BY <2>1 DEF n, w
    <2> QED BY <2>5, <2>6, <2>7, Zenon DEF tree, segs
  <1>2. CASE ~Looks(m, path)
    <2>1. o = none \/ o = root
      BY <1>2, Zenon DEF findRouter, Looks
    <2>2. o.n = Root /\ o.pathParams = <<>>
      BY <2>1 DEF NoParams
    <2>3. DOMAIN o.pathParams = {} /\ 1..Len(o.n) = {}
      BY <2>2, RootFacts
    <2> QED BY <2>3, Zenon
  <1> QED BY <1>1, <1>2

\* What it says of the handler that runs.
LEMMA ServedFromIInv == IInv => ServedAsRegistered
  <1> SUFFICES ASSUME IInv, NEW m \in Methods, NEW path \in Paths,
                      NEW o \in serve(m, path), o.status = "handled"
               PROVE  \E r \in registered :
                        /\ r.method = m /\ r.handlefunc = o.handlefunc
                        /\ o.MatchRoute = RouteText(r.segs, Len(r.segs))
                        /\ \A i \in 1..Len(r.segs) :
                             Accepts(Slot(r.segs[i]), PathSegs(path)[i])
    BY Zenon DEF ServedAsRegistered
  <1> DEFINE tree == trees[m]
             segs == PathSegs(path)
  <1>1. PICK f \in findRouter(m, path) :
          /\ f.found /\ tree[f.n].handlefunc # Nil
          /\ o.handlefunc = tree[f.n].handlefunc /\ o.MatchRoute = tree[f.n].route
    <2> DEFINE no == [status |-> "NotFound"]
               yes(f) == [status |-> "handled", handlefunc |-> trees[m][f.n].handlefunc,
                          MatchRoute |-> trees[m][f.n].route, PathParams |-> f.pathParams]
    <2>1. PICK f \in findRouter(m, path) :
            o = IF ~f.found \/ trees[m][f.n].handlefunc = Nil THEN no ELSE yes(f)
      BY Zenon DEF serve
    <2>2. no.status # "handled"
      OBVIOUS
    <2>3. yes(f).handlefunc = tree[f.n].handlefunc /\ yes(f).MatchRoute = tree[f.n].route
      OBVIOUS
    <2> HIDE DEF no, yes
    <2>4. ~(~f.found \/ trees[m][f.n].handlefunc = Nil)
      BY <2>1, <2>2, Zenon
    <2>5. o = yes(f)
      BY <2>1, <2>4, Zenon
    <2> QED BY <2>3, <2>4, <2>5, Zenon
  <1> DEFINE n == f.n
  <1>2. n \in DOMAIN tree /\ \A i \in 1..Len(n) : Accepts(n[i], segs[i])
    <2>1. CASE Looks(m, path)
      <3>1. PICK r : /\ Outcome(tree, segs, Root, Matches(tree, segs), r)
                     /\ r.found /\ f.n = r.n
        BY <1>1, <2>1, LookupFinds
      <3>2. r.n \in BestOf(Matches(tree, segs))
        BY <3>1, Zenon DEF Outcome, EndsWell
      <3>3. n \in Matches(tree, segs)
        BY <3>1, <3>2 DEF BestOf
      <3> QED BY <3>3, MatchFacts, Zenon DEF Reached
    <2>2. CASE ~Looks(m, path)
      <3>1. CASE DOMAIN tree = {}
        <4>1. f = [found |-> FALSE, n |-> Root, pathParams |-> NoParams]
          BY <3>1, Zenon DEF findRouter
        <4> QED BY <1>1, <4>1
      <3>2. CASE DOMAIN tree # {}
        <4>1. f = [found |-> TRUE, n |-> Root, pathParams |-> NoParams]
          BY <2>2, <3>2, Zenon DEF findRouter, Looks
        <4>2. n = Root
          BY <4>1
        <4>3. PICK p \in DOMAIN tree : TRUE
          BY <3>2
        <4>4. Root \in DOMAIN tree
          BY <4>3, Zenon DEF IInv, TreeInv, TreeSpells
        <4>5. 1..Len(n) = {}
          BY <4>2, RootFacts
        <4> QED BY <4>2, <4>4, <4>5, Zenon
      <3> QED BY <3>1, <3>2
    <2> QED BY <2>1, <2>2
  <1> HIDE DEF n
  <1>3. tree[n].handlefunc # Nil /\ o.handlefunc = tree[n].handlefunc /\ o.MatchRoute = tree[n].route
    BY <1>1 DEF n
  <1>4. PICK r \in registered : r.method = m /\ Position(r.segs, Len(r.segs)) = n
    BY <1>2, <1>3, Zenon DEF IInv, HandlersExact
  <1>5. /\ trees[r.method][Position(r.segs, Len(r.segs))].handlefunc = r.handlefunc
        /\ trees[r.method][Position(r.segs, Len(r.segs))].route = RouteText(r.segs, Len(r.segs))
    BY Zenon DEF IInv, HandlersExact
  <1>6. r.handlefunc = o.handlefunc /\ o.MatchRoute = RouteText(r.segs, Len(r.segs))
    BY <1>3, <1>4, <1>5, Zenon
  <1>7. Len(n) = Len(r.segs) /\ \A i \in 1..Len(r.segs) : n[i] = Slot(r.segs[i])
    <2>1. r.segs \in Seq(Segs)
      BY DEF IInv, RegisteredType
    <2>2. r.segs \in Seq(AllSegs) /\ Len(r.segs) \in 0..Len(r.segs)
      BY <2>1, SeqMonotonic DEF AllSegs
    <2> QED BY <1>4, <2>2, PositionFacts
  <1>8. \A i \in 1..Len(r.segs) : Accepts(Slot(r.segs[i]), segs[i])
    BY <1>2, <1>7, Zenon
  <1> QED BY <1>4, <1>6, <1>8, Zenon

\* Whatever was registered and in whatever order the regexps are tried, a lookup
\* ends at a node that comes first in the documented order, at any such node, and
\* finds nothing only if no node matches.
THEOREM FindsTheBest == Spec => []FindIsBest
  BY BestFromIInv, InvariantHolds, PTL

\* The parameters of a request are those of the branch that matched, each with the
\* last segment bound to its name; only a name bound again may be missing.
THEOREM ParametersAreTheLast == Spec => []ParamsLastWins
  BY ParamsFromIInv, InvariantHolds, PTL

\* The handler that runs was registered under the pattern reported, and that
\* pattern accepts the request.
THEOREM AnswersAsRegistered == Spec => []ServedAsRegistered
  BY ServedFromIInv, InvariantHolds, PTL

=============================================================================
