---------------------------- MODULE GroupsProofs ----------------------------
(***************************************************************************)
(* Proofs about Groups, for any texts, prefixes, patterns, paths and       *)
(* middlewares and any number of groups.                                   *)
(*                                                                         *)
(* The invariant says that no middleware is used twice, that a group's     *)
(* prefix begins with that of its parent, and that a pattern given to the  *)
(* router begins with the prefix of its group.  What a request goes        *)
(* through then follows from how groups are wrapped, one after the other,  *)
(* in any order that sort.Slice may leave.                                 *)
(***************************************************************************)
EXTENDS Groups, SequenceTheorems, FiniteSetTheorems, WellFoundedInduction, TLAPS

Distinct(s) == \A i, j \in DOMAIN s : s[i] = s[j] => i = j

\* x is somewhere in front of y.
Before(s, x, y) == \E i, j \in DOMAIN s : i < j /\ s[i] = x /\ s[j] = y

\* q is p with more segments.
Begins(p, q) == Len(p) <= Len(q) /\ \A i \in 1..Len(p) : q[i] = p[i]

\* The text of a path begins with a slash, or is empty.
Rooted == {p \in Seq(Texts) : p # <<>> /\ p[1] = ""}

GroupRecord == [Prefix: Rooted, Mdls: Seq(Middlewares), Parent: Nat]

Typed == groups \in Seq(GroupRecord) /\ Len(groups) \in 1..MaxGroups /\ mdls \in Seq(Middlewares)

Parents ==
    \A g \in DOMAIN groups :
        /\ groups[g].Parent \in 0..(g - 1)
        /\ groups[g].Parent # 0 => Begins(groups[groups[g].Parent].Prefix, groups[g].Prefix)

\* A middleware is used once.
UsedOnce ==
    /\ Distinct(mdls)
    /\ \A g \in DOMAIN groups :
        /\ Distinct(groups[g].Mdls)
        /\ ToSet(groups[g].Mdls) \cap ToSet(mdls) = {}
        /\ \A h \in DOMAIN groups :
            g # h => ToSet(groups[g].Mdls) \cap ToSet(groups[h].Mdls) = {}

RoutedOK ==
    \A r \in routed :
        /\ r.group \in DOMAIN groups
        /\ \E q \in Patterns : r.pattern = Joined(groups[r.group].Prefix, q)

IInv == Typed /\ Parents /\ UsedOnce /\ RoutedOK

-----------------------------------------------------------------------------
\* What is rooted has a first segment, the empty one.
LEMMA RootedFacts ==
  /\ \A p \in Rooted :
       p \in Seq(Texts) /\ p # <<>> /\ Len(p) \in Nat /\ Len(p) >= 1 /\ p[1] = ""
  /\ \A p \in Seq(Texts) : p # <<>> /\ p[1] = "" => p \in Rooted
  /\ GroupPrefixes \subseteq Rooted /\ Patterns \subseteq Rooted /\ Paths \subseteq Rooted
  /\ <<"">> \in Rooted
  <1>1. \A p \in Rooted : p \in Seq(Texts) /\ p # <<>> /\ p[1] = ""
    BY Zenon DEF Rooted
  <1>2. \A p \in Seq(Texts) : p # <<>> => Len(p) \in Nat /\ Len(p) >= 1
    OBVIOUS
  <1>3. \A p \in Seq(Texts) : p # <<>> /\ p[1] = "" => p \in Rooted
    BY Zenon DEF Rooted
  <1>4. \A p \in GroupPrefixes \union Patterns \union Paths : p \in Rooted
    BY <1>3, PathsAssumption, Zenon
  <1>5. <<"">> \in Rooted
    <2>1. "" \in Texts
      BY TextsAssumption
    <2>2. \A t \in Texts : <<t>> \in Seq(Texts) /\ <<t>> # <<>> /\ <<t>>[1] = t
      OBVIOUS
    <2> QED BY <1>3, <2>1, <2>2, Zenon
  <1>6. GroupPrefixes \subseteq Rooted /\ Patterns \subseteq Rooted /\ Paths \subseteq Rooted
    BY <1>4, Zenon
  <1>7. \A p \in Rooted : Len(p) \in Nat /\ Len(p) >= 1
    BY <1>1, <1>2, Zenon
  <1> QED BY <1>1, <1>3, <1>5, <1>6, <1>7, Zenon

\* Joining a prefix and what follows it.
LEMMA JoinedFacts ==
  ASSUME NEW p \in Rooted, NEW q \in Rooted
  PROVE  /\ Joined(p, q) \in Rooted
         /\ Len(Joined(p, q)) = Len(p) + Len(q) - 1
         /\ Len(p) \in Nat /\ Len(q) \in Nat /\ Len(p) >= 1 /\ Len(q) >= 1
         /\ \A i \in 1..Len(p) : Joined(p, q)[i] = p[i]
         /\ \A i \in (Len(p) + 1)..(Len(p) + Len(q) - 1) :
              Joined(p, q)[i] = q[i - Len(p) + 1]
         /\ Begins(p, Joined(p, q))
  <1> DEFINE t == Tail(q)
  <1>1. /\ p \in Seq(Texts) /\ Len(p) \in Nat /\ Len(p) >= 1
        /\ q \in Seq(Texts) /\ q # <<>> /\ Len(q) \in Nat /\ Len(q) >= 1
    BY RootedFacts, Zenon
  <1>2. t \in Seq(Texts) /\ Len(t) = Len(q) - 1 /\ \A i \in 1..(Len(q) - 1) : t[i] = q[i + 1]
    BY <1>1
  <1> HIDE DEF t
  <1>3. /\ p \o t \in Seq(Texts)
        /\ Len(p \o t) = Len(p) + Len(t)
        /\ \A i \in 1..(Len(p) + Len(t)) :
             (p \o t)[i] = IF i <= Len(p) THEN p[i] ELSE t[i - Len(p)]
    BY <1>1, <1>2, ConcatProperties
  <1>4. \A i \in 1..Len(p) : (p \o t)[i] = p[i]
    BY <1>1, <1>2, <1>3
  <1>5. ASSUME NEW i \in (Len(p) + 1)..(Len(p) + Len(q) - 1)
        PROVE  (p \o t)[i] = q[i - Len(p) + 1]
    <2>1. i \in 1..(Len(p) + Len(t)) /\ ~(i <= Len(p)) /\ i - Len(p) \in 1..(Len(q) - 1)
      BY <1>1, <1>2
    <2> QED BY <1>2, <1>3, <2>1
  <1>6. p \o t # <<>> /\ (p \o t)[1] = ""
    <2>1. Len(p \o t) >= 1 /\ 1 \in 1..Len(p)
      BY <1>1, <1>2, <1>3
    <2>2. (p \o t)[1] = p[1]
      BY <1>4, <2>1
    <2>3. p \o t # <<>>
      BY <2>1
    <2>4. p[1] = ""
      BY RootedFacts, Zenon
    <2> QED BY <2>2, <2>3, <2>4, Zenon
  <1>7. Joined(p, q) = p \o t
    BY DEF Joined, t
  <1>8. Len(p) <= Len(p \o t) /\ Len(p \o t) = Len(p) + Len(q) - 1
    BY <1>1, <1>2, <1>3
  <1>9. p \o t \in Rooted
    BY <1>3, <1>6, RootedFacts, Zenon
  <1>10. Begins(p, p \o t)
    BY <1>4, <1>8, Zenon DEF Begins
  <1> QED BY <1>1, <1>4, <1>5, <1>7, <1>8, <1>9, <1>10, Zenon

\* Appending a middleware that is new to a sequence.
LEMMA AppendFacts ==
  ASSUME NEW s \in Seq(Middlewares), Distinct(s), NEW m \in Middlewares, m \notin ToSet(s)
  PROVE  /\ Append(s, m) \in Seq(Middlewares)
         /\ Distinct(Append(s, m))
         /\ ToSet(Append(s, m)) = ToSet(s) \union {m}
  <1> DEFINE new == Append(s, m)
  <1>1. /\ new \in Seq(Middlewares) /\ DOMAIN new = 1..(Len(s) + 1) /\ new[Len(s) + 1] = m
        /\ \A i \in 1..Len(s) : new[i] = s[i]
    OBVIOUS
  <1>2. DOMAIN s = 1..Len(s) /\ Len(s) \in Nat
    OBVIOUS
  <1> HIDE DEF new
  <1>3. \A i \in DOMAIN new : i = Len(s) + 1 \/ i \in DOMAIN s
    BY <1>1, <1>2
  <1>4. \A i \in DOMAIN s : i \in DOMAIN new /\ new[i] = s[i] /\ s[i] # m
    BY <1>1, <1>2 DEF ToSet
  <1>5. Len(s) + 1 \in DOMAIN new
    BY <1>1, <1>2
  <1>6. Distinct(new)
    BY <1>1, <1>3, <1>4 DEF Distinct
  <1>7. ToSet(new) = ToSet(s) \union {m}
    BY <1>1, <1>3, <1>4, <1>5 DEF ToSet
  <1> QED BY <1>1, <1>6, <1>7 DEF new

\* The first state.
LEMMA InitIInv == Init => IInv
  <1> SUFFICES ASSUME Init PROVE IInv
    OBVIOUS
  <1> DEFINE slash == <<"">>
             first == [Prefix |-> slash, Mdls |-> <<>>, Parent |-> 0]
  <1>1. groups = <<first>> /\ mdls = <<>> /\ routed = {}
    BY DEF Init
  <1>2. slash \in Rooted
    BY RootedFacts, Zenon
  <1> HIDE DEF slash
  <1>3. first \in GroupRecord /\ first.Mdls = <<>> /\ first.Parent = 0
    BY <1>2 DEF GroupRecord
  <1> HIDE DEF first
  <1>4. groups \in Seq(GroupRecord) /\ Len(groups) = 1 /\ DOMAIN groups = {1}
        /\ groups[1].Mdls = <<>> /\ groups[1].Parent = 0
    BY <1>1, <1>3
  <1>5. Typed
    BY <1>1, <1>4, BoundAssumption DEF Typed
  <1>6. Parents
    BY <1>4 DEF Parents
  <1>7. UsedOnce
    BY <1>1, <1>4 DEF UsedOnce, Distinct, ToSet
  <1> QED BY <1>1, <1>5, <1>6, <1>7 DEF IInv, RoutedOK

\* A new group has a prefix that begins with its parent's, and no middlewares.
LEMMA NewGroupIInv ==
  ASSUME IInv, NEW g \in DOMAIN groups, NEW prefix \in GroupPrefixes, NewGroup(g, prefix)
  PROVE  IInv'
  <1> DEFINE n == Len(groups)
             new == [Prefix |-> Joined(groups[g].Prefix, prefix), Mdls |-> <<>>, Parent |-> g]
  <1>1. /\ groups \in Seq(GroupRecord) /\ n \in Nat /\ n >= 1 /\ n < MaxGroups
        /\ DOMAIN groups = 1..n /\ mdls \in Seq(Middlewares)
        /\ groups' = Append(groups, new) /\ mdls' = mdls /\ routed' = routed
    BY DEF IInv, Typed, NewGroup
  <1>2. groups[g].Prefix \in Rooted /\ prefix \in Rooted
    <2>1. groups[g] \in GroupRecord
      BY <1>1
    <2>2. groups[g].Prefix \in Rooted
      BY <2>1 DEF GroupRecord
    <2> QED BY <2>2, RootedFacts, Zenon
  <1>3. new.Prefix \in Rooted /\ Begins(groups[g].Prefix, new.Prefix)
    BY <1>2, JoinedFacts
  <1>4. new \in GroupRecord /\ new.Mdls = <<>> /\ new.Parent = g
    BY <1>1, <1>3 DEF GroupRecord
  <1> HIDE DEF new
  <1>5. /\ groups' \in Seq(GroupRecord) /\ Len(groups') = n + 1
        /\ DOMAIN groups' = 1..(n + 1) /\ groups'[n + 1] = new
        /\ \A h \in 1..n : groups'[h] = groups[h]
    BY <1>1, <1>4
  <1> HIDE DEF n
  <1>6. /\ \A h \in DOMAIN groups' : h = n + 1 \/ h \in DOMAIN groups
        /\ \A h \in DOMAIN groups : h \in DOMAIN groups' /\ groups'[h] = groups[h] /\ h # n + 1
    BY <1>1, <1>5
  <1>7. Typed'
    BY <1>1, <1>5, BoundAssumption DEF Typed
  <1>8. Parents'
    <2> SUFFICES ASSUME NEW h \in DOMAIN groups'
                 PROVE  /\ groups'[h].Parent \in 0..(h - 1)
                        /\ groups'[h].Parent # 0 =>
                             Begins(groups'[groups'[h].Parent].Prefix, groups'[h].Prefix)
      BY DEF Parents, Begins
    <2>1. CASE h = n + 1
      <3>1. groups'[h].Parent = g /\ groups'[g] = groups[g] /\ groups'[h].Prefix = new.Prefix
        BY <1>4, <1>5, <1>6, <2>1
      <3>2. g \in 0..(h - 1)
        BY <1>1, <2>1
      <3> QED BY <1>3, <3>1, <3>2
    <2>2. CASE h \in DOMAIN groups
      <3>1. /\ groups[h].Parent \in 0..(h - 1)
            /\ groups[h].Parent # 0 => Begins(groups[groups[h].Parent].Prefix, groups[h].Prefix)
        BY <2>2 DEF IInv, Parents
      <3>2. groups[h].Parent # 0 => groups[h].Parent \in DOMAIN groups
        BY <1>1, <2>2, <3>1
      <3> QED BY <1>6, <2>2, <3>1, <3>2
    <2> QED BY <1>6, <2>1, <2>2
  <1>9. UsedOnce'
    <2>1. \A h \in DOMAIN groups' :
            \/ groups'[h].Mdls = <<>>
            \/ h \in DOMAIN groups /\ groups'[h].Mdls = groups[h].Mdls
      BY <1>4, <1>5, <1>6
    <2>2. Distinct(<<>>) /\ ToSet(<<>>) = {}
      BY DEF Distinct, ToSet
    <2>3. UsedOnce' <=>
            /\ Distinct(mdls)
            /\ \A x \in DOMAIN groups' :
                /\ Distinct(groups'[x].Mdls)
                /\ ToSet(groups'[x].Mdls) \cap ToSet(mdls) = {}
                /\ \A y \in DOMAIN groups' :
                    x # y => ToSet(groups'[x].Mdls) \cap ToSet(groups'[y].Mdls) = {}
      BY <1>1 DEF UsedOnce, Distinct, ToSet
    <2> QED BY <2>1, <2>2, <2>3 DEF IInv, UsedOnce
  <1>10. RoutedOK'
    BY <1>1, <1>6 DEF IInv, RoutedOK, Joined
  <1> QED BY <1>7, <1>8, <1>9, <1>10 DEF IInv

\* A middleware that is used by a group was used nowhere before.
LEMMA UseIInv ==
  ASSUME IInv, NEW g \in DOMAIN groups, NEW m \in Middlewares, Use(g, m)
  PROVE  IInv'
  <1> DEFINE own == Append(groups[g].Mdls, m)
  <1>1. /\ groups \in Seq(GroupRecord) /\ Len(groups) \in 1..MaxGroups
        /\ \A h \in DOMAIN groups : groups[h] \in GroupRecord
        /\ groups' = [groups EXCEPT ![g].Mdls = own] /\ mdls' = mdls /\ routed' = routed
    BY DEF IInv, Typed, Use
  <1>2. \A h \in DOMAIN groups : m \notin ToSet(groups[h].Mdls)
    BY DEF Use, Used
  <1>3. m \notin ToSet(mdls)
    BY DEF Use, Used
  <1>4. groups[g].Mdls \in Seq(Middlewares) /\ Distinct(groups[g].Mdls)
    BY <1>1 DEF GroupRecord, IInv, UsedOnce
  <1>5. own \in Seq(Middlewares) /\ Distinct(own) /\ ToSet(own) = ToSet(groups[g].Mdls) \union {m}
    BY <1>2, <1>4, AppendFacts
  <1> HIDE DEF own
  <1>6. /\ DOMAIN groups' = DOMAIN groups /\ groups'[g].Mdls = own
        /\ \A h \in DOMAIN groups :
             /\ groups'[h].Prefix = groups[h].Prefix /\ groups'[h].Parent = groups[h].Parent
             /\ h # g => groups'[h].Mdls = groups[h].Mdls
    BY <1>1 DEF GroupRecord
  <1>7. groups' \in Seq(GroupRecord) /\ Len(groups') = Len(groups)
    <2>1. [groups[g] EXCEPT !.Mdls = own] \in GroupRecord
      BY <1>1, <1>5 DEF GroupRecord
    <2>2. groups' = [groups EXCEPT ![g] = [groups[g] EXCEPT !.Mdls = own]]
      BY <1>1
    <2> QED BY <1>1, <2>1, <2>2
  <1>8. Typed'
    BY <1>1, <1>7 DEF Typed, IInv
  <1>9. Parents'
    <2>1. \A h \in DOMAIN groups : groups[h].Parent # 0 => groups[h].Parent \in DOMAIN groups
      <3>1. DOMAIN groups = 1..Len(groups) /\ Len(groups) \in Nat
        BY <1>1
      <3> QED BY <3>1 DEF IInv, Parents
    <2>2. Parents' <=>
            \A h \in DOMAIN groups' :
              /\ groups'[h].Parent \in 0..(h - 1)
              /\ groups'[h].Parent # 0 =>
                   Begins(groups'[groups'[h].Parent].Prefix, groups'[h].Prefix)
      BY Zenon DEF Parents, Begins
    <2> QED BY <1>6, <2>1, <2>2 DEF IInv, Parents
  <1>10. UsedOnce'
    <2>1. UsedOnce' <=>
            /\ Distinct(mdls)
            /\ \A x \in DOMAIN groups' :
                /\ Distinct(groups'[x].Mdls)
                /\ ToSet(groups'[x].Mdls) \cap ToSet(mdls) = {}
                /\ \A y \in DOMAIN groups' :
                    x # y => ToSet(groups'[x].Mdls) \cap ToSet(groups'[y].Mdls) = {}
      BY <1>1 DEF UsedOnce, Distinct, ToSet
    <2>2. \A x \in DOMAIN groups : Distinct(groups'[x].Mdls)
      BY <1>5, <1>6 DEF IInv, UsedOnce
    <2>3. \A x \in DOMAIN groups : ToSet(groups'[x].Mdls) \cap ToSet(mdls) = {}
      BY <1>3, <1>5, <1>6 DEF IInv, UsedOnce
    <2>4. \A x, y \in DOMAIN groups :
            x # y => ToSet(groups'[x].Mdls) \cap ToSet(groups'[y].Mdls) = {}
      BY <1>2, <1>5, <1>6 DEF IInv, UsedOnce
    <2> QED BY <1>6, <2>1, <2>2, <2>3, <2>4 DEF IInv, UsedOnce
  <1>11. RoutedOK'
    <2>1. RoutedOK' <=>
            \A r \in routed :
              /\ r.group \in DOMAIN groups'
              /\ \E q \in Patterns : r.pattern = Joined(groups'[r.group].Prefix, q)
      BY <1>1, Zenon DEF RoutedOK, Joined
    <2>2. RoutedOK
      BY DEF IInv
    <2> QED BY <1>6, <2>1, <2>2, Zenon DEF RoutedOK
  <1> QED BY <1>8, <1>9, <1>10, <1>11 DEF IInv

\* Routes leave the tree of groups alone.
LEMMA SameTree ==
  ASSUME groups' = groups, mdls' = mdls, Typed, Parents, UsedOnce
  PROVE  Typed' /\ Parents' /\ UsedOnce'
  <1>1. Typed' <=> Typed
    BY DEF Typed
  <1>2. Parents'
    BY DEF Parents, Begins
  <1>3. UsedOnce' <=>
          /\ Distinct(mdls)
          /\ \A x \in DOMAIN groups :
              /\ Distinct(groups[x].Mdls)
              /\ ToSet(groups[x].Mdls) \cap ToSet(mdls) = {}
              /\ \A y \in DOMAIN groups :
                  x # y => ToSet(groups[x].Mdls) \cap ToSet(groups[y].Mdls) = {}
    BY DEF UsedOnce, Distinct, ToSet
  <1> QED BY <1>1, <1>2, <1>3 DEF UsedOnce

\* Every operation preserves the invariant.
LEMMA NextIInv == IInv /\ [Next]_vars => IInv'
  <1> SUFFICES ASSUME IInv, [Next]_vars PROVE IInv'
    OBVIOUS
  <1>1. ASSUME NEW m \in Middlewares, UseEngine(m) PROVE IInv'
    <2>1. /\ mdls' = Append(mdls, m) /\ groups' = groups /\ routed' = routed
          /\ m \notin ToSet(mdls) /\ \A h \in DOMAIN groups : m \notin ToSet(groups[h].Mdls)
      BY <1>1 DEF UseEngine, Used
    <2>2. mdls' \in Seq(Middlewares) /\ Distinct(mdls') /\ ToSet(mdls') = ToSet(mdls) \union {m}
      <3>1. mdls \in Seq(Middlewares) /\ Distinct(mdls)
        BY DEF IInv, Typed, UsedOnce
      <3> QED BY <2>1, <3>1, AppendFacts
    <2>3. UsedOnce'
      <3>1. UsedOnce' <=>
              /\ Distinct(mdls')
              /\ \A x \in DOMAIN groups :
                  /\ Distinct(groups[x].Mdls)
                  /\ ToSet(groups[x].Mdls) \cap ToSet(mdls') = {}
                  /\ \A y \in DOMAIN groups :
                      x # y => ToSet(groups[x].Mdls) \cap ToSet(groups[y].Mdls) = {}
        BY <2>1 DEF UsedOnce, Distinct, ToSet
      <3> QED BY <2>1, <2>2, <3>1 DEF IInv, UsedOnce
    <2> QED BY <2>1, <2>2, <2>3 DEF IInv, Typed, Parents, RoutedOK, Begins, Joined
  <1>2. ASSUME NEW g \in DOMAIN groups, NEW pattern \in Patterns, Route(g, pattern) PROVE IInv'
    <2>1. /\ routed' = routed \union {[group |-> g, pattern |-> Joined(groups[g].Prefix, pattern)]}
          /\ groups' = groups /\ mdls' = mdls
      BY <1>2 DEF Route
    <2> DEFINE new == [group |-> g, pattern |-> Joined(groups[g].Prefix, pattern)]
    <2>2. new.group = g /\ new.pattern = Joined(groups[g].Prefix, pattern)
      OBVIOUS
    <2>3. routed' = routed \union {new}
      BY <2>1
    <2> HIDE DEF new
    <2>4. RoutedOK' <=>
            \A r \in routed' :
              /\ r.group \in DOMAIN groups
              /\ \E q \in Patterns : r.pattern = Joined(groups[r.group].Prefix, q)
      BY <2>1, Zenon DEF RoutedOK, Joined
    <2>5. RoutedOK
      BY DEF IInv
    <2>6. RoutedOK'
      BY <2>2, <2>3, <2>4, <2>5, Zenon DEF RoutedOK
    <2>7. Typed' /\ Parents' /\ UsedOnce'
      BY <2>1, SameTree DEF IInv
    <2> QED BY <2>6, <2>7, Zenon DEF IInv
  <1>3. CASE UNCHANGED vars
    <2>1. groups' = groups /\ mdls' = mdls /\ routed' = routed
      BY <1>3 DEF vars
    <2>2. Typed' /\ Parents' /\ UsedOnce'
      BY <2>1, SameTree DEF IInv
    <2>3. RoutedOK' <=> RoutedOK
      BY <2>1, Zenon DEF RoutedOK, Joined
    <2> QED BY <2>2, <2>3, Zenon DEF IInv
  <1> QED BY <1>1, <1>2, <1>3, NewGroupIInv, UseIInv DEF Next

\* Every reachable state satisfies the invariant.
THEOREM InvariantHolds == Spec => []IInv
  BY InitIInv, NextIInv, PTL DEF Spec

\* The tree of groups, their prefixes and middlewares and the patterns given to the
\* router are well formed; a parent was made before its children (web/group.go:30-55).
THEOREM TypeCorrect == Spec => []TypeOK
  <1>1. IInv => TypeOK
    <2> SUFFICES ASSUME IInv PROVE TypeOK
      OBVIOUS
    <2>1. Len(groups) \in 1..MaxGroups /\ mdls \in Seq(Middlewares)
          /\ \A g \in DOMAIN groups : groups[g] \in GroupRecord
      BY DEF IInv, Typed
    <2>2. ASSUME NEW r \in routed PROVE r.group \in DOMAIN groups /\ r.pattern \in Seq(Texts)
      <3>1. PICK q \in Patterns : r.pattern = Joined(groups[r.group].Prefix, q)
        BY DEF IInv, RoutedOK
      <3>2. r.group \in DOMAIN groups
        BY DEF IInv, RoutedOK
      <3>3. groups[r.group].Prefix \in Rooted
        BY <2>1, <3>2 DEF GroupRecord
      <3>4. q \in Rooted
        BY RootedFacts, Zenon
      <3>5. Joined(groups[r.group].Prefix, q) \in Seq(Texts)
        BY <3>3, <3>4, JoinedFacts, RootedFacts, Zenon
      <3> QED BY <3>1, <3>2, <3>5, Zenon
    <2> QED BY <2>1, <2>2 DEF TypeOK, IInv, Parents, GroupRecord, Rooted
  <1> QED BY <1>1, InvariantHolds, PTL

-----------------------------------------------------------------------------
\* A set of natural numbers that is not empty has a least one.
LEMMA LeastNat ==
  ASSUME NEW S \in SUBSET Nat, S # {}
  PROVE  \E n \in S : \A k \in S : n <= k
  <1>1. IsWellFoundedOn(OpToRel(<, Nat), Nat)
    BY NatLessThanWellFounded
  <1>2. PICK n \in S : \A k \in S : <<k, n>> \notin OpToRel(<, Nat)
    BY <1>1, WFMin
  <1>3. \A k \in S : ~(k < n)
    BY <1>2 DEF OpToRel
  <1> QED BY <1>3

\* Induction up to a bound.
LEMMA UpTo ==
  ASSUME NEW L \in Nat, NEW S \in SUBSET (0..L), 0 \in S,
         \A k \in 1..L : k - 1 \in S => k \in S
  PROVE  \A k \in 0..L : k \in S
  <1> DEFINE bad == (0..L) \ S
  <1> SUFFICES ASSUME bad # {} PROVE FALSE
    OBVIOUS
  <1>1. bad \in SUBSET Nat
    OBVIOUS
  <1>2. PICK n \in bad : \A k \in bad : n <= k
    BY <1>1, LeastNat
  <1>3. n \in 1..L /\ n - 1 \in 0..L /\ n - 1 \notin bad
    BY <1>2
  <1> QED BY <1>2, <1>3

\* The groups are wrapped one after the other.
LEMMA WrappedDef ==
  ASSUME NEW order, Len(order) \in Nat
  PROVE  /\ Wrapped(order)[0] = <<>>
         /\ \A n \in 1..Len(order) :
              Wrapped(order)[n] = groups[order[n]].Mdls \o Wrapped(order)[n - 1]
  <1> DEFINE L == Len(order)
             G(n) == groups[order[n]].Mdls
             Chain(f, k) == f = [n \in 0..k |-> IF n = 0 THEN <<>> ELSE G(n) \o f[n - 1]]
             S == {k \in 0..L : \E f : Chain(f, k)}
  <1> HIDE DEF G
  <1>1. L \in Nat
    OBVIOUS
  <1>2. 0 \in S
    <2> DEFINE f == [n \in 0..0 |-> <<>>]
    <2>1. f = [n \in 0..0 |-> IF n = 0 THEN <<>> ELSE G(n) \o f[n - 1]]
      OBVIOUS
    <2>2. Chain(f, 0)
      BY <2>1
    <2> HIDE DEF f, Chain, L
    <2> QED BY <1>1, <2>2
  <1> HIDE DEF L
  <1>3. ASSUME NEW k \in 1..L, k - 1 \in S PROVE k \in S
    <2>1. PICK f : Chain(f, k - 1)
      BY <1>3
    <2> DEFINE g == [n \in 0..k |-> IF n = k THEN G(k) \o f[k - 1] ELSE f[n]]
    <2>2. ASSUME NEW n \in 0..k PROVE g[n] = IF n = 0 THEN <<>> ELSE G(n) \o g[n - 1]
      <3>1. k \in Nat /\ k >= 1 /\ (n # 0 => n - 1 \in 0..k /\ n - 1 # k)
        BY <1>1
      <3>2. CASE n = k
        BY <3>1, <3>2
      <3>3. CASE n # k
        <4>1. n \in 0..(k - 1)
          BY <3>1, <3>3
        <4>2. f[n] = IF n = 0 THEN <<>> ELSE G(n) \o f[n - 1]
          BY <2>1, <4>1
        <4> QED BY <3>1, <3>3, <4>2
      <3> QED BY <3>2, <3>3
    <2>3. g = [n \in 0..k |-> g[n]]
      OBVIOUS
    <2> HIDE DEF g
    <2>4. Chain(g, k)
      BY <2>2, <2>3
    <2>5. k \in 0..L
      BY <1>1
    <2> HIDE DEF Chain
    <2> QED BY <2>4, <2>5
  <1>4. L \in S
    <2>1. S \in SUBSET (0..L)
      OBVIOUS
    <2>2. \A k \in 1..L : k - 1 \in S => k \in S
      BY <1>3
    <2> HIDE DEF S
    <2>3. \A k \in 0..L : k \in S
      BY <1>1, <1>2, <2>1, <2>2, UpTo
    <2> QED BY <1>1, <2>3
  <1>5. Wrapped(order) = CHOOSE f : Chain(f, L)
    BY Zenon DEF Wrapped, L, G
  <1>6. \E f : Chain(f, L)
    BY <1>4
  <1> HIDE DEF Chain
  <1>7. Chain(Wrapped(order), L)
    BY <1>5, <1>6, Zenon
  <1> DEFINE c == Wrapped(order)
  <1> HIDE DEF c
  <1>8. c = [n \in 0..L |-> IF n = 0 THEN <<>> ELSE G(n) \o c[n - 1]]
    BY <1>7, Zenon DEF Chain, c
  <1>9. c[0] = <<>> /\ \A n \in 1..L : c[n] = G(n) \o c[n - 1]
    <2>1. ASSUME NEW n \in 0..L PROVE c[n] = IF n = 0 THEN <<>> ELSE G(n) \o c[n - 1]
      BY <1>8, Zenon
    <2>2. 0 \in 0..L /\ \A n \in 1..L : n \in 0..L /\ n # 0
      BY <1>1
    <2> QED BY <2>1, <2>2, Zenon
  <1> QED BY <1>9, Zenon DEF c, L, G

\* The groups a request goes through, in the order in which they are wrapped.
LEMMA OrderFacts ==
  ASSUME Typed, NEW path, NEW order \in Sorted(path)
  PROVE  /\ order \in Seq(DOMAIN groups) /\ Distinct(order)
         /\ \A g \in middleGroup(path) : \E i \in DOMAIN order : order[i] = g
         /\ \A i \in DOMAIN order : order[i] \in middleGroup(path)
         /\ \A i, j \in DOMAIN order : i < j => ~Longer(order[j], order[i])
  <1> DEFINE S == middleGroup(path)
             D == 1..Cardinality(S)
  <1>1. S \in SUBSET (1..Len(groups)) /\ Len(groups) \in Nat
    BY DEF Typed, middleGroup
  <1>2. order \in [D -> S] /\ \A i, j \in D : i # j => order[i] # order[j]
    BY DEF Sorted, SetToSeqs
  <1>3. \A i, j \in DOMAIN order : i < j => ~Longer(order[j], order[i])
    BY DEF Sorted
  <1> HIDE DEF S
  <1>4. IsFiniteSet(S)
    <2>1. IsFiniteSet(1..Len(groups))
      BY <1>1, FS_Interval
    <2> QED BY <1>1, <2>1, FS_Subset
  <1>5. Cardinality(S) \in Nat
    BY <1>4, FS_CardinalityType
  <1>6. order \in Injection(D, S)
    BY <1>2 DEF Injection, IsInjective
  <1>7. Cardinality(D) = Cardinality(S)
    BY <1>5, FS_Interval
  <1>8. order \in Surjection(D, S)
    BY <1>4, <1>6, <1>7, FS_Injection
  <1>9. \A g \in S : \E i \in D : order[i] = g
    BY <1>8 DEF Surjection
  <1>10. DOMAIN order = D /\ Distinct(order)
    BY <1>2 DEF Distinct
  <1>11. order \in Seq(DOMAIN groups)
    <2>1. DOMAIN groups = 1..Len(groups)
      BY DEF Typed
    <2>2. order \in [1..Cardinality(S) -> DOMAIN groups]
      BY <1>1, <1>2, <2>1
    <2> QED BY <1>5, <2>2
  <1> QED BY <1>2, <1>3, <1>9, <1>10, <1>11 DEF S

\* One sequence after the other.
LEMMA ConcatFacts ==
  ASSUME NEW s \in Seq(Middlewares), NEW t \in Seq(Middlewares)
  PROVE  /\ s \o t \in Seq(Middlewares)
         /\ DOMAIN (s \o t) = 1..(Len(s) + Len(t))
         /\ \A i \in DOMAIN s : (s \o t)[i] = s[i]
         /\ \A m : m \in ToSet(s \o t) <=> m \in ToSet(s) \/ m \in ToSet(t)
         /\ Distinct(s) /\ Distinct(t) /\ ToSet(s) \cap ToSet(t) = {} => Distinct(s \o t)
         /\ \A x, y : Before(s, x, y) \/ Before(t, x, y) => Before(s \o t, x, y)
         /\ \A x \in ToSet(s), y \in ToSet(t) : Before(s \o t, x, y)
  <1> DEFINE c == s \o t  k == Len(s)  l == Len(t)
  <1>1. /\ c \in Seq(Middlewares) /\ k \in Nat /\ l \in Nat
        /\ DOMAIN s = 1..k /\ DOMAIN t = 1..l /\ DOMAIN c = 1..(k + l)
    OBVIOUS
  <1>2. \A i \in 1..k : i \in 1..(k + l) /\ c[i] = s[i]
    BY <1>1, ConcatProperties
  <1>3. \A i \in 1..l : i + k \in 1..(k + l) /\ c[i + k] = t[i]
    BY <1>1, ConcatProperties
  <1> HIDE DEF c, k, l
  <1>4. \A i \in 1..(k + l) : i \in 1..k \/ \E j \in 1..l : i = j + k
    <2> SUFFICES ASSUME NEW i \in 1..(k + l), i \notin 1..k PROVE \E j \in 1..l : i = j + k
      OBVIOUS
    <2>1. i - k \in 1..l /\ i = (i - k) + k
      BY <1>1
    <2> QED BY <2>1
  <1>5. \A m : m \in ToSet(c) <=> m \in ToSet(s) \/ m \in ToSet(t)
    <2>1. \A m : m \in ToSet(c) => m \in ToSet(s) \/ m \in ToSet(t)
      <3> SUFFICES ASSUME NEW i \in 1..(k + l) PROVE c[i] \in ToSet(s) \/ c[i] \in ToSet(t)
        BY <1>1 DEF ToSet
      <3> QED BY <1>1, <1>2, <1>3, <1>4 DEF ToSet
    <2>2. \A m : m \in ToSet(s) => m \in ToSet(c)
      BY <1>1, <1>2 DEF ToSet
    <2>3. \A m : m \in ToSet(t) => m \in ToSet(c)
      BY <1>1, <1>3 DEF ToSet
    <2> QED BY <2>1, <2>2, <2>3
  <1>6. ASSUME Distinct(s), Distinct(t), ToSet(s) \cap ToSet(t) = {} PROVE Distinct(c)
    <2> SUFFICES ASSUME NEW i \in 1..(k + l), NEW j \in 1..(k + l), c[i] = c[j] PROVE i = j
      BY <1>1 DEF Distinct
    <2>1. \A x \in 1..k, y \in 1..l : s[x] # t[y]
      BY <1>1, <1>6 DEF ToSet
    <2>2. CASE i \in 1..k /\ j \in 1..k
      BY <1>1, <1>2, <1>6, <2>2 DEF Distinct
    <2>3. ASSUME NEW x \in 1..l, i = x + k, NEW y \in 1..l, j = y + k PROVE i = j
      BY <1>1, <1>3, <1>6, <2>3 DEF Distinct
    <2>4. ASSUME i \in 1..k, NEW y \in 1..l, j = y + k PROVE FALSE
      BY <1>2, <1>3, <2>1, <2>4
    <2>5. ASSUME j \in 1..k, NEW x \in 1..l, i = x + k PROVE FALSE
      BY <1>2, <1>3, <2>1, <2>5
    <2> QED BY <1>4, <2>2, <2>3, <2>4, <2>5
  <1>7. ASSUME NEW x, NEW y, Before(s, x, y) PROVE Before(c, x, y)
    <2>1. PICK i \in 1..k, j \in 1..k : i < j /\ s[i] = x /\ s[j] = y
      BY <1>1, <1>7 DEF Before
    <2>2. i \in DOMAIN c /\ j \in DOMAIN c /\ c[i] = x /\ c[j] = y
      BY <1>1, <1>2, <2>1
    <2> QED BY <2>1, <2>2 DEF Before
  <1>8. ASSUME NEW x, NEW y, Before(t, x, y) PROVE Before(c, x, y)
    <2>1. PICK i \in 1..l, j \in 1..l : i < j /\ t[i] = x /\ t[j] = y
      BY <1>1, <1>8 DEF Before
    <2>2. i + k \in DOMAIN c /\ j + k \in DOMAIN c /\ c[i + k] = x /\ c[j + k] = y
      BY <1>1, <1>3, <2>1
    <2>3. i + k < j + k
      BY <1>1, <2>1
    <2> QED BY <2>2, <2>3 DEF Before
  <1>9. ASSUME NEW x \in ToSet(s), NEW y \in ToSet(t) PROVE Before(c, x, y)
    <2>1. PICK i \in 1..k : s[i] = x
      BY <1>1 DEF ToSet
    <2>2. PICK j \in 1..l : t[j] = y
      BY <1>1 DEF ToSet
    <2>3. i \in DOMAIN c /\ c[i] = x
      BY <1>1, <1>2, <2>1
    <2>4. j + k \in DOMAIN c /\ c[j + k] = y
      BY <1>1, <1>3, <2>2
    <2>5. i < j + k
      BY <1>1
    <2> QED BY <2>3, <2>4, <2>5 DEF Before
  <1> QED BY <1>1, <1>2, <1>5, <1>6, <1>7, <1>8, <1>9 DEF c, k, l

\* What the wrapped groups' middlewares are, and their order.
LEMMA WrappedFacts ==
  ASSUME Typed, UsedOnce, NEW order \in Seq(DOMAIN groups), Distinct(order)
  PROVE  LET c == Wrapped(order)[Len(order)]
             M(i) == groups[order[i]].Mdls
         IN  /\ c \in Seq(Middlewares) /\ Distinct(c)
             /\ \A m : m \in ToSet(c) <=> \E i \in DOMAIN order : m \in ToSet(M(i))
             /\ \A i \in DOMAIN order : \A x, y : Before(M(i), x, y) => Before(c, x, y)
             /\ \A i, j \in DOMAIN order : i < j =>
                  \A x \in ToSet(M(j)), y \in ToSet(M(i)) : Before(c, x, y)
  <1> DEFINE L == Len(order)
             W == Wrapped(order)
             M(i) == groups[order[i]].Mdls
             Good(n) ==
               /\ W[n] \in Seq(Middlewares) /\ Distinct(W[n])
               /\ \A m : m \in ToSet(W[n]) <=> \E i \in 1..n : m \in ToSet(M(i))
               /\ \A i \in 1..n : \A x, y : Before(M(i), x, y) => Before(W[n], x, y)
               /\ \A i, j \in 1..n : i < j =>
                    \A x \in ToSet(M(j)), y \in ToSet(M(i)) : Before(W[n], x, y)
             S == {n \in 0..L : Good(n)}
  <1>1. L \in Nat /\ DOMAIN order = 1..L /\ \A i \in 1..L : order[i] \in DOMAIN groups
    OBVIOUS
  <1>2. W[0] = <<>> /\ \A n \in 1..L : W[n] = M(n) \o W[n - 1]
    BY <1>1, WrappedDef
  <1>3. \A i \in 1..L : M(i) \in Seq(Middlewares) /\ Distinct(M(i))
    <2>1. \A g \in DOMAIN groups : groups[g] \in GroupRecord
      BY DEF Typed
    <2> QED BY <1>1, <2>1 DEF GroupRecord, UsedOnce
  <1>4. \A i, j \in 1..L : i # j => ToSet(M(i)) \cap ToSet(M(j)) = {}
    <2>1. \A i, j \in 1..L : i # j => order[i] # order[j]
      BY <1>1 DEF Distinct
    <2> QED BY <1>1, <2>1 DEF UsedOnce
  <1> HIDE DEF L, W, M
  <1>5. Good(0)
    <2>1. W[0] \in Seq(Middlewares)
      BY <1>2
    <2>2. Distinct(W[0]) /\ \A m : m \notin ToSet(W[0])
      BY <1>2 DEF Distinct, ToSet
    <2>3. \A i \in 1..0 : FALSE
      OBVIOUS
    <2> QED BY <2>1, <2>2, <2>3, Zenon
  <1>6. ASSUME NEW n \in 1..L, Good(n - 1) PROVE Good(n)
    <2> DEFINE s == M(n)  t == W[n - 1]
    <2>1. /\ s \in Seq(Middlewares) /\ Distinct(s) /\ t \in Seq(Middlewares) /\ Distinct(t)
          /\ W[n] = s \o t
      BY <1>2, <1>3, <1>6
    <2>2. \A m : m \in ToSet(t) <=> \E i \in 1..(n - 1) : m \in ToSet(M(i))
      BY <1>6
    <2>3. \A i \in 1..(n - 1) : i \in 1..n /\ i \in 1..L /\ i # n /\ i < n
      BY <1>1
    <2>4. n \in 1..n /\ \A i \in 1..n : i = n \/ i \in 1..(n - 1)
      BY <1>1
    <2>5. \A i \in 1..(n - 1) : \A x, y : Before(M(i), x, y) => Before(t, x, y)
      BY <1>6
    <2>6. \A i, j \in 1..(n - 1) : i < j =>
            \A x \in ToSet(M(j)), y \in ToSet(M(i)) : Before(t, x, y)
      BY <1>6
    <2>7. ToSet(s) \cap ToSet(t) = {}
      BY <1>4, <2>2, <2>3
    <2> HIDE DEF t, Good
    <2>8. /\ s \o t \in Seq(Middlewares) /\ Distinct(s \o t)
          /\ \A m : m \in ToSet(s \o t) <=> m \in ToSet(s) \/ m \in ToSet(t)
          /\ \A x, y : Before(s, x, y) \/ Before(t, x, y) => Before(s \o t, x, y)
          /\ \A x \in ToSet(s), y \in ToSet(t) : Before(s \o t, x, y)
      BY <2>1, <2>7, ConcatFacts
    <2> DEFINE c == s \o t
    <2> HIDE DEF c
    <2>9. /\ c \in Seq(Middlewares) /\ Distinct(c)
          /\ \A m : m \in ToSet(c) <=> m \in ToSet(s) \/ m \in ToSet(t)
          /\ \A x, y : Before(s, x, y) \/ Before(t, x, y) => Before(c, x, y)
          /\ \A x \in ToSet(s), y \in ToSet(t) : Before(c, x, y)
      BY <2>8, Zenon DEF c
    <2>10. \A m : m \in ToSet(c) <=> \E i \in 1..n : m \in ToSet(M(i))
      BY <2>2, <2>3, <2>4, <2>9, Zenon
    <2>11. \A i \in 1..n : \A x, y : Before(M(i), x, y) => Before(c, x, y)
      BY <2>4, <2>5, <2>9, Zenon
    <2>12. ASSUME NEW i \in 1..n, NEW j \in 1..n, i < j,
                  NEW x \in ToSet(M(j)), NEW y \in ToSet(M(i))
           PROVE  Before(c, x, y)
      <3>1. i \in 1..(n - 1)
        BY <1>1, <2>12
      <3>2. CASE j = n
        <4>1. y \in ToSet(t)
          BY <2>2, <3>1, Zenon
        <4> QED BY <2>9, <3>2, <4>1, Zenon
      <3>3. CASE j \in 1..(n - 1)
        <4>1. Before(t, x, y)
          BY <2>6, <2>12, <3>1, <3>3, Zenon
        <4> QED BY <2>9, <4>1, Zenon
      <3> QED BY <2>4, <3>2, <3>3
    <2>13. W[n] = c
      BY <2>1, Zenon DEF c
    <2> QED BY <2>9, <2>10, <2>11, <2>12, <2>13, Zenon DEF Good
  <1>7. Good(L)
    <2>1. S \in SUBSET (0..L) /\ 0 \in S
      BY <1>1, <1>5
    <2>2. \A n \in 1..L : n - 1 \in S => n \in S
      <3> SUFFICES ASSUME NEW n \in 1..L, n - 1 \in S PROVE n \in S
        OBVIOUS
      <3>1. Good(n - 1)
        OBVIOUS
      <3>2. Good(n)
        BY <1>6, <3>1
      <3>3. n \in 0..L
        BY <1>1
      <3> HIDE DEF Good
      <3> QED BY <3>2, <3>3
    <2> HIDE DEF S
    <2>3. \A n \in 0..L : n \in S
      BY <1>1, <2>1, <2>2, UpTo
    <2>4. L \in S
      BY <1>1, <2>3
    <2> HIDE DEF Good
    <2> QED BY <2>4 DEF S
  <1> QED BY <1>1, <1>7, Zenon DEF L, W, M

\* Where a middleware is in a chain that has it once.
LEMMA AtFacts ==
  ASSUME NEW chain \in Seq(Middlewares), Distinct(chain), NEW x, NEW y, Before(chain, x, y)
  PROVE  At(chain, x) < At(chain, y)
  <1>1. PICK i \in DOMAIN chain, j \in DOMAIN chain : i < j /\ chain[i] = x /\ chain[j] = y
    BY DEF Before
  <1>2. At(chain, x) = i /\ At(chain, y) = j
    BY <1>1 DEF At, Distinct
  <1> QED BY <1>1, <1>2

\* What a request goes through.
LEMMA ChainFacts ==
  ASSUME IInv, NEW path, NEW chain \in Chains(path)
  PROVE  \E order \in Sorted(path) :
           LET c == Wrapped(order)[Len(order)] IN
           /\ chain = mdls \o c
           /\ c \in Seq(Middlewares) /\ chain \in Seq(Middlewares) /\ Distinct(chain)
           /\ ToSet(mdls) \cap ToSet(c) = {}
           /\ \A m : m \in ToSet(c) <=>
                \E g \in middleGroup(path) : m \in ToSet(groups[g].Mdls)
           /\ \A g \in middleGroup(path) : \A x, y :
                Before(groups[g].Mdls, x, y) => Before(chain, x, y)
           /\ \A g, h \in middleGroup(path) : Longer(h, g) =>
                \A x \in ToSet(groups[g].Mdls), y \in ToSet(groups[h].Mdls) :
                  Before(chain, x, y)
  <1>1. PICK order \in Sorted(path) : chain = mdls \o Wrapped(order)[Len(order)]
    BY Zenon DEF Chains
  <1> DEFINE c == Wrapped(order)[Len(order)]
             M(i) == groups[order[i]].Mdls
  <1>2. mdls \in Seq(Middlewares) /\ Distinct(mdls) /\ Typed /\ UsedOnce
    BY DEF IInv, Typed, UsedOnce
  <1>3. /\ order \in Seq(DOMAIN groups) /\ Distinct(order)
        /\ \A g \in middleGroup(path) : \E i \in DOMAIN order : order[i] = g
        /\ \A i \in DOMAIN order : order[i] \in middleGroup(path)
        /\ \A i, j \in DOMAIN order : i < j => ~Longer(order[j], order[i])
    BY <1>2, OrderFacts
  <1>4. /\ c \in Seq(Middlewares) /\ Distinct(c)
        /\ \A m : m \in ToSet(c) <=> \E i \in DOMAIN order : m \in ToSet(M(i))
        /\ \A i \in DOMAIN order : \A x, y : Before(M(i), x, y) => Before(c, x, y)
        /\ \A i, j \in DOMAIN order : i < j =>
             \A x \in ToSet(M(j)), y \in ToSet(M(i)) : Before(c, x, y)
    BY <1>2, <1>3, WrappedFacts
  <1> HIDE DEF c
  <1>5. \A m : m \in ToSet(c) <=> \E g \in middleGroup(path) : m \in ToSet(groups[g].Mdls)
    BY <1>3, <1>4, Zenon
  <1>6. ToSet(mdls) \cap ToSet(c) = {}
    <2>1. \A g \in middleGroup(path) : ToSet(groups[g].Mdls) \cap ToSet(mdls) = {}
      BY <1>2, Zenon DEF UsedOnce, middleGroup
    <2> QED BY <1>5, <2>1
  <1>7. /\ mdls \o c \in Seq(Middlewares) /\ Distinct(mdls \o c)
        /\ \A x, y : Before(c, x, y) => Before(mdls \o c, x, y)
    BY <1>2, <1>4, <1>6, ConcatFacts
  <1>8. chain = mdls \o c
    BY <1>1, Zenon DEF c
  <1>9. /\ chain \in Seq(Middlewares) /\ Distinct(chain)
        /\ \A x, y : Before(c, x, y) => Before(chain, x, y)
    BY <1>7, <1>8, Zenon
  <1>10. \A g \in middleGroup(path) : \A x, y :
           Before(groups[g].Mdls, x, y) => Before(chain, x, y)
    BY <1>3, <1>4, <1>9, Zenon
  <1>11. ASSUME NEW g \in middleGroup(path), NEW h \in middleGroup(path), Longer(h, g),
                NEW x \in ToSet(groups[g].Mdls), NEW y \in ToSet(groups[h].Mdls)
         PROVE  Before(chain, x, y)
    <2>1. PICK i \in DOMAIN order : order[i] = h
      BY <1>3
    <2>2. PICK j \in DOMAIN order : order[j] = g
      BY <1>3
    <2>3. i # j
      BY <1>11, <2>1, <2>2 DEF Longer
    <2>4. ~(j < i)
      BY <1>3, <1>11, <2>1, <2>2
    <2>5. i < j
      BY <1>3, <2>3, <2>4
    <2>6. Before(c, x, y)
      BY <1>4, <2>1, <2>2, <2>5, Zenon
    <2> QED BY <1>9, <2>6
  <1> QED BY <1>4, <1>5, <1>6, <1>8, <1>9, <1>10, <1>11, Zenon DEF c


\* A chain has each middleware once, the engine's first and those of a group in the
\* order of Use (web/server.go:84-112).
THEOREM MiddlewaresAreLayered == Spec => []ChainIsLayered
  <1>1. IInv => ChainIsLayered
    <2> SUFFICES ASSUME IInv, NEW path \in Paths, NEW chain \in Chains(path)
                 PROVE  /\ \A i, j \in DOMAIN chain : chain[i] = chain[j] => i = j
                        /\ ToSet(mdls) \subseteq ToSet(chain)
                        /\ \A i, j \in DOMAIN chain :
                             Level(chain[i]) = 0 /\ Level(chain[j]) > 0 => i < j
                        /\ \A g \in middleGroup(path) : \A i, j \in DOMAIN groups[g].Mdls :
                             /\ groups[g].Mdls[i] \in ToSet(chain)
                             /\ i < j => At(chain, groups[g].Mdls[i])
                                           < At(chain, groups[g].Mdls[j])
      BY DEF ChainIsLayered
    <2>1. PICK order \in Sorted(path) :
            LET c == Wrapped(order)[Len(order)] IN
            /\ chain = mdls \o c
            /\ c \in Seq(Middlewares) /\ chain \in Seq(Middlewares) /\ Distinct(chain)
            /\ ToSet(mdls) \cap ToSet(c) = {}
            /\ \A m : m \in ToSet(c) <=>
                 \E g \in middleGroup(path) : m \in ToSet(groups[g].Mdls)
            /\ \A g \in middleGroup(path) : \A x, y :
                 Before(groups[g].Mdls, x, y) => Before(chain, x, y)
      BY ChainFacts
    <2> DEFINE c == Wrapped(order)[Len(order)]
    <2> HIDE DEF c
    <2>2. /\ chain = mdls \o c
          /\ c \in Seq(Middlewares) /\ chain \in Seq(Middlewares) /\ Distinct(chain)
          /\ ToSet(mdls) \cap ToSet(c) = {}
          /\ \A m : m \in ToSet(c) <=>
               \E g \in middleGroup(path) : m \in ToSet(groups[g].Mdls)
          /\ \A g \in middleGroup(path) : \A x, y :
               Before(groups[g].Mdls, x, y) => Before(chain, x, y)
      BY <2>1, Zenon DEF c
    <2>3. mdls \in Seq(Middlewares) /\ groups \in Seq(GroupRecord)
      BY DEF IInv, Typed
    <2>4. /\ DOMAIN chain = 1..(Len(mdls) + Len(c))
          /\ \A i \in DOMAIN mdls : chain[i] = mdls[i]
          /\ \A m : m \in ToSet(chain) <=> m \in ToSet(mdls) \/ m \in ToSet(c)
      BY <2>2, <2>3, ConcatFacts
    <2>5. Len(mdls) \in Nat /\ Len(c) \in Nat /\ DOMAIN mdls = 1..Len(mdls)
      BY <2>2, <2>3
    <2>6. ASSUME NEW i \in DOMAIN chain, NEW j \in DOMAIN chain,
                 Level(chain[i]) = 0, Level(chain[j]) > 0
          PROVE  i < j
      <3>1. chain[j] \notin ToSet(mdls)
        BY <2>6 DEF Level
      <3>2. chain[i] \in ToSet(mdls)
        <4> SUFFICES ASSUME chain[i] \notin ToSet(mdls) PROVE Level(chain[i]) # 0
          BY <2>6
        <4>1. chain[i] \in ToSet(c)
          BY <2>4 DEF ToSet
        <4>2. \E g \in DOMAIN groups : chain[i] \in ToSet(groups[g].Mdls)
          BY <2>2, <4>1, Zenon DEF middleGroup
        <4>3. Level(chain[i]) \in DOMAIN groups
          BY <4>2 DEF Level
        <4> QED BY <2>3, <4>3
      <3>3. PICK k \in 1..Len(mdls) : mdls[k] = chain[i]
        BY <2>5, <3>2 DEF ToSet
      <3>4. k \in DOMAIN chain /\ chain[k] = chain[i]
        BY <2>4, <2>5, <3>3
      <3>5. i = k
        BY <2>2, <3>4 DEF Distinct
      <3>6. j \notin 1..Len(mdls)
        BY <2>4, <2>5, <3>1 DEF ToSet
      <3> QED BY <2>4, <2>5, <3>5, <3>6
    <2>7. ASSUME NEW g \in middleGroup(path),
                 NEW i \in DOMAIN groups[g].Mdls, NEW j \in DOMAIN groups[g].Mdls
          PROVE  /\ groups[g].Mdls[i] \in ToSet(chain)
                 /\ i < j => At(chain, groups[g].Mdls[i]) < At(chain, groups[g].Mdls[j])
      <3>1. groups[g].Mdls[i] \in ToSet(groups[g].Mdls)
        BY DEF ToSet
      <3>2. groups[g].Mdls[i] \in ToSet(chain)
        BY <2>2, <2>4, <3>1, Zenon
      <3>3. i < j => Before(groups[g].Mdls, groups[g].Mdls[i], groups[g].Mdls[j])
        BY DEF Before
      <3>4. i < j => Before(chain, groups[g].Mdls[i], groups[g].Mdls[j])
        BY <2>2, <3>3, Zenon
      <3> QED BY <2>2, <3>2, <3>4, AtFacts
    <2>8. ToSet(mdls) \subseteq ToSet(chain)
      BY <2>4
    <2>9. \A i, j \in DOMAIN chain : chain[i] = chain[j] => i = j
      BY <2>2 DEF Distinct
    <2> QED BY <2>6, <2>7, <2>8, <2>9
  <1> QED BY <1>1, InvariantHolds, PTL

-----------------------------------------------------------------------------
\* A path that has a prefix has what the prefix begins with.
LEMMA BeginsHasPrefix ==
  ASSUME NEW p \in Rooted, NEW q \in Rooted, NEW path, Begins(p, q), HasPrefix(path, q),
         Len(path) \in Nat
  PROVE  HasPrefix(path, p)
  <1> DEFINE n == Len(p)  k == Len(q)
  <1>1. n \in Nat /\ n >= 1 /\ k \in Nat /\ k >= 1 /\ p \in Seq(Texts)
    BY RootedFacts, Zenon
  <1>2. n <= k /\ \A i \in 1..n : q[i] = p[i]
    BY DEF Begins
  <1>3. /\ k <= Len(path) /\ \A i \in 1..(k - 1) : path[i] = q[i]
        /\ <<q[k], path[k]>> \in TextPrefix
    BY DEF HasPrefix
  <1>4. p[n] \in Texts
    BY <1>1
  <1> HIDE DEF n, k
  <1>5. n <= Len(path) /\ \A i \in 1..(n - 1) : path[i] = p[i]
    BY <1>1, <1>2, <1>3
  <1>6. <<p[n], path[n]>> \in TextPrefix
    <2>1. CASE n = k
      <3>1. p[n] = q[k]
        BY <1>1, <1>2, <2>1
      <3> QED BY <1>3, <2>1, <3>1
    <2>2. CASE n < k
      <3>1. path[n] = p[n]
        BY <1>1, <1>2, <1>3, <2>2
      <3>2. <<p[n], p[n]>> \in TextPrefix
        BY <1>4, TextsAssumption
      <3> QED BY <3>1, <3>2
    <2> QED BY <1>1, <1>2, <2>1, <2>2
  <1> QED BY <1>5, <1>6 DEF HasPrefix, n

\* A group's prefix begins with those of the groups it is nested in.
LEMMA AncestorBegins ==
  ASSUME IInv, NEW h \in DOMAIN groups, NEW g \in DOMAIN groups, Ancestor(g, h)
  PROVE  Begins(groups[g].Prefix, groups[h].Prefix)
  <1> DEFINE S == {x \in DOMAIN groups : Begins(groups[x].Prefix, groups[h].Prefix)}
  <1>1. /\ groups \in Seq(GroupRecord) /\ DOMAIN groups = 1..Len(groups) /\ Len(groups) \in Nat
        /\ \A x \in DOMAIN groups : groups[x].Prefix \in Rooted
    <2>1. groups \in Seq(GroupRecord)
      BY DEF IInv, Typed
    <2>2. \A x \in DOMAIN groups : groups[x] \in GroupRecord
      BY <2>1
    <2> QED BY <2>1, <2>2 DEF GroupRecord
  <1>2. \A x \in DOMAIN groups :
          groups[x].Parent # 0 =>
            /\ groups[x].Parent \in DOMAIN groups
            /\ Begins(groups[groups[x].Parent].Prefix, groups[x].Prefix)
    BY <1>1 DEF IInv, Parents
  <1>3. \A p, q, r \in Rooted : Begins(p, q) /\ Begins(q, r) => Begins(p, r)
    <2> SUFFICES ASSUME NEW p \in Rooted, NEW q \in Rooted, NEW r \in Rooted,
                        Begins(p, q), Begins(q, r)
                 PROVE  Begins(p, r)
      OBVIOUS
    <2>1. Len(p) \in Nat /\ Len(q) \in Nat /\ Len(r) \in Nat
      BY RootedFacts, Zenon
    <2> QED BY <2>1 DEF Begins
  <1>4. \A x \in S \union {h} : groups[x].Parent # 0 => groups[x].Parent \in S
    <2> SUFFICES ASSUME NEW x \in S \union {h}, groups[x].Parent # 0
                 PROVE  groups[x].Parent \in S
      OBVIOUS
    <2> DEFINE y == groups[x].Parent
    <2>1. x \in DOMAIN groups /\ (x = h \/ Begins(groups[x].Prefix, groups[h].Prefix))
      OBVIOUS
    <2>2. y \in DOMAIN groups /\ Begins(groups[y].Prefix, groups[x].Prefix)
      BY <1>2, <2>1
    <2>3. Begins(groups[y].Prefix, groups[h].Prefix)
      BY <1>1, <1>3, <2>1, <2>2
    <2> QED BY <2>2, <2>3
  <1>5. g \in S
    <2>1. S \in SUBSET DOMAIN groups
      OBVIOUS
    <2> HIDE DEF S
    <2> QED BY <1>4, <2>1 DEF Ancestor
  <1> QED BY <1>5

\* A request that goes through the middlewares of a group has gone through those of
\* the groups it is nested in, whatever order sort.Slice leaves (web/server.go:90-104).
THEOREM ParentsAreOutside == Spec => []ParentsComeFirst
  <1>1. IInv => ParentsComeFirst
    <2> SUFFICES ASSUME IInv, NEW path \in Paths, NEW chain \in Chains(path),
                        NEW h \in middleGroup(path), NEW g \in DOMAIN groups, Ancestor(g, h)
                 PROVE  /\ g \in middleGroup(path)
                        /\ groups[g].Prefix # groups[h].Prefix =>
                             \A m \in ToSet(groups[g].Mdls), n \in ToSet(groups[h].Mdls) :
                               At(chain, m) < At(chain, n)
      BY DEF ParentsComeFirst
    <2>1. h \in DOMAIN groups /\ HasPrefix(path, groups[h].Prefix)
      BY DEF middleGroup
    <2>2. groups[g].Prefix \in Rooted /\ groups[h].Prefix \in Rooted
      <3>1. groups[g] \in GroupRecord /\ groups[h] \in GroupRecord
        BY <2>1 DEF IInv, Typed
      <3> QED BY <3>1 DEF GroupRecord
    <2>3. Begins(groups[g].Prefix, groups[h].Prefix)
      BY <2>1, AncestorBegins
    <2>4. g \in middleGroup(path)
      <3>1. Len(path) \in Nat
        BY RootedFacts, Zenon
      <3>2. HasPrefix(path, groups[g].Prefix)
        BY <2>1, <2>2, <2>3, <3>1, BeginsHasPrefix
      <3> QED BY <3>2 DEF middleGroup
    <2>5. ASSUME groups[g].Prefix # groups[h].Prefix,
                 NEW m \in ToSet(groups[g].Mdls), NEW n \in ToSet(groups[h].Mdls)
          PROVE  At(chain, m) < At(chain, n)
      <3>1. HasPrefix(groups[h].Prefix, groups[g].Prefix)
        <4> DEFINE p == groups[g].Prefix  q == groups[h].Prefix
        <4>1. Len(p) \in Nat /\ Len(p) >= 1 /\ p \in Seq(Texts)
          BY <2>2, RootedFacts, Zenon
        <4>2. p[Len(p)] \in Texts
          BY <4>1
        <4>3. Len(p) <= Len(q) /\ \A i \in 1..Len(p) : q[i] = p[i]
          BY <2>3 DEF Begins
        <4>4. q[Len(p)] = p[Len(p)] /\ \A i \in 1..(Len(p) - 1) : q[i] = p[i]
          BY <4>1, <4>3
        <4>5. <<p[Len(p)], q[Len(p)]>> \in TextPrefix
          BY <4>2, <4>4, TextsAssumption
        <4> QED BY <4>3, <4>4, <4>5 DEF HasPrefix
      <3>2. Longer(h, g)
        BY <2>5, <3>1 DEF Longer
      <3>3. chain \in Seq(Middlewares) /\ Distinct(chain) /\ Before(chain, m, n)
        BY <2>4, <3>2, ChainFacts, Zenon
      <3> QED BY <3>3, AtFacts
    <2> QED BY <2>4, <2>5
  <1> QED BY <1>1, InvariantHolds, PTL


-----------------------------------------------------------------------------
\* After the first slash there are no parameters and no empty segments.
PlainText(p) == \A i \in 2..Len(p) : p[i] \notin Params /\ p[i] # ""

\* No group is given a parameter, a slash at its end or a doubled one.
PlainPrefixes == \A p \in GroupPrefixes : PlainText(p)

\* No slash is doubled; there may be one at the end.
SingleSlashes(p) == \A i \in 2..(Len(p) - 1) : p[i] # ""

PlainPaths == \A p \in Paths : SingleSlashes(p)

PlainTree == \A g \in DOMAIN groups : PlainText(groups[g].Prefix)

\* Groups nested in plain ones are plain.
LEMMA PlainStep ==
  ASSUME PlainPrefixes, IInv, PlainTree, [Next]_vars
  PROVE  PlainTree'
  <1>1. groups \in Seq(GroupRecord) /\ \A g \in DOMAIN groups : groups[g] \in GroupRecord
    BY DEF IInv, Typed
  <1>2. ASSUME NEW g \in DOMAIN groups, NEW prefix \in GroupPrefixes, NewGroup(g, prefix)
        PROVE  PlainTree'
    <2> DEFINE p == groups[g].Prefix  j == Joined(p, prefix)
               new == [Prefix |-> j, Mdls |-> <<>>, Parent |-> g]
    <2>1. p \in Rooted /\ prefix \in Rooted
      <3>1. p \in Rooted
        BY <1>1 DEF GroupRecord
      <3> QED BY <3>1, RootedFacts, Zenon
    <2>2. PlainText(p) /\ PlainText(prefix)
      BY DEF PlainTree, PlainPrefixes
    <2>3. PlainText(j)
      <3>1. /\ Len(j) = Len(p) + Len(prefix) - 1
            /\ Len(p) \in Nat /\ Len(prefix) \in Nat /\ Len(p) >= 1 /\ Len(prefix) >= 1
            /\ \A i \in 1..Len(p) : j[i] = p[i]
            /\ \A i \in (Len(p) + 1)..(Len(p) + Len(prefix) - 1) : j[i] = prefix[i - Len(p) + 1]
        BY <2>1, JoinedFacts
      <3> HIDE DEF p, j
      <3> SUFFICES ASSUME NEW i \in 2..Len(j) PROVE j[i] \notin Params /\ j[i] # ""
        BY DEF PlainText
      <3>2. CASE i <= Len(p)
        <4>1. i \in 2..Len(p) /\ j[i] = p[i]
          BY <3>1, <3>2
        <4> QED BY <2>2, <4>1, Zenon DEF PlainText
      <3>3. CASE i > Len(p)
        <4>1. i - Len(p) + 1 \in 2..Len(prefix) /\ j[i] = prefix[i - Len(p) + 1]
          BY <3>1, <3>3
        <4> QED BY <2>2, <4>1, Zenon DEF PlainText
      <3>4. i <= Len(p) \/ i > Len(p)
        BY <3>1
      <3> QED BY <3>2, <3>3, <3>4, Zenon
    <2>4. groups' = Append(groups, new) /\ new.Prefix = j
      BY <1>2 DEF NewGroup
    <2> HIDE DEF j, new
    <2>5. /\ \A h \in DOMAIN groups' : h = Len(groups) + 1 \/ h \in DOMAIN groups
          /\ \A h \in DOMAIN groups : groups'[h] = groups[h]
          /\ groups'[Len(groups) + 1] = new
      BY <1>1, <2>4
    <2>6. \A h \in DOMAIN groups' : groups'[h].Prefix = j \/
             (h \in DOMAIN groups /\ groups'[h].Prefix = groups[h].Prefix)
      BY <2>4, <2>5, Zenon
    <2>7. PlainTree' <=> \A h \in DOMAIN groups' : PlainText(groups'[h].Prefix)
      BY Zenon DEF PlainTree, PlainText
    <2> QED BY <2>3, <2>6, <2>7, Zenon DEF PlainTree
  <1>3. ASSUME NEW g \in DOMAIN groups, NEW m \in Middlewares, Use(g, m) PROVE PlainTree'
    <2>1. /\ DOMAIN groups' = DOMAIN groups
          /\ \A h \in DOMAIN groups : groups'[h].Prefix = groups[h].Prefix
      BY <1>1, <1>3 DEF Use, GroupRecord
    <2>2. PlainTree' <=> \A h \in DOMAIN groups' : PlainText(groups'[h].Prefix)
      BY Zenon DEF PlainTree, PlainText
    <2> QED BY <2>1, <2>2, Zenon DEF PlainTree
  <1>4. ASSUME groups' = groups PROVE PlainTree'
    BY <1>4 DEF PlainTree, PlainText
  <1> QED BY <1>2, <1>3, <1>4 DEF Next, UseEngine, Route, vars

\* Where a path has a segment that is not empty.
Solid(p) == {i \in DOMAIN p : p[i] # ""}

\* What is left of a path when the slashes around it are taken away.
LEMMA TrimmedFacts ==
  ASSUME NEW p \in Rooted, NEW n \in Solid(p), 2 \in Solid(p)
  PROVE  \E m \in n..Len(p) :
           /\ Trimmed(p) = SubSeq(p, 2, m)
           /\ Len(Trimmed(p)) = m - 1
           /\ \A i \in 2..m : Trimmed(p)[i - 1] = p[i]
  <1> DEFINE texts == Solid(p)
             tops == {k \in Nat : \A i \in texts : i <= k}
  <1>1. p \in Seq(Texts) /\ Len(p) \in Nat /\ DOMAIN p = 1..Len(p)
    <2>1. p \in Seq(Texts)
      BY RootedFacts, Zenon
    <2> QED BY <2>1
  <1>2. texts \subseteq DOMAIN p /\ 1 \notin texts
    <2>1. p[1] = ""
      BY RootedFacts, Zenon
    <2> QED BY <2>1, Zenon DEF Solid
  <1>3. texts \in SUBSET (1..Len(p)) /\ n \in texts /\ 2 \in texts /\ 1 \notin texts
    BY <1>1, <1>2
  <1> HIDE DEF texts
  <1>4. tops \in SUBSET Nat /\ Len(p) \in tops
    BY <1>1, <1>3
  <1>5. PICK m \in tops : \A k \in tops : m <= k
    BY <1>4, LeastNat
  <1>6. m \in Nat /\ \A i \in texts : i <= m
    BY <1>5
  <1>7. m \in texts
    <2> SUFFICES ASSUME m \notin texts PROVE FALSE
      OBVIOUS
    <2>1. \A i \in texts : i <= m - 1
      BY <1>3, <1>6
    <2>2. m - 1 \in Nat
      BY <1>3, <1>6
    <2>3. m - 1 \in tops
      BY <2>1, <2>2
    <2> QED BY <1>5, <1>6, <2>3
  <1>8. \A i \in texts : 2 <= i
    BY <1>1, <1>3
  <1>9. Min(texts) = 2
    <2>1. \A x \in texts : (\A y \in texts : x <= y) => x = 2
      BY <1>3, <1>8
    <2> QED BY <1>3, <1>8, <2>1 DEF Min
  <1>10. Max(texts) = m
    <2>1. \A x \in texts : (\A y \in texts : x >= y) => x = m
      BY <1>3, <1>6, <1>7
    <2>2. \A y \in texts : m >= y
      BY <1>3, <1>6
    <2> QED BY <1>7, <2>1, <2>2 DEF Max
  <1>11. Trimmed(p) = SubSeq(p, 2, m)
    <2>1. texts # {}
      BY <1>3
    <2>2. Trimmed(p) = IF texts = {} THEN <<"">> ELSE SubSeq(p, Min(texts), Max(texts))
      BY Zenon DEF Trimmed, Solid, texts
    <2> QED BY <1>9, <1>10, <2>1, <2>2, Zenon
  <1>12. m \in n..Len(p)
    BY <1>1, <1>3, <1>6, <1>7
  <1>13. Len(SubSeq(p, 2, m)) = m - 1 /\ \A i \in 2..m : SubSeq(p, 2, m)[i - 1] = p[i]
    <2>1. 2 <= m /\ m <= Len(p)
      BY <1>1, <1>7, <1>8, <1>12
    <2>2. /\ Len(SubSeq(p, 2, m)) = m - 2 + 1
          /\ \A i \in 1..(m - 2 + 1) : SubSeq(p, 2, m)[i] = p[2 + i - 1]
      BY <1>1, <1>6, <2>1, SubSeqProperties
    <2>3. \A i \in 2..m : i - 1 \in 1..(m - 2 + 1) /\ 2 + (i - 1) - 1 = i
      BY <1>6
    <2>4. \A i \in 2..m : SubSeq(p, 2, m)[i - 1] = p[2 + (i - 1) - 1]
      BY <2>2, <2>3
    <2> QED BY <1>6, <2>2, <2>3, <2>4
  <1> QED BY <1>11, <1>12, <1>13, Zenon


\* A pattern that begins with a plain prefix answers only paths that have it.
LEMMA AnsweredHasPrefix ==
  ASSUME NEW g \in Rooted, PlainText(g), NEW pattern \in Rooted, Begins(g, pattern),
         NEW path \in Rooted, SingleSlashes(path),
         Answers(pattern, path)
  PROVE  HasPrefix(path, g)
  <1> DEFINE n == Len(g)
  <1>1. /\ g \in Seq(Texts) /\ n \in Nat /\ n >= 1
        /\ pattern \in Seq(Texts) /\ Len(pattern) \in Nat
        /\ path \in Seq(Texts) /\ Len(path) \in Nat /\ Len(path) >= 1
    BY RootedFacts, Zenon
  <1>2. n <= Len(pattern) /\ \A i \in 1..n : pattern[i] = g[i]
    BY DEF Begins
  <1>3. path[1] = g[1]
    <2>1. path[1] = ""
      BY RootedFacts, Zenon
    <2>2. g[1] = ""
      BY RootedFacts, Zenon
    <2> QED BY <2>1, <2>2, Zenon
  <1>4. ASSUME \A i \in 1..n : path[i] = g[i], n <= Len(path) PROVE HasPrefix(path, g)
    <2>1. g[n] \in Texts /\ n \in 1..n /\ \A i \in 1..(n - 1) : i \in 1..n
      BY <1>1
    <2>2. <<g[n], path[n]>> \in TextPrefix
      <3>1. path[n] = g[n]
        BY <1>4, <2>1
      <3>2. \A t \in Texts : <<t, t>> \in TextPrefix
        BY TextsAssumption, Zenon
      <3> QED BY <2>1, <3>1, <3>2
    <2>3. \A i \in 1..(n - 1) : path[i] = g[i]
      BY <1>4, <2>1
    <2> QED BY <1>4, <2>2, <2>3, Zenon DEF HasPrefix
  <1>5. CASE n = 1
    <2>1. \A i \in 1..n : i = 1
      BY <1>5
    <2>2. \A i \in 1..n : path[i] = g[i]
      BY <1>3, <2>1
    <2> QED BY <1>1, <1>4, <1>5, <2>2
  <1>6. CASE n >= 2
    <2> DEFINE p == Trimmed(pattern)  q == Trimmed(path)
    <2>1. 2 \in 2..n /\ n \in 2..n /\ \A i \in 2..n : i \in 1..n /\ i \in 1..Len(pattern)
      BY <1>1, <1>2, <1>6
    <2>2. \A i \in 2..n : g[i] \notin Params /\ g[i] # ""
      BY Zenon DEF PlainText
    <2>3. n \in Solid(pattern) /\ 2 \in Solid(pattern)
      <3>1. DOMAIN pattern = 1..Len(pattern)
        BY <1>1
      <3>2. pattern[n] = g[n] /\ pattern[2] = g[2]
        BY <1>2, <2>1
      <3> QED BY <2>1, <2>2, <3>1, <3>2, Zenon DEF Solid
    <2>4. PICK m \in n..Len(pattern) :
            /\ Len(p) = m - 1
            /\ \A i \in 2..m : p[i - 1] = pattern[i]
            /\ p = SubSeq(pattern, 2, m)
      BY <2>3, TrimmedFacts
    <2>5. Len(p) = Len(q) /\ \A i \in DOMAIN p : p[i] \in Params \/ p[i] = q[i]
      BY Zenon DEF Answers
    <2>6. DOMAIN p = 1..(m - 1)
      <3>1. \A i \in 2..m : i \in 1..Len(pattern)
        BY <1>1, <2>4
      <3>2. \A i \in 2..m : pattern[i] \in Texts
        BY <1>1, <3>1
      <3>3. p \in Seq(Texts)
        BY <1>1, <2>4, <3>2, SubSeqProperties
      <3> QED BY <2>4, <3>3
    <2> HIDE DEF p, q
    <2>7. \A i \in 2..n : q[i - 1] = g[i]
      <3> SUFFICES ASSUME NEW i \in 2..n PROVE q[i - 1] = g[i]
        OBVIOUS
      <3>1. i \in 2..m /\ i - 1 \in 1..(m - 1)
        BY <1>1, <2>4
      <3>2. p[i - 1] = g[i]
        BY <1>2, <2>1, <2>4, <3>1
      <3>3. p[i - 1] = q[i - 1]
        BY <2>2, <2>5, <2>6, <3>1, <3>2, Zenon
      <3> QED BY <3>2, <3>3
    <2>8. q[1] = g[2]
      <3>1. 2 - 1 = 1
        OBVIOUS
      <3>2. q[2 - 1] = g[2]
        BY <2>1, <2>7, Zenon
      <3> QED BY <3>1, <3>2, Zenon
    <2>9. \E i \in DOMAIN path : path[i] # ""
      <3> SUFFICES ASSUME \A i \in DOMAIN path : ~(path[i] # "") PROVE FALSE
        BY Zenon
      <3>1. q = <<"">>
        <4>1. {i \in DOMAIN path : path[i] # ""} = {}
          BY Zenon
        <4> QED BY <4>1, Zenon DEF Trimmed, q
      <3>2. \A t \in Texts : <<t>>[1] = t
        OBVIOUS
      <3>3. "" \in Texts
        BY TextsAssumption, Zenon
      <3>4. q[1] = ""
        BY <3>1, <3>2, <3>3, Zenon
      <3> QED BY <2>1, <2>2, <2>8, <3>4, Zenon
    <2>10. 2 \in Solid(path)
      <3>1. PICK i \in DOMAIN path : i \in Solid(path)
        BY <2>9, Zenon DEF Solid
      <3>2. i # 1
        BY <3>1, RootedFacts, Zenon DEF Solid
      <3>3. DOMAIN path = 1..Len(path)
        BY <1>1
      <3>4. 2 \in DOMAIN path /\ (i = 2 \/ 2 \in 2..(Len(path) - 1))
        BY <1>1, <3>2, <3>3
      <3> QED BY <3>1, <3>4, Zenon DEF Solid, SingleSlashes
    <2>11. PICK k \in 2..Len(path) : Len(q) = k - 1 /\ \A i \in 2..k : q[i - 1] = path[i]
      BY <2>10, TrimmedFacts DEF q
    <2>12. k = m
      BY <1>1, <2>4, <2>5, <2>11
    <2>13. n <= Len(path) /\ \A i \in 2..n : path[i] = g[i]
      BY <1>1, <2>4, <2>7, <2>11, <2>12
    <2>14. \A i \in 1..n : i = 1 \/ i \in 2..n
      BY <1>1
    <2>15. \A i \in 1..n : path[i] = g[i]
      BY <1>3, <2>13, <2>14, Zenon
    <2> QED BY <1>4, <2>13, <2>15
  <1>7. n = 1 \/ n >= 2
    <2>1. n \in Nat /\ n >= 1
      BY <1>1, Zenon
    <2> HIDE DEF n
    <2> QED BY <2>1
  <1> QED BY <1>5, <1>6, <1>7

\* A request that a route of a group answers goes through the group's middlewares, if
\* no prefix has a parameter and no request doubles a slash: ServeHTTP compares texts
\* (web/server.go:91-95), the router segments.
THEOREM RoutesAreGuarded ==
  ASSUME PlainPrefixes, PlainPaths
  PROVE  Spec => []RoutesRunTheirMiddlewares
  <1>1. Init => PlainTree
    <2> SUFFICES ASSUME Init PROVE PlainTree
      OBVIOUS
    <2> DEFINE slash == <<"">>
               first == [Prefix |-> slash, Mdls |-> <<>>, Parent |-> 0]
    <2>1. groups = <<first>> /\ first.Prefix = slash
      BY DEF Init
    <2>2. Len(slash) = 1
      OBVIOUS
    <2> HIDE DEF slash, first
    <2>3. \A i \in 2..Len(slash) : FALSE
      BY <2>2
    <2>4. \A g \in DOMAIN groups : groups[g].Prefix = slash
      BY <2>1
    <2> QED BY <2>3, <2>4, Zenon DEF PlainTree, PlainText
  <1>2. IInv /\ PlainTree /\ [Next]_vars => PlainTree'
    BY PlainStep
  <1>3. IInv /\ PlainTree => RoutesRunTheirMiddlewares
    <2> SUFFICES ASSUME IInv, PlainTree, NEW r \in routed, NEW path \in Paths,
                        Answers(r.pattern, path), NEW chain \in Chains(path)
                 PROVE  ToSet(groups[r.group].Mdls) \subseteq ToSet(chain)
      BY DEF RoutesRunTheirMiddlewares
    <2> DEFINE g == groups[r.group].Prefix
    <2>1. PICK q \in Patterns : r.pattern = Joined(g, q)
      BY DEF IInv, RoutedOK
    <2>2. r.group \in DOMAIN groups
      BY DEF IInv, RoutedOK
    <2>3. g \in Rooted
      <3>1. groups[r.group] \in GroupRecord
        BY <2>2 DEF IInv, Typed
      <3> QED BY <3>1 DEF GroupRecord
    <2>4. PlainText(g)
      BY <2>2 DEF PlainTree
    <2> HIDE DEF g
    <2>5. q \in Rooted /\ path \in Rooted
      BY RootedFacts, Zenon
    <2>6. r.pattern \in Rooted /\ Begins(g, r.pattern)
      BY <2>1, <2>3, <2>5, JoinedFacts, Zenon
    <2>7. SingleSlashes(path)
      BY Zenon DEF PlainPaths
    <2>8. HasPrefix(path, g)
      BY <2>3, <2>4, <2>5, <2>6, <2>7, AnsweredHasPrefix, Zenon
    <2>9. r.group \in middleGroup(path)
      BY <2>2, <2>8, Zenon DEF middleGroup, g
    <2>10. PICK order \in Sorted(path) :
            LET c == Wrapped(order)[Len(order)] IN
            /\ chain = mdls \o c
            /\ c \in Seq(Middlewares)
            /\ \A m : m \in ToSet(c) <=>
                 \E h \in middleGroup(path) : m \in ToSet(groups[h].Mdls)
      BY ChainFacts, Zenon
    <2> DEFINE c == Wrapped(order)[Len(order)]
    <2> HIDE DEF c
    <2>11. /\ chain = mdls \o c
           /\ c \in Seq(Middlewares)
           /\ \A m : m \in ToSet(c) <=>
                \E h \in middleGroup(path) : m \in ToSet(groups[h].Mdls)
      BY <2>10, Zenon DEF c
    <2>12. mdls \in Seq(Middlewares)
      BY DEF IInv, Typed
    <2>13. \A m : m \in ToSet(chain) <=> m \in ToSet(mdls) \/ m \in ToSet(c)
      BY <2>11, <2>12, ConcatFacts, Zenon
    <2> QED BY <2>9, <2>11, <2>13, Zenon
  <1> QED BY <1>1, <1>2, <1>3, InvariantHolds, PTL DEF Spec

=============================================================================
