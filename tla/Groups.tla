------------------------------- MODULE Groups -------------------------------
(***************************************************************************)
(* Groups of routes and their middlewares: NewGroup, Use and Route of      *)
(* web/group.go, Use of web/server.go, and the chain of middlewares that   *)
(* ServeHTTP assembles for a request.                                      *)
(*                                                                         *)
(* Prefixes, patterns and request paths are the sequences strings.Split at *)
(* "/" gives: "" is <<"">>, "/a" is <<"", "a">>.  The prefixes a program   *)
(* gives are empty or begin with "/".  A middleware is used once, so that  *)
(* its place in a chain is its place in the program.                       *)
(***************************************************************************)
EXTENDS Naturals, Sequences, SequencesExt, FiniteSetsExt

CONSTANTS
    Middlewares,
    Texts,          \* what may stand between two slashes
    Params,         \* the texts that are parameters in a pattern
    TextPrefix,     \* pairs of texts, the first a prefix of the second
    GroupPrefixes,  \* the prefixes given to NewGroup
    Patterns,       \* the patterns given to Route
    Paths,          \* the paths of requests
    MaxGroups       \* bound on the groups

ASSUME TextsAssumption ==
    /\ "" \in Texts /\ Params \subseteq Texts
    /\ TextPrefix \subseteq Texts \X Texts
    /\ \A t \in Texts : <<"", t>> \in TextPrefix /\ <<t, t>> \in TextPrefix
ASSUME PathsAssumption ==
    \A p \in GroupPrefixes \union Patterns \union Paths :
        p \in Seq(Texts) \ {<<>>} /\ p[1] = ""

ASSUME BoundAssumption == MaxGroups \in Nat \ {0}

VARIABLES
    groups,  \* ServerEngine.Groups; the first is the engine's own
    mdls,    \* ServerEngine.Mdls
    routed   \* history: the patterns given to the router, by group

vars == <<groups, mdls, routed>>

\* The text of p followed by that of q.
Joined(p, q) == p \o Tail(q)

HasPrefix(path, prefix) ==
    LET n == Len(prefix) IN
    /\ n <= Len(path)
    /\ \A i \in 1..(n - 1) : path[i] = prefix[i]
    /\ <<prefix[n], path[n]>> \in TextPrefix

Used == ToSet(mdls) \union UNION {ToSet(groups[g].Mdls) : g \in DOMAIN groups}

-----------------------------------------------------------------------------
Init ==
    /\ groups = <<[Prefix |-> <<"">>, Mdls |-> <<>>, Parent |-> 0]>>
    /\ mdls = <<>>
    /\ routed = {}

\* Mutant: a group is its own parent.
NewGroupOrphan(g, prefix) ==
    /\ Len(groups) < MaxGroups
    /\ groups' = Append(groups, [Prefix |-> Joined(groups[g].Prefix, prefix),
                                 Mdls |-> <<>>, Parent |-> Len(groups) + 1])
    /\ UNCHANGED <<mdls, routed>>

NewGroup(g, prefix) ==
    /\ Len(groups) < MaxGroups
    /\ groups' = Append(groups, [Prefix |-> Joined(groups[g].Prefix, prefix),
                                 Mdls |-> <<>>, Parent |-> g])
    /\ UNCHANGED <<mdls, routed>>

\* Use of a group, or its option GroupWithMiddleware.
Use(g, m) ==
    /\ m \notin Used
    /\ groups' = [groups EXCEPT ![g].Mdls = Append(@, m)]
    /\ UNCHANGED <<mdls, routed>>

\* ServerEngine.Use, or its option ServeWithMiddleware.
UseEngine(m) ==
    /\ m \notin Used
    /\ mdls' = Append(mdls, m)
    /\ UNCHANGED <<groups, routed>>

\* Mutant: the group's prefix is left out.
RouteUnprefixed(g, pattern) ==
    /\ routed' = routed \union {[group |-> g, pattern |-> pattern]}
    /\ UNCHANGED <<groups, mdls>>

Route(g, pattern) ==
    /\ routed' = routed \union
         {[group |-> g, pattern |-> Joined(groups[g].Prefix, pattern)]}
    /\ UNCHANGED <<groups, mdls>>

Next ==
    \/ \E g \in DOMAIN groups, prefix \in GroupPrefixes : NewGroup(g, prefix)
    \/ \E g \in DOMAIN groups, m \in Middlewares : Use(g, m)
    \/ \E m \in Middlewares : UseEngine(m)
    \/ \E g \in DOMAIN groups, pattern \in Patterns : Route(g, pattern)

Spec == Init /\ [][Next]_vars

-----------------------------------------------------------------------------
\* The groups whose prefix the path has.
middleGroup(path) == {g \in DOMAIN groups : HasPrefix(path, groups[g].Prefix)}

\* Both have the path's prefix, so that the longer one has the shorter one's.
Longer(g, h) ==
    /\ HasPrefix(groups[g].Prefix, groups[h].Prefix)
    /\ groups[g].Prefix # groups[h].Prefix

\* Mutant: the groups in the order they were made.
Unsorted(path) == {SetToSeq(middleGroup(path))}

\* The orders sort.Slice may leave: longer prefixes first; it is not stable.
Sorted(path) ==
    {order \in SetToSeqs(middleGroup(path)) :
        \A i, j \in DOMAIN order : i < j => ~Longer(order[j], order[i])}

\* For each n the middlewares, from the outside in, that are there when the first n
\* groups are wrapped around serve, one after the other.
Wrapped(order) ==
    LET chain[n \in 0..Len(order)] ==
            IF n = 0 THEN <<>> ELSE groups[order[n]].Mdls \o chain[n - 1]
    IN  chain

\* Mutant: the engine's middlewares are wrapped first.
ChainsInsideOut(path) ==
    {Wrapped(order)[Len(order)] \o mdls : order \in Sorted(path)}

\* The middlewares a request goes through, from the outside in: the engine's are
\* wrapped around those of the groups.
Chains(path) ==
    {mdls \o Wrapped(order)[Len(order)] : order \in Sorted(path)}

-----------------------------------------------------------------------------
TypeOK ==
    /\ Len(groups) \in 1..MaxGroups
    /\ \A g \in DOMAIN groups :
        /\ groups[g].Prefix \in Seq(Texts) \ {<<>>}
        /\ groups[g].Mdls \in Seq(Middlewares)
        /\ groups[g].Parent \in 0..(g - 1)
    /\ mdls \in Seq(Middlewares)
    /\ \A r \in routed : r.group \in DOMAIN groups /\ r.pattern \in Seq(Texts)

At(chain, m) == CHOOSE i \in DOMAIN chain : chain[i] = m

\* Levels from the outside in: the engine, then the groups.
Level(m) == IF m \in ToSet(mdls) THEN 0
            ELSE CHOOSE g \in DOMAIN groups : m \in ToSet(groups[g].Mdls)

\* h is nested in g: every set of groups that has the parents of h and of its own
\* members has g.
Ancestor(g, h) ==
    \A S \in SUBSET DOMAIN groups :
        (\A x \in S \union {h} : groups[x].Parent # 0 => groups[x].Parent \in S)
            => g \in S

\* A chain has each middleware once, the engine's before those of the groups and
\* those of a group in the order of Use ("assemble /a/b first, then /a",
\* server.go:97).
ChainIsLayered ==
    \A path \in Paths : \A chain \in Chains(path) :
        /\ \A i, j \in DOMAIN chain : chain[i] = chain[j] => i = j
        /\ ToSet(mdls) \subseteq ToSet(chain)
        /\ \A i, j \in DOMAIN chain : Level(chain[i]) = 0 /\ Level(chain[j]) > 0 => i < j
        /\ \A g \in middleGroup(path) : \A i, j \in DOMAIN groups[g].Mdls :
            /\ groups[g].Mdls[i] \in ToSet(chain)
            /\ i < j => At(chain, groups[g].Mdls[i]) < At(chain, groups[g].Mdls[j])

\* A request that goes through the middlewares of a group has gone through those
\* of the groups it is nested in, unless the two have one prefix ("the parent's
\* are not copied, they accumulate in ServeHTTP", group.go:34).
ParentsComeFirst ==
    \A path \in Paths : \A chain \in Chains(path) :
        \A h \in middleGroup(path), g \in DOMAIN groups :
            Ancestor(g, h) =>
                /\ g \in middleGroup(path)
                /\ groups[g].Prefix # groups[h].Prefix =>
                    \A m \in ToSet(groups[g].Mdls), n \in ToSet(groups[h].Mdls) :
                        At(chain, m) < At(chain, n)

\* strings.Split(strings.Trim(path, "/"), "/")
Trimmed(path) ==
    LET texts == {i \in DOMAIN path : path[i] # ""} IN
    IF texts = {} THEN <<"">> ELSE SubSeq(path, Min(texts), Max(texts))

\* The router would answer the path with the pattern, had it no other.
Answers(pattern, path) ==
    LET p == Trimmed(pattern) q == Trimmed(path) IN
    /\ Len(p) = Len(q)
    /\ \A i \in DOMAIN p : p[i] \in Params \/ p[i] = q[i]

\* A request answered by a route of a group goes through the group's middlewares
\* ("middlewares can be used on groups", README.md:67).  It holds while no group
\* has a parameter in its prefix and no request doubles a slash.
RoutesRunTheirMiddlewares ==
    \A r \in routed, path \in Paths :
        Answers(r.pattern, path) =>
            \A chain \in Chains(path) :
                ToSet(groups[r.group].Mdls) \subseteq ToSet(chain)

=============================================================================
