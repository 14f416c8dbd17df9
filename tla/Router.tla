------------------------------- MODULE Router -------------------------------
(***************************************************************************)
(* Registration of routes: router.Route and the node constructors below it *)
(* (web/router.go).  There is one routing tree per HTTP method.            *)
(*                                                                         *)
(* A node of a tree is named by its position: the sequence of child slots  *)
(* followed from the root.  The slot says in which field of the parent the *)
(* node hangs: children[path], regexpChild[expr], paramChild or starChild. *)
(*                                                                         *)
(* A pattern is the sequence strings.Split(pattern, "/") gives, with each  *)
(* segment already parsed: "/" is <<EmptySeg, EmptySeg>>, "" is            *)
(* <<EmptySeg>> and "/a//b" is <<EmptySeg, a, EmptySeg, b>>.               *)
(*                                                                         *)
(* Go panics are recovered by the caller (the tests do): a refused call is *)
(* a step that may leave nodes behind, and later calls see them.           *)
(***************************************************************************)
EXTENDS Naturals, Sequences

CONSTANTS
    Methods,      \* HTTP methods
    Texts,        \* the strings a segment, an expression or a name may be
    Segs,         \* the non-empty pattern segments
    Patterns,     \* the patterns the program registers
    Uncompilable, \* those of Segs whose expression regexp.MustCompile rejects
    HandleFuncs,  \* the handler functions
    Nil           \* a node without a handler

NodeTypes == {"static", "regexp", "param", "star"}

\* The empty text between two slashes.
EmptySeg == [typ |-> "static", path |-> "", expr |-> "", paramName |-> ""]

ASSUME TextsAssumption == {"", "*", "/"} \subseteq Texts

\* What parseFaram and ChildOrCreate read from a segment's text: its kind, the
\* expression of a regexp and the name of a parameter.  They are functions of
\* the text, and only "*" is a wildcard.
ASSUME SegsAssumption ==
    /\ Segs \subseteq [typ: NodeTypes, path: Texts, expr: Texts, paramName: Texts]
    /\ \A s \in Segs : s.path # ""
    /\ \A s, r \in Segs : s.path = r.path => s = r
    /\ \A s \in Segs : s.typ = "star" <=> s.path = "*"
    /\ Uncompilable \subseteq Segs

ASSUME PatternsAssumption ==
    Patterns \subseteq Seq(Segs \union {EmptySeg}) \ {<<>>}

ASSUME HandlersAssumption == Nil \notin HandleFuncs

VARIABLES
    trees,      \* router.trees; a method without a tree has the empty function
    registered  \* history: the calls of Route that returned

vars == <<trees, registered>>

-----------------------------------------------------------------------------
Slot(seg) ==
    [typ |-> seg.typ,
     key |-> CASE seg.typ = "static" -> seg.path
               [] seg.typ = "regexp" -> seg.expr
               [] OTHER -> ""]

\* The node reached by the first n segments.
Position(segs, n) == [i \in 1..n |-> Slot(segs[i])]

Root == <<>>

\* Mutant: the segment is appended to routepath after the route is set.
RouteTextLate(segs, n) == [i \in 1..(n - 1) |-> segs[i].path]

RouteText(segs, n) == [i \in 1..n |-> segs[i].path]

Slots == [typ: NodeTypes, key: Texts]

Node == [path: Texts, paramName: Texts, route: Seq(Texts),
         handlefunc: HandleFuncs \union {Nil}]

RootNode == [path |-> "/", paramName |-> "", route |-> <<>>, handlefunc |-> Nil]

\* &node{path: pattern, typ: ..., paramName: ...}; its route is set by Route.
NewNode(seg) ==
    [path |-> seg.path, paramName |-> seg.paramName, route |-> <<>>,
     handlefunc |-> Nil]

-----------------------------------------------------------------------------
Malformed(pattern) ==
    \/ pattern = <<EmptySeg>>
    \/ pattern[1] # EmptySeg
    \/ pattern # <<EmptySeg, EmptySeg>> /\ pattern[Len(pattern)] = EmptySeg

\* Mutant: an existing node is returned whatever its text.
NeverConflicts(node, seg) == FALSE

\* childOrCreateReg and childOrCreateParam panic on a node that is there
\* under another text; a static or star child is found by its text.
Conflicts(node, seg) ==
    seg.typ \in {"regexp", "param"} /\ node.path # seg.path

\* The walk of Route panics at segment i.
Refuses(tree, segs, i) ==
    \/ segs[i] = EmptySeg
    \/ segs[i] \in Uncompilable
    \/ /\ Position(segs, i) \in DOMAIN tree
       /\ Conflicts(tree[Position(segs, i)], segs[i])

\* The walk of Route gets past n segments and no further.
WalksTo(tree, segs, n) ==
    /\ \A i \in 1..n : ~Refuses(tree, segs, i)
    /\ n < Len(segs) => Refuses(tree, segs, n + 1)

\* Mutant: a node is created for each segment, there or not.
WalkedAnew(tree, segs, n) ==
    LET path == {Position(segs, i) : i \in 1..n} IN
    [p \in DOMAIN tree \union path \union {Root} |->
        IF p \in path
        THEN [NewNode(segs[Len(p)]) EXCEPT !.route = RouteText(segs, Len(p))]
        ELSE IF p \in DOMAIN tree THEN tree[p] ELSE RootNode]

\* The tree with its root and the nodes of the first n segments, those that
\* were there with their route written again.
Walked(tree, segs, n) ==
    LET path == {Position(segs, i) : i \in 1..n} IN
    [p \in DOMAIN tree \union path \union {Root} |->
        IF p \in path
        THEN [(IF p \in DOMAIN tree THEN tree[p] ELSE NewNode(segs[Len(p)]))
                EXCEPT !.route = RouteText(segs, Len(p))]
        ELSE IF p \in DOMAIN tree THEN tree[p] ELSE RootNode]

\* The segments Route walks through: none for "/".
SegsOf(pattern) ==
    IF pattern = <<EmptySeg, EmptySeg>> THEN <<>> ELSE Tail(pattern)

-----------------------------------------------------------------------------
Init ==
    /\ trees = [m \in Methods |-> <<>>]
    /\ registered = {}

\* The checks on the text panic before anything is touched.
RouteMalformed(m, pattern) ==
    /\ Malformed(pattern)
    /\ UNCHANGED vars

\* A segment is refused on the way: the nodes before it stay.
RouteRefused(m, pattern) ==
    /\ ~Malformed(pattern)
    /\ \E n \in 0..Len(SegsOf(pattern)) :
        /\ n < Len(SegsOf(pattern))
        /\ WalksTo(trees[m], SegsOf(pattern), n)
        /\ trees' = [trees EXCEPT ![m] = Walked(@, SegsOf(pattern), n)]
    /\ UNCHANGED registered

\* The walk ends at a node that has its handler already.
RouteTaken(m, pattern) ==
    LET segs == SegsOf(pattern)
        tree == Walked(trees[m], segs, Len(segs))
        end == Position(segs, Len(segs))
    IN
    /\ ~Malformed(pattern)
    /\ WalksTo(trees[m], segs, Len(segs))
    /\ tree[end].handlefunc # Nil
    /\ trees' = [trees EXCEPT ![m] = tree]
    /\ UNCHANGED registered

\* Mutant: a handler that is there already is replaced.
RouteAddedOver(m, pattern, h) ==
    LET segs == SegsOf(pattern)
        tree == Walked(trees[m], segs, Len(segs))
    IN
    /\ ~Malformed(pattern)
    /\ WalksTo(trees[m], segs, Len(segs))
    /\ trees' = [trees EXCEPT ![m] =
            [tree EXCEPT ![Position(segs, Len(segs))].handlefunc = h]]
    /\ registered' = registered \union
         {[method |-> m, segs |-> segs, handlefunc |-> h]}

RouteAdded(m, pattern, h) ==
    LET segs == SegsOf(pattern)
        tree == Walked(trees[m], segs, Len(segs))
        end == Position(segs, Len(segs))
    IN
    /\ ~Malformed(pattern)
    /\ WalksTo(trees[m], segs, Len(segs))
    /\ tree[end].handlefunc = Nil
    /\ trees' = [trees EXCEPT ![m] = [tree EXCEPT ![end].handlefunc = h]]
    /\ registered' = registered \union
         {[method |-> m, segs |-> segs, handlefunc |-> h]}

Route(m, pattern, h) ==
    \/ RouteMalformed(m, pattern)
    \/ RouteRefused(m, pattern)
    \/ RouteTaken(m, pattern)
    \/ RouteAdded(m, pattern, h)

Next == \E m \in Methods, pattern \in Patterns, h \in HandleFuncs :
            Route(m, pattern, h)

Spec == Init /\ [][Next]_vars

-----------------------------------------------------------------------------
\* The trees are functions from positions to nodes, and a history entry is a
\* call of Route with its arguments (router.trees, node).
TypeOK ==
    /\ DOMAIN trees = Methods
    /\ \A m \in Methods :
        /\ trees[m] = [p \in DOMAIN trees[m] |-> trees[m][p]]
        /\ \A p \in DOMAIN trees[m] : p \in Seq(Slots) /\ trees[m][p] \in Node
    /\ registered \subseteq
         [method: Methods, segs: Seq(Segs), handlefunc: HandleFuncs]

\* Whatever sequence of calls is accepted and refused, a node's route is the
\* texts of the nodes on the way from the root to it, and that way is in the
\* tree: what serve puts in ctx.MatchRoute (root.route = routepath, l. 90-93).
RouteSpellsPath ==
    \A m \in Methods : \A p \in DOMAIN trees[m] :
        LET route == trees[m][p].route IN
        /\ Root \in DOMAIN trees[m]
        /\ Len(route) = Len(p)
        /\ \A i \in 1..Len(p) :
            /\ SubSeq(p, 1, i) \in DOMAIN trees[m]
            /\ trees[m][SubSeq(p, 1, i)].path = route[i]

\* The handlers in the trees are exactly those of the calls that returned, each
\* at the node its pattern names and under that pattern as its route: no later
\* call, refused half-way or not, overwrites, moves or adds one (l. 76, 96,
\* "a registered route cannot be overwritten").
HandlersExact ==
    /\ \A r \in registered :
        LET end == Position(r.segs, Len(r.segs)) IN
        /\ end \in DOMAIN trees[r.method]
        /\ trees[r.method][end].handlefunc = r.handlefunc
        /\ trees[r.method][end].route = RouteText(r.segs, Len(r.segs))
    /\ \A m \in Methods : \A p \in DOMAIN trees[m] :
        trees[m][p].handlefunc # Nil =>
            \E r \in registered : r.method = m /\ Position(r.segs, Len(r.segs)) = p

\* Two calls that both returned never put different texts in one place of the
\* tree, and never registered the same pattern: /user/:id and /user/:name, or
\* one expression under two names, are never both accepted, in either order
\* and at any depth (l. 49, 54, 291, 303).
AcceptedCompatible ==
    \A r, s \in registered :
        r.method = s.method =>
            /\ \A n \in 1..Len(r.segs) :
                (n <= Len(s.segs) /\ Position(r.segs, n) = Position(s.segs, n))
                    => r.segs[n] = s.segs[n]
            /\ r.segs = s.segs => r = s

\* No call removes a node, or changes the text or parameter name of one; and
\* what has a handler keeps it and its route (Route only writes fresh nodes,
\* l. 90-100).
NodesStay ==
    [][\A m \in Methods : \A p \in DOMAIN trees[m] :
        LET old == trees[m][p] new == trees'[m][p] IN
        /\ p \in DOMAIN trees'[m]
        /\ new.path = old.path /\ new.paramName = old.paramName
        /\ new.route = old.route
        /\ old.handlefunc # Nil => new.handlefunc = old.handlefunc]_vars

=============================================================================
