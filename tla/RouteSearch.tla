---------------------------- MODULE RouteSearch -----------------------------
(***************************************************************************)
(* Looking a request path up: router.findRouter and node.BackSearchChild   *)
(* (web/router.go), over the trees that Router builds.                     *)
(*                                                                         *)
(* A request path is the sequence strings.Split(path, "/") gives: "/" is   *)
(* <<"", "">>, "/a/b" is <<"", "a", "b">>.                                 *)
(*                                                                         *)
(* Go ranges over the map regexpChild in an unspecified order, so a search *)
(* has a set of outcomes, one for each order at each node it visits.  All  *)
(* the calls of one search share a matchInfo, which none of them reads:    *)
(* what a call does to it is its last write to each name, the text that    *)
(* was bound or Absent when the name was removed.                          *)
(***************************************************************************)
EXTENDS Router, FiniteSets, SequencesExt

CONSTANTS
    Paths,       \* the request paths looked up
    MatchString, \* pairs <<expr, text>>: the expression matches in the text
    Absent       \* a name without a value

ASSUME PathsAssumption == Paths \subseteq Seq(Texts) \ {<<>>}

ASSUME AbsentAssumption == Absent \notin Texts

NoParams == <<>>
NoWrites == <<>>

-----------------------------------------------------------------------------
\* strings.Split(strings.Trim(path, "/"), "/")
PathSegs(path) ==
    LET texts == {i \in DOMAIN path : path[i] # ""} IN
    IF texts = {} THEN <<"">>
    ELSE SubSeq(path, CHOOSE i \in texts : \A j \in texts : i <= j,
                      CHOOSE i \in texts : \A j \in texts : j <= i)

\* The positions of the children of one type that accept text.
ChildrenFor(tree, pos, type, text) ==
    {p \in DOMAIN tree :
        /\ p # Root /\ Front(p) = pos /\ Last(p).typ = type
        /\ CASE type = "static" -> Last(p).key = text
             [] type = "regexp" -> <<Last(p).key, text>> \in MatchString
             [] OTHER -> TRUE}

\* Mutant: the parameter is tried before the regexps.
TryOrdersParamFirst(tree, pos, text) ==
    {SetToSeq(ChildrenFor(tree, pos, "static", text))
       \o SetToSeq(ChildrenFor(tree, pos, "param", text)) \o regs
       \o SetToSeq(ChildrenFor(tree, pos, "star", text)) :
     regs \in SetToSeqs(ChildrenFor(tree, pos, "regexp", text))}

\* The orders in which BackSearchChild may try the children of a node.
TryOrders(tree, pos, text) ==
    {SetToSeq(ChildrenFor(tree, pos, "static", text)) \o regs
       \o SetToSeq(ChildrenFor(tree, pos, "param", text))
       \o SetToSeq(ChildrenFor(tree, pos, "star", text)) :
     regs \in SetToSeqs(ChildrenFor(tree, pos, "regexp", text))}

Names(pos) == Last(pos).typ \in {"regexp", "param"}

\* matchInfo.addValue, made for regexp and param children only.
addValue(tree, child, text) ==
    IF Names(child) THEN [x \in {tree[child].paramName} |-> text] ELSE NoWrites

\* Mutant: nothing is unbound when a branch fails.
KeepValue(tree, child) == NoWrites

\* matchInfo.RemoveValue: whatever the name was bound to is gone.
RemoveValue(tree, child) ==
    IF Names(child) THEN [x \in {tree[child].paramName} |-> Absent] ELSE NoWrites

\* The writes of before, then those of after.
Then(before, after) ==
    [x \in DOMAIN before \union DOMAIN after |->
        IF x \in DOMAIN after THEN after[x] ELSE before[x]]

\* A star child with a handler takes all the segments that are left.
TakesTail(tree, child) ==
    Last(child).typ = "star" /\ tree[child].handlefunc # Nil

Found(pos, writes) == [found |-> TRUE, n |-> pos, writes |-> writes]

NotFound(writes) == [found |-> FALSE, n |-> Root, writes |-> writes]

\* A child was tried, after others that failed with the writes before, and its own
\* search ended with res.
AfterChild(tree, child, text, before, res) ==
    LET writes == Then(Then(before, addValue(tree, child, text)), res.writes) IN
    CASE res.found -> Found(res.n, writes)
      [] ~res.found /\ TakesTail(tree, child) -> Found(child, writes)
      [] OTHER -> NotFound(Then(writes, RemoveValue(tree, child)))

\* One turn of the loop: the child is tried unless one before it ended the search.
TryChild(tree, child, text, outcomes, results) ==
    UNION {IF t.found THEN {t}
           ELSE {AfterChild(tree, child, text, t.writes, res) : res \in results} :
           t \in outcomes}

\* For each k the outcomes of trying the first k children of order.
TryChildren(tree, order, text, search) ==
    LET tried[k \in 0..Len(order)] ==
            IF k = 0 THEN {NotFound(NoWrites)}
            ELSE TryChild(tree, order[k], text, tried[k - 1], search[order[k]])
    IN  tried

\* The outcomes of n.BackSearchChild(segs, cnt, mi) for the node at pos, with a cnt
\* that is its depth; search has those of the calls it makes.
BackSearchChild(tree, pos, segs, search) ==
    IF Len(pos) = Len(segs) THEN {Found(pos, NoWrites)}
    ELSE LET text == segs[Len(pos) + 1] IN
         UNION {TryChildren(tree, order, text, search)[Len(order)] :
                order \in TryOrders(tree, pos, text)}

\* The outcomes of the calls for all the nodes.
Searches(tree, segs) ==
    LET search[pos \in {p \in DOMAIN tree : Len(p) <= Len(segs)}] ==
            BackSearchChild(tree, pos, segs, search)
    IN  search

\* The names that have a value after the writes.
Bound(writes) == [x \in {y \in DOMAIN writes : writes[y] # Absent} |-> writes[x]]

\* The outcomes of findRouter.
findRouter(m, path) ==
    IF DOMAIN trees[m] = {}
    THEN {[found |-> FALSE, n |-> Root, pathParams |-> NoParams]}
    ELSE IF path = <<"", "">>
    THEN {[found |-> TRUE, n |-> Root, pathParams |-> NoParams]}
    ELSE {[found |-> r.found, n |-> r.n, pathParams |-> Bound(r.writes)] :
          r \in Searches(trees[m], PathSegs(path))[Root]}

\* Mutant: the node's handler is not compared with nil.
serveFound(m, path) ==
    {IF ~r.found
     THEN [status |-> "NotFound"]
     ELSE [status |-> "handled", handlefunc |-> trees[m][r.n].handlefunc,
           MatchRoute |-> trees[m][r.n].route, PathParams |-> r.pathParams] :
     r \in findRouter(m, path)}

\* The outcomes of ServerEngine.serve: 404, or the handler that runs with the
\* context it is given.
serve(m, path) ==
    {IF ~r.found \/ trees[m][r.n].handlefunc = Nil
     THEN [status |-> "NotFound"]
     ELSE [status |-> "handled", handlefunc |-> trees[m][r.n].handlefunc,
           MatchRoute |-> trees[m][r.n].route, PathParams |-> r.pathParams] :
     r \in findRouter(m, path)}

-----------------------------------------------------------------------------
(* The same lookup, said without searching.                                *)

Accepts(slot, text) ==
    CASE slot.typ = "static" -> slot.key = text
      [] slot.typ = "regexp" -> <<slot.key, text>> \in MatchString
      [] OTHER -> TRUE

\* The nodes a request can end at: one segment per level, or fewer when the
\* node is a star with a handler.
Matches(tree, segs) ==
    {p \in DOMAIN tree :
        /\ Len(p) <= Len(segs)
        /\ \A i \in 1..Len(p) : Accepts(p[i], segs[i])
        /\ Len(p) = Len(segs) \/ (p # Root /\ TakesTail(tree, p))}

Rank(type) == CASE type = "static" -> 1 [] type = "regexp" -> 2
                [] type = "param" -> 3  [] type = "star" -> 4

\* At the first level where p and q differ p has the better kind of child, or q
\* has ended.  Two regexps of one node are not ordered.
Better(p, q) ==
    \E i \in 1..Len(p) :
        /\ \A j \in 1..(i - 1) : j <= Len(q) /\ p[j] = q[j]
        /\ i > Len(q) \/ Rank(p[i].typ) < Rank(q[i].typ)

Best(tree, segs) ==
    {p \in Matches(tree, segs) : ~\E q \in Matches(tree, segs) : Better(q, p)}

\* Level i of the branch to p binds name.
BindsAt(tree, p, i, name) ==
    Names(SubSeq(p, 1, i)) /\ tree[SubSeq(p, 1, i)].paramName = name

\* In every tree that registration can build, for every request and every order
\* in which the regexps are tried, the backtracking search ends exactly at the
\* nodes that come first in the documented order (static, regexp, param, star,
\* a longer match before a star's tail), and finds nothing only if no node
\* matches (BackSearchChild, README.md:7-11, 17-18).
FindIsBest ==
    \A m \in Methods, path \in Paths :
        (DOMAIN trees[m] # {} /\ path # <<"", "">>) =>
            LET best == Best(trees[m], PathSegs(path))
                outcomes == findRouter(m, path)
            IN /\ {r.n : r \in {o \in outcomes : o.found}} = best
               /\ (\E r \in outcomes : ~r.found) <=> best = {}

\* The levels of the branch to p that bind name.
Levels(tree, p, name) == {i \in 1..Len(p) : BindsAt(tree, p, i, name)}

\* Somewhere below level i of the branch to p, name is bound a second time.
BoundAgain(tree, p, i, name) ==
    \E q \in DOMAIN tree :
        /\ Len(q) > i /\ SubSeq(q, 1, i) = SubSeq(p, 1, i)
        /\ \E j \in Levels(tree, q, name) : i < j

\* After all the binding and unbinding on branches that failed, the parameters
\* are those of the branch that matched, each with the last segment bound to
\* its name ("of parameters with one name only the last value is kept",
\* router.go:321; README.md:20).  A name bound at two levels of a branch may be
\* missing: RemoveValue at the deeper one forgets both.
ParamsLastWins ==
    \A m \in Methods, path \in Paths :
        \A r \in findRouter(m, path) :
            r.found =>
                /\ \A name \in DOMAIN r.pathParams :
                    \E i \in Levels(trees[m], r.n, name) :
                        /\ \A j \in Levels(trees[m], r.n, name) : j <= i
                        /\ r.pathParams[name] = PathSegs(path)[i]
                /\ \A i \in 1..Len(r.n) :
                    Names(SubSeq(r.n, 1, i)) =>
                        LET name == trees[m][SubSeq(r.n, 1, i)].paramName IN
                        \/ name \in DOMAIN r.pathParams
                        \/ BoundAgain(trees[m], r.n, i, name)

\* End to end: the handler that runs was registered, under the pattern reported
\* as MatchRoute, and that pattern accepts the request segment by segment
\* (serve, l. 137-145).
ServedAsRegistered ==
    \A m \in Methods, path \in Paths :
        \A o \in serve(m, path) :
            o.status = "handled" =>
                \E r \in registered :
                    /\ r.method = m /\ r.handlefunc = o.handlefunc
                    /\ o.MatchRoute = RouteText(r.segs, Len(r.segs))
                    /\ \A i \in 1..Len(r.segs) :
                        Accepts(Slot(r.segs[i]), PathSegs(path)[i])

\* A request whose last segments, two or more, are covered by the * a registered
\* route ends in is answered ("a/b/* supports a/b/c1/c2, the end matches several
\* segments", README.md:18).
TailStarServes ==
    \A m \in Methods, path \in Paths : \A r \in registered :
        LET n == Len(r.segs) segs == PathSegs(path) IN
        (/\ r.method = m /\ n > 0 /\ n < Len(segs)
         /\ r.segs[n].typ = "star"
         /\ \A i \in 1..n : Accepts(Slot(r.segs[i]), segs[i]))
            => [status |-> "NotFound"] \notin serve(m, path)

=============================================================================
