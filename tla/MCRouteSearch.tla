---------------------------- MODULE MCRouteSearch ---------------------------
(***************************************************************************)
(* Registration and lookup on one small instance.  The routes are those    *)
(* TestFindRoute registers to exercise priorities and backtracking, one    *)
(* level shorter, with a second regexp beside the first and a name that is *)
(* bound twice; and patterns that are refused: malformed, or in conflict   *)
(* with others (two names in a parameter slot, two names for one           *)
(* expression), or half-way through.                                       *)
(* The requests are all paths of up to three segments over the texts the   *)
(* routes tell apart, and some with empty segments.                        *)
(***************************************************************************)
EXTENDS RouteSearch, TLC

CONSTANTS h1, h2, GET

Static(text) == [typ |-> "static", path |-> text, expr |-> "", paramName |-> ""]
Star == [typ |-> "star", path |-> "*", expr |-> "", paramName |-> ""]
Param(name) == [typ |-> "param", path |-> ":" \o name, expr |-> "", paramName |-> name]
Regexp(name, expr) ==
    [typ |-> "regexp", path |-> ":" \o name \o "(" \o expr \o ")",
     expr |-> expr, paramName |-> name]

MCSegs ==
    {Static("k1"), Static("k2"), Static("k3"), Star, Param("id"), Param("name"),
     Regexp("reg", ".*"), Regexp("no", "[12]"), Regexp("nr", "[12]"),
     Regexp("id", "[12")}

MCUncompilable == {Regexp("id", "[12")}

MCTexts == {"", "k1", "k2", "k3"}
MCMatchString == ({".*"} \X MCTexts) \union ({"[12]"} \X {"k1", "k2"})

Slash(segs) == <<EmptySeg>> \o segs

MCAccepted ==
    { <<EmptySeg, EmptySeg>>,
      Slash(<<Static("k1"), Static("k3")>>),
      Slash(<<Param("id"), Static("k1"), Param("name")>>),
      Slash(<<Param("id"), Star>>),
      Slash(<<Param("id"), Param("id"), Static("k1")>>),
      Slash(<<Regexp("reg", ".*"), Static("k2")>>),
      Slash(<<Regexp("no", "[12]"), Param("name"), Static("k3")>>),
      Slash(<<Star>>) }

MCRefused ==
    { <<EmptySeg>>, <<Static("k1")>>, Slash(<<Static("k1"), EmptySeg>>),
      Slash(<<EmptySeg, Static("k1")>>),
      Slash(<<Param("name"), EmptySeg, Star>>),
      Slash(<<Regexp("nr", "[12]")>>),
      Slash(<<Star, Static("k1"), Regexp("id", "[12")>>) }

MCPatterns == MCAccepted \union MCRefused

MCPaths ==
    LET nonempty == {"k1", "k2", "k3"} IN
    { <<"">>, <<"", "">>, <<"", "", "">>, <<"", "k1", "">>,
      <<"", "", "k2", "", "k1", "">>, <<"", "k3", "", "k1">> }
      \union {<<"", a>> : a \in nonempty}
      \union {<<"", a, b>> : a, b \in nonempty}
      \union {<<"", a, b, c>> : a, b \in nonempty, c \in {"k1", "k3"}}

AllTexts == STRING
MCMethods == {GET}
MCHandleFuncs == {h1, h2}
Symmetry == Permutations(MCHandleFuncs)
=============================================================================
