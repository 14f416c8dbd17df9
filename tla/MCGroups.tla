------------------------------ MODULE MCGroups ------------------------------
(***************************************************************************)
(* Groups for TLC: the engine's group and two others, nested or side by    *)
(* side, with one prefix that is the beginning of another segment's text   *)
(* (/a and /ab) and one that is empty; the second instance has a parameter *)
(* in a prefix.                                                            *)
(***************************************************************************)
EXTENDS Groups, TLC

CONSTANTS m1, m2, m3

MCMiddlewares == {m1, m2, m3}
MCTexts == {"", "a", "ab", "b", ":id", "1"}
MCParams == {":id"}
MCTextPrefix ==
    {<<"", t>> : t \in MCTexts} \union {<<t, t>> : t \in MCTexts} \union {<<"a", "ab">>}
MCPrefixes == {<<"">>, <<"", "a">>, <<"", "b">>, <<"", "ab">>}
MCPaths == {<<"", "">>, <<"", "1">>, <<"", "a">>, <<"", "ab">>, <<"", "a", "b">>, <<"", "a", "b", "1">>}
MCPatterns == {<<"", "1">>}
ParamPrefixes == {<<"", "a">>, <<"", ":id">>}
ParamPaths == {<<"", "a", "1">>, <<"", "1", "1">>}
Symmetry == Permutations(MCMiddlewares)
=============================================================================
