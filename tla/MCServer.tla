------------------------------ MODULE MCServer ------------------------------
(***************************************************************************)
(* Server for TLC: each middleware outside and inside those it interacts   *)
(* with, and a handler of each way to end.                                 *)
(***************************************************************************)
EXTENDS Server, TLC

CONSTANTS r1, r2, k1, k2

MCRequests == {r1, r2}

MCKeys == {k1, k2}

Symmetry == Permutations(MCRequests) \union Permutations(MCKeys)

MCChains == {
    <<"accesslog", "errhandle", "recover">>,
    <<"recover", "prometheus", "errhandle", "accesslog">>,
    <<"errhandle", "limiter", "opentelemetry", "accesslog">>,
    <<"limiter", "recover", "limiter">>,
    <<"recover, then panic", "errhandle", "recover">>,
    <<"opentelemetry", "recover", "prometheus", "recover, then panic">> }

MCOutcomes ==
    { [status |-> s, data |-> d, panics |-> p] :
        s \in {0, 404}, d \in {NoData, "body"}, p \in BOOLEAN }
    \union { [status |-> 204, data |-> "body", panics |-> FALSE] }

MCPages == [s \in {404, 429, 500} |-> "page"]

MCBodyless == {204, 304}
=============================================================================
