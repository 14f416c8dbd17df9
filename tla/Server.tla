------------------------------- MODULE Server -------------------------------
(***************************************************************************)
(* Requests going through the middleware chain of ServerEngine.ServeHTTP   *)
(* (web/server.go) and the middlewares of middlewares/: accesslog,         *)
(* errhandle, recover, limiter, prometheus and opentelemetry.  Requests    *)
(* run concurrently, each with a Context of its own; they share the        *)
(* limiter's token buckets and the process.  Which middlewares are in the  *)
(* chain, and in which order, is Groups' subject; here a chain is any of a *)
(* given set.                                                              *)
(*                                                                         *)
(* A chain is run from the outside in, then serve runs, then the chain     *)
(* from the inside out: either returning, or panicking, in which case only *)
(* deferred functions run.                                                 *)
(***************************************************************************)
EXTENDS Naturals, Sequences, FiniteSets

CONSTANTS
    Requests,
    Keys,      \* of the limiter: request URIs without their query
    Chains,    \* sequences of middlewares
    Outcomes,  \* what serve does: [status, data, panics]
    Pages,     \* errhandle's resp: a function from status codes to data
    ErrStatus, ErrMsg,  \* what recover answers
    Bodyless,  \* the status codes net/http sends without a body
    Capacity,  \* of a token bucket
    MaxFills   \* bound on the tokens put in a bucket

\* recover, and a recover whose LogFunc panics.
Recovers == {"recover", "recover, then panic"}

Kinds == {"accesslog", "errhandle", "limiter", "prometheus", "opentelemetry"} \union Recovers

ASSUME ChainsAssumption == Chains \subseteq Seq(Kinds)
ASSUME RequestsAssumption == IsFiniteSet(Requests)
ASSUME OutcomesAssumption == \A o \in Outcomes : o.status \in Nat /\ o.panics \in BOOLEAN
ASSUME AnswerAssumption == ErrStatus \in Nat
ASSUME LimitAssumption == Capacity \in Nat /\ MaxFills \in Nat

\* The response data: nothing, or whose it is.
NoData == "none"
Busy == "Serve is busy"

NoChain == <<"no request">>

\* The goroutine of prometheus: started, and the status it read.
NoReport == [phase |-> "none", status |-> 0]
Pending == [phase |-> "pending", status |-> 0]

\* What a client has before it is answered, and when net/http hung up on it.
NotYet == [status |-> 0, data |-> "not yet"]
HungUp == [status |-> 0, data |-> "hung up"]

VARIABLES
    chain,    \* chain[r]: the middlewares of r's request, outermost first
    at,       \* at[r]: the middleware that runs; 0 is flashResp, Len + 1 is serve
    going,    \* going[r]: in, out (returning) or panic
    status, data,  \* RespStatusCode and RespData of r's Context
    wire,     \* wire[r]: what the client got
    report,   \* report[r]: what r's prometheus reported
    spans,    \* spans[r]: the spans r started and did not end
    key,      \* key[r]: the limiter's key of r
    buckets,  \* the keys with a bucket
    tokens,   \* tokens[k]: in the bucket of k
    up,       \* the process runs
    logged,   \* history: logged[r]: the lines accesslog wrote for r
    served,   \* history: served[r]: serve ran for r
    limited,  \* history: limited[r]: its key had a bucket when r arrived
    fills     \* history: fills[k]: tokens put in the bucket of k

context == <<chain, at, going, status, data>>
limiter == <<key, buckets, tokens, limited, fills>>
metrics == <<report, spans>>
vars == <<chain, at, going, status, data, wire, report, spans, key, buckets, tokens,
          up, logged, served, limited, fills>>

Running(r) == up /\ chain[r] # NoChain /\ wire[r] = NotYet

Kind(r) == chain[r][at[r]]

Inside(r) == at[r] \in 1..Len(chain[r])

-----------------------------------------------------------------------------
Init ==
    /\ chain = [r \in Requests |-> NoChain]
    /\ at = [r \in Requests |-> 0]
    /\ going = [r \in Requests |-> "in"]
    /\ status = [r \in Requests |-> 0]
    /\ data = [r \in Requests |-> NoData]
    /\ wire = [r \in Requests |-> NotYet]
    /\ report = [r \in Requests |-> NoReport]
    /\ spans = [r \in Requests |-> 0]
    /\ key \in [Requests -> Keys]
    /\ buckets = {}
    /\ tokens = [k \in Keys |-> 0]
    /\ up = TRUE
    /\ logged = [r \in Requests |-> 0]
    /\ served = [r \in Requests |-> FALSE]
    /\ limited = [r \in Requests |-> FALSE]
    /\ fills = [k \in Keys |-> 0]

\* A request arrives and its chain is assembled.
ServeHTTP(r, c) ==
    /\ up /\ chain[r] = NoChain
    /\ chain' = [chain EXCEPT ![r] = c]
    /\ at' = [at EXCEPT ![r] = 1]
    /\ limited' = [limited EXCEPT ![r] = key[r] \in buckets]
    /\ UNCHANGED <<going, status, data, wire, key, buckets, tokens, up, logged, served, fills>>
    /\ UNCHANGED metrics

\* On the way in at a middleware of one of the kinds.
Enters(r, kinds) == Running(r) /\ going[r] = "in" /\ Inside(r) /\ Kind(r) \in kinds

\* On the way out there, returning or in a panic.
Leaves(r, kinds) == Running(r) /\ going[r] # "in" /\ Inside(r) /\ Kind(r) \in kinds

Inwards(r) == at' = [at EXCEPT ![r] = @ + 1] /\ UNCHANGED <<chain, going, status, data>>
Outwards(r) == at' = [at EXCEPT ![r] = @ - 1]

\* A middleware that only calls next on the way in.
Enter(r) ==
    /\ Enters(r, Kinds \ {"limiter", "opentelemetry"})
    /\ Inwards(r)
    /\ UNCHANGED <<wire, up, logged, served>> /\ UNCHANGED limiter /\ UNCHANGED metrics

\* opentelemetry: a span is started, and its End deferred.
StartSpan(r) ==
    /\ Enters(r, {"opentelemetry"})
    /\ spans' = [spans EXCEPT ![r] = @ + 1]
    /\ Inwards(r)
    /\ UNCHANGED <<wire, report, up, logged, served>> /\ UNCHANGED limiter

EndSpan(r) ==
    /\ Leaves(r, {"opentelemetry"})
    /\ spans' = [spans EXCEPT ![r] = @ - 1]
    /\ Outwards(r)
    /\ UNCHANGED <<chain, going, status, data, wire, report, up, logged, served>>
    /\ UNCHANGED limiter

\* limiter: TakeAvailable(1) took a token.
TakesToken(r) ==
    /\ Enters(r, {"limiter"}) /\ key[r] \in buckets /\ tokens[key[r]] > 0
    /\ tokens' = [tokens EXCEPT ![key[r]] = @ - 1]
    /\ Inwards(r)
    /\ UNCHANGED <<wire, key, buckets, up, logged, served, limited, fills>>
    /\ UNCHANGED metrics

\* limiter: the key has no bucket.
PassesLimiter(r) ==
    /\ Enters(r, {"limiter"}) /\ key[r] \notin buckets
    /\ Inwards(r)
    /\ UNCHANGED <<wire, up, logged, served>> /\ UNCHANGED limiter /\ UNCHANGED metrics

\* limiter: there was no token; the request is answered without next.
TurnsAway(r) ==
    /\ Enters(r, {"limiter"}) /\ key[r] \in buckets /\ tokens[key[r]] = 0
    /\ status' = [status EXCEPT ![r] = 429]
    /\ data' = [data EXCEPT ![r] = Busy]
    /\ going' = [going EXCEPT ![r] = "out"]
    /\ Outwards(r)
    /\ UNCHANGED <<chain, wire, up, logged, served>> /\ UNCHANGED limiter /\ UNCHANGED metrics

\* serve: no route, or the handler of one, which returns or panics.
Serve(r) ==
    /\ Running(r) /\ going[r] = "in" /\ at[r] = Len(chain[r]) + 1
    /\ \E o \in Outcomes :
        /\ status' = [status EXCEPT ![r] = o.status]
        /\ data' = [data EXCEPT ![r] = o.data]
        /\ going' = [going EXCEPT ![r] = IF o.panics THEN "panic" ELSE "out"]
    /\ served' = [served EXCEPT ![r] = TRUE]
    /\ Outwards(r)
    /\ UNCHANGED <<chain, wire, up, logged>> /\ UNCHANGED limiter /\ UNCHANGED metrics

\* Mutant: logFunc is called after next, not deferred.
LogUndeferred(r) ==
    /\ Leaves(r, {"accesslog"})
    /\ logged' = [logged EXCEPT ![r] = IF going[r] = "out" THEN @ + 1 ELSE @]
    /\ Outwards(r)
    /\ UNCHANGED <<chain, going, status, data, wire, up, served>>
    /\ UNCHANGED limiter /\ UNCHANGED metrics

\* accesslog's deferred function, whether its next returned or panicked.
Log(r) ==
    /\ Leaves(r, {"accesslog"})
    /\ logged' = [logged EXCEPT ![r] = @ + 1]
    /\ Outwards(r)
    /\ UNCHANGED <<chain, going, status, data, wire, up, served>>
    /\ UNCHANGED limiter /\ UNCHANGED metrics

\* Mutant: data that is there already is kept.
ShowPageIfEmpty(r) ==
    /\ Leaves(r, {"errhandle"}) /\ going[r] = "out"
    /\ data' = [data EXCEPT ![r] =
            IF status[r] \in DOMAIN Pages /\ @ = NoData THEN Pages[status[r]] ELSE @]
    /\ Outwards(r)
    /\ UNCHANGED <<chain, going, status, wire, up, logged, served>>
    /\ UNCHANGED limiter /\ UNCHANGED metrics

\* errhandle after its next returned: the page of the status code, if it has one.
ShowPage(r) ==
    /\ Leaves(r, {"errhandle"}) /\ going[r] = "out"
    /\ data' = [data EXCEPT ![r] = IF status[r] \in DOMAIN Pages THEN Pages[status[r]] ELSE @]
    /\ Outwards(r)
    /\ UNCHANGED <<chain, going, status, wire, up, logged, served>>
    /\ UNCHANGED limiter /\ UNCHANGED metrics

\* Mutant: the report is deferred, and started in a panic too.
StartReportDeferred(r) ==
    /\ Leaves(r, {"prometheus"})
    /\ report' = [report EXCEPT ![r] = Pending]
    /\ Outwards(r)
    /\ UNCHANGED <<chain, going, status, data, wire, spans, up, logged, served>>
    /\ UNCHANGED limiter

\* prometheus after its next returned: go report(...).
StartReport(r) ==
    /\ Leaves(r, {"prometheus"}) /\ going[r] = "out"
    /\ report' = [report EXCEPT ![r] = Pending]
    /\ Outwards(r)
    /\ UNCHANGED <<chain, going, status, data, wire, spans, up, logged, served>>
    /\ UNCHANGED limiter

\* The goroutine reads the status of the Context, while the request goes on or
\* after it was answered.
Report(r) ==
    /\ up /\ report[r] = Pending
    /\ report' = [report EXCEPT ![r] = [phase |-> "done", status |-> status[r]]]
    /\ UNCHANGED <<context, wire, spans, up, logged, served>> /\ UNCHANGED limiter

\* Mutant: the panic goes on.
RecoverLate(r) ==
    /\ Leaves(r, Recovers) /\ going[r] = "panic"
    /\ status' = [status EXCEPT ![r] = ErrStatus]
    /\ data' = [data EXCEPT ![r] = ErrMsg]
    /\ Outwards(r)
    /\ UNCHANGED <<chain, going, wire, up, logged, served>>
    /\ UNCHANGED limiter /\ UNCHANGED metrics

\* recover's deferred function; the panic goes on if its LogFunc panics.
Recover(r) ==
    /\ Leaves(r, Recovers) /\ going[r] = "panic"
    /\ status' = [status EXCEPT ![r] = ErrStatus]
    /\ data' = [data EXCEPT ![r] = ErrMsg]
    /\ going' = [going EXCEPT ![r] = IF Kind(r) = "recover" THEN "out" ELSE "panic"]
    /\ Outwards(r)
    /\ UNCHANGED <<chain, wire, up, logged, served>> /\ UNCHANGED limiter /\ UNCHANGED metrics

\* A middleware that has nothing to do on the way out.
Leave(r) ==
    /\ \/ Leaves(r, Recovers \union {"limiter"}) /\ going[r] = "out"
       \/ Leaves(r, {"errhandle", "limiter", "prometheus"}) /\ going[r] = "panic"
    /\ Outwards(r)
    /\ UNCHANGED <<chain, going, status, data, wire, up, logged, served>>
    /\ UNCHANGED limiter /\ UNCHANGED metrics

\* flashResp: the status, 200 if none was set, and the data.
Flash(r) ==
    /\ Running(r) /\ going[r] = "out" /\ at[r] = 0
    /\ ~(status[r] \in Bodyless /\ data[r] # NoData)
    /\ wire' = [wire EXCEPT ![r] =
            [status |-> IF status[r] > 0 THEN status[r] ELSE 200, data |-> data[r]]]
    /\ UNCHANGED <<context, up, logged, served>> /\ UNCHANGED limiter /\ UNCHANGED metrics

\* flashResp: the data is not allowed for the status, or the client is gone;
\* Write fails and log.Fatalln ends the process.
FlashFails(r) ==
    /\ Running(r) /\ going[r] = "out" /\ at[r] = 0
    /\ data[r] # NoData
    /\ up' = FALSE
    /\ UNCHANGED <<context, wire, logged, served>> /\ UNCHANGED limiter /\ UNCHANGED metrics

\* A panic left ServeHTTP: net/http closes the connection (external).
Abort(r) ==
    /\ Running(r) /\ going[r] = "panic" /\ at[r] = 0
    /\ wire' = [wire EXCEPT ![r] = HungUp]
    /\ UNCHANGED <<context, up, logged, served>> /\ UNCHANGED limiter /\ UNCHANGED metrics

\* Mutant: a rule for a key that has a bucket replaces it.
AddBucketsAnew(k) ==
    /\ up
    /\ buckets' = buckets \union {k}
    /\ tokens' = [tokens EXCEPT ![k] = Capacity]
    /\ UNCHANGED <<context, wire, key, up, logged, served, limited, fills>>
    /\ UNCHANGED metrics

\* AddBuckets with a rule for k: a full bucket if it has none.
AddBuckets(k) ==
    /\ up /\ k \notin buckets
    /\ buckets' = buckets \union {k}
    /\ tokens' = [tokens EXCEPT ![k] = Capacity]
    /\ UNCHANGED <<context, wire, key, up, logged, served, limited, fills>>
    /\ UNCHANGED metrics

\* It writes the map while a limiter reads it: the runtime may end the process.
AddBucketsRaces(k) ==
    /\ up /\ k \notin buckets
    /\ \E r \in Requests : Enters(r, {"limiter"})
    /\ up' = FALSE
    /\ UNCHANGED <<context, wire, logged, served>> /\ UNCHANGED limiter /\ UNCHANGED metrics

\* A bucket gets a token (external: juju/ratelimit).
Fill(k) ==
    /\ up /\ k \in buckets /\ tokens[k] < Capacity /\ fills[k] < MaxFills
    /\ tokens' = [tokens EXCEPT ![k] = @ + 1]
    /\ fills' = [fills EXCEPT ![k] = @ + 1]
    /\ UNCHANGED <<context, wire, key, buckets, up, logged, served, limited>>
    /\ UNCHANGED metrics

Step(r) ==
    \/ Enter(r) \/ StartSpan(r) \/ TakesToken(r) \/ PassesLimiter(r) \/ TurnsAway(r)
    \/ Serve(r) \/ Log(r) \/ EndSpan(r) \/ ShowPage(r) \/ StartReport(r) \/ Report(r)
    \/ Recover(r) \/ Leave(r) \/ Flash(r) \/ FlashFails(r) \/ Abort(r)

Next ==
    \/ \E r \in Requests, c \in Chains : ServeHTTP(r, c)
    \/ \E r \in Requests : Step(r)
    \/ \E k \in Keys : AddBuckets(k) \/ AddBucketsRaces(k) \/ Fill(k)

Spec == Init /\ [][Next]_vars

-----------------------------------------------------------------------------
TypeOK ==
    /\ chain \in [Requests -> Chains \union {NoChain}]
    /\ at \in [Requests -> Nat] /\ \A r \in Requests : at[r] <= Len(chain[r]) + 1
    /\ going \in [Requests -> {"in", "out", "panic"}]
    /\ status \in [Requests -> Nat]
    /\ report \in [Requests -> [phase : {"none", "pending", "done"}, status : Nat]]
    /\ spans \in [Requests -> Nat] /\ up \in BOOLEAN
    /\ key \in [Requests -> Keys] /\ buckets \subseteq Keys
    /\ tokens \in [Keys -> 0..Capacity] /\ fills \in [Keys -> 0..MaxFills]
    /\ logged \in [Requests -> Nat] /\ served \in [Requests -> BOOLEAN]
    /\ limited \in [Requests -> BOOLEAN]

Done(r) == wire[r] # NotYet
Answered(r) == wire[r] \notin {NotYet, HungUp}

\* The places of a kind of middleware in a request's chain.
Places(r, kinds) == {i \in DOMAIN chain[r] : chain[r][i] \in kinds}

\* Nothing outside place i changes the status or keeps the request from it.
Exposed(r, i) ==
    \A j \in 1..(i - 1) : chain[r][j] \notin Recovers \union {"limiter"}

\* Whatever the rest of the chain is, the client gets the page of the status code
\* it gets when an errhandle is outside all that set one: also the status of a
\* panic recovered, or of a request turned away, further in (errhandle.go:25-31).
PagesShown ==
    \A r \in Requests : Answered(r) =>
        \A i \in Places(r, {"errhandle"}) :
            (Exposed(r, i) /\ wire[r].status \in DOMAIN Pages /\ status[r] > 0)
                => wire[r].data = Pages[wire[r].status]

\* No panic closes the connection of a request with a recover whose LogFunc
\* returns, unless another recover's LogFunc panics outside of it
\* (recover.go:14-21).
PanicsContained ==
    \A r \in Requests :
        (\E i \in Places(r, {"recover"}) :
            \A j \in 1..(i - 1) : chain[r][j] # "recover, then panic")
        => wire[r] # HungUp

\* A finished request is in the access log once for each accesslog it got to,
\* whether it was answered, turned away or panicked (accesslog.go:36-47): all of
\* them if it was served, else those outside the limiter that turned it away.  And
\* it leaves no span open (trace.go:48-51).
LoggedOnce ==
    \A r \in Requests : Done(r) =>
        LET entries(n) == Cardinality({i \in Places(r, {"accesslog"}) : i <= n})
        IN /\ IF served[r] THEN logged[r] = entries(Len(chain[r]))
              ELSE \E l \in Places(r, {"limiter"}) : logged[r] = entries(l)
           /\ spans[r] = 0

\* However requests, AddBuckets and the filling interleave, no more of the
\* requests that came when their key had a bucket get through a limiter than the
\* bucket started with and was given (limiter.go:52-60, 65-73).
LimiterHolds ==
    \A k \in Keys :
        Cardinality({r \in Requests : /\ limited[r] /\ key[r] = k
                                      /\ served[r] /\ Places(r, {"limiter"}) # {}})
            <= Capacity + fills[k]

\* Whenever the goroutine gets to run, it reports the status that the client gets,
\* 0 for a 200 that nobody set, and reports no request that is not answered: what
\* panics through prometheus, whose status an outer recover still sets, does not
\* start one (prometheus.go:83-89, with recover.go:14-21).
ReportIsFinal ==
    \A r \in Requests : report[r].phase = "done" =>
        /\ report[r].status = status[r]
        /\ Done(r) => /\ wire[r] # HungUp
                      /\ wire[r].status = IF status[r] > 0 THEN status[r] ELSE 200

=============================================================================
