---------------------------- MODULE ServerProofs ----------------------------
(***************************************************************************)
(* Proofs about Server, for any requests, chains of middlewares, handlers, *)
(* keys and sizes of the buckets.                                          *)
(*                                                                         *)
(* Most steps only move a request one place along its chain; what else     *)
(* happens to its Context is said by Movements.  A panic inside a recover  *)
(* whose LogFunc returns, with no panicking recover outside of it, is      *)
(* still inside of it (Contained).  A report is only started when next     *)
(* returned, and from then on nothing of this request panics, so nothing   *)
(* sets its status again (Reported).  Every line of the access log is at   *)
(* a place already left (Counted), and a bucket's tokens, the requests it  *)
(* let through and its capacity add up (Limits).  What an errhandle shows  *)
(* on the way out stays shown if nothing outside of it sets a status       *)
(* (Paged).                                                                *)
(***************************************************************************)
EXTENDS Server, FiniteSetTheorems, TLAPS

\* The part of the state that Movements is about.
place == <<chain, at, going, status, wire, served>>

MovesIn(r) ==
    /\ chain[r] # NoChain /\ wire[r] = NotYet /\ going[r] = "in" /\ Inside(r)
    /\ at' = [at EXCEPT ![r] = @ + 1]
    /\ UNCHANGED <<chain, going, status, wire, served>>

\* Without being stopped by a recover.
MovesOut(r) ==
    /\ chain[r] # NoChain /\ wire[r] = NotYet /\ going[r] # "in" /\ Inside(r)
    /\ going[r] = "panic" => Kind(r) \notin Recovers
    /\ at' = [at EXCEPT ![r] = @ - 1]
    /\ UNCHANGED <<chain, going, status, wire, served>>

Movements ==
    \/ UNCHANGED place
    \/ \E r \in Requests :
        \/ \E c \in Chains : ServeHTTP(r, c)
        \/ MovesIn(r) \/ MovesOut(r)
        \/ TurnsAway(r) \/ Serve(r) \/ Recover(r) \/ Flash(r) \/ Abort(r)

\* Every step is one of them.
LEMMA StepsMove == [Next]_vars => Movements
  <1> SUFFICES ASSUME [Next]_vars PROVE Movements
    OBVIOUS
  <1>1. ASSUME NEW r \in Requests, Enter(r) \/ StartSpan(r) \/ TakesToken(r) \/ PassesLimiter(r)
        PROVE  MovesIn(r)
    BY <1>1
       DEF Enter, StartSpan, TakesToken, PassesLimiter, Enters, Running,
           Inwards, MovesIn
  <1>2. ASSUME NEW r \in Requests, EndSpan(r) \/ Log(r) \/ ShowPage(r) \/ StartReport(r) \/ Leave(r)
        PROVE  MovesOut(r)
    BY <1>2
       DEF EndSpan, Log, ShowPage, StartReport, Leave, Leaves, Running,
           Outwards, MovesOut, Recovers
  <1>3. ASSUME NEW r \in Requests, Report(r) \/ FlashFails(r) PROVE UNCHANGED place
    BY <1>3 DEF Report, FlashFails, context, place
  <1>4. ASSUME NEW k \in Keys, AddBuckets(k) \/ AddBucketsRaces(k) \/ Fill(k) PROVE UNCHANGED place
    BY <1>4 DEF AddBuckets, AddBucketsRaces, Fill, context, place
  <1>5. CASE UNCHANGED vars
    BY <1>5 DEF vars, place, Movements
  <1> QED BY <1>1, <1>2, <1>3, <1>4, <1>5 DEF Next, Step, Movements

\* Chains have a length, and NoChain is none of them.
LEMMA Lengths ==
    /\ NoChain \notin Chains
    /\ \A c \in Chains \union {NoChain} : Len(c) \in Nat /\ DOMAIN c = 1..Len(c)
  <1>1. NoChain \in Seq({"no request"}) /\ Len(NoChain) = 1 /\ NoChain[1] = "no request"
    BY DEF NoChain
  <1>2. ASSUME NEW s \in Seq(Kinds), Len(s) = 1 PROVE s[1] \in Kinds
    BY <1>2
  <1>3. "no request" \notin Kinds
    BY DEF Kinds, Recovers
  <1>4. NoChain \notin Chains
    BY <1>1, <1>2, <1>3, ChainsAssumption
  <1>5. ASSUME NEW S, NEW s \in Seq(S) PROVE Len(s) \in Nat /\ DOMAIN s = 1..Len(s)
    OBVIOUS
  <1> HIDE DEF NoChain
  <1> QED BY <1>1, <1>4, <1>5, ChainsAssumption

-----------------------------------------------------------------------------
\* Where a request is tells what has happened to it.
Placed ==
    /\ chain \in [Requests -> Chains \union {NoChain}]
    /\ at \in [Requests -> Nat]
    /\ going \in [Requests -> {"in", "out", "panic"}]
    /\ status \in [Requests -> Nat]
    /\ served \in [Requests -> BOOLEAN]
    /\ DOMAIN wire = Requests
    /\ \A r \in Requests :
        /\ at[r] <= Len(chain[r]) + 1
        /\ chain[r] = NoChain => at[r] = 0 /\ going[r] = "in"
        /\ chain[r] # NoChain /\ going[r] = "in" => at[r] > 0
        /\ going[r] # "in" => at[r] <= Len(chain[r]) /\ chain[r] # NoChain
        /\ served[r] => going[r] # "in"
        /\ wire[r] # NotYet => at[r] = 0 /\ going[r] # "in"

Closed ==
    \A r \in Requests :
        /\ wire[r] = HungUp => going[r] = "panic"
        /\ wire[r] \notin {NotYet, HungUp} =>
            /\ going[r] = "out"
            /\ wire[r].status = IF status[r] > 0 THEN status[r] ELSE 200

\* A recover that ends every panic it sees, and that nothing outside undoes.
Saves(r, i) ==
    /\ chain[r][i] = "recover"
    /\ \A j \in 1..(i - 1) : chain[r][j] # "recover, then panic"

Contained ==
    \A r \in Requests : \A i \in 1..Len(chain[r]) :
        (going[r] = "panic" /\ Saves(r, i)) => at[r] >= i

Reported ==
    /\ DOMAIN report = Requests
    /\ \A r \in Requests : report[r].phase # "none" =>
        /\ going[r] = "out"
        /\ report[r].phase = "done" => report[r].status = status[r]

\* A request that had a bucket and got past a limiter of its chain.
Through(r) ==
    /\ limited[r]
    /\ \E l \in Places(r, {"limiter"}) : served[r] \/ (going[r] = "in" /\ l < at[r])

Passed(k) == {r \in Requests : key[r] = k /\ Through(r)}

Limits ==
    /\ key \in [Requests -> Keys] /\ buckets \subseteq Keys
    /\ tokens \in [Keys -> Nat] /\ fills \in [Keys -> Nat]
    /\ limited \in [Requests -> BOOLEAN]
    /\ \A r \in Requests : limited[r] => key[r] \in buckets
    /\ \A k \in buckets : Cardinality(Passed(k)) + tokens[k] <= Capacity + fills[k]

\* The members of a set of places up to the n-th.
Upto(places, n) == Cardinality({i \in places : i <= n})

Where(c, kind) == {i \in DOMAIN c : c[i] = kind}

\* The lines written and the spans open for a request that is at place a of a
\* chain c.
Tally(c, a, way, isServed, lines, open) ==
    /\ c = NoChain => lines = 0 /\ open = 0
    /\ c # NoChain /\ way = "in" =>
        lines = 0 /\ open = Upto(Where(c, "opentelemetry"), a - 1)
    /\ way # "in" =>
        /\ open = Upto(Where(c, "opentelemetry"), a)
        /\ \E l \in 0..Len(c) :
            /\ IF isServed THEN l = Len(c) ELSE l \in Where(c, "limiter")
            /\ lines + Upto(Where(c, "accesslog"), a) = Upto(Where(c, "accesslog"), l)

Counted ==
    /\ logged \in [Requests -> Nat] /\ spans \in [Requests -> Nat]
    /\ \A r \in Requests :
        Tally(chain[r], at[r], going[r], served[r], logged[r], spans[r])

\* On its way out past an errhandle that is exposed, a request has the page of its
\* status; the client gets what is there at the end.
Paged ==
    /\ DOMAIN data = Requests
    /\ \A r \in Requests :
        /\ \A i \in 1..Len(chain[r]) :
            (/\ going[r] = "out" /\ at[r] < i
             /\ chain[r][i] = "errhandle" /\ Exposed(r, i)
             /\ status[r] \in DOMAIN Pages) => data[r] = Pages[status[r]]
        /\ wire[r] \notin {NotYet, HungUp} => wire[r].data = data[r]

Typed ==
    /\ report \in [Requests -> [phase : {"none", "pending", "done"}, status : Nat]]
    /\ up \in BOOLEAN
    /\ tokens \in [Keys -> 0..Capacity] /\ fills \in [Keys -> 0..MaxFills]

IInv == Placed /\ Closed /\ Contained /\ Reported /\ Limits /\ Counted /\ Paged /\ Typed

\* What a client has before its answer is not what it has after a hang-up.
LEMMA NotYetIsNoAnswer == NotYet # HungUp
  BY DEF NotYet, HungUp

\* The invariant holds before the first request.
THEOREM InitIInv == Init => IInv
  <1> SUFFICES ASSUME Init PROVE IInv
    OBVIOUS
  <1>1. Placed
    BY Lengths DEF Init, Placed
  <1>2. Closed
    BY NotYetIsNoAnswer DEF Init, Closed
  <1>3. Contained
    BY DEF Init, Contained
  <1>4. Reported
    BY DEF Init, Reported, NoReport
  <1>5. Limits
    <2>1. \A k \in Keys : Passed(k) = {}
      BY DEF Init, Passed, Through
    <2> QED BY <2>1, LimitAssumption DEF Init, Limits
  <1>6. Counted
    BY DEF Init, Counted, Tally
  <1>7. Paged
    BY NotYetIsNoAnswer DEF Init, Paged
  <1>8. Typed
    BY LimitAssumption DEF Init, Typed, NoReport
  <1> QED BY <1>1, <1>2, <1>3, <1>4, <1>5, <1>6, <1>7, <1>8 DEF IInv

\* A request is finished at the outer end of its chain, on the way out.
LEMMA PlacedStep == IInv /\ [Next]_vars => Placed'
  <1> SUFFICES ASSUME IInv, Movements PROVE Placed'
    BY StepsMove
  <1>1. CASE UNCHANGED place
    BY <1>1 DEF place, IInv, Placed
  <1>2. ASSUME NEW r \in Requests, NEW c \in Chains, ServeHTTP(r, c) PROVE Placed'
    BY <1>2, Lengths, OutcomesAssumption, AnswerAssumption DEF ServeHTTP, IInv, Placed
  <1>3. ASSUME NEW r \in Requests, MovesIn(r) PROVE Placed'
    BY <1>3, Lengths, OutcomesAssumption, AnswerAssumption
       DEF MovesIn, Inside, IInv, Placed
  <1>4. ASSUME NEW r \in Requests, MovesOut(r) PROVE Placed'
    BY <1>4, Lengths, OutcomesAssumption, AnswerAssumption
       DEF MovesOut, Inside, Kind, IInv, Placed
  <1>5. ASSUME NEW r \in Requests, TurnsAway(r) PROVE Placed'
    BY <1>5, Lengths, OutcomesAssumption, AnswerAssumption
       DEF TurnsAway, Enters, Outwards, Running, Inside, Kind, IInv, Placed
  <1>6. ASSUME NEW r \in Requests, Serve(r) PROVE Placed'
    BY <1>6, Lengths, OutcomesAssumption, AnswerAssumption
       DEF Serve, Outwards, Running, IInv, Placed
  <1>7. ASSUME NEW r \in Requests, Recover(r) PROVE Placed'
    BY <1>7, Lengths, OutcomesAssumption, AnswerAssumption
       DEF Recover, Leaves, Outwards, Running, Inside, Kind, IInv, Placed
  <1>8. ASSUME NEW r \in Requests, Flash(r) PROVE Placed'
    BY <1>8, Lengths, OutcomesAssumption, AnswerAssumption
       DEF Flash, Running, context, IInv, Placed
  <1>9. ASSUME NEW r \in Requests, Abort(r) PROVE Placed'
    BY <1>9, Lengths, OutcomesAssumption, AnswerAssumption
       DEF Abort, Running, context, IInv, Placed
  <1> QED BY <1>1, <1>2, <1>3, <1>4, <1>5, <1>6, <1>7, <1>8, <1>9 DEF Movements

\* What the client got is what the Context held.
LEMMA ClosedStep == IInv /\ [Next]_vars => Closed'
  <1> SUFFICES ASSUME IInv, Movements PROVE Closed'
    BY StepsMove
  <1>1. CASE UNCHANGED place
    BY <1>1 DEF place, IInv, Placed, Closed
  <1>2. ASSUME NEW r \in Requests, NEW c \in Chains, ServeHTTP(r, c) PROVE Closed'
    BY <1>2, Lengths, OutcomesAssumption, AnswerAssumption, NotYetIsNoAnswer
       DEF ServeHTTP, IInv, Placed, Closed
  <1>3. ASSUME NEW r \in Requests, MovesIn(r) PROVE Closed'
    BY <1>3, Lengths, OutcomesAssumption, AnswerAssumption, NotYetIsNoAnswer
       DEF MovesIn, Inside, IInv, Placed, Closed
  <1>4. ASSUME NEW r \in Requests, MovesOut(r) PROVE Closed'
    BY <1>4, Lengths, OutcomesAssumption, AnswerAssumption, NotYetIsNoAnswer
       DEF MovesOut, Inside, Kind, IInv, Placed, Closed
  <1>5. ASSUME NEW r \in Requests, TurnsAway(r) PROVE Closed'
    BY <1>5, Lengths, OutcomesAssumption, AnswerAssumption, NotYetIsNoAnswer
       DEF TurnsAway, Enters, Outwards, Running, Inside, Kind, IInv, Placed,
           Closed
  <1>6. ASSUME NEW r \in Requests, Serve(r) PROVE Closed'
    <2>1. wire' = wire /\ wire[r] = NotYet
      BY <1>6 DEF Serve, Running
    <2>2. \A q \in Requests \ {r} : going'[q] = going[q] /\ status'[q] = status[q]
      BY <1>6 DEF Serve, IInv, Placed
    <2> QED BY <2>1, <2>2, NotYetIsNoAnswer DEF IInv, Closed
  <1>7. ASSUME NEW r \in Requests, Recover(r) PROVE Closed'
    <2>1. wire' = wire /\ wire[r] = NotYet
      BY <1>7 DEF Recover, Leaves, Running
    <2>2. \A q \in Requests \ {r} : going'[q] = going[q] /\ status'[q] = status[q]
      BY <1>7 DEF Recover, IInv, Placed
    <2> QED BY <2>1, <2>2, NotYetIsNoAnswer DEF IInv, Closed
  <1>8. ASSUME NEW r \in Requests, Flash(r) PROVE Closed'
    <2> DEFINE answer == [status |-> IF status[r] > 0 THEN status[r] ELSE 200, data |-> data[r]]
    <2>1. answer # HungUp /\ answer.status = IF status[r] > 0 THEN status[r] ELSE 200
      <3>1. HungUp.status = 0
        BY DEF HungUp
      <3>2. answer.status = IF status[r] > 0 THEN status[r] ELSE 200
        OBVIOUS
      <3>3. answer.status > 0 /\ status[r] \in Nat
        BY <3>2 DEF IInv, Placed
      <3> HIDE DEF answer
      <3> QED BY <3>1, <3>2, <3>3
    <2>2. wire' = [wire EXCEPT ![r] = answer] /\ going[r] = "out"
          /\ going' = going /\ status' = status
      BY <1>8 DEF Flash, context
    <2> HIDE DEF answer
    <2> QED BY <2>1, <2>2 DEF IInv, Placed, Closed
  <1>9. ASSUME NEW r \in Requests, Abort(r) PROVE Closed'
    BY <1>9, Lengths, OutcomesAssumption, AnswerAssumption, NotYetIsNoAnswer
       DEF Abort, Running, context, IInv, Placed, Closed
  <1> QED BY <1>1, <1>2, <1>3, <1>4, <1>5, <1>6, <1>7, <1>8, <1>9 DEF Movements

\* A panic does not pass a recover.
LEMMA ContainedStep == IInv /\ [Next]_vars => Contained'
  <1> SUFFICES ASSUME IInv, Movements, NEW q \in Requests, NEW i \in 1..Len(chain'[q]),
                      going'[q] = "panic", Saves(q, i)'
               PROVE  at'[q] >= i
    BY StepsMove DEF Contained
  <1>1. ASSUME NEW r \in Requests, NEW c \in Chains, ServeHTTP(r, c) PROVE at'[q] >= i
    <2>1. going' = going /\ q # r
      BY <1>1 DEF ServeHTTP, IInv, Placed
    <2>2. at'[q] = at[q] /\ chain'[q] = chain[q]
      BY <1>1, <2>1 DEF ServeHTTP, IInv, Placed
    <2> QED BY <2>1, <2>2 DEF IInv, Contained, Saves
  <1>2. CASE chain' = chain
    <2>1. chain[q][i] = "recover" /\ i \in 1..Len(chain[q]) /\ Saves(q, i) /\ Len(chain[q]) \in Nat
      BY <1>2, Lengths DEF Saves, IInv, Placed
    <2>2. going[q] = "panic" => at[q] >= i
      BY <2>1 DEF IInv, Contained
    <2>3. CASE at'[q] = at[q] /\ going'[q] = going[q]
      BY <2>2, <2>3
    <2>4. ASSUME NEW r \in Requests, MovesIn(r) PROVE at'[q] >= i
      BY <2>2, <2>4 DEF MovesIn, IInv, Placed
    <2>5. ASSUME NEW r \in Requests, MovesOut(r) PROVE at'[q] >= i
      <3>1. CASE q = r
        <4>1. at[q] # i
          BY <2>1, <2>5, <3>1 DEF MovesOut, Kind, Recovers
        <4> QED BY <2>1, <2>2, <2>5, <3>1, <4>1 DEF MovesOut, IInv, Placed
      <3>2. CASE q # r
        BY <2>2, <2>5, <3>2 DEF MovesOut, IInv, Placed
      <3> QED BY <3>1, <3>2
    <2>6. ASSUME NEW r \in Requests, TurnsAway(r) PROVE at'[q] >= i
      BY <2>2, <2>6 DEF TurnsAway, Outwards, IInv, Placed
    <2>7. ASSUME NEW r \in Requests, Serve(r) PROVE at'[q] >= i
      <3>1. CASE q = r
        BY <2>1, <2>7, <3>1 DEF Serve, Outwards, IInv, Placed
      <3>2. CASE q # r
        BY <2>2, <2>7, <3>2 DEF Serve, Outwards, IInv, Placed
      <3> QED BY <3>1, <3>2
    <2>8. ASSUME NEW r \in Requests, Recover(r) PROVE at'[q] >= i
      <3>1. CASE q = r
        <4>1. Kind(r) # "recover" /\ at[r] # i
          BY <2>1, <2>8, <3>1 DEF Recover, Kind, IInv, Placed
        <4> QED BY <2>1, <2>2, <2>8, <3>1, <4>1
           DEF Recover, Outwards, Leaves, IInv, Placed
      <3>2. CASE q # r
        BY <2>2, <2>8, <3>2 DEF Recover, Outwards, IInv, Placed
      <3> QED BY <3>1, <3>2
    <2> QED BY <1>1, <2>3, <2>4, <2>5, <2>6, <2>7, <2>8
       DEF Movements, place, Flash, Abort, context
  <1>3. chain' = chain \/ \E r \in Requests, c \in Chains : ServeHTTP(r, c)
    BY
       DEF Movements, place, MovesIn, MovesOut, TurnsAway, Serve, Recover,
           Flash, Abort, context
  <1> QED BY <1>1, <1>2, <1>3

\* Once a report is started, the status does not change.
LEMMA ReportedStep == IInv /\ [Next]_vars => Reported'
  <1> SUFFICES ASSUME IInv, [Next]_vars PROVE Reported'
    OBVIOUS
  <1>1. ASSUME NEW r \in Requests, StartReport(r) PROVE Reported'
    BY <1>1 DEF StartReport, Leaves, Pending, IInv, Placed, Reported
  <1>2. ASSUME NEW r \in Requests, Report(r) PROVE Reported'
    BY <1>2 DEF Report, context, Pending, IInv, Placed, Reported
  <1>3. ASSUME report' = report, Movements PROVE Reported'
    <2>1. ASSUME NEW q \in Requests, report[q].phase # "none"
          PROVE  going'[q] = going[q] /\ status'[q] = status[q]
      <3>1. going[q] = "out"
        BY <2>1 DEF IInv, Reported
      <3> QED BY <1>3, <3>1

                 DEF Movements, place, ServeHTTP, MovesIn, MovesOut,
                     TurnsAway, Enters, Serve, Recover,
                  Flash, Abort, context, IInv, Placed
    <2> QED BY <1>3, <2>1 DEF IInv, Reported
  <1>4. report' = report \/ \E r \in Requests : StartReport(r) \/ Report(r)
    BY
       DEF Next, Step, vars, ServeHTTP, metrics, Enter, StartSpan, EndSpan,
           TakesToken, PassesLimiter,
           TurnsAway, Serve, Log, ShowPage, Recover, Leave, Flash, FlashFails, Abort, AddBuckets,
           AddBucketsRaces, Fill
  <1> QED BY <1>1, <1>2, <1>3, <1>4, StepsMove

\* Only who takes a token gets past a limiter with a bucket.
LEMMA TakersPass ==
  ASSUME IInv, [Next]_vars, NEW r \in Requests, Through(r)'
  PROVE  Through(r) \/ TakesToken(r)
  <1> DEFINE same == /\ chain' = chain /\ at' = at /\ going' = going
                     /\ served' = served /\ limited' = limited
  <1>1. ASSUME NEW q \in Requests, NEW c \in Chains, ServeHTTP(q, c) PROVE Through(r)
    <2>1. CASE q = r
      <3>1. at'[r] = 1 /\ going[r] = "in" /\ ~served[r]
        BY <1>1, <2>1 DEF ServeHTTP, IInv, Placed
      <3>2. chain'[r] \in Chains
        BY <1>1, <2>1 DEF ServeHTTP, IInv, Placed
      <3>3. \A l \in DOMAIN chain'[r] : ~(l < 1)
        BY <3>2, Lengths
      <3> QED BY <1>1, <3>1, <3>3 DEF ServeHTTP, Through, Places
    <2>2. CASE q # r
      BY <1>1, <2>2 DEF ServeHTTP, Through, Places, IInv, Placed, Limits
    <2> QED BY <2>1, <2>2
  <1>2. ASSUME NEW q \in Requests, MovesIn(q), Kind(q) # "limiter",
               UNCHANGED limited
        PROVE  Through(r)
    BY <1>2 DEF MovesIn, Inside, Kind, Through, Places, IInv, Placed
  <1>3. ASSUME NEW q \in Requests, PassesLimiter(q) PROVE Through(r)
    BY <1>3 DEF PassesLimiter, Inwards, limiter, Through, Places, IInv, Placed, Limits
  <1>4. ASSUME NEW q \in Requests, TakesToken(q) PROVE Through(r) \/ TakesToken(r)
    BY <1>4 DEF TakesToken, Inwards, Through, Places, IInv, Placed
  <1>5. ASSUME NEW q \in Requests, TurnsAway(q) PROVE Through(r)
    BY <1>5 DEF TurnsAway, Outwards, limiter, Through, Places, IInv, Placed
  <1>6. ASSUME NEW q \in Requests, Serve(q) PROVE Through(r)
    BY <1>6, Lengths DEF Serve, Running, Outwards, limiter, Through, Places, IInv, Placed
  <1>7. ASSUME NEW q \in Requests, going[q] # "in", at' = [at EXCEPT ![q] = @ - 1],
               chain' = chain, served' = served, limited' = limited,
               going' = going \/ Recover(q)
        PROVE  Through(r)
    BY <1>7 DEF Recover, Through, Places, IInv, Placed
  <1>8. CASE same
    BY <1>8 DEF Through, Places
  <1>9. ASSUME NEW q \in Requests, Enter(q) \/ StartSpan(q) PROVE Through(r)
    BY <1>2, <1>9
       DEF Enter, StartSpan, Enters, Running, Inwards, limiter, MovesIn
  <1>10. ASSUME NEW q \in Requests,
                EndSpan(q) \/ Log(q) \/ ShowPage(q) \/ StartReport(q) \/ Recover(q) \/ Leave(q)
         PROVE  Through(r)
    BY <1>7, <1>10
       DEF EndSpan, Log, ShowPage, StartReport, Recover, Leave, Leaves, Outwards, limiter
  <1>11. ASSUME NEW q \in Requests, Report(q) \/ Flash(q) \/ FlashFails(q) \/ Abort(q)
         PROVE  same
    BY <1>11 DEF Report, Flash, FlashFails, Abort, context, limiter
  <1>12. ASSUME NEW k \in Keys, AddBuckets(k) \/ AddBucketsRaces(k) \/ Fill(k) PROVE same
    BY <1>12 DEF AddBuckets, AddBucketsRaces, Fill, context, limiter
  <1>13. CASE UNCHANGED vars
    BY <1>8, <1>13 DEF vars
  <1> HIDE DEF same
  <1> QED BY <1>1, <1>3, <1>4, <1>5, <1>6, <1>8, <1>9, <1>10, <1>11, <1>12, <1>13 DEF Next, Step

\* The bucket pays for every request that gets past a limiter.
LEMMA LimitsStep == IInv /\ [Next]_vars => Limits'
  <1> SUFFICES ASSUME IInv, [Next]_vars PROVE Limits'
    OBVIOUS
  <1> DEFINE same == UNCHANGED <<key, buckets, tokens, fills>>
  <1>1. key' = key
    BY DEF Next, Step, vars, ServeHTTP, Enter, StartSpan, EndSpan, TakesToken, PassesLimiter,
           TurnsAway, Serve, Log, ShowPage, StartReport, Report, Recover, Leave, Flash,
           FlashFails, Abort, AddBuckets, AddBucketsRaces, Fill, limiter
  <1>2. \/ UNCHANGED limiter
        \/ \E r \in Requests, c \in Chains : ServeHTTP(r, c)
        \/ \E r \in Requests : TakesToken(r)
        \/ \E k \in Keys : AddBuckets(k) \/ Fill(k)
    BY DEF Next, Step, vars, limiter, Enter, StartSpan, EndSpan, PassesLimiter,
           TurnsAway, Serve, Log, ShowPage, StartReport, Report, Recover, Leave, Flash,
           FlashFails, Abort, AddBucketsRaces
  <1>3. ASSUME NEW k \in Keys PROVE IsFiniteSet(Passed(k))
    <2>1. Passed(k) \in SUBSET Requests
      BY DEF Passed
    <2> QED BY <2>1, FS_Subset, RequestsAssumption
  <1>4. ASSUME NEW k \in Keys, \A r \in Requests : key[r] = k => ~TakesToken(r)
        PROVE  Cardinality(Passed(k)') <= Cardinality(Passed(k))
    <2>1. Passed(k)' \in SUBSET Passed(k)
      BY <1>1, <1>4, TakersPass DEF Passed
    <2> QED BY <2>1, <1>3, FS_Subset
  <1>5. \A k \in Keys : Cardinality(Passed(k)) \in Nat
    BY <1>3, FS_CardinalityType
  <1>6. \A k \in Keys : IsFiniteSet(Passed(k)') /\ Cardinality(Passed(k)') \in Nat
    <2>1. \A k \in Keys : Passed(k)' \in SUBSET Requests
      BY DEF Passed
    <2> QED BY <2>1, FS_Subset, FS_CardinalityType, RequestsAssumption
  <1>7. CASE UNCHANGED limiter \/ \E r \in Requests, c \in Chains : ServeHTTP(r, c)
    <2>1. same /\ limited' \in [Requests -> BOOLEAN]
          /\ \A r \in Requests : limited'[r] => key[r] \in buckets
      <3>1. CASE UNCHANGED limiter
        BY <3>1 DEF limiter, IInv, Limits
      <3>2. ASSUME NEW r \in Requests, NEW c \in Chains, ServeHTTP(r, c)
            PROVE  /\ same /\ limited' \in [Requests -> BOOLEAN]
                   /\ \A q \in Requests : limited'[q] => key[q] \in buckets
        BY <3>2 DEF ServeHTTP, IInv, Limits
      <3> QED BY <1>7, <3>1, <3>2
    <2>2. \A r \in Requests : ~TakesToken(r)
      BY <1>7 DEF limiter, ServeHTTP, TakesToken, IInv, Limits, Placed
    <2>3. \A k \in Keys : Cardinality(Passed(k)') <= Cardinality(Passed(k))
      BY <1>4, <2>2
    <2> QED BY <2>1, <2>3, <1>5, <1>6, LimitAssumption DEF IInv, Limits
  <1>8. ASSUME NEW q \in Requests, TakesToken(q) PROVE Limits'
    <2> DEFINE k == key[q]
    <2>1. k \in Keys /\ k \in buckets /\ tokens[k] > 0
          /\ UNCHANGED <<key, buckets, limited, fills>>
          /\ tokens' = [tokens EXCEPT ![k] = @ - 1]
      BY <1>8 DEF TakesToken, IInv, Limits
    <2>2. \A r \in Requests : TakesToken(r) => r = q
      BY <1>8 DEF TakesToken, Inwards, IInv, Placed
    <2>3. \A j \in Keys : Cardinality(Passed(j)') <= Cardinality(Passed(j)) + 1
      <3> SUFFICES ASSUME NEW j \in Keys
                   PROVE  Cardinality(Passed(j)') <= Cardinality(Passed(j)) + 1
        OBVIOUS
      <3>1. Passed(j)' \in SUBSET (Passed(j) \union {q})
        BY <1>1, <2>2, TakersPass DEF Passed
      <3>2. IsFiniteSet(Passed(j)) /\ Cardinality(Passed(j)) \in Nat
        BY <1>3, <1>5
      <3>3. IsFiniteSet(Passed(j) \union {q})
            /\ Cardinality(Passed(j) \union {q})
                 = IF q \in Passed(j) THEN Cardinality(Passed(j)) ELSE Cardinality(Passed(j)) + 1
        BY <3>2, FS_AddElement
      <3>4. Cardinality(Passed(j)') <= Cardinality(Passed(j) \union {q})
        BY <3>1, <3>3, FS_Subset
      <3>5. Cardinality(Passed(j) \union {q}) <= Cardinality(Passed(j)) + 1
        BY <3>2, <3>3
      <3> QED BY <3>2, <3>3, <3>4, <3>5, <1>6
    <2>4. \A j \in Keys \ {k} : Cardinality(Passed(j)') <= Cardinality(Passed(j))
      BY <1>4, <2>2
    <2>5. \A j \in buckets : Cardinality(Passed(j)') + tokens'[j] <= Capacity + fills[j]
      <3> SUFFICES ASSUME NEW j \in buckets
                   PROVE  Cardinality(Passed(j)') + tokens'[j] <= Capacity + fills[j]
        OBVIOUS
      <3>1. Cardinality(Passed(j)) + tokens[j] <= Capacity + fills[j]
            /\ j \in Keys /\ tokens[j] \in Nat /\ fills[j] \in Nat
        BY DEF IInv, Limits
      <3>2. CASE j = k
        <4>1. tokens'[j] = tokens[j] - 1
          BY <2>1, <3>2 DEF IInv, Limits
        <4> HIDE DEF k
        <4> QED BY <2>3, <3>1, <3>2, <4>1, <1>5, <1>6, LimitAssumption
      <3>3. CASE j # k
        <4>1. tokens'[j] = tokens[j]
          BY <2>1, <3>1, <3>3 DEF IInv, Limits
        <4> HIDE DEF k
        <4> QED BY <2>4, <3>1, <3>3, <4>1, <1>5, <1>6, LimitAssumption
      <3> QED BY <3>2, <3>3
    <2> QED BY <2>1, <2>5 DEF IInv, Limits
  <1>9. ASSUME NEW k \in Keys, AddBuckets(k) PROVE Limits'
    <2>1. k \notin buckets /\ buckets' = buckets \union {k}
          /\ tokens' = [tokens EXCEPT ![k] = Capacity] /\ UNCHANGED <<limited, fills>>
      BY <1>9 DEF AddBuckets
    <2>2. \A r \in Requests : ~TakesToken(r)
      BY <1>9 DEF AddBuckets, context, TakesToken, Inwards, IInv, Placed
    <2>3. \A j \in Keys : Cardinality(Passed(j)') <= Cardinality(Passed(j))
      BY <1>4, <2>2
    <2>4. Cardinality(Passed(k)) = 0
      <3>1. Passed(k) = {}
        BY <2>1 DEF Passed, Through, IInv, Limits
      <3> QED BY <3>1, FS_EmptySet
    <2> QED BY <2>1, <2>3, <2>4, <1>1, <1>5, <1>6, LimitAssumption DEF IInv, Limits
  <1>10. ASSUME NEW k \in Keys, Fill(k) PROVE Limits'
    <2>1. UNCHANGED <<buckets, limited>>
          /\ tokens' = [tokens EXCEPT ![k] = @ + 1] /\ fills' = [fills EXCEPT ![k] = @ + 1]
      BY <1>10 DEF Fill
    <2>2. \A r \in Requests : ~TakesToken(r)
      BY <1>10 DEF Fill, context, TakesToken, Inwards, IInv, Placed
    <2>3. \A j \in Keys : Cardinality(Passed(j)') <= Cardinality(Passed(j))
      BY <1>4, <2>2
    <2> QED BY <2>1, <2>3, <1>1, <1>5, <1>6, LimitAssumption DEF IInv, Limits
  <1> QED BY <1>2, <1>7, <1>8, <1>9, <1>10

\* Counting place by place.
LEMMA UptoFacts ==
  ASSUME NEW S, \A i \in S : i \in Nat \ {0}, NEW n \in Nat \ {0}
  PROVE  /\ Upto(S, 0) = 0
         /\ Upto(S, n - 1) \in Nat
         /\ Upto(S, n) = IF n \in S THEN Upto(S, n - 1) + 1 ELSE Upto(S, n - 1)
  <1> DEFINE below(k) == {i \in S : i <= k}
  <1>1. below(0) = {}
    <2> SUFFICES ASSUME NEW i \in below(0) PROVE FALSE
      BY Zenon
    <2> QED OBVIOUS
  <1>2. below(n - 1) \in SUBSET (1..(n - 1))
    <2> SUFFICES ASSUME NEW i \in below(n - 1) PROVE i \in 1..(n - 1)
      BY Zenon
    <2> QED OBVIOUS
  <1>3. IsFiniteSet(1..(n - 1))
    BY FS_Interval
  <1>4. IsFiniteSet(below(n - 1))
    BY <1>2, <1>3, FS_Subset
  <1>5. \A i \in S : i <= n <=> i <= n - 1 \/ i = n
    OBVIOUS
  <1>6. n \notin below(n - 1)
    OBVIOUS
  <1>7. n <= n
    OBVIOUS
  <1>8. Cardinality(below(n - 1)) \in Nat
    BY <1>4, FS_CardinalityType
  <1>9. Cardinality(below(0)) = 0
    BY <1>1, FS_EmptySet
  <1>10. CASE n \in S
    <2>1. below(n) = below(n - 1) \union {n}
      BY <1>5, <1>10, Zenon
    <2> HIDE DEF below
    <2>2. Cardinality(below(n)) = Cardinality(below(n - 1)) + 1
      BY <1>4, <1>6, <2>1, FS_AddElement
    <2> USE DEF below
    <2> QED BY <1>8, <1>9, <1>10, <2>2 DEF Upto
  <1>11. CASE n \notin S
    <2>1. below(n) = below(n - 1)
      BY <1>5, <1>11, Zenon
    <2> QED BY <1>8, <1>9, <1>11, <2>1 DEF Upto
  <1> QED BY <1>10, <1>11

\* One place further in or out.
LEMMA UptoNext ==
  ASSUME NEW c \in Chains, NEW kind, NEW a \in 1..Len(c)
  PROVE  /\ Upto(Where(c, kind), a - 1) \in Nat
         /\ Upto(Where(c, kind), a)
              = IF c[a] = kind THEN Upto(Where(c, kind), a - 1) + 1 ELSE Upto(Where(c, kind), a - 1)
  <1>1. Len(c) \in Nat /\ DOMAIN c = 1..Len(c)
    BY Lengths
  <1>2. \A i \in Where(c, kind) : i \in Nat \ {0}
    BY <1>1 DEF Where
  <1>3. a \in Where(c, kind) <=> c[a] = kind
    BY <1>1 DEF Where
  <1>4. a \in Nat \ {0}
    BY <1>1
  <1> QED BY <1>2, <1>3, <1>4, UptoFacts

\* The places before the first are none.
LEMMA UptoFirst ==
  ASSUME NEW c \in Chains, NEW kind
  PROVE  Upto(Where(c, kind), 0) = 0
  <1>1. \A i \in Where(c, kind) : i \in Nat \ {0}
    BY Lengths DEF Where
  <1>2. 1 \in Nat \ {0}
    OBVIOUS
  <1> QED BY <1>1, <1>2, UptoFacts

\* Each place of an accesslog passed on the way out is a line, each of an
\* opentelemetry is a span started on the way in and ended on the way out.
LEMMA CountedStep == IInv /\ [Next]_vars => Counted'
  <1> SUFFICES ASSUME IInv, [Next]_vars PROVE Counted'
    OBVIOUS
  <1> DEFINE T(r) == Tally(chain[r], at[r], going[r], served[r], logged[r], spans[r])
             same == UNCHANGED <<chain, at, going, served, logged, spans>>
  <1>1. \A r \in Requests : T(r)
    BY DEF IInv, Counted
  <1>2. Placed /\ logged \in [Requests -> Nat] /\ spans \in [Requests -> Nat]
    BY DEF IInv, Counted
  <1>3. CASE same
    BY <1>1, <1>2, <1>3 DEF Counted
  <1>4. ASSUME NEW r \in Requests, NEW c \in Chains, ServeHTTP(r, c) PROVE Counted'
    <2>1. UNCHANGED <<going, served, logged, spans>>
          /\ chain' = [chain EXCEPT ![r] = c] /\ at' = [at EXCEPT ![r] = 1]
          /\ chain[r] = NoChain /\ going[r] = "in"
      BY <1>2, <1>4 DEF ServeHTTP, metrics, Placed
    <2>2. logged[r] = 0 /\ spans[r] = 0
      BY <1>1, <2>1 DEF Tally
    <2>3. Tally(c, 1, "in", served[r], 0, 0)
      BY Lengths, UptoFirst DEF Tally
    <2> QED BY <1>1, <1>2, <2>1, <2>2, <2>3 DEF Placed, Counted
  <1>5. ASSUME NEW r \in Requests, NEW n \in {0, 1}, Enters(r, Kinds), Inwards(r),
               UNCHANGED <<logged, served>>, spans' = [spans EXCEPT ![r] = @ + n],
               n = IF Kind(r) = "opentelemetry" THEN 1 ELSE 0
        PROVE  Counted'
    <2>1. chain[r] \in Chains /\ chain[r] # NoChain /\ going[r] = "in"
          /\ at[r] \in 1..Len(chain[r]) /\ Len(chain[r]) \in Nat
      BY <1>2, <1>5, Lengths DEF Enters, Running, Inside, Placed
    <2>2. logged[r] = 0 /\ spans[r] = Upto(Where(chain[r], "opentelemetry"), at[r] - 1)
      BY <1>1, <2>1 DEF Tally
    <2>3. spans[r] + n = Upto(Where(chain[r], "opentelemetry"), (at[r] + 1) - 1)
      BY <1>5, <2>1, <2>2, UptoNext DEF Kind
    <2>4. Tally(chain[r], at[r] + 1, "in", served[r], 0, spans[r] + n)
      BY <2>1, <2>3 DEF Tally
    <2> QED BY <1>1, <1>2, <1>5, <2>1, <2>2, <2>4 DEF Inwards, Placed, Counted
  <1>6. ASSUME NEW r \in Requests, TurnsAway(r) PROVE Counted'
    <2>1. chain[r] \in Chains /\ chain[r] # NoChain /\ going[r] = "in" /\ ~served[r]
          /\ at[r] \in 1..Len(chain[r]) /\ Len(chain[r]) \in Nat
          /\ DOMAIN chain[r] = 1..Len(chain[r]) /\ chain[r][at[r]] = "limiter"
      BY <1>2, <1>6, Lengths DEF TurnsAway, Enters, Running, Inside, Kind, Placed
    <2>2. logged[r] = 0 /\ spans[r] = Upto(Where(chain[r], "opentelemetry"), at[r] - 1)
      BY <1>1, <2>1 DEF Tally
    <2>3. at[r] \in 0..Len(chain[r]) /\ at[r] \in Where(chain[r], "limiter")
      BY <2>1 DEF Where
    <2>4. 0 + Upto(Where(chain[r], "accesslog"), at[r] - 1)
            = Upto(Where(chain[r], "accesslog"), at[r])
      BY <2>1, UptoNext
    <2>5. Tally(chain[r], at[r] - 1, "out", FALSE, 0, spans[r])
      BY <2>1, <2>2, <2>3, <2>4 DEF Tally
    <2>6. UNCHANGED <<chain, served, logged, spans>> /\ at' = [at EXCEPT ![r] = @ - 1]
          /\ going' = [going EXCEPT ![r] = "out"]
      BY <1>6 DEF TurnsAway, Outwards, metrics
    <2>7. T(r)'
      BY <1>2, <2>1, <2>2, <2>5, <2>6 DEF Placed
    <2>8. ASSUME NEW q \in Requests \ {r} PROVE T(q)'
      BY <1>1, <1>2, <2>6, <2>8 DEF Placed
    <2> HIDE DEF T
    <2>9. \A q \in Requests : T(q)'
      BY <2>7, <2>8
    <2> USE DEF T
    <2> QED BY <1>2, <2>6, <2>9 DEF Counted
  <1>7. ASSUME NEW r \in Requests, Serve(r) PROVE Counted'
    <2> DEFINE n == Len(chain[r])
    <2>1. chain[r] \in Chains /\ chain[r] # NoChain /\ going[r] = "in"
          /\ at[r] = n + 1 /\ n \in Nat
      BY <1>2, <1>7, Lengths DEF Serve, Running, Placed
    <2>2. logged[r] = 0 /\ spans[r] = Upto(Where(chain[r], "opentelemetry"), n)
      <3>1. at[r] - 1 = n
        BY <2>1
      <3> QED BY <1>1, <2>1, <3>1 DEF Tally
    <2>3. Upto(Where(chain[r], "accesslog"), n) \in Nat
      <3>1. CASE n = 0
        BY <2>1, <3>1, UptoFirst
      <3>2. CASE n # 0
        <4>1. n \in 1..Len(chain[r])
          BY <2>1, <3>2
        <4> QED BY <2>1, <4>1, UptoNext
      <3> QED BY <3>1, <3>2
    <2>4. ASSUME NEW way \in {"out", "panic"}
          PROVE  Tally(chain[r], n, way, TRUE, 0, spans[r])
      BY <2>1, <2>2, <2>3 DEF Tally
    <2>5. UNCHANGED <<chain, logged, spans>> /\ at' = [at EXCEPT ![r] = @ - 1]
          /\ served' = [served EXCEPT ![r] = TRUE]
          /\ \E way \in {"out", "panic"} : going' = [going EXCEPT ![r] = way]
      BY <1>7, OutcomesAssumption DEF Serve, Outwards, metrics
    <2>6. at[r] - 1 = n
      BY <2>1
    <2>7. T(r)'
      BY <1>2, <2>1, <2>2, <2>4, <2>5, <2>6 DEF Placed
    <2>8. ASSUME NEW q \in Requests \ {r} PROVE T(q)'
      BY <1>1, <1>2, <2>5, <2>8 DEF Placed
    <2> HIDE DEF T
    <2>9. \A q \in Requests : T(q)'
      BY <2>7, <2>8
    <2> USE DEF T
    <2> QED BY <1>2, <2>5, <2>9 DEF Counted
  <1>8. ASSUME NEW r \in Requests, Leaves(r, Kinds), Outwards(r), NEW way \in {"out", "panic"},
               going' = [going EXCEPT ![r] = way], UNCHANGED <<chain, served>>,
               NEW n \in {0, 1}, n = IF Kind(r) = "opentelemetry" THEN 1 ELSE 0,
               spans' = [spans EXCEPT ![r] = @ - n],
               NEW m \in {0, 1}, m = IF Kind(r) = "accesslog" THEN 1 ELSE 0,
               logged' = [logged EXCEPT ![r] = @ + m]
        PROVE  Counted'
    <2>1. chain[r] \in Chains /\ chain[r] # NoChain /\ going[r] # "in"
          /\ at[r] \in 1..Len(chain[r])
      BY <1>2, <1>8, Lengths DEF Leaves, Running, Inside, Placed
    <2>2. spans[r] = Upto(Where(chain[r], "opentelemetry"), at[r])
      BY <1>1, <2>1 DEF Tally
    <2>3. spans[r] - n = Upto(Where(chain[r], "opentelemetry"), at[r] - 1) /\ spans[r] - n \in Nat
      BY <1>8, <2>1, <2>2, UptoNext DEF Kind
    <2>4. PICK l \in 0..Len(chain[r]) :
            /\ IF served[r] THEN l = Len(chain[r]) ELSE l \in Where(chain[r], "limiter")
            /\ logged[r] + Upto(Where(chain[r], "accesslog"), at[r])
                    = Upto(Where(chain[r], "accesslog"), l)
      BY <1>1, <2>1 DEF Tally
    <2>5. (logged[r] + m) + Upto(Where(chain[r], "accesslog"), at[r] - 1)
            = Upto(Where(chain[r], "accesslog"), l)
      <3>1. m = IF chain[r][at[r]] = "accesslog" THEN 1 ELSE 0
        BY <1>8 DEF Kind
      <3>2. Upto(Where(chain[r], "accesslog"), at[r] - 1) \in Nat
            /\ Upto(Where(chain[r], "accesslog"), at[r])
                 = Upto(Where(chain[r], "accesslog"), at[r] - 1) + m
        BY <3>1, <2>1, UptoNext
      <3>3. logged[r] \in Nat /\ m \in Nat
        BY <1>2, <1>8
      <3> QED BY <2>4, <3>2, <3>3
    <2>6. Tally(chain[r], at[r] - 1, way, served[r], logged[r] + m, spans[r] - n)
      BY <2>1, <2>3, <2>4, <2>5 DEF Tally
    <2>7. T(r)'
      BY <1>2, <1>8, <2>6 DEF Outwards, Placed
    <2>8. ASSUME NEW q \in Requests \ {r} PROVE T(q)'
      BY <1>1, <1>2, <1>8, <2>8 DEF Outwards, Placed
    <2>9. logged' \in [Requests -> Nat] /\ spans' \in [Requests -> Nat]
      BY <1>2, <1>8, <2>3
    <2> HIDE DEF T
    <2>10. \A q \in Requests : T(q)'
      BY <2>7, <2>8
    <2> USE DEF T
    <2> QED BY <2>9, <2>10 DEF Counted
  <1>9. ASSUME NEW r \in Requests,
               Enter(r) \/ StartSpan(r) \/ TakesToken(r) \/ PassesLimiter(r)
        PROVE  Counted'
    <2>1. \E n \in {0, 1} :
            /\ Enters(r, Kinds) /\ Inwards(r) /\ UNCHANGED <<logged, served>>
            /\ spans' = [spans EXCEPT ![r] = @ + n]
            /\ n = IF Kind(r) = "opentelemetry" THEN 1 ELSE 0
      BY <1>2, <1>9
         DEF Enter, StartSpan, TakesToken, PassesLimiter, Enters, metrics, Kinds
    <2> QED BY <2>1, <1>5
  <1>10. ASSUME NEW r \in Requests,
                EndSpan(r) \/ Log(r) \/ ShowPage(r) \/ StartReport(r) \/ Recover(r) \/ Leave(r)
         PROVE  Counted'
    <2>1. /\ Leaves(r, Kinds) /\ Outwards(r) /\ UNCHANGED <<chain, served>>
          /\ \E way \in {"out", "panic"} : going' = [going EXCEPT ![r] = way]
      BY <1>2, <1>10
         DEF EndSpan, Log, ShowPage, StartReport, Recover, Leave, Leaves, Kinds, Placed
    <2>2. CASE EndSpan(r)
      <3>1. Kind(r) = "opentelemetry" /\ spans' = [spans EXCEPT ![r] = @ - 1] /\ logged' = logged
        BY <2>2 DEF EndSpan, Leaves
      <3>2. logged' = [logged EXCEPT ![r] = @ + 0]
        BY <3>1, <1>2
      <3> QED BY <2>1, <3>1, <3>2, <1>8
    <2>3. CASE Log(r)
      <3>1. Kind(r) = "accesslog" /\ logged' = [logged EXCEPT ![r] = @ + 1] /\ spans' = spans
        BY <2>3 DEF Log, Leaves, metrics
      <3>2. spans' = [spans EXCEPT ![r] = @ - 0]
        BY <3>1, <1>2
      <3> QED BY <2>1, <3>1, <3>2, <1>8
    <2>4. CASE ShowPage(r) \/ StartReport(r) \/ Recover(r) \/ Leave(r)
      <3>1. Kind(r) \notin {"accesslog", "opentelemetry"} /\ UNCHANGED <<logged, spans>>
        BY <2>4 DEF ShowPage, StartReport, Recover, Leave, Leaves, metrics, Recovers
      <3>2. spans' = [spans EXCEPT ![r] = @ - 0] /\ logged' = [logged EXCEPT ![r] = @ + 0]
        BY <3>1, <1>2
      <3> QED BY <2>1, <3>1, <3>2, <1>8
    <2> QED BY <1>10, <2>2, <2>3, <2>4
  <1>11. ASSUME NEW r \in Requests, Report(r) \/ Flash(r) \/ FlashFails(r) \/ Abort(r)
         PROVE  same
    BY <1>11 DEF Report, Flash, FlashFails, Abort, context, metrics
  <1>12. ASSUME NEW k \in Keys, AddBuckets(k) \/ AddBucketsRaces(k) \/ Fill(k) PROVE same
    BY <1>12 DEF AddBuckets, AddBucketsRaces, Fill, context, metrics
  <1>13. CASE UNCHANGED vars
    BY <1>3, <1>13 DEF vars
  <1> HIDE DEF same
  <1> QED BY <1>3, <1>4, <1>6, <1>7, <1>9, <1>10, <1>11, <1>12, <1>13 DEF Next, Step

\* Outside an exposed errhandle nothing but another errhandle touches the answer.
LEMMA PagedStep == IInv /\ [Next]_vars => Paged'
  <1> SUFFICES ASSUME IInv, [Next]_vars PROVE Paged'
    OBVIOUS
  <1> USE DEF IInv, Placed, Paged, Exposed
  <1> DEFINE Same(q) ==
        /\ chain'[q] = chain[q] /\ at'[q] = at[q] /\ going'[q] = going[q]
        /\ status'[q] = status[q] /\ data'[q] = data[q] /\ wire'[q] = wire[q]
      Shown(q) ==
        /\ \A i \in 1..Len(chain[q]) :
            (/\ going[q] = "out" /\ at[q] < i
             /\ chain[q][i] = "errhandle" /\ Exposed(q, i)
             /\ status[q] \in DOMAIN Pages) => data[q] = Pages[status[q]]
        /\ wire[q] \notin {NotYet, HungUp} => wire[q].data = data[q]
  <1>1. Paged <=> DOMAIN data = Requests /\ \A q \in Requests : Shown(q)
    OBVIOUS
  <1>2. ASSUME NEW q \in Requests, Same(q) PROVE Shown(q)'
    BY <1>2
  <1>3. DOMAIN data' = Requests
    BY DEF Next, Step, vars, ServeHTTP, context, Enter, StartSpan, EndSpan, Inwards,
           TakesToken, PassesLimiter, TurnsAway, Serve, Log, ShowPage, StartReport,
           Report, Recover, Leave, Flash, FlashFails, Abort, AddBuckets,
           AddBucketsRaces, Fill
  <1>4. ASSUME NEW r \in Requests, NEW c \in Chains, ServeHTTP(r, c)
        PROVE  Shown(r)' /\ \A q \in Requests \ {r} : Same(q)
    BY <1>4, Lengths DEF ServeHTTP
  <1>5. ASSUME NEW r \in Requests, Enter(r) \/ StartSpan(r) \/ TakesToken(r) \/ PassesLimiter(r)
        PROVE  Shown(r)' /\ \A q \in Requests \ {r} : Same(q)
    BY <1>5, Lengths DEF Enter, StartSpan, TakesToken, PassesLimiter, Enters, Running, Inwards
  <1>6. ASSUME NEW r \in Requests, EndSpan(r) \/ Log(r) \/ StartReport(r) \/ Leave(r)
        PROVE  Shown(r)' /\ \A q \in Requests \ {r} : Same(q)
    <2>1. /\ chain' = chain /\ going' = going /\ status' = status /\ data' = data /\ wire' = wire
          /\ at' = [at EXCEPT ![r] = @ - 1] /\ Inside(r) /\ wire[r] = NotYet
          /\ Kind(r) = "errhandle" => going[r] = "panic"
      BY <1>6 DEF EndSpan, Log, StartReport, Leave, Leaves, Running, Outwards, Recovers
    <2>2. ASSUME NEW i \in 1..Len(chain[r]), going[r] = "out", at[r] - 1 < i,
                 chain[r][i] = "errhandle"
          PROVE  at[r] < i
      <3>1. at[r] # i
        BY <2>1, <2>2 DEF Kind
      <3> QED BY <2>2, <3>1, Lengths
    <2>3. Shown(r)'
      BY <2>1, <2>2
    <2>4. \A q \in Requests \ {r} : Same(q)
      BY <2>1
    <2> QED BY <2>3, <2>4
  <1>7. ASSUME NEW r \in Requests, ShowPage(r)
        PROVE  Shown(r)' /\ \A q \in Requests \ {r} : Same(q)
    <2>1. /\ chain' = chain /\ going' = going /\ status' = status /\ wire' = wire
          /\ at' = [at EXCEPT ![r] = @ - 1] /\ Inside(r) /\ wire[r] = NotYet
          /\ data' = [data EXCEPT ![r] = IF status[r] \in DOMAIN Pages THEN Pages[status[r]] ELSE @]
      BY <1>7 DEF ShowPage, Leaves, Running, Outwards
    <2> QED BY <2>1 DEF Inside
  <1>8. ASSUME NEW r \in Requests, TurnsAway(r) \/ Serve(r) \/ Recover(r)
        PROVE  Shown(r)' /\ \A q \in Requests \ {r} : Same(q)
    <2>1. /\ chain' = chain /\ wire' = wire /\ at' = [at EXCEPT ![r] = @ - 1] /\ wire[r] = NotYet
          /\ at[r] = Len(chain[r]) + 1
                \/ (Inside(r) /\ Kind(r) \in Recovers \union {"limiter"})
      BY <1>8 DEF TurnsAway, Serve, Recover, Enters, Leaves, Running, Outwards
    <2>2. Len(chain[r]) \in Nat
      BY Lengths
    <2>3. ASSUME NEW i \in 1..Len(chain[r]), at[r] - 1 < i, chain[r][i] = "errhandle"
          PROVE  ~Exposed(r, i)
      <3>1. "errhandle" \notin Recovers \union {"limiter"}
        BY DEF Recovers
      <3> QED BY <2>1, <2>2, <2>3, <3>1 DEF Inside, Kind
    <2>4. Shown(r)'
      BY <2>1, <2>3
    <2>5. \A q \in Requests \ {r} : Same(q)
      BY <1>8, <2>1 DEF TurnsAway, Serve, Recover
    <2> QED BY <2>4, <2>5
  <1>9. ASSUME NEW r \in Requests, Flash(r) \/ Abort(r)
        PROVE  Shown(r)' /\ \A q \in Requests \ {r} : Same(q)
    <2>1. /\ UNCHANGED <<chain, at, going, status, data>>
          /\ \A q \in Requests \ {r} : wire'[q] = wire[q]
          /\ wire'[r] = HungUp \/ wire'[r].data = data[r]
      BY <1>9 DEF Flash, Abort, context
    <2> QED BY <2>1
  <1>10. \/ \A q \in Requests : Same(q)
         \/ \E r \in Requests : Shown(r)' /\ \A q \in Requests \ {r} : Same(q)
    <2>1. ASSUME NEW r \in Requests, Report(r) \/ FlashFails(r) PROVE \A q \in Requests : Same(q)
      BY <2>1 DEF Report, FlashFails, context
    <2>2. ASSUME NEW k \in Keys, AddBuckets(k) \/ AddBucketsRaces(k) \/ Fill(k)
          PROVE  \A q \in Requests : Same(q)
      BY <2>2 DEF AddBuckets, AddBucketsRaces, Fill, context
    <2>3. CASE UNCHANGED vars
      BY <2>3 DEF vars
    <2> HIDE DEF Same, Shown
    <2> QED BY <1>4, <1>5, <1>6, <1>7, <1>8, <1>9, <2>1, <2>2, <2>3 DEF Next, Step
  <1>11. \A q \in Requests : Shown(q) /\ Shown(q)'
    <2> HIDE DEF Same, Shown
    <2> QED BY <1>1, <1>2, <1>10
  <1> QED BY <1>3, <1>11

\* Every step keeps the types of the reports and the buckets.
LEMMA TypedStep == IInv /\ [Next]_vars => Typed'
  <1> SUFFICES ASSUME IInv, [Next]_vars PROVE Typed'
    OBVIOUS
  <1> USE DEF IInv, Typed
  <1>1. report' \in [Requests -> [phase : {"none", "pending", "done"}, status : Nat]]
    <2>1. ASSUME NEW r \in Requests, StartReport(r)
          PROVE  report' \in [Requests -> [phase : {"none", "pending", "done"}, status : Nat]]
      BY <2>1 DEF StartReport, Pending
    <2>2. ASSUME NEW r \in Requests, Report(r)
          PROVE  report' \in [Requests -> [phase : {"none", "pending", "done"}, status : Nat]]
      BY <2>2 DEF Report, Placed
    <2>3. CASE report' = report
      BY <2>3
    <2>4. report' = report \/ \E r \in Requests : StartReport(r) \/ Report(r)
      BY DEF Next, Step, vars, ServeHTTP, metrics, Enter, StartSpan, EndSpan,
             TakesToken, PassesLimiter, TurnsAway, Serve, Log, ShowPage, Recover, Leave,
             Flash, FlashFails, Abort, AddBuckets, AddBucketsRaces, Fill
    <2> QED BY <2>1, <2>2, <2>3, <2>4
  <1>2. up' \in BOOLEAN
    <2>1. up' = up \/ up' = FALSE
      BY DEF Next, Step, vars, ServeHTTP, Enter, StartSpan, EndSpan,
             TakesToken, PassesLimiter, TurnsAway, Serve, Log, ShowPage, StartReport,
             Report, Recover, Leave, Flash, FlashFails, Abort, AddBuckets,
             AddBucketsRaces, Fill
    <2> QED BY <2>1
  <1>3. tokens' \in [Keys -> 0..Capacity] /\ fills' \in [Keys -> 0..MaxFills]
    <2>1. CASE UNCHANGED <<tokens, fills>>
      BY <2>1
    <2>2. ASSUME NEW r \in Requests, TakesToken(r)
          PROVE  tokens' \in [Keys -> 0..Capacity] /\ fills' \in [Keys -> 0..MaxFills]
      <3>1. tokens[key[r]] \in 0..Capacity /\ tokens[key[r]] > 0
        BY <2>2 DEF TakesToken, Limits
      <3>2. tokens[key[r]] - 1 \in 0..Capacity
        BY <3>1, LimitAssumption
      <3> QED BY <2>2, <3>2 DEF TakesToken
    <2>3. ASSUME NEW k \in Keys, AddBuckets(k) \/ Fill(k)
          PROVE  tokens' \in [Keys -> 0..Capacity] /\ fills' \in [Keys -> 0..MaxFills]
      BY <2>3, LimitAssumption DEF AddBuckets, Fill
    <2>4. \/ UNCHANGED <<tokens, fills>> \/ \E r \in Requests : TakesToken(r)
          \/ \E k \in Keys : AddBuckets(k) \/ Fill(k)
      BY DEF Next, Step, vars, limiter, ServeHTTP, Enter, StartSpan, EndSpan, PassesLimiter,
             TurnsAway, Serve, Log, ShowPage, StartReport, Report, Recover, Leave, Flash,
             FlashFails, Abort, AddBucketsRaces
    <2> QED BY <2>1, <2>2, <2>3, <2>4
  <1> QED BY <1>1, <1>2, <1>3

\* Every step preserves the invariant.
THEOREM NextIInv == IInv /\ [Next]_vars => IInv'
  BY PlacedStep, ClosedStep, ContainedStep, ReportedStep, LimitsStep, CountedStep,
     PagedStep, TypedStep DEF IInv

\* Every reachable state satisfies the invariant.
THEOREM InvariantHolds == Spec => []IInv
  BY InitIInv, NextIInv, PTL DEF Spec

\* The state keeps its types.
THEOREM TypeCorrect == Spec => []TypeOK
  <1>1. IInv => TypeOK
    BY DEF IInv, Placed, Limits, Counted, Typed, TypeOK
  <1> QED BY <1>1, InvariantHolds, PTL

\* No panic gets to the client through a recover.
THEOREM PanicsStayInside == Spec => []PanicsContained
  <1>1. IInv => PanicsContained
    <2> SUFFICES ASSUME IInv, NEW r \in Requests, wire[r] = HungUp,
                        NEW i \in 1..Len(chain[r]), Saves(r, i)
                 PROVE  FALSE
      <3>1. ASSUME IInv, NEW r \in Requests PROVE DOMAIN chain[r] = 1..Len(chain[r])
        BY <3>1, Lengths DEF IInv, Placed
      <3>2. ASSUME NEW r \in Requests, NEW i \in Places(r, {"recover"}),
                   \A j \in 1..(i - 1) : chain[r][j] # "recover, then panic"
            PROVE  i \in DOMAIN chain[r] /\ Saves(r, i)
        BY <3>2 DEF Places, Saves
      <3> QED BY <3>1, <3>2 DEF PanicsContained
    <2>1. at[r] = 0 /\ going[r] = "panic"
      BY NotYetIsNoAnswer DEF IInv, Placed, Closed
    <2>2. Len(chain[r]) \in Nat
      BY Lengths DEF IInv, Placed
    <2> QED BY <2>1, <2>2 DEF IInv, Contained
  <1> QED BY <1>1, InvariantHolds, PTL

\* Error pages get to the client from wherever errhandle is.
THEOREM PagesAreShown == Spec => []PagesShown
  <1>1. IInv => PagesShown
    <2> SUFFICES ASSUME IInv, NEW r \in Requests, Answered(r),
                        NEW i \in Places(r, {"errhandle"}),
                        Exposed(r, i), wire[r].status \in DOMAIN Pages, status[r] > 0
                 PROVE  wire[r].data = Pages[wire[r].status]
      BY DEF PagesShown
    <2>1. at[r] = 0 /\ going[r] = "out" /\ wire[r].status = status[r] /\ wire[r].data = data[r]
      BY DEF IInv, Placed, Closed, Paged, Answered
    <2>2. i \in 1..Len(chain[r]) /\ chain[r][i] = "errhandle"
      BY Lengths DEF IInv, Placed, Places
    <2> QED BY <2>1, <2>2 DEF IInv, Paged
  <1> QED BY <1>1, InvariantHolds, PTL

\* A report counts the request under the status it is answered with.
THEOREM ReportsAreFinal == Spec => []ReportIsFinal
  <1>1. IInv => ReportIsFinal
    BY DEF IInv, Closed, Reported, ReportIsFinal, Done
  <1> QED BY <1>1, InvariantHolds, PTL

\* No more get through a limiter than its bucket pays for.
THEOREM BucketsHold == Spec => []LimiterHolds
  <1>1. IInv => LimiterHolds
    <2> SUFFICES ASSUME IInv, NEW k \in Keys
                 PROVE  Cardinality({r \in Requests :
                            /\ limited[r] /\ key[r] = k
                            /\ served[r] /\ Places(r, {"limiter"}) # {}}) <= Capacity + fills[k]
      BY DEF LimiterHolds
    <2> DEFINE through == {r \in Requests : /\ limited[r] /\ key[r] = k
                                            /\ served[r] /\ Places(r, {"limiter"}) # {}}
    <2>1. through \in SUBSET Passed(k)
      BY DEF Passed, Through
    <2>2. IsFiniteSet(Passed(k)) /\ Cardinality(Passed(k)) \in Nat
      <3>1. Passed(k) \in SUBSET Requests
        BY DEF Passed
      <3> QED BY <3>1, RequestsAssumption, FS_Subset, FS_CardinalityType
    <2>3. Cardinality(through) <= Cardinality(Passed(k)) /\ Cardinality(through) \in Nat
      BY <2>1, <2>2, FS_Subset, FS_CardinalityType
    <2>4. CASE k \in buckets
      BY <2>2, <2>3, <2>4, LimitAssumption DEF IInv, Limits
    <2>5. CASE k \notin buckets
      <3>1. through = {}
        BY <2>5 DEF IInv, Limits
      <3>2. fills[k] \in Nat
        BY DEF IInv, Limits
      <3> HIDE DEF through
      <3>3. Cardinality(through) = 0
        BY <3>1, FS_EmptySet
      <3> USE DEF through
      <3> QED BY <3>2, <3>3, LimitAssumption
    <2> QED BY <2>4, <2>5
  <1> QED BY <1>1, InvariantHolds, PTL

\* A finished request is in the log as often as it passed an accesslog, and has no
\* span open.
THEOREM LogIsComplete == Spec => []LoggedOnce
  <1>1. IInv => LoggedOnce
    <2> SUFFICES ASSUME IInv, NEW r \in Requests, Done(r)
                 PROVE  LET entries(n) == Cardinality({i \in Places(r, {"accesslog"}) : i <= n})
                        IN /\ IF served[r] THEN logged[r] = entries(Len(chain[r]))
                              ELSE \E l \in Places(r, {"limiter"}) : logged[r] = entries(l)
                           /\ spans[r] = 0
      BY DEF LoggedOnce
    <2>1. at[r] = 0 /\ going[r] # "in" /\ chain[r] \in Chains /\ logged[r] \in Nat
      BY DEF Done, IInv, Placed, Counted
    <2>2. Tally(chain[r], 0, going[r], served[r], logged[r], spans[r])
      BY <2>1 DEF IInv, Counted
    <2>3. Places(r, {"accesslog"}) = Where(chain[r], "accesslog")
          /\ Places(r, {"limiter"}) = Where(chain[r], "limiter")
      BY DEF Places, Where
    <2>4. \A kind : Upto(Where(chain[r], kind), 0) = 0
      BY <2>1, UptoFirst
    <2>5. spans[r] = 0
      BY <2>1, <2>2, <2>4 DEF Tally
    <2>6. \E l \in 0..Len(chain[r]) :
            /\ IF served[r] THEN l = Len(chain[r]) ELSE l \in Where(chain[r], "limiter")
            /\ logged[r] = Upto(Where(chain[r], "accesslog"), l)
      BY <2>1, <2>2, <2>4 DEF Tally
    <2> QED BY <2>3, <2>5, <2>6 DEF Upto
  <1> QED BY <1>1, InvariantHolds, PTL

=============================================================================
