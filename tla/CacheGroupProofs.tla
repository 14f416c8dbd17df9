-------------------------- MODULE CacheGroupProofs --------------------------
(***************************************************************************)
(* Proofs about CacheGroup, for any goroutines, keys, versions, evictions  *)
(* and getter outcomes.                                                    *)
(*                                                                         *)
(* The argument has two parts.  Flight: a leader's call is the one         *)
(* registered for its key, different leaders have different calls, and a   *)
(* waiter's call is registered until it is done; from this alone follow    *)
(* the exclusion properties.  Data: because a key has one leader, what is  *)
(* put in the cache only gets newer, every completed call holds either an  *)
(* error or the version last put in the cache, and so nothing older than   *)
(* what a Get had returned when another began can be returned to it.       *)
(***************************************************************************)
EXTENDS CacheGroup, TLAPS

Flight ==
    /\ \A t \in Threads : pc[t] \in Leading =>
        /\ m[key[t]] = call[t] /\ call[t] # NoCall
        /\ calls[call[t]].done <=> pc[t] = "delete"
    /\ \A t, u \in Threads :
        (pc[t] \in Leading /\ pc[u] \in Leading /\ call[t] = call[u]) => t = u
    /\ \A k, l \in Keys : (m[k] = m[l] /\ m[k] # NoCall) => k = l
    /\ \A t \in Threads : pc[t] \in {"idle", "lookup", "do"} => call[t] = NoCall
    /\ \A t \in Threads : pc[t] = "wait" =>
        call[t] # NoCall /\ (~calls[call[t]].done => m[key[t]] = call[t])

\* What the versions around one key have to do with each other.
KeyData ==
    \A k \in Keys :
        /\ cached[k] \in {None, filled[k]}
        /\ k \notin Evictable => cached[k] = filled[k]
        /\ high[k] <= filled[k] /\ filled[k] <= source[k]
        /\ (m[k] # NoCall /\ calls[m[k]].done) => calls[m[k]].val \in {None, filled[k]}

\* What a goroutine in Get holds.
ThreadData ==
    \A t \in Threads :
        /\ pc[t] # "idle" => floor[t] <= high[key[t]]
        /\ pc[t] \in {"idle", "lookup", "do", "wait", "load"} => got[t] = None
        /\ pc[t] = "populate" =>
            filled[key[t]] <= got[t] /\ got[t] <= source[key[t]]
        /\ pc[t] \in {"done", "delete"} => got[t] \in {None, filled[key[t]]}
        /\ pc[t] = "delete" => calls[call[t]].val = got[t]
        /\ (pc[t] = "wait" /\ calls[call[t]].done /\ calls[call[t]].val # None) =>
            /\ floor[t] <= calls[call[t]].val
            /\ calls[call[t]].val <= filled[key[t]]

IInv == TypeOK /\ Flight /\ KeyData /\ ThreadData /\ FilledIsNotLoaded

\* The invariant holds before the first Get.
THEOREM InitIInv == Init => IInv
  <1> SUFFICES ASSUME Init PROVE IInv
    OBVIOUS
  <1>1. 0 \in Versions /\ 1 \in Versions
    BY VersionAssumption DEF Versions
  <1>2. TypeOK
    BY <1>1 DEF Init, TypeOK, PCs, None
  <1>3. Flight
    BY DEF Init, Flight, Leading
  <1>4. KeyData /\ ThreadData /\ FilledIsNotLoaded
    BY DEF Init, KeyData, ThreadData, FilledIsNotLoaded, None
  <1> QED BY <1>2, <1>3, <1>4 DEF IInv

-----------------------------------------------------------------------------
(* Type correctness of a step.                                             *)

\* A leader or waiter has a call and a key.
LEMMA HasCall ==
  ASSUME TypeOK, Flight, NEW t \in Threads, pc[t] \in Leading \union {"wait"}
  PROVE  /\ call[t] \in Calls /\ key[t] \in Keys /\ pc[t] # "idle"
         /\ calls[call[t]].val \in Versions
  <1>1. call[t] \in Calls
    BY DEF TypeOK, Flight
  <1> QED BY <1>1 DEF TypeOK, Leading

\* Every step keeps the types.
LEMMA TypeStep == TypeOK /\ Flight /\ [Next]_vars => TypeOK'
  <1> SUFFICES ASSUME TypeOK, Flight, [Next]_vars PROVE TypeOK'
    OBVIOUS
  <1>0. None \in Versions
    BY VersionAssumption DEF Versions, None
  <1>l. ASSUME NEW t \in Threads, NEW v \in Versions, Leave(t, v), UNCHANGED <<source, cached, calls>>,
               m' \in [Keys -> Calls \union {NoCall}], pc[t] # "idle"
        PROVE  TypeOK'
    <2>1. key[t] \in Keys /\ Newer(high[key[t]], v) \in Versions
      BY <1>l DEF TypeOK, Newer
    <2> QED BY <1>l, <1>0, <2>1 DEF TypeOK, Leave, PCs
  <1>1. ASSUME NEW k \in Keys, Write(k) PROVE TypeOK'
    <2>1. source[k] + 1 \in Versions
      BY <1>1, VersionAssumption DEF Write, TypeOK, Versions
    <2> QED BY <1>1, <2>1 DEF Write, local, history, TypeOK
  <1>2. ASSUME NEW t \in Threads, NEW k \in Keys, Get(t, k) PROVE TypeOK'
    BY <1>0, <1>2 DEF Get, shared, TypeOK, PCs
  <1>3. ASSUME NEW t \in Threads, Hit(t) PROVE TypeOK'
    <2>1. cached[key[t]] \in Versions
      BY <1>3 DEF Hit, TypeOK
    <2>2. Leave(t, cached[key[t]]) /\ UNCHANGED shared /\ pc[t] # "idle"
      BY <1>3 DEF Hit
    <2> QED BY <1>l, <2>1, <2>2 DEF shared, TypeOK
  <1>4. ASSUME NEW t \in Threads, Miss(t) PROVE TypeOK'
    BY <1>4 DEF Miss, shared, history, TypeOK, PCs
  <1>5. ASSUME NEW t \in Threads, Join(t) PROVE TypeOK'
    BY <1>5 DEF Join, shared, history, TypeOK, PCs
  <1>6. ASSUME NEW t \in Threads, Register(t) PROVE TypeOK'
    BY <1>0, <1>6 DEF Register, Free, history, TypeOK, PCs
  <1>7. ASSUME NEW t \in Threads, Load(t) PROVE TypeOK'
    <2>1. CASE Leave(t, None)
      BY <1>0, <1>7, <1>l, <2>1 DEF Load, shared, TypeOK
    <2>2. CASE ~Leave(t, None)
      BY <1>7, <2>2 DEF Load, shared, history, TypeOK, PCs
    <2> QED BY <2>1, <2>2
  <1>8. ASSUME NEW t \in Threads, Populate(t) PROVE TypeOK'
    BY <1>0, <1>8 DEF Populate, TypeOK, PCs
  <1>9. ASSUME NEW t \in Threads, Done(t) PROVE TypeOK'
    BY <1>9 DEF Done, history, TypeOK, PCs
  <1>10. ASSUME NEW t \in Threads, Delete(t) PROVE TypeOK'
    <2>1. calls[call[t]].val \in Versions /\ pc[t] # "idle"
      BY <1>10, HasCall DEF Delete, Leading
    <2> QED BY <1>l, <1>10, <2>1 DEF Delete, TypeOK
  <1>11. ASSUME NEW t \in Threads, Wait(t) PROVE TypeOK'
    <2>1. calls[call[t]].val \in Versions /\ pc[t] # "idle"
      BY <1>11, HasCall DEF Wait
    <2> QED BY <1>l, <1>11, <2>1 DEF Wait, shared, TypeOK
  <1>12. CASE UNCHANGED vars
    BY <1>12 DEF vars, TypeOK
  <1> QED BY <1>1, <1>2, <1>3, <1>4, <1>5, <1>6, <1>7, <1>8, <1>9, <1>10, <1>11, <1>12
          DEF Next, Step

-----------------------------------------------------------------------------
(* The single-flight table.                                                *)

\* Every step keeps leaders, calls and m together.
LEMMA FlightStep == TypeOK /\ Flight /\ [Next]_vars => Flight'
  <1> SUFFICES ASSUME TypeOK, Flight, [Next]_vars PROVE Flight'
    OBVIOUS
  <1>1. ASSUME NEW k \in Keys, Write(k) PROVE Flight'
    BY <1>1 DEF Write, local, Flight
  <1>2. ASSUME NEW t \in Threads, NEW k \in Keys, Get(t, k) PROVE Flight'
    BY <1>2 DEF Get, shared, Flight, Leading, TypeOK
  <1>3. ASSUME NEW t \in Threads, Hit(t) PROVE Flight'
    BY <1>3 DEF Hit, Leave, shared, Flight, Leading, TypeOK
  <1>4. ASSUME NEW t \in Threads, Miss(t) PROVE Flight'
    BY <1>4 DEF Miss, shared, Flight, Leading, TypeOK
  <1>5. ASSUME NEW t \in Threads, Join(t) PROVE Flight'
    BY <1>5 DEF Join, shared, Flight, Leading, TypeOK
  <1>6. ASSUME NEW t \in Threads, Register(t) PROVE Flight'
    BY <1>6, CallsAssumption DEF Register, Free, Flight, Leading, TypeOK
  <1>7. ASSUME NEW t \in Threads, Load(t) PROVE Flight'
    <2>1. CASE Leave(t, None)
      BY <1>7, <2>1 DEF Load, Leave, shared, Flight, Leading, TypeOK
    <2>2. CASE ~Leave(t, None)
      BY <1>7, <2>2 DEF Load, shared, Flight, Leading, TypeOK
    <2> QED BY <2>1, <2>2
  <1>8. ASSUME NEW t \in Threads, Populate(t) PROVE Flight'
    BY <1>8 DEF Populate, Flight, Leading, TypeOK
  <1>9. ASSUME NEW t \in Threads, Done(t) PROVE Flight'
    BY <1>9 DEF Done, Flight, Leading, TypeOK
  <1>10. ASSUME NEW t \in Threads, Delete(t) PROVE Flight'
    BY <1>10 DEF Delete, Leave, Flight, Leading, TypeOK
  <1>11. ASSUME NEW t \in Threads, Wait(t) PROVE Flight'
    BY <1>11 DEF Wait, Leave, shared, Flight, Leading, TypeOK
  <1>12. CASE UNCHANGED vars
    BY <1>12 DEF vars, Flight
  <1> QED BY <1>1, <1>2, <1>3, <1>4, <1>5, <1>6, <1>7, <1>8, <1>9, <1>10, <1>11, <1>12
          DEF Next, Step

-----------------------------------------------------------------------------
(* The versions.                                                           *)

\* Every step keeps the versions around a key in order.
LEMMA KeyStep == IInv /\ [Next]_vars => KeyData'
  <1> SUFFICES ASSUME IInv, [Next]_vars PROVE KeyData'
    OBVIOUS
  <1>0. Versions \subseteq Nat
    BY DEF Versions
  <1>1. ASSUME NEW k \in Keys, Write(k) PROVE KeyData'
    BY <1>1, VersionAssumption DEF Write, local, history, IInv, TypeOK, Flight, KeyData, ThreadData, Leading, None, Versions
  <1>2. ASSUME NEW t \in Threads, NEW k \in Keys, Get(t, k) PROVE KeyData'
    BY <1>2 DEF Get, shared, IInv, TypeOK, Flight, KeyData, ThreadData, Leading, None, Versions
  <1>3. ASSUME NEW t \in Threads, Hit(t) PROVE KeyData'
    BY <1>3 DEF Hit, Leave, Newer, shared, IInv, TypeOK, Flight, KeyData, ThreadData, Leading, None, Versions
  <1>4. ASSUME NEW t \in Threads, Miss(t) PROVE KeyData'
    BY <1>4 DEF Miss, shared, history, IInv, TypeOK, Flight, KeyData, ThreadData, Leading, None, Versions
  <1>5. ASSUME NEW t \in Threads, Join(t) PROVE KeyData'
    BY <1>5 DEF Join, shared, history, IInv, TypeOK, Flight, KeyData, ThreadData, Leading, None, Versions
  <1>6. ASSUME NEW t \in Threads, Register(t) PROVE KeyData'
    BY <1>6 DEF Register, Free, history, IInv, TypeOK, Flight, KeyData, ThreadData, Leading, None, Versions
  <1>7. ASSUME NEW t \in Threads, Load(t) PROVE KeyData'
    <2>1. CASE Leave(t, None)
      BY <1>7, <2>1 DEF Load, Leave, Newer, shared, IInv, TypeOK, Flight, KeyData, ThreadData, Leading, None, Versions
    <2>2. CASE ~Leave(t, None)
      BY <1>7, <2>2 DEF Load, shared, history, IInv, TypeOK, Flight, KeyData, ThreadData, Leading, None, Versions
    <2> QED BY <2>1, <2>2
  <1>8. ASSUME NEW t \in Threads, Populate(t) PROVE KeyData'
    BY <1>8 DEF Populate, IInv, TypeOK, Flight, KeyData, ThreadData, Leading, None, Versions
  <1>9. ASSUME NEW t \in Threads, Done(t) PROVE KeyData'
    BY <1>9 DEF Done, history, IInv, TypeOK, Flight, KeyData, ThreadData, Leading, None, Versions
  <1>10. ASSUME NEW t \in Threads, Delete(t) PROVE KeyData'
    BY <1>10 DEF Delete, Leave, Newer, IInv, TypeOK, Flight, KeyData, ThreadData, Leading, None, Versions
  <1>11. ASSUME NEW t \in Threads, Wait(t) PROVE KeyData'
    BY <1>11 DEF Wait, Leave, Newer, shared, IInv, TypeOK, Flight, KeyData, ThreadData, Leading, None, Versions
  <1>12. CASE UNCHANGED vars
    BY <1>12 DEF vars, IInv, TypeOK, Flight, KeyData, ThreadData, Leading, None, Versions
  <1> QED BY <1>1, <1>2, <1>3, <1>4, <1>5, <1>6, <1>7, <1>8, <1>9, <1>10, <1>11, <1>12
          DEF Next, Step

\* And what the goroutines hold with it.
LEMMA ThreadStep == IInv /\ [Next]_vars => ThreadData'
  <1> SUFFICES ASSUME IInv, [Next]_vars PROVE ThreadData'
    OBVIOUS
  <1>1. ASSUME NEW k \in Keys, Write(k) PROVE ThreadData'
    BY <1>1, VersionAssumption DEF Write, local, history, IInv, TypeOK, Flight, KeyData, ThreadData, Leading, None, Versions
  <1>2. ASSUME NEW t \in Threads, NEW k \in Keys, Get(t, k) PROVE ThreadData'
    BY <1>2 DEF Get, shared, IInv, TypeOK, Flight, KeyData, ThreadData, Leading, None, Versions
  <1>3. ASSUME NEW t \in Threads, Hit(t) PROVE ThreadData'
    BY <1>3 DEF Hit, Leave, Newer, shared, IInv, TypeOK, Flight, KeyData, ThreadData, Leading, None, Versions
  <1>4. ASSUME NEW t \in Threads, Miss(t) PROVE ThreadData'
    BY <1>4 DEF Miss, shared, history, IInv, TypeOK, Flight, KeyData, ThreadData, Leading, None, Versions
  <1>5. ASSUME NEW t \in Threads, Join(t) PROVE ThreadData'
    BY <1>5 DEF Join, shared, history, IInv, TypeOK, Flight, KeyData, ThreadData, Leading, None, Versions
  <1>6. ASSUME NEW t \in Threads, Register(t) PROVE ThreadData'
    BY <1>6 DEF Register, Free, history, IInv, TypeOK, Flight, KeyData, ThreadData, Leading, None, Versions
  <1>7. ASSUME NEW t \in Threads, Load(t) PROVE ThreadData'
    <2>1. CASE Leave(t, None)
      BY <1>7, <2>1 DEF Load, Leave, Newer, shared, IInv, TypeOK, Flight, KeyData, ThreadData, Leading, None, Versions
    <2>2. CASE ~Leave(t, None)
      BY <1>7, <2>2 DEF Load, shared, history, IInv, TypeOK, Flight, KeyData, ThreadData, Leading, None, Versions
    <2> QED BY <2>1, <2>2
  <1>8. ASSUME NEW t \in Threads, Populate(t) PROVE ThreadData'
    BY <1>8 DEF Populate, IInv, TypeOK, Flight, KeyData, ThreadData, Leading, None, Versions
  <1>9. ASSUME NEW t \in Threads, Done(t) PROVE ThreadData'
    BY <1>9 DEF Done, history, IInv, TypeOK, Flight, KeyData, ThreadData, Leading, None, Versions
  <1>10. ASSUME NEW t \in Threads, Delete(t) PROVE ThreadData'
    BY <1>10 DEF Delete, Leave, Newer, IInv, TypeOK, Flight, KeyData, ThreadData, Leading, None, Versions
  <1>11. ASSUME NEW t \in Threads, Wait(t) PROVE ThreadData'
    BY <1>11 DEF Wait, Leave, Newer, shared, IInv, TypeOK, Flight, KeyData, ThreadData, Leading, None, Versions
  <1>12. CASE UNCHANGED vars
    BY <1>12 DEF vars, IInv, TypeOK, Flight, KeyData, ThreadData, Leading, None, Versions
  <1> QED BY <1>1, <1>2, <1>3, <1>4, <1>5, <1>6, <1>7, <1>8, <1>9, <1>10, <1>11, <1>12
          DEF Next, Step

\* A key that is not evicted is found by whoever begins after it was returned.
LEMMA FilledStep == IInv /\ [Next]_vars => FilledIsNotLoaded'
  <1> SUFFICES ASSUME IInv, [Next]_vars PROVE FilledIsNotLoaded'
    OBVIOUS
  <1>1. ASSUME NEW k \in Keys, Write(k) PROVE FilledIsNotLoaded'
    BY <1>1 DEF Write, local, history, IInv, FilledIsNotLoaded
  <1>2. ASSUME NEW t \in Threads, NEW k \in Keys, Get(t, k) PROVE FilledIsNotLoaded'
    BY <1>2 DEF Get, shared, IInv, FilledIsNotLoaded, TypeOK
  <1>3. ASSUME NEW t \in Threads, Hit(t) PROVE FilledIsNotLoaded'
    BY <1>3 DEF Hit, Leave, IInv, FilledIsNotLoaded, TypeOK
  <1>4. ASSUME NEW t \in Threads, Miss(t) PROVE FilledIsNotLoaded'
    <2>1. key[t] \in Keys /\ cached[key[t]] = None
      BY <1>4 DEF Miss, IInv, TypeOK
    <2>2. floor[t] = None \/ key[t] \in Evictable
      BY <1>4, <2>1 DEF Miss, IInv, TypeOK, KeyData, ThreadData, None, Versions
    <2> QED BY <1>4, <2>2 DEF Miss, shared, history, IInv, FilledIsNotLoaded, TypeOK
  <1>5. ASSUME NEW t \in Threads, Join(t) PROVE FilledIsNotLoaded'
    BY <1>5 DEF Join, shared, history, IInv, FilledIsNotLoaded, TypeOK
  <1>6. ASSUME NEW t \in Threads, Register(t) PROVE FilledIsNotLoaded'
    BY <1>6 DEF Register, Free, history, IInv, FilledIsNotLoaded, TypeOK
  <1>7. ASSUME NEW t \in Threads, Load(t) PROVE FilledIsNotLoaded'
    <2>1. CASE Leave(t, None)
      BY <1>7, <2>1 DEF Load, Leave, shared, IInv, FilledIsNotLoaded, TypeOK
    <2>2. CASE ~Leave(t, None)
      BY <1>7, <2>2 DEF Load, shared, history, IInv, FilledIsNotLoaded, TypeOK
    <2> QED BY <2>1, <2>2
  <1>8. ASSUME NEW t \in Threads, Populate(t) PROVE FilledIsNotLoaded'
    BY <1>8 DEF Populate, IInv, FilledIsNotLoaded, TypeOK
  <1>9. ASSUME NEW t \in Threads, Done(t) PROVE FilledIsNotLoaded'
    BY <1>9 DEF Done, history, IInv, FilledIsNotLoaded, TypeOK
  <1>10. ASSUME NEW t \in Threads, Delete(t) PROVE FilledIsNotLoaded'
    BY <1>10 DEF Delete, Leave, IInv, FilledIsNotLoaded, TypeOK
  <1>11. ASSUME NEW t \in Threads, Wait(t) PROVE FilledIsNotLoaded'
    BY <1>11 DEF Wait, Leave, shared, IInv, FilledIsNotLoaded, TypeOK
  <1>12. CASE UNCHANGED vars
    BY <1>12 DEF vars, IInv, FilledIsNotLoaded
  <1> QED BY <1>1, <1>2, <1>3, <1>4, <1>5, <1>6, <1>7, <1>8, <1>9, <1>10, <1>11, <1>12
          DEF Next, Step

\* Every step of a Get, and every write to the source, preserves the invariant.
THEOREM NextIInv == IInv /\ [Next]_vars => IInv'
  <1>1. IInv => TypeOK /\ Flight
    BY DEF IInv
  <1>2. IInv /\ [Next]_vars => TypeOK' /\ Flight'
    BY <1>1, TypeStep, FlightStep
  <1>3. IInv /\ [Next]_vars => KeyData' /\ ThreadData' /\ FilledIsNotLoaded'
    BY KeyStep, ThreadStep, FilledStep
  <1>4. TypeOK' /\ Flight' /\ KeyData' /\ ThreadData' /\ FilledIsNotLoaded' => IInv'
    BY DEF IInv
  <1> QED BY <1>2, <1>3, <1>4

\* Every reachable state satisfies the invariant.
THEOREM InvariantHolds == Spec => []IInv
  BY InitIInv, NextIInv, PTL DEF Spec

-----------------------------------------------------------------------------
(* The properties of Spec.                                                 *)

\* Every variable keeps its type.
THEOREM TypeCorrect == Spec => []TypeOK
  <1>1. IInv => TypeOK
    BY DEF IInv
  <1> QED BY <1>1, InvariantHolds, PTL

\* A key has one leader at a time and the table says which, for any number of
\* goroutines and also after panics.
THEOREM LeaderIsUnique == Spec => []OneLeaderPerKey
  <1>1. IInv => OneLeaderPerKey
    BY DEF IInv, Flight, OneLeaderPerKey
  <1> QED BY <1>1, InvariantHolds, PTL

\* A waiter always waits for a call that someone completes, or whose getter
\* panicked.
THEOREM WaitersAreServed == Spec => []WaitersHaveALeader
  <1>1. IInv => WaitersHaveALeader
    <2> DEFINE led(t) == \E u \in Threads :
                            /\ pc[u] \in {"load", "populate", "done"}
                            /\ call[u] = call[t] /\ key[u] = key[t]
    <2> SUFFICES ASSUME IInv, NEW t \in Threads, pc[t] = "wait", ~calls[call[t]].done
                 PROVE  m[key[t]] = call[t] /\ (Orphaned(key[t]) \/ led(t))
      BY DEF WaitersHaveALeader
    <2>1. key[t] \in Keys /\ m[key[t]] = call[t] /\ m[key[t]] # NoCall
      BY DEF IInv, Flight, TypeOK
    <2>2. ASSUME ~Orphaned(key[t]) PROVE led(t)
      <3>1. PICK u \in Threads : pc[u] \in Leading /\ call[u] = m[key[t]]
        BY <2>1, <2>2 DEF Orphaned
      <3>2. pc[u] # "delete" /\ key[u] \in Keys /\ m[key[u]] = call[u]
        BY <2>1, <3>1 DEF IInv, Flight, TypeOK, Leading
      <3>3. key[u] = key[t]
        BY <2>1, <3>1, <3>2 DEF IInv, Flight
      <3> QED BY <2>1, <3>1, <3>2, <3>3 DEF Leading
    <2> QED BY <2>1, <2>2
  <1> QED BY <1>1, InvariantHolds, PTL

\* After a Get returned a key that is not evicted, no later Get loads it.
THEOREM FilledIsFound == Spec => []FilledIsNotLoaded
  <1>1. IInv => FilledIsNotLoaded
    BY DEF IInv
  <1> QED BY <1>1, InvariantHolds, PTL

\* No Get returns data older than what had been returned before it began: for
\* every interleaving of any number of Gets, writes and evictions.
THEOREM ReadsAreMonotonic == Spec => MonotonicReads
  <1> DEFINE Fresh(t) == (pc[t] # "idle" /\ pc'[t] = "idle" /\ answer'[t] # None)
                            => answer'[t] >= floor[t]
             A == \A t \in Threads : Fresh(t)
  <1>1. ASSUME IInv, NEW t \in Threads, NEW v \in Versions, Leave(t, v),
               pc[t] # "idle", v # None => v >= floor[t]
        PROVE  A
    BY <1>1 DEF Leave, IInv, TypeOK
  <1>2. ASSUME IInv, pc' = pc PROVE A
    BY <1>2
  <1>3. ASSUME IInv, NEW t \in Threads, NEW to \in PCs \ {"idle"},
               pc' = [pc EXCEPT ![t] = to]
        PROVE  A
    BY <1>3 DEF IInv, TypeOK
  <1>4. ASSUME IInv, Next PROVE A
    <2>1. ASSUME NEW k \in Keys, Write(k) PROVE A
      BY <1>2, <1>4, <2>1 DEF Write, local
    <2>2. ASSUME NEW t \in Threads, NEW k \in Keys, Get(t, k) PROVE A
      BY <1>3, <1>4, <2>2 DEF Get, PCs
    <2>3. ASSUME NEW t \in Threads, Hit(t) PROVE A
      <3>1. cached[key[t]] \in Versions /\ cached[key[t]] >= floor[t]
        BY <1>4, <2>3 DEF Hit, IInv, TypeOK, KeyData, ThreadData, None, Versions
      <3> QED BY <1>1, <1>4, <2>3, <3>1 DEF Hit
    <2>4. ASSUME NEW t \in Threads,
                 Miss(t) \/ Join(t) \/ Register(t) \/ Populate(t) \/ Done(t)
          PROVE A
      BY <1>3, <1>4, <2>4 DEF Miss, Join, Register, Populate, Done, PCs
    <2>5. ASSUME NEW t \in Threads, Load(t) PROVE A
      <3>1. CASE Leave(t, None)
        <4>1. None \in Versions
          BY VersionAssumption DEF None, Versions
        <4> QED BY <1>1, <1>4, <2>5, <3>1, <4>1 DEF Load
      <3>2. CASE ~Leave(t, None)
        BY <1>3, <1>4, <2>5, <3>2 DEF Load, PCs
      <3> QED BY <3>1, <3>2
    <2>6. ASSUME NEW t \in Threads, Delete(t) PROVE A
      <3>1. calls[call[t]].val \in Versions /\ key[t] \in Keys
        BY <1>4, <2>6, HasCall DEF Delete, Leading, IInv
      <3>2. calls[call[t]].val # None => calls[call[t]].val >= floor[t]
        BY <1>4, <2>6, <3>1 DEF Delete, IInv, TypeOK, KeyData, ThreadData, None, Versions
      <3> QED BY <1>1, <1>4, <2>6, <3>1, <3>2 DEF Delete
    <2>7. ASSUME NEW t \in Threads, Wait(t) PROVE A
      <3>1. calls[call[t]].val \in Versions
        BY <1>4, <2>7, HasCall DEF Wait, IInv
      <3>2. calls[call[t]].val # None => calls[call[t]].val >= floor[t]
        BY <1>4, <2>7, <3>1 DEF Wait, IInv, TypeOK, ThreadData, None, Versions
      <3> QED BY <1>1, <1>4, <2>7, <3>1, <3>2 DEF Wait
    <2> HIDE DEF A
    <2> QED BY <1>4, <2>1, <2>2, <2>3, <2>4, <2>5, <2>6, <2>7 DEF Next, Step
  <1>5. IInv /\ [Next]_vars => [A]_vars
    BY <1>4
  <1>6. [][A]_vars => MonotonicReads
    BY DEF MonotonicReads
  <1> HIDE DEF A
  <1> QED BY <1>5, <1>6, InvariantHolds, PTL DEF Spec

\* The cache only moves to newer data, or drops it.
THEOREM CacheIsMonotonic == Spec => CacheNeverGoesBack
  <1> DEFINE A == \A k \in Keys :
                    filled'[k] >= filled[k] /\ cached'[k] \in {None, filled'[k]}
  <1>1. ASSUME IInv, Next PROVE A
    <2>1. CASE UNCHANGED filled
      BY <1>1, <2>1, NextIInv DEF IInv, KeyData, TypeOK, Versions
    <2>2. ASSUME NEW t \in Threads, Populate(t) PROVE A
      BY <1>1, <2>2 DEF Populate, IInv, KeyData, ThreadData, TypeOK, Versions
    <2>3. (\E t \in Threads : Populate(t)) \/ UNCHANGED filled
      BY <1>1 DEF Next, Step, Write, Get, Hit, Miss, Join, Register, Load, Done,
                  Delete, Wait, Leave, history
    <2> QED BY <2>1, <2>2, <2>3
  <1>2. IInv /\ [Next]_vars => [A]_vars
    BY <1>1
  <1>3. [][A]_vars => CacheNeverGoesBack
    BY DEF CacheNeverGoesBack
  <1> HIDE DEF A
  <1> QED BY <1>2, <1>3, InvariantHolds, PTL DEF Spec

=============================================================================
