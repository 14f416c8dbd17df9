----------------------------- MODULE CacheGroup -----------------------------
(***************************************************************************)
(* Concurrent CacheGroup.Get: the cache lookup, SingleFlightGroup.Do and    *)
(* the loader it runs (cache/Group.go, cache/singleflight.go), one action  *)
(* per step between two points where another goroutine can run.            *)
(*                                                                         *)
(* Data is abstracted to versions: 1 is what the data source holds at      *)
(* first, and a write to the source makes the next one.  Version 0 is no   *)
(* value: not cached, or an error returned.  The cache behind the lock is  *)
(* its contents; what LRU.go evicts when it sets a key is any set of keys  *)
(* of Evictable.  A panic of the getter leaves Do by unwinding, and the    *)
(* goroutine goes on, recovered by its caller (net/http, or the recover    *)
(* middleware).                                                            *)
(***************************************************************************)
EXTENDS Naturals

CONSTANTS
    Threads,     \* goroutines calling Get
    Keys,        \* cache keys; the empty key is answered before any state is read
    Calls,       \* addresses of call structs
    NoCall,
    NoKey,
    MaxVersion,  \* bound on writes to the data source
    Evictable,   \* keys the cache may drop
    Outcomes     \* what GetData can do: "ok", "error", "panic"

ASSUME CallsAssumption == NoCall \notin Calls
ASSUME VersionAssumption == MaxVersion \in Nat \ {0}
ASSUME KeysAssumption == NoKey \notin Keys /\ Evictable \subseteq Keys
ASSUME OutcomesAssumption == Outcomes \subseteq {"ok", "error", "panic"}

None == 0
Versions == 0..MaxVersion

VARIABLES
    source,  \* source[k]: the version the data source holds (external)
    cached,  \* cached[k]: the version in the cache, or None
    m,       \* SingleFlightGroup.m: the call registered for a key, or NoCall
    calls,   \* the call structs: wg done or not, and val (None with err set)
    pc,      \* where a goroutine is
    key,     \* the argument of its Get
    call,    \* its variable c in Do
    got,     \* what its GetData returned
    answer,  \* what its last Get returned
    filled,  \* history: the version last put in the cache
    high,    \* history: the newest version a Get of the key has returned
    floor    \* history: high of its key when a goroutine's Get began

shared == <<source, cached, m, calls>>
local == <<pc, key, call, got, answer>>
history == <<filled, high, floor>>
vars == <<source, cached, m, calls, pc, key, call, got, answer, filled, high, floor>>

PCs == {"idle", "lookup", "do", "wait", "load", "populate", "done", "delete"}

\* Goroutines that run fn for the call they registered, or are about to
\* remove it.
Leading == {"load", "populate", "done", "delete"}

-----------------------------------------------------------------------------
Init ==
    /\ source = [k \in Keys |-> 1]
    /\ cached = [k \in Keys |-> None]
    /\ m = [k \in Keys |-> NoCall]
    /\ calls = [c \in Calls |-> [done |-> FALSE, val |-> None]]
    /\ pc = [t \in Threads |-> "idle"]
    /\ key = [t \in Threads |-> NoKey]
    /\ call = [t \in Threads |-> NoCall]
    /\ got = [t \in Threads |-> None]
    /\ answer = [t \in Threads |-> None]
    /\ filled = [k \in Keys |-> None]
    /\ high = [k \in Keys |-> None]
    /\ floor = [t \in Threads |-> None]

\* Someone writes the data source; the cache is not told.
Write(k) ==
    /\ source[k] < MaxVersion
    /\ source' = [source EXCEPT ![k] = @ + 1]
    /\ UNCHANGED <<cached, m, calls>> /\ UNCHANGED local /\ UNCHANGED history

Newer(a, b) == IF a < b THEN b ELSE a

\* A Get is left, by returning v or by a panic (None); its variables are gone.
Leave(t, v) ==
    /\ pc' = [pc EXCEPT ![t] = "idle"]
    /\ key' = [key EXCEPT ![t] = NoKey]
    /\ call' = [call EXCEPT ![t] = NoCall]
    /\ got' = [got EXCEPT ![t] = None]
    /\ answer' = [answer EXCEPT ![t] = v]
    /\ high' = [high EXCEPT ![key[t]] = Newer(@, v)]
    /\ floor' = [floor EXCEPT ![t] = None]
    /\ UNCHANGED filled

Get(t, k) ==
    /\ pc[t] = "idle"
    /\ pc' = [pc EXCEPT ![t] = "lookup"]
    /\ key' = [key EXCEPT ![t] = k]
    /\ answer' = [answer EXCEPT ![t] = None]
    /\ floor' = [floor EXCEPT ![t] = high[k]]
    /\ UNCHANGED <<call, got, filled, high>> /\ UNCHANGED shared

\* g.cache.Get(key) found it.
Hit(t) ==
    /\ pc[t] = "lookup" /\ cached[key[t]] # None
    /\ Leave(t, cached[key[t]])
    /\ UNCHANGED shared

Miss(t) ==
    /\ pc[t] = "lookup" /\ cached[key[t]] = None
    /\ pc' = [pc EXCEPT ![t] = "do"]
    /\ UNCHANGED <<key, call, got, answer>> /\ UNCHANGED shared /\ UNCHANGED history

\* Under g.mu: the key has a call, wait for that one.
Join(t) ==
    /\ pc[t] = "do" /\ m[key[t]] # NoCall
    /\ pc' = [pc EXCEPT ![t] = "wait"]
    /\ call' = [call EXCEPT ![t] = m[key[t]]]
    /\ UNCHANGED <<key, got, answer>> /\ UNCHANGED shared /\ UNCHANGED history

\* An address that no goroutine and no entry of m refers to; which of them a new
\* call gets makes no difference, so it is a fixed one.
Free(c) ==
    /\ \A k \in Keys : m[k] # c
    /\ \A u \in Threads : call[u] # c

Allocated == CHOOSE c \in Calls : Free(c)

\* Mutant: a new call is registered over one that is there.
RegisterOver(t) ==
    /\ pc[t] = "do"
    /\ \E c \in Calls :
        /\ Free(c) /\ c = Allocated
        /\ calls' = [calls EXCEPT ![c] = [done |-> FALSE, val |-> None]]
        /\ m' = [m EXCEPT ![key[t]] = c]
        /\ call' = [call EXCEPT ![t] = c]
    /\ pc' = [pc EXCEPT ![t] = "load"]
    /\ UNCHANGED <<source, cached, key, got, answer>> /\ UNCHANGED history

\* Under g.mu: register a new call.
Register(t) ==
    /\ pc[t] = "do" /\ m[key[t]] = NoCall
    /\ \E c \in Calls :
        /\ Free(c) /\ c = Allocated
        /\ calls' = [calls EXCEPT ![c] = [done |-> FALSE, val |-> None]]
        /\ m' = [m EXCEPT ![key[t]] = c]
        /\ call' = [call EXCEPT ![t] = c]
    /\ pc' = [pc EXCEPT ![t] = "load"]
    /\ UNCHANGED <<source, cached, key, got, answer>> /\ UNCHANGED history

\* getter.GetData(key) returned the data, failed, or panicked.  A panic goes
\* up through Do: the call stays registered and its wg is never done.
Load(t) ==
    /\ pc[t] = "load"
    /\ \/ /\ "ok" \in Outcomes
          /\ got' = [got EXCEPT ![t] = source[key[t]]]
          /\ pc' = [pc EXCEPT ![t] = "populate"]
          /\ UNCHANGED <<key, call, answer>> /\ UNCHANGED history
       \/ /\ "error" \in Outcomes
          /\ pc' = [pc EXCEPT ![t] = "done"]
          /\ UNCHANGED <<key, call, got, answer>> /\ UNCHANGED history
       \/ /\ "panic" \in Outcomes
          /\ Leave(t, None)
    /\ UNCHANGED shared

\* Mutant: what was loaded is not put in the cache.
PopulateNothing(t) ==
    /\ pc[t] = "populate"
    /\ filled' = [filled EXCEPT ![key[t]] = got[t]]
    /\ pc' = [pc EXCEPT ![t] = "done"]
    /\ UNCHANGED <<source, cached, m, calls, key, call, got, answer, high, floor>>

\* Mutant: the call is removed from m before the cache is filled.
PopulateUnregistered(t) ==
    /\ pc[t] = "populate"
    /\ \/ /\ m[key[t]] = call[t]
          /\ m' = [m EXCEPT ![key[t]] = NoCall]
          /\ UNCHANGED <<cached, filled, pc>>
       \/ /\ m[key[t]] # call[t]
          /\ cached' = [cached EXCEPT ![key[t]] = got[t]]
          /\ filled' = [filled EXCEPT ![key[t]] = got[t]]
          /\ pc' = [pc EXCEPT ![t] = "done"]
          /\ UNCHANGED m
    /\ UNCHANGED <<source, calls, key, call, got, answer, high, floor>>

\* populateCache: cache.Set under its write lock, which may evict, the new
\* entry included when it is too large.
Populate(t) ==
    /\ pc[t] = "populate"
    /\ \E evicted \in SUBSET Evictable :
        cached' = [k \in Keys |-> IF k \in evicted THEN None
                                  ELSE IF k = key[t] THEN got[t] ELSE cached[k]]
    /\ filled' = [filled EXCEPT ![key[t]] = got[t]]
    /\ pc' = [pc EXCEPT ![t] = "done"]
    /\ UNCHANGED <<source, m, calls, key, call, got, answer, high, floor>>

\* Mutant: no wg.Done().
DoneForgotten(t) ==
    /\ pc[t] = "done"
    /\ pc' = [pc EXCEPT ![t] = "delete"]
    /\ UNCHANGED <<source, cached, m, calls, key, call, got, answer>>
    /\ UNCHANGED history

\* Mutant: the key is deleted before wg.Done(), and once more after it.
DoneDeletes(t) ==
    /\ pc[t] = "done"
    /\ calls' = [calls EXCEPT ![call[t]] = [done |-> TRUE, val |-> got[t]]]
    /\ m' = [m EXCEPT ![key[t]] = NoCall]
    /\ pc' = [pc EXCEPT ![t] = "delete"]
    /\ UNCHANGED <<source, cached, key, call, got, answer>> /\ UNCHANGED history

\* c.val, c.err = fn(); c.wg.Done()
Done(t) ==
    /\ pc[t] = "done"
    /\ calls' = [calls EXCEPT ![call[t]] = [done |-> TRUE, val |-> got[t]]]
    /\ pc' = [pc EXCEPT ![t] = "delete"]
    /\ UNCHANGED <<source, cached, m, key, call, got, answer>> /\ UNCHANGED history

\* Under g.mu: delete(g.m, key); then return c.val, c.err.
Delete(t) ==
    /\ pc[t] = "delete"
    /\ m' = [m EXCEPT ![key[t]] = NoCall]
    /\ Leave(t, calls[call[t]].val)
    /\ UNCHANGED <<source, cached, calls>>

\* c.wg.Wait() returned; return c.val, c.err.
Wait(t) ==
    /\ pc[t] = "wait" /\ calls[call[t]].done
    /\ Leave(t, calls[call[t]].val)
    /\ UNCHANGED shared

\* The goroutine's next step inside Get.
Step(t) ==
    \/ Hit(t) \/ Miss(t) \/ Join(t) \/ Register(t) \/ Load(t)
    \/ Populate(t) \/ Done(t) \/ Delete(t) \/ Wait(t)

Next ==
    \/ \E k \in Keys : Write(k)
    \/ \E t \in Threads, k \in Keys : Get(t, k)
    \/ \E t \in Threads : Step(t)

Spec == Init /\ [][Next]_vars

\* A goroutine that can run is run, and GetData comes back.
FairSpec == Spec /\ \A t \in Threads : WF_vars(Step(t))

-----------------------------------------------------------------------------
TypeOK ==
    /\ source \in [Keys -> Versions] /\ cached \in [Keys -> Versions]
    /\ m \in [Keys -> Calls \union {NoCall}]
    /\ calls \in [Calls -> [done: BOOLEAN, val: Versions]]
    /\ pc \in [Threads -> PCs]
    /\ key \in [Threads -> Keys \union {NoKey}]
    /\ \A t \in Threads : pc[t] # "idle" => key[t] \in Keys
    /\ call \in [Threads -> Calls \union {NoCall}]
    /\ got \in [Threads -> Versions] /\ answer \in [Threads -> Versions]
    /\ filled \in [Keys -> Versions] /\ high \in [Keys -> Versions]
    /\ floor \in [Threads -> Versions]

\* The key has a call that nobody is going to complete: its getter panicked.
Orphaned(k) ==
    /\ m[k] # NoCall /\ ~calls[m[k]].done
    /\ \A t \in Threads : ~(pc[t] \in Leading /\ call[t] = m[k])

\* Never two goroutines fetching one key, and never one fetching a key whose
\* registered call is another's: the delete at the end of Do removes its own
\* entry (singleflight.go:17-38).
OneLeaderPerKey ==
    /\ \A t, u \in Threads :
        (pc[t] \in Leading /\ pc[u] \in Leading /\ key[t] = key[u]) => t = u
    /\ \A t \in Threads :
        pc[t] \in Leading => m[key[t]] = call[t] /\ call[t] # NoCall

\* A goroutine in wg.Wait has a call of its own key, and unless that call is
\* done a goroutine is still working on it or the key is orphaned: no Done is
\* missed (singleflight.go:21-25, 32-33).
WaitersHaveALeader ==
    \A t \in Threads : (pc[t] = "wait" /\ ~calls[call[t]].done) =>
        /\ m[key[t]] = call[t]
        /\ \/ Orphaned(key[t])
           \/ \E u \in Threads : /\ pc[u] \in {"load", "populate", "done"}
                                 /\ call[u] = call[t] /\ key[u] = key[t]

\* A Get never returns an older version than one that a Get of the key had
\* returned before it began, whatever is evicted and written meanwhile and
\* whether it hits, loads or waits (Group.go:64-102 with singleflight.go).
MonotonicReads ==
    [][\A t \in Threads :
        (pc[t] # "idle" /\ pc'[t] = "idle" /\ answer'[t] # None)
            => answer'[t] >= floor[t]]_vars

\* The cache never goes back to older data: a slow loader cannot overwrite what
\* a later one stored (populateCache runs inside Do, Group.go:79-96).
CacheNeverGoesBack ==
    [][\A k \in Keys : filled'[k] >= filled[k] /\ cached'[k] \in {None, filled'[k]}]_vars

\* Once a Get of a key that is not evicted has returned data, Gets that begin
\* later do not reach the getter again ("avoids cache breakdown", README.md:71):
\* the cache is filled before any Get of the call returns.
FilledIsNotLoaded ==
    \A t \in Threads :
        (pc[t] # "idle" /\ floor[t] # None /\ key[t] \notin Evictable)
            => pc[t] = "lookup"

\* Every Get returns, unless the getter panicked for its key: a panic, an error
\* or a slow load of one key holds up no other key, and no waiter is forgotten.
EveryGetReturns ==
    \A t \in Threads : \A k \in Keys :
        (pc[t] # "idle" /\ key[t] = k) ~> (pc[t] = "idle" \/ Orphaned(k))

=============================================================================
