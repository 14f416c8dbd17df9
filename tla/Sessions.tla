------------------------------ MODULE Sessions ------------------------------
(***************************************************************************)
(* The requests of one client using session.Manager (session/manager.go)   *)
(* with a memory.Store or a redis.Store and the cookie.Propagator.  A      *)
(* handler calls the Manager's methods in any order and any number of      *)
(* times; requests run concurrently and interleave between two accesses to *)
(* the store.  A login generates a new id, as session_test.go does.        *)
(*                                                                         *)
(* A session is its id and the time it has left in the store.  Its fields  *)
(* are left out, but for what writing one does to a session that is gone:  *)
(* a handler may write any session it got from a method until it returns.  *)
(* All Set-Cookie headers of a response have one name, so only the last of *)
(* them counts for the client.  A method that returns an error before it   *)
(* changed anything is a step that changes nothing, and is not written.    *)
(***************************************************************************)
EXTENDS Naturals

CONSTANTS
    Requests,    \* requests of the client that may run at once
    Ids,         \* session ids
    Empty,       \* the empty id
    NoCookie,    \* the client has no session cookie
    None,        \* no session in UserValues
    Unsent,      \* no Set-Cookie header
    Expiration   \* of the store, in ticks

ASSUME IdsAssumption ==
    /\ Empty \notin Ids
    /\ {NoCookie, None, Unsent} \intersect (Ids \union {Empty}) = {}
    /\ NoCookie # None /\ NoCookie # Unsent /\ None # Unsent
ASSUME ExpirationAssumption == Expiration \in Nat \ {0}

Cookies == Ids \union {Empty}

\* The time left of a key without expiry.
Forever == Expiration + 1

VARIABLES
    kind,    \* the Manager's Store: memory or redis
    ages,    \* the propagator's cookieOpt sets MaxAge
    left,    \* left[id]: the time the store keeps id; 0: it is not there
    used,    \* ids given to InitSession
    jar,     \* the client's cookie
    pc,      \* idle, handler, or where r is in RefreshSession or RemoveSession
    cookie,  \* cookie[r]: the cookie r came with
    ctx,     \* ctx[r]: the session in r's UserValues
    held,    \* held[r]: the sessions that the methods returned to r's handler
    sent,    \* sent[r]: what the last Set-Cookie of r's response makes of the jar
    removed, \* history: removed[r], ids whose sessions r removed and nobody stored again
    plain    \* history: no requests overlapped, no response was lost, no method Fails

store == <<kind, ages, left, used, removed>>
vars == <<kind, ages, left, used, jar, pc, cookie, ctx, held, sent, removed, plain>>

-----------------------------------------------------------------------------
Init ==
    /\ kind \in {"memory", "redis"} /\ ages \in BOOLEAN
    /\ left = [id \in Cookies |-> 0]
    /\ used = {}
    /\ jar = NoCookie
    /\ pc = [r \in Requests |-> "idle"]
    /\ cookie = [r \in Requests |-> NoCookie]
    /\ ctx = [r \in Requests |-> None]
    /\ held = [r \in Requests |-> {}]
    /\ sent = [r \in Requests |-> Unsent]
    /\ removed = [r \in Requests |-> {}]
    /\ plain = TRUE

Arrive(r) ==
    /\ pc[r] = "idle"
    /\ pc' = [pc EXCEPT ![r] = "handler"]
    /\ cookie' = [cookie EXCEPT ![r] = jar]
    /\ plain' = (plain /\ \A q \in Requests : pc[q] = "idle")
    /\ UNCHANGED <<jar, ctx, held, sent>> /\ UNCHANGED store

\* The Context is gone with the request, and the handler has returned.
End(r) ==
    /\ pc[r] = "handler"
    /\ pc' = [pc EXCEPT ![r] = "idle"]
    /\ cookie' = [cookie EXCEPT ![r] = NoCookie]
    /\ ctx' = [ctx EXCEPT ![r] = None]
    /\ held' = [held EXCEPT ![r] = {}]
    /\ sent' = [sent EXCEPT ![r] = Unsent]
    /\ UNCHANGED store

\* The client stores the cookie of the response (external).
Answer(r) ==
    /\ End(r)
    /\ jar' = IF sent[r] = Unsent THEN jar ELSE sent[r]
    /\ UNCHANGED plain

\* The handler panicked, or the response did not get to the client (external).
Lose(r) == End(r) /\ plain' = FALSE /\ UNCHANGED jar

-----------------------------------------------------------------------------
\* cache.Get(id), which does not see an expired session.
MemoryFinds(id) == left[id] > 0

\* Exists answers 0 or 1, never less than 0.
RedisFinds(id) == TRUE

StoreFinds(id) == IF kind = "memory" THEN MemoryFinds(id) ELSE RedisFinds(id)

\* GetSession as the first call of a method that goes on at then: the session in
\* UserValues, else the one of the request's cookie, which is kept there.
Fetch(r, then) ==
    /\ pc[r] = "handler"
    /\ ctx[r] # None \/ (cookie[r] # NoCookie /\ StoreFinds(cookie[r]))
    /\ ctx' = [ctx EXCEPT ![r] = IF @ = None THEN cookie[r] ELSE @]
    /\ pc' = [pc EXCEPT ![r] = then]
    /\ UNCHANGED <<jar, cookie, sent, plain>> /\ UNCHANGED store

\* The method returns a session, which the handler then holds.
Returns(r, id) == held' = [held EXCEPT ![r] = @ \union {id}]

GetSession(r) == Fetch(r, "handler") /\ Returns(r, ctx'[r])
RefreshSession(r) == Fetch(r, "refresh") /\ UNCHANGED held
RemoveSession(r) == Fetch(r, "remove") /\ UNCHANGED held

\* A Redis command of r's method fails, done (left is then left_) or not; the
\* method returns its error and does nothing more.
Fails(r, left_) ==
    /\ kind = "redis"
    /\ left' \in {left, left_}
    /\ pc' = [pc EXCEPT ![r] = "handler"]
    /\ plain' = FALSE
    /\ UNCHANGED <<kind, ages, jar, cookie, ctx, held, sent, removed>>

\* Inject: a cookie with the id.
Inject(r, id) == sent' = [sent EXCEPT ![r] = id]

\* Mutant: a session is kept until it is removed.
MemoryGenerateForever(id) == [left EXCEPT ![id] = Forever]

MemoryGenerate(id) == [left EXCEPT ![id] = Expiration]

\* HSet of the hash, then Expire of another key.
RedisGenerate(id) == [left EXCEPT ![id] = Forever]

Generate(id) == IF kind = "memory" THEN MemoryGenerate(id) ELSE RedisGenerate(id)

InitSession(r, id) ==
    /\ pc[r] = "handler" /\ id \notin used
    /\ used' = used \union {id}
    /\ \/ /\ left' = Generate(id)
          /\ Inject(r, id)
          /\ ctx' = [ctx EXCEPT ![r] = id]
          /\ Returns(r, id)
          /\ UNCHANGED <<kind, ages, jar, pc, cookie, removed, plain>>
       \/ Fails(r, Generate(id))

-----------------------------------------------------------------------------
\* Mutant: the session is stored again without a look into the store.
MemoryRefreshBlind(r) ==
    /\ pc[r] = "refresh" /\ kind = "memory"
    /\ pc' = [pc EXCEPT ![r] = "restore"]
    /\ UNCHANGED <<jar, cookie, ctx, held, sent, plain>> /\ UNCHANGED store

\* memory.Store.Refresh gets the session, under the read lock, or fails.
MemoryRefresh(r) ==
    /\ pc[r] = "refresh" /\ kind = "memory"
    /\ pc' = [pc EXCEPT ![r] = IF MemoryFinds(ctx[r]) THEN "restore" ELSE "handler"]
    /\ UNCHANGED <<jar, cookie, ctx, held, sent, plain>> /\ UNCHANGED store

\* A session that is in the store again is not one that was removed.
Stored(id) == removed' = [q \in Requests |-> removed[q] \ {id}]

\* The session of r is in the store for Expiration, in the cookie and returned.
Prolong(r) ==
    /\ left' = [left EXCEPT ![ctx[r]] = Expiration]
    /\ Inject(r, ctx[r])
    /\ Returns(r, ctx[r])
    /\ pc' = [pc EXCEPT ![r] = "handler"]
    /\ Stored(ctx[r])
    /\ UNCHANGED <<kind, ages, used, jar, cookie, ctx, plain>>

\* It sets it again, under the write lock, whether it is still there or not.
MemoryRestore(r) == pc[r] = "restore" /\ Prolong(r)

\* redis.Store.Refresh: Expire, which answers whether the key is there.
RedisRefresh(r) ==
    /\ pc[r] = "refresh" /\ kind = "redis"
    /\ \/ left[ctx[r]] > 0 /\ Prolong(r)
       \/ /\ left[ctx[r]] = 0
          /\ pc' = [pc EXCEPT ![r] = "handler"]
          /\ UNCHANGED <<jar, cookie, ctx, held, sent, plain>> /\ UNCHANGED store
       \/ /\ Fails(r, [left EXCEPT ![ctx[r]] = IF @ = 0 THEN 0 ELSE Expiration])
          /\ UNCHANGED used

\* Propagator.Remove: an empty cookie that is to be deleted, unless cookieOpt,
\* which comes after, gives it an age.
RemoveCookie(r) == sent' = [sent EXCEPT ![r] = IF ages THEN Empty ELSE NoCookie]

\* Mutant: the session stays in UserValues.
RemoveKeepsValue(r) ==
    /\ pc[r] = "remove"
    /\ left' = [left EXCEPT ![ctx[r]] = 0]
    /\ removed' = [removed EXCEPT ![r] = @ \union ({ctx[r]} \intersect Ids)]
    /\ RemoveCookie(r)
    /\ pc' = [pc EXCEPT ![r] = "handler"]
    /\ UNCHANGED <<kind, ages, used, jar, cookie, ctx, held, plain>>

\* Mutant: the cookie stays with the client.
RemoveKeepsCookie(r) ==
    /\ pc[r] = "remove"
    /\ left' = [left EXCEPT ![ctx[r]] = 0]
    /\ removed' = [removed EXCEPT ![r] = @ \union ({ctx[r]} \intersect Ids)]
    /\ ctx' = [ctx EXCEPT ![r] = None]
    /\ pc' = [pc EXCEPT ![r] = "handler"]
    /\ UNCHANGED <<kind, ages, used, jar, cookie, held, sent, plain>>

\* Store.Remove, whether the session is there or not.
Deleted(id) == [left EXCEPT ![id] = 0]

\* RemoveSession goes on: Store.Remove, then UserValues, then the cookie.
Remove(r) ==
    /\ pc[r] = "remove"
    /\ \/ /\ left' = Deleted(ctx[r])
          /\ removed' = [removed EXCEPT ![r] = @ \union ({ctx[r]} \intersect Ids)]
          /\ ctx' = [ctx EXCEPT ![r] = None]
          /\ RemoveCookie(r)
          /\ pc' = [pc EXCEPT ![r] = "handler"]
          /\ UNCHANGED <<kind, ages, used, jar, cookie, held, plain>>
       \/ Fails(r, Deleted(ctx[r])) /\ UNCHANGED used

\* redis.Session.Set of a session the handler holds, whatever became of it since:
\* exists answers 0 or 1 to the script, and both are true in Lua, so the hash is
\* written, and made if it is gone.  An Eval that fails has done this or nothing.
Set(r) ==
    /\ pc[r] = "handler" /\ kind = "redis"
    /\ \E id \in held[r] :
        /\ left[id] = 0
        /\ left' = [left EXCEPT ![id] = Forever]
        /\ Stored(id)
    /\ UNCHANGED <<kind, ages, used, jar, pc, cookie, ctx, held, sent, plain>>

\* Time passes for what has an expiry.
Expiring == {id \in Cookies : left[id] \in 1..Expiration}

Tick ==
    /\ Expiring # {}
    /\ left' = [id \in Cookies |-> IF id \in Expiring THEN left[id] - 1 ELSE left[id]]
    /\ UNCHANGED <<kind, ages, used, jar, pc, cookie, ctx, held, sent, removed, plain>>

Step(r) ==
    \/ Arrive(r) \/ Answer(r) \/ Lose(r)
    \/ GetSession(r) \/ RefreshSession(r) \/ RemoveSession(r)
    \/ MemoryRefresh(r) \/ MemoryRestore(r) \/ RedisRefresh(r) \/ Remove(r) \/ Set(r)

Next ==
    \/ \E r \in Requests : Step(r)
    \/ \E r \in Requests, id \in Ids : InitSession(r, id)
    \/ Tick

Spec == Init /\ [][Next]_vars

\* Time passes; no request, nor its client, has to go on.
FairSpec == Spec /\ WF_vars(Tick)

-----------------------------------------------------------------------------
TypeOK ==
    /\ kind \in {"memory", "redis"} /\ ages \in BOOLEAN /\ plain \in BOOLEAN
    /\ left \in [Cookies -> 0..Forever]
    /\ used \subseteq Ids
    /\ jar \in Cookies \union {NoCookie}
    /\ pc \in [Requests -> {"idle", "handler", "refresh", "restore", "remove"}]
    /\ cookie \in [Requests -> Cookies \union {NoCookie}]
    /\ ctx \in [Requests -> Cookies \union {None}]
    /\ held \in [Requests -> SUBSET Cookies]
    /\ sent \in [Requests -> Cookies \union {NoCookie, Unsent}]
    /\ removed \in [Requests -> SUBSET Ids]
    /\ \A r \in Requests :
        /\ pc[r] = "idle" =>
            cookie[r] = NoCookie /\ ctx[r] = None /\ held[r] = {} /\ sent[r] = Unsent
        /\ pc[r] \in {"refresh", "restore", "remove"} => ctx[r] \in Cookies

\* The session in a request's UserValues is the one its client came with, or the one
\* that its response tells the client; in memory it is none that the request itself
\* removed and nobody stored again.  In Redis it may be: GetSession after
\* RemoveSession finds the session of the cookie, whether it is there or not
\* (manager.go:13-87, redis/store_noLua.go:92).
OwnSession ==
    \A r \in Requests : ctx[r] # None =>
        /\ ctx[r] \in {cookie[r], sent[r]}
        /\ kind = "memory" => ctx[r] \notin removed[r]

\* A client whose requests did not overlap, and were all answered without a Redis
\* error, never has the cookie of a removed session left: of the methods called,
\* in whatever order, the last Set-Cookie tells it (manager.go:74-87).  It may
\* be the empty id that is left of a cookie when cookieOpt sets an age.
ClientKnows ==
    (plain /\ \A r \in Requests : pc[r] = "idle") =>
        \A r \in Requests : jar \notin removed[r]

\* Neither the client nor one of its requests names the session, and no handler
\* holds it.
Forgotten(id) ==
    id # jar /\ \A r \in Requests : id \notin {cookie[r], ctx[r], sent[r]} \union held[r]

\* In memory only a Refresh between its two locks stores a session that is not there.
\* In Redis everyone who names such a session gets it, and everyone who holds it
\* makes it again by writing it.
Gone(id) ==
    /\ id \in used /\ left[id] = 0
    /\ \/ kind = "memory" /\ \A r \in Requests : ~(pc[r] = "restore" /\ ctx[r] = id)
       \/ kind = "redis" /\ Forgotten(id)

\* A session that was removed or has expired stays so: in memory whatever requests,
\* cookies and UserValues still name it, unless a Refresh is about to store it
\* again; in Redis once no request, response or client names it and no handler
\* holds it (memory/store.go:53-82, redis/store_noLua.go:59-131).
GoneForGood == [][\A id \in Ids : Gone(id) => Gone(id)']_vars

\* A session that was given out and that no one names or holds any longer leaves the store,
\* whatever order its requests ended in; in Redis only if it got an expiry, which
\* Generate does not give it (store_noLua.go:47).
ForgottenExpires ==
    \A id \in Ids : (id \in used /\ Forgotten(id)) ~>
        (left[id] = 0 \/ (kind = "redis" /\ left[id] = Forever))

=============================================================================
