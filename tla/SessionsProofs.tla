--------------------------- MODULE SessionsProofs ---------------------------
(***************************************************************************)
(* Proofs about Sessions, for any number of concurrent requests, ids and   *)
(* any expiration, with either store and either kind of cookie.            *)
(*                                                                         *)
(* Every id that occurs anywhere was given to InitSession before (Named),  *)
(* so that a login never hits a session that was removed.  As long as the  *)
(* client does one request at a time, its cookie is the running request's, *)
(* and if that session is removed the response already says so (Known).    *)
(* In memory a removed session is not there for a request to find (Lost).  *)
(***************************************************************************)
EXTENDS Sessions, TLAPS

\* Ids that occur are in use.
Named ==
    /\ jar \in Ids => jar \in used
    /\ \A r \in Requests :
        /\ cookie[r] \in Ids => cookie[r] \in used
        /\ ctx[r] \in Ids => ctx[r] \in used
        /\ sent[r] \in Ids => sent[r] \in used
        /\ held[r] \intersect Ids \subseteq used
        /\ removed[r] \subseteq used

\* In memory, a session that was removed is not in the store until it is stored again.
Lost == kind = "memory" => \A r \in Requests : \A id \in removed[r] : left[id] = 0

\* What a client that does one request at a time, and gets its answers, knows.
Known ==
    plain =>
        /\ \A r, q \in Requests : (pc[r] # "idle" /\ pc[q] # "idle") => r = q
        /\ \A r, q \in Requests : sent[r] \notin removed[q]
        /\ \/ \A r \in Requests : jar \notin removed[r]
           \/ \E r \in Requests : sent[r] # Unsent

IInv == TypeOK /\ Named /\ Lost /\ OwnSession /\ Known

\* The invariant holds before the first request.
THEOREM InitIInv == Init => IInv
  <1> SUFFICES ASSUME Init PROVE IInv
    OBVIOUS
  <1>1. TypeOK
    BY ExpirationAssumption DEF Init, TypeOK, Forever
  <1>2. Named /\ Lost /\ OwnSession /\ Known
    BY IdsAssumption DEF Init, Named, Lost, OwnSession, Known
  <1> QED BY <1>1, <1>2 DEF IInv

\* A failed command changes left as it would have, or not at all.
LEMMA FailureType ==
    ASSUME NEW r \in Requests, NEW left_ \in [Cookies -> 0..Forever], TypeOK,
           Fails(r, left_), pc[r] # "idle", used' \subseteq Ids
    PROVE  TypeOK'
  <1>1. plain' \in BOOLEAN
    BY DEF Fails
  <1>2. left' \in [Cookies -> 0..Forever]
    BY DEF Fails, TypeOK
  <1>3. pc' = [pc EXCEPT ![r] = "handler"]
    BY DEF Fails
  <1>4. UNCHANGED <<kind, ages, jar, cookie, ctx, held, sent, removed>>
    BY DEF Fails
  <1> QED BY <1>1, <1>2, <1>3, <1>4 DEF TypeOK

\* After a failure the client may not know.
LEMMA FailureKnown == \A r \in Requests : \A left_ : Fails(r, left_) => Known'
  BY DEF Fails, Known

\* The variables keep their types.
LEMMA TypeStep == IInv /\ [Next]_vars => TypeOK'
  <1> SUFFICES ASSUME IInv, [Next]_vars PROVE TypeOK'
    OBVIOUS
  <1>1. ASSUME NEW r \in Requests, Arrive(r) PROVE TypeOK'
    BY <1>1, IdsAssumption, ExpirationAssumption
       DEF Arrive, store, IInv, TypeOK, Forever, Cookies
  <1>2. ASSUME NEW r \in Requests, Answer(r) PROVE TypeOK'
    BY <1>2, IdsAssumption, ExpirationAssumption
       DEF Answer, End, store, IInv, TypeOK, Forever, Cookies
  <1>3. ASSUME NEW r \in Requests, Lose(r) PROVE TypeOK'
    BY <1>3, IdsAssumption, ExpirationAssumption
       DEF Lose, End, store, IInv, TypeOK, Forever, Cookies
  <1>4. ASSUME NEW r \in Requests, GetSession(r) PROVE TypeOK'
    BY <1>4, IdsAssumption, ExpirationAssumption
       DEF GetSession, Fetch, Returns, store, IInv, TypeOK, Forever, Cookies
  <1>5. ASSUME NEW r \in Requests, RefreshSession(r) PROVE TypeOK'
    BY <1>5, IdsAssumption, ExpirationAssumption
       DEF RefreshSession, Fetch, store, IInv, TypeOK, Forever, Cookies
  <1>6. ASSUME NEW r \in Requests, RemoveSession(r) PROVE TypeOK'
    BY <1>6, IdsAssumption, ExpirationAssumption
       DEF RemoveSession, Fetch, store, IInv, TypeOK, Forever, Cookies
  <1>7. ASSUME NEW r \in Requests, MemoryRefresh(r) PROVE TypeOK'
    BY <1>7, IdsAssumption, ExpirationAssumption
       DEF MemoryRefresh, store, IInv, TypeOK, Forever, Cookies
  <1>8. ASSUME NEW r \in Requests, MemoryRestore(r) PROVE TypeOK'
    BY <1>8, IdsAssumption, ExpirationAssumption
       DEF MemoryRestore, Prolong, Inject, Returns, Stored, IInv, TypeOK, Forever, Cookies
  <1>9. ASSUME NEW r \in Requests, RedisRefresh(r) PROVE TypeOK'
    <2> DEFINE new == [left EXCEPT ![ctx[r]] = IF @ = 0 THEN 0 ELSE Expiration]
    <2>1. CASE Fails(r, new) /\ UNCHANGED used
      <3>1. new \in [Cookies -> 0..Forever] /\ used \subseteq Ids /\ TypeOK /\ pc[r] # "idle"
        BY <1>9, ExpirationAssumption DEF RedisRefresh, IInv, TypeOK, Forever
      <3> HIDE DEF new
      <3> QED BY <2>1, <3>1, FailureType
    <2>2. CASE ~Fails(r, new)
      BY <1>9, <2>2, IdsAssumption, ExpirationAssumption
         DEF RedisRefresh, Prolong, Inject, Returns, Stored, store, IInv, TypeOK, Forever, Cookies
    <2> QED BY <1>9, <2>1, <2>2 DEF RedisRefresh, Prolong, store
  <1>10. ASSUME NEW r \in Requests, Remove(r) PROVE TypeOK'
    <2> DEFINE new == [left EXCEPT ![ctx[r]] = 0]
    <2>0. new \in [Cookies -> 0..Forever] /\ used \subseteq Ids /\ TypeOK /\ pc[r] # "idle"
      BY <1>10, ExpirationAssumption DEF Remove, IInv, TypeOK, Forever
    <2>1. CASE Fails(r, new) /\ UNCHANGED used
      <3> HIDE DEF new
      <3> QED BY <2>1, <2>0, FailureType
    <2>2. CASE ~Fails(r, new)
      <3>1. /\ left' = new /\ removed' = [removed EXCEPT ![r] = @ \union ({ctx[r]} \intersect Ids)]
            /\ ctx' = [ctx EXCEPT ![r] = None] /\ pc' = [pc EXCEPT ![r] = "handler"]
            /\ sent' = [sent EXCEPT ![r] = IF ages THEN Empty ELSE NoCookie]
            /\ UNCHANGED <<kind, ages, used, jar, cookie, held, plain>>
        BY <1>10, <2>2 DEF Remove, Deleted, RemoveCookie
      <3>2. removed' \in [Requests -> SUBSET Ids]
        BY <3>1 DEF IInv, TypeOK
      <3>3. sent' \in [Requests -> Cookies \union {NoCookie, Unsent}]
        BY <3>1 DEF IInv, TypeOK, Cookies
      <3> HIDE DEF new
      <3> QED BY <2>0, <3>1, <3>2, <3>3 DEF TypeOK
    <2> QED BY <1>10, <2>1, <2>2 DEF Remove
  <1>11. ASSUME NEW r \in Requests, Set(r) PROVE TypeOK'
    BY <1>11, IdsAssumption, ExpirationAssumption
       DEF Set, Stored, IInv, TypeOK, Forever, Cookies
  <1>12. ASSUME NEW r \in Requests, NEW id \in Ids, InitSession(r, id) PROVE TypeOK'
    <2>1. Generate(id) \in [Cookies -> 0..Forever]
      BY <1>12, ExpirationAssumption
         DEF Generate, MemoryGenerate, RedisGenerate, IInv, TypeOK, Forever, Cookies
    <2>2. used' \subseteq Ids /\ TypeOK /\ pc[r] # "idle"
      BY <1>12 DEF InitSession, IInv, TypeOK
    <2>3. CASE Fails(r, Generate(id))
      BY <2>1, <2>2, <2>3, FailureType
    <2>4. CASE ~Fails(r, Generate(id))
      BY <1>12, <2>1, <2>2, <2>4, IdsAssumption DEF InitSession, Inject, Returns, TypeOK, Cookies
    <2> QED BY <2>3, <2>4
  <1>13. CASE Tick
    BY <1>13, IdsAssumption, ExpirationAssumption
       DEF Tick, Expiring, IInv, TypeOK, Forever, Cookies
  <1>14. CASE UNCHANGED vars
    BY <1>14 DEF vars, IInv, TypeOK, Forever, Cookies
  <1> QED BY <1>1, <1>2, <1>3, <1>4, <1>5, <1>6, <1>7, <1>8, <1>9, <1>10, <1>11, <1>12, <1>13, <1>14
     DEF Next, Step

\* Nothing but InitSession brings in an id.
LEMMA NamedStep == IInv /\ [Next]_vars => Named'
  <1> SUFFICES ASSUME IInv, [Next]_vars PROVE Named'
    OBVIOUS
  <1>1. ASSUME NEW r \in Requests, Arrive(r) PROVE Named'
    BY <1>1, IdsAssumption DEF Arrive, store, IInv, TypeOK, Named, Cookies
  <1>2. ASSUME NEW r \in Requests, Answer(r) PROVE Named'
    BY <1>2, IdsAssumption DEF Answer, End, store, IInv, TypeOK, Named, Cookies
  <1>3. ASSUME NEW r \in Requests, Lose(r) PROVE Named'
    BY <1>3, IdsAssumption DEF Lose, End, store, IInv, TypeOK, Named, Cookies
  <1>4. ASSUME NEW r \in Requests, GetSession(r) PROVE Named'
    BY <1>4, IdsAssumption DEF GetSession, Fetch, Returns, store, IInv, TypeOK, Named, Cookies
  <1>5. ASSUME NEW r \in Requests, RefreshSession(r) PROVE Named'
    BY <1>5, IdsAssumption
       DEF RefreshSession, Fetch, store, IInv, TypeOK, Named, Cookies
  <1>6. ASSUME NEW r \in Requests, RemoveSession(r) PROVE Named'
    BY <1>6, IdsAssumption DEF RemoveSession, Fetch, store, IInv, TypeOK, Named, Cookies
  <1>7. ASSUME NEW r \in Requests, MemoryRefresh(r) PROVE Named'
    BY <1>7, IdsAssumption DEF MemoryRefresh, store, IInv, TypeOK, Named, Cookies
  <1>8. ASSUME NEW r \in Requests, MemoryRestore(r) PROVE Named'
    BY <1>8, IdsAssumption
       DEF MemoryRestore, Prolong, Inject, Returns, Stored, IInv, TypeOK, Named, Cookies
  <1>9. ASSUME NEW r \in Requests, RedisRefresh(r) PROVE Named'
    BY <1>9, IdsAssumption
       DEF RedisRefresh, Prolong, Inject, Returns, Stored, Fails, store, IInv, TypeOK, Named,
           Cookies
  <1>10. ASSUME NEW r \in Requests, Remove(r) PROVE Named'
    BY <1>10, IdsAssumption
       DEF Remove, Deleted, RemoveCookie, Fails, IInv, TypeOK, Named, Cookies
  <1>11. ASSUME NEW r \in Requests, Set(r) PROVE Named'
    BY <1>11, IdsAssumption DEF Set, Stored, IInv, TypeOK, Named, Cookies
  <1>12. ASSUME NEW r \in Requests, NEW id \in Ids, InitSession(r, id) PROVE Named'
    BY <1>12, IdsAssumption
       DEF InitSession, Inject, Returns, Generate, MemoryGenerate, RedisGenerate,
           Fails, IInv, TypeOK, Named, Cookies
  <1>13. CASE Tick
    BY <1>13, IdsAssumption DEF Tick, Expiring, IInv, TypeOK, Named, Cookies
  <1>14. CASE UNCHANGED vars
    BY <1>14 DEF vars, IInv, TypeOK, Named, Cookies
  <1> QED BY <1>1, <1>2, <1>3, <1>4, <1>5, <1>6, <1>7, <1>8, <1>9, <1>10, <1>11, <1>12, <1>13, <1>14
     DEF Next, Step

\* What is stored again in memory is not what was removed.
LEMMA LostStep == IInv /\ [Next]_vars => Lost'
  <1> SUFFICES ASSUME IInv, [Next]_vars PROVE Lost'
    OBVIOUS
  <1>1. ASSUME NEW r \in Requests, Arrive(r) PROVE Lost'
    BY <1>1, IdsAssumption DEF Arrive, store, IInv, TypeOK, Lost, Cookies
  <1>2. ASSUME NEW r \in Requests, Answer(r) PROVE Lost'
    BY <1>2, IdsAssumption DEF Answer, End, store, IInv, TypeOK, Lost, Cookies
  <1>3. ASSUME NEW r \in Requests, Lose(r) PROVE Lost'
    BY <1>3, IdsAssumption DEF Lose, End, store, IInv, TypeOK, Lost, Cookies
  <1>4. ASSUME NEW r \in Requests, GetSession(r) PROVE Lost'
    BY <1>4, IdsAssumption
       DEF GetSession, Fetch, Returns, store, IInv, TypeOK, Lost, Cookies
  <1>5. ASSUME NEW r \in Requests, RefreshSession(r) PROVE Lost'
    BY <1>5, IdsAssumption
       DEF RefreshSession, Fetch, store, IInv, TypeOK, Lost, Cookies
  <1>6. ASSUME NEW r \in Requests, RemoveSession(r) PROVE Lost'
    BY <1>6, IdsAssumption
       DEF RemoveSession, Fetch, store, IInv, TypeOK, Lost, Cookies
  <1>7. ASSUME NEW r \in Requests, MemoryRefresh(r) PROVE Lost'
    BY <1>7, IdsAssumption DEF MemoryRefresh, store, IInv, TypeOK, Lost, Cookies
  <1>8. ASSUME NEW r \in Requests, MemoryRestore(r) PROVE Lost'
    BY <1>8, IdsAssumption
       DEF MemoryRestore, Prolong, Inject, Returns, Stored, IInv, TypeOK, Lost, Cookies
  <1>9. ASSUME NEW r \in Requests, RedisRefresh(r) PROVE Lost'
    BY <1>9, IdsAssumption
       DEF RedisRefresh, Prolong, Inject, Returns, Stored, Fails, store, IInv, TypeOK,
           Lost, Cookies
  <1>10. ASSUME NEW r \in Requests, Remove(r) PROVE Lost'
    BY <1>10, IdsAssumption
       DEF Remove, Deleted, RemoveCookie, Fails, IInv, TypeOK, Lost, Cookies
  <1>11. ASSUME NEW r \in Requests, Set(r) PROVE Lost'
    BY <1>11, IdsAssumption DEF Set, Stored, IInv, TypeOK, Lost, Cookies
  <1>12. ASSUME NEW r \in Requests, NEW id \in Ids, InitSession(r, id) PROVE Lost'
    BY <1>12, IdsAssumption
       DEF InitSession, Inject, Returns, Generate, MemoryGenerate, RedisGenerate,
           Fails, IInv, TypeOK, Named, Lost, Cookies
  <1>13. CASE Tick
    BY <1>13, IdsAssumption DEF Tick, Expiring, IInv, TypeOK, Lost, Cookies
  <1>14. CASE UNCHANGED vars
    BY <1>14 DEF vars, IInv, TypeOK, Lost, Cookies
  <1> QED BY <1>1, <1>2, <1>3, <1>4, <1>5, <1>6, <1>7, <1>8, <1>9, <1>10, <1>11, <1>12, <1>13, <1>14
     DEF Next, Step

\* The session in UserValues comes from the cookie or goes into one, and memory does
\* not find one that was removed.
LEMMA OwnStep == IInv /\ [Next]_vars => OwnSession'
  <1> SUFFICES ASSUME IInv, [Next]_vars PROVE OwnSession'
    OBVIOUS
  <1>1. ASSUME NEW r \in Requests, Arrive(r) PROVE OwnSession'
    BY <1>1, IdsAssumption DEF Arrive, store, IInv, TypeOK, OwnSession, Cookies
  <1>2. ASSUME NEW r \in Requests, Answer(r) PROVE OwnSession'
    BY <1>2, IdsAssumption DEF Answer, End, store, IInv, TypeOK, OwnSession, Cookies
  <1>3. ASSUME NEW r \in Requests, Lose(r) PROVE OwnSession'
    BY <1>3, IdsAssumption DEF Lose, End, store, IInv, TypeOK, OwnSession, Cookies
  <1>4. ASSUME NEW r \in Requests, GetSession(r) PROVE OwnSession'
    BY <1>4, IdsAssumption
       DEF GetSession, Fetch, StoreFinds, MemoryFinds, Returns, store, IInv, TypeOK,
           Lost, OwnSession, Cookies
  <1>5. ASSUME NEW r \in Requests, RefreshSession(r) PROVE OwnSession'
    BY <1>5, IdsAssumption
       DEF RefreshSession, Fetch, StoreFinds, MemoryFinds, store, IInv, TypeOK,
           Lost, OwnSession, Cookies
  <1>6. ASSUME NEW r \in Requests, RemoveSession(r) PROVE OwnSession'
    BY <1>6, IdsAssumption
       DEF RemoveSession, Fetch, StoreFinds, MemoryFinds, store, IInv, TypeOK,
           Lost, OwnSession, Cookies
  <1>7. ASSUME NEW r \in Requests, MemoryRefresh(r) PROVE OwnSession'
    BY <1>7, IdsAssumption DEF MemoryRefresh, store, IInv, TypeOK, OwnSession, Cookies
  <1>8. ASSUME NEW r \in Requests, MemoryRestore(r) PROVE OwnSession'
    BY <1>8, IdsAssumption
       DEF MemoryRestore, Prolong, Inject, Returns, Stored, IInv, TypeOK, OwnSession, Cookies
  <1>9. ASSUME NEW r \in Requests, RedisRefresh(r) PROVE OwnSession'
    BY <1>9, IdsAssumption
       DEF RedisRefresh, Prolong, Inject, Returns, Stored, Fails, store, IInv, TypeOK,
           OwnSession, Cookies
  <1>10. ASSUME NEW r \in Requests, Remove(r) PROVE OwnSession'
    BY <1>10, IdsAssumption
       DEF Remove, Deleted, RemoveCookie, Fails, IInv, TypeOK, OwnSession, Cookies
  <1>11. ASSUME NEW r \in Requests, Set(r) PROVE OwnSession'
    BY <1>11, IdsAssumption DEF Set, Stored, IInv, TypeOK, OwnSession, Cookies
  <1>12. ASSUME NEW r \in Requests, NEW id \in Ids, InitSession(r, id) PROVE OwnSession'
    BY <1>12, IdsAssumption
       DEF InitSession, Inject, Returns, Generate, MemoryGenerate, RedisGenerate,
           Fails, IInv, TypeOK, Named, OwnSession, Cookies
  <1>13. CASE Tick
    BY <1>13, IdsAssumption DEF Tick, Expiring, IInv, TypeOK, OwnSession, Cookies
  <1>14. CASE UNCHANGED vars
    BY <1>14 DEF vars, IInv, TypeOK, OwnSession, Cookies
  <1> QED BY <1>1, <1>2, <1>3, <1>4, <1>5, <1>6, <1>7, <1>8, <1>9, <1>10, <1>11, <1>12, <1>13, <1>14
     DEF Next, Step

\* A removed session's cookie is taken back by the response.
LEMMA KnownStep == IInv /\ [Next]_vars => Known'
  <1> SUFFICES ASSUME IInv, [Next]_vars PROVE Known'
    OBVIOUS
  <1>1. ASSUME NEW r \in Requests, Arrive(r) PROVE Known'
    <2> SUFFICES ASSUME plain' PROVE Known'
      BY DEF Known
    <2>1. plain /\ \A q \in Requests : pc[q] = "idle"
      BY <1>1 DEF Arrive
    <2>2. pc' = [pc EXCEPT ![r] = "handler"] /\ UNCHANGED <<jar, sent, removed>>
      BY <1>1 DEF Arrive, store
    <2>3. \A p, q \in Requests : (pc'[p] # "idle" /\ pc'[q] # "idle") => p = q
      BY <2>1, <2>2 DEF IInv, TypeOK
    <2> QED BY <2>1, <2>2, <2>3 DEF IInv, Known
  <1>2. ASSUME NEW r \in Requests, Answer(r) PROVE Known'
    BY <1>2, IdsAssumption DEF Answer, End, store, IInv, TypeOK, Named, Known, Cookies
  <1>3. ASSUME NEW r \in Requests, Lose(r) PROVE Known'
    BY <1>3, IdsAssumption DEF Lose, End, store, IInv, TypeOK, Named, Known, Cookies
  <1>4. ASSUME NEW r \in Requests, GetSession(r) PROVE Known'
    BY <1>4, IdsAssumption
       DEF GetSession, Fetch, Returns, store, IInv, TypeOK, Named, Known, Cookies
  <1>5. ASSUME NEW r \in Requests, RefreshSession(r) PROVE Known'
    BY <1>5, IdsAssumption
       DEF RefreshSession, Fetch, store, IInv, TypeOK, Named, Known, Cookies
  <1>6. ASSUME NEW r \in Requests, RemoveSession(r) PROVE Known'
    BY <1>6, IdsAssumption
       DEF RemoveSession, Fetch, store, IInv, TypeOK, Named, Known, Cookies
  <1>7. ASSUME NEW r \in Requests, MemoryRefresh(r) PROVE Known'
    BY <1>7, IdsAssumption DEF MemoryRefresh, store, IInv, TypeOK, Named, Known, Cookies
  <1>8. ASSUME NEW r \in Requests, MemoryRestore(r) PROVE Known'
    BY <1>8, IdsAssumption
       DEF MemoryRestore, Prolong, Inject, Returns, Stored, IInv, TypeOK,
           Named, Known, Cookies
  <1>9. ASSUME NEW r \in Requests, RedisRefresh(r) PROVE Known'
    <2> DEFINE new == [left EXCEPT ![ctx[r]] = IF @ = 0 THEN 0 ELSE Expiration]
    <2>1. Fails(r, new) \/ Prolong(r) \/ /\ pc' = [pc EXCEPT ![r] = "handler"]
                                         /\ UNCHANGED <<jar, cookie, ctx, held, sent, plain>>
                                         /\ UNCHANGED store
      BY <1>9, Zenon DEF RedisRefresh
    <2>2. CASE Prolong(r)
      BY <1>9, <2>2, IdsAssumption
         DEF RedisRefresh, Prolong, Inject, Returns, Stored, IInv, TypeOK, Named, Known, Cookies
    <2>3. CASE /\ pc' = [pc EXCEPT ![r] = "handler"]
               /\ UNCHANGED <<jar, cookie, ctx, held, sent, plain>>
               /\ UNCHANGED store
      BY <1>9, <2>3 DEF RedisRefresh, store, IInv, TypeOK, Known
    <2> HIDE DEF new
    <2> QED BY <2>1, <2>2, <2>3, FailureKnown
  <1>10. ASSUME NEW r \in Requests, Remove(r) PROVE Known'
    <2>1. CASE \E left_ : Fails(r, left_)
      BY <2>1, FailureKnown
    <2>2. CASE ~\E left_ : Fails(r, left_)
      <3>1. sent'[r] \in {Empty, NoCookie} /\ sent' = [sent EXCEPT ![r] = sent'[r]]
            /\ removed' = [removed EXCEPT ![r] = @ \union ({ctx[r]} \intersect Ids)]
            /\ pc' = [pc EXCEPT ![r] = "handler"]
            /\ plain' = plain /\ jar' = jar /\ pc[r] = "remove"
        BY <1>10, <2>2 DEF Remove, Deleted, RemoveCookie, IInv, TypeOK
      <3> QED BY <3>1, IdsAssumption DEF IInv, TypeOK, Known, Cookies
    <2> QED BY <2>1, <2>2
  <1>11. ASSUME NEW r \in Requests, Set(r) PROVE Known'
    BY <1>11, IdsAssumption DEF Set, Stored, IInv, TypeOK, Named, Known, Cookies
  <1>12. ASSUME NEW r \in Requests, NEW id \in Ids, InitSession(r, id) PROVE Known'
    <2>1. CASE Fails(r, Generate(id))
      BY <2>1, FailureKnown
    <2>2. CASE ~Fails(r, Generate(id))
      <3>1. sent' = [sent EXCEPT ![r] = id] /\ UNCHANGED <<jar, pc, plain, removed>>
            /\ pc[r] = "handler" /\ id \notin used
        BY <1>12, <2>2 DEF InitSession, Inject
      <3> QED BY <3>1, IdsAssumption DEF IInv, TypeOK, Named, Known, Cookies
    <2> QED BY <2>1, <2>2
  <1>13. CASE Tick
    BY <1>13, IdsAssumption DEF Tick, Expiring, IInv, TypeOK, Named, Known, Cookies
  <1>14. CASE UNCHANGED vars
    BY <1>14 DEF vars, IInv, TypeOK, Named, Known, Cookies
  <1> QED BY <1>1, <1>2, <1>3, <1>4, <1>5, <1>6, <1>7, <1>8, <1>9, <1>10, <1>11, <1>12, <1>13, <1>14
     DEF Next, Step

\* Every step preserves the invariant.
THEOREM NextIInv == IInv /\ [Next]_vars => IInv'
  BY TypeStep, NamedStep, LostStep, OwnStep, KnownStep DEF IInv

\* Every reachable state satisfies the invariant.
THEOREM InvariantHolds == Spec => []IInv
  BY InitIInv, NextIInv, PTL DEF Spec

\* The types of the variables.
THEOREM TypeCorrect == Spec => []TypeOK
  <1>1. IInv => TypeOK
    BY DEF IInv
  <1> QED BY <1>1, InvariantHolds, PTL

\* Every request works with its own client's session, and in memory with none that it
\* removed itself.
THEOREM RequestsKeepTheirSession == Spec => []OwnSession
  <1>1. IInv => OwnSession
    BY DEF IInv
  <1> QED BY <1>1, InvariantHolds, PTL

\* A logged out client does not keep the cookie.
THEOREM LogoutIsKnown == Spec => []ClientKnows
  <1>1. IInv => ClientKnows
    BY DEF IInv, TypeOK, Known, ClientKnows
  <1> QED BY <1>1, InvariantHolds, PTL

\* No step brings back a session that is gone: in memory one that no Refresh is about
\* to store again, in Redis one that no one names and no handler holds.
THEOREM GoneStaysGone == Spec => GoneForGood
  <1> DEFINE Stays(id) == Gone(id) => Gone(id)'
             A == \A id \in Ids : Stays(id)
  <1>1. ASSUME IInv, Next, NEW id \in Ids PROVE Stays(id)
    <2>1. ASSUME NEW r \in Requests, Arrive(r) PROVE Stays(id)
      BY <1>1, <2>1, IdsAssumption
         DEF Arrive, store, IInv, TypeOK, Named, Gone, Forgotten, Cookies
    <2>2. ASSUME NEW r \in Requests, Answer(r) PROVE Stays(id)
      BY <1>1, <2>2, IdsAssumption
         DEF Answer, End, store, IInv, TypeOK, Named, Gone, Forgotten,
             Cookies
    <2>3. ASSUME NEW r \in Requests, Lose(r) PROVE Stays(id)
      BY <1>1, <2>3, IdsAssumption
         DEF Lose, End, store, IInv, TypeOK, Named, Gone, Forgotten,
             Cookies
    <2>4. ASSUME NEW r \in Requests, GetSession(r) PROVE Stays(id)
      BY <1>1, <2>4, IdsAssumption
         DEF GetSession, Fetch, Returns, store, IInv, TypeOK, Named, Gone,
             Forgotten, Cookies
    <2>5. ASSUME NEW r \in Requests, RefreshSession(r) PROVE Stays(id)
      BY <1>1, <2>5, IdsAssumption
         DEF RefreshSession, Fetch, store, IInv, TypeOK, Named, Gone,
             Forgotten, Cookies
    <2>6. ASSUME NEW r \in Requests, RemoveSession(r) PROVE Stays(id)
      BY <1>1, <2>6, IdsAssumption
         DEF RemoveSession, Fetch, store, IInv, TypeOK, Named, Gone,
             Forgotten, Cookies
    <2>7. ASSUME NEW r \in Requests, MemoryRefresh(r) PROVE Stays(id)
      BY <1>1, <2>7, IdsAssumption
         DEF MemoryRefresh, MemoryFinds, store, IInv, TypeOK, Named, Gone, Forgotten,
             Cookies
    <2>8. ASSUME NEW r \in Requests, MemoryRestore(r) PROVE Stays(id)
      BY <1>1, <2>8, IdsAssumption
         DEF MemoryRestore, Prolong, Inject, Returns, Stored, IInv, TypeOK, Named, Gone,
             Forgotten, Cookies
    <2>9. ASSUME NEW r \in Requests, RedisRefresh(r) PROVE Stays(id)
      BY <1>1, <2>9, IdsAssumption
         DEF RedisRefresh, Prolong, Inject, Returns, Stored, Fails, store, IInv, TypeOK,
             Named, Gone, Forgotten, Cookies
    <2>10. ASSUME NEW r \in Requests, Remove(r) PROVE Stays(id)
      BY <1>1, <2>10, IdsAssumption
         DEF Remove, Deleted, RemoveCookie, Fails, IInv, TypeOK, Named, Gone,
             Forgotten, Cookies
    <2>11. ASSUME NEW r \in Requests, Set(r) PROVE Stays(id)
      BY <1>1, <2>11, IdsAssumption
         DEF Set, Stored, IInv, TypeOK, Named, Gone, Forgotten, Cookies
    <2>12. ASSUME NEW r \in Requests, NEW new \in Ids, InitSession(r, new) PROVE Stays(id)
      BY <1>1, <2>12, IdsAssumption
         DEF InitSession, Inject, Returns, Generate, MemoryGenerate, RedisGenerate,
             Fails, IInv, TypeOK, Named, Gone, Forgotten, Cookies
    <2>13. CASE Tick
      BY <1>1, <2>13, ExpirationAssumption
         DEF Tick, Expiring, IInv, TypeOK, Named, Gone, Forgotten, Cookies
    <2> HIDE DEF Stays
    <2> QED BY <1>1, <2>1, <2>2, <2>3, <2>4, <2>5, <2>6, <2>7, <2>8, <2>9, <2>10, <2>11, <2>12, <2>13
       DEF Next, Step
  <1>2. IInv /\ [Next]_vars => [A]_vars
    BY <1>1
  <1>3. [][A]_vars => GoneForGood
    BY DEF GoneForGood
  <1> HIDE DEF A
  <1> QED BY <1>2, <1>3, InvariantHolds, PTL DEF Spec

=============================================================================
