------------------------- MODULE IdempotencyProofs -------------------------
(***************************************************************************)
(* Proofs about Idempotency.                                               *)
(*                                                                         *)
(* For every runtime, TTL and cap: types, PlaceholderOwned and             *)
(* InFlightNotEvicted.  For a runtime that does not interrupt a poll and   *)
(* entries that do not expire: OneWriter, StoredAnswersBody and CapHolds,  *)
(* and that the layer implements IdempotentCall.                           *)
(***************************************************************************)
EXTENDS Idempotency, FiniteSetTheorems, TLAPS

USE DEF Labels, Resting, At, Goto, Put
USE TimeAssumption, PendingAssumption, AbsentAssumption

LEMMA Typing == Spec => []TypeOK
<1>1. Init => TypeOK
  BY DEF Init, TypeOK
<1>2. ASSUME TypeOK, [Next]_vars PROVE TypeOK'
  <2> USE <1>2 DEF TypeOK
  <2>1. CASE UNCHANGED vars
    BY <2>1 DEF vars
  <2>2. CASE Tick
    BY <2>2 DEF Tick, Entry, Present
  <2>3. ASSUME NEW r \in Requests, Arrive(r) \/ Lookup(r) PROVE TypeOK'
    BY <2>3 DEF Arrive, Lookup, Conflict, Replay, InFlight, Miss, Found
  <2>4. ASSUME NEW r \in Requests, TryInsert(r) PROVE TypeOK'
    <3>1. CASE RoomFree(r) \/ RoomFull(r) \/ Swept(r) \/ InsertLost(r) \/ FallThrough(r)
      BY <3>1 DEF RoomFree, RoomFull, Swept, InsertLost, FallThrough
    <3>2. CASE Sweep(r)
      BY <3>2 DEF Sweep
    <3>3. CASE Collect(r)
      BY <3>3 DEF Collect, Present, Entry
    <3>4. CASE Evict(r) \/ Evicted(r)
      BY <3>4 DEF Evict, Evicted, Oldest
    <3>5. CASE Insert(r)
      BY <3>5 DEF Insert, Entry
    <3> QED BY <2>4, <3>1, <3>2, <3>3, <3>4, <3>5 DEF TryInsert
  <2>5. ASSUME NEW r \in Requests, Finish(r) PROVE TypeOK'
    BY <2>5 DEF Finish, StoreResponse, RemoveEntry, Cancel, Cleanup, Entry
  <2> QED BY <2>1, <2>2, <2>3, <2>4, <2>5 DEF Next
<1> QED BY <1>1, <1>2, PTL DEF Spec

(* No placeholder is left behind by the request that wrote it, whichever   *)
(* way it ends.  (IdempotencyInFlightGuard, store_response, remove)        *)
THEOREM PlaceholderHasOwner == Spec => []PlaceholderOwned
<1>1. Init => PlaceholderOwned
  BY DEF Init, PlaceholderOwned, Placeholder
<1>2. ASSUME TypeOK, PlaceholderOwned, [Next]_vars PROVE PlaceholderOwned'
  <2> USE <1>2 DEF TypeOK, PlaceholderOwned, Placeholder, Entry
  <2>1. CASE UNCHANGED vars
    BY <2>1 DEF vars
  <2>2. CASE Tick
    BY <2>2 DEF Tick
  <2>3. ASSUME NEW r \in Requests, Arrive(r) PROVE PlaceholderOwned'
    BY <2>3 DEF Arrive
  <2>4. ASSUME NEW r \in Requests, Lookup(r) PROVE PlaceholderOwned'
    BY <2>4 DEF Lookup, Conflict, Replay, InFlight, Miss, Found
  <2>5. ASSUME NEW r \in Requests, TryInsert(r) PROVE PlaceholderOwned'
    <3>1. CASE RoomFree(r) \/ RoomFull(r) \/ Swept(r) \/ InsertLost(r) \/ FallThrough(r)
      BY <3>1 DEF RoomFree, RoomFull, Swept, InsertLost, FallThrough
    <3>2. CASE Sweep(r) \/ Collect(r)
      BY <3>2 DEF Sweep, Collect
    <3>3. CASE Evict(r) \/ Evicted(r)
      BY <3>3 DEF Evict, Evicted
    <3>4. CASE Insert(r)
      BY <3>4 DEF Insert
    <3> QED BY <2>5, <3>1, <3>2, <3>3, <3>4 DEF TryInsert
  <2>6. ASSUME NEW r \in Requests, Finish(r) PROVE PlaceholderOwned'
    <3>1. CASE StoreResponse(r)
      BY <3>1 DEF StoreResponse
    <3>2. CASE RemoveEntry(r) \/ Cleanup(r)
      BY <3>2 DEF RemoveEntry, Cleanup
    <3>3. CASE Cancel(r)
      BY <3>3 DEF Cancel
    <3> QED BY <2>6, <3>1, <3>2, <3>3 DEF Finish
  <2> QED BY <2>1, <2>2, <2>3, <2>4, <2>5, <2>6 DEF Next
<1> QED BY <1>1, <1>2, Typing, PTL DEF Spec

-----------------------------------------------------------------------------

(* What a step of r leaves alone: the other requests, all of them resting. *)
Framed(r) ==
  \A q \in Requests \ {r} :
    /\ pc[q] \in Resting
    /\ pc'[q] = pc[q]
    /\ key'[q] = key[q]
    /\ body'[q] = body[q]

LEMMA WriterStep ==
  ASSUME Preempt = {}, MaxAge <= TTL, TypeOK, WriterInv, NEW r \in Requests,
         Arrive(r) \/ Lookup(r) \/ TryInsert(r) \/ Finish(r)
  PROVE  WriterInv'
<1> USE Preempt = {}, MaxAge <= TTL DEF TypeOK
<1>a. StageInv(r) /\ StoredAnswersBody /\ \A q \in Requests : StageInv(q)
  BY DEF WriterInv
<1>b. \A k \in Keys : Fresh(k) <=> store[k] # Absent
  BY DEF Fresh, Expired, Entry
<1> USE <1>a, <1>b
<1>1. ASSUME Arrive(r)
      PROVE  WriterInv'
  <2>1. Framed(r)
    BY <1>1 DEF Arrive, Framed, Turn
  <2>2. StageInv(r)'
    BY <1>1 DEF Arrive, StageInv, Owns, Placeholder, Entry
  <2>3. \A q \in Requests \ {r} : StageInv(q)'
    BY <1>1, <2>1 DEF Arrive, Framed, StageInv, Owns, Placeholder
  <2>4. StoredAnswersBody'
    BY <1>1 DEF Arrive, StoredAnswersBody, StageInv, Owns, Present
  <2> QED BY <2>1, <2>2, <2>3, <2>4 DEF Framed, WriterInv, Alone, StageInv
<1>2. ASSUME Conflict(r) \/ Replay(r) \/ InFlight(r)
      PROVE  WriterInv'
  <2>1. Framed(r)
    BY <1>2 DEF Conflict, Replay, InFlight, Found, Framed, Turn
  <2>2. StageInv(r)'
    BY <1>2 DEF Conflict, Replay, InFlight, Found, StageInv, Owns, Placeholder, Entry
  <2>3. \A q \in Requests \ {r} : StageInv(q)'
    BY <1>2, <2>1 DEF Conflict, Replay, InFlight, Found, Framed, StageInv, Owns, Placeholder
  <2>4. StoredAnswersBody'
    BY <1>2 DEF Conflict, Replay, InFlight, Found, StoredAnswersBody, StageInv, Owns, Present
  <2> QED BY <2>1, <2>2, <2>3, <2>4 DEF Framed, WriterInv, Alone, StageInv
<1>3. ASSUME Miss(r)
      PROVE  WriterInv'
  <2>1. Framed(r)
    BY <1>3 DEF Miss, Framed, Turn
  <2>2. StageInv(r)'
    BY <1>3 DEF Miss, StageInv, Owns, Placeholder, Entry
  <2>3. \A q \in Requests \ {r} : StageInv(q)'
    BY <1>3, <2>1 DEF Miss, Framed, StageInv, Owns, Placeholder
  <2>4. StoredAnswersBody'
    BY <1>3 DEF Miss, StoredAnswersBody, StageInv, Owns, Present
  <2> QED BY <2>1, <2>2, <2>3, <2>4 DEF Framed, WriterInv, Alone, StageInv
<1>4. ASSUME RoomFree(r) \/ RoomFull(r) \/ Swept(r)
      PROVE  WriterInv'
  <2>1. Framed(r)
    BY <1>4 DEF RoomFree, RoomFull, Swept, Framed, Turn
  <2>2. StageInv(r)'
    BY <1>4 DEF RoomFree, RoomFull, Swept, StageInv, Owns, Placeholder, Entry
  <2>3. \A q \in Requests \ {r} : StageInv(q)'
    BY <1>4, <2>1 DEF RoomFree, RoomFull, Swept, Framed, StageInv, Owns, Placeholder
  <2>4. StoredAnswersBody'
    BY <1>4 DEF RoomFree, RoomFull, Swept, StoredAnswersBody, StageInv, Owns, Present
  <2> QED BY <2>1, <2>2, <2>3, <2>4 DEF Framed, WriterInv, Alone, StageInv
<1>5. ASSUME Sweep(r)
      PROVE  WriterInv'
  <2>1. Framed(r)
    BY <1>5 DEF Sweep, Framed, Turn
  <2>2. StageInv(r)'
    BY <1>5 DEF Sweep, StageInv, Owns, Placeholder, Entry
  <2>3. \A q \in Requests \ {r} : StageInv(q)'
    BY <1>5, <2>1 DEF Sweep, Framed, StageInv, Owns, Placeholder
  <2>4. StoredAnswersBody'
    BY <1>5 DEF Sweep, StoredAnswersBody, StageInv, Owns, Present
  <2> QED BY <2>1, <2>2, <2>3, <2>4 DEF Framed, WriterInv, Alone, StageInv
<1>6. ASSUME Collect(r)
      PROVE  WriterInv'
  <2>1. Framed(r)
    BY <1>6 DEF Collect, Framed, Turn
  <2>2. StageInv(r)'
    BY <1>6 DEF Collect, StageInv, Owns, Placeholder, Entry
  <2>3. \A q \in Requests \ {r} : StageInv(q)'
    BY <1>6, <2>1 DEF Collect, Framed, StageInv, Owns, Placeholder
  <2>4. StoredAnswersBody'
    BY <1>6 DEF Collect, StoredAnswersBody, StageInv, Owns, Present
  <2> QED BY <2>1, <2>2, <2>3, <2>4 DEF Framed, WriterInv, Alone, StageInv
<1>7. ASSUME Evict(r)
      PROVE  WriterInv'
  <2>1. Framed(r)
    BY <1>7 DEF Evict, Framed, Turn
  <2>2. StageInv(r)'
    BY <1>7 DEF Evict, StageInv, Owns, Placeholder, Entry
  <2>3. ASSUME NEW q \in Requests \ {r} PROVE StageInv(q)'
    <3>1. PICK p \in cand[r] : store' = [store EXCEPT ![p[2]] = Absent]
      BY <1>7 DEF Evict, Oldest
    <3>2. p[2] \in Keys /\ ~Placeholder(p[2])
      BY <1>7 DEF Evict, StageInv
    <3>3. pc[q] \in {"inner", "cleanup"} => key[q] # p[2]
      BY <3>2 DEF StageInv, Owns, Placeholder
    <3> QED BY <1>7, <2>1, <3>1, <3>2, <3>3 DEF Evict, Framed, StageInv, Owns
  <2>4. StoredAnswersBody'
    BY <1>7 DEF Evict, StoredAnswersBody, StageInv, Owns, Present
  <2> QED BY <2>1, <2>2, <2>3, <2>4 DEF Framed, WriterInv, Alone, StageInv
<1>8. ASSUME Evicted(r)
      PROVE  WriterInv'
  <2>1. Framed(r)
    BY <1>8 DEF Evicted, Framed, Turn
  <2>2. StageInv(r)'
    BY <1>8 DEF Evicted, StageInv, Owns, Placeholder, Entry
  <2>3. \A q \in Requests \ {r} : StageInv(q)'
    BY <1>8, <2>1 DEF Evicted, Framed, StageInv, Owns, Placeholder
  <2>4. StoredAnswersBody'
    BY <1>8 DEF Evicted, StoredAnswersBody, StageInv, Owns, Present
  <2> QED BY <2>1, <2>2, <2>3, <2>4 DEF Framed, WriterInv, Alone, StageInv
<1>9. ASSUME Insert(r)
      PROVE  WriterInv'
  <2>1. Framed(r)
    BY <1>9 DEF Insert, Framed, Turn
  <2>2. StageInv(r)'
    BY <1>9 DEF Insert, StageInv, Owns, Placeholder, Entry
  <2>3. \A q \in Requests \ {r} : StageInv(q)'
    BY <1>9, <2>1 DEF Insert, Framed, StageInv, Owns, Placeholder
  <2>4. StoredAnswersBody'
    BY <1>9 DEF Insert, StoredAnswersBody, StageInv, Owns, Present
  <2> QED BY <2>1, <2>2, <2>3, <2>4 DEF Framed, WriterInv, Alone, StageInv
<1>10. ASSUME InsertLost(r)
      PROVE  WriterInv'
  <2>1. Framed(r)
    BY <1>10 DEF InsertLost, Framed, Turn
  <2>2. StageInv(r)'
    BY <1>10 DEF InsertLost, StageInv, Owns, Placeholder, Entry
  <2>3. \A q \in Requests \ {r} : StageInv(q)'
    BY <1>10, <2>1 DEF InsertLost, Framed, StageInv, Owns, Placeholder
  <2>4. StoredAnswersBody'
    BY <1>10 DEF InsertLost, StoredAnswersBody, StageInv, Owns, Present
  <2> QED BY <2>1, <2>2, <2>3, <2>4 DEF Framed, WriterInv, Alone, StageInv
<1>11. ASSUME FallThrough(r)
      PROVE  WriterInv'
  <2>1. Framed(r)
    BY <1>11 DEF FallThrough, Framed, Turn
  <2>2. StageInv(r)'
    BY <1>11 DEF FallThrough, StageInv, Owns, Placeholder, Entry
  <2>3. \A q \in Requests \ {r} : StageInv(q)'
    BY <1>11, <2>1 DEF FallThrough, Framed, StageInv, Owns, Placeholder
  <2>4. StoredAnswersBody'
    BY <1>11 DEF FallThrough, StoredAnswersBody, StageInv, Owns, Present
  <2> QED BY <2>1, <2>2, <2>3, <2>4 DEF Framed, WriterInv, Alone, StageInv
<1>12. ASSUME StoreResponse(r)
      PROVE  WriterInv'
  <2>1. Framed(r)
    BY <1>12 DEF StoreResponse, Framed, Turn
  <2>2. StageInv(r)'
    BY <1>12 DEF StoreResponse, StageInv, Owns, Placeholder, Entry
  <2>3. ASSUME NEW q \in Requests \ {r} PROVE StageInv(q)'
    <3>1. pc[q] \in {"inner", "cleanup"} => key[q] # key[r]
      BY <1>12 DEF StoreResponse, StageInv, Owns
    <3>2. store'[key[q]] = store[key[q]] \/ pc[q] \notin {"inner", "cleanup"}
      BY <1>12, <3>1 DEF StoreResponse
    <3> QED BY <1>12, <2>1, <3>2 DEF StoreResponse, Framed, StageInv, Owns
  <2>4. StoredAnswersBody'
    BY <1>12 DEF StoreResponse, StoredAnswersBody, StageInv, Owns, Present, Entry
  <2> QED BY <2>1, <2>2, <2>3, <2>4 DEF Framed, WriterInv, Alone, StageInv
<1>13. ASSUME RemoveEntry(r) \/ Cleanup(r)
      PROVE  WriterInv'
  <2>1. Framed(r)
    BY <1>13 DEF RemoveEntry, Cleanup, Framed, Turn
  <2>2. StageInv(r)'
    BY <1>13 DEF RemoveEntry, Cleanup, StageInv, Owns, Placeholder, Entry
  <2>3. \A q \in Requests \ {r} : StageInv(q)'
    BY <1>13, <2>1 DEF RemoveEntry, Cleanup, Framed, StageInv, Owns, Placeholder
  <2>4. StoredAnswersBody'
    BY <1>13 DEF RemoveEntry, Cleanup, StoredAnswersBody, StageInv, Owns, Present
  <2> QED BY <2>1, <2>2, <2>3, <2>4 DEF Framed, WriterInv, Alone, StageInv
<1>14. ASSUME Cancel(r)
      PROVE  WriterInv'
  <2>1. Framed(r)
    BY <1>14 DEF Cancel, Framed, Turn
  <2>2. StageInv(r)'
    BY <1>14 DEF Cancel, StageInv, Owns, Placeholder, Entry
  <2>3. \A q \in Requests \ {r} : StageInv(q)'
    BY <1>14, <2>1 DEF Cancel, Framed, StageInv, Owns, Placeholder
  <2>4. StoredAnswersBody'
    BY <1>14 DEF Cancel, StoredAnswersBody, StageInv, Owns, Present
  <2> QED BY <2>1, <2>2, <2>3, <2>4 DEF Framed, WriterInv, Alone, StageInv
<1> QED
  BY <1>1, <1>2, <1>3, <1>4, <1>5, <1>6, <1>7, <1>8, <1>9, <1>10, <1>11, <1>12, <1>13, <1>14
  DEF Lookup, TryInsert, Finish

LEMMA WriterInvariance ==
  ASSUME Preempt = {}, MaxAge <= TTL
  PROVE  Spec => []WriterInv
<1>1. Init => WriterInv
  BY DEF Init, WriterInv, Alone, StageInv, StoredAnswersBody, Present
<1>2. ASSUME TypeOK, WriterInv, [Next]_vars PROVE WriterInv'
  <2>1. CASE UNCHANGED vars
    BY <1>2, <2>1 DEF vars, WriterInv, Alone, StageInv, Owns, Placeholder,
                      StoredAnswersBody, Present
  <2>2. CASE Tick
    BY <1>2, <2>2 DEF Tick, TypeOK, Entry, WriterInv, Alone, StageInv, Owns,
                      Placeholder, StoredAnswersBody, Present
  <2>3. ASSUME NEW r \in Requests, Arrive(r) \/ Lookup(r) \/ TryInsert(r) \/ Finish(r)
        PROVE  WriterInv'
    BY <1>2, <2>3, WriterStep, Preempt = {}, MaxAge <= TTL
  <2> QED BY <1>2, <2>1, <2>2, <2>3 DEF Next
<1> QED BY <1>1, <1>2, Typing, PTL DEF Spec

(* Within the TTL a key has one upstream run at a time.                    *)
(* (IdempotencyService::call, try_insert)                                  *)
THEOREM OneWriterPerKey ==
  ASSUME Preempt = {}, MaxAge <= TTL
  PROVE  Spec => []OneWriter
<1>1. WriterInv => OneWriter
  BY DEF WriterInv, StageInv, Owns, OneWriter
<1> QED BY <1>1, WriterInvariance, Preempt = {}, MaxAge <= TTL, PTL

(* Within the TTL no body is ever answered with another body's response.   *)
(* (store_response, IdempotencyService::call)                              *)
THEOREM AnswersOwnBody ==
  ASSUME Preempt = {}, MaxAge <= TTL
  PROVE  Spec => []StoredAnswersBody
<1>1. WriterInv => StoredAnswersBody
  BY DEF WriterInv
<1> QED BY <1>1, WriterInvariance, Preempt = {}, MaxAge <= TTL, PTL

-----------------------------------------------------------------------------
(* Making room, on every runtime: what was collected was finalised, and is *)
(* a placeholder only if that was written since.                           *)

CollectedFinalised ==
  \A r \in Requests :
    pc[r] = "evict" =>
      \A p \in cand[r] : Placeholder(p[2]) => r \in store[p[2]].unseen

LEMMA CollectionInvariance == Spec => []CollectedFinalised
<1>1. Init => CollectedFinalised
  BY DEF Init, CollectedFinalised
<1>2. ASSUME TypeOK, CollectedFinalised, [Next]_vars PROVE CollectedFinalised'
  <2> USE <1>2 DEF TypeOK, CollectedFinalised, Placeholder
  <2>1. CASE UNCHANGED vars
    BY <2>1 DEF vars
  <2>2. CASE Tick
    BY <2>2 DEF Tick, Entry
  <2>3. ASSUME NEW r \in Requests, Arrive(r) \/ Lookup(r) PROVE CollectedFinalised'
    BY <2>3 DEF Arrive, Lookup, Conflict, Replay, InFlight, Miss, Found
  <2>4. ASSUME NEW r \in Requests, TryInsert(r) PROVE CollectedFinalised'
    <3>1. CASE RoomFree(r) \/ RoomFull(r) \/ Swept(r) \/ InsertLost(r) \/ FallThrough(r)
      BY <3>1 DEF RoomFree, RoomFull, Swept, InsertLost, FallThrough
    <3>2. CASE Sweep(r)
      BY <3>2 DEF Sweep
    <3>3. CASE Collect(r)
      BY <3>3 DEF Collect, Present
    <3>4. CASE Evict(r) \/ Evicted(r)
      BY <3>4 DEF Evict, Evicted
    <3>5. CASE Insert(r)
      BY <3>5 DEF Insert, Entry
    <3> QED BY <2>4, <3>1, <3>2, <3>3, <3>4, <3>5 DEF TryInsert
  <2>5. ASSUME NEW r \in Requests, Finish(r) PROVE CollectedFinalised'
    <3>1. CASE StoreResponse(r)
      BY <3>1 DEF StoreResponse, Entry
    <3>2. CASE RemoveEntry(r) \/ Cleanup(r)
      BY <3>2 DEF RemoveEntry, Cleanup
    <3>3. CASE Cancel(r)
      BY <3>3 DEF Cancel
    <3> QED BY <2>5, <3>1, <3>2, <3>3 DEF Finish
  <2> QED BY <2>1, <2>2, <2>3, <2>4, <2>5 DEF Next
<1> QED BY <1>1, <1>2, Typing, PTL DEF Spec

(* Room is made at the expense of a request in flight only where its       *)
(* placeholder was written after the candidates were collected, on every   *)
(* runtime and whatever the TTL and the cap.                               *)
(* (InMemoryIdempotencyStore::make_room)                                   *)
THEOREM PlaceholdersKept == Spec => InFlightNotEvicted
<1> DEFINE Ends(r, k) == key[r] = k /\ pc[r] \in {"inner", "cleanup"} /\ pc'[r] = "idle"
           Overtakes(r, k) == pc[r] = "evict" /\ cand'[r] # cand[r] /\ r \in store[k].unseen
<1>1. ASSUME TypeOK, CollectedFinalised, [Next]_vars, NEW k \in Keys,
             Fresh(k), Placeholder(k), store'[k] = Absent
      PROVE  \E r \in Requests : Ends(r, k) \/ Overtakes(r, k)
  <2> USE <1>1 DEF TypeOK, Placeholder
  <2>1. CASE Tick \/ UNCHANGED vars
    BY <2>1 DEF Tick, vars, Entry
  <2>2. ASSUME NEW r \in Requests, Arrive(r) \/ Lookup(r) PROVE FALSE
    BY <2>2 DEF Arrive, Lookup, Conflict, Replay, InFlight, Miss, Found
  <2>3. ASSUME NEW r \in Requests, TryInsert(r) PROVE Overtakes(r, k)
    <3>1. CASE RoomFree(r) \/ RoomFull(r) \/ Swept(r) \/ Collect(r) \/ Evicted(r)
               \/ InsertLost(r) \/ FallThrough(r)
      BY <3>1 DEF RoomFree, RoomFull, Swept, Collect, Evicted, InsertLost, FallThrough
    <3>2. CASE Sweep(r)
      BY <3>2 DEF Sweep
    <3>3. CASE Insert(r)
      BY <3>3 DEF Insert, Entry
    <3>4. CASE Evict(r)
      <4>1. PICK p \in cand[r] : /\ store' = [store EXCEPT ![p[2]] = Absent]
                                 /\ cand' = [cand EXCEPT ![r] = @ \ {p}]
        BY <3>4 DEF Evict, Oldest
      <4>2. pc[r] = "evict" /\ p[2] = k
        BY <3>4, <4>1 DEF Evict
      <4>3. r \in store[k].unseen
        BY <4>1, <4>2 DEF CollectedFinalised
      <4>4. cand'[r] # cand[r]
        BY <4>1
      <4> QED BY <4>2, <4>3, <4>4
    <3> QED BY <2>3, <3>1, <3>2, <3>3, <3>4 DEF TryInsert
  <2>4. ASSUME NEW r \in Requests, Finish(r) PROVE Ends(r, k)
    <3>1. CASE StoreResponse(r)
      <4>1. store[k] # Absent /\ store[key[r]] # Absent => store'[k] # Absent
        BY <3>1, <1>1 DEF StoreResponse, Entry
      <4> QED BY <3>1, <4>1 DEF StoreResponse
    <3>2. CASE RemoveEntry(r) \/ Cleanup(r)
      BY <3>2 DEF RemoveEntry, Cleanup
    <3>3. CASE Cancel(r)
      BY <3>3 DEF Cancel
    <3> QED BY <2>4, <3>1, <3>2, <3>3 DEF Finish
  <2> HIDE DEF Ends, Overtakes
  <2> QED BY <2>1, <2>2, <2>3, <2>4 DEF Next
<1>2. TypeOK /\ CollectedFinalised /\ [Next]_vars =>
        [\A k \in Keys :
           Fresh(k) /\ Placeholder(k) /\ store'[k] = Absent =>
             \E r \in Requests :
               \/ key[r] = k /\ pc[r] \in {"inner", "cleanup"} /\ pc'[r] = "idle"
               \/ pc[r] = "evict" /\ cand'[r] # cand[r] /\ r \in store[k].unseen]_vars
  BY <1>1
<1> QED BY <1>2, Typing, CollectionInvariance, PTL DEF Spec, InFlightNotEvicted

-----------------------------------------------------------------------------
(* While one request makes room and the others rest, what it has collected *)
(* stays as it was, and besides it there is nothing but placeholders.      *)

RoomInv ==
  /\ IsFiniteSet(Present)
  /\ \A r \in Requests :
       /\ pc[r] = "evict" =>
            \A k \in Present : Placeholder(k) \/ \E p \in cand[r] : p[2] = k
       /\ pc[r] = "insert" => HasRoom \/ \A k \in Present : Placeholder(k)

LEMMA TurnFrames ==
  ASSUME Preempt = {}, TypeOK, NEW r \in Requests,
         Arrive(r) \/ Lookup(r) \/ TryInsert(r) \/ Finish(r)
  PROVE  Framed(r) /\ \A q \in Requests \ {r} : cand'[q] = cand[q]
<1> USE Preempt = {} DEF TypeOK, Framed, Turn
<1>1. CASE Arrive(r) \/ Lookup(r)
  BY <1>1 DEF Arrive, Lookup, Conflict, Replay, InFlight, Miss, Found
<1>2. CASE RoomFree(r) \/ RoomFull(r) \/ Sweep(r) \/ Swept(r) \/ Collect(r)
  BY <1>2 DEF RoomFree, RoomFull, Sweep, Swept, Collect
<1>3. CASE Evict(r) \/ Evicted(r) \/ Insert(r) \/ InsertLost(r) \/ FallThrough(r)
  BY <1>3 DEF Evict, Evicted, Insert, InsertLost, FallThrough
<1>4. CASE Finish(r)
  BY <1>4 DEF Finish, StoreResponse, RemoveEntry, Cancel, Cleanup
<1> QED BY <1>1, <1>2, <1>3, <1>4 DEF TryInsert

(* What a step leaves in the map: only Insert adds an entry.               *)
LEMMA OnlyInsertAdds ==
  ASSUME TypeOK, [Next]_vars, \A r \in Requests : ~Insert(r)
  PROVE  Present' \subseteq Present
<1> USE DEF TypeOK, Present
<1>1. CASE Tick \/ UNCHANGED vars
  BY <1>1 DEF Tick, vars
<1>2. ASSUME NEW r \in Requests, Arrive(r) \/ Lookup(r) PROVE Present' \subseteq Present
  BY <1>2 DEF Arrive, Lookup, Conflict, Replay, InFlight, Miss, Found
<1>3. ASSUME NEW r \in Requests, TryInsert(r) PROVE Present' \subseteq Present
  <2>1. CASE RoomFree(r) \/ RoomFull(r) \/ Swept(r) \/ Collect(r) \/ Evicted(r)
             \/ InsertLost(r) \/ FallThrough(r)
    BY <2>1 DEF RoomFree, RoomFull, Swept, Collect, Evicted, InsertLost, FallThrough
  <2>2. CASE Sweep(r)
    BY <2>2 DEF Sweep
  <2>3. CASE Evict(r)
    BY <2>3 DEF Evict
  <2> QED BY <1>3, <2>1, <2>2, <2>3 DEF TryInsert
<1>4. ASSUME NEW r \in Requests, Finish(r) PROVE Present' \subseteq Present
  BY <1>4 DEF Finish, StoreResponse, RemoveEntry, Cancel, Cleanup
<1> QED BY <1>1, <1>2, <1>3, <1>4 DEF Next

LEMMA RoomInvariance ==
  ASSUME Preempt = {}, MaxAge <= TTL
  PROVE  Spec => []RoomInv
<1>1. Init => RoomInv
  <2>1. Init => Present = {}
    BY DEF Init, Present
  <2> QED BY <2>1, FS_EmptySet DEF Init, RoomInv
<1>2. ASSUME TypeOK, RoomInv, [Next]_vars PROVE RoomInv'
  <2>0. IsFiniteSet(Present)
    BY <1>2 DEF RoomInv
  <2>1. IsFiniteSet(Present')
    <3>1. CASE \A r \in Requests : ~Insert(r)
      BY <1>2, <2>0, <3>1, OnlyInsertAdds, FS_Subset
    <3>2. ASSUME NEW r \in Requests, Insert(r) PROVE IsFiniteSet(Present')
      <4>1. Present' = Present \cup {key[r]}
        BY <1>2, <3>2 DEF Insert, TypeOK, Present, Entry
      <4> QED BY <2>0, <4>1, FS_AddElement
    <3> QED BY <3>1, <3>2
  <2>2. CASE UNCHANGED vars \/ Tick
    <3>1. Present' = Present /\ (\A k \in Present : Placeholder(k)' = Placeholder(k))
          /\ pc' = pc /\ cand' = cand
      BY <1>2, <2>2 DEF vars, Tick, TypeOK, Entry, Present, Placeholder
    <3> QED BY <1>2, <2>1, <3>1 DEF RoomInv, HasRoom
  <2>3. ASSUME NEW r \in Requests,
               Arrive(r) \/ Lookup(r) \/ TryInsert(r) \/ Finish(r)
        PROVE  RoomInv'
    <3> SUFFICES /\ pc'[r] = "evict" =>
                      \A k \in Present' : Placeholder(k)' \/ \E p \in cand'[r] : p[2] = k
                 /\ pc'[r] = "insert" => HasRoom' \/ \A k \in Present' : Placeholder(k)'
      <4>1. \A q \in Requests \ {r} : pc'[q] \in Resting
        BY <1>2, <2>3, TurnFrames, Preempt = {} DEF Framed
      <4> QED BY <2>1, <4>1 DEF RoomInv
    <3> USE <1>2 DEF TypeOK
    <3>1. CASE RoomFree(r) \/ Swept(r)
      BY <3>1 DEF RoomFree, Swept, HasRoom, Present
    <3>2. CASE Collect(r)
      <4>1. \A k \in Present : Placeholder(k) \/ <<store[k].age, k>> \in cand'[r]
        BY <3>2 DEF Collect, Present
      <4>2. \A k \in Present : Placeholder(k) \/ \E p \in cand'[r] : p[2] = k
        BY <4>1
      <4> QED BY <3>2, <4>2 DEF Collect, Present, Placeholder
    <3>3. CASE Evict(r)
      <4>1. PICK p \in cand[r] : /\ store' = [store EXCEPT ![p[2]] = Absent]
                                 /\ cand' = [cand EXCEPT ![r] = @ \ {p}]
        BY <3>3 DEF Evict, Oldest
      <4>2. pc[r] = "evict" /\ pc' = pc
        BY <3>3 DEF Evict
      <4>3. ASSUME NEW k \in Present'
            PROVE  Placeholder(k)' \/ \E c \in cand'[r] : c[2] = k
        <5>1. k # p[2] /\ store'[k] = store[k] /\ k \in Present
          BY <4>1, <4>3 DEF Present
        <5>2. Placeholder(k) \/ \E c \in cand[r] : c[2] = k
          BY <4>2, <5>1 DEF RoomInv
        <5> QED BY <4>1, <5>1, <5>2 DEF Placeholder
      <4> QED BY <4>2, <4>3
    <3>4. CASE Evicted(r)
      <4>1. pc[r] = "evict" /\ pc'[r] = "insert" /\ store' = store
            /\ (HasRoom \/ cand[r] = {})
        BY <3>4 DEF Evicted
      <4> QED BY <4>1 DEF RoomInv, HasRoom, Present, Placeholder
    <3>5. CASE ~(RoomFree(r) \/ Swept(r) \/ Collect(r) \/ Evict(r) \/ Evicted(r))
      BY <2>3, <3>5
         DEF Arrive, Lookup, Conflict, Replay, InFlight, Miss, Found, TryInsert, RoomFull,
             Sweep, Insert, InsertLost, FallThrough, Finish, StoreResponse, RemoveEntry,
             Cancel, Cleanup
    <3> QED BY <3>1, <3>2, <3>3, <3>4, <3>5
  <2> QED BY <1>2, <2>2, <2>3 DEF Next
<1> QED BY <1>1, <1>2, Typing, Preempt = {}, PTL DEF Spec

(* Where polls are not interrupted and entries live, the store grows past  *)
(* its cap only for a request that finds everything in flight.             *)
(* (make_room, try_insert)                                                 *)
THEOREM CapOnlyForPlaceholders ==
  ASSUME Preempt = {}, MaxAge <= TTL
  PROVE  Spec => CapHolds
<1>1. ASSUME TypeOK, RoomInv, [Next]_vars,
             Cardinality(Present') > MaxEntries,
             Cardinality(Present') > Cardinality(Present),
             NEW k \in Present
      PROVE  Fresh(k) /\ Placeholder(k)
  <2> USE MaxEntriesAssumption
  <2>0. IsFiniteSet(Present) /\ Cardinality(Present) \in Nat
    BY <1>1, FS_CardinalityType DEF RoomInv
  <2>1. PICK r \in Requests : Insert(r)
    <3>1. ASSUME \A r \in Requests : ~Insert(r) PROVE FALSE
      <4>1. Present' \subseteq Present
        BY <1>1, <3>1, OnlyInsertAdds
      <4>2. IsFiniteSet(Present') /\ Cardinality(Present') <= Cardinality(Present)
        BY <2>0, <4>1, FS_Subset
      <4>3. Cardinality(Present') \in Nat
        BY <4>2, FS_CardinalityType
      <4> QED BY <1>1, <2>0, <4>2, <4>3
    <3> QED BY <3>1
  <2>2. Present' = Present \cup {key[r]}
    BY <1>1, <2>1 DEF Insert, TypeOK, Present, Entry
  <2>3. Cardinality(Present') = Cardinality(Present)
        \/ Cardinality(Present') = Cardinality(Present) + 1
    <3>1. Cardinality(Present \cup {key[r]}) =
            IF key[r] \in Present THEN Cardinality(Present) ELSE Cardinality(Present) + 1
      BY <2>0, FS_AddElement
    <3> QED BY <2>2, <3>1
  <2>4. Cardinality(Present) + 1 > MaxEntries
    BY <1>1, <2>0, <2>3
  <2>5. ~HasRoom
    BY <2>0, <2>4 DEF HasRoom
  <2>6. Placeholder(k)
    BY <1>1, <2>1, <2>5 DEF RoomInv, Insert
  <2>7. Fresh(k)
    BY <1>1, MaxAge <= TTL DEF TypeOK, Entry, Fresh, Expired, Present
  <2> QED BY <2>6, <2>7
<1>2. TypeOK /\ RoomInv /\ [Next]_vars =>
        [Cardinality(Present') > MaxEntries /\ Cardinality(Present') > Cardinality(Present)
           => \A k \in Present : Fresh(k) /\ Placeholder(k)]_vars
  BY <1>1
<1> QED BY <1>2, Typing, RoomInvariance, Preempt = {}, MaxAge <= TTL, PTL DEF Spec, CapHolds

-----------------------------------------------------------------------------
(* Refinement.                                                             *)

(* A slot is the entry under its key without its age. *)
LEMMA SlotIsEntry ==
  ASSUME NEW k \in Keys
  PROVE  /\ store[k] = Absent => SlotOf(k) = {}
         /\ store[k] # Absent =>
              SlotOf(k) = {[owner |-> store[k].owner, body |-> store[k].body,
                            response |-> store[k].response]}
         /\ store'[k] = Absent => SlotOf(k)' = {}
         /\ store'[k] # Absent =>
              SlotOf(k)' = {[owner |-> store'[k].owner, body |-> store'[k].body,
                             response |-> store'[k].response]}
BY DEF SlotOf

(* A step that moves r and changes the entry under one key. *)
LEMMA SlotsFollow ==
  ASSUME NEW k \in Keys, \A i \in Keys \ {k} : store'[i] = store[i]
  PROVE  \A i \in Keys \ {k} : SlotOf(i)' = SlotOf(i)
BY DEF SlotOf

(* Within the TTL and where polls are not interrupted the layer implements *)
(* IdempotentCall: lookup, making room and insertion are as good as one    *)
(* step.  (IdempotencyService::call, make_room, try_insert)                *)
THEOREM ActsAsOneSlot ==
  ASSUME Preempt = {}, MaxAge <= TTL
  PROVE  Spec => ImplementsIdempotentCall
<1>1. Init => Promise!Init
  BY DEF Init, Promise!Init, StageOf, SlotOf
<1>2. ASSUME TypeOK, WriterInv, [Next]_vars
      PROVE  [Promise!Next]_(Promise!vars)
  <2> USE Preempt = {}, MaxAge <= TTL, <1>2
  <2>a. \A k \in Keys : Fresh(k) <=> store[k] # Absent
    BY DEF TypeOK, Fresh, Expired, Entry
  <2>b. \A r \in Requests : StageInv(r)
    BY DEF WriterInv
  <2>c. key \in [Requests -> Keys] /\ pc \in [Requests -> Labels]
        /\ body \in [Requests -> Bodies] /\ store \in [Keys -> Entry \cup {Absent}]
    BY DEF TypeOK
  <2>1. CASE UNCHANGED vars
    BY <2>1 DEF vars, Promise!vars, StageOf, SlotOf
  <2>2. CASE Tick
    <3>1. ASSUME NEW k \in Keys PROVE SlotOf(k)' = SlotOf(k)
      <4>1. CASE store[k] = Absent
        <5>1. store'[k] = Absent
          BY <2>2, <4>1 DEF Tick
        <5> QED BY <4>1, <5>1, SlotIsEntry
      <4>2. CASE store[k] # Absent
        <5>1. store[k] \in Entry /\ store'[k] \in Entry
          BY <2>c, <4>2, <2>2, TimeAssumption DEF Tick, Entry
        <5>2. /\ store'[k].owner = store[k].owner
              /\ store'[k].body = store[k].body
              /\ store'[k].response = store[k].response
          BY <2>2, <5>1 DEF Tick, Entry
        <5>3. store'[k] # Absent
          BY <5>1, AbsentAssumption
        <5> QED BY <4>2, <5>2, <5>3, SlotIsEntry
      <4> QED BY <4>1, <4>2
    <3>2. \A r \in Requests : StageOf(r)' = StageOf(r)
      BY <2>2 DEF Tick, StageOf
    <3> QED BY <2>2, <3>1, <3>2 DEF Tick, Promise!vars
  <2>3. ASSUME NEW r \in Requests, Arrive(r) PROVE Promise!Next
    <3>1. PICK k \in Keys, b \in Bodies :
            key' = [key EXCEPT ![r] = k] /\ body' = [body EXCEPT ![r] = b]
      BY <2>3 DEF Arrive
    <3>2. StageOf(r) = "idle" /\ StageOf(r)' = "asking"
          /\ \A q \in Requests \ {r} : StageOf(q)' = StageOf(q)
      BY <2>3, <2>c DEF Arrive, StageOf
    <3>3. \A i \in Keys : SlotOf(i)' = SlotOf(i)
      BY <2>3 DEF Arrive, SlotOf
    <3>4. Promise!Ask(r, k, b)
      BY <3>1, <3>2, <3>3 DEF Promise!Ask
    <3> QED BY <3>4 DEF Promise!Next
  <2>4. ASSUME NEW r \in Requests, Conflict(r) \/ Replay(r) \/ InFlight(r)
        PROVE  Promise!Next
    <3>1. StageOf(r) = "asking" /\ StageOf(r)' = "idle"
          /\ \A q \in Requests \ {r} : StageOf(q)' = StageOf(q)
      BY <2>4, <2>c DEF Conflict, Replay, InFlight, Found, StageOf
    <3>2. store[key[r]] # Absent /\ key[r] \in Keys
          /\ store[key[r]].response \in {Pending, store[key[r]].body}
      BY <2>4, <2>c DEF Conflict, Replay, InFlight, Found, Fresh, WriterInv,
         StoredAnswersBody, Present
    <3>3. /\ SlotOf(key[r]) # {}
          /\ \A s \in SlotOf(key[r]) : s.body = body[r] => s.response \in {Pending, body[r]}
      <4>1. SlotOf(key[r]) = {[owner |-> store[key[r]].owner, body |-> store[key[r]].body,
                               response |-> store[key[r]].response]}
        BY <3>2, SlotIsEntry
      <4>2. ASSUME NEW s \in SlotOf(key[r]), s.body = body[r]
            PROVE  s.response \in {Pending, body[r]}
        <5>1. s.body = store[key[r]].body /\ s.response = store[key[r]].response
          BY <4>1
        <5> QED BY <3>2, <4>2, <5>1
      <4> QED BY <4>1, <4>2
    <3>4. /\ \A i \in Keys : SlotOf(i)' = SlotOf(i)
          /\ UNCHANGED <<key, body>>
      BY <2>4 DEF Conflict, Replay, InFlight, SlotOf
    <3>5. Promise!Answer(r)
      BY <3>1, <3>2, <3>3, <3>4 DEF Promise!Answer
    <3> QED BY <3>5 DEF Promise!Next
  <2>5. ASSUME NEW r \in Requests,
               \/ Miss(r) \/ RoomFree(r) \/ RoomFull(r) \/ Sweep(r) \/ Swept(r)
               \/ Collect(r) \/ Evicted(r) \/ InsertLost(r) \/ Cancel(r)
        PROVE  UNCHANGED Promise!vars
    <3>1. \A q \in Requests : StageOf(q)' = StageOf(q)
      BY <2>5, <2>c DEF Miss, RoomFree, RoomFull, Sweep, Swept, Collect, Evicted,
         InsertLost, Cancel, StageOf
    <3>2. \A i \in Keys : store'[i] = store[i]
      BY <2>5, <2>a DEF Miss, RoomFree, RoomFull, Sweep, Swept, Collect, Evicted,
         InsertLost, Cancel
    <3>3. \A i \in Keys : SlotOf(i)' = SlotOf(i)
      BY <3>2 DEF SlotOf
    <3>4. UNCHANGED <<key, body>>
      BY <2>5 DEF Miss, RoomFree, RoomFull, Sweep, Swept, Collect, Evicted,
         InsertLost, Cancel
    <3> QED BY <3>1, <3>3, <3>4 DEF Promise!vars
  <2>6. ASSUME NEW r \in Requests, Evict(r) PROVE [Promise!Next]_(Promise!vars)
    <3>1. PICK p \in cand[r] : store' = [store EXCEPT ![p[2]] = Absent]
      BY <2>6 DEF Evict, Oldest
    <3>2. p[2] \in Keys /\ ~Placeholder(p[2])
      BY <2>6, <2>b DEF Evict, StageInv, TypeOK
    <3>3. \A s \in SlotOf(p[2]) : s.response # Pending
      BY <3>2, SlotIsEntry DEF Placeholder
    <3>4. SlotOf(p[2])' = {} /\ \A i \in Keys \ {p[2]} : SlotOf(i)' = SlotOf(i)
      BY <3>1, <3>2, <2>c, SlotIsEntry, SlotsFollow
    <3>5. UNCHANGED <<key, body>> /\ \A q \in Requests : StageOf(q)' = StageOf(q)
      BY <2>6 DEF Evict, StageOf
    <3>6. Promise!Forget(p[2])
      BY <3>2, <3>3, <3>4, <3>5 DEF Promise!Forget
    <3> QED BY <3>2, <3>6 DEF Promise!Next
  <2>7. ASSUME NEW r \in Requests, Insert(r) PROVE Promise!Next
    <3>1. StageOf(r) = "asking" /\ StageOf(r)' = "running"
          /\ \A q \in Requests \ {r} : StageOf(q)' = StageOf(q)
      BY <2>7, <2>c DEF Insert, StageOf
    <3>2. store[key[r]] = Absent /\ key[r] \in Keys
      BY <2>7, <2>a, <2>c DEF Insert
    <3>3. LET e == [body |-> body[r], response |-> Pending, age |-> 0, owner |-> r,
                    unseen |-> {q \in Requests : pc[q] = "evict"}]
          IN  store' = [store EXCEPT ![key[r]] = e] /\ e \in Entry
      BY <2>7, <2>c DEF Insert, Entry
    <3>4. SlotOf(key[r]) = {} /\ SlotOf(key[r])' = Promise!Taken(r, Pending)
      <4>1. SlotOf(key[r]) = {}
        BY <3>2, SlotIsEntry
      <4>2. /\ store'[key[r]] # Absent /\ store'[key[r]].owner = r
            /\ store'[key[r]].body = body[r] /\ store'[key[r]].response = Pending
        BY <3>2, <3>3, <2>c, AbsentAssumption
      <4>3. SlotOf(key[r])' = {[owner |-> store'[key[r]].owner, body |-> store'[key[r]].body,
                                response |-> store'[key[r]].response]}
        <5>1. key' = key
          BY <2>7 DEF Insert, Goto
        <5> QED BY <3>2, <4>2, <5>1, SlotIsEntry
      <4> QED BY <4>1, <4>2, <4>3 DEF Promise!Taken
    <3>5. \A i \in Keys \ {key[r]} : SlotOf(i)' = SlotOf(i)
      BY <3>2, <3>3, <2>c, SlotsFollow
    <3>6. UNCHANGED <<key, body>>
      BY <2>7 DEF Insert
    <3>7. Promise!Start(r)
      BY <3>1, <3>2, <3>4, <3>5, <3>6 DEF Promise!Start
    <3> QED BY <3>7 DEF Promise!Next
  <2>8. ASSUME NEW r \in Requests, FallThrough(r) PROVE FALSE
    BY <2>8, <2>b DEF FallThrough, StageInv
  <2>9. ASSUME NEW r \in Requests, StoreResponse(r) \/ RemoveEntry(r) \/ Cleanup(r)
        PROVE  Promise!Next
    <3>1. StageOf(r) = "running" /\ StageOf(r)' = "idle"
          /\ \A q \in Requests \ {r} : StageOf(q)' = StageOf(q)
      BY <2>9, <2>c DEF StoreResponse, RemoveEntry, Cleanup, StageOf
    <3>2. Owns(r) /\ key[r] \in Keys
      BY <2>9, <2>b, <2>c DEF StoreResponse, RemoveEntry, Cleanup, StageInv
    <3>3. SlotOf(key[r]) = Promise!Taken(r, Pending)
      BY <3>2, SlotIsEntry DEF Owns, Promise!Taken
    <3>4. \/ SlotOf(key[r])' = Promise!Taken(r, body[r])
          \/ SlotOf(key[r])' = {}
      <4>1. CASE StoreResponse(r)
        <5>1. store' = [store EXCEPT ![key[r]] = [store[key[r]] EXCEPT !.response = body[r]]]
          BY <4>1, <3>2 DEF StoreResponse, Owns
        <5>2. store[key[r]] \in Entry /\ body[r] \in Bodies
          BY <3>2, <2>c DEF Owns
        <5>3. /\ store'[key[r]] \in Entry
              /\ store'[key[r]].owner = r /\ store'[key[r]].body = body[r]
              /\ store'[key[r]].response = body[r]
          BY <5>1, <5>2, <3>2, <2>c DEF Owns, Entry
        <5>4. store'[key[r]] # Absent
          BY <5>3, AbsentAssumption
        <5>5. SlotOf(key[r])' = {[owner |-> store'[key[r]].owner, body |-> store'[key[r]].body,
                                  response |-> store'[key[r]].response]}
          <6>1. key' = key
            BY <4>1 DEF StoreResponse, Goto
          <6> QED BY <3>2, <5>4, <6>1, SlotIsEntry
        <5> QED BY <5>3, <5>5 DEF Promise!Taken
      <4>2. CASE RemoveEntry(r) \/ Cleanup(r)
        BY <4>2, <3>2, <2>c, SlotIsEntry DEF RemoveEntry, Cleanup
      <4> QED BY <2>9, <4>1, <4>2
    <3>5. \A i \in Keys \ {key[r]} : SlotOf(i)' = SlotOf(i)
      <4>1. \A i \in Keys \ {key[r]} : store'[i] = store[i]
        BY <2>9, <2>c DEF StoreResponse, RemoveEntry, Cleanup
      <4> QED BY <4>1, <3>2, SlotsFollow
    <3>6. UNCHANGED <<key, body>>
      BY <2>9 DEF StoreResponse, RemoveEntry, Cleanup
    <3>7. Promise!Finish(r)
      BY <3>1, <3>2, <3>3, <3>4, <3>5, <3>6 DEF Promise!Finish
    <3> QED BY <3>7 DEF Promise!Next
  <2> QED
    BY <2>1, <2>2, <2>3, <2>4, <2>5, <2>6, <2>7, <2>8, <2>9
       DEF Next, Lookup, TryInsert, Finish
<1> QED BY <1>1, <1>2, Typing, WriterInvariance, Preempt = {}, MaxAge <= TTL, PTL
        DEF Spec, ImplementsIdempotentCall, Promise!Spec

=============================================================================
