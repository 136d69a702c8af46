---------------------------- MODULE Idempotency ----------------------------
(***************************************************************************)
(* The idempotency layer of crates/liter-llm/src/tower/idempotency.rs:     *)
(* IdempotencyService::call over the InMemoryIdempotencyStore.             *)
(*                                                                         *)
(* A key's first request writes a placeholder, runs the request upstream   *)
(* and turns the placeholder into the stored response; requests that meet  *)
(* the placeholder are told the key is in flight.  Each operation on the   *)
(* shared map is one step.  As in CircuitBreaker, Preempt names the labels *)
(* besides the awaits at which another request may run: {} is one thread,  *)
(* Labels a multi-threaded runtime.                                        *)
(*                                                                         *)
(* A body stands for its hash and for the response it is answered with.    *)
(* A member of Requests is a caller that sends one request after another.  *)
(***************************************************************************)
EXTENDS Integers, FiniteSets

CONSTANTS
  Requests,    \* callers sharing the store
  Keys,        \* tenant-scoped idempotency keys
  Bodies,      \* request bodies
  TTL,         \* ttl, in ticks
  MaxAge,      \* bound: an entry's age is counted up to here
  MaxEntries,  \* max_entries
  Preempt,     \* labels at which another request may run
  Absent,      \* no entry under a key
  Pending      \* response of a placeholder

Labels == {"idle", "lookup", "room", "sweep", "collect", "evict", "insert",
           "reread", "inner", "cleanup"}

ASSUME TimeAssumption == TTL \in Nat /\ MaxAge \in Nat
ASSUME MaxEntriesAssumption == MaxEntries \in Nat \ {0}
ASSUME PreemptAssumption == Preempt \subseteq Labels
ASSUME PendingAssumption == Pending \notin Bodies

Entry == [body : Bodies, response : Bodies \cup {Pending}, age : 0..MaxAge,
          owner : Requests, unseen : SUBSET Requests]

ASSUME AbsentAssumption == Absent \notin Entry

VARIABLES
  store,  \* the DashMap: key -> IdempotencyEntry (auxiliary: its owner, and
          \* who had collected candidates before it was written)
  pc,     \* where each request's future, or its cleanup task, stands
  key,    \* the request's key
  body,   \* the request's body
  cand    \* make_room's eviction candidates: <<age, key>> pairs

vars == <<store, pc, key, body, cand>>

-----------------------------------------------------------------------------

Present == {k \in Keys : store[k] # Absent}

Expired(k) == store[k].age > TTL

(* get returns an entry. *)
Fresh(k) == store[k] # Absent /\ ~Expired(k)

Placeholder(k) == store[k] # Absent /\ store[k].response = Pending

(* A mistake for the properties to catch: one entry too many fits. *)
HasRoomForOneMore == Cardinality(Present) <= MaxEntries

HasRoom == Cardinality(Present) < MaxEntries

Oldest(c) == {p \in c : \A q \in c : q[1] <= p[1]}

Resting == {"idle", "inner", "cleanup"}

Turn(r) == \A q \in Requests \ {r} : pc[q] \in Resting \cup Preempt

At(r, label) == pc[r] = label /\ Turn(r)

Goto(r, label) ==
  /\ pc' = [pc EXCEPT ![r] = label]
  /\ UNCHANGED <<key, body>>

Put(k, entry) == store' = [store EXCEPT ![k] = entry]

Init ==
  /\ store = [k \in Keys |-> Absent]
  /\ pc = [r \in Requests |-> "idle"]
  /\ key \in [Requests -> Keys]
  /\ body \in [Requests -> Bodies]
  /\ cand = [r \in Requests |-> {}]

-----------------------------------------------------------------------------
(* Mistakes the properties have to catch; no action below uses them.       *)

(* Eviction that does not tell placeholders from finalised entries. *)
CollectAll(r) ==
  /\ At(r, "collect")
  /\ ~HasRoom
  /\ cand' = [cand EXCEPT ![r] = {<<store[k].age, k>> : k \in Present}]
  /\ Goto(r, "evict")
  /\ UNCHANGED store

(* No guard: a dropped future leaves its placeholder behind. *)
CancelUnguarded(r) ==
  /\ At(r, "inner")
  /\ Goto(r, "idle")
  /\ UNCHANGED <<store, cand>>

-----------------------------------------------------------------------------
(* Lookup: the entry found, by get or by the get after a lost insertion,   *)
(* decides the answer.                                                     *)

Arrive(r) ==
  /\ At(r, "idle")
  /\ pc' = [pc EXCEPT ![r] = "lookup"]
  /\ \E k \in Keys : key' = [key EXCEPT ![r] = k]
  /\ \E b \in Bodies : body' = [body EXCEPT ![r] = b]
  /\ UNCHANGED <<store, cand>>

Found(r) ==
  /\ pc[r] \in {"lookup", "reread"}
  /\ Turn(r)
  /\ Fresh(key[r])

(* A different body under the same key: IdempotencyConflict. *)
Conflict(r) ==
  /\ Found(r)
  /\ store[key[r]].body # body[r]
  /\ Goto(r, "idle")
  /\ UNCHANGED <<store, cand>>

(* The stored response. *)
Replay(r) ==
  /\ Found(r)
  /\ store[key[r]].body = body[r]
  /\ store[key[r]].response # Pending
  /\ Goto(r, "idle")
  /\ UNCHANGED <<store, cand>>

(* IdempotencyInFlight. *)
InFlight(r) ==
  /\ Found(r)
  /\ store[key[r]].body = body[r]
  /\ store[key[r]].response = Pending
  /\ Goto(r, "idle")
  /\ UNCHANGED <<store, cand>>

Miss(r) ==
  /\ At(r, "lookup")
  /\ ~Fresh(key[r])
  /\ Goto(r, "room")
  /\ UNCHANGED <<store, cand>>

-----------------------------------------------------------------------------
(* try_insert: make_room, then the atomic entry().                         *)

RoomFree(r) ==
  /\ At(r, "room")
  /\ HasRoom
  /\ Goto(r, "insert")
  /\ UNCHANGED <<store, cand>>

RoomFull(r) ==
  /\ At(r, "room")
  /\ ~HasRoom
  /\ Goto(r, "sweep")
  /\ UNCHANGED <<store, cand>>

(* retain: expired entries go, placeholders among them. *)
Sweep(r) ==
  /\ At(r, "sweep")
  /\ store' = [k \in Keys |-> IF Fresh(k) THEN store[k] ELSE Absent]
  /\ Goto(r, "collect")
  /\ UNCHANGED cand

Swept(r) ==
  /\ At(r, "collect")
  /\ HasRoom
  /\ Goto(r, "insert")
  /\ UNCHANGED <<store, cand>>

(* The finalised entries, as the map stands now. *)
Collect(r) ==
  /\ At(r, "collect")
  /\ ~HasRoom
  /\ cand' = [cand EXCEPT ![r] =
                {<<store[k].age, k>> : k \in {i \in Present : ~Placeholder(i)}}]
  /\ Goto(r, "evict")
  /\ UNCHANGED store

(* Remove the oldest candidate, by its key, while the map is full. *)
Evict(r) ==
  /\ At(r, "evict")
  /\ ~HasRoom
  /\ \E p \in Oldest(cand[r]) :
       /\ Put(p[2], Absent)
       /\ cand' = [cand EXCEPT ![r] = @ \ {p}]
  /\ UNCHANGED <<pc, key, body>>

Evicted(r) ==
  /\ At(r, "evict")
  /\ HasRoom \/ cand[r] = {}
  /\ cand' = [cand EXCEPT ![r] = {}]
  /\ Goto(r, "insert")
  /\ UNCHANGED store

(* The winner writes a placeholder, over an expired entry if there is one. *)
Insert(r) ==
  /\ At(r, "insert")
  /\ ~Fresh(key[r])
  /\ Put(key[r], [body |-> body[r], response |-> Pending, age |-> 0, owner |-> r,
                   unseen |-> {q \in Requests : pc[q] = "evict"}])
  /\ Goto(r, "inner")
  /\ UNCHANGED cand

InsertLost(r) ==
  /\ At(r, "insert")
  /\ Fresh(key[r])
  /\ Goto(r, "reread")
  /\ UNCHANGED <<store, cand>>

(* The entry that won is gone again: run upstream without one. *)
FallThrough(r) ==
  /\ At(r, "reread")
  /\ ~Fresh(key[r])
  /\ Goto(r, "inner")
  /\ UNCHANGED <<store, cand>>

-----------------------------------------------------------------------------
(* The upstream call ends.                                                 *)

(* store_response: into whatever entry is under the key, if there is one. *)
StoreResponse(r) ==
  /\ At(r, "inner")
  /\ IF store[key[r]] # Absent
       THEN Put(key[r], [store[key[r]] EXCEPT !.response = body[r]])
       ELSE UNCHANGED store
  /\ Goto(r, "idle")
  /\ UNCHANGED cand

(* An error, or a response that cannot be replayed: remove. *)
RemoveEntry(r) ==
  /\ At(r, "inner")
  /\ Put(key[r], Absent)
  /\ Goto(r, "idle")
  /\ UNCHANGED cand

(* The future is dropped: IdempotencyInFlightGuard spawns the removal ... *)
Cancel(r) ==
  /\ At(r, "inner")
  /\ Goto(r, "cleanup")
  /\ UNCHANGED <<store, cand>>

(* ... which runs when the runtime gets to it. *)
Cleanup(r) ==
  /\ At(r, "cleanup")
  /\ Put(key[r], Absent)
  /\ Goto(r, "idle")
  /\ UNCHANGED cand

Tick ==
  /\ \E k \in Present : store[k].age < MaxAge
  /\ store' = [k \in Keys |->
       IF store[k] # Absent /\ store[k].age < MaxAge
         THEN [store[k] EXCEPT !.age = @ + 1] ELSE store[k]]
  /\ UNCHANGED <<pc, key, body, cand>>

Lookup(r) == Conflict(r) \/ Replay(r) \/ InFlight(r) \/ Miss(r)

TryInsert(r) ==
  \/ RoomFree(r) \/ RoomFull(r) \/ Sweep(r) \/ Swept(r) \/ Collect(r)
  \/ Evict(r) \/ Evicted(r) \/ Insert(r) \/ InsertLost(r) \/ FallThrough(r)

Finish(r) == StoreResponse(r) \/ RemoveEntry(r) \/ Cancel(r) \/ Cleanup(r)

Next ==
  \/ Tick
  \/ \E r \in Requests : Arrive(r) \/ Lookup(r) \/ TryInsert(r) \/ Finish(r)

Spec == Init /\ [][Next]_vars

(* A task that can run is eventually polled and upstream calls end. *)
FairSpec ==
  Spec /\ \A r \in Requests : SF_vars(Lookup(r) \/ TryInsert(r) \/ Finish(r))

-----------------------------------------------------------------------------

TypeOK ==
  /\ store \in [Keys -> Entry \cup {Absent}]
  /\ pc \in [Requests -> Labels]
  /\ key \in [Requests -> Keys]
  /\ body \in [Requests -> Bodies]
  /\ cand \in [Requests -> SUBSET ((0..MaxAge) \X Keys)]

(* A key is reported in flight only while the request that wrote its       *)
(* placeholder still runs or is being cleaned up after: however requests   *)
(* end, expire and race, no placeholder is left stuck.                     *)
(* (IdempotencyInFlightGuard, store_response, remove)                      *)
PlaceholderOwned ==
  \A k \in Keys :
    Placeholder(k) =>
      /\ key[store[k].owner] = k
      /\ pc[store[k].owner] \in {"inner", "cleanup"}

(* ... and so every placeholder is eventually finalised or removed. *)
PlaceholderEnds ==
  \A k \in Keys : Placeholder(k) ~> ~Placeholder(k)

(* One upstream run per key at a time, counting a cancelled one until its  *)
(* placeholder is removed: the dedup promise, within the TTL.              *)
OneWriter ==
  \A r, q \in Requests :
    /\ pc[r] \in {"inner", "cleanup"}
    /\ pc[q] \in {"inner", "cleanup"}
    /\ key[r] = key[q]
    => r = q

(* A stored response answers the body it is stored under: a repeat with    *)
(* that body gets its own response, one with another body a conflict.      *)
StoredAnswersBody ==
  \A k \in Present : store[k].response \in {Pending, store[k].body}

(***************************************************************************)
(* The inductive invariant behind OneWriter and StoredAnswersBody when     *)
(* Preempt = {} and no entry outlives its TTL: a request running upstream  *)
(* owns the placeholder under its key, and nobody evicts it.               *)
(***************************************************************************)
Alone ==
  \A r, q \in Requests : r # q => pc[r] \in Resting \/ pc[q] \in Resting

Owns(r) ==
  LET e == store[key[r]]
  IN e # Absent /\ e.response = Pending /\ e.owner = r /\ e.body = body[r]

StageInv(r) ==
  /\ pc[r] # "reread"
  /\ pc[r] \in {"inner", "cleanup"} => Owns(r)
  /\ pc[r] \in {"room", "sweep", "collect", "evict", "insert"} => store[key[r]] = Absent
  /\ pc[r] = "evict" => \A p \in cand[r] : ~Placeholder(p[2])

WriterInv ==
  /\ Alone
  /\ \A r \in Requests : StageInv(r)
  /\ StoredAnswersBody

(* On every runtime, make_room removes an unexpired placeholder in one     *)
(* case: it collected its candidates first, and the key of one expired and *)
(* was taken anew before it came to it.  Otherwise such an entry goes only *)
(* when a request that ran upstream for its key ends (make_room).          *)
InFlightNotEvicted ==
  [][\A k \in Keys :
       Fresh(k) /\ Placeholder(k) /\ store'[k] = Absent =>
         \E r \in Requests :
           \/ key[r] = k /\ pc[r] \in {"inner", "cleanup"} /\ pc'[r] = "idle"
           \/ pc[r] = "evict" /\ cand'[r] # cand[r] /\ r \in store[k].unseen]_vars

(* The store outgrows its cap only when every entry of it is in flight.    *)
CapHolds ==
  [][Cardinality(Present') > MaxEntries /\ Cardinality(Present') > Cardinality(Present)
       => \A k \in Present : Fresh(k) /\ Placeholder(k)]_vars

(***************************************************************************)
(* Refinement: a request is asking until it has answered or inserted, and  *)
(* running until it, or the cleanup after it, has finished.                *)
(***************************************************************************)
StageOf(r) ==
  CASE pc[r] = "idle" -> "idle"
    [] pc[r] \in {"inner", "cleanup"} -> "running"
    [] OTHER -> "asking"

SlotOf(k) ==
  {[owner |-> e.owner, body |-> e.body, response |-> e.response] :
     e \in {store[k]} \ {Absent}}

Promise == INSTANCE IdempotentCall WITH
  stage <- [r \in Requests |-> StageOf(r)],
  slot <- [k \in Keys |-> SlotOf(k)]

(* Within the TTL and where polls are not interrupted, lookup, making room *)
(* and insertion look like one step to the callers: a key is one slot,     *)
(* taken, answered from, finished and freed as promised                    *)
(* (IdempotencyService::call, make_room, try_insert).                      *)
ImplementsIdempotentCall == Promise!Spec

=============================================================================
