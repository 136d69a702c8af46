---------------------------- MODULE ResponseCache ----------------------------
(***************************************************************************)
(* The in-memory response cache and its two users                          *)
(* (crates/liter-llm/src/tower/cache.rs, cache_negative.rs): a request     *)
(* passes NegativeCacheService, then CacheService, then goes upstream.     *)
(*                                                                         *)
(* InnerCache is a map and a queue of its keys behind one lock, so each    *)
(* store operation is one step; a request holds nothing between two of     *)
(* them.  A key is a hash: several request bodies may share one.  A caller *)
(* may drop its request while that waits for the upstream.                 *)
(*                                                                         *)
(* Time is the age of an entry, counted as long as it matters.             *)
(***************************************************************************)
EXTENDS Integers, Sequences, FiniteSets

CONSTANTS
  Callers,     \* requests under way at once
  Hashes,      \* hash values
  Bodies,      \* request bodies
  HashOf,      \* the key of a body
  MaxEntries,  \* max_entries
  Ttl,         \* how long a response is served
  Override,    \* the ttl_override a policy may decide
  Window,      \* how long an error is served
  NoBody       \* not a body

ASSUME HashOfAssumption == HashOf \in [Bodies -> Hashes]
ASSUME MaxEntriesAssumption == MaxEntries \in Nat \ {0}
ASSUME TtlAssumption == Ttl \in Nat /\ Override \in Nat /\ Window \in Nat \ {0}
ASSUME NoBodyAssumption == NoBody \notin Bodies

VARIABLES
  cache,      \* InnerCache::map: entries by key
  order,      \* InnerCache::order: keys, oldest first
  at,         \* where each request stands
  body,       \* its body
  wanted      \* the body it looks up: its own or a similar one

store == <<cache, order>>
requests == <<at, body, wanted>>
cacheVars == <<store, requests>>

Places == {"idle", "get", "search", "similar", "upstream", "put", "ttl",
           "error out", "error", "warm"}

Longest == CHOOSE t \in {Ttl, Override, Window} :
             \A u \in {Ttl, Override, Window} : u <= t

Lifetimes(kind) ==
  CASE kind = "response" -> {Ttl, Override}
    [] kind = "error" -> {Window}
    [] kind = "placeholder" -> {0}

Kinds == {"response", "error", "placeholder"}

Entries ==
  UNION {[body : Bodies, kind : {kind}, age : 0..Longest + 1,
          ttl : Lifetimes(kind)] : kind \in Kinds}

CacheTypeOK ==
  /\ DOMAIN cache \subseteq Hashes
  /\ \A k \in DOMAIN cache : cache[k] \in Entries /\ HashOf[cache[k].body] = k
  /\ order \in Seq(Hashes)
  /\ at \in [Callers -> Places]
  /\ body \in [Callers -> Bodies \cup {NoBody}]
  /\ wanted \in [Callers -> Bodies \cup {NoBody}]

CacheInit ==
  /\ cache = [k \in {} |-> NoBody]
  /\ order = << >>
  /\ at = [r \in Callers |-> "idle"]
  /\ body = [r \in Callers |-> NoBody]
  /\ wanted = [r \in Callers |-> NoBody]

-----------------------------------------------------------------------------
(* What the operations of InnerCache are built from.                       *)

Expired(e) == IF e.kind = "response" THEN e.age > e.ttl ELSE e.age >= e.ttl

Without(S) == [k \in DOMAIN cache \ S |-> cache[k]]

(* The keys the loop over the queue's front evicts for a new one. *)
Oldest(n) == {order[i] : i \in 1..n}

-----------------------------------------------------------------------------
(* Mistakes the properties have to catch; no action below uses them.       *)

(* The body of a hit is not compared: a collision answers the wrong one. *)
ValidByKey(b) ==
  HashOf[b] \in DOMAIN cache /\ ~Expired(cache[HashOf[b]])

(* A key written again makes room like a new one. *)
EvictedAlways(k) ==
  IF Cardinality(DOMAIN cache) < MaxEntries THEN 0 ELSE 1

(* An expired entry leaves the map and stays in the queue. *)
RemoveFromMap(k) ==
  /\ cache' = Without({k})
  /\ UNCHANGED order

-----------------------------------------------------------------------------
(* InnerCache.                                                             *)

Valid(b) ==
  /\ HashOf[b] \in DOMAIN cache
  /\ cache[HashOf[b]].body = b
  /\ ~Expired(cache[HashOf[b]])

(* The members of a finite set of positions from first to last. *)
Ascending(S) ==
  CHOOSE f \in [1..Cardinality(S) -> S] :
    \A i, j \in 1..Cardinality(S) : i < j => f[i] < f[j]

(* retain: what is left of a queue when a key is taken out of it.  Written *)
(* without SelectSeq, which is recursive, so that it can be proved about.  *)
Unqueued(q, k) ==
  LET left == {i \in 1..Len(q) : q[i] # k}
  IN  [i \in 1..Cardinality(left) |-> q[Ascending(left)[i]]]

RemoveEntry(k) ==
  /\ cache' = Without({k})
  /\ order' = Unqueued(order, k)

(* What get leaves behind: an expired entry of the key is gone. *)
Looked(b) ==
  IF ~Valid(b) /\ HashOf[b] \in DOMAIN cache /\ Expired(cache[HashOf[b]])
  THEN RemoveEntry(HashOf[b])
  ELSE UNCHANGED store

Evicted(k) ==
  LET Enough(n) == \/ Cardinality(DOMAIN cache \ Oldest(n)) < MaxEntries
                   \/ n = Len(order)
  IN  IF k \in DOMAIN cache THEN 0
      ELSE CHOOSE n \in 0..Len(order) : Enough(n) /\ \A m \in 0..n - 1 : ~Enough(m)

(* InnerCache::insert. *)
Insert(b, kind, ttl) ==
  LET k == HashOf[b]
      n == Evicted(k)
      kept == DOMAIN cache \ Oldest(n)
      entry == [body |-> b, kind |-> kind, age |-> 0, ttl |-> ttl]
  IN  /\ cache' = [q \in kept \cup {k} |-> IF q = k THEN entry ELSE cache[q]]
      /\ order' = Append(Unqueued(SubSeq(order, n + 1, Len(order)), k), k)

-----------------------------------------------------------------------------
(* CacheService::call.                                                     *)

GoOn(r, label) ==
  /\ at' = [at EXCEPT ![r] = label]
  /\ UNCHANGED <<body, wanted>>

Done(r) ==
  /\ at' = [at EXCEPT ![r] = "idle"]
  /\ body' = [body EXCEPT ![r] = NoBody]
  /\ wanted' = [wanted EXCEPT ![r] = NoBody]

(* A request.  What the policy decides on it is chosen where it is first    *)
(* used: exact lookup here, semantic lookup at "search", ttl after the put. *)
(* One that bypasses the cache ends like one that is not cacheable.         *)
Begin(r, b) ==
  /\ at[r] = "idle"
  /\ \E label \in {"get", "search"} : at' = [at EXCEPT ![r] = label]
  /\ body' = [body EXCEPT ![r] = b]
  /\ wanted' = [wanted EXCEPT ![r] = b]
  /\ UNCHANGED store

(* store.get found it: a response is the answer, an error passes through   *)
(* the negative cache on its way out.                                      *)
Hit(r) ==
  LET e == cache[HashOf[wanted[r]]]
  IN  /\ at[r] \in {"get", "similar"}
      /\ Valid(wanted[r])
      /\ IF e.kind = "response" THEN Done(r) ELSE GoOn(r, "error out")
      /\ UNCHANGED store

Miss(r) ==
  /\ at[r] \in {"get", "similar"}
  /\ ~Valid(wanted[r])
  /\ Looked(wanted[r])
  /\ at' = [at EXCEPT ![r] = IF at[r] = "get" THEN "search" ELSE "upstream"]
  /\ wanted' = [wanted EXCEPT ![r] = body[r]]
  /\ UNCHANGED body

(* The vector store names a request stored at any time before, or none. *)
Similar(r) ==
  /\ at[r] = "search"
  /\ \E b \in Bodies : wanted' = [wanted EXCEPT ![r] = b]
  /\ at' = [at EXCEPT ![r] = "similar"]
  /\ UNCHANGED <<store, body>>

NoneSimilar(r) ==
  /\ at[r] = "search"
  /\ GoOn(r, "upstream")
  /\ UNCHANGED store

(* The upstream answers. *)
Responds(r) ==
  /\ at[r] = "upstream"
  /\ GoOn(r, "put")
  /\ UNCHANGED store

Fails(r) ==
  /\ at[r] = "upstream"
  /\ GoOn(r, "error out")
  /\ UNCHANGED store

(* An error that is not kept, a stream, or a caller that is gone. *)
Ends(r) ==
  /\ at[r] \in {"search", "upstream"}
  /\ Done(r)
  /\ UNCHANGED store

Put(r) ==
  /\ at[r] = "put"
  /\ Insert(body[r], "response", Ttl)
  /\ GoOn(r, "ttl") \/ Done(r)

(* set_ttl finds its entry by key alone. *)
SetTtl(r) ==
  LET k == HashOf[body[r]]
  IN  /\ at[r] = "ttl"
      /\ cache' = [q \in DOMAIN cache |->
                    IF q = k /\ cache[q].kind = "response"
                    THEN [cache[q] EXCEPT !.ttl = Override] ELSE cache[q]]
      /\ Done(r)
      /\ UNCHANGED order

-----------------------------------------------------------------------------
(* NegativeCacheService::call: an error on its way out.                    *)

(* The error is already kept. *)
Kept(r) ==
  /\ at[r] = "error out"
  /\ Valid(body[r])
  /\ cache[HashOf[body[r]]].kind = "error"
  /\ Done(r)
  /\ UNCHANGED store

NotKept(r) ==
  /\ at[r] = "error out"
  /\ ~(Valid(body[r]) /\ cache[HashOf[body[r]]].kind = "error")
  /\ Looked(body[r])
  /\ GoOn(r, "error")

PutError(r) ==
  /\ at[r] = "error"
  /\ Insert(body[r], "error", Window)
  /\ Done(r)

-----------------------------------------------------------------------------
(* CacheService::warm, CacheStore::remove and the clock.                   *)

WarmMissing(r, b) ==
  /\ at[r] = "idle"
  /\ ~Valid(b)
  /\ Looked(b)
  /\ at' = [at EXCEPT ![r] = "warm"]
  /\ body' = [body EXCEPT ![r] = b]
  /\ UNCHANGED wanted

(* A placeholder that has expired when it is written. *)
WarmPut(r) ==
  /\ at[r] = "warm"
  /\ Insert(body[r], "placeholder", 0)
  /\ Done(r)

RemoveKey(k) ==
  /\ k \in DOMAIN cache
  /\ RemoveEntry(k)
  /\ UNCHANGED requests

Tick ==
  /\ \E k \in DOMAIN cache : cache[k].age <= cache[k].ttl
  /\ cache' = [k \in DOMAIN cache |->
                 IF cache[k].age <= Longest THEN [cache[k] EXCEPT !.age = @ + 1]
                 ELSE cache[k]]
  /\ UNCHANGED <<order, requests>>

Call(r) ==
  \/ \E b \in Bodies : Begin(r, b)
  \/ \E b \in Bodies : WarmMissing(r, b)
  \/ WarmPut(r)
  \/ Hit(r) \/ Miss(r) \/ Similar(r) \/ NoneSimilar(r)
  \/ Responds(r) \/ Fails(r) \/ Ends(r)
  \/ Put(r) \/ SetTtl(r)
  \/ Kept(r) \/ NotKept(r) \/ PutError(r)

CacheNext ==
  \/ \E r \in Callers : Call(r)
  \/ \E k \in Hashes : RemoveKey(k)
  \/ Tick

CacheSpec == CacheInit /\ [][CacheNext]_cacheVars

-----------------------------------------------------------------------------

(* The queue holds exactly the keys of the map, each once, and no more than  *)
(* max_entries, through replacement, expiry, removal, eviction and           *)
(* placeholders: a key left behind would evict a newer entry or grow the     *)
(* queue for ever (InnerCache::insert, remove_expired, remove).              *)
OrderMatchesMap ==
  /\ Len(order) = Cardinality(DOMAIN cache)
  /\ {order[i] : i \in 1..Len(order)} = DOMAIN cache
  /\ Len(order) <= MaxEntries

(* The queue's front is the oldest entry: no entry is followed by one        *)
(* written before it (InnerCache::insert puts a rewritten key at the back).  *)
OldestFirst ==
  \A i, j \in 1..Len(order) : i < j => cache[order[i]].age >= cache[order[j]].age

(* The store as a caller finds it between two operations. *)
QueueInv == CacheTypeOK /\ OrderMatchesMap /\ OldestFirst

Answered(r) == at[r] \in {"get", "similar"} /\ at'[r] \in {"idle", "error out"}

(* An answer out of the cache was stored for the very body that is looked    *)
(* up, whichever bodies share its key and whatever was written between the   *)
(* vector search and the lookup, and it is never the placeholder of a warmed *)
(* slot, not even at the very instant that is written (get_if_valid, warm).  *)
HitsMatch ==
  [][\A r \in Callers : Answered(r) =>
       /\ cache[HashOf[wanted[r]]].body = wanted[r]
       /\ cache[HashOf[wanted[r]]].kind # "placeholder"]_cacheVars

(* A live entry is lost only when it is removed by its key, or is the oldest *)
(* of a full cache when a key is added: rewriting a key evicts nobody        *)
(* (InnerCache::insert).                                                     *)
LiveEntriesKept ==
  [][\A k \in DOMAIN cache \ DOMAIN cache' :
       \/ Expired(cache[k])
       \/ UNCHANGED requests
       \/ /\ Cardinality(DOMAIN cache) = MaxEntries
          /\ k = Head(order)
          /\ DOMAIN cache' \ DOMAIN cache # {}]_cacheVars

=============================================================================
