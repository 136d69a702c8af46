---------------------------- MODULE BudgetLedger ----------------------------
(***************************************************************************)
(* InMemoryBudgetLedger behind BudgetLedgerService                         *)
(* (crates/liter-llm/src/tower/budget.rs), enforcement Hard: a request     *)
(* checks the ledger, calls upstream and records what it cost.             *)
(*                                                                         *)
(* The global WindowEntry is two atomics without a lock, so every load,    *)
(* compare-and-swap, subtraction and addition on it is a step.  The        *)
(* entries of a map are changed under their shard's lock and are one step  *)
(* each; only the capped per-user map is kept, the per-model and           *)
(* per-tenant maps are the same without the cap.  A slot of Slots is a     *)
(* request, its record task or a reset, one after another.                 *)
(*                                                                         *)
(* The clock is kept as the age of the global window.  A timestamp is      *)
(* taken together with the load of the window's start.                     *)
(***************************************************************************)
EXTENDS Integers, FiniteSets

CONSTANTS
  Slots,      \* requests under way at once, resets and record tasks included
  Users,      \* user ids
  Costs,      \* what a priced request may cost, in microcents
  Limit,      \* the global limit; update_limits does not change it here
  Window,     \* window_secs
  Cap,        \* max_principal_entries
  Modulus,    \* 2^64: spend_mc wraps around
  MaxResets   \* bound: calls of reset

ASSUME SlotsAssumption == IsFiniteSet(Slots) /\ Slots # {}
ASSUME CostsAssumption ==
  Costs \subseteq Nat \ {0} /\ \E c \in Costs : \A d \in Costs : d <= c
ASSUME LimitAssumption == Limit \in Nat
ASSUME WindowAssumption == Window \in Nat \ {0} /\ MaxResets \in Nat
ASSUME CapAssumption == Cap \in Nat \ {0}
ASSUME ModulusAssumption == Modulus \in Nat \ {0}

Ops == {"none", "check", "record", "reset"}

Labels == {"idle", "zero", "epoch", "load", "snapshot", "swap", "subtract",
           "read", "inner", "room", "reclaim", "again", "insert"}

VARIABLES
  spend,     \* spend_mc of the global entry
  age,       \* now - window_start_secs, counted up to Window
  fresh,     \* slots whose loaded start is still the entry's
  pc,        \* where each slot stands
  op,        \* what it is doing with the global entry
  old,       \* the snapshot of spend_mc a rollover has taken
  cost,      \* what the slot's request cost
  user,      \* the user it is for, looked at when it is recorded
  tracked,   \* keys of the per-user map
  spent,     \* those with spend in their current window
  resets,    \* resets so far
  kept,      \* auxiliary: what the current window has to account for
  seen,      \* auxiliary: what was added since a slot's snapshot
  raced      \* auxiliary: "yes" once a reset or another rollover started
             \* before a rollover had subtracted

entry == <<spend, age, fresh>>
locals == <<op, old, cost, user>>
maps == <<tracked, spent>>
ghosts == <<kept, seen, raced>>
vars == <<entry, pc, locals, maps, resets, ghosts>>

TypeOK ==
  /\ spend \in 0..Modulus-1
  /\ age \in 0..Window
  /\ fresh \subseteq Slots
  /\ pc \in [Slots -> Labels]
  /\ op \in [Slots -> Ops]
  /\ old \in [Slots -> 0..Modulus-1]
  /\ cost \in [Slots -> Costs \cup {0}]
  /\ user \in [Slots -> Users \cup {"none"}]
  /\ tracked \subseteq Users
  /\ spent \subseteq tracked
  /\ resets \in 0..MaxResets
  /\ kept \in Nat
  /\ seen \in [Slots -> Nat]
  /\ raced \in {"no", "yes"}

Init ==
  /\ spend = 0
  /\ age = 0
  /\ fresh = {}
  /\ pc = [r \in Slots |-> "idle"]
  /\ op = [r \in Slots |-> "none"]
  /\ old = [r \in Slots |-> 0]
  /\ cost = [r \in Slots |-> 0]
  /\ user = [r \in Slots |-> "none"]
  /\ tracked = {}
  /\ spent = {}
  /\ resets = 0
  /\ kept = 0
  /\ seen = [r \in Slots |-> 0]
  /\ raced = "no"

Goto(r, label) == pc' = [pc EXCEPT ![r] = label]

(* Slots that hold a snapshot they may still subtract. *)
Subtracting == {r \in Slots : pc[r] = "subtract"}

Rolling == Subtracting \cup {r \in fresh : pc[r] = "swap"}

(* The request is answered, or the task is over. *)
Done(r) ==
  /\ Goto(r, "idle")
  /\ op' = [op EXCEPT ![r] = "none"]
  /\ cost' = [cost EXCEPT ![r] = 0]
  /\ user' = [user EXCEPT ![r] = "none"]
  /\ UNCHANGED old

-----------------------------------------------------------------------------
(* Mistakes the properties have to catch; no action below uses them.       *)

(* A store in place of the compare-and-swap. *)
SwapAlways(r) ==
  /\ pc[r] = "swap"
  /\ age' = 0
  /\ fresh' = fresh \ {r}
  /\ kept' = seen[r]
  /\ seen' = [q \in Slots |-> IF q \in fresh' THEN seen[q] ELSE 0]
  /\ Goto(r, "subtract")
  /\ UNCHANGED <<spend, locals, maps, resets, raced>>

(* A limit that is reached does not reject yet. *)
WithinInclusive == spend <= Limit

(* A new principal is let in when it is the map that is full. *)
NoRoomStrict(u) == u \notin tracked /\ Cardinality(tracked) > Cap

-----------------------------------------------------------------------------
(* WindowEntry::spend_usd, for a check, a record or a reset.               *)

(* Load the start; go on to the rollover if the window has elapsed. *)
Load(r) ==
  /\ pc[r] = "load"
  /\ \/ /\ age >= Window
        /\ fresh' = fresh \cup {r}
        /\ Goto(r, "snapshot")
     \/ /\ age < Window
        /\ UNCHANGED fresh
        /\ Goto(r, "read")
  /\ UNCHANGED <<spend, age, locals, maps, resets, ghosts>>

Snapshot(r) ==
  /\ pc[r] = "snapshot"
  /\ old' = [old EXCEPT ![r] = spend]
  /\ seen' = [seen EXCEPT ![r] = 0]
  /\ raced' = IF r \in fresh /\ Subtracting # {} THEN "yes" ELSE raced
  /\ Goto(r, "swap")
  /\ UNCHANGED <<entry, op, cost, user, maps, resets, kept>>

(* The winner of the compare-and-swap.  The start has a new value for the  *)
(* others, the window being at least a second.                             *)
SwapWins(r) ==
  /\ pc[r] = "swap"
  /\ r \in fresh
  /\ age' = 0
  /\ fresh' = {}
  /\ kept' = seen[r]
  /\ seen' = [q \in Slots |-> IF q \in fresh' THEN seen[q] ELSE 0]
  /\ Goto(r, "subtract")
  /\ UNCHANGED <<spend, locals, maps, resets, raced>>

SwapLoses(r) ==
  /\ pc[r] = "swap"
  /\ r \notin fresh
  /\ old' = [old EXCEPT ![r] = 0]
  /\ Goto(r, "read")
  /\ UNCHANGED <<entry, op, cost, user, maps, resets, ghosts>>

Subtract(r) ==
  /\ pc[r] = "subtract"
  /\ spend' = (spend - old[r]) % Modulus
  /\ old' = [old EXCEPT ![r] = 0]
  /\ Goto(r, "read")
  /\ UNCHANGED <<age, fresh, op, cost, user, maps, resets, ghosts>>

SpendUsd(r) ==
  Load(r) \/ Snapshot(r) \/ SwapWins(r) \/ SwapLoses(r) \/ Subtract(r)

-----------------------------------------------------------------------------
(* BudgetLedgerService::call.                                              *)

(* The check of a request. *)
Begin(r) ==
  /\ pc[r] = "idle"
  /\ op' = [op EXCEPT ![r] = "check"]
  /\ Goto(r, "load")
  /\ UNCHANGED <<entry, old, cost, user, maps, resets, ghosts>>

Within == spend < Limit

Allow(r) ==
  /\ pc[r] = "read" /\ op[r] = "check"
  /\ Within
  /\ Goto(r, "inner")
  /\ UNCHANGED <<entry, locals, maps, resets, ghosts>>

(* BudgetExceeded. *)
Reject(r) ==
  /\ pc[r] = "read" /\ op[r] = "check"
  /\ ~Within
  /\ Done(r)
  /\ UNCHANGED <<entry, maps, resets, ghosts>>

(* A response whose usage has a price: recorded at once, or by the task    *)
(* spawned at the end of a stream.                                         *)
Answered(r) ==
  /\ pc[r] = "inner"
  /\ \E c \in Costs : cost' = [cost EXCEPT ![r] = c]
  /\ \E u \in Users : user' = [user EXCEPT ![r] = u]
  /\ op' = [op EXCEPT ![r] = "record"]
  /\ Goto(r, "load")
  /\ UNCHANGED <<entry, old, maps, resets, ghosts>>

(* An error, no price, a stream dropped early or drained without runtime.  *)
Unrecorded(r) ==
  /\ pc[r] = "inner"
  /\ Done(r)
  /\ UNCHANGED <<entry, maps, resets, ghosts>>

(* WindowEntry::add. *)
Add(r) ==
  /\ pc[r] = "read" /\ op[r] = "record"
  /\ spend' = (spend + cost[r]) % Modulus
  /\ kept' = kept + cost[r]
  /\ seen' = [q \in Slots |-> IF q \in fresh /\ pc[q] = "swap"
                              THEN seen[q] + cost[r] ELSE 0]
  /\ Goto(r, "room")
  /\ UNCHANGED <<age, fresh, locals, maps, resets, raced>>

-----------------------------------------------------------------------------
(* entry_add_capped on the per-user map.                                   *)

NoRoom(u) == u \notin tracked /\ Cardinality(tracked) >= Cap

Room(r) ==
  /\ pc[r] = "room"
  /\ Goto(r, IF NoRoom(user[r]) THEN "reclaim" ELSE "again")
  /\ UNCHANGED <<entry, locals, maps, resets, ghosts>>

(* Room is made by dropping whoever has no spend in its window. *)
Reclaim(r) ==
  /\ pc[r] = "reclaim"
  /\ tracked' = spent
  /\ Goto(r, "again")
  /\ UNCHANGED <<entry, locals, spent, resets, ghosts>>

(* Still full: the new principal is not tracked. *)
Decline(r) ==
  /\ pc[r] = "again"
  /\ NoRoom(user[r])
  /\ Done(r)
  /\ UNCHANGED <<entry, maps, resets, ghosts>>

Fits(r) ==
  /\ pc[r] = "again"
  /\ ~NoRoom(user[r])
  /\ Goto(r, "insert")
  /\ UNCHANGED <<entry, locals, maps, resets, ghosts>>

Insert(r) ==
  /\ pc[r] = "insert"
  /\ tracked' = tracked \cup {user[r]}
  /\ spent' = spent \cup {user[r]}
  /\ Done(r)
  /\ UNCHANGED <<entry, resets, ghosts>>

-----------------------------------------------------------------------------
(* reset: the counter, then the start, then a rollover, then the maps.     *)

BeginReset(r) ==
  /\ pc[r] = "idle"
  /\ resets < MaxResets
  /\ resets' = resets + 1
  /\ op' = [op EXCEPT ![r] = "reset"]
  /\ Goto(r, "zero")
  /\ UNCHANGED <<entry, old, cost, user, maps, ghosts>>

ResetSpend(r) ==
  /\ pc[r] = "zero"
  /\ spend' = 0
  /\ kept' = 0
  /\ seen' = [q \in Slots |-> 0]
  /\ raced' = IF Rolling = {} THEN raced ELSE "yes"
  /\ Goto(r, "epoch")
  /\ UNCHANGED <<age, fresh, locals, maps, resets>>

ResetStart(r) ==
  /\ pc[r] = "epoch"
  /\ age' = Window
  /\ fresh' = {}
  /\ seen' = [q \in Slots |-> 0]
  /\ raced' = IF Subtracting = {} THEN raced ELSE "yes"
  /\ Goto(r, "load")
  /\ UNCHANGED <<spend, locals, maps, resets, kept>>

ClearMaps(r) ==
  /\ pc[r] = "read" /\ op[r] = "reset"
  /\ tracked' = {}
  /\ spent' = {}
  /\ Done(r)
  /\ UNCHANGED <<entry, resets, ghosts>>

(* The clock.  The users' windows end on their own.                        *)
Tick ==
  /\ age < Window
  /\ age' = age + 1
  /\ \E ended \in SUBSET spent : spent' = spent \ ended
  /\ UNCHANGED <<spend, fresh, pc, locals, tracked, resets, ghosts>>

-----------------------------------------------------------------------------

Call(r) ==
  \/ Begin(r) \/ SpendUsd(r) \/ Allow(r) \/ Reject(r) \/ Answered(r)
  \/ Unrecorded(r) \/ Add(r)
  \/ Room(r) \/ Reclaim(r) \/ Decline(r) \/ Fits(r) \/ Insert(r)

Reset(r) == BeginReset(r) \/ ResetSpend(r) \/ ResetStart(r) \/ ClearMaps(r)

Next == Tick \/ \E r \in Slots : Call(r) \/ Reset(r)

Spec == Init /\ [][Next]_vars

-----------------------------------------------------------------------------

(* What the rollovers under way have still to subtract. *)
Pending(r) == IF pc[r] = "subtract" THEN old[r] ELSE 0

(* The counter is exactly what was added since the snapshot of the last    *)
(* rollover, but for what its winner has still to take off: no addition is *)
(* lost or counted twice, the old window is taken off once, and the        *)
(* counter does not fall below zero, whatever the order of loads, swaps    *)
(* and additions (WindowEntry::spend_usd, add).  Only a reset, or a        *)
(* thread held up for a whole window before it subtracts, breaks it.       *)
CountsExactly ==
  raced = "no" =>
    /\ Cardinality(Subtracting) <= 1
    /\ Subtracting = {} => spend = kept
    /\ \A r \in Subtracting : spend = kept + old[r]

(* Requests that spend and have not yet been recorded. *)
Outstanding ==
  {r \in Slots :
     \/ pc[r] = "inner"
     \/ op[r] = "record" /\ pc[r] \notin {"room", "reclaim", "again", "insert"}}

HighestCost == CHOOSE c \in Costs : \A d \in Costs : d <= c

(* Requests that pass the check together overshoot the limit by what they  *)
(* spend and no more: the window never accounts for more than a limit not  *)
(* yet reached and the cost of the requests under way (call, check,        *)
(* record).                                                                *)
BoundedOvershoot ==
  raced = "no" =>
    kept + HighestCost * Cardinality(Outstanding)
      <= Limit - 1 + HighestCost * Cardinality(Slots)

(* The per-user map exceeds its cap only by the principals that passed the *)
(* second test together (entry_add_capped).                                *)
Inserting == {user[r] : r \in {q \in Slots : pc[q] = "insert"}}

CapRespected ==
  Cardinality(tracked \cup Inserting) <= Cap + Cardinality(Slots) - 1

(* The map, and every variable, within its bounds. *)
MapInv == TypeOK /\ CapRespected

=============================================================================
