------------------------- MODULE BudgetLedgerProofs -------------------------
(***************************************************************************)
(* Proofs about BudgetLedger, for any number of requests, any costs, any   *)
(* limit, window and cap: the counter is exact, and the overshoot and the  *)
(* map are bounded.                                                        *)
(***************************************************************************)
EXTENDS BudgetLedger, FiniteSetTheorems, TLAPS

USE SlotsAssumption, LimitAssumption, WindowAssumption, CapAssumption, ModulusAssumption
USE DEF Goto

(* The counter stays below its modulus: while a rollover has still to      *)
(* subtract, it holds at most two windows' spend.                          *)
Most == Limit - 1 + HighestCost * Cardinality(Slots)

NoOverflow == 2 * Most < Modulus

(* A slot's loaded start and its user are those of what it is doing.       *)
LocalInv ==
  \A r \in Slots :
    /\ r \in fresh => pc[r] \in {"snapshot", "swap"}
    /\ op[r] = "record" => user[r] \in Users
    /\ pc[r] \in {"room", "reclaim", "again", "insert"} => op[r] = "record"

(* A rollover's snapshot and what was added since make up the counter.     *)
CountInv ==
  raced = "no" =>
    /\ \A r, q \in Subtracting : r = q
    /\ Subtracting = {} => spend = kept
    /\ \A r \in Subtracting : spend = kept + old[r] /\ old[r] <= Most
    /\ \A r \in fresh : pc[r] = "swap" => Subtracting = {} /\ spend = old[r] + seen[r]

-----------------------------------------------------------------------------
(* Arithmetic.                                                             *)

LEMMA ModuloRange == \A x \in Int : x % Modulus \in 0..Modulus-1
OBVIOUS

LEMMA ModuloSmall == \A x \in 0..Modulus-1 : x % Modulus = x
OBVIOUS

LEMMA HighestIsHighest == HighestCost \in Nat \ {0} /\ \A c \in Costs : c <= HighestCost
<1>1. PICK c \in Costs : \A d \in Costs : d <= c
  BY CostsAssumption
<1>2. HighestCost \in Costs /\ \A d \in Costs : d <= HighestCost
  BY <1>1 DEF HighestCost
<1> QED BY <1>2, CostsAssumption

LEMMA CostsAreNats == Costs \cup {0} \subseteq Nat
BY CostsAssumption

LEMMA TimesMonotone ==
  ASSUME NEW h \in Nat, NEW m \in Nat, NEW n \in Nat
  PROVE  h * (n + 1) = h * n + h /\ (m <= n => h * m <= h * n) /\ h * n \in Nat
<1>1. h * (n + 1) = h * n + h /\ h * n \in Nat
  OBVIOUS
<1>2. ASSUME m <= n PROVE h * m <= h * n
  <2>1. h * (n - m) >= 0 /\ h * n = h * m + h * (n - m)
    BY <1>2
  <2>2. h * m \in Int /\ h * n \in Int /\ h * (n - m) \in Int
    OBVIOUS
  <2> QED BY <2>1, <2>2
<1> QED BY <1>1, <1>2

LEMMA SlotsCounted == Cardinality(Slots) \in Nat \ {0}
BY FS_CardinalityType, FS_EmptySet

LEMMA MostIsNatural == Most \in Nat
<1>1. HighestCost * Cardinality(Slots) \in Nat \ {0}
  <2>1. HighestCost * 1 <= HighestCost * Cardinality(Slots)
    BY HighestIsHighest, SlotsCounted, TimesMonotone
  <2>2. HighestCost * Cardinality(Slots) \in Nat
    BY HighestIsHighest, SlotsCounted, TimesMonotone
  <2> QED BY <2>1, <2>2, HighestIsHighest
<1> QED BY <1>1 DEF Most

-----------------------------------------------------------------------------
(* Types.                                                                  *)

LEMMA Typing == Spec => [](TypeOK /\ LocalInv)
<1>1. Init => TypeOK /\ LocalInv
  BY CostsAssumption DEF Init, TypeOK, LocalInv, Labels, Ops
<1>2. ASSUME TypeOK, LocalInv, [Next]_vars PROVE TypeOK' /\ LocalInv'
  <2> USE <1>2 DEF TypeOK, LocalInv
  <2>1. CASE UNCHANGED vars
    BY <2>1 DEF vars, entry, locals, maps, ghosts
  <2>2. CASE Tick
    BY <2>2 DEF Tick, locals, ghosts
  <2>3. ASSUME NEW r \in Slots, Load(r) PROVE TypeOK' /\ LocalInv'
    BY <2>3 DEF Load, locals, maps, ghosts, Labels
  <2>4. ASSUME NEW r \in Slots, Snapshot(r) PROVE TypeOK' /\ LocalInv'
    BY <2>4 DEF Snapshot, entry, maps, Labels
  <2>5. ASSUME NEW r \in Slots, SwapWins(r) PROVE TypeOK' /\ LocalInv'
    BY <2>5 DEF SwapWins, locals, maps, Labels
  <2>6. ASSUME NEW r \in Slots, SwapLoses(r) PROVE TypeOK' /\ LocalInv'
    BY <2>6 DEF SwapLoses, entry, maps, ghosts, Labels
  <2>7. ASSUME NEW r \in Slots, Subtract(r) PROVE TypeOK' /\ LocalInv'
    <3>1. spend' \in 0..Modulus-1
      <4>1. spend - old[r] \in Int /\ spend' = (spend - old[r]) % Modulus
        BY <2>7 DEF Subtract
      <4> QED BY <4>1, ModuloRange
    <3>2. old' \in [Slots -> 0..Modulus-1]
      BY <2>7 DEF Subtract
    <3> QED BY <2>7, <3>1, <3>2 DEF Subtract, maps, ghosts, Labels
  <2>8. ASSUME NEW r \in Slots, Begin(r) \/ Allow(r) \/ BeginReset(r)
        PROVE  TypeOK' /\ LocalInv'
    BY <2>8 DEF Begin, Allow, BeginReset, entry, locals, maps, ghosts, Labels, Ops
  <2>9. ASSUME NEW r \in Slots, Answered(r) PROVE TypeOK' /\ LocalInv'
    BY <2>9 DEF Answered, entry, maps, ghosts, Labels, Ops
  <2>10. ASSUME NEW r \in Slots, Done(r), r \notin fresh,
                UNCHANGED <<entry, resets, ghosts>>,
                tracked' \subseteq Users, spent' \subseteq tracked'
         PROVE  TypeOK' /\ LocalInv'
    BY <2>10 DEF Done, entry, ghosts, Labels, Ops
  <2>11. ASSUME NEW r \in Slots, Reject(r) \/ Unrecorded(r) \/ Decline(r)
         PROVE  TypeOK' /\ LocalInv'
    BY <2>10, <2>11 DEF Reject, Unrecorded, Decline, maps
  <2>12. ASSUME NEW r \in Slots, Insert(r) PROVE TypeOK' /\ LocalInv'
    BY <2>10, <2>12 DEF Insert
  <2>13. ASSUME NEW r \in Slots, ClearMaps(r) PROVE TypeOK' /\ LocalInv'
    BY <2>10, <2>13 DEF ClearMaps
  <2>14. ASSUME NEW r \in Slots, Add(r) PROVE TypeOK' /\ LocalInv'
    <3>1. cost[r] \in Nat
      <4>1. cost[r] \in Costs \cup {0}
        OBVIOUS
      <4> QED BY <4>1, CostsAreNats
    <3>2. spend' \in 0..Modulus-1 /\ kept' \in Nat
      <4>1. spend + cost[r] \in Int /\ spend' = (spend + cost[r]) % Modulus
            /\ kept' = kept + cost[r]
        BY <2>14, <3>1 DEF Add
      <4> QED BY <3>1, <4>1, ModuloRange
    <3>3. seen' \in [Slots -> Nat]
      BY <2>14, <3>1 DEF Add
    <3> QED BY <2>14, <3>2, <3>3 DEF Add, locals, maps, Labels
  <2>15. ASSUME NEW r \in Slots, Room(r) \/ Fits(r) PROVE TypeOK' /\ LocalInv'
    BY <2>15 DEF Room, Fits, entry, locals, maps, ghosts, Labels
  <2>16. ASSUME NEW r \in Slots, Reclaim(r) PROVE TypeOK' /\ LocalInv'
    BY <2>16 DEF Reclaim, entry, locals, ghosts, Labels
  <2>17. ASSUME NEW r \in Slots, ResetSpend(r) PROVE TypeOK' /\ LocalInv'
    BY <2>17 DEF ResetSpend, locals, maps, Labels
  <2>18. ASSUME NEW r \in Slots, ResetStart(r) PROVE TypeOK' /\ LocalInv'
    BY <2>18 DEF ResetStart, locals, maps, Labels
  <2> QED
    BY <2>1, <2>2, <2>3, <2>4, <2>5, <2>6, <2>7, <2>8, <2>9, <2>11, <2>12, <2>13,
       <2>14, <2>15, <2>16, <2>17, <2>18
       DEF Next, Call, Reset, SpendUsd
<1> QED BY <1>1, <1>2, PTL DEF Spec

-----------------------------------------------------------------------------
(* Requests under way.                                                     *)

LEMMA OutstandingCounted ==
  /\ IsFiniteSet(Outstanding)
  /\ Cardinality(Outstanding) \in Nat
  /\ Cardinality(Outstanding) <= Cardinality(Slots)
<1>1. Outstanding \in SUBSET Slots
  BY DEF Outstanding
<1> QED BY <1>1, FS_Subset, FS_CardinalityType

LEMMA OutstandingNextCounted ==
  /\ IsFiniteSet(Outstanding')
  /\ Cardinality(Outstanding') \in Nat
  /\ Cardinality(Outstanding') <= Cardinality(Slots)
<1>1. Outstanding' \in SUBSET Slots
  BY DEF Outstanding
<1> QED BY <1>1, FS_Subset, FS_CardinalityType

(* An account that does not rise, with no more requests under way, stays   *)
(* within the overshoot.                                                   *)
LEMMA NoneAdded ==
  ASSUME TypeOK, BoundedOvershoot, raced = "no", kept' \in Nat, kept' <= kept,
         Outstanding' \subseteq Outstanding
  PROVE  BoundedOvershoot'
<1>1. Cardinality(Outstanding') <= Cardinality(Outstanding)
  BY OutstandingCounted, FS_Subset
<1>2. /\ HighestCost * Cardinality(Outstanding') <= HighestCost * Cardinality(Outstanding)
      /\ HighestCost * Cardinality(Outstanding) \in Nat
      /\ HighestCost * Cardinality(Outstanding') \in Nat
  BY <1>1, HighestIsHighest, OutstandingCounted, OutstandingNextCounted, TimesMonotone
<1>3. kept + HighestCost * Cardinality(Outstanding) <= Most
  BY DEF BoundedOvershoot, Most
<1>4. kept' + HighestCost * Cardinality(Outstanding') <= Most
  BY <1>2, <1>3, MostIsNatural DEF TypeOK
<1> QED BY <1>4 DEF BoundedOvershoot, Most

(* What the window accounts for is in the counter.                         *)
LEMMA KeptInCounter ==
  ASSUME TypeOK, CountInv, raced = "no"
  PROVE  kept <= spend
<1>1. CASE Subtracting = {}
  BY <1>1 DEF CountInv, TypeOK
<1>2. ASSUME NEW r \in Subtracting PROVE kept <= spend
  <2>1. spend = kept + old[r]
    BY <1>2 DEF CountInv
  <2>2. old[r] \in Nat /\ kept \in Nat
    BY DEF TypeOK, Subtracting
  <2> QED BY <2>1, <2>2
<1> QED BY <1>1, <1>2

(* A record adds at most what a request under way may still cost.          *)
LEMMA CostIsOutstanding ==
  ASSUME TypeOK, BoundedOvershoot, raced = "no", NEW r \in Slots,
         r \in Outstanding, r \notin Outstanding', Outstanding' \subseteq Outstanding
  PROVE  /\ cost[r] \in Nat
         /\ kept + cost[r] + HighestCost * Cardinality(Outstanding') <= Most
<1>1. Outstanding' \subseteq Outstanding \ {r}
  OBVIOUS
<1>2. /\ IsFiniteSet(Outstanding \ {r})
      /\ Cardinality(Outstanding \ {r}) = Cardinality(Outstanding) - 1
  BY OutstandingCounted, FS_RemoveElement
<1>3. Cardinality(Outstanding') + 1 <= Cardinality(Outstanding)
  <2>1. Cardinality(Outstanding') <= Cardinality(Outstanding \ {r})
    BY <1>1, <1>2, FS_Subset
  <2> QED BY <1>2, <2>1, OutstandingCounted, OutstandingNextCounted
<1>4. /\ HighestCost * (Cardinality(Outstanding') + 1)
           <= HighestCost * Cardinality(Outstanding)
      /\ HighestCost * (Cardinality(Outstanding') + 1)
           = HighestCost * Cardinality(Outstanding') + HighestCost
      /\ HighestCost * Cardinality(Outstanding) \in Nat
      /\ HighestCost * Cardinality(Outstanding') \in Nat
  <2>1. Cardinality(Outstanding') + 1 \in Nat
    BY OutstandingNextCounted
  <2> QED
    BY <1>3, <2>1, HighestIsHighest, OutstandingCounted, OutstandingNextCounted,
       TimesMonotone
<1>5. cost[r] \in Nat /\ cost[r] <= HighestCost
  <2>1. cost[r] \in Costs \cup {0}
    BY DEF TypeOK
  <2> QED BY <2>1, HighestIsHighest, CostsAreNats
<1>6. kept + HighestCost * Cardinality(Outstanding) <= Most
  BY DEF BoundedOvershoot, Most
<1>7. kept + cost[r] + HighestCost * Cardinality(Outstanding') <= Most
  BY <1>4, <1>5, <1>6, HighestIsHighest, MostIsNatural DEF TypeOK
<1> QED BY <1>5, <1>7

(* Who passes the check finds less in the counter than the limit.          *)
LEMMA AllowWithinLimit ==
  ASSUME TypeOK, LocalInv, CountInv, raced = "no", NEW r \in Slots, Allow(r)
  PROVE  BoundedOvershoot'
<1>1. kept <= Limit - 1
  BY KeptInCounter DEF Allow, Within, TypeOK
<1>2. /\ HighestCost * Cardinality(Outstanding') <= HighestCost * Cardinality(Slots)
      /\ HighestCost * Cardinality(Slots) \in Nat
      /\ HighestCost * Cardinality(Outstanding') \in Nat
  BY OutstandingNextCounted, HighestIsHighest, SlotsCounted, TimesMonotone
<1>3. kept' = kept
  BY DEF Allow, ghosts
<1>4. kept' + HighestCost * Cardinality(Outstanding')
        <= Limit - 1 + HighestCost * Cardinality(Slots)
  BY <1>1, <1>2, <1>3 DEF TypeOK
<1> QED BY <1>4 DEF BoundedOvershoot

LEMMA OvershootStep ==
  ASSUME TypeOK, TypeOK', LocalInv, CountInv, BoundedOvershoot, [Next]_vars
  PROVE  BoundedOvershoot'
<1> SUFFICES ASSUME raced' = "no" PROVE BoundedOvershoot'
  BY DEF BoundedOvershoot
<1>a. kept \in Nat /\ kept' \in Nat
  BY DEF TypeOK
<1>0. raced = "no"
  <2>1. CASE UNCHANGED vars
    BY <2>1 DEF vars, ghosts
  <2>2. CASE Next
    BY <2>2 DEF TypeOK, Next, Call, Reset, SpendUsd, Tick, Begin, Load, Snapshot, SwapWins,
       SwapLoses, Subtract, Allow, Reject, Answered, Unrecorded, Add, Room, Reclaim,
       Decline, Fits, Insert, BeginReset, ResetSpend, ResetStart, ClearMaps, ghosts
  <2> QED BY <2>1, <2>2
<1> USE DEF TypeOK
<1>1. CASE UNCHANGED vars
  <2>1. kept' = kept /\ Outstanding' = Outstanding
    BY <1>1 DEF vars, ghosts, locals, Outstanding
  <2> QED BY <2>1, <1>0, <1>a, NoneAdded
<1>2. CASE Tick
  <2>1. kept' = kept /\ Outstanding' = Outstanding
    BY <1>2 DEF Tick, ghosts, locals, Outstanding
  <2> QED BY <2>1, <1>0, <1>a, NoneAdded
<1>3. ASSUME NEW r \in Slots, Load(r) \/ Begin(r) \/ BeginReset(r)
      PROVE  BoundedOvershoot'
  <2>1. kept' = kept /\ Outstanding' \subseteq Outstanding
    BY <1>3 DEF Load, Begin, BeginReset, ghosts, locals, Outstanding
  <2> QED BY <2>1, <1>0, <1>a, NoneAdded
<1>4. ASSUME NEW r \in Slots, Snapshot(r) \/ SwapLoses(r) \/ Subtract(r)
      PROVE  BoundedOvershoot'
  <2>1. kept' = kept /\ Outstanding' \subseteq Outstanding
    BY <1>4 DEF Snapshot, SwapLoses, Subtract, ghosts, Outstanding
  <2> QED BY <2>1, <1>0, <1>a, NoneAdded
<1>5. ASSUME NEW r \in Slots, SwapWins(r) PROVE BoundedOvershoot'
  <2>1. Outstanding' \subseteq Outstanding
    BY <1>5 DEF SwapWins, locals, Outstanding
  <2>2. seen[r] <= kept
    <3>1. Subtracting = {} /\ spend = old[r] + seen[r] /\ spend = kept
      BY <1>5, <1>0 DEF SwapWins, CountInv
    <3> QED BY <3>1
  <2>3. kept' <= kept
    BY <2>2, <1>5 DEF SwapWins
  <2> QED BY <2>1, <2>3, <1>0, <1>a, NoneAdded
<1>6. ASSUME NEW r \in Slots, Allow(r) PROVE BoundedOvershoot'
  BY <1>6, <1>0, AllowWithinLimit
<1>7. ASSUME NEW r \in Slots, Done(r), kept' = kept PROVE BoundedOvershoot'
  <2>1. Outstanding' \subseteq Outstanding
    BY <1>7 DEF Done, Outstanding
  <2> QED BY <2>1, <1>7, <1>0, <1>a, NoneAdded
<1>8. ASSUME NEW r \in Slots,
             \/ Reject(r) \/ Unrecorded(r) \/ Decline(r) \/ Insert(r) \/ ClearMaps(r)
      PROVE  BoundedOvershoot'
  BY <1>7, <1>8 DEF Reject, Unrecorded, Decline, Insert, ClearMaps, ghosts
<1>9. ASSUME NEW r \in Slots, Answered(r) PROVE BoundedOvershoot'
  <2>1. kept' = kept /\ Outstanding' \subseteq Outstanding
    BY <1>9 DEF Answered, ghosts, Outstanding
  <2> QED BY <2>1, <1>0, <1>a, NoneAdded
<1>10. ASSUME NEW r \in Slots, Add(r) PROVE BoundedOvershoot'
  <2>1. r \in Outstanding /\ r \notin Outstanding' /\ Outstanding' \subseteq Outstanding
    BY <1>10 DEF Add, locals, Outstanding
  <2>2. kept' = kept + cost[r]
    BY <1>10 DEF Add
  <2> QED BY <2>1, <2>2, <1>0, CostIsOutstanding DEF BoundedOvershoot, Most
<1>11. ASSUME NEW r \in Slots, Room(r) \/ Reclaim(r) \/ Fits(r) PROVE BoundedOvershoot'
  <2>1. op[r] = "record" /\ kept' = kept
    BY <1>11 DEF Room, Reclaim, Fits, ghosts, LocalInv
  <2>2. Outstanding' \subseteq Outstanding
    BY <1>11, <2>1 DEF Room, Reclaim, Fits, locals, Outstanding
  <2> QED BY <2>1, <2>2, <1>0, <1>a, NoneAdded
<1>12. ASSUME NEW r \in Slots, ResetSpend(r) \/ ResetStart(r) PROVE BoundedOvershoot'
  <2>1. kept' <= kept /\ Outstanding' \subseteq Outstanding
    BY <1>12 DEF ResetSpend, ResetStart, locals, Outstanding
  <2> QED BY <2>1, <1>0, <1>a, NoneAdded
<1> QED
  BY <1>1, <1>2, <1>3, <1>4, <1>5, <1>6, <1>8, <1>9, <1>10, <1>11, <1>12
     DEF Next, Call, Reset, SpendUsd

-----------------------------------------------------------------------------
(* The counter.                                                            *)

(* A step that takes no rollover further leaves the account as it is.      *)
LEMMA CountFrame ==
  ASSUME CountInv, spend' = spend, kept' = kept, seen' = seen, raced = "no",
         Subtracting' = Subtracting,
         \A q \in Subtracting : old'[q] = old[q],
         fresh' \subseteq Slots,
         \A q \in Slots : q \in fresh' /\ pc'[q] = "swap" =>
           q \in fresh /\ pc[q] = "swap" /\ old'[q] = old[q]
  PROVE  CountInv'
BY DEF CountInv

(* An addition goes to the counter, to the account and to what was added   *)
(* since every snapshot that may still win.                                *)
LEMMA CountAdd ==
  ASSUME TypeOK, TypeOK', LocalInv, CountInv, BoundedOvershoot, BoundedOvershoot',
         raced = "no", NoOverflow, NEW r \in Slots, Add(r)
  PROVE  CountInv'
<1> USE DEF TypeOK
<1>1. cost[r] \in Nat /\ kept + cost[r] <= Most
  <2>1. r \in Outstanding /\ r \notin Outstanding' /\ Outstanding' \subseteq Outstanding
    BY DEF Add, locals, Outstanding
  <2>2. HighestCost * Cardinality(Outstanding') \in Nat
    BY HighestIsHighest, OutstandingNextCounted, TimesMonotone
  <2>3. /\ cost[r] \in Nat
        /\ kept + cost[r] + HighestCost * Cardinality(Outstanding') <= Most
    BY <2>1, CostIsOutstanding
  <2> QED BY <2>2, <2>3, MostIsNatural
<1>2. spend + cost[r] \in 0..Modulus-1
  <2>1. CASE Subtracting = {}
    <3>1. spend = kept
      BY <2>1 DEF CountInv
    <3> QED BY <3>1, <1>1, MostIsNatural DEF NoOverflow
  <2>2. ASSUME NEW q \in Subtracting PROVE spend + cost[r] \in 0..Modulus-1
    <3>1. spend = kept + old[q] /\ old[q] <= Most
      BY <2>2 DEF CountInv
    <3>2. old[q] \in Nat
      BY <2>2 DEF Subtracting
    <3> QED BY <3>1, <3>2, <1>1, MostIsNatural DEF NoOverflow
  <2> QED BY <2>1, <2>2
<1>3. spend' = spend + cost[r] /\ kept' = kept + cost[r]
  BY <1>2, ModuloSmall DEF Add
<1>4. Subtracting' = Subtracting /\ old' = old
  BY DEF Add, locals, Subtracting
<1>5. Subtracting' = {} => spend' = kept'
  BY <1>3, <1>4 DEF CountInv
<1>6. ASSUME NEW q \in Subtracting'
      PROVE  spend' = kept' + old'[q] /\ old'[q] <= Most
  <2>1. spend = kept + old[q] /\ old[q] <= Most
    BY <1>4, <1>6 DEF CountInv
  <2>2. old[q] \in Nat
    BY <1>4, <1>6 DEF Subtracting
  <2> QED BY <1>1, <1>3, <1>4, <2>1, <2>2
<1>7. ASSUME NEW q \in fresh', pc'[q] = "swap"
      PROVE  Subtracting' = {} /\ spend' = old'[q] + seen'[q]
  <2>1. q \in Slots /\ q \in fresh /\ pc[q] = "swap" /\ seen'[q] = seen[q] + cost[r]
    BY <1>7 DEF Add
  <2>2. Subtracting = {} /\ spend = old[q] + seen[q]
    BY <2>1 DEF CountInv
  <2>3. old[q] \in Nat /\ seen[q] \in Nat
    BY <2>1
  <2> QED BY <1>1, <1>3, <1>4, <2>1, <2>2, <2>3
<1> QED BY <1>4, <1>5, <1>6, <1>7 DEF CountInv

(* The winner takes over the account of the window it opens; what it has   *)
(* still to subtract is the rest of the counter.                           *)
LEMMA CountSwap ==
  ASSUME TypeOK, TypeOK', CountInv, BoundedOvershoot, raced = "no",
         NEW r \in Slots, SwapWins(r)
  PROVE  CountInv'
<1> USE DEF TypeOK
<1>1. Subtracting = {} /\ spend = old[r] + seen[r] /\ spend = kept
  BY DEF SwapWins, CountInv
<1>2. Subtracting' = {r} /\ fresh' = {}
  BY <1>1 DEF SwapWins, Subtracting
<1>3. spend' = spend /\ old' = old /\ kept' = seen[r]
  BY DEF SwapWins, locals
<1>4. old[r] \in Nat /\ seen[r] \in Nat
  OBVIOUS
<1>5. kept <= Most
  <2>1. HighestCost * Cardinality(Outstanding) \in Nat
    BY HighestIsHighest, OutstandingCounted, TimesMonotone
  <2>2. kept + HighestCost * Cardinality(Outstanding) <= Most
    BY DEF BoundedOvershoot, Most
  <2> QED BY <2>1, <2>2, MostIsNatural
<1>6. spend' = kept' + old'[r] /\ old'[r] <= Most
  BY <1>1, <1>3, <1>4, <1>5, MostIsNatural
<1> QED BY <1>2, <1>6 DEF CountInv

LEMMA CountStep ==
  ASSUME TypeOK, TypeOK', LocalInv, LocalInv', CountInv, BoundedOvershoot,
         BoundedOvershoot', NoOverflow, [Next]_vars
  PROVE  CountInv'
<1> SUFFICES ASSUME raced' = "no" PROVE CountInv'
  BY DEF CountInv
<1> USE DEF TypeOK
<1>0. raced = "no"
  <2>1. CASE UNCHANGED vars
    BY <2>1 DEF vars, ghosts
  <2>2. CASE Next
    BY <2>2 DEF Next, Call, Reset, SpendUsd, Tick, Begin, Load, Snapshot, SwapWins,
       SwapLoses, Subtract, Allow, Reject, Answered, Unrecorded, Add, Room, Reclaim,
       Decline, Fits, Insert, BeginReset, ResetSpend, ResetStart, ClearMaps, ghosts
  <2> QED BY <2>1, <2>2
<1>1. CASE UNCHANGED vars
  BY <1>1 DEF vars, entry, locals, ghosts, CountInv, Subtracting
<1>2. CASE Tick
  <2>1. /\ spend' = spend /\ kept' = kept /\ seen' = seen /\ fresh' = fresh
        /\ pc' = pc /\ old' = old
    BY <1>2 DEF Tick, locals, ghosts
  <2>2. Subtracting' = Subtracting
    BY <2>1 DEF Subtracting
  <2> QED BY <2>1, <2>2, <1>0, CountFrame
<1>3. ASSUME NEW r \in Slots,
             UNCHANGED <<spend, kept, seen>>,
             \E l \in Labels : l \notin {"swap", "subtract"} /\ Goto(r, l),
             pc[r] # "subtract",
             fresh' \subseteq fresh \cup {r},
             \A q \in Slots \ {r} : old'[q] = old[q]
      PROVE  CountInv'
  <2>1. Subtracting' = Subtracting /\ r \notin Subtracting
    BY <1>3 DEF Subtracting
  <2>2. \A q \in Subtracting : old'[q] = old[q]
    BY <2>1, <1>3 DEF Subtracting
  <2>3. ASSUME NEW q \in Slots, q \in fresh', pc'[q] = "swap"
        PROVE  q \in fresh /\ pc[q] = "swap" /\ old'[q] = old[q]
    BY <1>3, <2>3
  <2> QED BY <2>1, <2>2, <2>3, <1>0, <1>3, CountFrame
<1>4. ASSUME NEW r \in Slots, Load(r) \/ SwapLoses(r) PROVE CountInv'
  BY <1>3, <1>4 DEF Load, SwapLoses, entry, locals, ghosts, Labels
<1>5. ASSUME NEW r \in Slots,
             \/ Begin(r) \/ Allow(r) \/ Answered(r) \/ BeginReset(r)
             \/ Room(r) \/ Reclaim(r) \/ Fits(r)
      PROVE  CountInv'
  BY <1>3, <1>5 DEF Begin, Allow, Answered, BeginReset, Room, Reclaim, Fits, entry,
     locals, ghosts, Labels
<1>6. ASSUME NEW r \in Slots,
             \/ Reject(r) \/ Unrecorded(r) \/ Decline(r) \/ Insert(r) \/ ClearMaps(r)
      PROVE  CountInv'
  BY <1>3, <1>6 DEF Reject, Unrecorded, Decline, Insert, ClearMaps, Done, entry,
     ghosts, Labels
<1>7. ASSUME NEW r \in Slots, Snapshot(r) PROVE CountInv'
  <2>1. /\ Subtracting' = Subtracting /\ r \notin Subtracting
        /\ spend' = spend /\ kept' = kept /\ fresh' = fresh
    BY <1>7 DEF Snapshot, Subtracting, entry
  <2>2. \A q \in Slots \ {r} : old'[q] = old[q] /\ seen'[q] = seen[q] /\ pc'[q] = pc[q]
    BY <1>7 DEF Snapshot
  <2>3. old'[r] = spend /\ seen'[r] = 0
    BY <1>7 DEF Snapshot
  <2>4. r \in fresh => Subtracting = {}
    BY <1>7, <1>0 DEF Snapshot
  <2>5. \A q \in Subtracting' : spend' = kept' + old'[q] /\ old'[q] <= Most
    BY <2>1, <2>2, <1>0 DEF CountInv, Subtracting
  <2>6. ASSUME NEW q \in fresh', pc'[q] = "swap"
        PROVE  Subtracting' = {} /\ spend' = old'[q] + seen'[q]
    <3>1. CASE q = r
      BY <2>1, <2>3, <2>4, <2>6, <3>1
    <3>2. CASE q # r
      BY <2>1, <2>2, <2>6, <3>2, <1>0 DEF CountInv
    <3> QED BY <3>1, <3>2
  <2> QED BY <2>1, <2>5, <2>6, <1>0 DEF CountInv
<1>8. ASSUME NEW r \in Slots, SwapWins(r) PROVE CountInv'
  BY <1>8, <1>0, CountSwap
<1>9. ASSUME NEW r \in Slots, Subtract(r) PROVE CountInv'
  <2>1. Subtracting = {r} /\ spend = kept + old[r]
    BY <1>9, <1>0 DEF Subtract, CountInv, Subtracting
  <2>2. spend - old[r] = kept /\ kept \in 0..Modulus-1
    <3>1. old[r] \in Nat
      OBVIOUS
    <3> QED BY <2>1, <3>1
  <2>3. spend' = kept /\ kept' = kept /\ fresh' = fresh
    BY <1>9, <2>2, ModuloSmall DEF Subtract, ghosts
  <2>4. Subtracting' = {}
    BY <2>1, <1>9 DEF Subtract, Subtracting
  <2>5. ~\E q \in fresh' : pc'[q] = "swap"
    BY <2>1, <2>3, <1>0, <1>9 DEF CountInv, Subtract
  <2> QED BY <2>3, <2>4, <2>5 DEF CountInv
<1>10. ASSUME NEW r \in Slots, Add(r) PROVE CountInv'
  BY <1>10, <1>0, CountAdd
<1>11. ASSUME NEW r \in Slots, ResetSpend(r) PROVE CountInv'
  <2>1. Rolling = {} /\ spend' = 0 /\ kept' = 0 /\ fresh' = fresh
    BY <1>0, <1>11 DEF ResetSpend
  <2>2. Subtracting' = {}
    BY <2>1, <1>11 DEF ResetSpend, Rolling, Subtracting
  <2>3. ~\E q \in fresh' : pc'[q] = "swap"
    BY <2>1, <1>11 DEF ResetSpend, Rolling
  <2> QED BY <2>1, <2>2, <2>3 DEF CountInv
<1>12. ASSUME NEW r \in Slots, ResetStart(r) PROVE CountInv'
  <2>1. Subtracting' = {} /\ Subtracting = {} /\ fresh' = {}
    BY <1>0, <1>12 DEF ResetStart, Subtracting
  <2>2. spend' = kept'
    BY <2>1, <1>0, <1>12 DEF ResetStart, CountInv
  <2> QED BY <2>1, <2>2 DEF CountInv
<1> QED
  BY <1>1, <1>2, <1>4, <1>5, <1>6, <1>7, <1>8, <1>9, <1>10, <1>11, <1>12
     DEF Next, Call, Reset, SpendUsd

LEMMA Counting ==
  ASSUME NoOverflow
  PROVE  Spec => [](TypeOK /\ LocalInv /\ CountInv /\ BoundedOvershoot)
<1>1. Init => CountInv /\ BoundedOvershoot
  <2>1. ASSUME Init PROVE CountInv
    BY <2>1 DEF Init, CountInv, Subtracting
  <2>2. ASSUME Init PROVE BoundedOvershoot
    <3>1. Outstanding = {} /\ kept = 0
      BY <2>2 DEF Init, Outstanding
    <3>2. Cardinality({}) = 0 /\ HighestCost * 0 = 0
      BY FS_EmptySet, HighestIsHighest
    <3> QED BY <3>1, <3>2, MostIsNatural DEF BoundedOvershoot, Most
  <2> QED BY <2>1, <2>2
<1>2. ASSUME TypeOK, TypeOK', LocalInv, LocalInv', CountInv, BoundedOvershoot, [Next]_vars
      PROVE  CountInv' /\ BoundedOvershoot'
  <2>1. BoundedOvershoot'
    BY <1>2, OvershootStep
  <2> QED BY <1>2, <2>1, CountStep
<1> QED BY <1>1, <1>2, Typing, PTL DEF Spec

(* As long as no reset races with a rollover and no thread is held up for  *)
(* a window before it subtracts, the counter of the window is what the     *)
(* window has to account for, whatever the order of loads, swaps and       *)
(* additions (WindowEntry::spend_usd and add in tower/budget.rs).          *)
THEOREM CounterIsExact ==
  ASSUME NoOverflow
  PROVE  Spec => []CountsExactly
<1>1. ASSUME CountInv, raced = "no"
      PROVE  /\ Cardinality(Subtracting) <= 1
             /\ Subtracting = {} => spend = kept
             /\ \A r \in Subtracting : spend = kept + old[r]
  <2>1. \A r, q \in Subtracting : r = q
    BY <1>1 DEF CountInv
  <2>2. Cardinality(Subtracting) <= 1
    <3>1. CASE Subtracting = {}
      BY <3>1, FS_EmptySet
    <3>2. ASSUME NEW r \in Subtracting PROVE Cardinality(Subtracting) <= 1
      <4>1. Subtracting = {r}
        BY <2>1
      <4>2. Cardinality({r}) = 1
        BY FS_Singleton
      <4> QED BY <4>1, <4>2
    <3> QED BY <3>1, <3>2
  <2> QED BY <1>1, <2>2 DEF CountInv
<1>2. CountInv => CountsExactly
  BY <1>1 DEF CountsExactly
<1> QED BY <1>2, Counting, PTL

(* Requests that pass the check before the others have been recorded       *)
(* overshoot the limit by what they cost and no more, for any number of    *)
(* requests (BudgetLedgerService::call, check and record).                 *)
THEOREM OvershootBounded ==
  ASSUME NoOverflow
  PROVE  Spec => []BoundedOvershoot
BY Counting, PTL

-----------------------------------------------------------------------------
(* The per-user map.                                                       *)

(* The users about to be inserted are no more than the slots.              *)
LEMMA ImageCounted ==
  ASSUME NEW u, NEW A \in SUBSET Slots
  PROVE  LET I == {u[q] : q \in A}
         IN  /\ IsFiniteSet(I)
             /\ Cardinality(I) \in Nat
             /\ Cardinality(I) <= Cardinality(Slots)
<1> DEFINE I == {u[q] : q \in A}
           f == [q \in A |-> u[q]]
<1>1. IsFiniteSet(A) /\ Cardinality(A) <= Cardinality(Slots)
  BY FS_Subset
<1>2. f \in Surjection(A, I)
  BY DEF Surjection
<1> HIDE DEF f, I
<1>3. IsFiniteSet(I) /\ Cardinality(I) <= Cardinality(A)
  BY <1>1, <1>2, FS_Surjection
<1>4. Cardinality(A) \in Nat /\ Cardinality(I) \in Nat
  BY <1>1, <1>3, FS_CardinalityType
<1>5. Cardinality(I) <= Cardinality(Slots)
  BY <1>1, <1>3, <1>4, SlotsCounted
<1> QED BY <1>3, <1>4, <1>5 DEF I

LEMMA InsertingCounted ==
  /\ IsFiniteSet(Inserting)
  /\ Cardinality(Inserting) \in Nat
  /\ Cardinality(Inserting) <= Cardinality(Slots)
<1> DEFINE A == {q \in Slots : pc[q] = "insert"}
<1>1. A \in SUBSET Slots
  OBVIOUS
<1> QED BY <1>1, ImageCounted DEF Inserting

LEMMA InsertingNextCounted ==
  /\ IsFiniteSet(Inserting')
  /\ Cardinality(Inserting') \in Nat
  /\ Cardinality(Inserting') <= Cardinality(Slots)
<1> DEFINE A == {q \in Slots : pc'[q] = "insert"}
<1>1. A \in SUBSET Slots
  OBVIOUS
<1> QED BY <1>1, ImageCounted DEF Inserting

LEMMA UnionCounted ==
  ASSUME NEW S, NEW T, IsFiniteSet(S), IsFiniteSet(T)
  PROVE  /\ IsFiniteSet(S \cup T)
         /\ Cardinality(S \cup T) \in Nat
         /\ Cardinality(S \cup T) <= Cardinality(S) + Cardinality(T)
<1>1. /\ IsFiniteSet(S \cup T) /\ IsFiniteSet(S \cap T)
      /\ Cardinality(S \cup T)
           = Cardinality(S) + Cardinality(T) - Cardinality(S \cap T)
  <2>1. IsFiniteSet(S \cap T)
    BY FS_Intersection
  <2> QED BY <2>1, FS_Union
<1> QED BY <1>1, FS_CardinalityType

(* The map stays finite; users are any set.                                *)
MapFinite == IsFiniteSet(tracked)

LEMMA MapStep ==
  ASSUME TypeOK, TypeOK', LocalInv, MapFinite, CapRespected, [Next]_vars
  PROVE  MapFinite' /\ CapRespected'
<1> DEFINE Held == tracked \cup Inserting
<1> USE DEF TypeOK
<1>0. IsFiniteSet(Held) /\ Cardinality(Held) \in Nat
  BY InsertingCounted, UnionCounted DEF MapFinite
<1>1. ASSUME Held' \subseteq Held PROVE MapFinite' /\ CapRespected'
  <2>1. IsFiniteSet(Held') /\ Cardinality(Held') <= Cardinality(Held)
    BY <1>0, <1>1, FS_Subset
  <2>2. Cardinality(Held') \in Nat
    BY <2>1, FS_CardinalityType
  <2>3. IsFiniteSet(tracked')
    BY <2>1, FS_Subset
  <2>4. Cardinality(Held) <= Cap + Cardinality(Slots) - 1
    BY DEF CapRespected
  <2>5. Cardinality(Held') <= Cap + Cardinality(Slots) - 1
    BY <1>0, <2>1, <2>2, <2>4, SlotsCounted
  <2> QED BY <2>3, <2>5 DEF MapFinite, CapRespected
<1>2. CASE UNCHANGED vars
  BY <1>1, <1>2 DEF vars, locals, maps, Inserting
<1>3. CASE Tick
  BY <1>1, <1>3 DEF Tick, locals, Inserting
<1>4. ASSUME NEW r \in Slots, tracked' \subseteq tracked,
             \A q \in Slots : pc'[q] = "insert" => pc[q] = "insert" /\ user'[q] = user[q]
      PROVE  MapFinite' /\ CapRespected'
  BY <1>1, <1>4 DEF Inserting
<1>5. ASSUME NEW r \in Slots,
             \/ SpendUsd(r) \/ Begin(r) \/ Allow(r) \/ Add(r) \/ Room(r)
             \/ BeginReset(r) \/ ResetSpend(r) \/ ResetStart(r)
      PROVE  MapFinite' /\ CapRespected'
  BY <1>4, <1>5 DEF SpendUsd, Load, Snapshot, SwapWins, SwapLoses, Subtract, Begin,
     Allow, Add, Room, BeginReset, ResetSpend, ResetStart, locals, maps
<1>6. ASSUME NEW r \in Slots, Reject(r) \/ Unrecorded(r) \/ Decline(r) \/ ClearMaps(r)
      PROVE  MapFinite' /\ CapRespected'
  BY <1>4, <1>6 DEF Reject, Unrecorded, Decline, ClearMaps, Done, maps
<1>7. ASSUME NEW r \in Slots, Answered(r) PROVE MapFinite' /\ CapRespected'
  BY <1>4, <1>7 DEF Answered, maps
<1>8. ASSUME NEW r \in Slots, Reclaim(r) PROVE MapFinite' /\ CapRespected'
  BY <1>4, <1>8 DEF Reclaim, locals
<1>9. ASSUME NEW r \in Slots, Insert(r) PROVE MapFinite' /\ CapRespected'
  <2>1. tracked' = tracked \cup {user[r]} /\ user[r] \in Inserting
    BY <1>9 DEF Insert, Inserting
  <2>2. Inserting' \subseteq Inserting
    BY <1>9 DEF Insert, Done, Inserting
  <2> QED BY <1>1, <2>1, <2>2
<1>10. ASSUME NEW r \in Slots, Fits(r) PROVE MapFinite' /\ CapRespected'
  <2>1. tracked' = tracked /\ Inserting' = Inserting \cup {user[r]}
    BY <1>10 DEF Fits, locals, maps, Inserting
  <2>2. CASE user[r] \in tracked
    <3>1. Held' \subseteq Held
      BY <2>1, <2>2
    <3> QED BY <1>1, <3>1
  <2>3. CASE user[r] \notin tracked
    <3>1. Cardinality(tracked) \in Nat /\ Cardinality(tracked) < Cap
      BY <1>10, <2>3, FS_CardinalityType DEF Fits, NoRoom, MapFinite
    <3>2. /\ IsFiniteSet(Inserting') /\ Cardinality(Inserting') \in Nat
          /\ Cardinality(Inserting') <= Cardinality(Slots)
      BY InsertingNextCounted
    <3>3. Cardinality(Held') <= Cardinality(tracked) + Cardinality(Inserting')
          /\ Cardinality(Held') \in Nat
      BY <2>1, <3>2, UnionCounted DEF MapFinite
    <3>4. Cardinality(Held') <= Cap + Cardinality(Slots) - 1
      BY <3>1, <3>2, <3>3, SlotsCounted
    <3> QED BY <2>1, <3>4 DEF MapFinite, CapRespected
  <2> QED BY <2>2, <2>3
<1> QED
  BY <1>2, <1>3, <1>5, <1>6, <1>7, <1>8, <1>9, <1>10 DEF Next, Call, Reset

(* The per-user map exceeds its cap by the principals that passed the      *)
(* second test together, fewer than there are requests, for any users and  *)
(* any cap (entry_add_capped).                                             *)
THEOREM MapBounded == Spec => []MapInv
<1>1. Init => MapFinite /\ CapRespected
  <2> SUFFICES ASSUME Init PROVE MapFinite /\ CapRespected
    OBVIOUS
  <2>1. tracked = {} /\ tracked \cup Inserting = {}
    BY DEF Init, Inserting
  <2> QED BY <2>1, FS_EmptySet, SlotsCounted DEF MapFinite, CapRespected
<1>2. TypeOK /\ TypeOK' /\ LocalInv /\ MapFinite /\ CapRespected /\ [Next]_vars
        => MapFinite' /\ CapRespected'
  BY MapStep
<1>3. Spec => []CapRespected
  BY <1>1, <1>2, Typing, PTL DEF Spec
<1> QED BY <1>3, Typing, PTL DEF MapInv

=============================================================================
