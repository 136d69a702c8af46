------------------------ MODULE CircuitBreakerProofs ------------------------
(***************************************************************************)
(* Proofs about CircuitBreaker.                                            *)
(*                                                                         *)
(* For every runtime: types, OpenIsStamped and OneCountPerTrip.  For a     *)
(* runtime that does not interrupt a section (Preempt = {}): the slot is   *)
(* never lost, a Closed circuit is below its threshold and the edges are   *)
(* the documented ones.                                                    *)
(***************************************************************************)
EXTENDS CircuitBreaker, TLAPS

USE DEF Labels, States, Resting, shared, futures, locals, Goto, At, Return, Lesser

(* Every step keeps the types. *)
LEMMA Typing == Spec => []TypeOK
<1>1. Init => TypeOK
  BY ThresholdAssumption, BackoffAssumption DEF Init, TypeOK
<1>2. ASSUME TypeOK, [Next]_vars PROVE TypeOK'
  <2> USE <1>2, ThresholdAssumption, BackoffAssumption, NoneAssumption DEF TypeOK
  <2>1. CASE UNCHANGED vars
    BY <2>1 DEF vars
  <2>2. CASE Tick
    BY <2>2 DEF Tick
  <2>3. ASSUME NEW r \in Requests, Call(r) \/ DropUnpolled(r) PROVE TypeOK'
    BY <2>3 DEF Call, DropUnpolled
  <2>4. ASSUME NEW r \in Requests, Admission(r) PROVE TypeOK'
    BY <2>4 DEF Admission, ShouldAllow, ReadBackoff, TimerElapsed, RejectOpen,
                EnterHalfOpen, ClaimSlot, RejectHalfOpen
  <2>5. ASSUME NEW r \in Requests, Answer(r) PROVE TypeOK'
    <3>1. CASE SucceedHalfOpen(r) \/ SucceedClosed(r) \/ SucceedOpen(r)
      BY <3>1 DEF SucceedHalfOpen, SucceedClosed, SucceedOpen
    <3>2. CASE Fail(r)
      BY <3>2 DEF Fail
    <3>3. CASE FailTerminal(r) \/ Cancel(r)
      BY <3>3 DEF FailTerminal, Cancel
    <3> QED BY <2>5, <3>1, <3>2, <3>3 DEF Answer
  <2>6. ASSUME NEW r \in Requests, Recording(r) PROVE TypeOK'
    BY <2>6 DEF Recording, ResetFailures, FreeSlot, ZeroFailures, Judge, ShouldOpen, Tolerate,
                Trip, TripLost, CountTrip, StampTrip, ClearSlot
  <2> QED BY <2>1, <2>2, <2>3, <2>4, <2>5, <2>6 DEF Next
<1> QED BY <1>1, <1>2, PTL DEF Spec

(* The circuit becomes Open only by a won swap, and the winner stamps it:  *)
(* record_failure leaves no Open circuit that cannot be left, and none     *)
(* that is measured against an earlier outage for good.                    *)
THEOREM OpenStamped == Spec => []OpenIsStamped
<1>1. Init => OpenIsStamped
  BY DEF Init, OpenIsStamped
<1>2. ASSUME TypeOK, OpenIsStamped, [Next]_vars PROVE OpenIsStamped'
  <2> USE <1>2, NoneAssumption DEF TypeOK, OpenIsStamped
  <2>1. CASE UNCHANGED vars
    BY <2>1 DEF vars
  <2>2. CASE Tick
    BY <2>2 DEF Tick
  <2>3. ASSUME NEW r \in Requests, Call(r) \/ DropUnpolled(r) PROVE OpenIsStamped'
    BY <2>3 DEF Call, DropUnpolled
  <2>4. ASSUME NEW r \in Requests, Admission(r) PROVE OpenIsStamped'
    BY <2>4 DEF Admission, ShouldAllow, ReadBackoff, TimerElapsed, RejectOpen,
                EnterHalfOpen, ClaimSlot, RejectHalfOpen
  <2>5. ASSUME NEW r \in Requests, Answer(r) PROVE OpenIsStamped'
    BY <2>5 DEF Answer, SucceedHalfOpen, SucceedClosed, SucceedOpen, Fail,
                FailTerminal, Cancel
  <2>6. ASSUME NEW r \in Requests, Recording(r) PROVE OpenIsStamped'
    <3>1. CASE StampTrip(r)
      BY <3>1 DEF StampTrip
    <3>2. CASE Trip(r) \/ CountTrip(r)
      BY <3>2 DEF Trip, CountTrip
    <3>3. CASE ResetFailures(r) \/ FreeSlot(r) \/ ZeroFailures(r) \/ Judge(r)
                 \/ Tolerate(r) \/ TripLost(r) \/ ClearSlot(r)
      BY <3>3 DEF ResetFailures, FreeSlot, ZeroFailures, Judge, Tolerate, TripLost,
                  ClearSlot
    <3> QED BY <2>6, <3>1, <3>2, <3>3 DEF Recording
  <2> QED BY <2>1, <2>2, <2>3, <2>4, <2>5, <2>6 DEF Next
<1> QED BY <1>1, <1>2, Typing, PTL DEF Spec

(* Only the request whose swap opened the circuit counts and stamps the    *)
(* trip, whatever the runtime interrupts.  (record_failure)                *)
THEOREM TripCountedOnce == Spec => OneCountPerTrip
<1> DEFINE Counted(r) ==
      pc[r] # "count" /\ pc'[r] = "count" => state # "Open" /\ state' = "Open"
<1>1. ASSUME TypeOK, [Next]_vars, NEW q \in Requests PROVE Counted(q)
  <2> USE <1>1 DEF TypeOK
  <2>1. CASE UNCHANGED vars
    BY <2>1 DEF vars
  <2>2. CASE Tick
    BY <2>2 DEF Tick
  <2>3. ASSUME NEW r \in Requests, Call(r) \/ DropUnpolled(r) PROVE Counted(q)
    BY <2>3 DEF Call, DropUnpolled
  <2>4. ASSUME NEW r \in Requests, Admission(r) PROVE Counted(q)
    BY <2>4 DEF Admission, ShouldAllow, ReadBackoff, TimerElapsed, RejectOpen,
                EnterHalfOpen, ClaimSlot, RejectHalfOpen
  <2>5. ASSUME NEW r \in Requests, Answer(r) PROVE Counted(q)
    BY <2>5 DEF Answer, SucceedHalfOpen, SucceedClosed, SucceedOpen, Fail,
                FailTerminal, Cancel
  <2>6. ASSUME NEW r \in Requests, Recording(r) PROVE Counted(q)
    <3>1. CASE Trip(r)
      BY <3>1 DEF Trip
    <3>2. CASE ResetFailures(r) \/ FreeSlot(r) \/ ZeroFailures(r) \/ Judge(r)
                 \/ Tolerate(r) \/ TripLost(r) \/ CountTrip(r) \/ StampTrip(r)
                 \/ ClearSlot(r)
      BY <3>2 DEF ResetFailures, FreeSlot, ZeroFailures, Judge, Tolerate, TripLost,
                  CountTrip, StampTrip, ClearSlot
    <3> QED BY <2>6, <3>1, <3>2 DEF Recording
  <2> QED BY <2>1, <2>2, <2>3, <2>4, <2>5, <2>6 DEF Next
<1>2. TypeOK /\ [Next]_vars => [\A r \in Requests : Counted(r)]_vars
  BY <1>1
<1> QED BY <1>2, Typing, PTL DEF Spec, OneCountPerTrip

-----------------------------------------------------------------------------

(* What a step of r leaves alone: the other requests, all of them resting. *)
Framed(r) ==
  \A q \in Requests \ {r} :
    /\ pc[q] \in Resting
    /\ pc'[q] = pc[q]
    /\ q \in elected' <=> q \in elected
    /\ q \in is_probe' <=> q \in is_probe
    /\ q \in over' <=> q \in over

(* A step of one request keeps what every request has read true. *)
LEMMA EagerStep ==
  ASSUME Preempt = {}, TypeOK, EagerInv, NEW r \in Requests,
         Call(r) \/ DropUnpolled(r) \/ Admission(r) \/ Answer(r) \/ Recording(r),
         FailureThreshold > 0
  PROVE  EagerInv'
<1> USE Preempt = {}, FailureThreshold > 0, ThresholdAssumption, BackoffAssumption,
        NoneAssumption DEF TypeOK
<1>a. SectionInv(r) /\ SlotInv /\ CountInv
  BY DEF EagerInv
<1> USE <1>a
<1>1. ASSUME Call(r)
      PROVE  EagerInv'
  <2>1. Framed(r)
    BY <1>1 DEF Call, Framed, Turn
  <2>2. SectionInv(r)'
    BY <1>1 DEF Call, SectionInv, ShouldOpen
  <2>3. SlotInv'
    BY <1>1, <2>1 DEF Call, Framed, SlotInv, Electing,
                SectionInv, ShouldOpen
  <2>4. CountInv'
    BY <1>1, <2>1 DEF Call, Framed, CountInv, SectionInv, ShouldOpen
  <2> QED BY <2>1, <2>2, <2>3, <2>4 DEF Framed, EagerInv, Alone, SectionInv
<1>2. ASSUME DropUnpolled(r) \/ RejectOpen(r) \/ RejectHalfOpen(r) \/ SucceedOpen(r)
      PROVE  EagerInv'
  <2>1. Framed(r)
    BY <1>2 DEF DropUnpolled, RejectOpen, RejectHalfOpen, SucceedOpen, Framed, Turn
  <2>2. SectionInv(r)'
    BY <1>2 DEF DropUnpolled, RejectOpen, RejectHalfOpen, SucceedOpen, SectionInv,
       ShouldOpen
  <2>3. SlotInv'
    BY <1>2, <2>1 DEF DropUnpolled, RejectOpen, RejectHalfOpen, SucceedOpen, Framed, SlotInv,
       Electing,
                SectionInv, ShouldOpen
  <2>4. CountInv'
    BY <1>2, <2>1 DEF DropUnpolled, RejectOpen, RejectHalfOpen, SucceedOpen, Framed,
       CountInv, SectionInv, ShouldOpen
  <2> QED BY <2>1, <2>2, <2>3, <2>4 DEF Framed, EagerInv, Alone, SectionInv
<1>3. ASSUME ShouldAllow(r)
      PROVE  EagerInv'
  <2>1. Framed(r)
    BY <1>3 DEF ShouldAllow, Framed, Turn
  <2>2. SectionInv(r)'
    BY <1>3 DEF ShouldAllow, SectionInv, ShouldOpen
  <2>3. SlotInv'
    BY <1>3, <2>1 DEF ShouldAllow, Framed, SlotInv, Electing,
                SectionInv, ShouldOpen
  <2>4. CountInv'
    BY <1>3, <2>1 DEF ShouldAllow, Framed, CountInv, SectionInv, ShouldOpen
  <2> QED BY <2>1, <2>2, <2>3, <2>4 DEF Framed, EagerInv, Alone, SectionInv
<1>4. ASSUME ReadBackoff(r) \/ TimerElapsed(r)
      PROVE  EagerInv'
  <2>1. Framed(r)
    BY <1>4 DEF ReadBackoff, TimerElapsed, Framed, Turn
  <2>2. SectionInv(r)'
    BY <1>4 DEF ReadBackoff, TimerElapsed, SectionInv, ShouldOpen
  <2>3. SlotInv'
    BY <1>4, <2>1 DEF ReadBackoff, TimerElapsed, Framed, SlotInv, Electing,
                SectionInv, ShouldOpen
  <2>4. CountInv'
    BY <1>4, <2>1 DEF ReadBackoff, TimerElapsed, Framed, CountInv, SectionInv, ShouldOpen
  <2> QED BY <2>1, <2>2, <2>3, <2>4 DEF Framed, EagerInv, Alone, SectionInv
<1>5. ASSUME EnterHalfOpen(r)
      PROVE  EagerInv'
  <2>1. Framed(r)
    BY <1>5 DEF EnterHalfOpen, Framed, Turn
  <2>2. SectionInv(r)'
    BY <1>5 DEF EnterHalfOpen, SectionInv, ShouldOpen
  <2>3. SlotInv'
    BY <1>5, <2>1 DEF EnterHalfOpen, Framed, SlotInv, Electing,
                SectionInv, ShouldOpen
  <2>4. CountInv'
    BY <1>5, <2>1 DEF EnterHalfOpen, Framed, CountInv, SectionInv, ShouldOpen
  <2> QED BY <2>1, <2>2, <2>3, <2>4 DEF Framed, EagerInv, Alone, SectionInv
<1>6. ASSUME ClaimSlot(r)
      PROVE  EagerInv'
  <2>1. Framed(r)
    BY <1>6 DEF ClaimSlot, Framed, Turn
  <2>2. SectionInv(r)'
    BY <1>6 DEF ClaimSlot, SectionInv, ShouldOpen
  <2>3. SlotInv'
    BY <1>6, <2>1 DEF ClaimSlot, Framed, SlotInv, Electing,
                SectionInv, ShouldOpen
  <2>4. CountInv'
    BY <1>6, <2>1 DEF ClaimSlot, Framed, CountInv, SectionInv, ShouldOpen
  <2> QED BY <2>1, <2>2, <2>3, <2>4 DEF Framed, EagerInv, Alone, SectionInv
<1>7. ASSUME SucceedHalfOpen(r)
      PROVE  EagerInv'
  <2>1. Framed(r)
    BY <1>7 DEF SucceedHalfOpen, Framed, Turn
  <2>2. SectionInv(r)'
    BY <1>7 DEF SucceedHalfOpen, SectionInv, ShouldOpen
  <2>3. SlotInv'
    BY <1>7, <2>1 DEF SucceedHalfOpen, Framed, SlotInv, Electing,
                SectionInv, ShouldOpen
  <2>4. CountInv'
    BY <1>7, <2>1 DEF SucceedHalfOpen, Framed, CountInv, SectionInv, ShouldOpen
  <2> QED BY <2>1, <2>2, <2>3, <2>4 DEF Framed, EagerInv, Alone, SectionInv
<1>8. ASSUME SucceedClosed(r)
      PROVE  EagerInv'
  <2>1. Framed(r)
    BY <1>8 DEF SucceedClosed, Framed, Turn
  <2>2. SectionInv(r)'
    BY <1>8 DEF SucceedClosed, SectionInv, ShouldOpen
  <2>3. SlotInv'
    BY <1>8, <2>1 DEF SucceedClosed, Framed, SlotInv, Electing,
                SectionInv, ShouldOpen
  <2>4. CountInv'
    BY <1>8, <2>1 DEF SucceedClosed, Framed, CountInv, SectionInv, ShouldOpen
  <2> QED BY <2>1, <2>2, <2>3, <2>4 DEF Framed, EagerInv, Alone, SectionInv
<1>9. ASSUME Fail(r)
      PROVE  EagerInv'
  <2>1. Framed(r)
    BY <1>9 DEF Fail, Framed, Turn
  <2>2. SectionInv(r)'
    BY <1>9 DEF Fail, SectionInv, ShouldOpen
  <2>3. SlotInv'
    BY <1>9, <2>1 DEF Fail, Framed, SlotInv, Electing,
                SectionInv, ShouldOpen
  <2>4. CountInv'
    BY <1>9, <2>1 DEF Fail, Framed, CountInv, SectionInv, ShouldOpen
  <2> QED BY <2>1, <2>2, <2>3, <2>4 DEF Framed, EagerInv, Alone, SectionInv
<1>10. ASSUME FailTerminal(r) \/ Cancel(r)
      PROVE  EagerInv'
  <2>1. Framed(r)
    BY <1>10 DEF FailTerminal, Cancel, Framed, Turn
  <2>2. SectionInv(r)'
    BY <1>10 DEF FailTerminal, Cancel, SectionInv, ShouldOpen
  <2>3. SlotInv'
    BY <1>10, <2>1 DEF FailTerminal, Cancel, Framed, SlotInv, Electing,
                SectionInv, ShouldOpen
  <2>4. CountInv'
    BY <1>10, <2>1 DEF FailTerminal, Cancel, Framed, CountInv, SectionInv, ShouldOpen
  <2> QED BY <2>1, <2>2, <2>3, <2>4 DEF Framed, EagerInv, Alone, SectionInv
<1>11. ASSUME ResetFailures(r) \/ ZeroFailures(r)
      PROVE  EagerInv'
  <2>1. Framed(r)
    BY <1>11 DEF ResetFailures, ZeroFailures, Framed, Turn
  <2>2. SectionInv(r)'
    BY <1>11 DEF ResetFailures, ZeroFailures, SectionInv, ShouldOpen
  <2>3. SlotInv'
    BY <1>11, <2>1 DEF ResetFailures, ZeroFailures, Framed, SlotInv, Electing,
                SectionInv, ShouldOpen
  <2>4. CountInv'
    BY <1>11, <2>1 DEF ResetFailures, ZeroFailures, Framed, CountInv, SectionInv, ShouldOpen
  <2> QED BY <2>1, <2>2, <2>3, <2>4 DEF Framed, EagerInv, Alone, SectionInv
<1>12. ASSUME FreeSlot(r) \/ ClearSlot(r)
      PROVE  EagerInv'
  <2>1. Framed(r)
    BY <1>12 DEF FreeSlot, ClearSlot, Framed, Turn
  <2>2. SectionInv(r)'
    BY <1>12 DEF FreeSlot, ClearSlot, SectionInv, ShouldOpen
  <2>3. SlotInv'
    BY <1>12, <2>1 DEF FreeSlot, ClearSlot, Framed, SlotInv, Electing,
                SectionInv, ShouldOpen
  <2>4. CountInv'
    BY <1>12, <2>1 DEF FreeSlot, ClearSlot, Framed, CountInv, SectionInv, ShouldOpen
  <2> QED BY <2>1, <2>2, <2>3, <2>4 DEF Framed, EagerInv, Alone, SectionInv
<1>13. ASSUME Judge(r)
      PROVE  EagerInv'
  <2>1. Framed(r)
    BY <1>13 DEF Judge, Framed, Turn
  <2>2. SectionInv(r)'
    BY <1>13 DEF Judge, SectionInv, ShouldOpen
  <2>3. SlotInv'
    BY <1>13, <2>1 DEF Judge, Framed, SlotInv, Electing,
                SectionInv, ShouldOpen
  <2>4. CountInv'
    BY <1>13, <2>1 DEF Judge, Framed, CountInv, SectionInv, ShouldOpen
  <2> QED BY <2>1, <2>2, <2>3, <2>4 DEF Framed, EagerInv, Alone, SectionInv
<1>14. ASSUME Tolerate(r) \/ TripLost(r)
      PROVE  EagerInv'
  <2>1. Framed(r)
    BY <1>14 DEF Tolerate, TripLost, Framed, Turn
  <2>2. SectionInv(r)'
    BY <1>14 DEF Tolerate, TripLost, SectionInv, ShouldOpen
  <2>3. SlotInv'
    BY <1>14, <2>1 DEF Tolerate, TripLost, Framed, SlotInv, Electing,
                SectionInv, ShouldOpen
  <2>4. CountInv'
    BY <1>14, <2>1 DEF Tolerate, TripLost, Framed, CountInv, SectionInv, ShouldOpen
  <2> QED BY <2>1, <2>2, <2>3, <2>4 DEF Framed, EagerInv, Alone, SectionInv
<1>15. ASSUME Trip(r)
      PROVE  EagerInv'
  <2>1. Framed(r)
    BY <1>15 DEF Trip, Framed, Turn
  <2>2. SectionInv(r)'
    BY <1>15 DEF Trip, SectionInv, ShouldOpen
  <2>3. SlotInv'
    BY <1>15, <2>1 DEF Trip, Framed, SlotInv, Electing,
                SectionInv, ShouldOpen
  <2>4. CountInv'
    BY <1>15, <2>1 DEF Trip, Framed, CountInv, SectionInv, ShouldOpen
  <2> QED BY <2>1, <2>2, <2>3, <2>4 DEF Framed, EagerInv, Alone, SectionInv
<1>16. ASSUME CountTrip(r) \/ StampTrip(r)
      PROVE  EagerInv'
  <2>1. Framed(r)
    BY <1>16 DEF CountTrip, StampTrip, Framed, Turn
  <2>2. SectionInv(r)'
    BY <1>16 DEF CountTrip, StampTrip, SectionInv, ShouldOpen
  <2>3. SlotInv'
    BY <1>16, <2>1 DEF CountTrip, StampTrip, Framed, SlotInv, Electing,
                SectionInv, ShouldOpen
  <2>4. CountInv'
    BY <1>16, <2>1 DEF CountTrip, StampTrip, Framed, CountInv, SectionInv, ShouldOpen
  <2> QED BY <2>1, <2>2, <2>3, <2>4 DEF Framed, EagerInv, Alone, SectionInv
<1> QED
  BY <1>1, <1>2, <1>3, <1>4, <1>5, <1>6, <1>7, <1>8, <1>9, <1>10, <1>11, <1>12, <1>13, <1>14,
     <1>15, <1>16 DEF Admission, Answer, Recording

LEMMA EagerInvariance ==
  ASSUME Preempt = {}, FailureThreshold > 0
  PROVE  Spec => []EagerInv
<1>1. Init => EagerInv
  BY FailureThreshold > 0, ThresholdAssumption
  DEF Init, EagerInv, Alone, SectionInv, SlotInv, CountInv
<1>2. ASSUME TypeOK, EagerInv, [Next]_vars PROVE EagerInv'
  <2>1. CASE UNCHANGED vars
    BY <1>2, <2>1 DEF vars, EagerInv, Alone, SectionInv, SlotInv, CountInv, Electing
  <2>2. CASE Tick
    BY <1>2, <2>2 DEF Tick, EagerInv, Alone, SectionInv, SlotInv, CountInv, Electing
  <2>3. ASSUME NEW r \in Requests,
               Call(r) \/ DropUnpolled(r) \/ Admission(r) \/ Answer(r) \/ Recording(r)
        PROVE  EagerInv'
    BY <1>2, <2>3, EagerStep, Preempt = {}, FailureThreshold > 0
  <2> QED BY <1>2, <2>1, <2>2, <2>3 DEF Next
<1> QED BY <1>1, <1>2, Typing, PTL DEF Spec

(* A slot found taken between polls belongs to a live probe: no way for a  *)
(* request to end loses it.  (ProbeGuard, record_success, record_failure)  *)
THEOREM SlotNeverLost ==
  ASSUME Preempt = {}, FailureThreshold > 0
  PROVE  Spec => []SlotHasProbe
<1>1. EagerInv => SlotHasProbe
  BY DEF EagerInv, SlotInv, SlotHasProbe, Quiet, Electing
<1> QED BY <1>1, EagerInvariance, Preempt = {}, FailureThreshold > 0, PTL

(* Between polls a Closed circuit is below its failure threshold.          *)
(* (record_success, record_failure)                                        *)
THEOREM ClosedIsBelowThreshold ==
  ASSUME Preempt = {}, FailureThreshold > 0
  PROVE  Spec => []ClosedBelowThreshold
<1>1. EagerInv => ClosedBelowThreshold
  BY DEF EagerInv, CountInv, ClosedBelowThreshold, Quiet
<1> QED BY <1>1, EagerInvariance, Preempt = {}, FailureThreshold > 0, PTL

(* A step of one thread that changes the state follows a documented edge. *)
LEMMA EdgeStep ==
  ASSUME Preempt = {}, TypeOK, EagerInv, [Next]_vars, state' # state
  PROVE  <<state, state'>> \in {<<"Closed", "Open">>, <<"Open", "HalfOpen">>,
                               <<"HalfOpen", "Closed">>, <<"HalfOpen", "Open">>}
<1> USE state' # state DEF TypeOK
<1>1. CASE UNCHANGED vars \/ Tick
  BY <1>1 DEF vars, Tick
<1>2. ASSUME NEW r \in Requests, EnterHalfOpen(r)
      PROVE  state = "Open" /\ state' = "HalfOpen"
  BY <1>2 DEF EnterHalfOpen, EagerInv, SectionInv
<1>3. ASSUME NEW r \in Requests, SucceedHalfOpen(r)
      PROVE  state = "HalfOpen" /\ state' = "Closed"
  BY <1>3 DEF SucceedHalfOpen
<1>4. ASSUME NEW r \in Requests, Trip(r)
      PROVE  state \in {"Closed", "HalfOpen"} /\ state' = "Open"
  BY <1>4 DEF Trip
<1>5. \/ \E r \in Requests : EnterHalfOpen(r) \/ SucceedHalfOpen(r) \/ Trip(r)
      \/ UNCHANGED vars \/ Tick
  <2>1. ASSUME NEW r \in Requests, Call(r) \/ DropUnpolled(r) PROVE FALSE
    BY <2>1 DEF Call, DropUnpolled
  <2>2. ASSUME NEW r \in Requests, Admission(r) PROVE EnterHalfOpen(r)
    BY <2>2 DEF Admission, ShouldAllow, ReadBackoff, TimerElapsed, RejectOpen,
                ClaimSlot, RejectHalfOpen
  <2>3. ASSUME NEW r \in Requests, Answer(r) PROVE SucceedHalfOpen(r)
    BY <2>3 DEF Answer, SucceedClosed, SucceedOpen, Fail, FailTerminal, Cancel
  <2>4. ASSUME NEW r \in Requests, Recording(r) PROVE Trip(r)
    BY <2>4 DEF Recording, ResetFailures, FreeSlot, ZeroFailures, Judge, Tolerate,
                TripLost, CountTrip, StampTrip, ClearSlot
  <2> QED BY <2>1, <2>2, <2>3, <2>4 DEF Next
<1> QED BY <1>1, <1>2, <1>3, <1>4, <1>5

(* The circuit moves along the edges drawn in circuit.rs and no others.    *)
(* (should_allow, record_success, record_failure)                          *)
THEOREM EdgesAsDocumented ==
  ASSUME Preempt = {}, FailureThreshold > 0
  PROVE  Spec => DocumentedEdges
<1>1. TypeOK /\ EagerInv /\ [Next]_vars =>
        [state' # state =>
           <<state, state'>> \in {<<"Closed", "Open">>, <<"Open", "HalfOpen">>,
                                  <<"HalfOpen", "Closed">>, <<"HalfOpen", "Open">>}]_vars
  BY EdgeStep, Preempt = {}
<1> QED
  BY <1>1, Typing, EagerInvariance, Preempt = {}, FailureThreshold > 0, PTL
  DEF Spec, DocumentedEdges

=============================================================================
