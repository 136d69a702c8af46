--------------------------- MODULE CircuitBreaker ---------------------------
(***************************************************************************)
(* The circuit breaker of crates/liter-llm/src/tower/circuit.rs:           *)
(* ExponentialBackoffCircuit (the policy, a handful of atomics and one     *)
(* mutex shared by every clone of the service) driven by                   *)
(* CircuitService::call, one future per request.                           *)
(*                                                                         *)
(* Every access to a shared atomic is a step of its own, so the futures    *)
(* interleave wherever the build lets them.  Where that is depends on the  *)
(* runtime, and is the constant Preempt: the labels, besides the awaits,   *)
(* at which a request can be interrupted by another one.                   *)
(*   Preempt = {}          one thread, a future is polled as it is made    *)
(*   Preempt = {"called"}  one thread, a future may be polled later        *)
(*   Preempt = Labels      a multi-threaded runtime                        *)
(*                                                                         *)
(* A member of Requests is a caller that sends one request after another.  *)
(* Time is kept as the age of the open_since stamp.                        *)
(***************************************************************************)
EXTENDS Integers

CONSTANTS
  Requests,          \* callers sharing the circuit
  FailureThreshold,  \* failure_threshold
  BaseBackoff,       \* base_backoff, in ticks
  MaxBackoff,        \* max_backoff, in ticks
  MaxShift,          \* bound of the exponent (62 in current_backoff)
  Preempt,           \* labels at which another request may run
  None               \* open_since before the first trip

Labels == {"idle", "called", "backoff", "timer", "half_open", "claim",
           "inner", "reset", "free", "zero", "judge", "trip", "count",
           "stamp", "clear"}

States == {"Closed", "Open", "HalfOpen"}

ASSUME ThresholdAssumption == FailureThreshold \in Nat
ASSUME BackoffAssumption ==
  /\ BaseBackoff \in Nat
  /\ MaxBackoff \in Nat
  /\ MaxShift \in Nat
ASSUME PowerAssumption == \A n \in 0..MaxShift : 2^n \in Nat
ASSUME PreemptAssumption == Preempt \subseteq Labels
ASSUME NoneAssumption == None \notin Nat

VARIABLES
  state,                \* AtomicU8: the circuit's state
  consecutive_failures, \* AtomicU32, counted up to FailureThreshold
  open_age,             \* ticks since the open_since stamp, or None
  probe_slot,           \* AtomicBool probe_in_flight
  open_count,           \* AtomicU32, counted up to MaxShift
  pc,                   \* where each request's future stands
  is_probe,             \* requests whose call() sampled another state than Closed
  over,                 \* requests whose failure reached the threshold
  read_count,           \* the open_count maybe_half_open read
  seen,                 \* the state record_failure read, CASed against
  elected,              \* auxiliary: requests admitted by winning the slot
  stamp                 \* auxiliary: "written" since the last trip, or "due"

shared == <<state, consecutive_failures, open_age, probe_slot, open_count>>
futures == <<is_probe, over, read_count, seen, elected>>
locals == <<futures, stamp>>
vars == <<shared, pc, locals>>

-----------------------------------------------------------------------------

Lesser(a, b) == IF a <= b THEN a ELSE b

(* The delay after which an Open circuit becomes HalfOpen. *)
CurrentBackoff(count) == Lesser(BaseBackoff * 2^count, MaxBackoff)

Resting == {"idle", "inner"}

(* r may run: no other request is inside a section that cannot be          *)
(* interrupted.                                                            *)
Turn(r) == \A q \in Requests \ {r} : pc[q] \in Resting \cup Preempt

Goto(r, label) == pc' = [pc EXCEPT ![r] = label]

At(r, label) == pc[r] = label /\ Turn(r)

(* The future of r is done, or dropped: nothing of it is left. *)
Return(r) ==
  /\ Goto(r, "idle")
  /\ is_probe' = is_probe \ {r}
  /\ over' = over \ {r}
  /\ read_count' = [read_count EXCEPT ![r] = 0]
  /\ seen' = [seen EXCEPT ![r] = "Closed"]
  /\ elected' = elected \ {r}
  /\ UNCHANGED stamp

Init ==
  /\ state = "Closed"
  /\ consecutive_failures = 0
  /\ open_age = None
  /\ probe_slot = "free"
  /\ open_count = 0
  /\ pc = [r \in Requests |-> "idle"]
  /\ is_probe = {}
  /\ over = {}
  /\ read_count = [r \in Requests |-> 0]
  /\ seen = [r \in Requests |-> "Closed"]
  /\ elected = {}
  /\ stamp = "due"

-----------------------------------------------------------------------------
(* Mistakes the properties have to catch; no action below uses them.       *)

(* A cooldown that restarts without a new stamp. *)
StampForgotten(r) ==
  /\ At(r, "stamp")
  /\ Goto(r, "clear")
  /\ UNCHANGED <<shared, locals>>

(* A store in place of record_failure's compare-and-swap. *)
TripUnconditionally(r) ==
  /\ At(r, "trip")
  /\ state' = "Open"
  /\ Goto(r, "count")
  /\ stamp' = "due"
  /\ UNCHANGED <<consecutive_failures, open_age, probe_slot, open_count, futures>>

(* No ProbeGuard: a dropped future keeps the slot. *)
CancelUnguarded(r) == At(r, "inner") /\ Return(r) /\ UNCHANGED shared

(* A success that closes the circuit but leaves the slot taken. *)
SlotKept(r) == At(r, "free") /\ Return(r) /\ UNCHANGED shared

(* A success that closes the circuit but keeps the failures counted. *)
FailuresKept(r) == At(r, "reset") /\ Goto(r, "free") /\ UNCHANGED <<shared, locals>>

(* A straggler's success forces an Open circuit closed. *)
SucceedAlways(r) ==
  /\ At(r, "inner")
  /\ state = "Open"
  /\ state' = "Closed"
  /\ Return(r)
  /\ UNCHANGED <<consecutive_failures, open_age, probe_slot, open_count>>

-----------------------------------------------------------------------------
(* CircuitService::call, and should_allow inside the future's first poll.  *)

(* call() samples the state at once; the future it returns is polled later. *)
Call(r) ==
  /\ At(r, "idle")
  /\ is_probe' = IF state # "Closed" THEN is_probe \cup {r} ELSE is_probe
  /\ Goto(r, "called")
  /\ UNCHANGED <<shared, over, read_count, seen, elected, stamp>>

(* should_allow reads the state a second time and acts on that one. *)
ShouldAllow(r) ==
  /\ At(r, "called")
  /\ Goto(r, CASE state = "Closed"   -> "inner"
               [] state = "Open"     -> "backoff"
               [] state = "HalfOpen" -> "claim")
  /\ UNCHANGED <<shared, locals>>

(* maybe_half_open: read open_count ... *)
ReadBackoff(r) ==
  /\ At(r, "backoff")
  /\ read_count' = [read_count EXCEPT ![r] = open_count]
  /\ Goto(r, "timer")
  /\ UNCHANGED <<shared, is_probe, over, seen, elected, stamp>>

(* ... then open_since under its lock: too early, or never stamped, rejects. *)
Elapsed(r) == open_age # None /\ open_age >= CurrentBackoff(read_count[r])

TimerElapsed(r) ==
  /\ At(r, "timer")
  /\ Elapsed(r)
  /\ Goto(r, "half_open")
  /\ UNCHANGED <<shared, locals>>

RejectOpen(r) ==
  /\ At(r, "timer")
  /\ ~Elapsed(r)
  /\ Return(r)
  /\ UNCHANGED shared

(* ... and, the lock released, store HalfOpen whatever the state is now. *)
EnterHalfOpen(r) ==
  /\ At(r, "half_open")
  /\ state' = "HalfOpen"
  /\ Goto(r, "claim")
  /\ UNCHANGED <<consecutive_failures, open_age, probe_slot, open_count, locals>>

(* Compare-and-swap on the probe slot: the winner is the probe. *)
ClaimSlot(r) ==
  /\ At(r, "claim")
  /\ probe_slot = "free"
  /\ probe_slot' = "taken"
  /\ elected' = elected \cup {r}
  /\ Goto(r, "inner")
  /\ UNCHANGED <<state, consecutive_failures, open_age, open_count,
                 is_probe, over, read_count, seen, stamp>>

RejectHalfOpen(r) ==
  /\ At(r, "claim")
  /\ probe_slot = "taken"
  /\ Return(r)
  /\ UNCHANGED shared

-----------------------------------------------------------------------------
(* record_success, for an inner call that returned Ok. *)

(* The swap HalfOpen -> Closed; a Closed circuit only zeroes the count, an *)
(* Open one ignores the success.                                           *)
SucceedHalfOpen(r) ==
  /\ At(r, "inner")
  /\ state = "HalfOpen"
  /\ state' = "Closed"
  /\ Goto(r, "reset")
  /\ UNCHANGED <<consecutive_failures, open_age, probe_slot, open_count, locals>>

SucceedClosed(r) ==
  /\ At(r, "inner")
  /\ state = "Closed"
  /\ Goto(r, "zero")
  /\ UNCHANGED <<shared, locals>>

SucceedOpen(r) ==
  /\ At(r, "inner")
  /\ state = "Open"
  /\ Return(r)
  /\ UNCHANGED shared

(* The two stores that follow a won swap, and the one of a Closed circuit. *)
ResetFailures(r) ==
  /\ At(r, "reset")
  /\ consecutive_failures' = 0
  /\ Goto(r, "free")
  /\ UNCHANGED <<state, open_age, probe_slot, open_count, locals>>

FreeSlot(r) ==
  /\ At(r, "free")
  /\ probe_slot' = "free"
  /\ Return(r)
  /\ UNCHANGED <<state, consecutive_failures, open_age, open_count>>

ZeroFailures(r) ==
  /\ At(r, "zero")
  /\ consecutive_failures' = 0
  /\ Return(r)
  /\ UNCHANGED <<state, open_age, probe_slot, open_count>>

-----------------------------------------------------------------------------
(* record_failure, for an inner call that returned a transient error. *)

Fail(r) ==
  /\ At(r, "inner")
  /\ consecutive_failures' = Lesser(consecutive_failures + 1, FailureThreshold)
  /\ over' = IF consecutive_failures + 1 >= FailureThreshold
               THEN over \cup {r} ELSE over
  /\ Goto(r, "judge")
  /\ UNCHANGED <<state, open_age, probe_slot, open_count,
                 is_probe, read_count, seen, elected, stamp>>

ShouldOpen(r) == state # "Open" /\ (r \in over \/ state = "HalfOpen")

Judge(r) ==
  /\ At(r, "judge")
  /\ ShouldOpen(r)
  /\ seen' = [seen EXCEPT ![r] = state]
  /\ Goto(r, "trip")
  /\ UNCHANGED <<shared, is_probe, over, read_count, elected, stamp>>

Tolerate(r) ==
  /\ At(r, "judge")
  /\ ~ShouldOpen(r)
  /\ Return(r)
  /\ UNCHANGED shared

(* Compare-and-swap from the state just read to Open. *)
Trip(r) ==
  /\ At(r, "trip")
  /\ state = seen[r]
  /\ state' = "Open"
  /\ stamp' = "due"
  /\ Goto(r, "count")
  /\ UNCHANGED <<consecutive_failures, open_age, probe_slot, open_count, futures>>

TripLost(r) ==
  /\ At(r, "trip")
  /\ state # seen[r]
  /\ Return(r)
  /\ UNCHANGED shared

(* The winner alone counts the trip, stamps it and clears the slot. *)
CountTrip(r) ==
  /\ At(r, "count")
  /\ open_count' = Lesser(open_count + 1, MaxShift)
  /\ Goto(r, "stamp")
  /\ UNCHANGED <<state, consecutive_failures, open_age, probe_slot, locals>>

StampTrip(r) ==
  /\ At(r, "stamp")
  /\ open_age' = 0
  /\ stamp' = "written"
  /\ Goto(r, "clear")
  /\ UNCHANGED <<state, consecutive_failures, probe_slot, open_count, futures>>

ClearSlot(r) ==
  /\ At(r, "clear")
  /\ probe_slot' = "free"
  /\ Return(r)
  /\ UNCHANGED <<state, consecutive_failures, open_age, open_count>>

-----------------------------------------------------------------------------

(* A non-transient error: not a verdict on the backend.  Only a request    *)
(* that believes it is the probe gives the slot back.                      *)
FailTerminal(r) ==
  /\ At(r, "inner")
  /\ probe_slot' = IF r \in is_probe THEN "free" ELSE probe_slot
  /\ Return(r)
  /\ UNCHANGED <<state, consecutive_failures, open_age, open_count>>

(* The future is dropped in flight: ProbeGuard::drop, armed iff is_probe. *)
Cancel(r) ==
  /\ At(r, "inner")
  /\ probe_slot' = IF r \in is_probe THEN "free" ELSE probe_slot
  /\ Return(r)
  /\ UNCHANGED <<state, consecutive_failures, open_age, open_count>>

(* The future is dropped before its first poll. *)
DropUnpolled(r) ==
  /\ At(r, "called")
  /\ Return(r)
  /\ UNCHANGED shared

Tick ==
  /\ open_age # None
  /\ open_age < MaxBackoff
  /\ open_age' = open_age + 1
  /\ UNCHANGED <<state, consecutive_failures, probe_slot, open_count, pc, locals>>

Admission(r) ==
  \/ ShouldAllow(r) \/ ReadBackoff(r) \/ TimerElapsed(r) \/ RejectOpen(r)
  \/ EnterHalfOpen(r) \/ ClaimSlot(r) \/ RejectHalfOpen(r)

Answer(r) ==
  \/ SucceedHalfOpen(r) \/ SucceedClosed(r) \/ SucceedOpen(r)
  \/ Fail(r) \/ FailTerminal(r) \/ Cancel(r)

Recording(r) ==
  \/ ResetFailures(r) \/ FreeSlot(r) \/ ZeroFailures(r)
  \/ Judge(r) \/ Tolerate(r) \/ Trip(r) \/ TripLost(r)
  \/ CountTrip(r) \/ StampTrip(r) \/ ClearSlot(r)

Next ==
  \/ Tick
  \/ \E r \in Requests :
       Call(r) \/ DropUnpolled(r) \/ Admission(r) \/ Answer(r) \/ Recording(r)

Spec == Init /\ [][Next]_vars

(* Callers keep calling, a task that can run is eventually polled, the     *)
(* provider (or its HTTP timeout) eventually answers and time passes.      *)
FairSpec ==
  /\ Spec
  /\ WF_vars(Tick)
  /\ \A r \in Requests :
       /\ SF_vars(Call(r))
       /\ SF_vars(Admission(r) \/ Answer(r) \/ Recording(r))

-----------------------------------------------------------------------------

TypeOK ==
  /\ state \in States
  /\ consecutive_failures \in 0..FailureThreshold
  /\ open_age \in Nat \cup {None}
  /\ probe_slot \in {"free", "taken"}
  /\ open_count \in 0..MaxShift
  /\ pc \in [Requests -> Labels]
  /\ is_probe \subseteq Requests
  /\ over \subseteq Requests
  /\ read_count \in [Requests -> 0..MaxShift]
  /\ seen \in [Requests -> States \ {"Open"}]
  /\ elected \subseteq Requests
  /\ stamp \in {"due", "written"}

(* Every outage gets a cooldown of its own: an Open circuit is measured    *)
(* against a stamp written since the trip that opened it, unless a request *)
(* that tripped it is still on its way to writing one.  Only in that gap   *)
(* does a stamp of an earlier cycle, or none, decide when the circuit is   *)
(* left.  (record_failure, maybe_half_open)                                *)
OpenIsStamped ==
  state = "Open" =>
    \/ stamp = "written" /\ open_age # None
    \/ \E r \in Requests : pc[r] \in {"count", "stamp"}

(* However many failures race, a request goes on to inflate the backoff    *)
(* and to restart the cooldown only if it took the circuit to Open itself. *)
(* (record_failure: the swap's winner)                                     *)
OneCountPerTrip ==
  [][\A r \in Requests :
       pc[r] # "count" /\ pc'[r] = "count" => state # "Open" /\ state' = "Open"]_vars

(* The edges of the state machine drawn at the head of circuit.rs. *)
DocumentedEdges ==
  [][state' # state =>
       <<state, state'>> \in {<<"Closed", "Open">>, <<"Open", "HalfOpen">>,
                              <<"HalfOpen", "Closed">>, <<"HalfOpen", "Open">>}]_vars

Quiet == \A r \in Requests : pc[r] \in Resting

(* Between polls a taken slot always has a request in flight that won it:  *)
(* whatever way that request ends, the slot is not lost with it.           *)
(* (ProbeGuard, record_success, record_failure)                            *)
SlotHasProbe ==
  Quiet /\ probe_slot = "taken" =>
    /\ state = "HalfOpen"
    /\ \E r \in Requests : pc[r] = "inner" /\ r \in elected

(* A Closed circuit has seen fewer failures in a row than the threshold:   *)
(* no trip is missed and none is left over from before the last closing.   *)
ClosedBelowThreshold ==
  Quiet /\ state = "Closed" => consecutive_failures < FailureThreshold

(***************************************************************************)
(* The inductive invariant behind DocumentedEdges, SlotHasProbe and        *)
(* ClosedBelowThreshold when Preempt = {}: one request at a time is inside *)
(* a section, and what it read is still true.                              *)
(***************************************************************************)
Alone ==
  \A r, q \in Requests :
    r # q => pc[r] \in Resting \/ pc[q] \in Resting

SectionInv(r) ==
  /\ pc[r] = "idle" => r \notin is_probe
  /\ pc[r] = "called" => (r \in is_probe <=> state # "Closed")
  /\ pc[r] \in {"backoff", "timer", "half_open"} => r \in is_probe /\ state = "Open"
  /\ pc[r] = "claim" => r \in is_probe /\ state = "HalfOpen"
  /\ pc[r] \in {"reset", "free", "zero"} => state = "Closed"
  /\ pc[r] = "trip" => seen[r] = state /\ state # "Open"

Electing(r) ==
  r \in elected /\ r \in is_probe /\ pc[r] \in {"inner", "judge", "trip"}

SlotInv ==
  probe_slot = "taken" =>
    \/ state = "HalfOpen" /\ \E r \in Requests : Electing(r)
    \/ \E r \in Requests : pc[r] \in {"reset", "free", "count", "stamp", "clear"}

CountInv ==
  state = "Closed" =>
    \/ consecutive_failures < FailureThreshold
    \/ \E r \in Requests : pc[r] = "reset"
    \/ \E r \in Requests : r \in over /\ pc[r] \in {"judge", "trip"}

EagerInv ==
  /\ Alone
  /\ \A r \in Requests : SectionInv(r)
  /\ SlotInv
  /\ CountInv

(* The breaker always comes back: an Open circuit is given a chance to     *)
(* close again once a request asks (maybe_half_open), and whoever took the *)
(* probe's slot does not lock later requests out of it (ProbeGuard).       *)
BreakerRecovers ==
  /\ state = "Open" ~> state # "Open"
  /\ probe_slot = "taken" ~> probe_slot = "free"

=============================================================================
