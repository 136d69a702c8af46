--------------------------- MODULE CredentialPool ---------------------------
(***************************************************************************)
(* One provider's bucket of InMemoryCredentialPool                         *)
(* (crates/liter-llm-proxy/src/provider/credential_pool_memory.rs).        *)
(*                                                                         *)
(* A credential is its index in the bucket.  Every operation holds the     *)
(* bucket's mutex and is one step.  Parking a credential sets the instant  *)
(* at which it is available again and starts a timer task of the same      *)
(* length; the credential comes back when the timer fires or when current  *)
(* finds it due, whichever is first.  A timer may fire late.  Instants are *)
(* kept as the ticks that are left until them.                             *)
(***************************************************************************)
EXTENDS Integers

CONSTANTS
  N,            \* credentials the bucket may come to hold
  MaxCooldown   \* bound: the longest cooldown, in ticks

ASSUME SizeAssumption == N \in Nat \ {0}
ASSUME CooldownAssumption == MaxCooldown \in Nat \ {0}

VARIABLES
  size,       \* entries in the bucket
  exhausted,  \* the entries in state Exhausted; the others are Active
  left,       \* ticks until an exhausted entry's `until`, 0 for an active one
  cursor,     \* the bucket's cursor
  timers      \* timers[c][t]: reactivation timers of c with t ticks to go

poolVars == <<size, exhausted, left, cursor, timers>>

Slots == 0..N-1
Ticks == 0..MaxCooldown

Creds == 0..size-1

PoolTypeOK ==
  /\ size \in 0..N
  /\ exhausted \subseteq Creds
  /\ left \in [Slots -> Ticks]
  /\ cursor \in Slots
  /\ timers \in [Slots -> [Ticks -> Nat]]

PoolInit ==
  /\ size \in 0..N
  /\ exhausted = {}
  /\ left = [c \in Slots |-> 0]
  /\ cursor = 0
  /\ timers = [c \in Slots |-> [t \in Ticks |-> 0]]

-----------------------------------------------------------------------------
(* Mistakes the properties have to catch; no action below uses them.       *)

(* Parking sets no timer. *)
MarkWithoutTimer(c, cooldown) ==
  /\ exhausted' = exhausted \cup {c}
  /\ left' = [left EXCEPT ![c] = cooldown]
  /\ cursor' = (c + 1) % size
  /\ UNCHANGED <<size, timers>>

(* A credential found exhausted is taken for one whose cooldown is over. *)
AllDue == exhausted

(* The cursor alone decides, whatever the credential's state. *)
FirstFromCursor(c) == c = cursor /\ c \in Creds

-----------------------------------------------------------------------------

(* add_credential: pushed at the end, active. *)
AddCredential ==
  /\ size < N
  /\ size' = size + 1
  /\ UNCHANGED <<exhausted, left, cursor, timers>>

(* What current finds due and sets Active before it looks for a credential. *)
Due == {c \in exhausted : left[c] = 0}

(* How far c is from the cursor, going round. *)
Distance(c) == IF c >= cursor THEN c - cursor ELSE c - cursor + size

(* An entry taken back has no `until`. *)
Remaining == [c \in Slots |-> IF c \in exhausted' THEN left[c] ELSE 0]

(* The credential current returns: the first active one from the cursor on. *)
IsCurrent(c) ==
  LET active == Creds \ (exhausted \ Due)
  IN  c \in active /\ \A d \in active : Distance(c) <= Distance(d)

Current(c) ==
  /\ IsCurrent(c)
  /\ exhausted' = exhausted \ Due
  /\ left' = Remaining
  /\ cursor' = c
  /\ UNCHANGED <<size, timers>>

(* PoolEmpty or AllExhausted. *)
NoCurrent ==
  /\ Creds = exhausted
  /\ Due = {}
  /\ UNCHANGED poolVars

(* mark_exhausted, whatever c's state, and the timer it spawns. *)
MarkExhausted(c, cooldown) ==
  /\ exhausted' = exhausted \cup {c}
  /\ left' = [left EXCEPT ![c] = cooldown]
  /\ cursor' = (c + 1) % size
  /\ timers' = [timers EXCEPT ![c][cooldown] = @ + 1]
  /\ UNCHANGED size

(* A timer wakes up and reactivates its credential. *)
Reactivate(c) ==
  /\ timers[c][0] > 0
  /\ timers' = [timers EXCEPT ![c][0] = @ - 1]
  /\ exhausted' = exhausted \ {c}
  /\ left' = Remaining
  /\ UNCHANGED <<size, cursor>>

(* The clock.  A timer at 0 is due and stays so until it fires. *)
Elapse(count) ==
  [t \in Ticks |-> IF t = 0 THEN count[0] + count[1]
                   ELSE IF t < MaxCooldown THEN count[t + 1] ELSE 0]

PoolTick ==
  /\ left' = [c \in Slots |-> IF left[c] = 0 THEN 0 ELSE left[c] - 1]
  /\ timers' = [c \in Slots |-> Elapse(timers[c])]
  /\ UNCHANGED <<size, exhausted, cursor>>

=============================================================================
