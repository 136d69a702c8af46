---------------------------- MODULE UpstreamCall ----------------------------
(***************************************************************************)
(* One attempt at a call, from the layers near the provider to the wire    *)
(* (crates/liter-llm/src): the limit of requests per window                *)
(* (tower/rate_limit.rs), the cooldown (tower/cooldown.rs), the health     *)
(* gate with its probe (tower/health.rs), the limit of calls in flight     *)
(* (tower/in_flight.rs), the cached access token of Azure AD               *)
(* (auth/azure_ad.rs), and the sending of the request with its retries     *)
(* (http/request.rs, http/retry.rs), in the order client/managed.rs        *)
(* stacks them.                                                            *)
(*                                                                         *)
(* An attempt is a task, or runs in its caller's: it may be aborted at any *)
(* await, and then lets go of the permit and the lock it holds.  The probe *)
(* is an attempt too: its ListModels request enters below the gate.        *)
(***************************************************************************)
EXTENDS Integers, FiniteSets

CONSTANTS
  Attempts,     \* what may be under way at once
  Rpm,          \* RateLimitConfig::rpm, requests per window
  MaxInFlight,  \* permits of the semaphore
  Probe,        \* the one that is the health probe
  MaxRetries,   \* times a request is sent again
  Unhealthy,    \* HealthCheckConfig::unhealthy_threshold
  Healthy,      \* HealthCheckConfig::healthy_threshold
  None          \* not an attempt

ASSUME LimitsAssumption == Rpm \in Nat /\ MaxInFlight \in Nat \ {0}
ASSUME RetriesAssumption == MaxRetries \in Nat
ASSUME ThresholdsAssumption == {Unhealthy, Healthy} \subseteq Nat \ {0}
ASSUME ProbeAssumption == Probe \in Attempts /\ None \notin Attempts

VARIABLES
  at,         \* where each attempt stands
  retried,    \* times it has sent its request again
  aborted,    \* attempts that end at their next await
  admitted,   \* requests counted in the window
  cooldown,   \* cooldown_start: none, fresh, or elapsed
  late,       \* attempts that came to the gate during the cooldown
  permits,    \* permits the semaphore has left
  token,      \* the cached token: valid, or none or expired
  lock,       \* which attempt holds the write lock on it
  healthy,    \* the gate
  failures,   \* probes failed in a row, up to Unhealthy
  successes   \* probes answered in a row, up to Healthy

health == <<healthy, failures, successes>>
gate == <<cooldown, late>>
upstream == <<at, retried, aborted, admitted, gate, permits, token, lock, health>>

(* The places where an attempt holds a permit. *)
InFlight == {"token", "lock", "fetch", "sent", "backoff"}
Ended == {"ok", "failed"}
Places == {"none", "delay", "rate", "gate", "clear", "health", "permit", "cooling"}
            \cup InFlight \cup Ended

UpstreamTypeOK ==
  /\ at \in [Attempts -> Places]
  /\ retried \in [Attempts -> 0..MaxRetries]
  /\ aborted \subseteq Attempts
  /\ admitted \in 0..Rpm
  /\ cooldown \in {"none", "fresh", "elapsed"}
  /\ late \subseteq Attempts
  /\ permits \in Nat
  /\ token \in {"none", "valid"}
  /\ lock \in Attempts \cup {None}
  /\ healthy \in {"yes", "no"}
  /\ failures \in 0..Unhealthy
  /\ successes \in 0..Healthy

UpstreamInit ==
  /\ at = [a \in Attempts |-> "none"]
  /\ retried = [a \in Attempts |-> 0]
  /\ aborted = {}
  /\ admitted = 0
  /\ cooldown = "none" /\ late = {}
  /\ permits = MaxInFlight
  /\ token = "none"
  /\ lock = None
  /\ healthy = "yes" /\ failures = 0 /\ successes = 0

Goto(a, place) == at' = [at EXCEPT ![a] = place]

-----------------------------------------------------------------------------
(* Mistakes the properties have to catch; no action below uses them.       *)

(* Who saw a cooldown elapse clears whatever is there by now. *)
ClearAnyway(a) ==
  /\ at[a] = "clear"
  /\ cooldown' = "none"
  /\ Goto(a, "health")
  /\ UNCHANGED <<retried, aborted, admitted, late, permits, token, lock, health>>

(* A future that is dropped keeps the lock. *)
DropLocked(a) ==
  /\ at' = [at EXCEPT ![a] = "none"]
  /\ retried' = [retried EXCEPT ![a] = 0]
  /\ permits' = IF at[a] \in InFlight THEN permits + 1 ELSE permits
  /\ late' = late \ {a}
  /\ UNCHANGED lock

(* A success starts both counts anew. *)
RecordHealthyReset ==
  /\ failures' = 0
  /\ successes' = 1
  /\ healthy' = IF successes' >= Healthy THEN "yes" ELSE healthy

-----------------------------------------------------------------------------
(* ModelRateLimitService::call.                                            *)

(* A hedge waits before it goes out, and asks the layers whether they are  *)
(* ready: HealthCheckService::poll_ready is not while unhealthy, which     *)
(* neither the limit nor the cooldown gets to see.                         *)
Wake(a) ==
  /\ at[a] = "delay"
  /\ Goto(a, IF healthy = "yes" THEN "rate" ELSE "failed")
  /\ UNCHANGED <<retried, aborted, admitted, gate, permits, token, lock, health>>

(* The count and its test are under the lock of the model's entry; what    *)
(* becomes of the request does not take it back.                           *)
CountRequest(a) ==
  /\ at[a] = "rate" /\ admitted < Rpm
  /\ admitted' = admitted + 1
  /\ late' = IF cooldown = "fresh" THEN late \cup {a} ELSE late
  /\ Goto(a, "gate")
  /\ UNCHANGED <<retried, aborted, cooldown, permits, token, lock, health>>

(* The cooldown, further in, does not see this error. *)
RateLimited(a) ==
  /\ at[a] = "rate" /\ admitted >= Rpm
  /\ Goto(a, "failed")
  /\ UNCHANGED <<retried, aborted, admitted, gate, permits, token, lock, health>>

-----------------------------------------------------------------------------
(* CooldownService::call.                                                  *)

(* Under the read lock.  The rejection is not an upstream failure and does *)
(* not start the cooldown anew.                                            *)
ReadCooldown(a) ==
  /\ at[a] = "gate"
  /\ \/ cooldown = "fresh" /\ Goto(a, "failed") /\ late' = late \ {a}
     \/ cooldown = "elapsed" /\ Goto(a, "clear") /\ UNCHANGED late
     \/ cooldown = "none" /\ Goto(a, "health") /\ UNCHANGED late
  /\ UNCHANGED <<retried, aborted, admitted, cooldown, permits, token, lock, health>>

(* The read lock was dropped: only what is still elapsed is cleared. *)
ClearCooldown(a) ==
  /\ at[a] = "clear"
  /\ cooldown' = IF cooldown = "elapsed" THEN "none" ELSE cooldown
  /\ Goto(a, "health")
  /\ UNCHANGED <<retried, aborted, admitted, late, permits, token, lock, health>>

(* HealthCheckService::call.  Its rejection is a transient failure to the  *)
(* cooldown around it.                                                     *)
CheckHealth(a) ==
  /\ at[a] = "health"
  /\ Goto(a, IF healthy = "yes" THEN "permit" ELSE "cooling")
  /\ UNCHANGED <<retried, aborted, admitted, gate, permits, token, lock, health>>

(* InFlightLimitService::call. *)
Acquire(a) ==
  /\ at[a] = "permit" /\ permits > 0
  /\ permits' = permits - 1
  /\ Goto(a, "token")
  /\ UNCHANGED <<retried, aborted, admitted, gate, token, lock, health>>

(* The inner call is over, and the permit goes back. *)
EndCall(a, place) ==
  /\ Goto(a, place)
  /\ retried' = [retried EXCEPT ![a] = 0]
  /\ permits' = permits + 1

(* A transient failure waits for the write lock: aborted there, it starts  *)
(* nothing.                                                                *)
StartCooldown(a) ==
  /\ at[a] = "cooling"
  /\ cooldown' = "fresh"
  /\ Goto(a, "failed")
  /\ UNCHANGED <<retried, aborted, admitted, late, permits, token, lock, health>>

-----------------------------------------------------------------------------
(* AzureAdCredentialProvider::resolve.                                     *)

ReadToken(a) ==
  /\ at[a] = "token" /\ lock = None
  /\ Goto(a, IF token = "valid" THEN "sent" ELSE "lock")
  /\ UNCHANGED <<retried, aborted, admitted, gate, permits, token, lock, health>>

(* Who waited for the lock looks again before fetching. *)
LockToken(a) ==
  /\ at[a] = "lock" /\ lock = None
  /\ IF token = "valid" THEN Goto(a, "sent") /\ UNCHANGED lock
     ELSE Goto(a, "fetch") /\ lock' = a
  /\ UNCHANGED <<retried, aborted, admitted, gate, permits, token, health>>

Fetched(a) ==
  /\ at[a] = "fetch"
  /\ token' = "valid"
  /\ lock' = None
  /\ Goto(a, "sent")
  /\ UNCHANGED <<retried, aborted, admitted, gate, permits, health>>

(* An authentication error, which is not transient. *)
FetchFails(a) ==
  /\ at[a] = "fetch"
  /\ lock' = None
  /\ EndCall(a, "failed")
  /\ UNCHANGED <<aborted, admitted, gate, token, health>>

-----------------------------------------------------------------------------
(* with_retry_bounded.                                                     *)

Succeeds(a) ==
  /\ at[a] = "sent"
  /\ EndCall(a, "ok")
  /\ UNCHANGED <<aborted, admitted, gate, token, lock, health>>

(* 429, 500, 502, 503, 504, 529, or no response at all. *)
Retries(a) ==
  /\ at[a] = "sent" /\ retried[a] < MaxRetries
  /\ Goto(a, "backoff")
  /\ retried' = [retried EXCEPT ![a] = @ + 1]
  /\ UNCHANGED <<aborted, admitted, gate, permits, token, lock, health>>

(* The retries are used up, or a response's body breaks off; the probe is  *)
(* not under the cooldown.                                                 *)
GivesUp(a) ==
  /\ at[a] = "sent"
  /\ EndCall(a, IF a = Probe THEN "failed" ELSE "cooling")
  /\ UNCHANGED <<aborted, admitted, gate, token, lock, health>>

(* Another status, or a body that cannot be read. *)
Refused(a) ==
  /\ at[a] = "sent"
  /\ EndCall(a, "failed")
  /\ UNCHANGED <<aborted, admitted, gate, token, lock, health>>

Resend(a) ==
  /\ at[a] = "backoff"
  /\ Goto(a, "sent")
  /\ UNCHANGED <<retried, aborted, admitted, gate, permits, token, lock, health>>

-----------------------------------------------------------------------------

(* A future is dropped, with what it holds. *)
Drop(a) ==
  /\ Goto(a, "none")
  /\ retried' = [retried EXCEPT ![a] = 0]
  /\ permits' = IF at[a] \in InFlight THEN permits + 1 ELSE permits
  /\ lock' = IF lock = a THEN None ELSE lock
  /\ late' = late \ {a}

(* The runtime drops an aborted task. *)
Reap(a) ==
  /\ a \in aborted
  /\ Drop(a)
  /\ aborted' = aborted \ {a}
  /\ UNCHANGED <<admitted, cooldown, token, health>>

(* run_health_probe, after its interval.  A provider that does not list    *)
(* models has its probes skipped; that changes nothing.                    *)
StartProbe ==
  /\ at[Probe] = "none"
  /\ Goto(Probe, "permit")
  /\ UNCHANGED <<retried, aborted, admitted, gate, permits, token, lock, health>>

Capped(n, limit) == IF n < limit THEN n + 1 ELSE limit

(* ProviderHealthState::record. *)
RecordHealthy ==
  /\ failures' = 0
  /\ successes' = Capped(successes, Healthy)
  /\ healthy' = IF successes' >= Healthy THEN "yes" ELSE healthy

RecordUnhealthy ==
  /\ successes' = 0
  /\ failures' = Capped(failures, Unhealthy)
  /\ healthy' = IF failures' >= Unhealthy THEN "no" ELSE healthy

ProbeAnswered ==
  /\ at[Probe] \in Ended
  /\ IF at[Probe] = "ok" THEN RecordHealthy ELSE RecordUnhealthy
  /\ Goto(Probe, "none")
  /\ UNCHANGED <<retried, aborted, admitted, gate, permits, token, lock>>

ProbeTimesOut ==
  /\ at[Probe] \notin Ended \cup {"none"}
  /\ Drop(Probe)
  /\ RecordUnhealthy
  /\ UNCHANGED <<aborted, admitted, cooldown, token>>

(* maybe_reset finds the window over. *)
WindowElapses ==
  /\ admitted > 0
  /\ admitted' = 0
  /\ UNCHANGED <<at, retried, aborted, gate, permits, token, lock, health>>

CooldownElapses ==
  /\ cooldown = "fresh"
  /\ cooldown' = "elapsed"
  /\ late' = {}
  /\ UNCHANGED <<at, retried, aborted, admitted, permits, token, lock, health>>

TokenExpires ==
  /\ token = "valid"
  /\ token' = "none"
  /\ UNCHANGED <<at, retried, aborted, admitted, gate, permits, lock, health>>

(* The answer; reqwest's timeout makes sure of one. *)
Answered(a) == Succeeds(a) \/ Retries(a) \/ GivesUp(a) \/ Refused(a)

Progress(a) ==
  \/ Wake(a) \/ CountRequest(a) \/ RateLimited(a)
  \/ ReadCooldown(a) \/ ClearCooldown(a) \/ StartCooldown(a)
  \/ CheckHealth(a) \/ Acquire(a) \/ ReadToken(a) \/ LockToken(a) \/ Answered(a) \/ Resend(a) \/ Reap(a)

Attempt(a) == Progress(a) \/ Fetched(a) \/ FetchFails(a)

ProbeTask == StartProbe \/ ProbeAnswered

Elapse == WindowElapses \/ CooldownElapses \/ TokenExpires \/ ProbeTimesOut

=============================================================================
