----------------------------- MODULE AutoCycle -----------------------------
(***************************************************************************)
(* AutoCycleService (crates/liter-llm-proxy/src/provider/auto_cycle.rs)    *)
(* over a credential pool: requests that share a provider's credentials,   *)
(* park the one that was current when their call failed, and retry once on *)
(* the next credential that serves their model.                            *)
(*                                                                         *)
(* The service the layer wraps is the upstream; any answer may come back   *)
(* from it at any time.  Between two calls on the pool any other request,  *)
(* timer or tick may come in, as on a multi-threaded runtime.              *)
(***************************************************************************)
EXTENDS CredentialPool

CONSTANTS
  Requests,     \* callers; each sends request after request for one model
  Models,       \* models a request may name
  Allowed,      \* model_allowlist: the models each credential may serve
  RetryAfter,   \* cooldowns a failure may ask for, the default included
  MaxAttempts,  \* MAX_ATTEMPTS
  None          \* no credential

ASSUME AllowedAssumption == Allowed \in [Slots -> SUBSET Models]
ASSUME RetryAssumption == RetryAfter \subseteq Ticks
ASSUME AttemptsAssumption == MaxAttempts \in Nat \ {0}
ASSUME NoneAssumption == None \notin Int

Labels == {"idle", "inner", "next", "skip", "retry"}

VARIABLES
  pc,       \* where each request stands
  model,    \* the model it names, the same for all of a caller's requests
  handle,   \* the credential it marks: initial_handle, then the one to skip
  tries,    \* rounds of next_credential_for_model
  avoid     \* auxiliary: the credential a request parked, while it is parked

vars == <<poolVars, pc, model, handle, tries, avoid>>

TypeOK ==
  /\ PoolTypeOK
  /\ pc \in [Requests -> Labels]
  /\ model \in [Requests -> Models]
  /\ handle \in [Requests -> Slots \cup {None}]
  /\ tries \in [Requests -> 0..MaxAttempts]
  /\ avoid \in [Requests -> Slots \cup {None}]

Init ==
  /\ PoolInit
  /\ pc = [r \in Requests |-> "idle"]
  /\ model \in [Requests -> Models]
  /\ handle = [r \in Requests |-> None]
  /\ tries = [r \in Requests |-> 0]
  /\ avoid = [r \in Requests |-> None]

Goto(r, label) == pc' = [pc EXCEPT ![r] = label] /\ UNCHANGED model

Hold(r, c) == handle' = [handle EXCEPT ![r] = c]

(* What a request parked is forgotten once the pool has taken it back. *)
StillParked ==
  avoid' = [r \in Requests |-> IF avoid[r] \in exhausted' THEN avoid[r] ELSE None]

(* The request is answered. *)
Done(r) ==
  /\ Goto(r, "idle")
  /\ Hold(r, None)
  /\ tries' = [tries EXCEPT ![r] = 0]
  /\ avoid' = [avoid EXCEPT ![r] = None]

Serves(c, r) == model[r] \in Allowed[c]

-----------------------------------------------------------------------------

(* Bound: no request begins while a credential has more than one timer.    *)
(* Requests under way are not held back and start all the timers they do.  *)
Quiet ==
  \A c \in Slots : \A s, t \in Ticks :
    timers[c][s] > 0 /\ timers[c][t] > 0 => s = t /\ timers[c][s] = 1

(* call: pool.current().ok() and the first call on the wrapped service. *)
Begin(r) ==
  /\ pc[r] = "idle"
  /\ Quiet
  /\ \/ \E c \in Creds : Current(c) /\ Hold(r, c)
     \/ NoCurrent /\ Hold(r, None)
  /\ Goto(r, "inner")
  /\ StillParked
  /\ UNCHANGED tries

(* A response, or an error that does not call for another credential. *)
Answer(r) ==
  /\ pc[r] = "inner"
  /\ Done(r)
  /\ UNCHANGED poolVars

(* 429 or 5xx: what was current when the request began is parked. *)
Rotate(r) ==
  /\ pc[r] = "inner"
  /\ \/ /\ handle[r] # None
        /\ \E cooldown \in RetryAfter : MarkExhausted(handle[r], cooldown)
        /\ avoid' = [avoid EXCEPT ![r] = handle[r]]
     \/ /\ handle[r] = None
        /\ UNCHANGED <<poolVars, avoid>>
  /\ Goto(r, "next")
  /\ Hold(r, None)
  /\ UNCHANGED tries

(* next_credential_for_model, one round: the current credential if it      *)
(* serves the model ...                                                    *)
Pick(r) ==
  /\ pc[r] = "next"
  /\ tries[r] < MaxAttempts
  /\ \E c \in Creds :
       /\ Current(c)
       /\ Hold(r, c)
       /\ Goto(r, IF Serves(c, r) THEN "retry" ELSE "skip")
  /\ StillParked
  /\ UNCHANGED tries

(* ... and if not it is parked for a second, and the next round begins. *)
Skip(r) ==
  /\ pc[r] = "skip"
  /\ MarkExhausted(handle[r], 1)
  /\ Goto(r, "next")
  /\ tries' = [tries EXCEPT ![r] = @ + 1]
  /\ StillParked
  /\ Hold(r, None)

(* No credential, or no round left: ServiceUnavailable. *)
Unavailable(r) ==
  /\ pc[r] = "next"
  /\ \/ tries[r] = MaxAttempts /\ UNCHANGED poolVars
     \/ tries[r] < MaxAttempts /\ NoCurrent
  /\ Done(r)

(* The answer of the service built with the new credential, whatever it    *)
(* is, or the error of building it.                                        *)
Retried(r) ==
  /\ pc[r] = "retry"
  /\ Done(r)
  /\ UNCHANGED poolVars

(* The caller drops the future. *)
Cancel(r) ==
  /\ pc[r] \in {"inner", "retry"}
  /\ Done(r)
  /\ UNCHANGED poolVars

(* The pool on its own. *)
Pool ==
  /\ AddCredential \/ PoolTick \/ \E c \in Creds : Reactivate(c)
  /\ StillParked
  /\ UNCHANGED <<pc, model, handle, tries>>

Call(r) ==
  Begin(r) \/ Answer(r) \/ Rotate(r) \/ Pick(r) \/ Skip(r) \/ Unavailable(r)
    \/ Retried(r) \/ Cancel(r)

Next == Pool \/ \E r \in Requests : Call(r)

Spec == Init /\ [][Next]_vars

(* A task that can run is polled, timers fire, and the upstream answers.   *)
(* Callers need not call.                                                  *)
Proceed(r) == Rotate(r) \/ Pick(r) \/ Skip(r) \/ Unavailable(r)

ReactivationTask(c) == c \in Creds /\ Reactivate(c) /\ Pool

Fairness ==
  /\ WF_vars(PoolTick /\ Pool)
  /\ \A c \in Slots : WF_vars(ReactivationTask(c))
  /\ \A r \in Requests :
       /\ WF_vars(Proceed(r))
       /\ WF_vars(Answer(r))
       /\ WF_vars(Retried(r))

FairSpec == Spec /\ Fairness

-----------------------------------------------------------------------------

(* A parked credential always has a timer under way that ends with its own *)
(* cooldown or before, however often it has been parked, taken back and    *)
(* parked again (mark_exhausted, Reactivate, current): without one it      *)
(* would depend on a request asking for it.                                *)
ParkedHasTimer ==
  \A c \in exhausted : \E t \in 0..left[c] : timers[c][t] > 0

(* The retry goes out on another credential than the one the request has   *)
(* parked, unless that one was taken back in between: by current, when its *)
(* cooldown was over, or by a timer (call, next_credential_for_model).     *)
RetriesElsewhere ==
  \A r \in Requests : pc[r] = "retry" => handle[r] # avoid[r]

(* The pool as a request may find it at any moment. *)
PoolInv == TypeOK /\ ParkedHasTimer /\ RetriesElsewhere

(* A cooldown ends before its time only when a timer of an earlier parking *)
(* of the same credential fires: a credential parked once serves all of it *)
(* (current, the task mark_exhausted spawns).                              *)
EarlyOnlyByOlderTimer ==
  [][\A c \in exhausted :
       c \notin exhausted' /\ left[c] > 0
         => timers[c][0] > 0 /\ timers'[c][left[c]] > 0]_vars

(* A parked credential serves again, whether or not a request asks for it  *)
(* (the task mark_exhausted spawns).                                       *)
CredentialsRecover ==
  \A c \in Slots : c \in exhausted ~> c \notin exhausted

=============================================================================
