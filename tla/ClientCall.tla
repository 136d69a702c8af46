----------------------------- MODULE ClientCall -----------------------------
(***************************************************************************)
(* A call as its caller sees it (crates/liter-llm/src/tower): the hooks    *)
(* with their usage event and its cancellation guard (hooks.rs) around a   *)
(* race of hedged attempts (hedge.rs), each an attempt of UpstreamCall.    *)
(* The caller may drop the call's future at any time.                      *)
(***************************************************************************)
EXTENDS UpstreamCall

CONSTANTS
  Callers,
  MaxAttempts,  \* HedgePolicy::max_attempts, and the tasks a caller may have
  Vetoed        \* callers whose requests allow_hedge refuses to hedge

ASSUME AttemptsAssumption ==
  /\ Attempts = (Callers \X (1..MaxAttempts)) \cup {Probe}
  /\ Probe \notin Callers \X (1..MaxAttempts)
ASSUME MaxAttemptsAssumption == MaxAttempts \in Nat \ {0} /\ Vetoed \subseteq Callers

VARIABLES
  call,    \* where each caller's call stands
  went,    \* whether the call, or the last one, went upstream
  guard,   \* the CancellationGuard
  events   \* usage events of the call so far, or of the last one

callVars == <<call, went, guard, events>>
vars == <<upstream, callVars>>

TypeOK ==
  /\ UpstreamTypeOK
  /\ call \in [Callers -> {"idle", "hooks", "racing", "post"}]
  /\ went \in [Callers -> {"no", "yes"}]
  /\ guard \in [Callers -> {"none", "armed"}]
  /\ events \in [Callers -> Nat]

Init ==
  /\ UpstreamInit
  /\ call = [c \in Callers |-> "idle"]
  /\ went = [c \in Callers |-> "no"]
  /\ guard = [c \in Callers |-> "none"]
  /\ events = [c \in Callers |-> 0]

(* The tasks of a caller: those of its race, and those of earlier races     *)
(* that were aborted and are not gone yet.                                 *)
Race(c) == {c} \X (1..MaxAttempts)
Free(c) == {a \in Race(c) : at[a] = "none"}

(* Attempts of the race that are still in its JoinSet. *)
Joined(c) == {a \in Race(c) \ aborted : at[a] # "none"}

(* JoinSet::abort_all, or the JoinSet is dropped. *)
AbortAll(c) == aborted' = aborted \cup {a \in Race(c) : at[a] # "none"}

-----------------------------------------------------------------------------
(* Mistakes the properties have to catch; no action below uses them.       *)

(* The guard is disarmed before the hooks run, not after. *)
RaceWonEarly(c) ==
  /\ call[c] = "racing"
  /\ \E a \in Joined(c) : at[a] = "ok" /\ at' = [at EXCEPT ![a] = "none"]
  /\ aborted' = aborted \cup {a \in Joined(c) : at'[a] # "none"}
  /\ call' = [call EXCEPT ![c] = "post"]
  /\ guard' = [guard EXCEPT ![c] = "none"]
  /\ UNCHANGED <<retried, admitted, gate, permits, token, lock, health, went, events>>

(* The first attempt that fails decides the race. *)
LostFirst(c) == \E a \in Joined(c) : at[a] = "failed"

-----------------------------------------------------------------------------
(* HooksService::call and hedge_race.                                      *)

Begin(c) ==
  /\ call[c] = "idle"
  /\ Free(c) # {}   \* bound
  /\ call' = [call EXCEPT ![c] = "hooks"]
  /\ went' = [went EXCEPT ![c] = "no"]
  /\ events' = [events EXCEPT ![c] = 0]
  /\ UNCHANGED <<upstream, guard>>

(* A hook says no, or panics. *)
HookRejects(c) ==
  /\ call[c] = "hooks"
  /\ call' = [call EXCEPT ![c] = "idle"]
  /\ UNCHANGED <<upstream, went, guard, events>>

(* The guard is armed, the first attempt sent off, and as many more as the *)
(* policy allows and gives a delay for: all vetoes are asked now.          *)
Dispatch(c) ==
  /\ call[c] = "hooks"
  /\ call' = [call EXCEPT ![c] = "racing"]
  /\ went' = [went EXCEPT ![c] = "yes"]
  /\ guard' = [guard EXCEPT ![c] = "armed"]
  /\ LET first == CHOOSE a \in Free(c) : TRUE
     IN  \E hedges \in SUBSET (IF c \in Vetoed THEN {} ELSE Free(c) \ {first}) :
           at' = [a \in Attempts |-> IF a = first THEN "rate"
                                     ELSE IF a \in hedges THEN "delay"
                                     ELSE at[a]]
  /\ UNCHANGED <<retried, aborted, admitted, gate, permits, token, lock, health, events>>

(* The first success takes the others out of the race. *)
RaceWon(c) ==
  /\ call[c] = "racing"
  /\ \E a \in Joined(c) :
       /\ at[a] = "ok"
       /\ Goto(a, "none")
       /\ aborted' = aborted \cup (Joined(c) \ {a})
  /\ call' = [call EXCEPT ![c] = "post"]
  /\ UNCHANGED <<retried, admitted, gate, permits, token, lock, health,
                 went, guard, events>>

(* Failures are waited for until there is nobody left. *)
AllLost(c) == \A a \in Joined(c) : at[a] = "failed"

RaceLost(c) ==
  /\ call[c] = "racing"
  /\ AllLost(c)
  /\ at' = [a \in Attempts |-> IF a \in Joined(c) /\ at[a] = "failed"
                               THEN "none" ELSE at[a]]
  /\ call' = [call EXCEPT ![c] = "post"]
  /\ UNCHANGED <<retried, aborted, admitted, gate, permits, token, lock, health,
                 went, guard, events>>

(* on_response or on_error has run: disarm, and emit. *)
Finish(c) ==
  /\ call[c] = "post"
  /\ guard' = [guard EXCEPT ![c] = "none"]
  /\ events' = [events EXCEPT ![c] = @ + 1]
  /\ call' = [call EXCEPT ![c] = "idle"]
  /\ UNCHANGED <<upstream, went>>

(* The caller drops the future: the JoinSet aborts, an armed guard emits. *)
Cancel(c) ==
  /\ call[c] # "idle"
  /\ AbortAll(c)
  /\ events' = IF guard[c] = "armed" THEN [events EXCEPT ![c] = @ + 1] ELSE events
  /\ guard' = [guard EXCEPT ![c] = "none"]
  /\ call' = [call EXCEPT ![c] = "idle"]
  /\ UNCHANGED <<at, retried, admitted, gate, permits, token, lock, health, went>>

CallStep(c) ==
  HookRejects(c) \/ Dispatch(c) \/ RaceWon(c) \/ RaceLost(c) \/ Finish(c)

Next ==
  \/ \E c \in Callers : Begin(c) \/ CallStep(c) \/ Cancel(c)
  \/ /\ ProbeTask \/ Elapse \/ \E a \in Attempts : Attempt(a)
     /\ UNCHANGED callVars

Spec == Init /\ [][Next]_vars

(* Tasks that can run are polled, upstreams answer or time out, and tokio    *)
(* hands permits and locks to those who wait in order (hence strong          *)
(* fairness).  A token's fetch has no timeout and may hang.                  *)
Fairness ==
  /\ \A c \in Callers : WF_vars(CallStep(c))
  /\ \A a \in Attempts : SF_vars(Progress(a) /\ UNCHANGED callVars)
  /\ WF_vars(ProbeTask /\ UNCHANGED callVars)
  /\ WF_vars(ProbeTimesOut /\ UNCHANGED callVars)

FairSpec == Spec /\ Fairness

-----------------------------------------------------------------------------

(* A call that went upstream leaves exactly one usage event, whether it      *)
(* succeeds, fails, or is dropped while the attempts run or while the hooks  *)
(* after them do; a call its hooks rejected leaves none (CancellationGuard). *)
OneEventPerCall ==
  \A c \in Callers :
    events[c] = IF call[c] = "idle" /\ went[c] = "yes" THEN 1 ELSE 0

(* Nobody works, and bills, for a call that is over: whoever is left of its  *)
(* attempts has been aborted (hedge_race, JoinSet::abort_all).               *)
NobodyLeftBehind ==
  \A c \in Callers : call[c] # "racing" =>
    \A a \in Race(c) : at[a] = "none" \/ a \in aborted

(* A permit is back exactly when its attempt is done, failed or dropped at   *)
(* whatever await (InFlightLimitService).                                    *)
PermitsConserved ==
  permits + Cardinality({a \in Attempts : at[a] \in InFlight}) = MaxInFlight

(* The lock on the token is held by whoever fetches and by nobody else,      *)
(* wherever holders and those who wait are dropped, and while one fetches    *)
(* there is no valid token (AzureAdCredentialProvider::resolve).             *)
TokenGuarded ==
  /\ \A a \in Attempts : at[a] = "fetch" <=> lock = a
  /\ lock # None => token # "valid"

(* The pieces of a call, and what its attempts hold. *)
CallInv == TypeOK /\ PermitsConserved /\ TokenGuarded /\ NobodyLeftBehind

(* Who comes to the gate during a cooldown gets no further while it lasts,   *)
(* although requests that saw an earlier one elapse are on their way to      *)
(* clear it and the read lock is gone in between (CooldownService::call).    *)
CooldownKept == \A a \in late : at[a] = "gate"

(* Every call comes to its end, and whoever waits for a permit or the token  *)
(* gets it although others are dropped holding them, unless a fetch of the   *)
(* token hangs (hedge_race, InFlightLimitService, resolve).                  *)
CallsEnd ==
  \/ <>[](\E a \in Attempts : at[a] = "fetch")
  \/ \A c \in Callers : [](call[c] # "idle" => <>(call[c] = "idle"))

(* When probes fail no longer, the gate opens for good: failed ones before   *)
(* do not keep it closed (ProviderHealthState::record, run_health_probe).    *)
GateReopens ==
  []<><<successes' = 0 /\ at[Probe] # at'[Probe]>>_vars \/ <>[](healthy = "yes")

=============================================================================
