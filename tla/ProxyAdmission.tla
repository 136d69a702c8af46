--------------------------- MODULE ProxyAdmission ---------------------------
(***************************************************************************)
(* What a request meets before it goes upstream                            *)
(* (crates/liter-llm-proxy/src): the key store (auth/key_store.rs), the    *)
(* limits of its virtual key (tenant_limit.rs), and, for a realtime        *)
(* session, the check at its start and the published configuration         *)
(* (service_pool.rs, routes/realtime.rs).                                  *)
(*                                                                         *)
(* A configuration gives each of its keys a limit of requests per window   *)
(* and a budget.  The stores are swapped one after the other by the config *)
(* watcher, so each is kept as the revision it was last loaded from; the   *)
(* key store is loaded key by key.                                         *)
(***************************************************************************)
EXTENDS Integers, FiniteSets

CONSTANTS
  Requests,   \* requests under way at once
  Keys,       \* virtual keys
  Rpm,        \* by revision, the requests per window of each of its keys
  Budget,     \* what a key may spend
  NoKey       \* not a key

ASSUME RpmAssumption ==
  \A n \in DOMAIN Rpm : DOMAIN Rpm[n] \subseteq Keys
                       /\ \A k \in DOMAIN Rpm[n] : Rpm[n][k] \in Nat
ASSUME BudgetAssumption == Budget \in Nat \ {0} /\ NoKey \notin Keys

VARIABLES
  master,    \* the revision whose master key is in force
  keys,      \* KeyStore::keys: the keys let in
  limits,    \* the revision whose requests per window are in force
  budgets,   \* the revision whose budgets are in force
  config,    \* the revision published
  counted,   \* requests counted in a key's window
  spent,     \* what a key has spent, up to Budget
  pc,        \* where each request stands
  key,       \* the key it carries
  found,     \* the revision of the limits it has loaded
  overlap    \* auxiliary: "yes" once a reload ran during the request

stores == <<master, keys, limits, budgets, config>>
usage == <<counted, spent>>
requests == <<pc, key, found, overlap>>
admission == <<stores, usage, requests>>

Labels == {"idle", "auth", "budget", "limit", "reserve",
           "rt limit", "rt reserve", "rt budget", "rt config", "served"}

AdmissionTypeOK ==
  /\ keys \subseteq Keys
  /\ {master, limits, budgets, config} \subseteq DOMAIN Rpm
  /\ counted \in [Keys -> Nat]
  /\ spent \in [Keys -> 0..Budget]
  /\ pc \in [Requests -> Labels]
  /\ key \in [Requests -> Keys \cup {NoKey}]
  /\ found \in [Requests -> DOMAIN Rpm]
  /\ overlap \in [Requests -> {"yes", "no"}]

AdmissionInit ==
  /\ master = 0
  /\ keys = DOMAIN Rpm[0]
  /\ limits = 0
  /\ budgets = 0
  /\ config = 0
  /\ counted = [k \in Keys |-> 0]
  /\ spent = [k \in Keys |-> 0]
  /\ pc = [r \in Requests |-> "idle"]
  /\ key = [r \in Requests |-> NoKey]
  /\ found = [r \in Requests |-> 0]
  /\ overlap = [r \in Requests |-> "no"]

Goto(r, label) ==
  /\ pc' = [pc EXCEPT ![r] = label]
  /\ UNCHANGED <<key, found, overlap>>

Done(r) ==
  /\ pc' = [pc EXCEPT ![r] = "idle"]
  /\ key' = [key EXCEPT ![r] = NoKey]
  /\ found' = [found EXCEPT ![r] = 0]
  /\ overlap' = [overlap EXCEPT ![r] = "no"]

-----------------------------------------------------------------------------
(* validate_api_key.                                                       *)

Begin(r, k, reloading) ==
  /\ pc[r] = "idle"
  /\ pc' = [pc EXCEPT ![r] = "auth"]
  /\ key' = [key EXCEPT ![r] = k]
  /\ overlap' = [overlap EXCEPT ![r] = IF reloading THEN "yes" ELSE "no"]
  /\ UNCHANGED <<stores, usage, found>>

(* The key is known: a unary request or a realtime session goes on. *)
LetIn(r) ==
  /\ pc[r] = "auth"
  /\ key[r] \in keys
  /\ \E label \in {"budget", "rt limit"} : Goto(r, label)
  /\ UNCHANGED <<stores, usage>>

Unauthorized(r) ==
  /\ pc[r] = "auth"
  /\ key[r] \notin keys
  /\ Done(r)
  /\ UNCHANGED <<stores, usage>>

-----------------------------------------------------------------------------
(* Limits and budgets.  A key they do not know is not limited.             *)

(* BudgetLedgerService, or the end of check_realtime_session_start. *)
OverBudget(k) == k \in DOMAIN Rpm[budgets] /\ spent[k] >= Budget

WithinBudget(r) ==
  /\ ~OverBudget(key[r])
  /\ \/ pc[r] = "budget" /\ Goto(r, "limit")
     \/ pc[r] = "rt budget" /\ Goto(r, "rt config")
  /\ UNCHANGED <<stores, usage>>

(* What a realtime session has reserved by then stays counted. *)
BudgetExceeded(r) ==
  /\ pc[r] \in {"budget", "rt budget"}
  /\ OverBudget(key[r])
  /\ Done(r)
  /\ UNCHANGED <<stores, usage>>

(* check_and_reserve_rpm_tpm loads the limits of the key ... *)
InForce(k) == k \in DOMAIN Rpm[limits]

LoadLimit(r) ==
  /\ InForce(key[r])
  /\ \/ pc[r] = "limit" /\ pc' = [pc EXCEPT ![r] = "reserve"]
     \/ pc[r] = "rt limit" /\ pc' = [pc EXCEPT ![r] = "rt reserve"]
  /\ found' = [found EXCEPT ![r] = limits]
  /\ UNCHANGED <<stores, usage, key, overlap>>

(* ... lets a key without any pass ... *)
NoLimit(r) ==
  /\ ~InForce(key[r])
  /\ \/ pc[r] = "limit" /\ Goto(r, "served")
     \/ pc[r] = "rt limit" /\ Goto(r, "rt budget")
  /\ UNCHANGED <<stores, usage>>

(* ... and counts the others under the lock of their entry. *)
Full(n, k) == counted[k] >= Rpm[n][k]

Reserve(r) ==
  /\ pc[r] \in {"reserve", "rt reserve"}
  /\ ~Full(found[r], key[r])
  /\ counted' = [counted EXCEPT ![key[r]] = @ + 1]
  /\ Goto(r, IF pc[r] = "reserve" THEN "served" ELSE "rt budget")
  /\ UNCHANGED <<stores, spent>>

RateLimited(r) ==
  /\ pc[r] \in {"reserve", "rt reserve"}
  /\ Full(found[r], key[r])
  /\ Done(r)
  /\ UNCHANGED <<stores, usage>>

(* A realtime session needs a credential of its key in the configuration   *)
(* published by now; with or without one, it is no longer a request.       *)
Upgraded(r) ==
  /\ pc[r] = "rt config"
  /\ Done(r)
  /\ UNCHANGED <<stores, usage>>

(* The upstream has answered; what it cost is recorded, or nothing. *)
Answered(r) ==
  /\ pc[r] = "served"
  /\ \/ UNCHANGED spent
     \/ spent[key[r]] < Budget /\ spent' = [spent EXCEPT ![key[r]] = @ + 1]
  /\ Done(r)
  /\ UNCHANGED <<stores, counted>>

(* A key's window of requests is over. *)
WindowOver(k) ==
  /\ counted[k] > 0
  /\ counted' = [counted EXCEPT ![k] = 0]
  /\ UNCHANGED <<stores, spent, requests>>

Proceed(r) ==
  \/ LetIn(r) \/ Unauthorized(r) \/ WithinBudget(r) \/ BudgetExceeded(r)
  \/ LoadLimit(r) \/ NoLimit(r) \/ Reserve(r) \/ RateLimited(r)
  \/ Upgraded(r) \/ Answered(r)

=============================================================================
