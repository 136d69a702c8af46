--------------------------- MODULE IdempotentCall ---------------------------
(***************************************************************************)
(* What crates/liter-llm/src/tower/idempotency.rs promises: a key is one   *)
(* slot.  The first request of a key takes it and runs; as long as it is   *)
(* taken, every other request of the key gets its answer from the slot: a  *)
(* conflict for another body, the stored response, or "in flight".  Only   *)
(* the request that runs finishes or frees its slot, and no slot is        *)
(* forgotten while a request runs in it.                                   *)
(***************************************************************************)
CONSTANTS
  Requests,  \* callers
  Keys,      \* idempotency keys
  Bodies,    \* request bodies, and the responses to them
  Pending    \* the response of a slot whose request is running

VARIABLES
  stage,  \* of each request: idle, asking or running
  key,    \* its key
  body,   \* its body
  slot    \* of each key: nothing, or who took it, for which body and with
          \* which response

vars == <<stage, key, body, slot>>

Init ==
  /\ stage = [r \in Requests |-> "idle"]
  /\ key \in [Requests -> Keys]
  /\ body \in [Requests -> Bodies]
  /\ slot = [k \in Keys |-> {}]

Taken(r, response) == {[owner |-> r, body |-> body[r], response |-> response]}

Ask(r, k, b) ==
  /\ stage[r] = "idle"
  /\ stage' = [stage EXCEPT ![r] = "asking"]
  /\ key' = [key EXCEPT ![r] = k]
  /\ body' = [body EXCEPT ![r] = b]
  /\ UNCHANGED slot

(* The slot is taken: a conflict, or for the same body the response to it  *)
(* or "in flight".                                                         *)
Answer(r) ==
  /\ stage[r] = "asking"
  /\ slot[key[r]] # {}
  /\ \A s \in slot[key[r]] : s.body = body[r] => s.response \in {Pending, body[r]}
  /\ stage' = [stage EXCEPT ![r] = "idle"]
  /\ UNCHANGED <<key, body, slot>>

Start(r) ==
  /\ stage[r] = "asking"
  /\ slot[key[r]] = {}
  /\ stage' = [stage EXCEPT ![r] = "running"]
  /\ slot' = [slot EXCEPT ![key[r]] = Taken(r, Pending)]
  /\ UNCHANGED <<key, body>>

(* The response is stored, or the run leaves nothing behind. *)
Finish(r) ==
  /\ stage[r] = "running"
  /\ slot[key[r]] = Taken(r, Pending)
  /\ stage' = [stage EXCEPT ![r] = "idle"]
  /\ \E s \in {Taken(r, body[r]), {}} : slot' = [slot EXCEPT ![key[r]] = s]
  /\ UNCHANGED <<key, body>>

(* Room is made for another key. *)
Forget(k) ==
  /\ \A s \in slot[k] : s.response # Pending
  /\ slot' = [slot EXCEPT ![k] = {}]
  /\ UNCHANGED <<stage, key, body>>

Next ==
  \/ \E r \in Requests :
       \/ \E k \in Keys, b \in Bodies : Ask(r, k, b)
       \/ Answer(r) \/ Start(r) \/ Finish(r)
  \/ \E k \in Keys : Forget(k)

Spec == Init /\ [][Next]_vars

=============================================================================
