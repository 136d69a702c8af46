----------------------------- MODULE SharedCall -----------------------------
(***************************************************************************)
(* What crates/liter-llm/src/tower/cache_singleflight.rs promises: callers *)
(* of a key that is being fetched share one upstream call.  It ends for    *)
(* all of them at once, with one outcome, or is abandoned for all of them. *)
(***************************************************************************)
CONSTANTS
  Requests,  \* callers
  Keys,      \* singleflight keys
  Outcomes,  \* what an upstream call ends with: a response or an error
  Closed,    \* the answer to those whose leader was dropped
  None       \* no key, no answer

VARIABLES
  stage,   \* of each request: idle, running, waiting or answered
  key,     \* the key of a request that is not idle
  answer   \* the answer of a request that is answered

vars == <<stage, key, answer>>

Init ==
  /\ stage = [r \in Requests |-> "idle"]
  /\ key = [r \in Requests |-> None]
  /\ answer = [r \in Requests |-> None]

Running(k) == \E r \in Requests : stage[r] = "running" /\ key[r] = k

(* The first caller of a key runs the call ... *)
Start(r, k) ==
  /\ stage[r] = "idle"
  /\ ~Running(k)
  /\ stage' = [stage EXCEPT ![r] = "running"]
  /\ key' = [key EXCEPT ![r] = k]
  /\ UNCHANGED answer

(* ... and while it runs the next ones wait for it. *)
Await(r, k) ==
  /\ stage[r] = "idle"
  /\ Running(k)
  /\ stage' = [stage EXCEPT ![r] = "waiting"]
  /\ key' = [key EXCEPT ![r] = k]
  /\ UNCHANGED answer

Waiters(k) == {q \in Requests : stage[q] = "waiting" /\ key[q] = k}

(* The call of r is over; everybody waiting is answered with v. *)
End(r, v) ==
  /\ stage[r] = "running"
  /\ stage' = [q \in Requests |->
       IF q = r THEN "idle"
       ELSE IF q \in Waiters(key[r]) THEN "answered" ELSE stage[q]]
  /\ key' = [key EXCEPT ![r] = None]
  /\ answer' = [q \in Requests |-> IF q \in Waiters(key[r]) THEN v ELSE answer[q]]

(* A caller takes its answer, or loses patience. *)
Leave(r) ==
  /\ stage[r] \in {"waiting", "answered"}
  /\ stage' = [stage EXCEPT ![r] = "idle"]
  /\ key' = [key EXCEPT ![r] = None]
  /\ answer' = [answer EXCEPT ![r] = None]

Next ==
  \E r \in Requests :
    \/ \E k \in Keys : Start(r, k) \/ Await(r, k)
    \/ \E v \in Outcomes \cup {Closed} : End(r, v)
    \/ Leave(r)

Spec == Init /\ [][Next]_vars

=============================================================================
