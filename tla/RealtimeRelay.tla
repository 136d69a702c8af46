--------------------------- MODULE RealtimeRelay ---------------------------
(***************************************************************************)
(* Realtime sessions (handle_session and run_proxy in                      *)
(* crates/liter-llm-proxy/src/routes/realtime.rs).  A session is two tasks *)
(* that relay between the client's and the upstream's WebSocket; the one   *)
(* that ends first cancels the session's token, a child of the shutdown    *)
(* token, which ends the other.  The writing half of a socket is behind a  *)
(* mutex that is held for the whole send, and a task that waits for the    *)
(* mutex or for a send to finish does not look at the token; neither the   *)
(* send nor the connect to the upstream has a timeout.                     *)
(*                                                                         *)
(* What a frame holds is left out: a frame is forwarded, answered to the   *)
(* client (the guardrails block it), or dropped.                           *)
(***************************************************************************)

CONSTANT Sessions  \* sessions a client may open, each once

VARIABLES
  session,  \* "none", "connecting", "open" or "ended"
  child,    \* the session's own token: "live" or "cancelled"
  pump,     \* pump[s][d]: where the relay task of direction d stands
  target    \* target[s][d]: the side a relay task writes its frame to

relayVars == <<session, child, pump, target>>

(* c2u relays from the client to the upstream, u2c the other way. *)
Directions == {"c2u", "u2c"}

(* The side a direction forwards to. *)
Forward(d) == IF d = "c2u" THEN "upstream" ELSE "client"

RelayTypeOK ==
  /\ session \in [Sessions -> {"none", "connecting", "open", "ended"}]
  /\ child \in [Sessions -> {"live", "cancelled"}]
  /\ pump \in [Sessions -> [Directions -> {"select", "lock", "send", "ended"}]]
  /\ target \in [Sessions -> [Directions -> {"client", "upstream"}]]

RelayInit ==
  /\ session = [s \in Sessions |-> "none"]
  /\ child = [s \in Sessions |-> "live"]
  /\ pump = [s \in Sessions |-> [d \in Directions |-> "ended"]]
  /\ target = [s \in Sessions |-> [d \in Directions |-> Forward(d)]]

Move(s, d, label) == pump' = [pump EXCEPT ![s][d] = label]

(* The upgrade: the handler returns and the session's task connects. *)
Upgrade(s) ==
  /\ session[s] = "none"
  /\ session' = [session EXCEPT ![s] = "connecting"]
  /\ UNCHANGED <<child, pump, target>>

ConnectFails(s) ==
  /\ session[s] = "connecting"
  /\ session' = [session EXCEPT ![s] = "ended"]
  /\ UNCHANGED <<child, pump, target>>

(* A child token is born cancelled when its parent already is; that is     *)
(* what Cancelled says of it.                                              *)
Connected(s) ==
  /\ session[s] = "connecting"
  /\ session' = [session EXCEPT ![s] = "open"]
  /\ pump' = [pump EXCEPT ![s] = [d \in Directions |-> "select"]]
  /\ UNCHANGED <<child, target>>

(* A mistake for the properties to catch: the parent is not looked at. *)
CancelledAlone(s, parent) == child[s] = "cancelled"

Cancelled(s, parent) == child[s] = "cancelled" \/ parent = "cancelled"

(* select! is biased: a cancelled token wins over a frame. *)
SeesCancel(s, d, parent) ==
  /\ pump[s][d] = "select"
  /\ Cancelled(s, parent)
  /\ Move(s, d, "ended")
  /\ UNCHANGED <<session, target>>

(* A frame to write; a blocked one from the client is answered to it. *)
Frame(s, d, parent) ==
  /\ pump[s][d] = "select"
  /\ ~Cancelled(s, parent)
  /\ \E side \in {Forward(d), "client"} : target' = [target EXCEPT ![s][d] = side]
  /\ Move(s, d, "lock")
  /\ UNCHANGED <<session, child>>

(* The side's writing half is taken. *)
Held(s, side) == \E d \in Directions : pump[s][d] = "send" /\ target[s][d] = side

Lock(s, d) ==
  /\ pump[s][d] = "lock"
  /\ ~Held(s, target[s][d])
  /\ Move(s, d, "send")
  /\ UNCHANGED <<session, child, target>>

Sent(s, d) ==
  /\ pump[s][d] = "send"
  /\ Move(s, d, "select")
  /\ target' = [target EXCEPT ![s][d] = Forward(d)]
  /\ UNCHANGED <<session, child>>

(* The peer closed, its socket failed, or a forward to the other side did. *)
Breaks(s, d, parent) ==
  /\ \/ pump[s][d] = "select" /\ ~Cancelled(s, parent)
     \/ pump[s][d] = "send" /\ target[s][d] = Forward(d)
  /\ Move(s, d, "ended")
  /\ target' = [target EXCEPT ![s][d] = Forward(d)]
  /\ UNCHANGED session

(* The end of a relay task: it cancels the session's token. *)
EndPump(s) == child' = [child EXCEPT ![s] = "cancelled"]

(* join!: both tasks have ended. *)
SessionEnds(s) ==
  /\ session[s] = "open"
  /\ \A d \in Directions : pump[s][d] = "ended"
  /\ session' = [session EXCEPT ![s] = "ended"]
  /\ UNCHANGED <<child, pump, target>>

=============================================================================
