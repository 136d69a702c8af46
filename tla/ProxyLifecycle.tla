--------------------------- MODULE ProxyLifecycle ---------------------------
(***************************************************************************)
(* The proxy process: Shutdown with the realtime sessions, which hang on   *)
(* its cancellation token and which the server's graceful shutdown does    *)
(* not wait for.                                                           *)
(***************************************************************************)
EXTENDS Shutdown, RealtimeRelay

vars == <<shutdownVars, relayVars>>

TypeOK == ShutdownTypeOK /\ RelayTypeOK

Init == ShutdownInit /\ RelayInit

-----------------------------------------------------------------------------
(* A mistake the properties have to catch: the session cancels a clone of  *)
(* the shutdown token.                                                     *)
RelayEndsClone(s, d) ==
  /\ SeesCancel(s, d, token) \/ Breaks(s, d, token)
  /\ EndPump(s)
  /\ token' = "cancelled"
  /\ UNCHANGED <<phase, sent, signal, handler, window, mainVars, serverVars>>

-----------------------------------------------------------------------------

OpenSession(s) == server = "serving" /\ Upgrade(s) /\ UNCHANGED shutdownVars

ConnectSession(s) ==
  (ConnectFails(s) \/ Connected(s)) /\ UNCHANGED shutdownVars

Relay(s, d) ==
  (Frame(s, d, token) \/ Lock(s, d) \/ Sent(s, d)) /\ UNCHANGED shutdownVars

RelayEnds(s, d) ==
  /\ SeesCancel(s, d, token) \/ Breaks(s, d, token)
  /\ EndPump(s)
  /\ UNCHANGED shutdownVars

CloseSession(s) == SessionEnds(s) /\ UNCHANGED shutdownVars

Proxy == ShutdownNext /\ UNCHANGED relayVars

Next ==
  \/ Proxy
  \/ /\ Running
     /\ \E s \in Sessions :
          \/ OpenSession(s) \/ ConnectSession(s) \/ CloseSession(s)
          \/ \E d \in Directions : Relay(s, d) \/ RelayEnds(s, d)

Spec == Init /\ [][Next]_vars

(* Tasks that can run are polled, timers fire and a mutex is handed to its *)
(* waiters in order (hence strong fairness for Lock).  Nothing is assumed  *)
(* of what has no timeout: a drain, a request in flight and a peer need    *)
(* never do anything, so the connect to the upstream (ConnectSession) and  *)
(* a send (Sent) may stay pending for ever.                                *)
RelayFairness(s, d) ==
  /\ SF_vars(Lock(s, d) /\ Relay(s, d) /\ Running)
  /\ WF_vars(SeesCancel(s, d, token) /\ RelayEnds(s, d) /\ Running)

Fairness ==
  /\ WF_vars(HandlerTask /\ Proxy)
  /\ WF_vars(MainTask /\ Proxy)
  /\ WF_vars(ServerTask /\ Proxy)
  /\ WF_vars(ShutdownTick /\ Proxy)
  /\ \A s \in Sessions :
       /\ WF_vars(Running /\ CloseSession(s))
       /\ \A d \in Directions : RelayFairness(s, d)

FairSpec == Spec /\ Fairness

-----------------------------------------------------------------------------

(* The phase only moves forward: neither a drain that finishes late nor a  *)
(* handler that reacts late takes an abort back (abort, set_drained,       *)
(* spawn_signal_handler).                                                  *)
PhaseForward == [][Rank[phase'] >= Rank[phase]]_phase

(* Drained is returned only when every registered subsystem ended cleanly, *)
(* whichever of them ended first, panicked or ran into the deadline        *)
(* (wait_for_drained).  Of the requests in flight it says nothing.         *)
DrainedAllClean == result = "drained" => \A d \in registered : drain[d] = "clean"

(* Whoever is told Aborted finds the phase Aborted, so what waits for the  *)
(* phase (abort_watch, handles) ends as well (wait_for_drained).           *)
AbortPublished == result = "aborted" => phase = "aborted"

(* Whatever the wait returned, also Aborted after the hard deadline, the   *)
(* process ends only after the server worked off what was in flight        *)
(* (the server_task.await of the api command).                             *)
ExitServed == main = "exited" => server = "stopped" /\ inflight = {}

(* What the phase and the result of the drain say is the case. *)
ResultInv == TypeOK /\ DrainedAllClean /\ AbortPublished /\ ExitServed

(* Only a signal cancels the shutdown token: a session that ends, for      *)
(* whatever reason, cancels its own (session_cancel_token, run_proxy).     *)
TokenOnlyBySignal == token = "cancelled" => sent > 0 /\ AtLeast("draining")

(* Once draining begins the wait for the subsystems ends, even if none of  *)
(* them ever returns (the hard deadline of wait_for_drained).              *)
DrainEndsInTime == AtLeast("draining") ~> main \in {"server", "exited"}

(* The shutdown asks every session to end, and a relay task that ends asks *)
(* the other one of its session.                                           *)
AskedToEnd(s) ==
  \/ token = "cancelled" /\ session[s] \in {"connecting", "open"}
  \/ session[s] = "open" /\ \E d \in Directions : pump[s][d] = "ended"

(* A peer keeps the session waiting: the upstream in the connect, or either *)
(* of them in a send.                                                      *)
HeldUp(s) ==
  session[s] = "connecting" \/ \E d \in Directions : pump[s][d] = "send"

(* A session asked to end does end as a whole, with both its tasks, also   *)
(* when it is asked while still connecting and when its tasks contend for  *)
(* a socket; only a peer that leaves a connect or a send pending for good  *)
(* keeps it (run_proxy, which looks at no token there and has no timeout). *)
SessionsEnd ==
  \A s \in Sessions :
    [](AskedToEnd(s) => <>(session[s] = "ended" \/ ~Running) \/ <>[]HeldUp(s))

=============================================================================
