------------------------------ MODULE Shutdown ------------------------------
(***************************************************************************)
(* Graceful shutdown of the proxy                                          *)
(* (crates/liter-llm-proxy/src/shutdown.rs), as `liter-llm api` runs it    *)
(* (crates/liter-llm-cli/src/commands/api.rs): the task that handles       *)
(* signals, the main task in wait_for_drained and then waiting for the     *)
(* server task, one task per registered Drainable, and the server with     *)
(* its graceful shutdown on the cancellation token.                        *)
(*                                                                         *)
(* The phase is a watch channel, every change of it one step.  Time is     *)
(* kept as the ticks left of the window for a second signal and of the     *)
(* hard deadline.  A subsystem's drain may return Clean or TimedOut at any *)
(* time, panic, or never return; a request in flight may never end.        *)
(* Which subsystems are registered is free; `liter-llm api` registers none.*)
(***************************************************************************)
EXTENDS Integers

CONSTANTS
  Drainables,  \* the subsystems there are to register
  Conns,       \* requests the server may have in flight
  Window,      \* SECOND_SIGNAL_WINDOW, in ticks
  Deadline,    \* DRAIN_HARD_DEADLINE, in ticks
  MaxSignals   \* bound: signals the process is sent

ASSUME TimesAssumption == Window \in Nat /\ Deadline \in Nat
ASSUME SignalsAssumption == MaxSignals \in Nat

VARIABLES
  phase,     \* ShutdownPhase
  token,     \* the cancellation token: "live" or "cancelled"
  sent,      \* signals sent so far
  signal,    \* "pending" until a signal handle is read, then "none"
  handler,   \* where the signal handler task stands
  window,    \* ticks left of the second-signal window
  main,      \* where the main task stands
  deadline,  \* ticks left of the hard deadline
  registered, \* the subsystems registered before the wait
  drain,     \* each drain task: "none", "running", "clean", "timedout"
  result,    \* what wait_for_drained returned
  server,    \* "starting", "serving", "closing" or "stopped"
  inflight   \* requests the server is working on

shutdownVars == <<phase, token, sent, signal, handler, window, main, deadline,
                  registered, drain, result, server, inflight>>

handlerVars == <<token, sent, signal, handler, window>>
mainVars == <<main, deadline, registered, drain, result>>
serverVars == <<server, inflight>>

Rank == [running |-> 0, draining |-> 1, drained |-> 2, aborted |-> 3]

ShutdownTypeOK ==
  /\ phase \in DOMAIN Rank
  /\ token \in {"live", "cancelled"}
  /\ sent \in 0..MaxSignals
  /\ signal \in {"none", "pending"}
  /\ handler \in {"first", "cancel", "window", "ended"}
  /\ window \in 0..Window
  /\ main \in {"waiting", "look", "select", "set", "server", "exited"}
  /\ deadline \in 0..Deadline
  /\ registered \subseteq Drainables
  /\ drain \in [Drainables -> {"none", "running", "clean", "timedout"}]
  /\ result \in {"none", "drained", "aborted"}
  /\ server \in {"starting", "serving", "closing", "stopped"}
  /\ inflight \subseteq Conns

ShutdownInit ==
  /\ phase = "running"
  /\ token = "live"
  /\ sent = 0
  /\ signal = "none"
  /\ handler = "first"
  /\ window = Window
  /\ main = "waiting"
  /\ deadline = Deadline
  /\ registered \in SUBSET Drainables
  /\ drain = [d \in Drainables |-> "none"]
  /\ result = "none"
  /\ server = "starting"
  /\ inflight = {}

AtLeast(p) == Rank[phase] >= Rank[p]

Running == main # "exited"

-----------------------------------------------------------------------------
(* Mistakes the properties have to catch; no action below uses them.       *)

(* A finished drain overrides an abort. *)
SetDrainedAlways ==
  /\ main = "set"
  /\ phase' = "drained"
  /\ main' = "server"
  /\ result' = "drained"
  /\ UNCHANGED <<handlerVars, serverVars, deadline, registered, drain>>

(* The deadline is not one of the branches. *)
HardTimeoutNever == FALSE /\ UNCHANGED shutdownVars

(* One clean drain is taken for all of them. *)
SomeClean == registered = {} \/ \E d \in registered : drain[d] = "clean"

-----------------------------------------------------------------------------
(* The operating system and the signal handler task.                       *)

(* SIGTERM or SIGINT: signals not yet read are merged. *)
Signal ==
  /\ sent < MaxSignals
  /\ sent' = sent + 1
  /\ signal' = "pending"
  /\ UNCHANGED <<phase, token, handler, window, mainVars, serverVars>>

(* The first signal: Draining, or Aborted had someone drained already. *)
FirstSignal ==
  /\ handler = "first"
  /\ signal = "pending"
  /\ signal' = "none"
  /\ phase' = IF AtLeast("draining") THEN "aborted" ELSE "draining"
  /\ handler' = IF AtLeast("draining") THEN "ended" ELSE "cancel"
  /\ UNCHANGED <<token, sent, window, mainVars, serverVars>>

CancelToken ==
  /\ handler = "cancel"
  /\ token' = "cancelled"
  /\ handler' = "window"
  /\ UNCHANGED <<phase, sent, signal, window, mainVars, serverVars>>

(* A second signal within the window: Aborted, whatever the phase. *)
SecondSignal ==
  /\ handler = "window"
  /\ signal = "pending"
  /\ signal' = "none"
  /\ phase' = "aborted"
  /\ handler' = "ended"
  /\ UNCHANGED <<token, sent, window, mainVars, serverVars>>

(* After the window nobody reads signals any more. *)
WindowOver ==
  /\ handler = "window"
  /\ window = 0
  /\ handler' = "ended"
  /\ UNCHANGED <<phase, token, sent, signal, window, mainVars, serverVars>>

-----------------------------------------------------------------------------
(* The main task: wait_for_drained, then the server task.                  *)

DrainStarts ==
  /\ main = "waiting"
  /\ AtLeast("draining")
  /\ main' = "look"
  /\ UNCHANGED <<phase, handlerVars, serverVars, deadline, registered, drain, result>>

Return(r) ==
  /\ main' = "server"
  /\ result' = r
  /\ UNCHANGED <<handlerVars, serverVars, deadline, registered, drain>>

(* Aborted before the drain began. *)
AlreadyAborted ==
  /\ main = "look"
  /\ phase = "aborted"
  /\ Return("aborted")
  /\ UNCHANGED phase

(* A drain task for each registered subsystem, and the deadline starts. *)
StartDrains ==
  /\ main = "look"
  /\ phase # "aborted"
  /\ drain' = [d \in Drainables |-> IF d \in registered THEN "running" ELSE "none"]
  /\ main' = "select"
  /\ UNCHANGED <<phase, handlerVars, serverVars, deadline, registered, result>>

AbortSeen ==
  /\ main = "select"
  /\ phase = "aborted"
  /\ Return("aborted")
  /\ UNCHANGED phase

HardTimeout ==
  /\ main = "select"
  /\ deadline = 0
  /\ phase' = "aborted"
  /\ Return("aborted")

AllEnded == \A d \in registered : drain[d] \in {"clean", "timedout"}

AllClean == \A d \in registered : drain[d] = "clean"

(* Every drain task is joined, and one of them did not end cleanly. *)
DrainFailed ==
  /\ main = "select"
  /\ AllEnded
  /\ ~AllClean
  /\ phase' = "aborted"
  /\ Return("aborted")

DrainFinished ==
  /\ main = "select"
  /\ AllEnded
  /\ AllClean
  /\ main' = "set"
  /\ UNCHANGED <<phase, handlerVars, serverVars, deadline, registered, drain, result>>

(* set_drained changes the phase only from Draining; Drained is returned   *)
(* all the same.                                                           *)
SetDrained ==
  /\ main = "set"
  /\ phase' = IF phase = "draining" THEN "drained" ELSE phase
  /\ Return("drained")

(* server_task.await, and the end of the process. *)
Exit ==
  /\ main = "server"
  /\ server = "stopped"
  /\ main' = "exited"
  /\ UNCHANGED <<phase, handlerVars, serverVars, deadline, registered, drain, result>>

-----------------------------------------------------------------------------
(* The drain tasks.                                                        *)

(* A panic counts as TimedOut. *)
DrainEnds(d) ==
  /\ drain[d] = "running"
  /\ \E outcome \in {"clean", "timedout"} : drain' = [drain EXCEPT ![d] = outcome]
  /\ UNCHANGED <<phase, handlerVars, serverVars, main, deadline, registered, result>>

(* The server task builds its state and binds, or fails and is gone: the   *)
(* main task only learns of it after a signal.                             *)
Start ==
  /\ server = "starting"
  /\ server' \in {"serving", "stopped"}
  /\ UNCHANGED <<phase, handlerVars, mainVars, inflight>>

(* The server: accepting until the token is cancelled, then working off    *)
(* what is in flight.                                                      *)
Accept(c) ==
  /\ server = "serving"
  /\ inflight' = inflight \cup {c}
  /\ UNCHANGED <<phase, handlerVars, mainVars, server>>

Answer(c) ==
  /\ c \in inflight
  /\ inflight' = inflight \ {c}
  /\ UNCHANGED <<phase, handlerVars, mainVars, server>>

Close ==
  /\ server = "serving"
  /\ token = "cancelled"
  /\ server' = "closing"
  /\ UNCHANGED <<phase, handlerVars, mainVars, inflight>>

Stop ==
  /\ server = "closing"
  /\ inflight = {}
  /\ server' = "stopped"
  /\ UNCHANGED <<phase, handlerVars, mainVars, inflight>>

(* The clock. *)
ShutdownTick ==
  /\ \/ handler = "window" /\ window > 0
     \/ main = "select" /\ deadline > 0
  /\ window' = IF handler = "window" /\ window > 0 THEN window - 1 ELSE window
  /\ deadline' = IF main = "select" /\ deadline > 0 THEN deadline - 1 ELSE deadline
  /\ UNCHANGED <<phase, token, sent, signal, handler, main, registered, drain,
                 result, serverVars>>

-----------------------------------------------------------------------------

HandlerTask == FirstSignal \/ CancelToken \/ SecondSignal \/ WindowOver

MainTask ==
  DrainStarts \/ AlreadyAborted \/ StartDrains \/ AbortSeen \/ HardTimeout
    \/ DrainFailed \/ DrainFinished \/ SetDrained \/ Exit

ServerTask == Start \/ Close \/ Stop

ShutdownNext ==
  /\ Running
  /\ \/ Signal \/ HandlerTask \/ MainTask \/ ServerTask \/ ShutdownTick
     \/ \E d \in Drainables : DrainEnds(d)
     \/ \E c \in Conns : Accept(c) \/ Answer(c)

=============================================================================
