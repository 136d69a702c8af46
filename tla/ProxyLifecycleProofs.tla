------------------------ MODULE ProxyLifecycleProofs ------------------------
(***************************************************************************)
(* Proofs about ProxyLifecycle, for any subsystems, requests, sessions,    *)
(* windows and deadlines: the phase, the token and the result of the drain *)
(* agree, and the phase only moves forward.                                *)
(***************************************************************************)
EXTENDS ProxyLifecycle, TLAPS

USE TimesAssumption, SignalsAssumption

Session == \E s \in Sessions :
             \/ OpenSession(s) \/ ConnectSession(s) \/ CloseSession(s)
             \/ \E d \in Directions : Relay(s, d) \/ RelayEnds(s, d)

(* A session's step leaves the process alone. *)
LEMMA SessionsApart == Session => UNCHANGED shutdownVars
BY DEF Session, OpenSession, ConnectSession, CloseSession, Relay, RelayEnds

LEMMA ShutdownTyping == Spec => []ShutdownTypeOK
<1>1. Init => ShutdownTypeOK
  BY DEF Init, ShutdownInit, ShutdownTypeOK, Rank
<1>2. ASSUME ShutdownTypeOK, [Next]_vars PROVE ShutdownTypeOK'
  <2> USE <1>2 DEF ShutdownTypeOK, Rank, handlerVars, mainVars, serverVars
  <2>1. CASE UNCHANGED shutdownVars
    BY <2>1 DEF shutdownVars
  <2>2. CASE Signal
    BY <2>2 DEF Signal
  <2>3. CASE HandlerTask
    BY <2>3 DEF HandlerTask, FirstSignal, CancelToken, SecondSignal, WindowOver
  <2>4. CASE MainTask
    BY <2>4 DEF MainTask, DrainStarts, AlreadyAborted, StartDrains, AbortSeen,
                HardTimeout, DrainFailed, DrainFinished, SetDrained, Exit, Return
  <2>5. CASE ServerTask
    BY <2>5 DEF ServerTask, Start, Close, Stop
  <2>6. CASE ShutdownTick
    BY <2>6 DEF ShutdownTick
  <2>7. ASSUME NEW d \in Drainables, DrainEnds(d) PROVE ShutdownTypeOK'
    BY <2>7 DEF DrainEnds
  <2>8. ASSUME NEW c \in Conns, Accept(c) \/ Answer(c) PROVE ShutdownTypeOK'
    BY <2>8 DEF Accept, Answer
  <2> QED
    BY <2>1, <2>2, <2>3, <2>4, <2>5, <2>6, <2>7, <2>8, SessionsApart
    DEF Next, Session, Proxy, ShutdownNext, vars
<1> QED BY <1>1, <1>2, PTL DEF Spec

LEMMA RelayTyping == Spec => []RelayTypeOK
<1>1. Init => RelayTypeOK
  BY DEF Init, RelayInit, RelayTypeOK, Forward, Directions
<1>2. ASSUME RelayTypeOK, [Next]_vars PROVE RelayTypeOK'
  <2> USE <1>2 DEF RelayTypeOK
  <2>1. CASE UNCHANGED relayVars
    BY <2>1 DEF relayVars
  <2>2. ASSUME NEW s \in Sessions, OpenSession(s) \/ ConnectSession(s) \/ CloseSession(s)
        PROVE  RelayTypeOK'
    <3>1. CASE OpenSession(s)
      BY <3>1 DEF OpenSession, Upgrade
    <3>2. CASE ConnectSession(s)
      <4>1. CASE ConnectFails(s)
        BY <4>1 DEF ConnectFails
      <4>2. CASE Connected(s)
        BY <4>2 DEF Connected
      <4> QED BY <3>2, <4>1, <4>2 DEF ConnectSession
    <3>3. CASE CloseSession(s)
      BY <3>3 DEF CloseSession, SessionEnds
    <3> QED BY <2>2, <3>1, <3>2, <3>3
  <2>3. ASSUME NEW s \in Sessions, NEW d \in Directions, Relay(s, d) \/ RelayEnds(s, d)
        PROVE  RelayTypeOK'
    <3>1. PICK label \in {"select", "lock", "send", "ended"} : Move(s, d, label)
      <4>1. CASE Frame(s, d, token) \/ Lock(s, d) \/ Sent(s, d)
        BY <4>1 DEF Frame, Lock, Sent
      <4>2. CASE SeesCancel(s, d, token) \/ Breaks(s, d, token)
        BY <4>2 DEF SeesCancel, Breaks
      <4> QED BY <2>3, <4>1, <4>2 DEF Relay, RelayEnds
    <3>2. pump' \in [Sessions -> [Directions -> {"select", "lock", "send", "ended"}]]
      BY <3>1 DEF Move
    <3>3. \/ UNCHANGED target
          \/ \E side \in {"client", "upstream"} : target' = [target EXCEPT ![s][d] = side]
      <4>1. Forward(d) \in {"client", "upstream"}
        BY DEF Forward
      <4>2. CASE Frame(s, d, token)
        BY <4>1, <4>2 DEF Frame
      <4>3. CASE Lock(s, d) \/ SeesCancel(s, d, token)
        BY <4>3 DEF Lock, SeesCancel
      <4>4. CASE Sent(s, d) \/ Breaks(s, d, token)
        BY <4>1, <4>4 DEF Sent, Breaks
      <4> QED BY <2>3, <4>2, <4>3, <4>4 DEF Relay, RelayEnds
    <3>4. target' \in [Sessions -> [Directions -> {"client", "upstream"}]]
      <4>1. ASSUME NEW side \in {"client", "upstream"},
                   target' = [target EXCEPT ![s][d] = side]
            PROVE  target' \in [Sessions -> [Directions -> {"client", "upstream"}]]
        BY <4>1
      <4> QED BY <3>3, <4>1
    <3>5. session' = session /\ (child' = child \/ EndPump(s))
      <4>1. CASE Relay(s, d)
        BY <4>1 DEF Relay, Frame, Lock, Sent
      <4>2. CASE RelayEnds(s, d)
        BY <4>2 DEF RelayEnds, SeesCancel, Breaks
      <4> QED BY <2>3, <4>1, <4>2
    <3>6. child' \in [Sessions -> {"live", "cancelled"}]
      BY <3>5 DEF EndPump
    <3>7. session' = session
      BY <3>5
    <3> QED BY <3>2, <3>4, <3>6, <3>7
  <2> QED BY <2>1, <2>2, <2>3 DEF Next, Proxy, vars
<1> QED BY <1>1, <1>2, PTL DEF Spec

-----------------------------------------------------------------------------

(* The phase only moves forward. *)
(* (abort, set_drained, spawn_signal_handler) *)
THEOREM PhaseOnlyForward == Spec => PhaseForward
<1>1. ASSUME ShutdownTypeOK, [Next]_vars
      PROVE  [Rank[phase'] >= Rank[phase]]_phase
  <2> USE <1>1 DEF ShutdownTypeOK, Rank, AtLeast
  <2>1. CASE UNCHANGED phase
    BY <2>1
  <2>2. CASE HandlerTask
    BY <2>2 DEF HandlerTask, FirstSignal, CancelToken, SecondSignal, WindowOver
  <2>3. CASE MainTask
    BY <2>3 DEF MainTask, DrainStarts, AlreadyAborted, StartDrains, AbortSeen,
                HardTimeout, DrainFailed, DrainFinished, SetDrained, Exit
  <2>4. Next => UNCHANGED phase \/ HandlerTask \/ MainTask
    BY SessionsApart
    DEF Next, Session, Proxy, ShutdownNext, shutdownVars, Signal, ServerTask,
        Start, Close, Stop, ShutdownTick, DrainEnds, Accept, Answer
  <2> QED BY <2>1, <2>2, <2>3, <2>4 DEF vars, shutdownVars
<1> QED BY <1>1, ShutdownTyping, PTL DEF Spec, PhaseForward

(* Whoever knows of the signal comes after it. *)
SignalInv ==
  /\ signal = "pending" => sent > 0
  /\ handler # "first" => sent > 0 /\ AtLeast("draining")
  /\ token = "cancelled" => handler # "first"

(* Only a signal cancels the shutdown token, whatever sessions do. *)
(* (session_cancel_token, run_proxy) *)
THEOREM TokenCancelledBySignal == Spec => []TokenOnlyBySignal
<1>1. Init => SignalInv
  BY DEF Init, ShutdownInit, SignalInv
<1>2. ASSUME ShutdownTypeOK, ShutdownTypeOK', SignalInv, [Next]_vars,
             [Rank[phase'] >= Rank[phase]]_phase
      PROVE  SignalInv'
  <2> USE <1>2 DEF SignalInv
  <2> AtLeast("draining") => AtLeast("draining")'
    BY DEF ShutdownTypeOK, AtLeast, Rank
  <2>1. CASE UNCHANGED handlerVars
    BY <2>1 DEF handlerVars
  <2>2. CASE Signal
    BY <2>2 DEF Signal, ShutdownTypeOK
  <2>3. CASE HandlerTask
    BY <2>3 DEF HandlerTask, FirstSignal, CancelToken, SecondSignal, WindowOver,
                AtLeast, Rank, ShutdownTypeOK
  <2>4. CASE ShutdownTick
    BY <2>4 DEF ShutdownTick
  <2>5. Next => UNCHANGED handlerVars \/ Signal \/ HandlerTask \/ ShutdownTick
    BY SessionsApart
    DEF Next, Session, Proxy, ShutdownNext, shutdownVars, handlerVars, MainTask,
        DrainStarts, AlreadyAborted, StartDrains, AbortSeen, HardTimeout, DrainFailed,
        DrainFinished, SetDrained, Exit, Return, ServerTask, Start, Close, Stop,
        DrainEnds, Accept, Answer
  <2> QED BY <2>1, <2>2, <2>3, <2>4, <2>5 DEF vars, shutdownVars, handlerVars
<1>3. SignalInv => TokenOnlyBySignal
  BY DEF SignalInv, TokenOnlyBySignal
<1> QED
  BY <1>1, <1>2, <1>3, ShutdownTyping, PhaseOnlyForward, PTL DEF Spec, PhaseForward

-----------------------------------------------------------------------------

(* What the main task has seen is still the case while it goes on, and a   *)
(* server that is not running serves nobody.                               *)
DrainInv ==
  /\ main \in {"waiting", "look", "select", "set"} => result = "none"
  /\ main = "set" => AllClean
  /\ phase = "drained" => result = "drained"
  /\ server \in {"starting", "stopped"} => inflight = {}

(* What phase and result say is the case, whichever subsystems are         *)
(* registered, and the process does not leave requests behind.             *)
(* (wait_for_drained, set_drained, the api command)                        *)
THEOREM DrainResultHolds == Spec => []ResultInv
<1> DEFINE IInv == DrainInv /\ DrainedAllClean /\ AbortPublished /\ ExitServed
<1> USE DEF DrainInv, DrainedAllClean, AbortPublished, ExitServed, AllClean
<1>1. Init => IInv
  BY DEF Init, ShutdownInit
<1>2. ASSUME ShutdownTypeOK, IInv, [Next]_vars PROVE IInv'
  <2> USE <1>2 DEF ShutdownTypeOK, handlerVars, mainVars, serverVars
  <2>1. CASE UNCHANGED shutdownVars
    BY <2>1 DEF shutdownVars
  <2>2. CASE Signal \/ ShutdownTick
    BY <2>2 DEF Signal, ShutdownTick
  <2>3. CASE HandlerTask
    BY <2>3 DEF HandlerTask, FirstSignal, CancelToken, SecondSignal, WindowOver,
                AtLeast, Rank
  <2>4. CASE MainTask
    <3>1. CASE StartDrains
      BY <3>1 DEF StartDrains
    <3>2. CASE DrainFinished
      BY <3>2 DEF DrainFinished
    <3>3. CASE SetDrained
      BY <3>3 DEF SetDrained, Return
    <3>4. CASE DrainStarts \/ Exit
      BY <3>4 DEF DrainStarts, Exit
    <3>5. CASE AlreadyAborted \/ AbortSeen \/ HardTimeout \/ DrainFailed
      BY <3>5 DEF AlreadyAborted, AbortSeen, HardTimeout, DrainFailed, Return
    <3> QED BY <2>4, <3>1, <3>2, <3>3, <3>4, <3>5 DEF MainTask
  <2>5. CASE ServerTask
    BY <2>5 DEF ServerTask, Start, Close, Stop
  <2>6. ASSUME NEW d \in Drainables, DrainEnds(d) PROVE IInv'
    BY <2>6 DEF DrainEnds
  <2>7. ASSUME NEW c \in Conns, Accept(c) \/ Answer(c) PROVE IInv'
    BY <2>7 DEF Accept, Answer
  <2> QED
    BY <2>1, <2>2, <2>3, <2>4, <2>5, <2>6, <2>7, SessionsApart
    DEF Next, Session, Proxy, ShutdownNext, vars
<1>3. ShutdownTypeOK /\ RelayTypeOK /\ IInv => ResultInv
  BY DEF ResultInv, TypeOK
<1> QED BY <1>1, <1>2, <1>3, ShutdownTyping, RelayTyping, PTL DEF Spec

=============================================================================
