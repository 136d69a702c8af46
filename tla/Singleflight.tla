---------------------------- MODULE Singleflight ----------------------------
(***************************************************************************)
(* The singleflight layer of                                               *)
(* crates/liter-llm/src/tower/cache_singleflight.rs:                       *)
(* SingleflightService::call over InMemorySingleflight.                    *)
(*                                                                         *)
(* The first caller of a key, the leader, puts the sender of a broadcast   *)
(* channel in the map and runs the request upstream; later callers         *)
(* subscribe to that channel.  When it has its result the leader sends it  *)
(* and then removes the map's entry: two steps, between which, on a        *)
(* multi-threaded runtime, others may run (Preempt, as in CircuitBreaker). *)
(*                                                                         *)
(* A leader stands for the channel it made.  Its senders are the leader's  *)
(* own and the map's; both are gone once the entry is removed.             *)
(***************************************************************************)
CONSTANTS
  Requests,  \* callers sharing the coordinator, each one request at a time
  Keys,      \* singleflight keys: tenant and body
  Outcomes,  \* what an upstream call ends with: a response or an error
  Preempt,   \* labels, besides the awaits, at which others may run
  Empty,     \* a receiver with nothing to receive yet
  Closed,    \* RecvError::Closed
  None       \* no leader, no key

Labels == {"idle", "upstream", "sent", "follow"}

ASSUME PreemptAssumption == Preempt \subseteq Labels
ASSUME NoneAssumption == None \notin Requests /\ None \notin Keys
ASSUME AnswerAssumption ==
  /\ Empty \notin Outcomes
  /\ Closed \notin Outcomes
  /\ Empty # Closed

VARIABLES
  in_flight,  \* the DashMap: key -> the leader whose sender it holds
  pc,         \* where each request's future stands
  key,        \* the request's key
  chan,       \* the leader whose open channel a follower has subscribed to
  recv,       \* what a follower's receiver holds
  past        \* followers that subscribed after the value was sent

vars == <<in_flight, pc, key, chan, recv, past>>

-----------------------------------------------------------------------------

Resting == {"idle", "upstream", "follow"}

Turn(r) == \A q \in Requests \ {r} : pc[q] \in Resting \cup Preempt

At(r, label) == pc[r] = label /\ Turn(r)

Goto(r, label) == pc' = [pc EXCEPT ![r] = label]

Init ==
  /\ in_flight = [k \in Keys |-> None]
  /\ pc = [r \in Requests |-> "idle"]
  /\ key \in [Requests -> Keys]
  /\ chan = [r \in Requests |-> None]
  /\ recv = [r \in Requests |-> Empty]
  /\ past = {}

(* The last sender of r's channel is gone: receivers that got nothing, and *)
(* only they, see it closed.                                               *)
CloseChannel(r) ==
  /\ chan' = [f \in Requests |-> IF chan[f] = r THEN None ELSE chan[f]]
  /\ recv' = [f \in Requests |->
       IF chan[f] = r /\ recv[f] = Empty THEN Closed ELSE recv[f]]

-----------------------------------------------------------------------------
(* Mistakes the properties have to catch; no action below uses them.       *)

(* The map is looked up first and inserted into later. *)
LeadUnchecked(r, k) ==
  /\ At(r, "idle")
  /\ in_flight' = [in_flight EXCEPT ![k] = r]
  /\ key' = [key EXCEPT ![r] = k]
  /\ Goto(r, "upstream")
  /\ UNCHANGED <<chan, recv, past>>

(* complete forgets to send. *)
SendNothing(r, v) ==
  /\ At(r, "upstream")
  /\ Goto(r, "sent")
  /\ UNCHANGED <<in_flight, key, chan, recv, past>>

(* One channel for every key. *)
SendToAll(r, v) ==
  /\ At(r, "upstream")
  /\ recv' = [f \in Requests |-> IF pc[f] = "follow" THEN v ELSE recv[f]]
  /\ Goto(r, "sent")
  /\ UNCHANGED <<in_flight, key, chan, past>>

(* No LeaderDropGuard: the map's sender outlives the leader. *)
DropUnguarded(r) ==
  /\ At(r, "upstream")
  /\ Goto(r, "idle")
  /\ UNCHANGED <<in_flight, key, chan, recv, past>>

-----------------------------------------------------------------------------
(* join, through the atomic entry() of the map.                            *)

Lead(r, k) ==
  /\ At(r, "idle")
  /\ in_flight[k] = None
  /\ in_flight' = [in_flight EXCEPT ![k] = r]
  /\ key' = [key EXCEPT ![r] = k]
  /\ Goto(r, "upstream")
  /\ UNCHANGED <<chan, recv, past>>

(* subscribe() positions the receiver after whatever was sent before. *)
Follow(r, k) ==
  /\ At(r, "idle")
  /\ in_flight[k] # None
  /\ chan' = [chan EXCEPT ![r] = in_flight[k]]
  /\ key' = [key EXCEPT ![r] = k]
  /\ past' = IF pc[in_flight[k]] = "sent" THEN past \cup {r} ELSE past
  /\ Goto(r, "follow")
  /\ UNCHANGED <<in_flight, recv>>

-----------------------------------------------------------------------------
(* The leader: inner.call ends and complete() is called with its result.   *)

Send(r, v) ==
  /\ At(r, "upstream")
  /\ recv' = [f \in Requests |-> IF chan[f] = r THEN v ELSE recv[f]]
  /\ Goto(r, "sent")
  /\ UNCHANGED <<in_flight, key, chan, past>>

(* Whatever is under the key goes. *)
Remove(r) ==
  /\ At(r, "sent")
  /\ in_flight' = [in_flight EXCEPT ![key[r]] = None]
  /\ CloseChannel(r)
  /\ Goto(r, "idle")
  /\ UNCHANGED <<key, past>>

(* The leader's future is dropped or panics upstream: LeaderDropGuard. *)
DropLeader(r) ==
  /\ At(r, "upstream")
  /\ in_flight' = [in_flight EXCEPT ![key[r]] = None]
  /\ CloseChannel(r)
  /\ Goto(r, "idle")
  /\ UNCHANGED <<key, past>>

-----------------------------------------------------------------------------
(* The follower: recv() returns, or its future is dropped.                 *)

Leave(r) ==
  /\ Goto(r, "idle")
  /\ chan' = [chan EXCEPT ![r] = None]
  /\ recv' = [recv EXCEPT ![r] = Empty]
  /\ past' = past \ {r}
  /\ UNCHANGED <<in_flight, key>>

Receive(r) == At(r, "follow") /\ recv[r] # Empty /\ Leave(r)

DropFollower(r) == At(r, "follow") /\ Leave(r)

Join(r) == \E k \in Keys : Lead(r, k) \/ Follow(r, k)

Complete(r) == (\E v \in Outcomes : Send(r, v)) \/ Remove(r) \/ DropLeader(r)

Next ==
  \E r \in Requests : Join(r) \/ Complete(r) \/ Receive(r) \/ DropFollower(r)

Spec == Init /\ [][Next]_vars

(* Upstream calls end and a task that can run is eventually polled; nobody *)
(* has to lose patience.                                                   *)
FairSpec ==
  Spec /\ \A r \in Requests : SF_vars(Complete(r)) /\ SF_vars(Receive(r))

-----------------------------------------------------------------------------

TypeOK ==
  /\ in_flight \in [Keys -> Requests \cup {None}]
  /\ pc \in [Requests -> Labels]
  /\ key \in [Requests -> Keys]
  /\ chan \in [Requests -> Requests \cup {None}]
  /\ recv \in [Requests -> Outcomes \cup {Empty, Closed}]
  /\ past \subseteq Requests

Leading == {"upstream", "sent"}

(* One upstream call per key at a time: the point of the layer. *)
OneLeader ==
  \A r, q \in Requests :
    pc[r] \in Leading /\ pc[q] \in Leading /\ key[r] = key[q] => r = q

(* An entry is in the map exactly as long as its leader runs: entries are  *)
(* removed by key, and yet never another round's, and none is left behind. *)
(* (complete, LeaderDropGuard)                                             *)
EntryHasLeader ==
  /\ \A k \in Keys :
       in_flight[k] # None =>
         pc[in_flight[k]] \in Leading /\ key[in_flight[k]] = k
  /\ \A r \in Requests : pc[r] \in Leading => in_flight[key[r]] = r

(* Whoever waits, waits for the leader of its own key; so nobody hangs. *)
FollowerHasLeader ==
  \A f \in Requests :
    /\ chan[f] # None => pc[f] = "follow" /\ in_flight[key[f]] = chan[f]
    /\ chan[f] # None /\ pc[chan[f]] = "upstream" => recv[f] = Empty
    /\ pc[f] = "follow" /\ recv[f] = Empty => chan[f] # None
    /\ pc[f] # "follow" => recv[f] = Empty

(* Once the value is sent, nobody lacks it but who subscribed afterwards. *)
SentToAll ==
  \A f \in Requests :
    chan[f] # None /\ pc[chan[f]] = "sent" /\ recv[f] = Empty => f \in past

(* The inductive invariant, on every runtime. *)
RoundInv == EntryHasLeader /\ FollowerHasLeader /\ SentToAll

(* What has to be added where polls are not interrupted (Preempt = {}):    *)
(* nobody has subscribed to a channel after its value was sent.            *)
SentInv ==
  \A r \in Requests :
    pc[r] = "sent" =>
      /\ \A q \in Requests : pc[q] = "sent" => q = r
      /\ \A f \in Requests : chan[f] = r => recv[f] # Empty

(* Every follower is eventually answered. (LeaderDropGuard: no hang) *)
FollowerEnds == \A r \in Requests : pc[r] = "follow" ~> pc[r] # "follow"

(* A result reaches every follower that had subscribed when it was sent,   *)
(* whoever is dropped and however rounds follow on one another: one that   *)
(* sees its channel closed had its leader dropped upstream, or subscribed  *)
(* between the send and the removal of the entry (complete,                *)
(* LeaderDropGuard).                                                       *)
ClosedOnlyByDrop ==
  [][\A f \in Requests :
       recv[f] = Empty /\ recv'[f] = Closed =>
         pc[chan[f]] = "upstream" \/ f \in past]_vars

(***************************************************************************)
(* The layer as SharedCall sees it: a leader runs until it sends, and a    *)
(* follower waits until its receiver holds something.                      *)
(***************************************************************************)
StageOf(r) ==
  CASE pc[r] = "upstream" -> "running"
    [] pc[r] = "follow" -> IF recv[r] = Empty THEN "waiting" ELSE "answered"
    [] OTHER -> "idle"

KeyOf(r) == IF pc[r] \in {"upstream", "follow"} THEN key[r] ELSE None

AnswerTo(r) == IF pc[r] = "follow" /\ recv[r] # Empty THEN recv[r] ELSE None

Shared == INSTANCE SharedCall WITH
  stage <- [r \in Requests |-> StageOf(r)],
  key <- [r \in Requests |-> KeyOf(r)],
  answer <- [r \in Requests |-> AnswerTo(r)]

(* Where polls are not interrupted, callers of a key share one upstream    *)
(* call, which ends for all of them at once (SingleflightService::call).   *)
ImplementsSharedCall == Shared!Spec

=============================================================================
