-------------------------- MODULE ClientCallProofs --------------------------
(***************************************************************************)
(* Proofs about ClientCall, for any callers, attempts, limits, retries and *)
(* thresholds: one usage event per call, nobody works for a call that is   *)
(* over, every permit is back when its attempt is, the lock on the token   *)
(* is where the fetch is, and a cooldown is kept.                          *)
(***************************************************************************)
EXTENDS ClientCall, FiniteSetTheorems, TLAPS

USE LimitsAssumption, RetriesAssumption, ThresholdsAssumption, ProbeAssumption
USE AttemptsAssumption, MaxAttemptsAssumption

(* The steps that are not those of a call. *)
Upstream == ProbeTask \/ Elapse \/ \E a \in Attempts : Attempt(a)

-----------------------------------------------------------------------------
(* The life of a call, whatever its attempts do.                           *)

CallTypeOK ==
  /\ call \in [Callers -> {"idle", "hooks", "racing", "post"}]
  /\ went \in [Callers -> {"no", "yes"}]
  /\ guard \in [Callers -> {"none", "armed"}]
  /\ events \in [Callers -> Nat]

(* The guard is armed exactly while the call is out, and no event has left *)
(* it then.                                                                *)
EventInv ==
  \A c \in Callers :
    /\ guard[c] = "armed" <=> call[c] \in {"racing", "post"}
    /\ call[c] = "hooks" => went[c] = "no"
    /\ call[c] \in {"racing", "post"} => went[c] = "yes"
    /\ events[c] = IF call[c] = "idle" /\ went[c] = "yes" THEN 1 ELSE 0

LEMMA EventInvariance == Spec => [](CallTypeOK /\ EventInv)
<1>1. Init => CallTypeOK /\ EventInv
  BY DEF Init, CallTypeOK, EventInv
<1>2. ASSUME CallTypeOK, EventInv, [Next]_vars PROVE CallTypeOK' /\ EventInv'
  <2> USE <1>2 DEF CallTypeOK, EventInv
  <2>1. CASE UNCHANGED callVars
    BY <2>1 DEF callVars
  <2>2. ASSUME NEW c \in Callers, Begin(c) PROVE CallTypeOK' /\ EventInv'
    BY <2>2 DEF Begin
  <2>3. ASSUME NEW c \in Callers, HookRejects(c) \/ Dispatch(c)
        PROVE  CallTypeOK' /\ EventInv'
    BY <2>3 DEF HookRejects, Dispatch
  <2>4. ASSUME NEW c \in Callers, RaceWon(c) \/ RaceLost(c)
        PROVE  CallTypeOK' /\ EventInv'
    BY <2>4 DEF RaceWon, RaceLost
  <2>5. ASSUME NEW c \in Callers, Finish(c) PROVE CallTypeOK' /\ EventInv'
    BY <2>5 DEF Finish
  <2>6. ASSUME NEW c \in Callers, Cancel(c) PROVE CallTypeOK' /\ EventInv'
    BY <2>6 DEF Cancel
  <2> QED BY <2>1, <2>2, <2>3, <2>4, <2>5, <2>6 DEF Next, CallStep, vars
<1> QED BY <1>1, <1>2, PTL DEF Spec

(* A call that went upstream leaves one usage event, others none. *)
(* (HooksService::call, CancellationGuard) *)
THEOREM OneEventForEachCall == Spec => []OneEventPerCall
<1>1. EventInv => OneEventPerCall
  BY DEF EventInv, OneEventPerCall
<1> QED BY <1>1, EventInvariance, PTL

-----------------------------------------------------------------------------
(* Attempts.                                                               *)

LEMMA Races ==
  /\ \A c \in Callers : Race(c) \subseteq Attempts \ {Probe}
  /\ \A c, d \in Callers : c # d => Race(c) \cap Race(d) = {}
BY DEF Race

LEMMA UpstreamTyping == Spec => []UpstreamTypeOK
<1>1. Init => UpstreamTypeOK
  BY DEF Init, UpstreamInit, UpstreamTypeOK, Places
<1>2. ASSUME UpstreamTypeOK, [Next]_vars PROVE UpstreamTypeOK'
  <2> USE <1>2 DEF UpstreamTypeOK, Places, InFlight, Ended, Goto, health, gate
  <2>1. CASE UNCHANGED upstream
    BY <2>1 DEF upstream
  <2>2. ASSUME NEW c \in Callers, Dispatch(c) PROVE UpstreamTypeOK'
    BY <2>2 DEF Dispatch
  <2>3. ASSUME NEW c \in Callers, RaceWon(c) \/ RaceLost(c) PROVE UpstreamTypeOK'
    <3>1. Joined(c) \subseteq Attempts
      BY Races DEF Joined
    <3> QED BY <2>3, <3>1 DEF RaceWon, RaceLost
  <2>4. ASSUME NEW c \in Callers, Cancel(c) PROVE UpstreamTypeOK'
    BY <2>4, Races DEF Cancel, AbortAll
  <2>5. ASSUME NEW a \in Attempts, Attempt(a) PROVE UpstreamTypeOK'
    <3>1. CASE Wake(a) \/ CountRequest(a) \/ RateLimited(a)
      BY <3>1 DEF Wake, CountRequest, RateLimited
    <3>2. CASE ReadCooldown(a) \/ ClearCooldown(a) \/ CheckHealth(a) \/ StartCooldown(a)
      BY <3>2 DEF ReadCooldown, ClearCooldown, CheckHealth, StartCooldown
    <3>3. CASE Acquire(a) \/ ReadToken(a) \/ LockToken(a) \/ Fetched(a)
      BY <3>3 DEF Acquire, ReadToken, LockToken, Fetched
    <3>4. CASE FetchFails(a) \/ Succeeds(a) \/ GivesUp(a) \/ Refused(a)
      BY <3>4 DEF FetchFails, Succeeds, GivesUp, Refused, EndCall
    <3>5. CASE Retries(a) \/ Resend(a)
      BY <3>5 DEF Retries, Resend
    <3>6. CASE Reap(a)
      BY <3>6 DEF Reap, Drop
    <3> QED BY <2>5, <3>1, <3>2, <3>3, <3>4, <3>5, <3>6 DEF Attempt, Progress, Answered
  <2>6. CASE ProbeTask
    BY <2>6 DEF ProbeTask, StartProbe, ProbeAnswered, RecordHealthy, RecordUnhealthy, Capped
  <2>7. CASE Elapse
    BY <2>7 DEF Elapse, WindowElapses, CooldownElapses, TokenExpires, ProbeTimesOut,
                Drop, RecordUnhealthy, Capped
  <2> QED
    BY <2>1, <2>2, <2>3, <2>4, <2>5, <2>6, <2>7
    DEF Next, CallStep, Begin, HookRejects, Finish, vars
<1> QED BY <1>1, <1>2, PTL DEF Spec

-----------------------------------------------------------------------------

(* What a place costs in permits. *)
Held(place) == IF place \in InFlight THEN 1 ELSE 0

(* An attempt goes on, with the permit it takes or gives back; only one    *)
(* that was aborted is dropped, the probe aside.                           *)
Moves(a, place) ==
  /\ at' = [at EXCEPT ![a] = place]
  /\ permits' = permits + Held(at[a]) - Held(place)
  /\ place = "none" /\ a # Probe => a \in aborted
  /\ aborted' = IF place = "none" THEN aborted \ {a} ELSE aborted
  /\ a # Probe => at[a] # "none"

(* Attempts that were aborted are still there. *)
AbortedInv ==
  /\ aborted \subseteq Attempts \ {Probe}
  /\ \A a \in aborted : at[a] # "none"

LEMMA UpstreamMoves ==
  ASSUME UpstreamTypeOK, AbortedInv, Upstream
  PROVE  UNCHANGED <<at, permits, aborted>> \/ \E a \in Attempts, place \in Places : Moves(a, place)
<1> USE DEF UpstreamTypeOK, AbortedInv, Moves, Held, Places, InFlight, Ended, Goto, gate
<1>1. ASSUME NEW a \in Attempts, Wake(a) \/ CountRequest(a) \/ RateLimited(a)
      PROVE  \E place \in Places : Moves(a, place)
  BY <1>1 DEF Wake, CountRequest, RateLimited
<1>2. ASSUME NEW a \in Attempts,
             ReadCooldown(a) \/ ClearCooldown(a) \/ CheckHealth(a) \/ StartCooldown(a)
      PROVE  \E place \in Places : Moves(a, place)
  BY <1>2 DEF ReadCooldown, ClearCooldown, CheckHealth, StartCooldown
<1>3. ASSUME NEW a \in Attempts, Acquire(a) \/ ReadToken(a) \/ LockToken(a) \/ Fetched(a)
      PROVE  \E place \in Places : Moves(a, place)
  BY <1>3 DEF Acquire, ReadToken, LockToken, Fetched
<1>4. ASSUME NEW a \in Attempts, FetchFails(a) \/ Succeeds(a) \/ GivesUp(a) \/ Refused(a)
      PROVE  \E place \in Places : Moves(a, place)
  BY <1>4 DEF FetchFails, Succeeds, GivesUp, Refused, EndCall
<1>5. ASSUME NEW a \in Attempts, Retries(a) \/ Resend(a)
      PROVE  \E place \in Places : Moves(a, place)
  BY <1>5 DEF Retries, Resend
<1>6. ASSUME NEW a \in Attempts, Reap(a)
      PROVE  \E place \in Places : Moves(a, place)
  <2>1. Moves(a, "none")
    BY <1>6 DEF Reap, Drop
  <2> QED BY <2>1
<1>7. CASE StartProbe
  <2>1. Moves(Probe, "permit")
    BY <1>7 DEF StartProbe
  <2> QED BY <2>1
<1>8. CASE ProbeAnswered \/ ProbeTimesOut
  <2>1. Moves(Probe, "none")
    BY <1>8 DEF ProbeAnswered, ProbeTimesOut, Drop
  <2> QED BY <2>1
<1>9. CASE WindowElapses \/ CooldownElapses \/ TokenExpires
  BY <1>9 DEF WindowElapses, CooldownElapses, TokenExpires
<1> HIDE DEF Moves
<1>10. ASSUME NEW a \in Attempts, Attempt(a) PROVE \E place \in Places : Moves(a, place)
  BY <1>1, <1>2, <1>3, <1>4, <1>5, <1>6, <1>10 DEF Attempt, Progress, Answered
<1> QED BY <1>7, <1>8, <1>9, <1>10 DEF Upstream, ProbeTask, Elapse

-----------------------------------------------------------------------------
(* Nobody is left behind.                                                  *)

(* A call that begins finds a place for its first attempt. *)
Room == \A c \in Callers : call[c] = "hooks" => Free(c) # {}

(* With whoever is aborted still there. *)
RaceInv == AbortedInv /\ Room /\ NobodyLeftBehind

(* Sending off moves attempts that were not under way, and nobody else. *)
LEMMA Dispatched ==
  ASSUME UpstreamTypeOK, NEW c \in Callers, Dispatch(c), Free(c) # {}
  PROVE  \A a \in Attempts : at'[a] = at[a]
           \/ (at[a] = "none" /\ a \in Race(c) /\ at'[a] \in {"rate", "delay"})
<1> DEFINE first == CHOOSE a \in Free(c) : TRUE
<1>1. first \in Free(c)
  OBVIOUS
<1>2. PICK hedges \in SUBSET (IF c \in Vetoed THEN {} ELSE Free(c) \ {first}) :
        at' = [a \in Attempts |-> IF a = first THEN "rate"
                                  ELSE IF a \in hedges THEN "delay"
                                  ELSE at[a]]
  BY DEF Dispatch
<1>3. hedges \subseteq Free(c)
  BY <1>2
<1> HIDE DEF first
<1> QED BY <1>1, <1>2, <1>3 DEF Free

(* Nobody comes into a place of a call that has not sent anybody off. *)
LEMMA RoomKept ==
  ASSUME UpstreamTypeOK, CallTypeOK, AbortedInv, Room, [Next]_vars
  PROVE  Room'
<1> SUFFICES ASSUME NEW c \in Callers, call'[c] = "hooks"
             PROVE  \E a \in Race(c) : at'[a] = "none"
  BY DEF Room, Free, Race
<1> USE DEF UpstreamTypeOK, CallTypeOK
<1>1. PICK a \in Race(c) : at[a] = "none"
  BY DEF Room, Free, Next, CallStep, Begin, HookRejects, Dispatch, RaceWon, RaceLost, Finish,
         Cancel, vars, callVars
<1>2. a \in Attempts \ {Probe} /\ \A d \in Callers \ {c} : a \notin Race(d)
  BY Races
<1>3. CASE Upstream
  <2>1. CASE UNCHANGED <<at, permits, aborted>>
    BY <1>1, <2>1
  <2>2. ASSUME NEW b \in Attempts, NEW place \in Places, Moves(b, place)
        PROVE  at'[a] = "none"
    BY <1>1, <1>2, <2>2 DEF Moves
  <2> QED BY <1>1, <1>3, <2>1, <2>2, UpstreamMoves
<1>4. ASSUME NEW d \in Callers, Dispatch(d) PROVE at'[a] = "none"
  <2>1. call[d] = "hooks" /\ d # c
    BY <1>4 DEF Dispatch
  <2>2. Free(d) # {}
    BY <2>1 DEF Room
  <2> QED BY <1>1, <1>2, <1>4, <2>1, <2>2, Dispatched
<1>5. ASSUME NEW d \in Callers, RaceWon(d) \/ RaceLost(d) PROVE at'[a] = "none"
  BY <1>1, <1>2, <1>5 DEF RaceWon, RaceLost, Goto
<1>6. CASE UNCHANGED at
  BY <1>1, <1>6
<1> QED
  BY <1>1, <1>3, <1>4, <1>5, <1>6
  DEF Next, CallStep, Begin, HookRejects, Finish, Cancel, vars, upstream, Upstream

LEMMA RaceInvariance == Spec => []RaceInv
<1>1. Init => RaceInv
  BY Races DEF Init, UpstreamInit, RaceInv, AbortedInv, Room, NobodyLeftBehind
<1>2. ASSUME UpstreamTypeOK, CallTypeOK, RaceInv, [Next]_vars PROVE RaceInv'
  <2> SUFFICES AbortedInv' /\ NobodyLeftBehind'
    BY <1>2, RoomKept DEF RaceInv
  <2> USE <1>2, Races DEF RaceInv, AbortedInv, NobodyLeftBehind, UpstreamTypeOK, CallTypeOK
  <2> \A c \in Callers : Race(c)' = Race(c)
    BY DEF Race
  <2>1. CASE UNCHANGED vars
    BY <2>1 DEF vars, upstream, callVars
  <2>2. CASE Upstream /\ UNCHANGED callVars
    <3>1. CASE UNCHANGED <<at, permits, aborted>>
      BY <2>2, <3>1 DEF callVars
    <3>2. ASSUME NEW a \in Attempts, NEW place \in Places, Moves(a, place) PROVE AbortedInv' /\ NobodyLeftBehind'
      BY <2>2, <3>2 DEF callVars, Moves
    <3> QED BY <2>2, <3>1, <3>2, UpstreamMoves
  <2>3. ASSUME NEW c \in Callers, Begin(c) PROVE AbortedInv' /\ NobodyLeftBehind'
    BY <2>3 DEF Begin, upstream
  <2>4. ASSUME NEW c \in Callers, HookRejects(c) PROVE AbortedInv' /\ NobodyLeftBehind'
    BY <2>4 DEF HookRejects, upstream
  <2>5. ASSUME NEW c \in Callers, Dispatch(c) PROVE AbortedInv' /\ NobodyLeftBehind'
    <3>1. call[c] = "hooks"
      BY <2>5 DEF Dispatch
    <3>2. \A a \in Attempts : at'[a] = at[a]
             \/ (at[a] = "none" /\ a \in Race(c) /\ at'[a] \in {"rate", "delay"})
      BY <2>5, <3>1, Dispatched DEF Room
    <3>3. aborted' = aborted /\ call' = [call EXCEPT ![c] = "racing"]
      BY <2>5 DEF Dispatch
    <3>4. \A d \in Callers \ {c} : \A a \in Race(d) : at'[a] = at[a]
      BY <3>2
    <3> QED BY <3>2, <3>3, <3>4
  <2>6. ASSUME NEW c \in Callers, RaceWon(c) PROVE AbortedInv' /\ NobodyLeftBehind'
    BY <2>6 DEF RaceWon, Joined, Goto
  <2>7. ASSUME NEW c \in Callers, RaceLost(c) PROVE AbortedInv' /\ NobodyLeftBehind'
    BY <2>7 DEF RaceLost, Joined, AllLost
  <2>8. ASSUME NEW c \in Callers, Finish(c) PROVE AbortedInv' /\ NobodyLeftBehind'
    BY <2>8 DEF Finish, upstream
  <2>9. ASSUME NEW c \in Callers, Cancel(c) PROVE AbortedInv' /\ NobodyLeftBehind'
    BY <2>9 DEF Cancel, AbortAll
  <2> QED
    BY <2>1, <2>2, <2>3, <2>4, <2>5, <2>6, <2>7, <2>8, <2>9
    DEF Next, CallStep, Upstream
<1> QED BY <1>1, <1>2, UpstreamTyping, EventInvariance, PTL DEF Spec

(* Nobody works for a call that is over. *)
(* (hedge_race, JoinSet::abort_all) *)
THEOREM NobodyIsLeftBehind == Spec => []NobodyLeftBehind
<1>1. RaceInv => NobodyLeftBehind
  BY DEF RaceInv
<1> QED BY <1>1, RaceInvariance, PTL

-----------------------------------------------------------------------------
(* Permits.                                                                *)

Flying == {a \in Attempts : at[a] \in InFlight}

LEMMA AttemptsFinite ==
  ASSUME IsFiniteSet(Callers)
  PROVE  IsFiniteSet(Attempts)
<1>1. IsFiniteSet(1..MaxAttempts)
  BY FS_Interval
<1>2. IsFiniteSet(Callers \X (1..MaxAttempts))
  BY <1>1, FS_Product
<1> QED BY <1>2, FS_Singleton, FS_Union

(* One attempt's move changes the permits as it changes who flies. *)
LEMMA MovesConserve ==
  ASSUME IsFiniteSet(Attempts), UpstreamTypeOK, PermitsConserved,
         NEW a \in Attempts, NEW place \in Places, Moves(a, place)
  PROVE  PermitsConserved'
<1> DEFINE others == Flying \ {a}
<1>1. IsFiniteSet(Flying) /\ Cardinality(Flying) \in Nat
  BY FS_Subset, FS_CardinalityType DEF Flying
<1>2. IsFiniteSet(others) /\ Cardinality(others) \in Nat /\ a \notin others
  BY <1>1, FS_Subset, FS_CardinalityType
<1>3. \A b \in Attempts : at'[b] = IF b = a THEN place ELSE at[b]
  BY DEF Moves, UpstreamTypeOK
<1>4. Flying = IF at[a] \in InFlight THEN others \cup {a} ELSE others
  BY DEF Flying
<1>5. Flying' = IF place \in InFlight THEN others \cup {a} ELSE others
  BY <1>3 DEF Flying, InFlight
<1>6. Cardinality(others \cup {a}) = Cardinality(others) + 1
  BY <1>2, FS_AddElement
<1>7. \A p : Cardinality(IF p \in InFlight THEN others \cup {a} ELSE others)
              = Cardinality(others) + Held(p)
  <2>1. ASSUME NEW p, p \in InFlight
        PROVE  Cardinality(IF p \in InFlight THEN others \cup {a} ELSE others)
                 = Cardinality(others) + Held(p)
    BY <1>6, <2>1 DEF Held
  <2>2. ASSUME NEW p, p \notin InFlight
        PROVE  Cardinality(IF p \in InFlight THEN others \cup {a} ELSE others)
                 = Cardinality(others) + Held(p)
    BY <1>2, <2>2 DEF Held
  <2> QED BY <2>1, <2>2
<1>8. /\ Cardinality(Flying) = Cardinality(others) + Held(at[a])
      /\ Cardinality(Flying') = Cardinality(others) + Held(place)
  BY <1>4, <1>5, <1>7
<1>9. permits' = permits + Held(at[a]) - Held(place) /\ permits \in Nat
  BY DEF Moves, UpstreamTypeOK
<1>10. permits + Cardinality(Flying) = MaxInFlight
  BY DEF PermitsConserved, Flying
<1>11. permits' + Cardinality(Flying') = MaxInFlight
  BY <1>2, <1>8, <1>9, <1>10 DEF Held
<1> QED BY <1>11 DEF PermitsConserved, Flying

(* A step that lets the same attempts fly. *)
LEMMA SameConserves ==
  ASSUME PermitsConserved, permits' = permits,
         \A a \in Attempts : at'[a] \in InFlight <=> at[a] \in InFlight
  PROVE  PermitsConserved'
<1>1. {a \in Attempts : at[a] \in InFlight} = {a \in Attempts : at[a] \in InFlight}'
  BY DEF InFlight
<1> QED BY <1>1 DEF PermitsConserved

(* The lock on the token is where the fetch is. *)
LEMMA TokenInvariance == Spec => []TokenGuarded
<1>1. Init => TokenGuarded
  BY DEF Init, UpstreamInit, TokenGuarded
<1>2. ASSUME UpstreamTypeOK, RaceInv, TokenGuarded, [Next]_vars PROVE TokenGuarded'
  <2> USE <1>2 DEF UpstreamTypeOK, TokenGuarded, Goto, gate
  <2>1. CASE UNCHANGED upstream
    BY <2>1 DEF upstream
  <2>2. ASSUME NEW c \in Callers, Dispatch(c) PROVE TokenGuarded'
    <3>1. \A a \in Attempts : at'[a] = at[a]
             \/ (at[a] = "none" /\ at'[a] \in {"rate", "delay"})
      BY <2>2, Dispatched DEF RaceInv, Room, Dispatch
    <3> QED BY <2>2, <3>1 DEF Dispatch
  <2>3. ASSUME NEW c \in Callers, RaceWon(c) \/ RaceLost(c) \/ Cancel(c) PROVE TokenGuarded'
    BY <2>3 DEF RaceWon, RaceLost, Cancel
  <2>4. ASSUME NEW a \in Attempts, Attempt(a) PROVE TokenGuarded'
    <3>1. CASE Wake(a) \/ CountRequest(a) \/ RateLimited(a)
      BY <3>1 DEF Wake, CountRequest, RateLimited
    <3>2. CASE ReadCooldown(a) \/ ClearCooldown(a) \/ CheckHealth(a) \/ StartCooldown(a)
      BY <3>2 DEF ReadCooldown, ClearCooldown, CheckHealth, StartCooldown
    <3>3. CASE Acquire(a) \/ ReadToken(a)
      BY <3>3 DEF Acquire, ReadToken
    <3>4. CASE LockToken(a) \/ Fetched(a)
      BY <3>4 DEF LockToken, Fetched
    <3>5. CASE FetchFails(a) \/ Succeeds(a) \/ GivesUp(a) \/ Refused(a)
      BY <3>5 DEF FetchFails, Succeeds, GivesUp, Refused, EndCall
    <3>6. CASE Retries(a) \/ Resend(a)
      BY <3>6 DEF Retries, Resend
    <3>7. CASE Reap(a)
      BY <3>7 DEF Reap, Drop
    <3> QED BY <2>4, <3>1, <3>2, <3>3, <3>4, <3>5, <3>6, <3>7 DEF Attempt, Progress, Answered
  <2>5. CASE ProbeTask
    BY <2>5 DEF ProbeTask, StartProbe, ProbeAnswered, Ended
  <2>6. CASE Elapse
    BY <2>6 DEF Elapse, WindowElapses, CooldownElapses, TokenExpires, ProbeTimesOut, Drop
  <2> QED
    BY <2>1, <2>2, <2>3, <2>4, <2>5, <2>6
    DEF Next, CallStep, Begin, HookRejects, Finish, vars
<1> QED BY <1>1, <1>2, UpstreamTyping, RaceInvariance, PTL DEF Spec

(* Every permit is back when its attempt is, whatever became of it; and    *)
(* with the above: the pieces of a call and what its attempts hold.        *)
(* (InFlightLimitService, hedge_race) *)
THEOREM CallHolds ==
  ASSUME IsFiniteSet(Callers)
  PROVE  Spec => []CallInv
<1>1. Init => PermitsConserved
  <2> SUFFICES ASSUME Init PROVE PermitsConserved
    OBVIOUS
  <2>1. Flying = {}
    BY DEF Init, UpstreamInit, Flying, InFlight
  <2>2. Cardinality(Flying) = 0
    BY <2>1, FS_EmptySet
  <2>3. permits = MaxInFlight
    BY DEF Init, UpstreamInit
  <2> QED BY <2>2, <2>3 DEF PermitsConserved, Flying
<1>2. ASSUME UpstreamTypeOK, RaceInv, PermitsConserved, [Next]_vars
      PROVE  PermitsConserved'
  <2> USE <1>2
  <2>1. CASE Upstream
    <3>1. CASE UNCHANGED <<at, permits, aborted>>
      BY <3>1, SameConserves
    <3>2. ASSUME NEW a \in Attempts, NEW place \in Places, Moves(a, place)
          PROVE  PermitsConserved'
      BY <3>2, AttemptsFinite, MovesConserve
    <3> QED BY <2>1, <3>1, <3>2, UpstreamMoves DEF RaceInv
  <2>2. CASE UNCHANGED <<at, permits>>
    BY <2>2, SameConserves
  <2>3. ASSUME NEW c \in Callers, Dispatch(c) PROVE PermitsConserved'
    <3>1. \A a \in Attempts : at'[a] = at[a]
             \/ (at[a] = "none" /\ at'[a] \in {"rate", "delay"})
      BY <2>3, Dispatched DEF RaceInv, Room, Dispatch
    <3> QED BY <2>3, <3>1, SameConserves DEF Dispatch, InFlight
  <2>4. ASSUME NEW c \in Callers, RaceWon(c) PROVE PermitsConserved'
    <3>1. \A a \in Attempts : at'[a] = at[a] \/ (at[a] = "ok" /\ at'[a] = "none")
      BY <2>4, Races DEF RaceWon, Joined, Goto, UpstreamTypeOK
    <3> QED BY <2>4, <3>1, SameConserves DEF RaceWon, InFlight
  <2>5. ASSUME NEW c \in Callers, RaceLost(c) PROVE PermitsConserved'
    <3>1. \A a \in Attempts : at'[a] = at[a] \/ (at[a] = "failed" /\ at'[a] = "none")
      BY <2>5 DEF RaceLost
    <3> QED BY <2>5, <3>1, SameConserves DEF RaceLost, InFlight
  <2>6. ASSUME NEW c \in Callers,
               Begin(c) \/ HookRejects(c) \/ Finish(c) \/ Cancel(c)
        PROVE  UNCHANGED <<at, permits>>
    BY <2>6 DEF Begin, HookRejects, Finish, Cancel, upstream
  <2> QED
    BY <2>1, <2>2, <2>3, <2>4, <2>5, <2>6
    DEF Next, CallStep, Upstream, vars, upstream
<1>3. UpstreamTypeOK /\ CallTypeOK /\ RaceInv /\ TokenGuarded /\ PermitsConserved => CallInv
  BY DEF CallInv, TypeOK, CallTypeOK, RaceInv
<1> QED
  BY <1>1, <1>2, <1>3, UpstreamTyping, EventInvariance, RaceInvariance, TokenInvariance,
     PTL DEF Spec

-----------------------------------------------------------------------------

(* Who came during the cooldown still stands at the gate, and it lasts. *)
LateInv == CooldownKept /\ (late # {} => cooldown = "fresh")

(* Who comes to the gate during a cooldown gets no further while it lasts.  *)
(* (CooldownService::call) *)
THEOREM CooldownIsKept == Spec => []CooldownKept
<1>1. Init => LateInv
  BY DEF Init, UpstreamInit, LateInv, CooldownKept
<1>2. ASSUME UpstreamTypeOK, RaceInv, LateInv, [Next]_vars PROVE LateInv'
  <2> USE <1>2 DEF UpstreamTypeOK, LateInv, CooldownKept, Goto, gate
  <2>1. CASE UNCHANGED upstream
    BY <2>1 DEF upstream
  <2>2. ASSUME NEW c \in Callers, Dispatch(c) PROVE LateInv'
    <3>1. \A a \in late : at'[a] = at[a]
      BY <2>2, Dispatched DEF RaceInv, Room, Dispatch
    <3> QED BY <2>2, <3>1 DEF Dispatch
  <2>3. ASSUME NEW c \in Callers, RaceWon(c) \/ RaceLost(c) \/ Cancel(c) PROVE LateInv'
    BY <2>3 DEF RaceWon, RaceLost, Cancel
  <2>4. ASSUME NEW a \in Attempts, Attempt(a) PROVE LateInv'
    <3>1. CASE Wake(a) \/ CountRequest(a) \/ RateLimited(a)
      BY <3>1 DEF Wake, CountRequest, RateLimited
    <3>2. CASE ReadCooldown(a)
      BY <3>2 DEF ReadCooldown
    <3>3. CASE ClearCooldown(a) \/ CheckHealth(a) \/ StartCooldown(a)
      BY <3>3 DEF ClearCooldown, CheckHealth, StartCooldown
    <3>4. CASE Acquire(a) \/ ReadToken(a) \/ LockToken(a) \/ Fetched(a)
      BY <3>4 DEF Acquire, ReadToken, LockToken, Fetched
    <3>5. CASE FetchFails(a) \/ Succeeds(a) \/ GivesUp(a) \/ Refused(a)
      BY <3>5 DEF FetchFails, Succeeds, GivesUp, Refused, EndCall
    <3>6. CASE Retries(a) \/ Resend(a)
      BY <3>6 DEF Retries, Resend
    <3>7. CASE Reap(a)
      BY <3>7 DEF Reap, Drop
    <3> QED BY <2>4, <3>1, <3>2, <3>3, <3>4, <3>5, <3>6, <3>7 DEF Attempt, Progress, Answered
  <2>5. CASE ProbeTask
    BY <2>5 DEF ProbeTask, StartProbe, ProbeAnswered, Ended
  <2>6. CASE Elapse
    BY <2>6 DEF Elapse, WindowElapses, CooldownElapses, TokenExpires, ProbeTimesOut, Drop
  <2> QED
    BY <2>1, <2>2, <2>3, <2>4, <2>5, <2>6
    DEF Next, CallStep, Begin, HookRejects, Finish, vars
<1>3. LateInv => CooldownKept
  BY DEF LateInv
<1> QED BY <1>1, <1>2, <1>3, UpstreamTyping, RaceInvariance, PTL DEF Spec

=============================================================================
