-------------------------- MODULE AutoCycleProofs ---------------------------
(***************************************************************************)
(* Proofs about AutoCycle, for any number of credentials and requests, any *)
(* models and cooldowns: a parked credential has its own timer, and a      *)
(* retry goes out elsewhere.                                               *)
(***************************************************************************)
EXTENDS AutoCycle, TLAPS

USE SizeAssumption, CooldownAssumption, AllowedAssumption, RetryAssumption
USE AttemptsAssumption, NoneAssumption

(* A parked credential has a timer that fires when its cooldown is over.   *)
OwnTimer == \A c \in exhausted : timers[c][left[c]] > 0

(* Requests hold credentials of the bucket, and one when they skip or retry. *)
HandleInv ==
  \A r \in Requests :
    /\ handle[r] \in Creds \cup {None}
    /\ pc[r] \in {"skip", "retry"} => handle[r] # None
    /\ pc[r] = "skip" => tries[r] < MaxAttempts

-----------------------------------------------------------------------------
(* The operations of the pool.                                             *)

LEMMA CredsAreSlots == PoolTypeOK => Creds \subseteq Slots
BY DEF PoolTypeOK, Creds, Slots

LEMMA FirstTicks == 0 \in Ticks /\ 1 \in Ticks
BY DEF Ticks

LEMMA CurrentKeeps ==
  ASSUME PoolTypeOK, OwnTimer, NEW c \in Creds, Current(c)
  PROVE  PoolTypeOK' /\ OwnTimer' /\ c \notin exhausted' /\ size' = size
<1> USE CredsAreSlots DEF PoolTypeOK
<1>1. exhausted' = exhausted \ Due /\ timers' = timers /\ size' = size /\ cursor' = c
      /\ left' = Remaining
  BY DEF Current
<1>2. left' \in [Slots -> Ticks] /\ \A d \in exhausted' : left'[d] = left[d]
  BY <1>1, FirstTicks DEF Remaining
<1>3. c \notin exhausted'
  BY <1>1 DEF Current, IsCurrent
<1>4. PoolTypeOK'
  BY <1>1, <1>2 DEF Creds
<1> QED BY <1>1, <1>2, <1>3, <1>4 DEF OwnTimer

LEMMA CursorWraps ==
  ASSUME NEW n \in Nat \ {0}, NEW c \in 0..n-1
  PROVE  (c + 1) % n \in 0..n-1
<1>1. CASE c + 1 < n
  <2>1. (c + 1) % n = c + 1
    BY <1>1
  <2> QED BY <1>1, <2>1
<1>2. CASE c + 1 = n
  <2>1. (c + 1) % n = 0
    BY <1>2
  <2> QED BY <2>1
<1> QED BY <1>1, <1>2

LEMMA MarkKeeps ==
  ASSUME PoolTypeOK, OwnTimer, NEW c \in Creds, NEW cooldown \in Ticks,
         MarkExhausted(c, cooldown)
  PROVE  PoolTypeOK' /\ OwnTimer' /\ size' = size
<1> USE CredsAreSlots DEF PoolTypeOK
<1>1. size \in Nat /\ size > 0 /\ c \in Slots
  BY DEF Creds
<1>2. cursor' \in Slots
  <2>1. size \in Nat \ {0} /\ c \in 0..size-1
    BY <1>1 DEF Creds
  <2>2. cursor' = (c + 1) % size
    BY DEF MarkExhausted
  <2>3. cursor' \in Creds
    BY <2>1, <2>2, CursorWraps DEF Creds
  <2> QED BY <2>3
<1>3. timers' = [timers EXCEPT ![c][cooldown] = @ + 1]
  BY DEF MarkExhausted
<1>4. timers' \in [Slots -> [Ticks -> Nat]]
  BY <1>1, <1>3
<1>5. timers'[c][cooldown] > 0
  BY <1>1, <1>3
<1>6. \A d \in Slots \ {c} : timers'[d] = timers[d]
  BY <1>1, <1>3
<1>7. PoolTypeOK'
  BY <1>1, <1>2, <1>4 DEF MarkExhausted, Creds
<1>8. OwnTimer'
  BY <1>1, <1>5, <1>6 DEF MarkExhausted, OwnTimer
<1> QED BY <1>7, <1>8 DEF MarkExhausted

LEMMA ReactivateKeeps ==
  ASSUME PoolTypeOK, OwnTimer, NEW c \in Creds, Reactivate(c)
  PROVE  PoolTypeOK' /\ OwnTimer' /\ size' = size
<1> USE CredsAreSlots DEF PoolTypeOK
<1>1. timers[c][0] > 0 /\ timers' = [timers EXCEPT ![c][0] = @ - 1] /\ size' = size
      /\ exhausted' = exhausted \ {c} /\ left' = Remaining /\ cursor' = cursor
  BY DEF Reactivate
<1>2. 0 \in Ticks /\ c \in Slots
  BY DEF Ticks
<1>3. timers' \in [Slots -> [Ticks -> Nat]]
  BY <1>1, <1>2
<1>4. left' \in [Slots -> Ticks] /\ \A d \in exhausted' : left'[d] = left[d]
  BY <1>1, <1>2 DEF Remaining
<1>5. \A d \in Slots \ {c} : timers'[d] = timers[d]
  BY <1>1, <1>2
<1>6. PoolTypeOK'
  BY <1>1, <1>3, <1>4 DEF Creds
<1>7. OwnTimer'
  BY <1>1, <1>4, <1>5 DEF OwnTimer
<1> QED BY <1>1, <1>6, <1>7

LEMMA TickKeeps ==
  ASSUME PoolTypeOK, OwnTimer, PoolTick
  PROVE  PoolTypeOK' /\ OwnTimer' /\ size' = size
<1> USE CredsAreSlots, FirstTicks DEF PoolTypeOK
<1>1. \A t \in Ticks : (IF t = 0 THEN 0 ELSE t - 1) \in Ticks
  BY DEF Ticks
<1>2. left' \in [Slots -> Ticks]
  BY <1>1 DEF PoolTick
<1>3. \A t \in Ticks : t < MaxCooldown => t + 1 \in Ticks
  BY DEF Ticks
<1>4. ASSUME NEW count \in [Ticks -> Nat] PROVE Elapse(count) \in [Ticks -> Nat]
  <2>1. \A t \in Ticks : (IF t = 0 THEN count[0] + count[1]
                          ELSE IF t < MaxCooldown THEN count[t + 1] ELSE 0) \in Nat
    BY <1>3
  <2> QED BY <2>1 DEF Elapse
<1>5. timers' \in [Slots -> [Ticks -> Nat]]
  BY <1>4 DEF PoolTick
<1>6. ASSUME NEW c \in exhausted PROVE timers'[c][left'[c]] > 0
  <2>1. c \in Slots /\ timers[c][left[c]] > 0 /\ left[c] \in Ticks
    BY DEF OwnTimer
  <2>2. timers'[c] = Elapse(timers[c]) /\ timers[c] \in [Ticks -> Nat]
        /\ left'[c] = IF left[c] = 0 THEN 0 ELSE left[c] - 1
    BY <2>1 DEF PoolTick
  <2>3. CASE left[c] = 0 \/ left[c] = 1
    <3>1. left'[c] = 0
      BY <2>2, <2>3
    <3>2. Elapse(timers[c])[0] = timers[c][0] + timers[c][1]
      BY DEF Elapse
    <3> QED BY <2>1, <2>2, <2>3, <3>1, <3>2
  <2>4. CASE left[c] # 0 /\ left[c] # 1
    <3>1. left'[c] = left[c] - 1 /\ left'[c] \in Ticks /\ left'[c] # 0
          /\ left'[c] < MaxCooldown /\ left'[c] + 1 = left[c]
      BY <2>1, <2>2, <2>4 DEF Ticks
    <3>2. Elapse(timers[c])[left'[c]] = timers[c][left'[c] + 1]
      BY <3>1 DEF Elapse
    <3> QED BY <2>1, <2>2, <3>1, <3>2
  <2> QED BY <2>3, <2>4
<1> QED BY <1>2, <1>5, <1>6 DEF PoolTick, OwnTimer, Creds

-----------------------------------------------------------------------------
(* The service.                                                            *)

ServiceInv == TypeOK /\ HandleInv /\ RetriesElsewhere

(* A request goes on with a credential of the bucket or none, and to retry *)
(* with another one than it parked; the others may forget theirs.          *)
LEMMA RequestGoesOn ==
  ASSUME ServiceInv, PoolTypeOK', Creds \subseteq Creds', NEW r \in Requests,
         NEW label \in Labels, Goto(r, label),
         NEW h \in Creds \cup {None}, Hold(r, h),
         label \in {"skip", "retry"} => h # None,
         tries' \in [Requests -> 0..MaxAttempts],
         \A q \in Requests \ {r} : tries'[q] = tries[q],
         label = "skip" => tries'[r] < MaxAttempts,
         avoid' \in [Requests -> Slots \cup {None}],
         \A q \in Requests \ {r} : avoid'[q] \in {avoid[q], None},
         label = "retry" => h # avoid'[r]
  PROVE  ServiceInv'
<1> USE CredsAreSlots DEF ServiceInv, TypeOK, HandleInv, RetriesElsewhere, Goto, Hold
<1>1. \A q \in Requests : /\ handle'[q] = IF q = r THEN h ELSE handle[q]
                          /\ pc'[q] = IF q = r THEN label ELSE pc[q]
  OBVIOUS
<1>2. pc' \in [Requests -> Labels] /\ handle' \in [Requests -> Slots \cup {None}]
  OBVIOUS
<1>3. HandleInv' /\ RetriesElsewhere'
  BY <1>1
<1> QED BY <1>2, <1>3

(* What a request parked is forgotten or still parked. *)
LEMMA Forgets ==
  ASSUME TypeOK, StillParked
  PROVE  /\ avoid' \in [Requests -> Slots \cup {None}]
         /\ \A r \in Requests : avoid'[r] \in {avoid[r], None}
         /\ \A r \in Requests : avoid'[r] \in exhausted' \cup {None}
BY DEF TypeOK, StillParked

(* The request is over. *)
LEMMA RequestEnds ==
  ASSUME ServiceInv, PoolTypeOK', Creds \subseteq Creds', NEW r \in Requests, Done(r)
  PROVE  ServiceInv'
<1>1. tries' \in [Requests -> 0..MaxAttempts] /\ avoid' \in [Requests -> Slots \cup {None}]
      /\ \A q \in Requests \ {r} : avoid'[q] \in {avoid[q], None} /\ tries'[q] = tries[q]
  BY DEF Done, ServiceInv, TypeOK
<1>2. Goto(r, "idle") /\ Hold(r, None) /\ "idle" \in Labels
  BY DEF Done, Labels
<1> QED BY <1>1, <1>2, RequestGoesOn

LEMMA Invariance == Spec => [](ServiceInv /\ OwnTimer)
<1>1. Init => ServiceInv /\ OwnTimer
  <2> SUFFICES ASSUME Init PROVE ServiceInv /\ OwnTimer
    OBVIOUS
  <2>1. PoolTypeOK
    BY FirstTicks DEF Init, PoolInit, PoolTypeOK, Slots
  <2> QED
    BY <2>1 DEF Init, PoolInit, ServiceInv, TypeOK, OwnTimer, HandleInv, RetriesElsewhere, Labels
<1>2. ASSUME ServiceInv, OwnTimer, [Next]_vars PROVE ServiceInv' /\ OwnTimer'
  <2> USE <1>2
  <2> PoolTypeOK /\ TypeOK /\ HandleInv /\ RetriesElsewhere
    BY DEF ServiceInv, TypeOK
  <2>1. ASSUME UNCHANGED poolVars
        PROVE  PoolTypeOK' /\ OwnTimer' /\ Creds' = Creds
    BY <2>1 DEF poolVars, PoolTypeOK, OwnTimer, Creds
  <2>2. CASE UNCHANGED vars
    BY <2>1, <2>2 DEF vars, ServiceInv, TypeOK, HandleInv, RetriesElsewhere
  <2>3. CASE Pool
    <3>1. PoolTypeOK' /\ OwnTimer' /\ Creds \subseteq Creds'
      <4>1. CASE AddCredential
        BY <4>1 DEF AddCredential, PoolTypeOK, OwnTimer, Creds
      <4>2. CASE PoolTick
        BY <4>2, TickKeeps DEF Creds
      <4>3. ASSUME NEW c \in Creds, Reactivate(c)
            PROVE  PoolTypeOK' /\ OwnTimer' /\ Creds \subseteq Creds'
        BY <4>3, ReactivateKeeps DEF Creds
      <4> QED BY <2>3, <4>1, <4>2, <4>3 DEF Pool
    <3>2. UNCHANGED <<pc, model, handle, tries>> /\ StillParked
      BY <2>3 DEF Pool
    <3> QED
      BY <3>1, <3>2, Forgets, CredsAreSlots
      DEF ServiceInv, TypeOK, HandleInv, RetriesElsewhere
  <2>4. ASSUME NEW r \in Requests, Begin(r) PROVE ServiceInv' /\ OwnTimer'
    <3>1. Goto(r, "inner") /\ StillParked /\ UNCHANGED tries /\ "inner" \in Labels
      BY <2>4 DEF Begin, Labels
    <3>2. CASE NoCurrent /\ Hold(r, None)
      BY <2>1, <3>1, <3>2, Forgets, RequestGoesOn DEF NoCurrent, TypeOK
    <3>3. ASSUME NEW c \in Creds, Current(c), Hold(r, c) PROVE ServiceInv' /\ OwnTimer'
      <4>1. PoolTypeOK' /\ OwnTimer' /\ Creds' = Creds
        BY <3>3, CurrentKeeps DEF Creds
      <4> QED BY <3>1, <3>3, <4>1, Forgets, RequestGoesOn DEF TypeOK
    <3> QED BY <2>4, <3>2, <3>3 DEF Begin
  <2>5. ASSUME NEW r \in Requests, Rotate(r) PROVE ServiceInv' /\ OwnTimer'
    <3>1. Goto(r, "next") /\ Hold(r, None) /\ UNCHANGED tries /\ "next" \in Labels
      BY <2>5 DEF Rotate, Labels
    <3>2. CASE UNCHANGED <<poolVars, avoid>>
      BY <2>1, <3>1, <3>2, RequestGoesOn DEF TypeOK
    <3>3. ASSUME NEW cooldown \in RetryAfter, handle[r] # None,
                 MarkExhausted(handle[r], cooldown),
                 avoid' = [avoid EXCEPT ![r] = handle[r]]
          PROVE  ServiceInv' /\ OwnTimer'
      <4>1. handle[r] \in Creds /\ cooldown \in Ticks
        BY <3>3 DEF HandleInv
      <4>2. PoolTypeOK' /\ OwnTimer' /\ Creds' = Creds
        BY <3>3, <4>1, MarkKeeps DEF Creds
      <4>3. avoid' \in [Requests -> Slots \cup {None}]
            /\ \A q \in Requests \ {r} : avoid'[q] = avoid[q]
        BY <3>3, <4>1, CredsAreSlots DEF TypeOK
      <4> QED BY <3>1, <4>2, <4>3, RequestGoesOn DEF TypeOK
    <3> QED BY <2>5, <3>2, <3>3 DEF Rotate
  <2>6. ASSUME NEW r \in Requests, Pick(r) PROVE ServiceInv' /\ OwnTimer'
    <3>1. PICK c \in Creds : Current(c) /\ Hold(r, c)
                             /\ Goto(r, IF Serves(c, r) THEN "retry" ELSE "skip")
      BY <2>6 DEF Pick
    <3>2. StillParked /\ UNCHANGED tries /\ tries[r] < MaxAttempts
      BY <2>6 DEF Pick
    <3>3. PoolTypeOK' /\ OwnTimer' /\ Creds' = Creds /\ c \notin exhausted'
      BY <3>1, CurrentKeeps DEF Creds
    <3>4. c # None /\ avoid'[r] # c
      BY <3>2, <3>3, Forgets, CredsAreSlots DEF Slots
    <3>5. \A b \in BOOLEAN : (IF b THEN "retry" ELSE "skip") \in Labels
      BY DEF Labels
    <3> QED BY <3>1, <3>2, <3>3, <3>4, <3>5, Forgets, RequestGoesOn DEF TypeOK
  <2>7. ASSUME NEW r \in Requests, Skip(r) PROVE ServiceInv' /\ OwnTimer'
    <3>1. MarkExhausted(handle[r], 1) /\ handle[r] \in Creds
      BY <2>7 DEF Skip, HandleInv
    <3>2. PoolTypeOK' /\ OwnTimer' /\ Creds' = Creds
      BY <3>1, FirstTicks, MarkKeeps DEF Creds
    <3>3. Goto(r, "next") /\ Hold(r, None) /\ StillParked /\ "next" \in Labels
      BY <2>7 DEF Skip, Labels
    <3>4. tries' \in [Requests -> 0..MaxAttempts]
          /\ \A q \in Requests \ {r} : tries'[q] = tries[q]
      BY <2>7 DEF Skip, TypeOK, HandleInv
    <3> QED BY <3>2, <3>3, <3>4, Forgets, RequestGoesOn
  <2>8. ASSUME NEW r \in Requests, Done(r), UNCHANGED poolVars
        PROVE  ServiceInv' /\ OwnTimer'
    BY <2>1, <2>8, RequestEnds
  <2>9. ASSUME NEW r \in Requests,
               Answer(r) \/ Unavailable(r) \/ Retried(r) \/ Cancel(r)
        PROVE  Done(r) /\ UNCHANGED poolVars
    BY <2>9 DEF Answer, Unavailable, Retried, Cancel, NoCurrent
  <2> QED
    BY <2>2, <2>3, <2>4, <2>5, <2>6, <2>7, <2>8, <2>9 DEF Next, Call
<1> QED BY <1>1, <1>2, PTL DEF Spec

(* A parked credential has a timer that ends its cooldown in time, and no  *)
(* retry goes out on the credential its request parked.                    *)
(* (InMemoryCredentialPool, AutoCycleService::call) *)
THEOREM PoolHolds == Spec => []PoolInv
<1>1. ServiceInv /\ OwnTimer => PoolInv
  <2> SUFFICES ASSUME ServiceInv, OwnTimer, NEW c \in exhausted
               PROVE  \E t \in 0..left[c] : timers[c][t] > 0
    BY DEF PoolInv, ParkedHasTimer, ServiceInv
  <2>1. left[c] \in Nat
    BY CredsAreSlots DEF ServiceInv, TypeOK, PoolTypeOK, Ticks
  <2> QED BY <2>1 DEF OwnTimer
<1> QED BY <1>1, Invariance, PTL

(* A cooldown ends early only by a timer of an earlier parking. *)
(* (mark_exhausted, current) *)
THEOREM EndsEarlyByOlderTimer == Spec => EarlyOnlyByOlderTimer
<1> DEFINE Early ==
      \A c \in exhausted :
        c \notin exhausted' /\ left[c] > 0
          => timers[c][0] > 0 /\ timers'[c][left[c]] > 0
<1>1. ASSUME ServiceInv, OwnTimer, [Next]_vars PROVE Early
  <2> USE <1>1
  <2>1. CASE exhausted \subseteq exhausted'
    BY <2>1
  <2>2. ASSUME NEW c \in Creds, Reactivate(c) PROVE Early
    <3>1. c \in Slots /\ 0 \in Ticks /\ exhausted \subseteq Slots
      BY CredsAreSlots, FirstTicks DEF ServiceInv, TypeOK, PoolTypeOK
    <3>2. \A t \in Ticks \ {0} : timers'[c][t] = timers[c][t]
      BY <2>2, <3>1 DEF Reactivate, ServiceInv, TypeOK, PoolTypeOK
    <3>3. left[c] \in Ticks
      BY <3>1 DEF ServiceInv, TypeOK, PoolTypeOK
    <3> QED BY <2>2, <3>1, <3>2, <3>3 DEF Reactivate, OwnTimer
  <2>3. ASSUME NEW c \in Creds, Current(c) PROVE Early
    BY <2>3 DEF Current, Due
  <2> QED
    BY <2>1, <2>2, <2>3
    DEF Next, Pool, Call, Begin, Answer, Rotate, Pick, Skip, Unavailable, Retried,
        Cancel, NoCurrent, MarkExhausted, AddCredential, PoolTick, vars, poolVars
<1> QED BY <1>1, Invariance, PTL DEF Spec, EarlyOnlyByOlderTimer

=============================================================================
