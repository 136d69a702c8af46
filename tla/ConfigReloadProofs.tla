------------------------- MODULE ConfigReloadProofs -------------------------
(***************************************************************************)
(* Proofs about ConfigReload, for any configurations, any capacity of the  *)
(* event channel and any number of requests, in whichever order revisions  *)
(* reach the watcher: the stores agree whenever nothing is being loaded,   *)
(* none is behind what is published, and a request is admitted as some     *)
(* configuration of its time allows.                                       *)
(***************************************************************************)
EXTENDS ConfigReload, SequenceTheorems, TLAPS

USE WritesAssumption, CapacityAssumption

(* Which stores are loaded at each step of a reload. *)
StoresInStep ==
  /\ IF Reloading THEN master = loading ELSE loading = config /\ master = config
  /\ limits = IF watcher \in {"budgets", "publish"} THEN loading ELSE config
  /\ budgets = IF watcher = "publish" THEN loading ELSE config
  /\ CASE watcher = "retain" -> keys \subseteq DOMAIN Rpm[config]
       [] watcher = "insert" -> keys \subseteq DOMAIN Rpm[loading]
       [] OTHER -> keys = DOMAIN Rpm[loading]

(* What a request has found on its way. *)
RequestsInv ==
  \A r \in Requests :
    /\ pc[r] # "idle" => key[r] \in Keys
    /\ pc[r] \in {"reserve", "rt reserve"} => key[r] \in DOMAIN Rpm[found[r]]
    /\ pc[r] \in {"reserve", "rt reserve"} /\ overlap[r] = "no" => found[r] = limits
    /\ pc[r] # "idle" /\ overlap[r] = "no" => ~Reloading
    /\ pc[r] \notin {"idle", "auth"} /\ overlap[r] = "no"
         => key[r] \in DOMAIN Rpm[limits]

-----------------------------------------------------------------------------
(* Types.                                                                  *)

LEMMA RevisionsAreInts == Revisions \subseteq Int /\ 0 \in Revisions
                          /\ DOMAIN Rpm = Revisions
BY RevisionsAssumption DEF Revisions

LEMMA WatchTyping == Spec => []WatchTypeOK
<1>1. Init => WatchTypeOK
  BY DEF Init, WatchInit, WatchTypeOK, Revisions
<1>2. ASSUME WatchTypeOK, [Next]_vars PROVE WatchTypeOK'
  <2> USE <1>2 DEF WatchTypeOK
  <2>1. CASE UNCHANGED watch
    BY <2>1 DEF watch, backend
  <2>2. CASE Write \/ Replace \/ PutSibling
    <3>1. latest' \in Revisions /\ written' \in Revisions /\ latest + 1 \in Revisions
      BY <2>2 DEF Write, Replace, PutSibling, Revisions
    <3>2. notices' \in Seq(Notices)
      <4>1. \A event \in {"write", "other"} :
              /\ Notice(event, latest + 1) \in Notices
              /\ Append(notices, Notice(event, latest + 1)) \in Seq(Notices)
        BY <3>1 DEF Notice, Notices
      <4>2. \/ notices' = notices
            \/ \E event \in {"write", "other"} :
                 notices' = Append(notices, Notice(event, latest + 1))
        BY <2>2 DEF Write, Replace, PutSibling
      <4> QED BY <4>1, <4>2
    <3>3. watched' \in {"yes", "lost"} /\ missed' \in {"no", "unseen", "sibling"}
      BY <2>2 DEF Write, Replace, PutSibling
    <3>4. UNCHANGED <<kind, breaks, provider, read, channel>>
      BY <2>2 DEF Write, Replace, PutSibling
    <3> QED BY <3>1, <3>2, <3>3, <3>4
  <2>3. CASE Break
    BY <2>3 DEF Break, Revisions
  <2>4. CASE OpenWatch
    BY <2>4 DEF OpenWatch, backend
  <2>5. CASE TakeNotice
    <3>1. Tail(notices) \in Seq(Notices)
      BY <2>5, HeadTailProperties DEF TakeNotice
    <3> QED BY <2>5, <3>1 DEF TakeNotice, backend
  <2>6. CASE ReadFile
    BY <2>6 DEF ReadFile, backend
  <2>7. CASE TakePut
    <3>1. Head(notices).revision \in Revisions /\ Tail(notices) \in Seq(Notices)
      <4>1. Head(notices) \in Notices /\ Tail(notices) \in Seq(Notices)
        BY <2>7, HeadTailProperties DEF TakePut
      <4>2. \A n \in Notices : n.revision \in Revisions
        BY DEF Notices
      <4> QED BY <4>1, <4>2
    <3> QED BY <2>7, <3>1 DEF TakePut, backend
  <2>8. CASE SendEvent
    BY <2>8 DEF SendEvent, backend
  <2>9. CASE Fetch
    BY <2>9 DEF Fetch, backend
  <2>10. CASE Reopen
    BY <2>10 DEF Reopen, backend
  <2>11. CASE MasterKey
    <3>1. Tail(channel) \in Seq(Revisions) /\ Len(Tail(channel)) <= Capacity
      BY <2>11, HeadTailProperties DEF MasterKey
    <3> QED BY <2>11, <3>1 DEF MasterKey, backend
  <2>12. CASE Load /\ ~MasterKey
    BY <2>1, <2>12
       DEF Load, Retain, InsertKeys, UpdateKeyLimits, UpdateBudgets, Publish
  <2> QED
    BY <2>1, <2>2, <2>3, <2>4, <2>5, <2>6, <2>7, <2>8, <2>9, <2>10, <2>11, <2>12
       DEF Next, OpenStream, Stop, Operate, Provider, Provide, Serve, vars
<1> QED BY <1>1, <1>2, PTL DEF Spec

LEMMA Typing == Spec => []TypeOK
<1>1. Init => TypeOK
  <2>1. Init => WatchTypeOK
    BY DEF Init, WatchInit, WatchTypeOK, Revisions
  <2>2. Init => AdmissionTypeOK
    BY RevisionsAreInts, RpmAssumption, BudgetAssumption
       DEF Init, AdmissionInit, AdmissionTypeOK, Labels
  <2> QED BY <2>1, <2>2, RevisionsAreInts DEF Init, TypeOK
<1>2. ASSUME TypeOK, WatchTypeOK', [Next]_vars PROVE TypeOK'
  <2> USE <1>2, RevisionsAreInts DEF TypeOK, AdmissionTypeOK
  <2>1. CASE UNCHANGED <<admission, watcher, loading>>
    BY <2>1 DEF admission, stores, usage, requests
  <2>2. CASE OpenStream \/ Stop
    BY <2>2 DEF OpenStream, Stop, admission, stores, usage, requests
  <2>3. CASE MasterKey
    <3>1. Head(channel) \in Revisions
      BY <2>3, HeadTailProperties DEF MasterKey, WatchTypeOK
    <3>2. overlap' \in [Requests -> {"yes", "no"}]
      BY <2>3 DEF MasterKey
    <3>3. AdmissionTypeOK'
      BY <2>3, <3>1, <3>2 DEF MasterKey, usage
    <3> QED BY <2>3, <3>1, <3>3 DEF MasterKey
  <2>4. CASE Retain \/ InsertKeys
    BY <2>4, RpmAssumption DEF Retain, InsertKeys, usage, requests
  <2>5. CASE UpdateKeyLimits \/ UpdateBudgets \/ Publish
    BY <2>5 DEF UpdateKeyLimits, UpdateBudgets, Publish, usage, requests
  <2>6. ASSUME NEW r \in Requests, NEW k \in Keys, Begin(r, k, Reloading)
        PROVE  AdmissionTypeOK'
    BY <2>6 DEF Begin, stores, usage, Labels
  <2>7. ASSUME NEW r \in Requests, LetIn(r) \/ WithinBudget(r) \/ NoLimit(r)
        PROVE  AdmissionTypeOK'
    <3>1. PICK label \in Labels : Goto(r, label)
      BY <2>7 DEF LetIn, WithinBudget, NoLimit, Labels
    <3>2. UNCHANGED <<stores, usage>>
      BY <2>7 DEF LetIn, WithinBudget, NoLimit
    <3> QED BY <3>1, <3>2 DEF Goto, stores, usage
  <2>8. ASSUME NEW r \in Requests, Done(r), UNCHANGED <<stores, usage>>
        PROVE  AdmissionTypeOK'
    BY <2>8 DEF Done, stores, usage, Labels
  <2>9. ASSUME NEW r \in Requests, LoadLimit(r) PROVE AdmissionTypeOK'
    BY <2>9 DEF LoadLimit, stores, usage, Labels
  <2>10. ASSUME NEW r \in Requests, Reserve(r) PROVE AdmissionTypeOK'
    <3>1. counted' \in [Keys -> Nat]
      <4>1. counted' = [counted EXCEPT ![key[r]] = @ + 1]
        BY <2>10 DEF Reserve
      <4>2. CASE key[r] \in Keys
        BY <4>1, <4>2
      <4>3. CASE key[r] \notin Keys
        BY <4>1, <4>3
      <4> QED BY <4>2, <4>3
    <3>2. pc' \in [Requests -> Labels]
      BY <2>10 DEF Reserve, Goto, Labels
    <3> QED BY <2>10, <3>1, <3>2 DEF Reserve, Goto, stores
  <2>11. ASSUME NEW r \in Requests, Answered(r) PROVE AdmissionTypeOK'
    <3>1. spent' \in [Keys -> 0..Budget]
      <4>1. \/ spent' = spent
            \/ spent[key[r]] < Budget /\ spent' = [spent EXCEPT ![key[r]] = @ + 1]
        BY <2>11 DEF Answered
      <4>2. CASE spent[key[r]] < Budget /\ spent' = [spent EXCEPT ![key[r]] = @ + 1]
        <5>1. spent' = [k \in Keys |-> IF k = key[r] THEN spent[k] + 1 ELSE spent[k]]
          BY <4>2
        <5>2. \A k \in Keys : k = key[r] => spent[k] + 1 \in 0..Budget
          BY <4>2, BudgetAssumption
        <5> QED BY <5>1, <5>2
      <4> QED BY <4>1, <4>2
    <3>2. pc' \in [Requests -> Labels]
      BY <2>11 DEF Answered, Done, Labels
    <3> QED BY <2>11, <3>1, <3>2 DEF Answered, Done, stores
  <2>12. ASSUME NEW k \in Keys, WindowOver(k) PROVE AdmissionTypeOK'
    BY <2>12 DEF WindowOver, stores, requests
  <2>13. CASE Serve
    <3>1. AdmissionTypeOK'
      BY <2>13, <2>6, <2>7, <2>8, <2>9, <2>10, <2>11, <2>12
         DEF Serve, Proceed, Unauthorized, BudgetExceeded, RateLimited, Upgraded
    <3> QED BY <2>13, <3>1 DEF Serve
  <2> QED
    BY <2>1, <2>2, <2>3, <2>4, <2>5, <2>13 DEF Next, Load, Operate, Provider, vars
<1> QED BY <1>1, <1>2, WatchTyping, PTL DEF Spec, TypeOK

-----------------------------------------------------------------------------
(* The stores and the requests that pass them.                             *)

LEMMA ServeKeepsStores == Serve => UNCHANGED <<stores, watch, watcher, loading>>
BY DEF Serve, Proceed, Begin, LetIn, Unauthorized, WithinBudget, BudgetExceeded,
       LoadLimit, NoLimit, Reserve, RateLimited, Upgraded, Answered, WindowOver

(* Every step of a reload finds the stores as the one before left them.    *)
(* (handle_event)                                                          *)
LEMMA StoresFollow == Spec => []StoresInStep
<1> USE DEF StoresInStep, Reloading
<1>1. Init => StoresInStep
  BY DEF Init, AdmissionInit
<1>2. ASSUME StoresInStep, [Next]_vars PROVE StoresInStep'
  <2> USE <1>2
  <2>1. CASE UNCHANGED <<stores, watcher, loading>>
    BY <2>1 DEF stores
  <2>2. CASE OpenStream \/ Stop
    BY <2>2 DEF OpenStream, Stop, admission, stores
  <2>3. CASE MasterKey
    BY <2>3 DEF MasterKey
  <2>4. CASE Retain
    BY <2>4 DEF Retain
  <2>5. CASE InsertKeys
    BY <2>5 DEF InsertKeys
  <2>6. CASE UpdateKeyLimits \/ UpdateBudgets
    BY <2>6 DEF UpdateKeyLimits, UpdateBudgets
  <2>7. CASE Publish
    BY <2>7 DEF Publish
  <2>8. CASE Operate \/ Provider \/ UNCHANGED vars
    BY <2>1, <2>8 DEF Operate, Provider, admission, vars
  <2>9. CASE Serve
    BY <2>1, <2>9, ServeKeepsStores
  <2> QED BY <2>2, <2>3, <2>4, <2>5, <2>6, <2>7, <2>8, <2>9 DEF Next, Load
<1> QED BY <1>1, <1>2, PTL DEF Spec

(* A request that met no reload meets limits that know its key.            *)
(* (validate_api_key, check_and_reserve_rpm_tpm)                           *)
LEMMA RequestsKept == Spec => []RequestsInv
<1>1. Init => RequestsInv
  BY DEF Init, AdmissionInit, RequestsInv
<1>2. ASSUME TypeOK, StoresInStep, StoresInStep', RequestsInv, [Next]_vars
      PROVE  RequestsInv'
  <2> USE <1>2 DEF TypeOK, AdmissionTypeOK
  <2>1. CASE UNCHANGED requests /\ UNCHANGED limits /\ Reloading' = Reloading
    BY <2>1 DEF requests, RequestsInv
  <2>2. CASE UNCHANGED requests /\ Reloading
    BY <2>2 DEF requests, RequestsInv
  <2>3. CASE OpenStream \/ Stop \/ Operate \/ Provider \/ UNCHANGED vars
    BY <2>1, <2>3
       DEF OpenStream, Stop, Operate, Provider, admission, stores, vars, Reloading
  <2>4. CASE MasterKey
    BY <2>4 DEF MasterKey, RequestsInv
  <2>5. CASE Load /\ ~MasterKey
    BY <2>2, <2>5 DEF Load, Retain, InsertKeys, UpdateKeyLimits, UpdateBudgets,
                      Publish, Reloading
  <2>6. CASE Serve
    <3>1. UNCHANGED <<limits, watcher, loading>>
      BY <2>6, ServeKeepsStores DEF stores
    <3>2. ASSUME NEW r \in Requests, NEW k \in Keys, Begin(r, k, Reloading)
          PROVE  RequestsInv'
      BY <3>1, <3>2 DEF Begin, RequestsInv, Reloading
    <3>3. ASSUME NEW r \in Requests, Done(r) PROVE RequestsInv'
      BY <3>1, <3>3 DEF Done, RequestsInv, Reloading
    <3>4. ASSUME NEW r \in Requests, LetIn(r) PROVE RequestsInv'
      <4>1. ~Reloading => key[r] \in DOMAIN Rpm[limits]
        BY <3>4 DEF LetIn, StoresInStep, Reloading
      <4> QED BY <3>1, <3>4, <4>1 DEF LetIn, Goto, RequestsInv, Reloading
    <3>5. ASSUME NEW r \in Requests, WithinBudget(r) \/ NoLimit(r)
          PROVE  RequestsInv'
      BY <3>1, <3>5 DEF WithinBudget, NoLimit, Goto, RequestsInv, Reloading
    <3>6. ASSUME NEW r \in Requests, LoadLimit(r) PROVE RequestsInv'
      BY <3>1, <3>6 DEF LoadLimit, InForce, RequestsInv, Reloading
    <3>7. ASSUME NEW r \in Requests, Reserve(r) PROVE RequestsInv'
      BY <3>1, <3>7 DEF Reserve, Goto, RequestsInv, Reloading
    <3>8. ASSUME NEW k \in Keys, WindowOver(k) PROVE RequestsInv'
      BY <3>1, <3>8, <2>1 DEF WindowOver, Reloading
    <3> QED
      BY <2>6, <3>2, <3>3, <3>4, <3>5, <3>6, <3>7, <3>8
         DEF Serve, Proceed, Unauthorized, BudgetExceeded, RateLimited, Upgraded, Answered
  <2> QED BY <2>3, <2>4, <2>5, <2>6 DEF Next, Load
<1> QED BY <1>1, <1>2, Typing, StoresFollow, PTL DEF Spec

(* No window counts beyond the limit its request has loaded.               *)
(* (check_and_reserve_rpm_tpm)                                             *)
LEMMA WindowsKept == Spec => []CountedWithinLimit
<1>1. Init => CountedWithinLimit
  BY DEF Init, AdmissionInit, CountedWithinLimit
<1>2. ASSUME TypeOK, RequestsInv, CountedWithinLimit, [Next]_vars
      PROVE  CountedWithinLimit'
  <2> USE <1>2 DEF TypeOK, AdmissionTypeOK
  <2>1. CASE UNCHANGED counted
    BY <2>1 DEF CountedWithinLimit
  <2>2. ASSUME NEW r \in Requests, Reserve(r) PROVE CountedWithinLimit'
    <3> DEFINE q == key[r]
               n == found[r]
    <3>1. q \in DOMAIN Rpm[n] /\ n \in Revisions /\ q \in Keys
      BY <2>2, RevisionsAreInts DEF Reserve, RequestsInv
    <3>2. Rpm[n][q] \in Nat /\ counted[q] \in Nat
      BY <3>1, RpmAssumption, RevisionsAreInts
    <3>3. counted' = [counted EXCEPT ![q] = @ + 1] /\ ~(counted[q] >= Rpm[n][q])
      BY <2>2 DEF Reserve, Full
    <3>4. counted'[q] <= Rpm[n][q]
      BY <3>1, <3>2, <3>3
    <3>5. \A k \in Keys \ {q} : counted'[k] = counted[k]
      BY <3>1, <3>3
    <3> QED BY <3>1, <3>4, <3>5 DEF CountedWithinLimit
  <2>3. ASSUME NEW k \in Keys, WindowOver(k) PROVE CountedWithinLimit'
    BY <2>3 DEF WindowOver, CountedWithinLimit
  <2>4. CASE Serve
    BY <2>1, <2>2, <2>3, <2>4
       DEF Serve, Proceed, Begin, LetIn, Unauthorized, WithinBudget, BudgetExceeded,
           LoadLimit, NoLimit, RateLimited, Upgraded, Answered, usage
  <2>5. CASE Load
    BY <2>1, <2>5 DEF Load, MasterKey, Retain, InsertKeys, UpdateKeyLimits,
                      UpdateBudgets, Publish, usage
  <2> QED BY <2>1, <2>4, <2>5
          DEF Next, OpenStream, Stop, Operate, Provider, vars, admission, usage
<1> QED BY <1>1, <1>2, Typing, RequestsKept, PTL DEF Spec

-----------------------------------------------------------------------------

(* No reader finds the published configuration ahead of a store, or two    *)
(* stores apart while nothing is loading, and no window counts more than   *)
(* some configuration allowed, for any configurations and any timing.      *)
(* (run_watcher, handle_event, KeyStore::reload, check_and_reserve_rpm_tpm) *)
THEOREM StoresInvariance == Spec => []StoresInv
<1>1. StoresInStep => PublishedLast
  BY DEF StoresInStep, PublishedLast, Reloading
<1> QED BY <1>1, Typing, StoresFollow, WindowsKept, PTL DEF StoresInv

(* Whichever step a reload is at, a key gets in only if it is configured,  *)
(* and passes without a limit, or against one not in force, only if its    *)
(* request met a reload.                                                   *)
(* (KeyStore::reload, handle_event, check_and_reserve_rpm_tpm)             *)
THEOREM AdmissionAsConfigured == Spec => AdmittedAsConfigured
<1> DEFINE Admitted(r) ==
      /\ LetIn(r) => key[r] \in DOMAIN Rpm[config] \cup DOMAIN Rpm[loading]
      /\ NoLimit(r) => overlap[r] = "yes"
      /\ Reserve(r) => \/ overlap[r] = "yes"
                       \/ counted'[key[r]] <= Rpm[limits][key[r]]
<1>1. ASSUME TypeOK, StoresInStep, RequestsInv, NEW r \in Requests
      PROVE  Admitted(r)
  <2>1. LetIn(r) => key[r] \in DOMAIN Rpm[config] \cup DOMAIN Rpm[loading]
    BY <1>1 DEF LetIn, StoresInStep
  <2>2. overlap[r] \in {"yes", "no"}
    BY <1>1 DEF TypeOK, AdmissionTypeOK
  <2>3. ASSUME NoLimit(r) PROVE overlap[r] = "yes"
    <3>1. pc[r] \notin {"idle", "auth"} /\ key[r] \notin DOMAIN Rpm[limits]
      BY <2>3 DEF NoLimit, InForce
    <3> QED BY <1>1, <2>2, <3>1 DEF RequestsInv
  <2>4. ASSUME Reserve(r), overlap[r] # "yes"
        PROVE  counted'[key[r]] <= Rpm[limits][key[r]]
    <3>1. overlap[r] = "no" /\ pc[r] \in {"reserve", "rt reserve"}
      BY <2>2, <2>4 DEF Reserve
    <3>2. /\ found[r] = limits /\ key[r] \in Keys
          /\ limits \in DOMAIN Rpm /\ key[r] \in DOMAIN Rpm[limits]
      BY <1>1, <3>1 DEF RequestsInv, TypeOK, AdmissionTypeOK
    <3>3. Rpm[limits][key[r]] \in Nat /\ counted[key[r]] \in Nat
      BY <1>1, <3>2, RpmAssumption DEF TypeOK, AdmissionTypeOK
    <3>4. counted' = [counted EXCEPT ![key[r]] = @ + 1]
          /\ ~(counted[key[r]] >= Rpm[limits][key[r]])
      BY <2>4, <3>2 DEF Reserve, Full
    <3>5. counted'[key[r]] = counted[key[r]] + 1
      BY <1>1, <3>2, <3>4 DEF TypeOK, AdmissionTypeOK
    <3> QED BY <3>3, <3>4, <3>5
  <2> QED BY <2>1, <2>3, <2>4
<1>2. TypeOK /\ StoresInStep /\ RequestsInv /\ [Next]_vars =>
        [\A r \in Requests : Admitted(r)]_vars
  BY <1>1
<1> QED BY <1>2, Typing, StoresFollow, RequestsKept, PTL DEF Spec, AdmittedAsConfigured

=============================================================================
