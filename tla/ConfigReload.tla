---------------------------- MODULE ConfigReload ----------------------------
(***************************************************************************)
(* The config watcher (crates/liter-llm-proxy/src/config/watcher.rs):      *)
(* it takes the events of ConfigWatch and loads them into the stores of    *)
(* ProxyAdmission, while requests are on their way through these.          *)
(***************************************************************************)
EXTENDS ConfigWatch, ProxyAdmission

ASSUME RevisionsAssumption == DOMAIN Rpm = 0..MaxWrites

VARIABLES
  watcher,   \* where the watcher's task stands
  loading    \* the revision it is loading

vars == <<watch, admission, watcher, loading>>

TypeOK ==
  /\ WatchTypeOK
  /\ AdmissionTypeOK
  /\ watcher \in {"opening", "waiting", "retain", "insert", "limits", "budgets",
                  "publish", "stopped"}
  /\ loading \in Revisions

Init ==
  /\ WatchInit
  /\ AdmissionInit
  /\ watcher = "opening"
  /\ loading = 0

Reloading == watcher \in {"retain", "insert", "limits", "budgets", "publish"}

-----------------------------------------------------------------------------
(* Mistakes the properties have to catch; no action below uses them.       *)

(* The new configuration is published first. *)
MasterKeyPublished ==
  /\ watcher = "waiting" /\ channel # << >>
  /\ loading' = Head(channel)
  /\ channel' = Tail(channel)
  /\ master' = Head(channel)
  /\ config' = Head(channel)
  /\ overlap' = [r \in Requests |-> IF pc[r] = "idle" THEN "no" ELSE "yes"]
  /\ watcher' = "retain"
  /\ UNCHANGED <<backend, provider, notices, read, missed, keys, limits,
                 budgets, usage, pc, key, found>>

(* Keys no longer configured stay. *)
RetainAll ==
  /\ watcher = "retain"
  /\ watcher' = "insert"
  /\ UNCHANGED <<watch, admission, loading>>

-----------------------------------------------------------------------------
(* run_watcher and open_watch_stream.                                      *)

OpenStream ==
  /\ watcher = "opening"
  /\ watcher' = "waiting"
  /\ OpenWatch
  /\ UNCHANGED <<admission, loading>>

(* The last attempt fails, or the process shuts down. *)
Stop ==
  /\ watcher \in {"opening", "waiting"}
  /\ watcher' = "stopped"
  /\ UNCHANGED <<watch, admission, loading>>

-----------------------------------------------------------------------------
(* handle_event: KeyStore::reload, update_key_limits, publish.             *)

MasterKey ==
  /\ watcher = "waiting" /\ channel # << >>
  /\ loading' = Head(channel)
  /\ channel' = Tail(channel)
  /\ master' = Head(channel)
  /\ overlap' = [r \in Requests |-> IF pc[r] = "idle" THEN "no" ELSE "yes"]
  /\ watcher' = "retain"
  /\ UNCHANGED <<backend, provider, notices, read, missed, keys, limits,
                 budgets, config, usage, pc, key, found>>

(* The keys go and come one by one, each under the lock of its shard. *)
Retain ==
  /\ watcher = "retain"
  /\ \/ /\ \E k \in keys \ DOMAIN Rpm[loading] : keys' = keys \ {k}
        /\ UNCHANGED watcher
     \/ /\ keys \subseteq DOMAIN Rpm[loading]
        /\ watcher' = "insert"
        /\ UNCHANGED keys
  /\ UNCHANGED <<watch, master, limits, budgets, config, usage, requests, loading>>

InsertKeys ==
  /\ watcher = "insert"
  /\ \/ /\ \E k \in DOMAIN Rpm[loading] \ keys : keys' = keys \cup {k}
        /\ UNCHANGED watcher
     \/ /\ DOMAIN Rpm[loading] \subseteq keys
        /\ watcher' = "limits"
        /\ UNCHANGED keys
  /\ UNCHANGED <<watch, master, limits, budgets, config, usage, requests, loading>>

UpdateKeyLimits ==
  /\ watcher = "limits"
  /\ limits' = loading
  /\ watcher' = "budgets"
  /\ UNCHANGED <<watch, master, keys, budgets, config, usage, requests, loading>>

UpdateBudgets ==
  /\ watcher = "budgets"
  /\ budgets' = loading
  /\ watcher' = "publish"
  /\ UNCHANGED <<watch, master, keys, limits, config, usage, requests, loading>>

Publish ==
  /\ watcher = "publish"
  /\ config' = loading
  /\ watcher' = "waiting"
  /\ UNCHANGED <<watch, master, keys, limits, budgets, usage, requests, loading>>

Load ==
  \/ MasterKey \/ Retain \/ InsertKeys \/ UpdateKeyLimits \/ UpdateBudgets
  \/ Publish

-----------------------------------------------------------------------------

Operate == (Write \/ Replace \/ PutSibling \/ Break) /\ UNCHANGED <<admission, watcher, loading>>

Provider == Provide /\ UNCHANGED <<admission, watcher, loading>>

Serve ==
  /\ \/ \E r \in Requests : Proceed(r) \/ \E k \in Keys : Begin(r, k, Reloading)
     \/ \E k \in Keys : WindowOver(k)
  /\ UNCHANGED <<watch, watcher, loading>>

Next == OpenStream \/ Stop \/ Load \/ Operate \/ Provider \/ Serve

(* The provider's task, its backend and the watcher go on. *)
Fairness == WF_vars(Provider) /\ WF_vars(OpenStream) /\ WF_vars(Load)

Spec == Init /\ [][Next]_vars /\ Fairness

-----------------------------------------------------------------------------

(* Who sees the new configuration sees none of the older keys, limits and    *)
(* budgets: each store is of the configuration published or of the one       *)
(* being loaded, which is published last, and while nothing is being loaded  *)
(* all agree (handle_event's order).                                         *)
PublishedLast ==
  /\ {master, limits, budgets} \subseteq {config, loading}
  /\ ~Reloading => /\ {master, limits, budgets} = {config}
                   /\ keys = DOMAIN Rpm[config]

(* A window counts no more requests, unary and realtime together, than some  *)
(* configuration allowed (check_and_reserve_rpm_tpm).                        *)
CountedWithinLimit ==
  \A k \in Keys : counted[k] > 0 =>
    \E n \in Revisions : k \in DOMAIN Rpm[n] /\ counted[k] <= Rpm[n][k]

(* The stores as a request finds them at any step of a reload. *)
StoresInv == TypeOK /\ PublishedLast /\ CountedWithinLimit

(* A key that is neither in the configuration published nor in one that may  *)
(* be loading lets nobody in, and only a request that met a reload passes    *)
(* without a limit, for which check_and_reserve_rpm_tpm fails open, or is    *)
(* counted against another limit than the one in force, having loaded it     *)
(* before (KeyStore::reload, handle_event): whichever step a reload is at,   *)
(* revoked keys stay out and configured ones stay limited.                   *)
AdmittedAsConfigured ==
  [][\A r \in Requests :
       /\ LetIn(r) => key[r] \in DOMAIN Rpm[config] \cup DOMAIN Rpm[loading]
       /\ NoLimit(r) => overlap[r] = "yes"
       /\ Reserve(r) => \/ overlap[r] = "yes"
                        \/ counted'[key[r]] <= Rpm[limits][key[r]]]_vars

(* The configuration written last is in force in the end, whatever was       *)
(* written while the provider settled, sent or reconnected.  The exceptions  *)
(* are those of the code: it does not parse, it was written where nobody     *)
(* watches or by a rename, another key under the prefix was put after it, or *)
(* the watcher has stopped                                                   *)
(* (FileWatchConfigProvider::watch, etcd_watch_loop, run_watcher).           *)
LastWriteInForce ==
  <>[](config = written \/ written \in Broken \/ missed # "no" \/ watcher = "stopped")

=============================================================================
