----------------------------- MODULE ConfigWatch -----------------------------
(***************************************************************************)
(* How a new configuration reaches the watcher                             *)
(* (crates/liter-llm-proxy/src/config/provider.rs): the file's and etcd's  *)
(* ConfigProvider::watch, each a task of its own that sends events into a  *)
(* bounded channel.                                                        *)
(*                                                                         *)
(* A configuration is its revision; some revisions do not parse, or delete *)
(* the key, which the watcher ignores just as well.  The file provider is  *)
(* told of an event and, if it is one of a write, reads the file later; a  *)
(* file replaced by a rename may take the watch with it.  etcd hands over  *)
(* each put under the prefix while a stream is open, of whichever key, and *)
(* a snapshot of the configuration's own key after the stream broke.       *)
(***************************************************************************)
EXTENDS Integers, Sequences, FiniteSets

CONSTANTS
  MaxWrites,  \* bound: revisions written
  Broken,     \* revisions that do not parse or delete the key
  Capacity,   \* of the event channel
  MaxBreaks   \* bound: interruptions of an etcd stream

ASSUME WritesAssumption == MaxWrites \in Nat /\ MaxBreaks \in Nat
ASSUME BrokenAssumption == Broken \subseteq 1..MaxWrites
ASSUME CapacityAssumption == Capacity \in Nat \ {0}

VARIABLES
  kind,      \* which provider this process has
  latest,    \* the last revision of the backend
  written,   \* the revision the file, or the configuration's key, holds
  watched,   \* the file's watch: "yes", or "lost" with the file replaced
  provider,  \* where the provider's task stands
  notices,   \* the backend's events it has not yet taken
  read,      \* the revision it is about to send
  channel,   \* events the watcher has not yet taken
  breaks,    \* interruptions so far
  missed     \* auxiliary: why the last write need not come into force

backend == <<kind, latest, written, watched, breaks>>
watch == <<backend, provider, notices, read, channel, missed>>

Revisions == 0..MaxWrites

(* Events of notify: a write, which the file provider acts on, and others  *)
(* (a rename, a removal, an error).  A put on an etcd stream is a write.   *)
Notices == [event : {"write", "other"}, revision : Revisions]

Notice(event, revision) == [event |-> event, revision |-> revision]

WatchTypeOK ==
  /\ kind \in {"file", "etcd"}
  /\ latest \in Revisions
  /\ written \in Revisions
  /\ watched \in {"yes", "lost"}
  /\ provider \in {"closed", "waiting", "settling", "sending", "snapshot", "resync",
                   "pausing"}
  /\ notices \in Seq(Notices)
  /\ read \in Revisions
  /\ channel \in Seq(Revisions) /\ Len(channel) <= Capacity
  /\ breaks \in 0..MaxBreaks
  /\ missed \in {"no", "unseen", "sibling"}

WatchInit ==
  /\ kind \in {"file", "etcd"}
  /\ latest = 0
  /\ written = 0
  /\ watched = "yes"
  /\ provider = "closed"
  /\ notices = << >>
  /\ read = 0
  /\ channel = << >>
  /\ breaks = 0
  /\ missed = "no"

(* A watch is registered with the file system, or a stream is open. *)
Watching ==
  IF kind = "file" THEN provider # "closed" /\ watched = "yes"
  ELSE provider \in {"waiting", "sending"}

-----------------------------------------------------------------------------
(* Mistakes the properties have to catch; no action below uses them.       *)

(* Nothing is fetched after an interruption. *)
NoSnapshot ==
  /\ provider = "snapshot"
  /\ provider' = "pausing"
  /\ UNCHANGED <<backend, notices, read, channel, missed>>

-----------------------------------------------------------------------------

(* An operator writes the file in place, or puts the configuration's key. *)
Write ==
  /\ latest < MaxWrites
  /\ latest' = latest + 1
  /\ written' = latest + 1
  /\ notices' = IF Watching THEN Append(notices, Notice("write", latest + 1))
                ELSE notices
  /\ missed' = IF Watching \/ provider = "snapshot" THEN "no" ELSE "unseen"
  /\ UNCHANGED <<kind, watched, breaks, provider, read, channel>>

(* The file is replaced by a rename, of which notify reports no write, and *)
(* a watch on the old file ends with it.                                   *)
Replace ==
  /\ kind = "file"
  /\ latest < MaxWrites
  /\ latest' = latest + 1
  /\ written' = latest + 1
  /\ notices' = IF Watching THEN Append(notices, Notice("other", latest + 1))
                ELSE notices
  /\ watched' \in IF Watching THEN {"yes", "lost"} ELSE {watched}
  /\ missed' = "unseen"
  /\ UNCHANGED <<kind, breaks, provider, read, channel>>

(* Another key under the watched prefix is put.  Its value is delivered    *)
(* like that of the configuration's key.                                   *)
PutSibling ==
  /\ kind = "etcd"
  /\ latest < MaxWrites
  /\ latest' = latest + 1
  /\ notices' = IF Watching THEN Append(notices, Notice("write", latest + 1))
                ELSE notices
  /\ missed' = IF Watching /\ latest + 1 \notin Broken THEN "sibling" ELSE missed
  /\ UNCHANGED <<kind, written, watched, breaks, provider, read, channel>>

(* ConfigProvider::watch registers for what is written from now on. *)
OpenWatch ==
  /\ provider = "closed"
  /\ provider' = "waiting"
  /\ UNCHANGED <<backend, notices, read, channel, missed>>

(* The file provider takes an event: after a write it lets the file settle, *)
(* any other it passes over.                                               *)
TakeNotice ==
  /\ kind = "file"
  /\ provider = "waiting" /\ notices # << >>
  /\ notices' = Tail(notices)
  /\ provider' = IF Head(notices).event = "write" THEN "settling" ELSE "waiting"
  /\ UNCHANGED <<backend, read, channel, missed>>

(* Whatever the file holds by then, if it parses. *)
ReadFile ==
  /\ provider = "settling"
  /\ \/ /\ written \notin Broken
        /\ read' = written
        /\ provider' = "sending"
     \/ /\ written \in Broken
        /\ provider' = "waiting"
        /\ UNCHANGED read
  /\ UNCHANGED <<backend, notices, channel, missed>>

(* A put arrives on the etcd stream; its key is not looked at. *)
TakePut ==
  /\ kind = "etcd"
  /\ provider = "waiting" /\ notices # << >>
  /\ notices' = Tail(notices)
  /\ \/ /\ Head(notices).revision \notin Broken
        /\ read' = Head(notices).revision
        /\ provider' = "sending"
     \/ /\ Head(notices).revision \in Broken
        /\ UNCHANGED <<read, provider>>
  /\ UNCHANGED <<backend, channel, missed>>

(* The provider waits for room in the channel.  After a snapshot it pauses. *)
SendEvent ==
  /\ provider \in {"sending", "resync"}
  /\ Len(channel) < Capacity
  /\ channel' = Append(channel, read)
  /\ provider' = IF provider = "sending" THEN "waiting" ELSE "pausing"
  /\ UNCHANGED <<backend, notices, read, missed>>

(* The etcd stream ends; what it had not delivered is gone. *)
Break ==
  /\ kind = "etcd"
  /\ provider = "waiting"
  /\ breaks < MaxBreaks
  /\ breaks' = breaks + 1
  /\ notices' = << >>
  /\ provider' = "snapshot"
  /\ UNCHANGED <<kind, latest, written, watched, read, channel, missed>>

(* The current value of the key is fetched, if that works and it parses. *)
Fetch ==
  /\ provider = "snapshot"
  /\ \/ /\ written \notin Broken
        /\ read' = written
        /\ provider' = "resync"
        /\ missed' = "no"
     \/ /\ missed' = "unseen"
        /\ provider' = "pausing"
        /\ UNCHANGED read
  /\ UNCHANGED <<backend, notices, channel>>

(* A new stream, for what is written from now on. *)
Reopen ==
  /\ provider = "pausing"
  /\ provider' = "waiting"
  /\ UNCHANGED <<backend, notices, read, channel, missed>>

Provide ==
  \/ TakeNotice \/ ReadFile \/ TakePut \/ SendEvent
  \/ Fetch \/ Reopen

=============================================================================
