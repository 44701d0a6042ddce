------------------------------- MODULE HostKeys -------------------------------
(***************************************************************************)
(* The check of a server's key in a handshake (session/connect.rs) and the *)
(* store of pinned keys behind it (known_hosts.rs).                        *)
(*                                                                         *)
(* The runtime has one thread, so from the look at the store to the first  *)
(* await a handshake is one step: under `tofu` a key is found unknown and  *)
(* pinned in memory at once.  The file follows: under a lock a snapshot is *)
(* taken and handed to a blocking thread, which writes it beside the file  *)
(* and renames it over the file.  A handshake dropped at its timeout lets  *)
(* the lock go; the thread does not stop for that.                         *)
(***************************************************************************)
EXTENDS FiniteSets

CONSTANTS
  Handshakes,
  Aliases, Endpoints, \* host names, and `addr:port`
  Keys,
  AliasOf, EndpointOf, \* of each handshake
  ConfigKeys,         \* `known_host_fingerprint` of each alias over time
  Legacy,             \* pins by alias, from files older than 0.2.0
  ModesFor            \* `strict_host_key_checking` when each alias connects

NoKey == "no key"
NoOne == "nobody"
Unpinned == [x \in Aliases \cup Endpoints |-> NoKey]
Whole(p) == [state |-> "whole", pins |-> p]
Torn == [state |-> "torn", pins |-> Unpinned]
Absent == [state |-> "absent", pins |-> Unpinned]
Start == [x \in Aliases \cup Endpoints |-> IF x \in Aliases THEN Legacy[x] ELSE NoKey]

ASSUME HostKeysAssumption ==
  /\ Aliases \cap Endpoints = {} /\ NoKey \notin Keys /\ NoOne \notin Handshakes
  /\ AliasOf \in [Handshakes -> Aliases] /\ EndpointOf \in [Handshakes -> Endpoints]
  /\ ConfigKeys \in [Aliases -> SUBSET (Keys \cup {NoKey})] /\ Legacy \in [Aliases -> Keys \cup {NoKey}]
  /\ ModesFor \in [Aliases -> SUBSET {"off", "strict", "tofu"}]

VARIABLES
  up,       \* the process runs
  pins,     \* the store in memory
  file,     \* known_hosts.toml
  tmp,      \* the file beside it
  lock,     \* who holds `flush_lock`
  pc,       \* where each handshake is
  key,      \* the key its server sent, while it is not refused
  by,       \* what accepted it: "config", "off", "pin", "legacy" or "new"
  snapshot, \* what each one's thread writes
  thread,   \* the state of that thread
  dropped,  \* a handshake timed out while its thread was at work
  current   \* the handshakes since the process started

store == <<pins, file, tmp, lock>>
flushing == <<snapshot, thread, dropped>>
vars == <<up, store, pc, key, by, flushing, current>>

Goto(h, to) == pc' = [pc EXCEPT ![h] = to]
Accept(h, why) == Goto(h, "accepted") /\ by' = [by EXCEPT ![h] = why]
Refuse(h) == Goto(h, "refused") /\ UNCHANGED by

-----------------------------------------------------------------------------
(* `check_server_key` and `KnownHostsStore::check`.                        *)

Pin(h) == pins[EndpointOf[h]]
Old(h) == pins[AliasOf[h]]

Pinned(h, k, pin, why) == (pin = k /\ Accept(h, why)) \/ (pin # k /\ Refuse(h))

(* Variant: keys are pinned by alias, as before 0.2.0. *)
AddPinByAlias(h, k) ==
  /\ pins' = [pins EXCEPT ![AliasOf[h]] = k]
  /\ Goto(h, "lock") /\ UNCHANGED by

(* `add`: the endpoint is pinned, the alias' old entry goes.               *)
AddPin(h, k) ==
  /\ pins' = [pins EXCEPT ![EndpointOf[h]] = k, ![AliasOf[h]] = NoKey]
  /\ Goto(h, "lock") /\ UNCHANGED by

CheckKey(h) ==
  /\ up /\ pc[h] = "idle"
  /\ \E k \in Keys, mode \in ModesFor[AliasOf[h]], expected \in ConfigKeys[AliasOf[h]] :
       /\ \/ /\ expected # NoKey /\ Pinned(h, k, expected, "config") /\ UNCHANGED pins
          \/ /\ expected = NoKey /\ mode = "off" /\ Accept(h, "off") /\ UNCHANGED pins
          \/ /\ expected = NoKey /\ mode # "off"
             /\ \/ Pin(h) # NoKey /\ Pinned(h, k, Pin(h), "pin") /\ UNCHANGED pins
                \/ Pin(h) = NoKey /\ Old(h) # NoKey /\ Pinned(h, k, Old(h), "legacy") /\ UNCHANGED pins
                \/ Pin(h) = NoKey /\ Old(h) = NoKey /\ mode = "strict" /\ Refuse(h) /\ UNCHANGED pins
                \/ Pin(h) = NoKey /\ Old(h) = NoKey /\ mode = "tofu" /\ AddPin(h, k)
       /\ key' = [key EXCEPT ![h] = IF pc'[h] # "refused" THEN k ELSE NoKey]
       /\ current' = current \cup {h}
  /\ UNCHANGED <<up, file, tmp, lock, flushing>>

-----------------------------------------------------------------------------
(* `flush`.                                                                *)

(* Variant: the snapshot is taken before the lock. *)
SnapshotUnlocked(h) ==
  /\ up /\ UNCHANGED <<up, pins, file, tmp, key, by, dropped, current>>
  /\ \/ /\ pc[h] = "lock" /\ Goto(h, "wait") /\ UNCHANGED <<lock, thread>>
        /\ snapshot' = [snapshot EXCEPT ![h] = pins]
     \/ /\ pc[h] = "wait" /\ lock = NoOne /\ lock' = h /\ Goto(h, "flush")
        /\ thread' = [thread EXCEPT ![h] = "open"] /\ UNCHANGED snapshot

Snapshot(h) ==
  /\ up /\ pc[h] = "lock" /\ lock = NoOne
  /\ lock' = h /\ Goto(h, "flush")
  /\ snapshot' = [snapshot EXCEPT ![h] = pins]
  /\ thread' = [thread EXCEPT ![h] = "open"]
  /\ UNCHANGED <<up, pins, file, tmp, key, by, dropped, current>>

Step(h, to) == thread' = [thread EXCEPT ![h] = to] /\ UNCHANGED snapshot

(* Nobody waits for the thread of a dropped handshake. *)
Ends(h, how) ==
  /\ thread' = [thread EXCEPT ![h] = IF pc[h] = "flush" THEN how ELSE "none"]
  /\ snapshot' = [snapshot EXCEPT ![h] = Unpinned]

(* `fs::write` truncates the file beside, and fills what it opened: that,  *)
(* or the file itself once another thread renamed it over.                 *)
Truncate(h) ==
  /\ thread[h] = "open" /\ Step(h, "write") /\ tmp' = Torn
  /\ UNCHANGED <<up, pins, file, lock, pc, key, by, dropped, current>>

Fill(h) ==
  /\ thread[h] = "write" /\ Step(h, "rename")
  /\ \/ tmp # Absent /\ tmp' = Whole(snapshot[h]) /\ UNCHANGED file
     \/ tmp = Absent /\ file' = Whole(snapshot[h]) /\ UNCHANGED tmp
  /\ UNCHANGED <<up, pins, lock, pc, key, by, dropped, current>>

Rename(h) ==
  /\ thread[h] = "rename"
  /\ \/ tmp # Absent /\ file' = tmp /\ tmp' = Absent /\ Ends(h, "done")
     \/ tmp = Absent /\ Ends(h, "failed") /\ UNCHANGED <<file, tmp>>
  /\ UNCHANGED <<up, pins, lock, pc, key, by, dropped, current>>

(* The disk is full, the directory is not writable, the rename is refused. *)
DiskFails(h) ==
  /\ thread[h] \in {"open", "write", "rename"} /\ Ends(h, "failed")
  /\ UNCHANGED <<up, store, pc, key, by, dropped, current>>

Unlock(h) == lock' = NoOne

(* The handshake goes on when its thread is done; a pin that could not be  *)
(* written refuses it, and stays in memory.                                *)
Flushed(h) ==
  /\ up /\ pc[h] = "flush" /\ thread[h] \in {"done", "failed"} /\ Unlock(h)
  /\ Step(h, "none")
  /\ \/ thread[h] = "done" /\ Accept(h, "new")
     \/ thread[h] = "failed" /\ Refuse(h)
  /\ UNCHANGED <<up, pins, file, tmp, key, dropped, current>>

(* `connect_timeout` drops `client::connect`.  Whether the handler goes    *)
(* with it is russh's affair: here it may, and may also go on.             *)
TimeOut(h) ==
  /\ up /\ pc[h] \in {"lock", "flush"} /\ Refuse(h) /\ key' = [key EXCEPT ![h] = NoKey]
  /\ lock' = IF lock = h THEN NoOne ELSE lock
  /\ dropped' = (dropped \/ pc[h] = "flush")
  /\ UNCHANGED <<up, pins, file, tmp, snapshot, thread, current>>

(* The process dies with its threads.  The next one reads the file, or     *)
(* refuses to start on a torn one (`open_or_create`); its handshakes are   *)
(* new.                                                                    *)
Crash ==
  /\ up /\ up' = FALSE
  /\ thread' = [h \in Handshakes |-> "none"] /\ lock' = NoOne
  /\ snapshot' = [h \in Handshakes |-> Unpinned]
  /\ UNCHANGED <<pins, file, tmp, pc, key, by, dropped, current>>

OpenOrCreate ==
  /\ ~up /\ file # Torn /\ up' = TRUE
  /\ pins' = file.pins /\ current' = {}
  /\ pc' = [h \in Handshakes |-> IF pc[h] \in {"lock", "flush", "wait"} THEN "idle" ELSE pc[h]]
  /\ UNCHANGED <<file, tmp, lock, key, by, flushing>>

Init ==
  /\ up = TRUE /\ pins = Start /\ file = Whole(Start) /\ tmp = Absent /\ current = {}
  /\ lock = NoOne
  /\ pc = [h \in Handshakes |-> "idle"]
  /\ key = [h \in Handshakes |-> NoKey]
  /\ by = [h \in Handshakes |-> "none"]
  /\ snapshot = [h \in Handshakes |-> Unpinned]
  /\ thread = [h \in Handshakes |-> "none"] /\ dropped = FALSE

Next ==
  \/ \E h \in Handshakes :
       \/ CheckKey(h) \/ Snapshot(h) \/ Truncate(h) \/ Fill(h) \/ Rename(h) \/ DiskFails(h)
       \/ Flushed(h) \/ TimeOut(h)
  \/ Crash \/ OpenOrCreate

Spec == Init /\ [][Next]_vars

-----------------------------------------------------------------------------
StoreAccepted == {h \in current : pc[h] = "accepted" /\ by[h] \in {"pin", "new", "legacy"}}

(* "re-pinning under TOFU on the next connect would accept" another server *)
(* (known_hosts.rs 54): while a process runs, all handshakes the store     *)
(* accepted for one `addr:port` saw one key, under whichever aliases, with *)
(* whatever other first handshakes, failed writes and timeouts between.    *)
(* The exception is the fall-back to a pin by alias: a handshake it let in *)
(* saw the key the old file has for its alias, which is not entered for    *)
(* the endpoint, so that under `tofu` another alias may pin another key.   *)
OneKeyPerEndpoint ==
  \A g, h \in StoreAccepted : EndpointOf[g] = EndpointOf[h] =>
    \/ key[g] = key[h]
    \/ \E f \in {g, h} : by[f] = "legacy" /\ key[f] = Legacy[AliasOf[f]]

(* "two TOFU writers can't race", "never a truncated TOML" (known_hosts.rs *)
(* 40, 148): the file is whole, and has the key of every handshake that    *)
(* was accepted as new, through crashes and later writes; unless a timeout *)
(* left behind a thread that the lock no longer covers.                    *)
FileKeepsPins ==
  \/ dropped
  \/ /\ file.state = "whole"
     /\ \A h \in Handshakes : pc[h] = "accepted" /\ by[h] = "new" => file.pins[EndpointOf[h]] = key[h]
=============================================================================
