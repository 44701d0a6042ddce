---------------------------- MODULE Stores_proofs ----------------------------
(***************************************************************************)
(* Proofs about the two stores the server keeps on disk: HostKeys, for     *)
(* every number of handshakes, hosts, keys and restarts, and AuditLog, for *)
(* every number of records, generations and files.                         *)
(***************************************************************************)
EXTENDS HostKeys, AuditLog, SequenceTheorems, TLAPS


(***************************************************************************)
(* The host keys.                                                          *)
(***************************************************************************)
Places == {"idle", "lock", "flush", "accepted", "refused"}
Work == {"open", "write", "rename"}     \* a thread at the file

(* Nothing adds a pin by alias. *)
Pins == {p \in [Aliases \cup Endpoints -> Keys \cup {NoKey}] : \A a \in Aliases : p[a] \in {Legacy[a], NoKey}}
Files == [state : {"whole", "torn", "absent"}, pins : Pins]

TypeInv ==
  /\ up \in BOOLEAN /\ dropped \in BOOLEAN
  /\ pins \in Pins /\ file \in Files /\ tmp \in Files
  /\ lock \in Handshakes \cup {NoOne}
  /\ pc \in [Handshakes -> Places]
  /\ key \in [Handshakes -> Keys \cup {NoKey}]
  /\ by = [h \in Handshakes |-> by[h]]
  /\ snapshot \in [Handshakes -> Pins]
  /\ thread \in [Handshakes -> Work \cup {"none", "done", "failed"}]
  /\ current \subseteq Handshakes
  /\ \A h \in Handshakes : pc[h] \in {"lock", "flush", "accepted"} => key[h] \in Keys
  /\ \A h \in Handshakes : pc[h] = "accepted" /\ by[h] = "legacy" => key[h] = Legacy[AliasOf[h]]

(* A handshake that pinned its key, and has been accepted or not yet.      *)
Pinning(h) == pc[h] \in {"lock", "flush"} \/ (pc[h] = "accepted" /\ by[h] = "new")
ByStore(h) == Pinning(h) \/ (pc[h] = "accepted" /\ by[h] = "pin")

(* What a handshake of this process was accepted by, the store still says. *)
MemoryKeeps ==
  /\ \A h \in Handshakes : pc[h] \in {"lock", "flush"} => h \in current
  /\ \A h \in current : ByStore(h) => pins[EndpointOf[h]] = key[h]

(* While no lock was let go early, one thread is at the file, and what it  *)
(* writes has the keys of its own handshake and of all accepted ones.      *)
OneWriter ==
  /\ \A h \in Handshakes : thread[h] # "none" => lock = h /\ pc[h] = "flush" /\ up
  /\ \A h \in Handshakes : lock = h => pc[h] = "flush" /\ up
  /\ \A h \in Handshakes : thread[h] = "write" => tmp = Torn
  /\ \A h \in Handshakes : thread[h] = "rename" => tmp = Whole(snapshot[h])
  /\ \A h \in Handshakes : thread[h] \in Work => snapshot[h][EndpointOf[h]] = key[h]
  /\ \A h \in Handshakes : thread[h] = "done" => file.pins[EndpointOf[h]] = key[h]

Saved(h) == pc[h] = "accepted" /\ by[h] = "new"
FileSaves ==
  /\ file.state = "whole"
  /\ \A h \in Handshakes : Saved(h) => /\ file.pins[EndpointOf[h]] = key[h]
                                       /\ up => pins[EndpointOf[h]] = key[h]
                                       /\ \A g \in Handshakes : thread[g] \in Work =>
                                            snapshot[g][EndpointOf[h]] = key[h]

IInv == /\ TypeInv /\ MemoryKeeps /\ (dropped \/ (OneWriter /\ FileSaves))

LEMMA PinTypes ==
  /\ Unpinned \in Pins /\ Start \in Pins /\ Torn \in Files /\ Absent \in Files
  /\ \A p \in Pins : Whole(p) \in Files /\ Whole(p) # Absent /\ Whole(p).pins = p
                     /\ Whole(p).state = "whole"
  /\ Torn # Absent /\ \A p : Whole(p) # Torn
  /\ \A h \in Handshakes : EndpointOf[h] \in Endpoints /\ AliasOf[h] \in Aliases
                           /\ EndpointOf[h] # AliasOf[h]
  /\ \A g, h \in Handshakes : EndpointOf[g] # AliasOf[h]
<1>1. Unpinned \in Pins
  BY DEF Unpinned, Pins
<1>2. Start \in Pins
  BY HostKeysAssumption DEF Start, Pins
<1>3. Torn \in Files /\ Absent \in Files /\ Torn # Absent
  BY <1>1 DEF Torn, Absent, Files
<1>4. ASSUME NEW p \in Pins
      PROVE  Whole(p) \in Files /\ Whole(p) # Absent /\ Whole(p).pins = p /\ Whole(p).state = "whole"
  <2>1. Whole(p).state # Absent.state
    BY DEF Whole, Absent
  <2> QED BY <2>1 DEF Whole, Files
<1>5. ASSUME NEW p PROVE Whole(p) # Torn
  <2>1. Whole(p).state # Torn.state
    BY DEF Whole, Torn
  <2> QED BY <2>1
<1> QED BY <1>1, <1>2, <1>3, <1>4, <1>5, HostKeysAssumption

-----------------------------------------------------------------------------
(* The check of a key. *)

LEMMA CheckKeepsIInv == ASSUME IInv, NEW h \in Handshakes, CheckKey(h) PROVE IInv'
<1> USE DEF store, flushing
<1>1. PICK k \in Keys :
       /\ \/ Accept(h, "config") /\ UNCHANGED pins
          \/ Refuse(h) /\ UNCHANGED pins
          \/ Accept(h, "off") /\ UNCHANGED pins
          \/ Accept(h, "pin") /\ Pin(h) = k /\ UNCHANGED pins
          \/ Accept(h, "legacy") /\ Old(h) = k /\ UNCHANGED pins
          \/ Pin(h) = NoKey /\ AddPin(h, k)
       /\ key' = [key EXCEPT ![h] = IF pc'[h] # "refused" THEN k ELSE NoKey]
  BY DEF CheckKey, Pinned
<1>2. /\ pc[h] = "idle" /\ up /\ current' = current \cup {h}
      /\ UNCHANGED <<up, file, tmp, lock, snapshot, thread, dropped>>
  BY DEF CheckKey
<1>3. /\ pc'[h] \in {"accepted", "refused", "lock"} /\ pc' \in [Handshakes -> Places]
      /\ \A g \in Handshakes \ {h} : pc'[g] = pc[g] /\ by'[g] = by[g] /\ key'[g] = key[g]
      /\ key'[h] = (IF pc'[h] # "refused" THEN k ELSE NoKey)
      /\ key' \in [Handshakes -> Keys \cup {NoKey}]
      /\ by' = [g \in Handshakes |-> by'[g]]
  BY <1>1 DEF Accept, Refuse, AddPin, Goto, IInv, TypeInv, Places
<1>4. /\ pins' \in Pins
      /\ \A x \in Endpoints : pins'[x] = pins[x] \/ (x = EndpointOf[h] /\ pins[x] = NoKey /\ pins'[x] = k)
      /\ pc'[h] = "lock" => pins'[EndpointOf[h]] = k
  <2>1. CASE UNCHANGED pins /\ pc'[h] # "lock"
    BY <2>1 DEF IInv, TypeInv
  <2>2. CASE Pin(h) = NoKey /\ AddPin(h, k)
    <3>1. pins' = [pins EXCEPT ![EndpointOf[h]] = k, ![AliasOf[h]] = NoKey]
      BY <2>2 DEF AddPin
    <3>2. /\ pins \in Pins /\ pins[EndpointOf[h]] = NoKey
          /\ EndpointOf[h] \in Endpoints /\ AliasOf[h] \in Aliases /\ EndpointOf[h] # AliasOf[h]
      BY <2>2, PinTypes DEF Pin, IInv, TypeInv
    <3>3. pins' \in Pins
      <4>1. pins' \in [Aliases \cup Endpoints -> Keys \cup {NoKey}]
        BY <3>1, <3>2 DEF Pins
      <4>2. \A a \in Aliases : a # EndpointOf[h] /\ pins'[a] \in {pins[a], NoKey}
        BY <3>1, <3>2, HostKeysAssumption DEF Pins
      <4> QED BY <3>2, <4>1, <4>2 DEF Pins
    <3>4. \A x \in Aliases \cup Endpoints :
             pins'[x] = IF x = AliasOf[h] THEN NoKey ELSE IF x = EndpointOf[h] THEN k ELSE pins[x]
      BY <3>1, <3>2 DEF Pins
    <3>5. \A x \in Endpoints : x # AliasOf[h]
      BY <3>2, HostKeysAssumption
    <3> QED BY <3>2, <3>3, <3>4, <3>5
  <2> QED BY <1>1, <2>1, <2>2 DEF Accept, Refuse, Goto, IInv, TypeInv
<1>5. pc'[h] = "accepted" => (by'[h] = "pin" => pins[EndpointOf[h]] = k /\ UNCHANGED pins) /\ by'[h] # "new"
  BY <1>1 DEF Accept, Refuse, AddPin, Goto, Pin, IInv, TypeInv
<1>6. TypeInv'
  <2>1. pc'[h] = "accepted" /\ by'[h] = "legacy" => Old(h) = k
    BY <1>1 DEF Accept, Refuse, AddPin, Goto, IInv, TypeInv
  <2>2. Old(h) = k => k = Legacy[AliasOf[h]]
    BY PinTypes, HostKeysAssumption DEF Old, Pins, IInv, TypeInv
  <2> QED BY <1>2, <1>3, <1>4, <2>1, <2>2 DEF IInv, TypeInv
<1>7. \A g \in Handshakes \ {h} : key[g] \in Keys /\ pins[EndpointOf[g]] = key[g]
                                  => pins'[EndpointOf[g]] = key'[g]
  BY <1>3, <1>4, PinTypes, HostKeysAssumption
<1>8. MemoryKeeps'
  <2>1. ASSUME NEW g \in current \ {h}, ByStore(g)' PROVE pins'[EndpointOf[g]] = key'[g]
    BY <1>3, <1>7, <2>1 DEF IInv, TypeInv, MemoryKeeps, ByStore, Pinning
  <2>2. ByStore(h)' => pins'[EndpointOf[h]] = key'[h]
    BY <1>3, <1>4, <1>5 DEF ByStore, Pinning
  <2> QED BY <1>2, <1>3, <2>1, <2>2 DEF IInv, MemoryKeeps
<1>9. ASSUME ~dropped PROVE OneWriter' /\ FileSaves'
  <2>1. OneWriter'
    <3>1. thread[h] = "none" /\ lock # h /\ OneWriter
      BY <1>2, <1>9 DEF IInv, OneWriter
    <3>2. \A g \in Handshakes : thread[g] # "none" \/ lock = g => pc'[g] = pc[g] /\ key'[g] = key[g]
      BY <1>3, <3>1
    <3>3. UNCHANGED <<up, file, tmp, lock, snapshot, thread>>
      BY <1>2
    <3>4. \A g \in Handshakes : thread'[g] # "none" => lock' = g /\ pc'[g] = "flush" /\ up'
      BY <3>1, <3>2, <3>3 DEF OneWriter
    <3>5. \A g \in Handshakes : lock' = g => pc'[g] = "flush" /\ up'
      BY <3>1, <3>2, <3>3 DEF OneWriter
    <3>6. \A g \in Handshakes : thread'[g] = "rename" => tmp' = Whole(snapshot'[g])
      BY <3>1, <3>3 DEF OneWriter
    <3>7. \A g \in Handshakes : thread'[g] \in Work => snapshot'[g][EndpointOf[g]] = key'[g]
      BY <3>1, <3>2, <3>3 DEF OneWriter, Work
    <3>8. \A g \in Handshakes : thread'[g] = "done" => file'.pins[EndpointOf[g]] = key'[g]
      BY <3>1, <3>2, <3>3 DEF OneWriter
    <3> QED BY <3>1, <3>3, <3>4, <3>5, <3>6, <3>7, <3>8 DEF OneWriter
  <2>2. \A g \in Handshakes : Saved(g)' => g # h /\ Saved(g)
    BY <1>3, <1>5 DEF Saved
  <2>3. \A g \in Handshakes : Saved(g)' => (up' => pins'[EndpointOf[g]] = key'[g])
    BY <1>2, <1>7, <1>9, <2>2 DEF IInv, TypeInv, FileSaves, Saved
  <2> QED BY <1>2, <1>3, <1>9, <2>1, <2>2, <2>3 DEF IInv, FileSaves
<1> QED BY <1>2, <1>6, <1>8, <1>9 DEF IInv

-----------------------------------------------------------------------------
(* The write of the file. *)

(* No step of a thread touches what a handshake knows. *)
LEMMA ThreadKeepsMemory ==
  ASSUME IInv, UNCHANGED <<up, pins, lock, pc, key, by, dropped, current>>,
         file' \in Files, tmp' \in Files, snapshot' \in [Handshakes -> Pins],
         thread' \in [Handshakes -> Work \cup {"none", "done", "failed"}],
         dropped \/ (OneWriter' /\ FileSaves')
  PROVE  IInv'
BY DEF IInv, TypeInv, MemoryKeeps, ByStore, Pinning

(* The one thread at the file, while no lock was let go early. *)
LEMMA OnlyThread ==
  ASSUME IInv, ~dropped, NEW h \in Handshakes, thread[h] # "none"
  PROVE  pc[h] = "flush" /\ lock = h /\ up /\ \A g \in Handshakes \ {h} : thread[g] = "none"
BY DEF IInv, OneWriter

LEMMA TruncateKeepsIInv == ASSUME IInv, NEW h \in Handshakes, Truncate(h) PROVE IInv'
<1>1. /\ thread[h] = "open" /\ thread' = [thread EXCEPT ![h] = "write"] /\ tmp' = Torn
      /\ UNCHANGED <<up, pins, file, lock, pc, key, by, dropped, current, snapshot>>
  BY DEF Truncate, Step
<1>2. ASSUME ~dropped PROVE OneWriter' /\ FileSaves'
  <2>1. OneWriter'
    BY <1>1, <1>2, OnlyThread DEF IInv, TypeInv, OneWriter, Work
  <2>2. FileSaves'
    BY <1>1, <1>2 DEF IInv, TypeInv, FileSaves, Saved, Work
  <2> QED BY <2>1, <2>2
<1>3. tmp' \in Files /\ thread' \in [Handshakes -> Work \cup {"none", "done", "failed"}]
  BY <1>1, PinTypes DEF IInv, TypeInv, Work
<1> QED BY <1>1, <1>2, <1>3, ThreadKeepsMemory DEF IInv, TypeInv

LEMMA FillKeepsIInv == ASSUME IInv, NEW h \in Handshakes, Fill(h) PROVE IInv'
<1>1. /\ thread[h] = "write" /\ thread' = [thread EXCEPT ![h] = "rename"]
      /\ UNCHANGED <<up, pins, lock, pc, key, by, dropped, current, snapshot>>
      /\ \/ tmp # Absent /\ tmp' = Whole(snapshot[h]) /\ UNCHANGED file
         \/ tmp = Absent /\ file' = Whole(snapshot[h]) /\ UNCHANGED tmp
  BY DEF Fill, Step
<1>2. ASSUME ~dropped PROVE OneWriter' /\ FileSaves'
  <2>1. tmp' = Whole(snapshot[h]) /\ UNCHANGED file
    BY <1>1, <1>2, PinTypes DEF IInv, OneWriter
  <2>2. OneWriter'
    BY <1>1, <1>2, <2>1, OnlyThread DEF IInv, TypeInv, OneWriter, Work
  <2>3. FileSaves'
    BY <1>1, <1>2, <2>1 DEF IInv, TypeInv, FileSaves, Saved, Work
  <2> QED BY <2>2, <2>3
<1>3. tmp' \in Files /\ file' \in Files /\ thread' \in [Handshakes -> Work \cup {"none", "done", "failed"}]
  BY <1>1, PinTypes DEF IInv, TypeInv, Work
<1> QED BY <1>1, <1>2, <1>3, ThreadKeepsMemory DEF IInv, TypeInv

LEMMA EndKeepsIInv == ASSUME IInv, NEW h \in Handshakes, Rename(h) \/ DiskFails(h) PROVE IInv'
<1>1. /\ thread[h] \in Work
      /\ UNCHANGED <<up, pins, lock, pc, key, by, dropped, current>>
      /\ snapshot' = [snapshot EXCEPT ![h] = Unpinned]
      /\ \/ /\ thread[h] = "rename" /\ tmp # Absent /\ file' = tmp /\ tmp' = Absent /\ Ends(h, "done")
         \/ UNCHANGED <<file, tmp>> /\ Ends(h, "failed")
  BY DEF Rename, DiskFails, Ends, Work, store
<1>2. PICK how \in {"none", "done", "failed"} : thread' = [thread EXCEPT ![h] = how]
  BY <1>1 DEF Ends
<1>3. ASSUME ~dropped PROVE OneWriter' /\ FileSaves'
  <2>1. pc[h] = "flush" /\ lock = h /\ up /\ \A g \in Handshakes \ {h} : thread[g] = "none"
    BY <1>1, <1>3, OnlyThread DEF Work
  <2>2. \A g \in Handshakes : thread'[g] \notin Work /\ (g # h => thread'[g] = "none")
    BY <1>2, <2>1 DEF IInv, TypeInv, Work
  <2>3. CASE thread[h] = "rename" /\ tmp # Absent /\ file' = tmp
    <3>1. file' = Whole(snapshot[h]) /\ snapshot[h] \in Pins
      BY <1>3, <2>3 DEF IInv, TypeInv, OneWriter
    <3>2. file'.pins = snapshot[h] /\ file'.state = "whole"
      BY <3>1, PinTypes
    <3>3. file'.pins[EndpointOf[h]] = key[h]
      BY <1>1, <1>3, <3>2 DEF IInv, OneWriter
    <3>4. \A g \in Handshakes : Saved(g) => file'.pins[EndpointOf[g]] = key[g]
      BY <1>1, <1>3, <3>2 DEF IInv, FileSaves
    <3>5. OneWriter'
      BY <1>1, <1>3, <2>1, <2>2, <3>3 DEF IInv, OneWriter, Work
    <3> QED BY <1>1, <1>3, <2>2, <3>2, <3>4, <3>5 DEF IInv, FileSaves, Saved
  <2>4. CASE UNCHANGED <<file, tmp>> /\ Ends(h, "failed")
    <3>1. thread'[h] = "failed"
      BY <2>1, <2>4 DEF Ends, IInv, TypeInv
    <3>2. OneWriter'
      BY <1>1, <1>3, <2>1, <2>2, <2>4, <3>1 DEF IInv, OneWriter, Work
    <3> QED BY <1>1, <1>3, <2>2, <2>4, <3>2 DEF IInv, FileSaves, Saved
  <2> QED BY <1>1, <2>3, <2>4
<1>4. /\ tmp' \in Files /\ file' \in Files /\ snapshot' \in [Handshakes -> Pins]
      /\ thread' \in [Handshakes -> Work \cup {"none", "done", "failed"}]
  BY <1>1, <1>2, PinTypes DEF IInv, TypeInv
<1> QED BY <1>1, <1>3, <1>4, ThreadKeepsMemory

LEMMA SnapshotKeepsIInv == ASSUME IInv, NEW h \in Handshakes, Snapshot(h) PROVE IInv'
<1>1. /\ up /\ pc[h] = "lock" /\ lock = NoOne /\ lock' = h /\ pc' = [pc EXCEPT ![h] = "flush"]
      /\ snapshot' = [snapshot EXCEPT ![h] = pins] /\ thread' = [thread EXCEPT ![h] = "open"]
      /\ UNCHANGED <<up, pins, file, tmp, key, by, dropped, current>>
  BY DEF Snapshot, Goto
<1>2. TypeInv'
  BY <1>1 DEF IInv, TypeInv, Places, Work
<1>3. MemoryKeeps'
  BY <1>1 DEF IInv, TypeInv, MemoryKeeps, ByStore, Pinning
<1>4. ASSUME ~dropped PROVE OneWriter' /\ FileSaves'
  <2>1. \A g \in Handshakes : thread[g] = "none"
    BY <1>1, <1>4, HostKeysAssumption DEF IInv, OneWriter
  <2>2. pins[EndpointOf[h]] = key[h]
    BY <1>1 DEF IInv, MemoryKeeps, ByStore, Pinning
  <2>3. /\ thread'[h] = "open" /\ snapshot'[h] = pins /\ pc'[h] = "flush"
        /\ \A g \in Handshakes \ {h} : thread'[g] = "none" /\ pc'[g] = pc[g]
    BY <1>1, <2>1 DEF IInv, TypeInv
  <2>4. OneWriter'
    <3>1. \A g \in Handshakes : thread'[g] # "none" => g = h
      BY <2>3
    <3>2. lock' = h /\ up' /\ key' = key
      BY <1>1
    <3>3. \A g \in Handshakes : thread'[g] # "none" => lock' = g /\ pc'[g] = "flush" /\ up'
      BY <2>3, <3>1, <3>2
    <3>4. \A g \in Handshakes : lock' = g => pc'[g] = "flush" /\ up'
      BY <2>3, <3>2
    <3>5. \A g \in Handshakes : thread'[g] \in Work => snapshot'[g][EndpointOf[g]] = key'[g]
      BY <2>2, <2>3, <3>1, <3>2 DEF Work
    <3>6. \A g \in Handshakes : thread'[g] \notin {"write", "rename", "done"}
      BY <2>3
    <3> QED BY <3>3, <3>4, <3>5, <3>6 DEF OneWriter
  <2>5. \A g \in Handshakes : Saved(g)' => Saved(g)
    BY <1>1, <2>3 DEF Saved
  <2>6. FileSaves'
    BY <1>1, <1>4, <2>3, <2>5 DEF IInv, FileSaves, Work
  <2> QED BY <2>4, <2>6
<1> QED BY <1>1, <1>2, <1>3, <1>4 DEF IInv

LEMMA FlushedKeepsIInv == ASSUME IInv, NEW h \in Handshakes, Flushed(h) PROVE IInv'
<1>1. /\ up /\ pc[h] = "flush" /\ thread[h] \in {"done", "failed"} /\ lock' = NoOne
      /\ thread' = [thread EXCEPT ![h] = "none"]
      /\ \/ thread[h] = "done" /\ Accept(h, "new")
         \/ thread[h] = "failed" /\ Refuse(h)
      /\ UNCHANGED <<up, pins, file, tmp, key, snapshot, dropped, current>>
  BY DEF Flushed, Unlock, Step
<1>2. /\ pc'[h] \in {"accepted", "refused"} /\ pc' \in [Handshakes -> Places]
      /\ \A g \in Handshakes \ {h} : pc'[g] = pc[g] /\ by'[g] = by[g]
      /\ by' = [g \in Handshakes |-> by'[g]]
      /\ pc'[h] = "accepted" => thread[h] = "done" /\ by'[h] = "new"
  BY <1>1 DEF Accept, Refuse, Goto, IInv, TypeInv, Places
<1>3. TypeInv'
  BY <1>1, <1>2 DEF IInv, TypeInv
<1>4. MemoryKeeps'
  BY <1>1, <1>2 DEF IInv, TypeInv, MemoryKeeps, ByStore, Pinning
<1>5. ASSUME ~dropped PROVE OneWriter' /\ FileSaves'
  <2>1. \A g \in Handshakes : thread'[g] = "none"
    BY <1>1, <1>5, OnlyThread DEF IInv, TypeInv
  <2>2. OneWriter'
    BY <1>1, <2>1, HostKeysAssumption DEF OneWriter, Work
  <2>3. Saved(h)' => file.pins[EndpointOf[h]] = key[h] /\ pins[EndpointOf[h]] = key[h]
    BY <1>1, <1>2, <1>5 DEF Saved, IInv, OneWriter, MemoryKeeps, ByStore, Pinning
  <2>4. \A g \in Handshakes \ {h} : Saved(g)' => Saved(g)
    BY <1>2 DEF Saved
  <2> QED BY <1>1, <1>5, <2>1, <2>2, <2>3, <2>4 DEF IInv, FileSaves, Work
<1> QED BY <1>1, <1>3, <1>4, <1>5 DEF IInv

-----------------------------------------------------------------------------
(* Timeouts, crashes and restarts. *)

LEMMA TimeOutKeepsIInv == ASSUME IInv, NEW h \in Handshakes, TimeOut(h) PROVE IInv'
<1>1. /\ up /\ pc[h] \in {"lock", "flush"} /\ pc' = [pc EXCEPT ![h] = "refused"] /\ by' = by
      /\ key' = [key EXCEPT ![h] = NoKey] /\ lock' \in {lock, NoOne}
      /\ (lock # h => lock' = lock) /\ (dropped' <=> (dropped \/ pc[h] = "flush")) /\ dropped' \in BOOLEAN
      /\ UNCHANGED <<up, pins, file, tmp, snapshot, thread, current>>
  BY DEF TimeOut, Refuse, Goto, IInv, TypeInv
<1>2. TypeInv'
  BY <1>1 DEF IInv, TypeInv, Places
<1>3. MemoryKeeps'
  BY <1>1 DEF IInv, TypeInv, MemoryKeeps, ByStore, Pinning
<1>4. ASSUME ~dropped' PROVE OneWriter' /\ FileSaves'
  <2>1. ~dropped /\ pc[h] = "lock" /\ lock # h /\ lock' = lock
    BY <1>1, <1>4 DEF IInv, OneWriter
  <2>2. \A g \in Handshakes \ {h} : pc'[g] = pc[g] /\ key'[g] = key[g]
    BY <1>1 DEF IInv, TypeInv
  <2>3. thread[h] = "none" /\ pc'[h] = "refused"
    BY <1>1, <2>1 DEF IInv, TypeInv, OneWriter
  <2>4. OneWriter'
    BY <1>1, <2>1, <2>2, <2>3 DEF IInv, OneWriter, Work
  <2>5. FileSaves'
    BY <1>1, <2>1, <2>2, <2>3 DEF IInv, FileSaves, Saved
  <2> QED BY <2>4, <2>5
<1> QED BY <1>2, <1>3, <1>4 DEF IInv

LEMMA CrashKeepsIInv == ASSUME IInv, Crash PROVE IInv'
<1>1. TypeInv' /\ MemoryKeeps'
  BY PinTypes DEF Crash, IInv, TypeInv, MemoryKeeps, ByStore, Pinning
<1>2. OneWriter'
  BY HostKeysAssumption DEF Crash, OneWriter, Work
<1>3. ASSUME ~dropped PROVE FileSaves'
  BY <1>3 DEF Crash, IInv, FileSaves, Saved, Work
<1> QED BY <1>1, <1>2, <1>3 DEF IInv, Crash

LEMMA OpenKeepsIInv == ASSUME IInv, OpenOrCreate PROVE IInv'
<1>1. /\ ~up /\ up' = TRUE /\ pins' = file.pins /\ current' = {}
      /\ UNCHANGED <<file, tmp, lock, key, by, snapshot, thread, dropped>>
  BY DEF OpenOrCreate, flushing
<1>2. \A h \in Handshakes :
        pc'[h] = IF pc[h] \in {"lock", "flush"} THEN "idle" ELSE pc[h]
  BY DEF OpenOrCreate, IInv, TypeInv, Places
<1>3. pc' \in [Handshakes -> Places]
  BY DEF OpenOrCreate, IInv, TypeInv, Places
<1>4. TypeInv'
  BY <1>1, <1>2, <1>3 DEF IInv, TypeInv, Files
<1>5. MemoryKeeps'
  BY <1>1, <1>2 DEF MemoryKeeps
<1>6. ASSUME ~dropped PROVE OneWriter' /\ FileSaves'
  BY <1>1, <1>2, <1>6 DEF IInv, OneWriter, FileSaves, Saved, Work
<1> QED BY <1>1, <1>4, <1>5, <1>6 DEF IInv

LEMMA Inductive == Spec => []IInv
<1>1. Init => IInv
  <2> SUFFICES ASSUME Init PROVE IInv
    OBVIOUS
  <2>1. TypeInv
    BY PinTypes DEF Init, TypeInv, Places, Whole, Files
  <2> QED BY <2>1, PinTypes, HostKeysAssumption
          DEF Init, IInv, MemoryKeeps, OneWriter, FileSaves, Saved, Work
<1>2. ASSUME IInv, [Next]_vars PROVE IInv'
  <2>1. CASE UNCHANGED vars
    BY <1>2, <2>1 DEF vars, store, flushing, IInv, TypeInv, MemoryKeeps, ByStore, Pinning, OneWriter,
       FileSaves, Saved
  <2> QED BY <1>2, <2>1, CheckKeepsIInv, SnapshotKeepsIInv, TruncateKeepsIInv, FillKeepsIInv, EndKeepsIInv,
          FlushedKeepsIInv, TimeOutKeepsIInv, CrashKeepsIInv, OpenKeepsIInv DEF Next
<1> QED BY <1>1, <1>2, PTL DEF Spec

-----------------------------------------------------------------------------
(* The theorems. *)

(* All handshakes that the store accepted for one `addr:port` while a      *)
(* process runs saw one key, for any number of first handshakes at once    *)
(* (connect.rs, `check_server_key`; known_hosts.rs, `add`), unless one of  *)
(* the two went by a pin by alias: it saw the key an old file has for its  *)
(* alias (known_hosts.rs, `check`).                                        *)
THEOREM OneKey == Spec => []OneKeyPerEndpoint
<1>1. IInv => OneKeyPerEndpoint
  <2> SUFFICES ASSUME IInv, NEW g \in StoreAccepted, NEW h \in StoreAccepted,
                      EndpointOf[g] = EndpointOf[h], key[g] # key[h]
               PROVE  \E f \in {g, h} : by[f] = "legacy" /\ key[f] = Legacy[AliasOf[f]]
    BY DEF OneKeyPerEndpoint
  <2>1. ASSUME NEW f \in StoreAccepted, by[f] # "legacy" PROVE pins[EndpointOf[f]] = key[f]
    BY <2>1 DEF IInv, MemoryKeeps, ByStore, Pinning, StoreAccepted
  <2>2. PICK f \in {g, h} : by[f] = "legacy"
    BY <2>1
  <2>3. key[f] = Legacy[AliasOf[f]]
    BY <2>2 DEF IInv, TypeInv, StoreAccepted
  <2> QED BY <2>2, <2>3
<1> QED BY <1>1, Inductive, PTL

(* The file is whole and has the key of every handshake accepted as new,   *)
(* through any crashes, restarts, failed writes and later handshakes,      *)
(* until a timeout lets the lock go while the thread writes (known_hosts.rs*)
(* `flush`).                                                               *)
THEOREM PinsAreKept == Spec => []FileKeepsPins
<1>1. IInv => FileKeepsPins
  BY DEF IInv, FileSaves, Saved, FileKeepsPins
<1> QED BY <1>1, Inductive, PTL

-----------------------------------------------------------------------------
(***************************************************************************)
(* The audit log.                                                          *)
(***************************************************************************)

Tasks == {"open", "drain", "select", "write", "last", "rotate", "move", "reopen", "stopped"}
HasFile == {"select", "write", "last", "rotate", "move", "reopen"}
Batched == {"write", "last"}            \* `batch` is not written yet

LogTypeInv ==
  /\ keep \in Keeps /\ sent \in Nat /\ task \in Tasks /\ stop \in BOOLEAN
  /\ queue \in Seq(Nat) /\ batch \in Seq(Nat) /\ taken \in Seq(Nat)
  /\ names \in [Generations -> Nat] /\ content \in [1..MaxInodes -> Seq(Nat)]
  /\ made \in 0..MaxInodes /\ shift \in Nat /\ due \in Nat /\ due <= Len(taken)

(* The task writes to the newest inode, which has the live name, if any    *)
(* has, and loses that name without a new file only where one cannot be    *)
(* opened.                                                                 *)
Newest ==
  /\ names[0] \in {NoFile, made} /\ (task = "reopen" => names[0] = NoFile)
  /\ task \in HasFile => handle = made /\ made > 0
  /\ task \in HasFile \ {"reopen"} /\ "reopen" \notin trouble => names[0] = made

Growing(s) == \A i, j \in DOMAIN s : i < j => s[i] < s[j]
Below(s, t) == \A r \in Range(s), q \in Range(t) : r < q

(* Records go from the queue to the batch to the newest inode, in order.   *)
InOrder ==
  /\ Growing(queue) /\ \A r \in Range(queue) : r <= sent
  /\ task \in Batched => Growing(batch) /\ Below(batch, queue) /\ \A r \in Range(batch) : r <= sent
  /\ \A f \in 1..MaxInodes :
       /\ Growing(content[f]) /\ Below(content[f], queue)
       /\ \A r \in Range(content[f]) : r <= sent
       /\ task \in Batched => Below(content[f], batch)
       /\ f > made => content[f] = <<>>
  /\ \A f, g \in 1..MaxInodes : f < g => Below(content[f], content[g])

(* Older generations have older inodes.                                    *)
Aged ==
  /\ \A g \in Generations : names[g] <= made /\ (g > keep => names[g] = NoFile)
  /\ \A g, h \in Generations : g < h /\ names[g] # NoFile /\ names[h] # NoFile => names[h] < names[g]

Moving ==
  task = "move" => shift < keep /\ ("shift" \notin trouble => names[shift + 1] = NoFile)

(* Files are lost from the old end.                                        *)
NewestNamed ==
  trouble \cap {"shift", "reopen"} = {} =>
    \A f \in 1..made : (\E g \in Generations : names[g] # NoFile /\ names[g] < f) => f \in Range(names)

(* The inode made so many before the newest.                               *)
Nth(n) == IF n < made THEN made - n ELSE NoFile
Contiguous ==
  keep > 0 /\ trouble \cap {"shift", "reopen", "move", "crash"} = {} =>
    \A g \in 0..keep :
      /\ task \notin {"move", "reopen"} => names[g] = Nth(g)
      /\ task = "move" => (g <= shift => names[g] = Nth(g)) /\ (g > shift + 1 => names[g] = Nth(g - 1))
      /\ task = "reopen" /\ g > 0 => names[g] = Nth(g - 1)

(* Where an accepted record is until it is on a file.                      *)
OnFile(r) == \E f \in 1..MaxInodes : r \in Range(content[f])
Accounted ==
  trouble \cap {"open", "write", "crash"} = {} =>
    /\ task # "drain" /\ (task \in {"last", "stopped"} => stop)
    /\ \A i \in DOMAIN taken :
         \/ OnFile(taken[i])
         \/ task \in Batched /\ taken[i] \in Range(batch)
         \/ taken[i] \in Range(queue) /\ (task \in {"last", "stopped"} => i > due)

FilesInv == Newest /\ Aged /\ Moving /\ NewestNamed /\ Contiguous
RecordsInv == InOrder /\ Accounted
LogInv == LogTypeInv /\ FilesInv /\ RecordsInv

-----------------------------------------------------------------------------
(* Sequences of records.                                                   *)

LEMMA Appended ==
  ASSUME NEW q \in Seq(Nat), NEW e \in Nat
  PROVE  /\ Append(q, e) \in Seq(Nat) /\ Range(Append(q, e)) = Range(q) \cup {e}
         /\ Len(q) \in Nat /\ DOMAIN q = 1..Len(q) /\ DOMAIN Append(q, e) = 1..(Len(q) + 1)
         /\ Append(q, e)[Len(q) + 1] = e /\ \A i \in 1..Len(q) : Append(q, e)[i] = q[i]
         /\ Growing(q) /\ (\A r \in Range(q) : r < e) => Growing(Append(q, e))
<1> DEFINE n == Len(q)
           p == Append(q, e)
<1>1. /\ p \in Seq(Nat) /\ Len(p) = n + 1 /\ n \in Nat /\ DOMAIN q = 1..n
      /\ p[n + 1] = e /\ \A i \in 1..n : p[i] = q[i]
  BY AppendProperties, LenProperties
<1>2. DOMAIN p = 1..(n + 1)
  BY <1>1, LenProperties
<1> HIDE DEF n, p
<1>3. \A i \in 1..(n + 1) : i \in 1..n \/ i = n + 1
  BY <1>1
<1>4. Range(p) = Range(q) \cup {e}
  <2>1. ASSUME NEW r \in Range(p) PROVE r \in Range(q) \cup {e}
    <3>1. PICK i \in 1..(n + 1) : p[i] = r
      BY <1>2 DEF Range
    <3> QED BY <1>1, <1>3, <3>1 DEF Range
  <2>2. ASSUME NEW r \in Range(q) PROVE r \in Range(p)
    <3>1. PICK i \in 1..n : q[i] = r
      BY <1>1 DEF Range
    <3>2. i \in 1..(n + 1)
      BY <1>1
    <3> QED BY <1>1, <1>2, <3>1, <3>2 DEF Range
  <2>3. n + 1 \in 1..(n + 1)
    BY <1>1
  <2>4. e \in Range(p)
    BY <1>1, <1>2, <2>3 DEF Range
  <2> QED BY <2>1, <2>2, <2>4
<1>5. ASSUME Growing(q), \A r \in Range(q) : r < e PROVE Growing(p)
  <2> SUFFICES ASSUME NEW i \in 1..(n + 1), NEW j \in 1..(n + 1), i < j PROVE p[i] < p[j]
    BY <1>2 DEF Growing
  <2>1. i \in 1..n
    BY <1>1
  <2>2. CASE j \in 1..n
    BY <1>1, <1>5, <2>1, <2>2 DEF Growing
  <2>3. CASE j = n + 1
    BY <1>1, <1>5, <2>1, <2>3 DEF Range
  <2> QED BY <1>3, <2>2, <2>3
<1> QED BY <1>1, <1>2, <1>4, <1>5 DEF n, p

LEMMA Joined ==
  ASSUME NEW a \in Seq(Nat), NEW b \in Seq(Nat)
  PROVE  /\ a \o b \in Seq(Nat) /\ Range(a \o b) = Range(a) \cup Range(b)
         /\ Growing(a) /\ Growing(b) /\ Below(a, b) => Growing(a \o b)
<1> DEFINE m == Len(a)
           n == Len(b)
           p == a \o b
<1>1. /\ p \in Seq(Nat) /\ Len(p) = m + n /\ m \in Nat /\ n \in Nat
      /\ DOMAIN a = 1..m /\ DOMAIN b = 1..n
      /\ \A i \in 1..(m + n) : p[i] = IF i <= m THEN a[i] ELSE b[i - m]
  BY ConcatProperties, LenProperties
<1>2. DOMAIN p = 1..(m + n)
  BY <1>1, LenProperties
<1> HIDE DEF m, n, p
<1>3. \A i \in 1..(m + n) : \/ i \in 1..m /\ p[i] = a[i]
                            \/ i > m /\ i - m \in 1..n /\ p[i] = b[i - m]
  BY <1>1
<1>4. /\ \A i \in 1..m : i \in 1..(m + n) /\ p[i] = a[i]
      /\ \A i \in 1..n : i + m \in 1..(m + n) /\ p[i + m] = b[i]
  <2>1. \A i \in 1..n : i + m \in 1..(m + n) /\ (i + m) - m = i /\ ~(i + m <= m)
    BY <1>1
  <2>2. \A i \in 1..m : i \in 1..(m + n) /\ i <= m
    BY <1>1
  <2>3. \A i \in 1..n : p[i + m] = b[i]
    BY <1>1, <2>1
  <2> QED BY <1>1, <2>1, <2>2, <2>3
<1>5. Range(p) = Range(a) \cup Range(b)
  <2>1. ASSUME NEW r \in Range(p) PROVE r \in Range(a) \cup Range(b)
    <3>1. PICK i \in 1..(m + n) : p[i] = r
      BY <1>2 DEF Range
    <3> QED BY <1>1, <1>3, <3>1 DEF Range
  <2>2. ASSUME NEW r \in Range(a) PROVE r \in Range(p)
    BY <1>1, <1>2, <1>4 DEF Range
  <2>3. ASSUME NEW r \in Range(b) PROVE r \in Range(p)
    <3>1. PICK i \in 1..n : b[i] = r
      BY <1>1 DEF Range
    <3> QED BY <1>2, <1>4, <3>1 DEF Range
  <2> QED BY <2>1, <2>2, <2>3
<1>6. ASSUME Growing(a), Growing(b), Below(a, b) PROVE Growing(p)
  <2> SUFFICES ASSUME NEW i \in 1..(m + n), NEW j \in 1..(m + n), i < j PROVE p[i] < p[j]
    BY <1>2 DEF Growing
  <2>1. CASE j \in 1..m /\ p[j] = a[j]
    <3>1. i \in 1..m /\ p[i] = a[i]
      BY <1>1, <1>4, <2>1
    <3> QED BY <1>1, <1>6, <2>1, <3>1 DEF Growing
  <2>2. CASE j > m /\ j - m \in 1..n /\ p[j] = b[j - m]
    <3>1. CASE i \in 1..m /\ p[i] = a[i]
      BY <1>1, <1>6, <2>2, <3>1 DEF Below, Range
    <3>2. CASE i > m /\ i - m \in 1..n /\ p[i] = b[i - m]
      <4>1. i - m < j - m
        BY <1>1, <2>2, <3>2
      <4> QED BY <1>1, <1>6, <2>2, <3>2, <4>1 DEF Growing
    <3> QED BY <1>3, <3>1, <3>2
  <2> QED BY <1>3, <2>1, <2>2
<1> QED BY <1>1, <1>5, <1>6 DEF p

(* What is taken from the front of a sequence, and what is left.           *)
LEMMA Split ==
  ASSUME NEW q \in Seq(Nat), NEW n \in 0..Len(q)
  PROVE  \A a, b : a = SubSeq(q, 1, n) /\ b = SubSeq(q, n + 1, Len(q)) =>
           /\ a \in Seq(Nat) /\ b \in Seq(Nat) /\ Range(q) = Range(a) \cup Range(b)
           /\ Growing(q) => Growing(a) /\ Growing(b) /\ Below(a, b)
<1> SUFFICES ASSUME NEW a, NEW b, a = SubSeq(q, 1, n), b = SubSeq(q, n + 1, Len(q))
             PROVE  /\ a \in Seq(Nat) /\ b \in Seq(Nat) /\ Range(q) = Range(a) \cup Range(b)
                    /\ Growing(q) => Growing(a) /\ Growing(b) /\ Below(a, b)
  OBVIOUS
<1> DEFINE m == Len(q)
           k == m - n
<1>1. m \in Nat /\ DOMAIN q = 1..m /\ n \in 0..m /\ n \in Nat /\ k \in Nat
  BY LenProperties
<1>2. \A i \in 1..m : q[i] \in Nat
  BY <1>1, ElementOfSeq
<1> HIDE DEF m, k
<1>3. /\ a \in Seq(Nat) /\ Len(a) = n /\ DOMAIN a = 1..n
      /\ \A i \in 1..n : i \in 1..m /\ a[i] = q[i]
  <2>1. 1 \in Int /\ n \in Int /\ \A i \in 1..n : i \in 1..m
    BY <1>1
  <2>2. /\ a \in Seq(Nat) /\ Len(a) = IF 1 <= n THEN n - 1 + 1 ELSE 0
        /\ \A i \in 1..(n - 1 + 1) : a[i] = q[1 + i - 1]
    BY <1>2, <2>1, SubSeqProperties
  <2>3. n - 1 + 1 = n /\ (n >= 1 \/ n = 0) /\ \A i \in 1..n : 1 + i - 1 = i
    BY <1>1
  <2>4. Len(a) = n /\ \A i \in 1..n : a[i] = q[i]
    BY <1>1, <2>2, <2>3
  <2> QED BY <2>1, <2>2, <2>4, LenProperties
<1>4. /\ b \in Seq(Nat) /\ Len(b) = k /\ DOMAIN b = 1..k
      /\ \A i \in 1..k : n + i \in 1..m /\ b[i] = q[n + i]
  <2>1. n + 1 \in Int /\ m \in Int /\ \A i \in (n + 1)..m : i \in 1..m
    BY <1>1
  <2>2. /\ b \in Seq(Nat) /\ Len(b) = IF n + 1 <= m THEN m - (n + 1) + 1 ELSE 0
        /\ \A i \in 1..(m - (n + 1) + 1) : b[i] = q[(n + 1) + i - 1]
    <3>1. b = SubSeq(q, n + 1, m)
      BY DEF m
    <3> QED BY <1>2, <2>1, <3>1, SubSeqProperties
  <2>3. /\ m - (n + 1) + 1 = k /\ (n + 1 <= m \/ k = 0)
        /\ \A i \in 1..k : (n + 1) + i - 1 = n + i /\ n + i \in 1..m
    BY <1>1 DEF k
  <2>4. Len(b) = k
    BY <1>1, <2>2, <2>3
  <2>5. \A i \in 1..k : b[i] = q[n + i]
    BY <2>2, <2>3
  <2> QED BY <2>2, <2>3, <2>4, <2>5, LenProperties
<1>5. Range(q) = Range(a) \cup Range(b)
  <2>1. ASSUME NEW r \in Range(q) PROVE r \in Range(a) \cup Range(b)
    <3>1. PICK i \in 1..m : q[i] = r
      BY <1>1 DEF Range
    <3>2. CASE i <= n
      <4>1. i \in 1..n
        BY <1>1, <3>2
      <4> QED BY <1>3, <3>1, <4>1 DEF Range
    <3>3. CASE ~(i <= n)
      <4>1. i - n \in 1..k /\ n + (i - n) = i
        BY <1>1, <3>3 DEF k
      <4>2. b[i - n] = r
        BY <1>4, <3>1, <4>1
      <4> QED BY <1>4, <4>1, <4>2 DEF Range
    <3> QED BY <3>2, <3>3
  <2>2. ASSUME NEW r \in Range(a) PROVE r \in Range(q)
    BY <1>1, <1>3 DEF Range
  <2>3. ASSUME NEW r \in Range(b) PROVE r \in Range(q)
    <3>1. PICK i \in 1..k : b[i] = r
      BY <1>4 DEF Range
    <3> QED BY <1>1, <1>4, <3>1 DEF Range
  <2> QED BY <2>1, <2>2, <2>3
<1>6. ASSUME Growing(q) PROVE Growing(a) /\ Growing(b) /\ Below(a, b)
  <2>1. Growing(a)
    BY <1>1, <1>3, <1>6 DEF Growing
  <2>2. Growing(b)
    <3> SUFFICES ASSUME NEW i \in 1..k, NEW j \in 1..k, i < j PROVE b[i] < b[j]
      BY <1>4 DEF Growing
    <3>1. n + i < n + j
      BY <1>1
    <3> QED BY <1>1, <1>4, <1>6, <3>1 DEF Growing
  <2>3. Below(a, b)
    <3> SUFFICES ASSUME NEW r \in Range(a), NEW s \in Range(b) PROVE r < s
      BY DEF Below
    <3>1. PICK i \in 1..n : a[i] = r
      BY <1>3 DEF Range
    <3>2. PICK j \in 1..k : b[j] = s
      BY <1>4 DEF Range
    <3>3. i < n + j
      BY <1>1
    <3> QED BY <1>1, <1>3, <1>4, <1>6, <3>1, <3>2, <3>3 DEF Growing
  <2> QED BY <2>1, <2>2, <2>3
<1> QED BY <1>3, <1>4, <1>5, <1>6

-----------------------------------------------------------------------------
(* The names of the files.                                                 *)

LEMMA GenerationsAre ==
  ASSUME LogTypeInv
  PROVE  /\ keep \in Nat /\ 0 \in Generations /\ Generations \subseteq Nat
         /\ \A g \in 0..keep : g \in Generations
<1>1. keep \in Keeps /\ Keeps \subseteq Nat
  BY AuditAssumption DEF LogTypeInv
<1>2. \A k \in Keeps : k \in Nat /\ 0 \in 0..k /\ 0..k \subseteq Nat
  BY <1>1
<1> QED BY <1>1, <1>2 DEF Generations

(* Steps that leave the files' names alone.                                *)
LEMMA NamesStay ==
  ASSUME FilesInv, UNCHANGED <<keep, names, handle, made>>, trouble \subseteq trouble',
         \/ UNCHANGED <<task, shift>>
         \/ /\ {task, task'} \cap {"move", "reopen"} = {}
            /\ task' \in HasFile => task \in HasFile \/ (handle = made /\ made > 0 /\ names[0] = made)
  PROVE  FilesInv'
<1>1. Newest'
  BY DEF FilesInv, Newest, HasFile
<1>2. Aged'
  BY DEF FilesInv, Aged
<1>3. Moving'
  BY DEF FilesInv, Moving
<1>4. NewestNamed'
  BY DEF FilesInv, NewestNamed, Range
<1>5. Contiguous'
  <2>1. \A n : Nth(n)' = Nth(n)
    BY DEF Nth
  <2> QED BY <2>1 DEF FilesInv, Contiguous
<1> QED BY <1>1, <1>2, <1>3, <1>4, <1>5 DEF FilesInv

(* The live file is opened, or a new one made.                             *)
LEMMA OpenLiveKeepsFiles ==
  ASSUME LogTypeInv, FilesInv, task \in {"open", "reopen"}, OpenLive,
         UNCHANGED <<keep, trouble>>, task' = "select"
  PROVE  FilesInv' /\ handle' = made' /\ made' \in 1..MaxInodes /\ made' \in {made, made + 1}
<1>1. /\ keep \in Nat /\ 0 \in Generations /\ Generations \subseteq Nat
      /\ \A g \in 0..keep : g \in Generations
      /\ names \in [Generations -> Nat] /\ made \in 0..MaxInodes /\ MaxInodes \in Nat
  BY GenerationsAre, AuditAssumption DEF LogTypeInv
<1>2. CASE /\ names[0] # NoFile /\ handle' = names[0] /\ UNCHANGED <<names, content, made>>
  <2>1. task = "open" /\ handle' = made /\ made' = made /\ made > 0 /\ names[0] = made
    BY <1>1, <1>2 DEF FilesInv, Newest, NoFile
  <2>2. Newest'
    BY <1>2, <2>1 DEF Newest
  <2>3. Aged' /\ Moving' /\ NewestNamed'
    BY <1>2 DEF FilesInv, Aged, Moving, NewestNamed, Range
  <2>4. Contiguous'
    <3>1. \A n : Nth(n)' = Nth(n)
      BY <1>2 DEF Nth
    <3> QED BY <1>2, <2>1, <3>1 DEF FilesInv, Contiguous
  <2> QED BY <1>1, <2>1, <2>2, <2>3, <2>4 DEF FilesInv
<1>3. CASE /\ names[0] = NoFile /\ made < MaxInodes /\ made' = made + 1 /\ handle' = made'
           /\ names' = [names EXCEPT ![0] = made']
  <2>1. /\ names'[0] = made + 1 /\ \A g \in Generations : g # 0 => names'[g] = names[g]
        /\ names' \in [Generations -> Nat]
    BY <1>1, <1>3
  <2>2. Newest'
    BY <1>1, <1>3, <2>1 DEF Newest
  <2>3. Aged'
    BY <1>1, <1>3, <2>1 DEF FilesInv, Aged
  <2>4. Moving'
    BY DEF Moving
  <2>5. NewestNamed'
    <3> SUFFICES ASSUME trouble \cap {"shift", "reopen"} = {}, NEW f \in 1..(made + 1), NEW g \in Generations,
                        names'[g] # NoFile, names'[g] < f
                 PROVE  f \in Range(names')
      BY <1>3 DEF NewestNamed
    <3>1. g # 0
      BY <1>1, <2>1
    <3>2. CASE f = made + 1
      BY <1>1, <2>1, <3>2 DEF Range
    <3>3. CASE f # made + 1
      <4>1. f \in 1..made
        BY <1>1, <3>3
      <4>2. f \in Range(names)
        BY <2>1, <3>1, <4>1 DEF FilesInv, NewestNamed
      <4>3. PICK h \in Generations : names[h] = f
        BY <1>1, <4>2 DEF Range
      <4>4. h # 0
        BY <1>3, <4>1, <4>3 DEF NoFile
      <4> QED BY <2>1, <4>3, <4>4 DEF Range
    <3> QED BY <3>2, <3>3
  <2>6. Contiguous'
    <3> SUFFICES ASSUME keep > 0, trouble \cap {"shift", "reopen", "move", "crash"} = {}, NEW g \in 0..keep
                 PROVE  names'[g] = Nth(g)'
      BY DEF Contiguous
    <3>1. Nth(g)' = IF g < made + 1 THEN (made + 1) - g ELSE NoFile
      BY <1>3 DEF Nth
    <3>2. CASE g = 0
      BY <1>1, <2>1, <3>1, <3>2
    <3>3. CASE g # 0
      <4>1. names'[g] = names[g]
        BY <1>1, <2>1, <3>3
      <4>2. CASE task = "reopen"
        <5>1. names[g] = IF g - 1 < made THEN made - (g - 1) ELSE NoFile
          BY <1>1, <3>3, <4>2 DEF FilesInv, Contiguous, Nth
        <5> QED BY <1>1, <3>1, <4>1, <5>1
      <4>3. CASE task = "open"
        <5>1. names[0] = IF 0 < made THEN made - 0 ELSE NoFile
          BY <1>1, <4>3 DEF FilesInv, Contiguous, Nth
        <5>2. made = 0
          BY <1>1, <1>3, <5>1 DEF NoFile
        <5>3. names[g] = IF g < made THEN made - g ELSE NoFile
          BY <4>3 DEF FilesInv, Contiguous, Nth
        <5> QED BY <1>1, <3>1, <3>3, <4>1, <5>2, <5>3
      <4> QED BY <4>2, <4>3
    <3> QED BY <3>2, <3>3
  <2> QED BY <1>1, <1>3, <2>2, <2>3, <2>4, <2>5, <2>6 DEF FilesInv
<1> QED BY <1>2, <1>3 DEF OpenLive

LEMMA RotateFailsKeepsFiles == ASSUME LogTypeInv, FilesInv, RotateFails PROVE FilesInv'
<1>1. /\ task \in {"rotate", "move", "reopen"} /\ task' = "select" /\ trouble' = trouble \cup {task}
      /\ UNCHANGED <<keep, names, handle, made, shift>>
  BY DEF RotateFails, Took, Stay
<1>2. Newest' /\ Aged' /\ Moving'
  BY <1>1 DEF FilesInv, Newest, Aged, Moving, HasFile
<1>3. NewestNamed'
  BY <1>1 DEF FilesInv, NewestNamed, Range
<1>4. Contiguous'
  <2>1. \A n : Nth(n)' = Nth(n)
    BY <1>1 DEF Nth
  <2> QED BY <1>1, <2>1 DEF FilesInv, Contiguous
<1> QED BY <1>2, <1>3, <1>4 DEF FilesInv

LEMMA RestartKeepsFiles == ASSUME LogTypeInv, FilesInv, Restart PROVE FilesInv'
<1>1. task' = "open" /\ trouble' = trouble \cup {"crash"} /\ UNCHANGED <<keep, names, made>>
  BY DEF Restart, Took
<1>2. Newest' /\ Aged' /\ Moving' /\ Contiguous'
  BY <1>1 DEF FilesInv, Newest, Aged, Moving, Contiguous, HasFile
<1>3. NewestNamed'
  BY <1>1 DEF FilesInv, NewestNamed, Range
<1> QED BY <1>2, <1>3 DEF FilesInv

LEMMA RotateBeginKeepsFiles == ASSUME LogTypeInv, FilesInv, RotateBegin PROVE FilesInv'
<1>1. /\ keep \in Nat /\ 0 \in Generations /\ Generations \subseteq Nat /\ keep \in Generations
      /\ names \in [Generations -> Nat] /\ made \in Nat
      /\ task = "rotate" /\ UNCHANGED <<keep, handle, made, trouble>>
  BY GenerationsAre, AuditAssumption DEF LogTypeInv, RotateBegin, Stay
<1>2. CASE keep = 0 /\ names' = [names EXCEPT ![0] = NoFile] /\ task' = "reopen"
  <2>1. \A g \in Generations : names'[g] = NoFile
    BY <1>1, <1>2 DEF FilesInv, Aged
  <2> QED BY <1>1, <1>2, <2>1 DEF FilesInv, Newest, Aged, Moving, NewestNamed, Contiguous, HasFile, NoFile
<1>3. CASE keep > 0 /\ names' = [names EXCEPT ![keep] = NoFile] /\ task' = "move" /\ shift' = keep - 1
  <2>1. names'[keep] = NoFile /\ \A g \in Generations : g # keep => names'[g] = names[g]
    BY <1>1, <1>3
  <2>2. Newest'
    BY <1>1, <1>3, <2>1 DEF FilesInv, Newest, HasFile
  <2>3. Aged'
    BY <1>1, <1>3, <2>1 DEF FilesInv, Aged, NoFile
  <2>4. Moving'
    BY <1>1, <1>3, <2>1 DEF Moving
  <2>5. NewestNamed'
    <3> SUFFICES ASSUME trouble \cap {"shift", "reopen"} = {}, NEW f \in 1..made, NEW g \in Generations,
                        names'[g] # NoFile, names'[g] < f
                 PROVE  f \in Range(names')
      BY <1>1 DEF NewestNamed
    <3>1. g # keep /\ names[g] # NoFile /\ names[g] < f
      BY <2>1
    <3>2. g < keep
      BY <1>1, <3>1 DEF FilesInv, Aged
    <3>3. f \in Range(names)
      BY <3>1 DEF FilesInv, NewestNamed
    <3>4. PICK h \in Generations : names[h] = f
      BY <1>1, <3>3 DEF Range
    <3>5. h # keep
      BY <1>1, <3>1, <3>2, <3>4 DEF FilesInv, Aged, NoFile
    <3>6. h \in DOMAIN names' /\ names'[h] = f
      BY <1>1, <1>3, <2>1, <3>4, <3>5
    <3> QED BY <3>6 DEF Range
  <2>6. Contiguous'
    <3>1. \A n : Nth(n)' = Nth(n)
      BY <1>1 DEF Nth
    <3>2. \A g \in 0..keep : g \in Generations /\ (g <= keep - 1 => names'[g] = names[g]) /\ ~(g > keep)
      BY <1>1, <2>1, GenerationsAre
    <3> QED BY <1>1, <1>3, <3>1, <3>2 DEF FilesInv, Contiguous
  <2> QED BY <2>2, <2>3, <2>4, <2>5, <2>6 DEF FilesInv
<1> QED BY <1>2, <1>3 DEF RotateBegin

(* A generation moves to the next name.                                    *)
LEMMA MoveKeepsAge ==
  ASSUME LogTypeInv, FilesInv, task = "move", names[shift] # NoFile, Move(shift),
         UNCHANGED <<keep, made, trouble>>
  PROVE  /\ Aged' /\ NewestNamed'
         /\ names'[shift] = NoFile /\ names'[shift + 1] = names[shift]
         /\ \A g \in Generations : g \notin {shift, shift + 1} => names'[g] = names[g]
<1>1. /\ keep \in Nat /\ Generations \subseteq Nat /\ shift \in Nat /\ shift < keep
      /\ names \in [Generations -> Nat] /\ made \in Nat
      /\ shift \in Generations /\ shift + 1 \in Generations
  <2>1. keep \in Nat /\ shift \in Nat /\ shift < keep
    BY GenerationsAre DEF LogTypeInv, FilesInv, Moving
  <2>2. shift \in 0..keep /\ shift + 1 \in 0..keep
    BY <2>1
  <2> QED BY <2>1, <2>2, GenerationsAre DEF LogTypeInv
<1>2. /\ names'[shift] = NoFile /\ names'[shift + 1] = names[shift]
      /\ \A g \in Generations : g \notin {shift, shift + 1} => names'[g] = names[g]
      /\ names' \in [Generations -> Nat]
  BY <1>1 DEF Move, NoFile
<1>3. Aged'
  <2>1. ASSUME NEW g \in Generations PROVE names'[g] <= made /\ (g > keep => names'[g] = NoFile)
    BY <1>1, <1>2 DEF FilesInv, Aged, NoFile
  <2>2. ASSUME NEW g \in Generations, NEW h \in Generations, g < h, names'[g] # NoFile, names'[h] # NoFile
        PROVE  names'[h] < names'[g]
    <3>1. CASE g = shift + 1
      <4>1. names'[h] = names[h] /\ names'[g] = names[shift] /\ shift < h
        BY <1>1, <1>2, <2>2, <3>1
      <4> QED BY <1>1, <2>2, <4>1 DEF FilesInv, Aged
    <3>2. CASE h = shift + 1 /\ g # shift + 1
      <4>1. names'[g] = names[g] /\ names'[h] = names[shift] /\ g < shift
        BY <1>1, <1>2, <2>2, <3>2
      <4> QED BY <1>1, <2>2, <4>1 DEF FilesInv, Aged
    <3>3. CASE h # shift + 1 /\ g # shift + 1
      BY <1>1, <1>2, <2>2, <3>3 DEF FilesInv, Aged
    <3> QED BY <3>1, <3>2, <3>3
  <2> QED BY <2>1, <2>2 DEF Aged
<1>4. NewestNamed'
  <2> SUFFICES ASSUME trouble \cap {"shift", "reopen"} = {}, NEW f \in 1..made, NEW g \in Generations,
                      names'[g] # NoFile, names'[g] < f
               PROVE  f \in Range(names')
    BY DEF NewestNamed
  <2>1. PICK h \in Generations : names[h] # NoFile /\ names[h] < f
    BY <1>1, <1>2
  <2>2. f \in Range(names)
    BY <2>1 DEF FilesInv, NewestNamed
  <2>3. PICK k \in Generations : names[k] = f
    BY <1>1, <2>2 DEF Range
  <2>4. names[shift + 1] = NoFile /\ f # NoFile
    BY DEF FilesInv, Moving, NoFile
  <2>5. \E j \in Generations : names'[j] = f
    BY <1>1, <1>2, <2>3, <2>4
  <2> QED BY <1>2, <2>5 DEF Range
<1> QED BY <1>2, <1>3, <1>4

LEMMA RotateMoveKeepsFiles == ASSUME LogTypeInv, FilesInv, RotateMove PROVE FilesInv'
<1>1. /\ keep \in Nat /\ shift \in Nat /\ shift < keep /\ Generations \subseteq Nat
      /\ \A g \in 0..keep : g \in Generations
      /\ task = "move" /\ UNCHANGED <<keep, handle, made>> /\ \A n : Nth(n)' = Nth(n)
  BY GenerationsAre DEF LogTypeInv, RotateMove, Stay, FilesInv, Moving, Nth
<1>2. CASE shift > 0 /\ shift' = shift - 1 /\ task' = task /\ names[shift] # NoFile /\ Move(shift) /\ trouble' = trouble
  <2>1. /\ Aged' /\ NewestNamed'
        /\ names'[shift] = NoFile /\ names'[shift + 1] = names[shift]
        /\ \A g \in Generations : g \notin {shift, shift + 1} => names'[g] = names[g]
    BY <1>1, <1>2, MoveKeepsAge
  <2>2. names'[0] = names[0]
    BY <1>1, <1>2, <2>1, GenerationsAre
  <2>3. Newest' /\ Moving'
    BY <1>1, <1>2, <2>1, <2>2 DEF FilesInv, Newest, Moving
  <2>4. Contiguous'
    <3> SUFFICES ASSUME keep > 0, trouble \cap {"shift", "reopen", "move", "crash"} = {}, NEW g \in 0..keep
                 PROVE  (g <= shift - 1 => names'[g] = Nth(g)) /\ (g > (shift - 1) + 1 => names'[g] = Nth(g - 1))
      BY <1>1, <1>2 DEF Contiguous
    <3>1. \A j \in 0..keep : /\ j <= shift => names[j] = Nth(j)
                             /\ j > shift + 1 => names[j] = Nth(j - 1)
      BY <1>1, <1>2 DEF FilesInv, Contiguous
    <3>2. CASE g <= shift - 1
      BY <1>1, <2>1, <3>1, <3>2
    <3>3. CASE g = shift + 1
      <4>1. names[shift] = Nth(shift) /\ g - 1 = shift
        BY <1>1, <3>1, <3>3
      <4> QED BY <1>1, <2>1, <3>3, <4>1
    <3>4. CASE g > shift + 1
      BY <1>1, <2>1, <3>1, <3>4
    <3> QED BY <1>1, <3>2, <3>3, <3>4
  <2> QED BY <2>1, <2>3, <2>4 DEF FilesInv
<1>3. CASE /\ shift > 0 /\ shift' = shift - 1 /\ task' = task /\ names' = names
           /\ names[shift] # NoFile /\ trouble' = trouble \cup {"shift"}
  <2>1. Newest' /\ Aged' /\ NewestNamed' /\ Contiguous'
    BY <1>1, <1>3 DEF FilesInv, Newest, Aged, NewestNamed, Contiguous
  <2>2. Moving'
    BY <1>1, <1>3 DEF Moving
  <2> QED BY <2>1, <2>2 DEF FilesInv
<1>4. CASE /\ shift > 0 /\ shift' = shift - 1 /\ task' = task /\ names[shift] = NoFile
           /\ names' = names /\ trouble' = trouble
  <2>1. Newest' /\ Aged' /\ NewestNamed'
    BY <1>1, <1>4 DEF FilesInv, Newest, Aged, NewestNamed, Range
  <2>2. Moving'
    BY <1>1, <1>4 DEF Moving
  <2>3. Contiguous'
    <3> SUFFICES ASSUME keep > 0, trouble \cap {"shift", "reopen", "move", "crash"} = {}, NEW g \in 0..keep
                 PROVE  (g <= shift - 1 => names[g] = Nth(g)) /\ (g > (shift - 1) + 1 => names[g] = Nth(g - 1))
      BY <1>1, <1>4 DEF Contiguous
    <3>1. \A j \in 0..keep : /\ j <= shift => names[j] = Nth(j)
                             /\ j > shift + 1 => names[j] = Nth(j - 1)
      BY <1>1 DEF FilesInv, Contiguous
    <3>2. CASE g <= shift - 1
      BY <1>1, <3>1, <3>2
    <3>3. CASE g = shift + 1
      <4>1. ~(g <= shift - 1) /\ g - 1 = shift /\ shift \in 0..keep
        BY <1>1, <3>3
      <4>2. names[g] = NoFile
        BY <1>1, <3>3 DEF FilesInv, Moving
      <4>3. Nth(g - 1) = NoFile
        BY <1>1, <1>4, <3>1, <4>1
      <4> QED BY <4>1, <4>2, <4>3
    <3>4. CASE g > shift + 1
      BY <1>1, <3>1, <3>4
    <3> QED BY <1>1, <3>2, <3>3, <3>4
  <2> QED BY <2>1, <2>2, <2>3 DEF FilesInv
<1>5. CASE shift = 0 /\ names[0] # NoFile /\ Move(0) /\ task' = "reopen" /\ UNCHANGED <<shift, trouble>>
  <2>1. /\ Aged' /\ NewestNamed'
        /\ names'[0] = NoFile /\ names'[1] = names[0]
        /\ \A g \in Generations : g \notin {0, 1} => names'[g] = names[g]
    BY <1>1, <1>5, MoveKeepsAge
  <2>2. Newest' /\ Moving'
    BY <1>1, <1>5, <2>1 DEF FilesInv, Newest, Moving, HasFile
  <2>3. Contiguous'
    <3> SUFFICES ASSUME keep > 0, trouble \cap {"shift", "reopen", "move", "crash"} = {}, NEW g \in 1..keep
                 PROVE  names'[g] = Nth(g - 1)
      BY <1>1, <1>5 DEF Contiguous
    <3>1. \A j \in 0..keep : /\ j <= 0 => names[j] = Nth(j)
                             /\ j > 1 => names[j] = Nth(j - 1)
      BY <1>1, <1>5 DEF FilesInv, Contiguous
    <3>2. CASE g = 1
      <4>1. names[0] = Nth(0) /\ g - 1 = 0
        BY <1>1, <3>1, <3>2
      <4> QED BY <2>1, <3>2, <4>1
    <3>3. CASE g > 1
      BY <1>1, <2>1, <3>1, <3>3
    <3> QED BY <1>1, <3>2, <3>3
  <2> QED BY <2>1, <2>2, <2>3 DEF FilesInv
<1> QED BY <1>2, <1>3, <1>4, <1>5 DEF RotateMove, Took

-----------------------------------------------------------------------------
(* The records.                                                            *)

LEMMA RecordsAreNumbers ==
  ASSUME LogTypeInv
  PROVE  /\ Range(queue) \subseteq Nat /\ Range(batch) \subseteq Nat /\ sent \in Nat /\ made \in Nat /\ due \in Nat
         /\ \A f \in 1..MaxInodes : content[f] \in Seq(Nat) /\ Range(content[f]) \subseteq Nat
         /\ DOMAIN taken = 1..Len(taken) /\ Len(taken) \in Nat
<1>1. \A s \in Seq(Nat) : Range(s) \subseteq Nat /\ DOMAIN s = 1..Len(s) /\ Len(s) \in Nat
  <2> SUFFICES ASSUME NEW s \in Seq(Nat), NEW r \in Range(s)
               PROVE  r \in Nat
    BY LenProperties
  <2>1. PICK i \in DOMAIN s : s[i] = r
    BY DEF Range
  <2> QED BY <2>1, LenProperties, ElementOfSeq
<1> QED BY <1>1, AuditAssumption DEF LogTypeInv

LEMMA Nothing == /\ <<>> \in Seq(Nat) /\ Range(<<>>) = {} /\ Growing(<<>>)
                 /\ \A s : Below(s, <<>>) /\ Below(<<>>, s)
<1>1. <<>> \in Seq(Nat) /\ DOMAIN <<>> = {}
  OBVIOUS
<1>2. Range(<<>>) = {}
  BY <1>1 DEF Range
<1> QED BY <1>1, <1>2 DEF Growing, Below

LEMMA Dropped ==
  ASSUME NEW q \in Seq(Nat), q # <<>>
  PROVE  /\ Tail(q) \in Seq(Nat) /\ Range(Tail(q)) \subseteq Range(q)
         /\ Growing(q) => Growing(Tail(q))
<1> DEFINE m == Len(q)
           t == Tail(q)
<1>1. /\ m \in Nat \ {0} /\ DOMAIN q = 1..m /\ t \in Seq(Nat) /\ DOMAIN t = 1..(m - 1)
      /\ \A i \in 1..(m - 1) : t[i] = q[i + 1]
  <2>1. m \in Nat \ {0} /\ DOMAIN q = 1..m
    BY LenProperties, EmptySeq
  <2>2. t \in Seq(Nat) /\ Len(t) = m - 1 /\ \A i \in 1..(m - 1) : t[i] = q[i + 1]
    BY HeadTailProperties
  <2> QED BY <2>1, <2>2, LenProperties
<1> HIDE DEF m, t
<1>2. \A i \in 1..(m - 1) : i + 1 \in 1..m
  BY <1>1
<1>3. Range(t) \subseteq Range(q)
  BY <1>1, <1>2 DEF Range
<1>4. Growing(q) => Growing(t)
  <2> SUFFICES ASSUME Growing(q), NEW i \in 1..(m - 1), NEW j \in 1..(m - 1), i < j PROVE t[i] < t[j]
    BY <1>1 DEF Growing
  <2>1. i + 1 < j + 1
    BY <1>1
  <2> QED BY <1>1, <1>2, <2>1 DEF Growing
<1> QED BY <1>1, <1>3, <1>4 DEF t

(* Steps that move no record.                                              *)
LEMMA RecordsStay ==
  ASSUME LogTypeInv, RecordsInv, UNCHANGED <<sent, queue, taken, batch, content, stop, due>>,
         trouble \subseteq trouble', made' \in Nat, made' >= made,
         task' \notin Batched \cup {"drain", "stopped"}, task \notin Batched
  PROVE  RecordsInv'
<1>1. InOrder'
  <2>1. \A f \in 1..MaxInodes : f > made' => f > made
    BY RecordsAreNumbers
  <2> QED BY <2>1 DEF RecordsInv, InOrder
<1>2. Accounted'
  <2> SUFFICES ASSUME trouble' \cap {"open", "write", "crash"} = {} PROVE Accounted'
    BY DEF Accounted
  <2>1. \A r : OnFile(r)' = OnFile(r)
    BY DEF OnFile
  <2> QED BY <2>1 DEF RecordsInv, Accounted, Batched
<1> QED BY <1>1, <1>2 DEF RecordsInv

(* A file that is made is empty, as its inode was.                         *)
LEMMA OpenLiveKeepsContent ==
  ASSUME LogTypeInv, RecordsInv, OpenLive
  PROVE  /\ content' = content /\ names' \in [Generations -> Nat]
         /\ made' \in 0..MaxInodes /\ made' \in Nat /\ made' >= made
<1>1. made \in 0..MaxInodes /\ made \in Nat /\ MaxInodes \in Nat
  BY AuditAssumption DEF LogTypeInv
<1>2. CASE names[0] # NoFile /\ handle' = names[0] /\ UNCHANGED <<names, content, made>>
  BY <1>1, <1>2 DEF LogTypeInv
<1>3. CASE /\ names[0] = NoFile /\ made < MaxInodes
           /\ made' = made + 1 /\ handle' = made' /\ names' = [names EXCEPT ![0] = made']
           /\ content' = [content EXCEPT ![made'] = <<>>]
  <2>1. made + 1 \in 1..MaxInodes /\ made + 1 > made
    BY <1>1, <1>3
  <2>2. content[made + 1] = <<>>
    BY <2>1 DEF RecordsInv, InOrder
  <2>3. content' = content
    BY <1>3, <2>1, <2>2 DEF LogTypeInv
  <2>4. made + 1 \in Nat /\ made' = made + 1 /\ names' = [names EXCEPT ![0] = made + 1]
    BY <1>1, <1>3
  <2>5. names' \in [Generations -> Nat]
    BY <2>4 DEF LogTypeInv
  <2> QED BY <1>1, <2>1, <2>3, <2>4, <2>5
<1> QED BY <1>2, <1>3 DEF OpenLive

LEMMA WriteKeepsRecords == ASSUME LogTypeInv, RecordsInv, Write PROVE LogTypeInv' /\ RecordsInv'
<1> DEFINE e == sent + 1
           n == Len(taken)
<1>1. /\ sent' = e /\ e \in Nat /\ n \in Nat /\ \A r \in Nat : r <= sent => r < e /\ r <= e
      /\ UNCHANGED <<keep, task, batch, names, content, handle, made, shift, stop, due, trouble>>
      /\ Range(queue) \subseteq Nat /\ Range(batch) \subseteq Nat /\ due \in Nat /\ DOMAIN taken = 1..n
      /\ \A f \in 1..MaxInodes : Range(content[f]) \subseteq Nat
  BY RecordsAreNumbers DEF Write, disk
<1>2. \A r : OnFile(r)' = OnFile(r)
  BY <1>1 DEF OnFile
<1>3. CASE queue' = Append(queue, sent') /\ taken' = Append(taken, sent')
  <2>1. /\ queue' = Append(queue, e) /\ taken' = Append(taken, e)
        /\ queue \in Seq(Nat) /\ taken \in Seq(Nat)
    BY <1>1, <1>3 DEF LogTypeInv
  <2> HIDE DEF e
  <2>2. /\ queue' \in Seq(Nat) /\ Range(queue') = Range(queue) \cup {e}
        /\ Growing(queue) /\ (\A r \in Range(queue) : r < e) => Growing(queue')
    BY <1>1, <2>1, Appended
  <2>3. /\ taken' \in Seq(Nat) /\ DOMAIN taken' = 1..(n + 1) /\ Len(taken') = n + 1
        /\ taken'[n + 1] = e /\ \A i \in 1..n : taken'[i] = taken[i]
    BY <1>1, <2>1, Appended, AppendProperties
  <2>4. LogTypeInv'
    <3>1. due <= n /\ due' = due /\ sent' \in Nat
      BY <1>1 DEF LogTypeInv
    <3>2. due' <= Len(taken')
      BY <1>1, <2>3, <3>1
    <3> HIDE DEF n
    <3> QED BY <1>1, <2>2, <2>3, <3>1, <3>2 DEF LogTypeInv
  <2>5. InOrder'
    <3>1. Growing(queue') /\ \A r \in Range(queue') : r <= e
      BY <1>1, <2>2 DEF RecordsInv, InOrder
    <3>2. task \in Batched => Growing(batch) /\ Below(batch, queue') /\ \A r \in Range(batch) : r <= e
      BY <1>1, <2>2 DEF RecordsInv, InOrder, Below
    <3>3. \A f \in 1..MaxInodes : Below(content[f], queue') /\ \A r \in Range(content[f]) : r <= e
      BY <1>1, <2>2 DEF RecordsInv, InOrder, Below
    <3> QED BY <1>1, <3>1, <3>2, <3>3 DEF RecordsInv, InOrder
  <2>6. Accounted'
    <3> SUFFICES ASSUME trouble \cap {"open", "write", "crash"} = {}, NEW i \in 1..(n + 1)
                 PROVE  /\ task # "drain" /\ (task \in {"last", "stopped"} => stop)
                        /\ \/ OnFile(taken'[i])
                           \/ task \in Batched /\ taken'[i] \in Range(batch)
                           \/ taken'[i] \in Range(queue') /\ (task \in {"last", "stopped"} => i > due)
      <4>1. n + 1 \in 1..(n + 1)
        BY <1>1
      <4> QED BY <1>1, <1>2, <2>3, <4>1 DEF Accounted
    <3>1. CASE i \in 1..n
      BY <1>1, <2>2, <2>3, <3>1 DEF RecordsInv, Accounted
    <3>2. CASE i = n + 1
      <4>1. taken'[i] \in Range(queue')
        BY <2>2, <2>3, <3>2
      <4>2. i > due
        BY <1>1, <3>2 DEF LogTypeInv
      <4> QED BY <4>1, <4>2 DEF RecordsInv, Accounted
    <3> QED BY <1>1, <3>1, <3>2
  <2> QED BY <2>4, <2>5, <2>6 DEF RecordsInv
<1>4. CASE UNCHANGED <<queue, taken>>
  <2>1. LogTypeInv'
    BY <1>1, <1>4 DEF LogTypeInv
  <2>2. InOrder'
    BY <1>1, <1>4 DEF RecordsInv, InOrder
  <2>3. Accounted'
    BY <1>1, <1>2, <1>4 DEF RecordsInv, Accounted
  <2> QED BY <2>1, <2>2, <2>3 DEF RecordsInv
<1> QED BY <1>3, <1>4 DEF Write

LEMMA ShutdownKeepsRecords == ASSUME LogTypeInv, RecordsInv, Shutdown PROVE LogTypeInv' /\ RecordsInv'
<1>1. /\ ~stop /\ stop' = TRUE /\ due' = Len(taken)
      /\ UNCHANGED <<keep, sent, queue, taken, task, batch, names, content, handle, made, shift, trouble>>
  BY DEF Shutdown, calls, disk
<1>2. LogTypeInv'
  BY <1>1, RecordsAreNumbers DEF LogTypeInv
<1>3. InOrder'
  BY <1>1 DEF RecordsInv, InOrder
<1>4. Accounted'
  <2>1. \A r : OnFile(r)' = OnFile(r)
    BY <1>1 DEF OnFile
  <2> QED BY <1>1, <2>1 DEF RecordsInv, Accounted
<1> QED BY <1>2, <1>3, <1>4 DEF RecordsInv

LEMMA OpenFailsKeepsRecords == ASSUME LogTypeInv, RecordsInv, OpenFails PROVE LogTypeInv' /\ RecordsInv'
<1>1. /\ task' = "drain" /\ trouble' = trouble \cup {"open"}
      /\ UNCHANGED <<keep, sent, queue, taken, batch, names, content, handle, made, shift, stop, due>>
  BY DEF OpenFails, calls, disk, Took
<1>2. LogTypeInv'
  BY <1>1 DEF LogTypeInv, Tasks
<1>3. InOrder'
  BY <1>1 DEF RecordsInv, InOrder, Batched
<1>4. Accounted'
  BY <1>1 DEF Accounted
<1> QED BY <1>2, <1>3, <1>4 DEF RecordsInv

LEMMA RestartKeepsRecords == ASSUME LogTypeInv, RecordsInv, Restart PROVE LogTypeInv' /\ RecordsInv'
<1>1. /\ task' = "open" /\ trouble' = trouble \cup {"crash"} /\ queue' = <<>> /\ batch' = <<>> /\ stop' = FALSE
      /\ UNCHANGED <<keep, sent, taken, names, content, made, shift, due>>
  BY DEF Restart, Took
<1>2. LogTypeInv'
  BY <1>1, Nothing DEF LogTypeInv, Tasks
<1>3. InOrder'
  BY <1>1, Nothing DEF RecordsInv, InOrder, Batched
<1>4. Accounted'
  BY <1>1 DEF Accounted
<1> QED BY <1>2, <1>3, <1>4 DEF RecordsInv

LEMMA DiscardKeepsRecords == ASSUME LogTypeInv, RecordsInv, Discard PROVE LogTypeInv' /\ RecordsInv'
<1>1. /\ task = "drain" /\ task' \in {"stopped", "drain"} /\ queue' \in Seq(Nat)
      /\ Range(queue') \subseteq Range(queue) /\ (Growing(queue) => Growing(queue'))
      /\ UNCHANGED <<keep, sent, taken, batch, names, content, handle, made, shift, stop, due, trouble>>
  BY Dropped DEF Discard, disk, LogTypeInv
<1>2. LogTypeInv'
  BY <1>1 DEF LogTypeInv, Tasks
<1>3. InOrder'
  BY <1>1 DEF RecordsInv, InOrder, Batched, Below
<1>4. Accounted'
  BY <1>1 DEF RecordsInv, Accounted
<1> QED BY <1>2, <1>3, <1>4 DEF RecordsInv

LEMMA SelectKeepsRecords == ASSUME LogTypeInv, RecordsInv, Select PROVE LogTypeInv' /\ RecordsInv'
<1>1. /\ task = "select" /\ queue \in Seq(Nat)
      /\ UNCHANGED <<keep, sent, taken, names, content, handle, made, shift, stop, due, trouble>>
      /\ \A r : OnFile(r)' = OnFile(r)
  BY DEF Select, disk, LogTypeInv, OnFile
<1>2. CASE stop /\ batch' = queue /\ queue' = <<>> /\ task' = "last"
  <2>1. LogTypeInv'
    BY <1>1, <1>2, Nothing DEF LogTypeInv, Tasks
  <2>2. InOrder'
    BY <1>1, <1>2, Nothing DEF RecordsInv, InOrder, Batched
  <2>3. Accounted'
    BY <1>1, <1>2 DEF RecordsInv, Accounted, Batched
  <2> QED BY <2>1, <2>2, <2>3 DEF RecordsInv
<1>3. CASE /\ task' = "write"
           /\ \E n \in 1..Len(queue) : batch' = SubSeq(queue, 1, n) /\ queue' = SubSeq(queue, n + 1, Len(queue))
  <2>1. PICK n \in 0..Len(queue) : batch' = SubSeq(queue, 1, n) /\ queue' = SubSeq(queue, n + 1, Len(queue))
    <3>1. 1..Len(queue) \subseteq 0..Len(queue)
      BY <1>1, LenProperties
    <3> QED BY <1>3, <3>1
  <2>2. /\ batch' \in Seq(Nat) /\ queue' \in Seq(Nat) /\ Range(queue) = Range(batch') \cup Range(queue')
        /\ Growing(queue) => Growing(batch') /\ Growing(queue') /\ Below(batch', queue')
    <3>1. queue \in Seq(Nat) /\ n \in 0..Len(queue)
      BY <1>1
    <3>2. \A a, b : a = SubSeq(queue, 1, n) /\ b = SubSeq(queue, n + 1, Len(queue)) =>
                    /\ a \in Seq(Nat) /\ b \in Seq(Nat) /\ Range(queue) = Range(a) \cup Range(b)
                    /\ Growing(queue) => Growing(a) /\ Growing(b) /\ Below(a, b)
      BY ONLY <3>1, Split
    <3> QED BY ONLY <2>1, <3>2
  <2>3. LogTypeInv'
    BY <1>1, <1>3, <2>2 DEF LogTypeInv, Tasks
  <2>4. InOrder'
    BY <1>1, <1>3, <2>2 DEF RecordsInv, InOrder, Batched, Below
  <2>5. Accounted'
    BY <1>1, <1>3, <2>2 DEF RecordsInv, Accounted, Batched
  <2> QED BY <2>3, <2>4, <2>5 DEF RecordsInv
<1> QED BY <1>2, <1>3 DEF Select

(* All of the batch, or what a failed write left of it, is put on the      *)
(* newest inode.                                                           *)
LEMMA PutKeepsOrder ==
  ASSUME LogTypeInv, RecordsInv, handle = made, made \in 1..MaxInodes, task \in Batched,
         NEW records \in Seq(Nat), Range(records) \subseteq Range(batch), Growing(records), Put(records),
         UNCHANGED <<sent, queue, made>>, task' \notin Batched
  PROVE  /\ InOrder' /\ content' \in [1..MaxInodes -> Seq(Nat)]
         /\ \A f \in 1..MaxInodes : Range(content[f]) \subseteq Range(content'[f])
         /\ Range(records) \subseteq Range(content'[made])
<1>1. /\ MaxInodes \in Nat /\ made \in Nat /\ sent \in Nat /\ content \in [1..MaxInodes -> Seq(Nat)]
      /\ Range(queue) \subseteq Nat /\ Range(batch) \subseteq Nat
      /\ \A f \in 1..MaxInodes : content[f] \in Seq(Nat) /\ Range(content[f]) \subseteq Nat
  BY RecordsAreNumbers, AuditAssumption DEF LogTypeInv
<1>2. content' = [content EXCEPT ![made] = content[made] \o records]
  BY DEF Put
<1>3. /\ content[made] \o records \in Seq(Nat)
      /\ Range(content[made] \o records) = Range(content[made]) \cup Range(records)
      /\ Growing(content[made] \o records)
  <2>1. Growing(content[made]) /\ Below(content[made], records)
    BY DEF RecordsInv, InOrder, Below
  <2> QED BY <1>1, <2>1, Joined
<1>4. /\ content' \in [1..MaxInodes -> Seq(Nat)]
      /\ content'[made] = content[made] \o records
      /\ \A f \in 1..MaxInodes : f # made => content'[f] = content[f]
  BY <1>1, <1>2, <1>3
<1>5. ASSUME NEW f \in 1..MaxInodes
      PROVE  /\ Growing(content'[f]) /\ Below(content'[f], queue) /\ \A r \in Range(content'[f]) : r <= sent
             /\ f > made => content'[f] = <<>>
             /\ f # made => Below(content'[f], records)
  <2>1. CASE f = made
    <3>1. content'[f] = content[made] \o records /\ ~(f > made)
      BY <1>1, <1>4, <2>1
    <3>2. \A r \in Range(content'[f]) : r \in Range(content[made]) \/ r \in Range(batch)
      BY <1>3, <3>1
    <3>3. Below(content'[f], queue) /\ \A r \in Range(content'[f]) : r <= sent
      BY <3>2 DEF RecordsInv, InOrder, Below
    <3> QED BY <1>3, <2>1, <3>1, <3>3
  <2>2. CASE f # made
    BY <1>4, <2>2 DEF RecordsInv, InOrder, Below
  <2> QED BY <2>1, <2>2
<1>6. ASSUME NEW f \in 1..MaxInodes, NEW g \in 1..MaxInodes, f < g PROVE Below(content'[f], content'[g])
  <2>1. CASE g = made
    BY <1>3, <1>4, <1>5, <1>6, <2>1 DEF RecordsInv, InOrder, Below
  <2>2. CASE f = made
    <3>1. content'[g] = <<>>
      BY <1>1, <1>5, <1>6, <2>2
    <3> QED BY <3>1, Nothing
  <2>3. CASE f # made /\ g # made
    BY <1>4, <1>6, <2>3 DEF RecordsInv, InOrder
  <2> QED BY <2>1, <2>2, <2>3
<1>7. InOrder'
  BY <1>5, <1>6 DEF RecordsInv, InOrder
<1> QED BY <1>3, <1>4, <1>7

LEMMA WriteBatchKeepsRecords ==
  ASSUME LogTypeInv, FilesInv, RecordsInv, WriteBatch PROVE LogTypeInv' /\ RecordsInv'
<1>1. /\ task \in Batched /\ batch \in Seq(Nat) /\ Growing(batch) /\ handle = made /\ made \in 1..MaxInodes
      /\ task' \in {"stopped", "rotate", "select"} /\ (task' = "stopped" => task = "last")
      /\ UNCHANGED <<keep, sent, queue, taken, batch, names, handle, made, shift, stop, due>>
  <2>1. task \in Batched /\ task \in HasFile
    BY DEF WriteBatch, Batched, HasFile
  <2>2. handle = made /\ made > 0 /\ made \in 0..MaxInodes
    BY <2>1 DEF FilesInv, Newest, LogTypeInv
  <2>3. made \in 1..MaxInodes
    BY <2>2, AuditAssumption
  <2> QED BY <2>1, <2>2, <2>3 DEF WriteBatch, calls, LogTypeInv, RecordsInv, InOrder
<1>2. task' \notin Batched /\ task' \in Tasks
  BY <1>1 DEF Batched, Tasks
<1>3. CASE Put(batch) /\ UNCHANGED trouble
  <2>1. /\ InOrder' /\ content' \in [1..MaxInodes -> Seq(Nat)]
        /\ \A f \in 1..MaxInodes : Range(content[f]) \subseteq Range(content'[f])
        /\ Range(batch) \subseteq Range(content'[made])
    BY <1>1, <1>2, <1>3, PutKeepsOrder
  <2>2. LogTypeInv'
    BY <1>1, <1>2, <2>1 DEF LogTypeInv
  <2>3. Accounted'
    <3>1. ASSUME trouble \cap {"open", "write", "crash"} = {}
          PROVE  task' # "drain" /\ (task' \in {"last", "stopped"} => stop)
      BY <1>1, <3>1 DEF RecordsInv, Accounted
    <3>2. ASSUME trouble \cap {"open", "write", "crash"} = {}, NEW i \in DOMAIN taken
          PROVE  \/ OnFile(taken[i])'
                 \/ taken[i] \in Range(queue) /\ (task' \in {"last", "stopped"} => i > due)
      <4>1. OnFile(taken[i]) \/ taken[i] \in Range(batch) => OnFile(taken[i])'
        BY <1>1, <2>1 DEF OnFile
      <4> QED BY <1>1, <3>2, <4>1 DEF RecordsInv, Accounted
    <3> QED BY <1>1, <1>3, <3>1, <3>2 DEF Accounted
  <2> QED BY <2>1, <2>2, <2>3 DEF RecordsInv
<1>4. CASE \E n \in 0..(Len(batch) - 1) : Put(SubSeq(batch, 1, n)) /\ Took("write")
  <2>1. PICK n \in 0..(Len(batch) - 1) : Put(SubSeq(batch, 1, n)) /\ Took("write")
    BY <1>4
  <2>2. n \in 0..Len(batch)
    BY <1>1, LenProperties
  <2> DEFINE part == SubSeq(batch, 1, n)
  <2>3. part \in Seq(Nat) /\ Range(part) \subseteq Range(batch) /\ Growing(part)
    <3>1. \A a, b : a = SubSeq(batch, 1, n) /\ b = SubSeq(batch, n + 1, Len(batch)) =>
                    /\ a \in Seq(Nat) /\ b \in Seq(Nat) /\ Range(batch) = Range(a) \cup Range(b)
                    /\ Growing(batch) => Growing(a) /\ Growing(b) /\ Below(a, b)
      <4>1. batch \in Seq(Nat)
        BY <1>1
      <4> QED BY ONLY <2>2, <4>1, Split
    <3> QED BY <1>1, <3>1
  <2>4. Put(part)
    BY <2>1
  <2> HIDE DEF part
  <2>5. InOrder' /\ content' \in [1..MaxInodes -> Seq(Nat)]
    BY <1>1, <1>2, <2>3, <2>4, PutKeepsOrder
  <2>6. LogTypeInv'
    BY <1>1, <1>2, <2>5 DEF LogTypeInv
  <2>7. Accounted'
    BY <2>1 DEF Accounted, Took
  <2> QED BY <2>5, <2>6, <2>7 DEF RecordsInv
<1> QED BY <1>3, <1>4 DEF WriteBatch

(* What opens files and renames them moves no record.                      *)
LEMMA OpenFirstKeepsRecords == ASSUME LogTypeInv, RecordsInv, OpenFirst PROVE LogTypeInv' /\ RecordsInv'
<1>1. /\ task = "open" /\ OpenLive /\ task' = "select"
      /\ UNCHANGED <<keep, sent, queue, taken, batch, shift, stop, due, trouble>>
  BY DEF OpenFirst, calls
<1>2. /\ content' = content /\ names' \in [Generations -> Nat]
      /\ made' \in 0..MaxInodes /\ made' \in Nat /\ made' >= made
  BY <1>1, OpenLiveKeepsContent
<1>3. LogTypeInv'
  BY <1>1, <1>2 DEF LogTypeInv, Tasks
<1>4. RecordsInv'
  BY <1>1, <1>2, RecordsStay DEF Batched
<1> QED BY <1>3, <1>4

LEMMA ReopenKeepsRecords == ASSUME LogTypeInv, RecordsInv, Reopen PROVE LogTypeInv' /\ RecordsInv'
<1>1. /\ task = "reopen" /\ OpenLive /\ task' = "select"
      /\ UNCHANGED <<keep, sent, queue, taken, batch, shift, stop, due, trouble>>
  BY DEF Reopen, calls
<1>2. /\ content' = content /\ names' \in [Generations -> Nat]
      /\ made' \in 0..MaxInodes /\ made' \in Nat /\ made' >= made
  BY <1>1, OpenLiveKeepsContent
<1>3. LogTypeInv'
  BY <1>1, <1>2 DEF LogTypeInv, Tasks
<1>4. RecordsInv'
  BY <1>1, <1>2, RecordsStay DEF Batched
<1> QED BY <1>3, <1>4

LEMMA RotationKeepsRecords ==
  ASSUME LogTypeInv, FilesInv, RecordsInv, RotateFails \/ RotateBegin \/ RotateMove
  PROVE  LogTypeInv' /\ RecordsInv'
<1>1. /\ task \in {"rotate", "move", "reopen"} /\ task' \in {"select", "move", "reopen"}
      /\ UNCHANGED <<keep, sent, queue, taken, batch, content, handle, made, stop, due>>
      /\ trouble \subseteq trouble'
  BY DEF RotateFails, RotateBegin, RotateMove, Stay, calls, Took
<1>2. keep \in Nat /\ shift \in Nat /\ made \in Nat /\ names \in [Generations -> Nat] /\ NoFile \in Nat
  BY GenerationsAre, RecordsAreNumbers DEF LogTypeInv, NoFile
<1>3. shift' \in Nat
  BY <1>2 DEF RotateFails, RotateBegin, RotateMove
<1>4. names' \in [Generations -> Nat]
  <2>1. CASE RotateMove
    <3>1. shift \in 0..keep /\ shift \in Generations
      BY <1>2, <2>1, GenerationsAre DEF RotateMove, FilesInv, Moving
    <3>2. CASE names' = names
      BY <1>2, <3>2
    <3>3. CASE Move(shift)
      BY <1>2, <3>1, <3>3 DEF Move
    <3> QED BY <2>1, <3>2, <3>3 DEF RotateMove
  <2>2. CASE RotateFails \/ RotateBegin
    BY <1>2, <2>2 DEF RotateFails, RotateBegin
  <2> QED BY <2>1, <2>2
<1>5. LogTypeInv'
  BY <1>1, <1>3, <1>4 DEF LogTypeInv, Tasks
<1>6. RecordsInv'
  BY <1>1, <1>2, RecordsStay DEF Batched
<1> QED BY <1>5, <1>6

-----------------------------------------------------------------------------
(* Every step keeps the log in order.                                      *)

LEMMA LogStart == ASSUME LogInit PROVE LogInv
<1>1. /\ keep \in Keeps /\ sent = 0 /\ queue = <<>> /\ taken = <<>> /\ task = "open" /\ batch = <<>>
      /\ names = [g \in Generations |-> NoFile] /\ content = [i \in 1..MaxInodes |-> <<>>]
      /\ made = 0 /\ shift = 0 /\ stop = FALSE /\ due = 0 /\ NoFile = 0
  BY DEF LogInit, NoFile
<1>2. Keeps \subseteq Nat /\ MaxInodes \in Nat
  BY AuditAssumption
<1>3. LogTypeInv
  <2>1. Len(<<>>) = 0 /\ 0 <= 0 /\ 0 \in 0..MaxInodes
    BY <1>2
  <2> QED BY <1>1, <2>1, Nothing DEF LogTypeInv, Tasks
<1>4. keep \in Nat /\ 0 \in Generations /\ Generations \subseteq Nat /\ \A g \in 0..keep : g \in Generations
  BY <1>3, GenerationsAre
<1>5. Newest /\ Aged /\ Moving /\ NewestNamed
  BY <1>1, <1>4 DEF Newest, Aged, Moving, NewestNamed, HasFile
<1>6. Contiguous
  BY <1>1, <1>4 DEF Contiguous, Nth
<1>7. InOrder
  BY <1>1, Nothing DEF InOrder, Batched
<1>8. Accounted
  BY <1>1 DEF Accounted
<1> QED BY <1>3, <1>5, <1>6, <1>7, <1>8 DEF LogInv, FilesInv, RecordsInv

LEMMA LogStep == ASSUME LogInv, [LogNext]_logVars PROVE LogInv'
<1> USE DEF LogInv
<1>1. CASE Write
  <2>1. FilesInv'
    BY <1>1, NamesStay DEF Write, disk
  <2> QED BY <1>1, <2>1, WriteKeepsRecords
<1>2. CASE Shutdown
  <2>1. FilesInv'
    BY <1>2, NamesStay DEF Shutdown, disk
  <2> QED BY <1>2, <2>1, ShutdownKeepsRecords
<1>3. CASE OpenFirst
  <2>1. FilesInv'
    BY <1>3, OpenLiveKeepsFiles DEF OpenFirst
  <2> QED BY <1>3, <2>1, OpenFirstKeepsRecords
<1>4. CASE OpenFails
  <2>1. FilesInv'
    BY <1>4, NamesStay DEF OpenFails, Took, disk, HasFile
  <2> QED BY <1>4, <2>1, OpenFailsKeepsRecords
<1>5. CASE Discard
  <2>1. FilesInv'
    BY <1>5, NamesStay DEF Discard, disk, HasFile
  <2> QED BY <1>5, <2>1, DiscardKeepsRecords
<1>6. CASE Select
  <2>1. FilesInv'
    BY <1>6, NamesStay DEF Select, disk, HasFile
  <2> QED BY <1>6, <2>1, SelectKeepsRecords
<1>7. CASE WriteBatch
  <2>1. /\ UNCHANGED <<keep, names, handle, made>> /\ trouble \subseteq trouble'
        /\ {task, task'} \cap {"move", "reopen"} = {} /\ task \in HasFile
    BY <1>7 DEF WriteBatch, Took, HasFile
  <2>2. FilesInv'
    BY <2>1, NamesStay
  <2> QED BY <1>7, <2>2, WriteBatchKeepsRecords
<1>8. CASE RotateFails
  BY <1>8, RotateFailsKeepsFiles, RotationKeepsRecords
<1>9. CASE RotateBegin
  BY <1>9, RotateBeginKeepsFiles, RotationKeepsRecords
<1>10. CASE RotateMove
  BY <1>10, RotateMoveKeepsFiles, RotationKeepsRecords
<1>11. CASE Reopen
  <2>1. FilesInv'
    BY <1>11, OpenLiveKeepsFiles DEF Reopen
  <2> QED BY <1>11, <2>1, ReopenKeepsRecords
<1>12. CASE Restart
  BY <1>12, RestartKeepsFiles, RestartKeepsRecords
<1>13. CASE UNCHANGED logVars
  <2>1. UNCHANGED <<keep, sent, queue, taken, task, batch, names, content, handle, made, shift, stop, due, trouble>>
    BY <1>13 DEF logVars, calls, disk
  <2>2. LogTypeInv'
    BY <2>1 DEF LogTypeInv
  <2>3. FilesInv'
    BY <2>1, NamesStay
  <2>4. InOrder'
    BY <2>1 DEF RecordsInv, InOrder
  <2>5. Accounted'
    <3>1. \A r : OnFile(r)' = OnFile(r)
      BY <2>1 DEF OnFile
    <3> QED BY <2>1, <3>1 DEF RecordsInv, Accounted
  <2> QED BY <2>2, <2>3, <2>4, <2>5 DEF RecordsInv
<1> QED BY <1>1, <1>2, <1>3, <1>4, <1>5, <1>6, <1>7, <1>8, <1>9, <1>10, <1>11, <1>12, <1>13 DEF LogNext

LEMMA LogInvariant == LogSpec => []LogInv
<1> QED BY LogStart, LogStep, PTL DEF LogSpec

LEMMA OrderOfTheLog == ASSUME LogInv PROVE LogKeepsNewest
<1>1. /\ keep \in Nat /\ Generations \subseteq Nat /\ made \in Nat /\ made \in 0..MaxInodes /\ MaxInodes \in Nat
      /\ \A g \in 0..keep : g \in Generations /\ names[g] \in Nat
      /\ names \in [Generations -> Nat]
      /\ \A f \in 1..MaxInodes : Range(content[f]) \subseteq Nat
  BY GenerationsAre, RecordsAreNumbers, AuditAssumption DEF LogInv, LogTypeInv
<1>2. ASSUME NEW g \in 0..keep, names[g] # NoFile PROVE names[g] \in 1..made /\ names[g] \in 1..MaxInodes
  BY <1>1, <1>2 DEF LogInv, FilesInv, Aged, NoFile
<1>3. ASSUME NEW g \in 0..keep PROVE Growing(Shown(g))
  <2>1. CASE names[g] = NoFile
    BY <2>1, Nothing DEF Shown
  <2>2. CASE names[g] # NoFile
    BY <1>2, <2>2 DEF Shown, LogInv, RecordsInv, InOrder
  <2> QED BY <2>1, <2>2
<1>4. ASSUME NEW g \in 0..keep, NEW newer \in 0..(g - 1) PROVE Below(Shown(g), Shown(newer))
  <2>1. newer \in 0..keep /\ newer < g
    BY <1>1
  <2>2. CASE names[g] = NoFile \/ names[newer] = NoFile
    BY <2>2, Nothing DEF Shown
  <2>3. CASE names[g] # NoFile /\ names[newer] # NoFile
    <3>1. names[g] < names[newer]
      BY <1>1, <2>1, <2>3 DEF LogInv, FilesInv, Aged
    <3> QED BY <1>2, <2>1, <2>3, <3>1 DEF Shown, LogInv, RecordsInv, InOrder
  <2> QED BY <2>2, <2>3
<1>5. ASSUME NEW g \in Generations, names[g] # NoFile, NEW r \in Range(content[names[g]]) PROVE r \in Kept
  <2>1. g \in 0..keep
    BY <1>1, <1>5 DEF LogInv, FilesInv, Aged
  <2>2. r \in Range(Shown(g))
    BY <1>5 DEF Shown
  <2> QED BY <2>1, <2>2 DEF Kept
<1>6. ASSUME trouble \cap {"shift", "reopen"} = {}, NEW f \in 1..made, NEW r \in Range(content[f]),
             NEW old \in Kept, old <= r
      PROVE  r \in Kept
  <2>1. PICK g \in 0..keep : old \in Range(Shown(g))
    BY DEF Kept
  <2>2. names[g] # NoFile
    BY <2>1, Nothing DEF Shown
  <2>3. old \in Range(content[names[g]]) /\ names[g] \in 1..made /\ names[g] \in 1..MaxInodes /\ f \in 1..MaxInodes
    BY <1>1, <1>2, <2>1, <2>2 DEF Shown
  <2>4. CASE names[g] = f
    BY <1>1, <1>5, <2>2, <2>4
  <2>5. CASE names[g] < f
    <3>1. f \in Range(names)
      BY <1>1, <1>6, <2>2, <2>5 DEF LogInv, FilesInv, NewestNamed
    <3>2. PICK h \in Generations : names[h] = f
      BY <1>1, <3>1 DEF Range
    <3> QED BY <1>5, <3>2 DEF NoFile
  <2>6. CASE f < names[g]
    <3>1. r < old
      BY <2>3, <2>6 DEF LogInv, RecordsInv, InOrder, Below
    <3>2. r \in Nat /\ old \in Nat
      BY <1>1, <2>3
    <3> QED BY <1>6, <3>1, <3>2
  <2> QED BY <1>1, <2>3, <2>4, <2>5, <2>6
<1>7. ASSUME trouble \cap {"shift", "reopen", "move", "crash"} = {}, NEW f \in 1..made, f > made - keep
      PROVE  f \in Range(names)
  <2> DEFINE n == made - f
  <2>1. n \in 0..(keep - 1) /\ n < made /\ made - n = f /\ keep > 0 /\ n \in 0..keep /\ n + 1 \in 0..keep /\ (n + 1) - 1 = n
    BY <1>1, <1>7
  <2>2. Nth(n) = f
    BY <2>1 DEF Nth
  <2> HIDE DEF n
  <2>3. \E g \in 0..keep : names[g] = f
    <3>1. CASE task \notin {"move", "reopen"}
      BY <1>7, <2>1, <2>2, <3>1 DEF LogInv, FilesInv, Contiguous
    <3>2. CASE task = "move" /\ n <= shift
      BY <1>7, <2>1, <2>2, <3>2 DEF LogInv, FilesInv, Contiguous
    <3>3. CASE task = "move" /\ n > shift
      <4>1. n + 1 > shift + 1 /\ Nth((n + 1) - 1) = f
        BY <2>1, <2>2, <3>3 DEF LogInv, LogTypeInv
      <4> QED BY <1>7, <2>1, <3>3, <4>1 DEF LogInv, FilesInv, Contiguous
    <3>4. CASE task = "reopen"
      <4>1. n + 1 > 0 /\ Nth((n + 1) - 1) = f
        BY <2>1, <2>2
      <4> QED BY <1>7, <2>1, <3>4, <4>1 DEF LogInv, FilesInv, Contiguous
    <3>5. shift \in Nat /\ n \in Nat
      BY <2>1 DEF LogInv, LogTypeInv
    <3> QED BY <3>1, <3>2, <3>3, <3>4, <3>5
  <2> QED BY <1>1, <2>3 DEF Range
<1> QED BY <1>3, <1>4, <1>6, <1>7 DEF LogKeepsNewest, Growing, Below

(* Read from the oldest generation to the live file the records are in the *)
(* order the tools wrote them, none twice, whatever fails or dies; they    *)
(* are lost from the old end only, and never before `keep` newer files     *)
(* exist, but after the failures that the property names.                  *)
THEOREM OrderKept == LogSpec => []LogKeepsNewest
<1> QED BY LogInvariant, OrderOfTheLog, PTL

(* When the task has stopped, every record that was queued before the      *)
(* signal is on a file, unless the file could not be opened, a write       *)
(* failed or the process died.                                             *)
THEOREM LogDrained == LogSpec => []DrainedAtShutdown
<1>1. ASSUME LogInv PROVE DrainedAtShutdown
  <2> SUFFICES ASSUME task = "stopped", trouble \cap {"open", "write", "crash"} = {}, NEW i \in 1..due
               PROVE  OnFile(taken[i])
    BY DEF DrainedAtShutdown, OnFile
  <2>1. i \in DOMAIN taken /\ ~(i > due)
    BY <1>1, RecordsAreNumbers DEF LogInv, LogTypeInv
  <2> QED BY <1>1, <2>1 DEF LogInv, RecordsInv, Accounted, Batched
<1> QED BY <1>1, LogInvariant, PTL
=============================================================================
