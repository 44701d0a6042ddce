------------------------------ MODULE PtyShells ------------------------------
(***************************************************************************)
(* The PTY shells of one connection (session/pty.rs, `sh` and `interrupt`  *)
(* of tools/run.rs, `shells` of tools/session.rs).                         *)
(*                                                                         *)
(* A shell answers commands one after the other on one byte stream.  A     *)
(* call writes its command and a `printf` of a token only it knows, and    *)
(* reads until that token comes.  The read half is a lock, so calls on one *)
(* shell take turns; a call that gives up leaves in the stream what it did *)
(* not read, so its shell is taken out of the table.                       *)
(*                                                                         *)
(* Output is cut in chunks, a token counting as one; a shell's channel is  *)
(* a call of SessionChannels and succeeds or fails here.                   *)
(***************************************************************************)
EXTENDS Naturals, Sequences, FiniteSets, SequencesExt

CONSTANTS
  Calls,        \* calls of `sh`
  Names,        \* the names the calls use
  Default,      \* the shell of a call without `shell=`
  NameOf,       \* the name each call uses
  Output,       \* how many chunks each call's command prints
  Endless,      \* calls whose command runs until it is interrupted
  MaxShells,    \* bound: shells opened in a behaviour
  MaxNamedPtys, \* MAX_NAMED_PTYS
  MaxCapture    \* chunks a call keeps

NoOne == "nobody"
NoShell == 0
Shells == 1..MaxShells

ASSUME PtyAssumption ==
  /\ Default \in Names /\ IsFiniteSet(Names) /\ NoOne \notin Calls
  /\ NameOf \in [Calls -> Names] /\ Output \in [Calls -> Nat \ {0}]
  /\ Endless \subseteq Calls /\ MaxShells \in Nat /\ MaxNamedPtys \in Nat /\ MaxCapture \in Nat

VARIABLES
  slots,  \* `pty` and `named_ptys`: the shell of each name
  locks,  \* who holds the mutex of `pty`, and that of `named_ptys`
  opened, \* shells opened so far
  reader, \* who holds each shell's read half
  stdin,  \* what was written to each shell and not read by it yet
  job,    \* the call whose command each shell runs, and what is left of it
  wire,   \* each shell's output on its way, in order
  gone,   \* the shells whose stream has ended
  pc,     \* where each call is
  shell,  \* the Arc<PtyState> each call holds
  buf,    \* what each call has read, at most MaxCapture
  cut     \* the calls whose command an interrupt ended

table == <<slots, locks, opened>>
remote == <<stdin, job, wire, gone, cut>>
calls == <<pc, shell, buf>>
vars == <<table, reader, remote, calls>>

Chunk(c, what) == [from |-> c, what |-> what]
Idle == [call |-> NoOne, left |-> 0]
Line(c, what) == [call |-> c, what |-> what]

MutexOf(n) == IF n = Default THEN "pty" ELSE "named_ptys"
Named == {n \in Names \ {Default} : slots[n] # NoShell}
Goto(c, to) == pc' = [pc EXCEPT ![c] = to]

-----------------------------------------------------------------------------
(* Variant: the mutex is let go before the open. *)
LockSlotBriefly(c) ==
  /\ pc[c] = "ensure" /\ locks[MutexOf(NameOf[c])] = NoOne
  /\ LET n == NameOf[c] IN
     \/ /\ slots[n] # NoShell
        /\ shell' = [shell EXCEPT ![c] = slots[n]] /\ Goto(c, "queued")
     \/ /\ slots[n] = NoShell /\ n # Default /\ Cardinality(Named) >= MaxNamedPtys
        /\ Goto(c, "refused") /\ UNCHANGED shell
     \/ /\ slots[n] = NoShell /\ (n = Default \/ Cardinality(Named) < MaxNamedPtys)
        /\ Goto(c, "open") /\ UNCHANGED shell
  /\ UNCHANGED <<table, reader, remote, buf>>

(* `ensure_pty`: the slot's mutex is held across the open.                 *)
LockSlot(c) ==
  /\ pc[c] = "ensure" /\ locks[MutexOf(NameOf[c])] = NoOne
  /\ LET n == NameOf[c] IN
     \/ /\ slots[n] # NoShell
        /\ shell' = [shell EXCEPT ![c] = slots[n]] /\ Goto(c, "queued") /\ UNCHANGED locks
     \/ /\ slots[n] = NoShell /\ n # Default /\ Cardinality(Named) >= MaxNamedPtys
        /\ Goto(c, "refused") /\ UNCHANGED <<shell, locks>>
     \/ /\ slots[n] = NoShell /\ (n = Default \/ Cardinality(Named) < MaxNamedPtys)
        /\ Goto(c, "open") /\ locks' = [locks EXCEPT ![MutexOf(n)] = c] /\ UNCHANGED shell
  /\ UNCHANGED <<slots, opened, reader, remote, buf>>

(* `PtyState::open` until its marker has come: the channel is refused, the *)
(* shell closes or the 15 s pass, or the slot is filled.                   *)
OpenShell(c) ==
  /\ pc[c] = "open"
  /\ locks' = [locks EXCEPT ![MutexOf(NameOf[c])] = NoOne]
  /\ \/ /\ opened < MaxShells /\ opened' = opened + 1
        /\ slots' = [slots EXCEPT ![NameOf[c]] = opened']
        /\ shell' = [shell EXCEPT ![c] = opened'] /\ Goto(c, "queued")
     \/ Goto(c, "refused") /\ UNCHANGED <<opened, slots, shell>>
  /\ UNCHANGED <<reader, remote, buf>>

-----------------------------------------------------------------------------
(* `PtyState::run`.                                                        *)

Payload(c) == <<Line(c, "cmd"), Line(c, "printf")>>

(* Variant: the command is written before the read half is locked. *)
SendUnlocked(c) ==
  /\ \/ /\ pc[c] = "queued" /\ Goto(c, "sent")
        /\ stdin' = [stdin EXCEPT ![shell[c]] = @ \o Payload(c)] /\ UNCHANGED reader
     \/ /\ pc[c] = "sent" /\ reader[shell[c]] = NoOne /\ Goto(c, "read")
        /\ reader' = [reader EXCEPT ![shell[c]] = c] /\ UNCHANGED stdin
  /\ UNCHANGED <<table, job, wire, gone, cut, shell, buf>>

(* "Locks the read half before issuing the write"; a write to a channel    *)
(* that is closed fails.                                                   *)
Send(c) ==
  /\ pc[c] = "queued" /\ reader[shell[c]] = NoOne
  /\ \/ /\ reader' = [reader EXCEPT ![shell[c]] = c] /\ Goto(c, "read")
        /\ stdin' = [stdin EXCEPT ![shell[c]] = @ \o Payload(c)]
     \/ shell[c] \in gone /\ Goto(c, "evict") /\ UNCHANGED <<reader, stdin>>
  /\ UNCHANGED <<table, job, wire, gone, cut, shell, buf>>

Release(c) == reader' = [reader EXCEPT ![shell[c]] = NoOne]

(* Variant: past the cap the oldest output goes. *)
AppendRolling(b, chunk) == IF Len(b) < MaxCapture THEN Append(b, chunk) ELSE Append(Tail(b), chunk)

(* `append_capped`: past the cap what comes is dropped, the token too. *)
AppendCapped(b, chunk) == IF Len(b) < MaxCapture THEN Append(b, chunk) ELSE b

(* `drain_until_terminated`: the token, with its exit code, ends the call. *)
Receive(c) ==
  /\ pc[c] = "read" /\ wire[shell[c]] # <<>>
  /\ LET all == AppendCapped(buf[c], Head(wire[shell[c]])) IN
     /\ wire' = [wire EXCEPT ![shell[c]] = Tail(@)]
     /\ buf' = [buf EXCEPT ![c] = all]
     /\ \/ Chunk(c, "token") \in Range(all) /\ Release(c) /\ Goto(c, "ok")
        \/ Chunk(c, "token") \notin Range(all) /\ UNCHANGED <<reader, pc>>
  /\ UNCHANGED <<table, stdin, job, gone, cut, shell>>

(* Eof, Close or the end of the channel; or the deadline.                  *)
Fail(c) ==
  /\ pc[c] = "read" /\ Release(c) /\ Goto(c, "evict")
  /\ UNCHANGED <<table, remote, shell, buf>>

(* Variant: only a shell that has closed is dropped. *)
EvictIfClosed(c) ==
  /\ pc[c] = "evict" /\ locks[MutexOf(NameOf[c])] = NoOne
  /\ slots' = [slots EXCEPT ![NameOf[c]] = IF shell[c] \in gone THEN NoShell ELSE @]
  /\ Goto(c, "failed")
  /\ UNCHANGED <<locks, opened, reader, remote, shell, buf>>

(* `evict_broken_pty`: whatever the name now stands for is dropped.        *)
Evict(c) ==
  /\ pc[c] = "evict" /\ locks[MutexOf(NameOf[c])] = NoOne
  /\ slots' = [slots EXCEPT ![NameOf[c]] = NoShell]
  /\ Goto(c, "failed")
  /\ UNCHANGED <<locks, opened, reader, remote, shell, buf>>

(* `shells close=<name>`: the table forgets the shell, its calls keep it.  *)
CloseShell(n) ==
  /\ slots[n] # NoShell /\ locks[MutexOf(n)] = NoOne
  /\ slots' = [slots EXCEPT ![n] = NoShell]
  /\ UNCHANGED <<locks, opened, reader, remote, calls>>

(* `interrupt`: Ctrl-C to the shells of the table, one after the other and *)
(* past their read locks; a closed one fails the call and the rest get     *)
(* nothing.  The terminal ends the command and may discard what was typed  *)
(* after it.                                                               *)
Interrupt ==
  /\ \A m \in DOMAIN locks : locks[m] = NoOne
  /\ \E hit \in SUBSET (Range(slots) \ (gone \cup {NoShell})) :
       /\ Range(slots) \cap gone = {} => hit = Range(slots) \ {NoShell}
       /\ cut' = cut \cup ({job[s].call : s \in hit} \ {NoOne})
       /\ job' = [s \in Shells |-> IF s \in hit THEN Idle ELSE job[s]]
       /\ \E flushed \in SUBSET hit :
            stdin' = [s \in Shells |-> IF s \in flushed THEN <<>> ELSE stdin[s]]
  /\ UNCHANGED <<table, reader, wire, gone, calls>>

-----------------------------------------------------------------------------
(* The shells themselves, on the host.                                     *)

Emit(s, chunk) == wire' = [wire EXCEPT ![s] = Append(@, chunk)]

ReadLine(s) ==
  /\ s \notin gone /\ job[s] = Idle /\ stdin[s] # <<>>
  /\ LET l == Head(stdin[s]) IN
     \/ l.what = "cmd" /\ UNCHANGED wire
        /\ job' = [job EXCEPT ![s] = [call |-> l.call, left |-> Output[l.call]]]
     \/ l.what = "printf" /\ Emit(s, Chunk(l.call, "token")) /\ UNCHANGED job
  /\ stdin' = [stdin EXCEPT ![s] = Tail(@)]
  /\ UNCHANGED <<table, reader, gone, cut, calls>>

(* An endless command has printed its chunks and stays.                    *)
Work(s) ==
  /\ s \notin gone /\ job[s].left > 0
  /\ Emit(s, Chunk(job[s].call, "out"))
  /\ job' = [job EXCEPT ![s] = IF @.left = 1 /\ @.call \notin Endless
                               THEN Idle ELSE [call |-> @.call, left |-> @.left - 1]]
  /\ UNCHANGED <<table, reader, stdin, gone, cut, calls>>

(* `exit`, a killed shell, a lost connection.                              *)
Hangup(s) ==
  /\ s <= opened /\ s \notin gone
  /\ gone' = gone \cup {s}
  /\ UNCHANGED <<table, reader, stdin, job, wire, cut, calls>>

Init ==
  /\ slots = [n \in Names |-> NoShell] /\ locks = [m \in {"pty", "named_ptys"} |-> NoOne]
  /\ opened = 0 /\ gone = {} /\ cut = {}
  /\ reader = [s \in Shells |-> NoOne] /\ stdin = [s \in Shells |-> <<>>]
  /\ job = [s \in Shells |-> Idle] /\ wire = [s \in Shells |-> <<>>]
  /\ pc = [c \in Calls |-> "ensure"] /\ shell = [c \in Calls |-> NoShell]
  /\ buf = [c \in Calls |-> <<>>]

Next ==
  \/ \E c \in Calls : LockSlot(c) \/ OpenShell(c) \/ Send(c) \/ Receive(c) \/ Fail(c) \/ Evict(c)
  \/ \E n \in Names : CloseShell(n)
  \/ Interrupt
  \/ \E s \in Shells : ReadLine(s) \/ Work(s) \/ Hangup(s)

Spec == Init /\ [][Next]_vars

-----------------------------------------------------------------------------
(* "Keeping the shell would splice them onto the next call's output" (sh,  *)
(* run.rs 438): what a successful call returns is all its command printed, *)
(* and whatever else is in it comes from a call on the same shell that     *)
(* failed, beside which this one was already waiting for its turn.         *)
OutputIsWhole ==
  \A c \in Calls : pc[c] = "ok" =>
     /\ c \notin cut => Cardinality({i \in DOMAIN buf[c] : buf[c][i] = Chunk(c, "out")}) = Output[c]
     /\ \A k \in Range(buf[c]) : k.from # c =>
          pc[k.from] \in {"evict", "failed"} /\ shell[k.from] = shell[c]

(* "the next call pays one PTY open and gets a clean shell" (server.rs     *)
(* 394): once a failed call has returned, no later call finds the shell it *)
(* failed on, whoever closed, evicted or reopened shells meanwhile.        *)
BrokenShellLeaves ==
  \A c \in Calls : pc[c] = "failed" => slots[NameOf[c]] # shell[c]

(* "two concurrent first `sh` calls can't both pay the full PTY init and   *)
(* then throw one away" (server.rs 345): of the calls on one name at most  *)
(* one opens its shell, while it has none, and with the one being opened   *)
(* there are never more named shells than MAX_NAMED_PTYS.                  *)
Opening(n) == {c \in Calls : pc[c] = "open" /\ NameOf[c] = n}
OpensOnce ==
  /\ \A n \in Names : Opening(n) # {} => slots[n] = NoShell /\ Cardinality(Opening(n)) = 1
  /\ Cardinality(Named \cup {n \in Names \ {Default} : Opening(n) # {}}) <= MaxNamedPtys
=============================================================================
