---------------------------- MODULE PtyShells_proofs ----------------------------
(***************************************************************************)
(* Proofs about PtyShells, for every number of calls, names and shells.    *)
(***************************************************************************)
EXTENDS PtyShells, SequenceTheorems, FiniteSetTheorems, TLAPS

Places == {"ensure", "open", "queued", "read", "evict", "ok", "failed", "refused"}
WithShell == {"queued", "read", "evict", "ok", "failed"}
Mutexes == {"pty", "named_ptys"}

TypeInv ==
  /\ slots \in [Names -> Nat] /\ opened \in Nat
  /\ locks \in [Mutexes -> Calls \cup {NoOne}]
  /\ pc \in [Calls -> Places] /\ shell \in [Calls -> Nat]

(* A call opens a shell under the mutex of the slot it found empty, and a  *)
(* named one where it found room.                                          *)
Held ==
  \A c \in Calls : pc[c] = "open" =>
     /\ locks[MutexOf(NameOf[c])] = c
     /\ slots[NameOf[c]] = NoShell
     /\ NameOf[c] # Default => Cardinality(Named) < MaxNamedPtys

(* Shells are numbered in the order they are opened.                       *)
Numbered ==
  /\ \A n \in Names : slots[n] <= opened
  /\ \A c \in Calls : /\ shell[c] <= opened
                      /\ pc[c] \in WithShell => shell[c] # NoShell

IInv == /\ TypeInv /\ Held /\ Numbered
        /\ Cardinality(Named) <= MaxNamedPtys
        /\ BrokenShellLeaves

-----------------------------------------------------------------------------
(* The named shells.                                                       *)

LEMMA MutexTypes == \A n : MutexOf(n) \in Mutexes
BY DEF MutexOf, Mutexes

LEMMA NamedIsFinite == IsFiniteSet(Named) /\ Cardinality(Named) \in Nat
<1>1. Named \subseteq Names
  BY DEF Named
<1>2. IsFiniteSet(Named)
  BY <1>1, PtyAssumption, FS_Subset
<1> QED BY <1>2, FS_CardinalityType

(* Taking a shell out of the table leaves no more named ones.              *)
LEMMA TakenOut ==
  ASSUME TypeInv, NEW n \in Names, slots' = [slots EXCEPT ![n] = NoShell]
  PROVE  Cardinality(Named') <= Cardinality(Named) /\ Cardinality(Named') \in Nat
<1>1. Named' \subseteq Named
  BY DEF Named, TypeInv
<1>2. IsFiniteSet(Named)
  BY NamedIsFinite
<1>3. IsFiniteSet(Named') /\ Cardinality(Named') <= Cardinality(Named)
  BY <1>1, <1>2, FS_Subset
<1> QED BY <1>3, FS_CardinalityType

LEMMA PutIn ==
  ASSUME TypeInv, NEW n \in Names, NEW s \in Nat, slots' = [slots EXCEPT ![n] = s]
  PROVE  /\ n = Default => Named' = Named
         /\ Cardinality(Named') <= Cardinality(Named) + 1 /\ Cardinality(Named') \in Nat
<1>1. n = Default => Named' = Named
  BY DEF Named, TypeInv
<1>2. Named' \subseteq Named \cup {n}
  BY DEF Named, TypeInv
<1>3. IsFiniteSet(Named) /\ Cardinality(Named) \in Nat
  BY NamedIsFinite
<1>4. /\ IsFiniteSet(Named \cup {n})
      /\ Cardinality(Named \cup {n}) = Cardinality(Named) \/ Cardinality(Named \cup {n}) = Cardinality(Named) + 1
  BY <1>3, FS_AddElement
<1>5. IsFiniteSet(Named') /\ Cardinality(Named') <= Cardinality(Named \cup {n})
  BY <1>2, <1>4, FS_Subset
<1>6. Cardinality(Named') \in Nat
  BY <1>5, FS_CardinalityType
<1> QED BY <1>1, <1>3, <1>4, <1>5, <1>6

(* Under a free mutex nobody opens a shell.                                *)
LEMMA FreeMutex ==
  ASSUME Held, NEW n \in Names, locks[MutexOf(n)] = NoOne, NEW d \in Calls, pc[d] = "open"
  PROVE  MutexOf(NameOf[d]) # MutexOf(n)
BY PtyAssumption DEF Held

-----------------------------------------------------------------------------
(* The steps.                                                              *)

(* Calls that read, write or wait for their turn leave the table alone.    *)
LEMMA CallKeepsIInv ==
  ASSUME IInv, NEW c \in Calls, UNCHANGED <<table, shell>>,
         NEW to \in {"read", "evict", "ok"}, pc' \in {pc, [pc EXCEPT ![c] = to]},
         pc[c] \in {"queued", "read"}
  PROVE  IInv'
<1>1. Named' = Named
  BY DEF table, Named
<1>2. TypeInv'
  BY DEF IInv, TypeInv, table, Places
<1>3. \A d \in Calls : /\ pc'[d] = "open" => pc[d] = "open"
                       /\ pc'[d] = "failed" => pc[d] = "failed"
                       /\ pc'[d] \in WithShell => pc[d] \in WithShell
  BY DEF IInv, TypeInv, WithShell
<1>4. Held'
  BY <1>1, <1>3 DEF IInv, Held, table
<1> QED BY <1>1, <1>2, <1>3, <1>4 DEF IInv, Numbered, BrokenShellLeaves, table

LEMMA LockSlotKeepsIInv == ASSUME IInv, NEW c \in Calls, LockSlot(c) PROVE IInv'
<1> DEFINE n == NameOf[c]
<1>1. /\ pc[c] = "ensure" /\ locks[MutexOf(n)] = NoOne /\ UNCHANGED <<slots, opened>>
      /\ n \in Names
  BY PtyAssumption DEF LockSlot
<1>2. Named' = Named
  BY <1>1 DEF Named
<1>3. CASE /\ slots[n] # NoShell /\ shell' = [shell EXCEPT ![c] = slots[n]]
           /\ Goto(c, "queued") /\ UNCHANGED locks
  <2>1. TypeInv'
    BY <1>1, <1>3 DEF IInv, TypeInv, Goto, Places
  <2>2. Held'
    BY <1>1, <1>2, <1>3 DEF IInv, TypeInv, Held, Goto
  <2>3. Numbered'
    BY <1>1, <1>3 DEF IInv, TypeInv, Numbered, Goto, WithShell
  <2>4. BrokenShellLeaves'
    BY <1>1, <1>3 DEF IInv, TypeInv, BrokenShellLeaves, Goto
  <2> QED BY <1>2, <2>1, <2>2, <2>3, <2>4 DEF IInv
<1>4. CASE Goto(c, "refused") /\ UNCHANGED <<shell, locks>>
  <2>1. TypeInv'
    BY <1>1, <1>4 DEF IInv, TypeInv, Goto, Places
  <2>2. Held'
    BY <1>1, <1>2, <1>4 DEF IInv, TypeInv, Held, Goto
  <2>3. Numbered' /\ BrokenShellLeaves'
    BY <1>1, <1>4 DEF IInv, TypeInv, Numbered, BrokenShellLeaves, Goto, WithShell
  <2> QED BY <1>2, <2>1, <2>2, <2>3 DEF IInv
<1>5. CASE /\ slots[n] = NoShell /\ (n = Default \/ Cardinality(Named) < MaxNamedPtys)
           /\ Goto(c, "open") /\ locks' = [locks EXCEPT ![MutexOf(n)] = c] /\ UNCHANGED shell
  <2>1. TypeInv'
    BY <1>1, <1>5, MutexTypes DEF IInv, TypeInv, Goto, Places
  <2>2. Held'
    <3>1. ASSUME NEW d \in Calls \ {c}, pc'[d] = "open"
          PROVE  pc[d] = "open" /\ locks'[MutexOf(NameOf[d])] = locks[MutexOf(NameOf[d])]
      <4>1. pc[d] = "open"
        BY <1>5, <3>1 DEF Goto, IInv, TypeInv
      <4>2. MutexOf(NameOf[d]) # MutexOf(n)
        BY <1>1, <4>1, FreeMutex DEF IInv
      <4> QED BY <1>5, <4>1, <4>2, MutexTypes DEF IInv, TypeInv
    <3>2. locks'[MutexOf(n)] = c
      BY <1>5, MutexTypes DEF IInv, TypeInv
    <3> QED BY <1>1, <1>2, <1>5, <3>1, <3>2 DEF IInv, Held
  <2>3. Numbered' /\ BrokenShellLeaves'
    BY <1>1, <1>5 DEF IInv, TypeInv, Numbered, BrokenShellLeaves, Goto, WithShell
  <2> QED BY <1>2, <2>1, <2>2, <2>3 DEF IInv
<1> QED BY <1>3, <1>4, <1>5 DEF LockSlot

LEMMA OpenShellKeepsIInv == ASSUME IInv, NEW c \in Calls, OpenShell(c) PROVE IInv'
<1> DEFINE n == NameOf[c]
<1>1. /\ pc[c] = "open" /\ locks' = [locks EXCEPT ![MutexOf(n)] = NoOne]
      /\ n \in Names /\ locks[MutexOf(n)] = c /\ slots[n] = NoShell
      /\ n # Default => Cardinality(Named) < MaxNamedPtys
  BY PtyAssumption DEF OpenShell, IInv, Held
<1>2. \A d \in Calls \ {c} : pc[d] = "open" => /\ MutexOf(NameOf[d]) # MutexOf(n)
                                              /\ locks'[MutexOf(NameOf[d])] = d
  BY <1>1, MutexTypes DEF IInv, TypeInv, Held
<1>3. CASE /\ opened' = opened + 1 /\ slots' = [slots EXCEPT ![n] = opened']
           /\ shell' = [shell EXCEPT ![c] = opened'] /\ Goto(c, "queued")
  <2>1. TypeInv'
    BY <1>1, <1>3, MutexTypes DEF IInv, TypeInv, Goto, Places
  <2>2. /\ n = Default => Named' = Named
        /\ Cardinality(Named') <= Cardinality(Named) + 1 /\ Cardinality(Named') \in Nat
        /\ Cardinality(Named) \in Nat /\ MaxNamedPtys \in Nat
    <3>1. opened + 1 \in Nat /\ slots' = [slots EXCEPT ![n] = opened + 1] /\ n \in Names /\ TypeInv
      BY <1>1, <1>3 DEF IInv, TypeInv
    <3>2. /\ n = Default => Named' = Named
          /\ Cardinality(Named') <= Cardinality(Named) + 1 /\ Cardinality(Named') \in Nat
      BY <3>1, PutIn
    <3> QED BY <3>2, NamedIsFinite, PtyAssumption
  <2>3. Cardinality(Named') <= MaxNamedPtys
    BY <1>1, <2>2 DEF IInv
  <2>4. Held'
    <3>1. SUFFICES ASSUME NEW d \in Calls \ {c}, pc[d] = "open"
                   PROVE  /\ locks'[MutexOf(NameOf[d])] = d /\ slots'[NameOf[d]] = NoShell
                          /\ NameOf[d] # Default => Cardinality(Named') < MaxNamedPtys
      BY <1>3 DEF Goto, IInv, TypeInv, Held
    <3>2. MutexOf(NameOf[d]) # MutexOf(n) /\ locks'[MutexOf(NameOf[d])] = d /\ NameOf[d] # n
      BY <1>2, <3>1
    <3>3. slots'[NameOf[d]] = NoShell
      BY <1>3, <3>1, <3>2, PtyAssumption DEF IInv, TypeInv, Held
    <3>4. NameOf[d] # Default => n = Default
      BY <3>2 DEF MutexOf
    <3>5. NameOf[d] # Default => Cardinality(Named) < MaxNamedPtys
      BY <3>1 DEF IInv, Held
    <3> QED BY <2>2, <3>2, <3>3, <3>4, <3>5
  <2>5. Numbered' /\ BrokenShellLeaves'
    BY <1>1, <1>3, PtyAssumption DEF IInv, TypeInv, Numbered, BrokenShellLeaves, Goto, WithShell, NoShell
  <2> QED BY <2>1, <2>3, <2>4, <2>5 DEF IInv
<1>4. CASE Goto(c, "refused") /\ UNCHANGED <<opened, slots, shell>>
  <2>1. TypeInv'
    BY <1>1, <1>4, MutexTypes DEF IInv, TypeInv, Goto, Places
  <2>2. Named' = Named
    BY <1>4 DEF Named
  <2>3. Held'
    BY <1>1, <1>2, <1>4, <2>2 DEF IInv, TypeInv, Held, Goto
  <2>4. Numbered' /\ BrokenShellLeaves'
    BY <1>1, <1>4 DEF IInv, TypeInv, Numbered, BrokenShellLeaves, Goto, WithShell
  <2> QED BY <2>1, <2>2, <2>3, <2>4 DEF IInv
<1> QED BY <1>3, <1>4 DEF OpenShell

(* A slot is emptied under its mutex.                                      *)
LEMMA EmptiedKeepsIInv ==
  ASSUME IInv, NEW n \in Names, locks[MutexOf(n)] = NoOne, slots' = [slots EXCEPT ![n] = NoShell],
         UNCHANGED <<locks, opened, shell>>,
         \/ UNCHANGED pc
         \/ \E c \in Calls : pc[c] = "evict" /\ NameOf[c] = n /\ Goto(c, "failed")
  PROVE  IInv'
<1>1. TypeInv'
  BY DEF IInv, TypeInv, Goto, Places, NoShell
<1>2. \A d \in Calls : /\ pc'[d] = "open" => pc[d] = "open"
                       /\ pc'[d] \in WithShell => pc[d] \in WithShell
                       /\ pc'[d] = "failed" => pc[d] = "failed" \/ (pc[d] = "evict" /\ NameOf[d] = n)
  BY DEF IInv, TypeInv, Goto, WithShell
<1>3. /\ Cardinality(Named') <= Cardinality(Named) /\ Cardinality(Named') \in Nat
      /\ Cardinality(Named) \in Nat /\ MaxNamedPtys \in Nat
  BY TakenOut, NamedIsFinite, PtyAssumption DEF IInv
<1>4. Held'
  BY <1>2, <1>3, PtyAssumption DEF IInv, TypeInv, Held
<1>5. Numbered'
  BY <1>2 DEF IInv, TypeInv, Numbered, NoShell
<1>6. BrokenShellLeaves'
  BY <1>2, PtyAssumption DEF IInv, TypeInv, Numbered, BrokenShellLeaves, WithShell
<1> QED BY <1>1, <1>3, <1>4, <1>5, <1>6 DEF IInv

LEMMA InitIInv == Init => IInv
<1> SUFFICES ASSUME Init PROVE IInv
  OBVIOUS
<1>1. Named = {}
  BY PtyAssumption DEF Init, Named
<1>2. Cardinality(Named) <= MaxNamedPtys
  BY <1>1, FS_EmptySet, PtyAssumption
<1> QED BY <1>2 DEF Init, IInv, TypeInv, Held, Numbered, BrokenShellLeaves, Places, Mutexes,
                    WithShell, NoShell

LEMMA NextIInv == IInv /\ [Next]_vars => IInv'
<1> SUFFICES ASSUME IInv, [Next]_vars PROVE IInv'
  OBVIOUS
<1>1. ASSUME NEW c \in Calls, LockSlot(c) PROVE IInv'
  BY <1>1, LockSlotKeepsIInv
<1>2. ASSUME NEW c \in Calls, OpenShell(c) PROVE IInv'
  BY <1>2, OpenShellKeepsIInv
<1>3. ASSUME NEW c \in Calls, Send(c) \/ Receive(c) \/ Fail(c) PROVE IInv'
  <2>1. /\ pc[c] \in {"queued", "read"} /\ UNCHANGED <<table, shell>>
        /\ pc' = pc \/ Goto(c, "read") \/ Goto(c, "evict") \/ Goto(c, "ok")
    BY <1>3 DEF Send, Receive, Fail
  <2> QED BY <2>1, CallKeepsIInv DEF Goto
<1>4. ASSUME NEW c \in Calls, Evict(c) PROVE IInv'
  <2>1. NameOf[c] \in Names
    BY PtyAssumption
  <2>2. /\ pc[c] = "evict" /\ Goto(c, "failed") /\ locks[MutexOf(NameOf[c])] = NoOne
        /\ slots' = [slots EXCEPT ![NameOf[c]] = NoShell] /\ UNCHANGED <<locks, opened, shell>>
    BY <1>4 DEF Evict
  <2> QED BY <2>1, <2>2, EmptiedKeepsIInv
<1>5. ASSUME NEW n \in Names, CloseShell(n) PROVE IInv'
  BY <1>5, EmptiedKeepsIInv DEF CloseShell, calls
<1>6. ASSUME UNCHANGED <<table, calls>> PROVE IInv'
  <2>1. Named' = Named
    BY <1>6 DEF table, Named
  <2> QED BY <1>6, <2>1 DEF IInv, TypeInv, Held, Numbered, BrokenShellLeaves, table, calls
<1>7. ASSUME Interrupt PROVE IInv'
  BY <1>6, <1>7 DEF Interrupt
<1>8. ASSUME NEW s \in Shells, ReadLine(s) \/ Work(s) \/ Hangup(s) PROVE IInv'
  BY <1>6, <1>8 DEF ReadLine, Work, Hangup
<1>9. CASE UNCHANGED vars
  BY <1>6, <1>9 DEF vars
<1> QED BY <1>1, <1>2, <1>3, <1>4, <1>5, <1>7, <1>8, <1>9 DEF Next

LEMMA IInvHolds == Spec => []IInv
BY InitIInv, NextIInv, PTL DEF Spec

-----------------------------------------------------------------------------
(* A call that failed on a shell has left it out of the table, and no      *)
(* later call finds it there (`sh`, run.rs 438-448; `evict_broken_pty`).   *)
THEOREM BrokenShellGone == Spec => []BrokenShellLeaves
<1>1. IInv => BrokenShellLeaves
  BY DEF IInv
<1> QED BY <1>1, IInvHolds, PTL

(* At most one call opens the shell of a name, and there are never more    *)
(* named shells than MAX_NAMED_PTYS, those being opened counted            *)
(* (`ensure_pty`, session/pty.rs).                                         *)
THEOREM OneOpenPerName == Spec => []OpensOnce
<1>1. IInv => OpensOnce
  <2> SUFFICES ASSUME IInv PROVE OpensOnce
    OBVIOUS
  <2>1. ASSUME NEW n \in Names, Opening(n) # {}
        PROVE  slots[n] = NoShell /\ Cardinality(Opening(n)) = 1
    <3>1. PICK c \in Calls : pc[c] = "open" /\ NameOf[c] = n
      BY <2>1 DEF Opening
    <3>2. Opening(n) = {c}
      BY <3>1 DEF Opening, IInv, Held
    <3> QED BY <3>1, <3>2, FS_Singleton DEF IInv, Held
  <2> DEFINE Under == {n \in Names \ {Default} : Opening(n) # {}}
  <2>2. Cardinality(Named \cup Under) <= MaxNamedPtys
    <3>1. CASE Under = {}
      <4>1. Named \cup Under = Named
        BY <3>1
      <4> QED BY <4>1 DEF IInv
    <3>2. ASSUME NEW n \in Names \ {Default}, Opening(n) # {} PROVE Cardinality(Named \cup Under) <= MaxNamedPtys
      <4>1. PICK c \in Calls : pc[c] = "open" /\ NameOf[c] = n /\ n # Default
        BY <3>2 DEF Opening
      <4>2. Cardinality(Named) < MaxNamedPtys /\ locks["named_ptys"] = c
        BY <4>1 DEF IInv, Held, MutexOf
      <4>3. Under = {n}
        <5>1. ASSUME NEW m \in Under PROVE m = n
          <6>1. PICK d \in Calls : pc[d] = "open" /\ NameOf[d] = m /\ m # Default
            BY <5>1 DEF Opening
          <6> QED BY <4>1, <4>2, <6>1 DEF IInv, Held, MutexOf
        <5> QED BY <3>2, <5>1
      <4>4. IsFiniteSet(Named) /\ Cardinality(Named) \in Nat /\ MaxNamedPtys \in Nat
        BY NamedIsFinite, PtyAssumption
      <4>5. \/ Cardinality(Named \cup {n}) = Cardinality(Named)
            \/ Cardinality(Named \cup {n}) = Cardinality(Named) + 1
        BY <4>4, FS_AddElement
      <4>6. Named \cup Under = Named \cup {n}
        BY <4>3
      <4>7. Cardinality(Named \cup {n}) <= MaxNamedPtys
        BY <4>2, <4>4, <4>5
      <4> QED BY <4>6, <4>7
    <3> QED BY <3>1, <3>2
  <2> QED BY <2>1, <2>2 DEF OpensOnce
<1> QED BY <1>1, IInvHolds, PTL
-----------------------------------------------------------------------------
(* The stream of a shell: what was written to it, what it runs, what it    *)
(* printed and what its reader has of that.                                *)

Lines == [call : Calls, what : {"cmd", "printf"}]
Chunks == [from : Calls, what : {"out", "token"}]
Jobs == [call : Calls \cup {NoOne}, left : Nat]

StreamType ==
  /\ opened <= MaxShells
  /\ reader \in [Shells -> Calls \cup {NoOne}]
  /\ stdin \in [Shells -> Seq(Lines)] /\ wire \in [Shells -> Seq(Chunks)]
  /\ job \in [Shells -> Jobs]
  /\ \A s \in Shells : job[s].call = NoOne => job[s] = Idle
  /\ buf \in [Calls -> Seq(Chunks)]

Count(X, k) == Cardinality({i \in DOMAIN X : X[i] = k})
Out(c) == Chunk(c, "out")
Token(c) == Chunk(c, "token")

Typed(c, s) == \E i \in DOMAIN stdin[s] : stdin[s][i].call = c
Printed(c, s) == \E i \in DOMAIN wire[s] : wire[s][i].from = c

(* Only a call that is reading, or gave up, has anything in a stream, and  *)
(* only in that of its own shell.                                          *)
Owned ==
  \A s \in Shells, c \in Calls :
     Typed(c, s) \/ job[s].call = c \/ Printed(c, s) =>
        shell[c] = s /\ pc[c] \in {"read", "evict", "failed"}

(* A reading call holds its shell's read half and has not seen its token.  *)
Turn ==
  \A c \in Calls : pc[c] = "read" =>
     reader[shell[c]] = c /\ \A i \in DOMAIN buf[c] : buf[c][i] # Token(c)

Strangers ==
  \A c \in Calls :
     /\ pc[c] \in {"ensure", "open", "queued"} => buf[c] = <<>>
     /\ \A i \in DOMAIN buf[c] : LET d == buf[c][i].from IN
           d # c => pc[d] \in {"evict", "failed"} /\ shell[d] = shell[c]

(* What a call reading from s has read or may still read.                  *)
Stream(c, s) == buf[c] \o wire[s]

NotStarted(c, s) ==
  /\ LET q == stdin[s] IN
     /\ Len(q) >= 2 /\ q[Len(q) - 1] = Line(c, "cmd") /\ q[Len(q)] = Line(c, "printf")
     /\ \A i \in 1..(Len(q) - 2) : q[i].call # c
  /\ job[s].call # c
  /\ \A i \in DOMAIN Stream(c, s) : Stream(c, s)[i].from # c

Running(c, s) ==
  /\ stdin[s] = <<Line(c, "printf")>>
  /\ job[s] = Idle \/ job[s].call = c
  /\ \A i \in DOMAIN Stream(c, s) : Stream(c, s)[i] # Token(c)
  /\ c \notin cut => Count(Stream(c, s), Out(c)) + job[s].left = Output[c]

Complete(c, s) ==
  /\ stdin[s] = <<>> /\ job[s] = Idle
  /\ LET n == Len(Stream(c, s)) IN
     /\ n > 0 /\ Stream(c, s)[n] = Token(c)
     /\ \A i \in 1..(n - 1) : Stream(c, s)[i] # Token(c)
  /\ c \notin cut => Count(Stream(c, s), Out(c)) = Output[c]

(* An interrupt threw its token away.                                      *)
Flushed(c, s) ==
  ~Typed(c, s) /\ \A i \in DOMAIN Stream(c, s) : Stream(c, s)[i] # Token(c)

Law(c, s) == NotStarted(c, s) \/ Running(c, s) \/ Complete(c, s) \/ Flushed(c, s)

InOrder ==
  \A c \in Calls, s \in Shells :
     pc[c] = "read" /\ shell[c] = s /\ Len(buf[c]) < MaxCapture => Law(c, s)

(* What a successful call counts: the first half of OutputIsWhole.         *)
Finished ==
  \A c \in Calls : pc[c] = "ok" /\ c \notin cut => Count(buf[c], Out(c)) = Output[c]

StreamInv == StreamType /\ Owned /\ Turn /\ Strangers /\ InOrder /\ Finished

-----------------------------------------------------------------------------
(* Sequences of chunks.                                                    *)

LEMMA CountAppend ==
  ASSUME NEW S, NEW X \in Seq(S), NEW e \in S, NEW k
  PROVE  /\ Count(X, k) \in Nat
         /\ Count(Append(X, e), k) = Count(X, k) + (IF e = k THEN 1 ELSE 0)
<1> DEFINE n == Len(X)
           Y == Append(X, e)
           at == {i \in DOMAIN X : X[i] = k}
<1>1. n \in Nat /\ DOMAIN X = 1..n
  BY LenProperties
<1>2. /\ Y \in Seq(S) /\ Len(Y) = n + 1 /\ DOMAIN Y = 1..(n + 1) /\ Y[n + 1] = e
      /\ \A i \in 1..n : Y[i] = X[i]
  BY AppendProperties, LenProperties
<1>3. at \in SUBSET (1..n) /\ n \in Int /\ 1 \in Int
  BY <1>1
<1>4. IsFiniteSet(at) /\ Cardinality(at) \in Nat
  BY <1>3, FS_Interval, FS_Subset, FS_CardinalityType
<1>5. {i \in DOMAIN Y : Y[i] = k} = IF e = k THEN at \cup {n + 1} ELSE at
  <2> HIDE DEF Y, n
  <2> QED BY <1>1, <1>2
<1>6. n + 1 \notin at
  BY <1>1
<1> HIDE DEF at
<1>7. Cardinality(at \cup {n + 1}) = Cardinality(at) + 1
  BY <1>4, <1>6, FS_AddElement
<1>8. Count(X, k) = Cardinality(at)
  BY DEF Count, at
<1>9. Count(Y, k) = Cardinality({i \in DOMAIN Y : Y[i] = k})
  BY DEF Count
<1> HIDE DEF Y
<1>10. Count(Y, k) = Count(X, k) + (IF e = k THEN 1 ELSE 0)
  <2>1. CASE e = k
    BY <1>4, <1>5, <1>7, <1>8, <1>9, <2>1
  <2>2. CASE e # k
    <3>1. {i \in DOMAIN Y : Y[i] = k} = at
      BY <1>5, <2>2
    <3>2. Count(Y, k) = Cardinality(at)
      BY <1>9, <3>1
    <3> QED BY <1>4, <1>8, <2>2, <3>2
  <2> QED BY <2>1, <2>2
<1> QED BY <1>4, <1>8, <1>10 DEF Y

LEMMA CountNone ==
  ASSUME NEW X, NEW k, \A i \in DOMAIN X : X[i] # k PROVE Count(X, k) = 0
<1>1. {i \in DOMAIN X : X[i] = k} = {}
  OBVIOUS
<1> QED BY <1>1, FS_EmptySet DEF Count

LEMMA AppendElements ==
  ASSUME NEW S, NEW X \in Seq(S), NEW e \in S
  PROVE  /\ Append(X, e) \in Seq(S) /\ Len(Append(X, e)) = Len(X) + 1 /\ Len(X) \in Nat
         /\ DOMAIN X = 1..Len(X) /\ DOMAIN Append(X, e) = 1..(Len(X) + 1)
         /\ Append(X, e)[Len(X) + 1] = e
         /\ \A i \in 1..Len(X) : Append(X, e)[i] = X[i]
         /\ \A i \in DOMAIN Append(X, e) : i \in DOMAIN X \/ i = Len(X) + 1
<1>1. Append(X, e) \in Seq(S) /\ Len(Append(X, e)) = Len(X) + 1 /\ Len(X) \in Nat
  BY AppendProperties, LenProperties
<1>2. DOMAIN X = 1..Len(X) /\ DOMAIN Append(X, e) = 1..(Len(X) + 1)
  BY <1>1, LenProperties
<1>3. \A i \in 1..(Len(X) + 1) : i \in 1..Len(X) \/ i = Len(X) + 1
  BY <1>1
<1> QED BY <1>1, <1>2, <1>3, AppendProperties

(* The head of the wire goes to the buffer: the stream stays.              *)
LEMMA Moved ==
  ASSUME NEW S, NEW b \in Seq(S), NEW w \in Seq(S), w # <<>>
  PROVE  /\ Head(w) \in S /\ Tail(w) \in Seq(S) /\ Head(w) = w[1] /\ 1 \in DOMAIN w
         /\ Len(Tail(w)) = Len(w) - 1 /\ Len(w) \in Nat \ {0}
         /\ \A i \in DOMAIN Tail(w) : i + 1 \in DOMAIN w /\ Tail(w)[i] = w[i + 1]
         /\ Append(b, Head(w)) \o Tail(w) = b \o w
<1>1. /\ Head(w) \in S /\ Tail(w) \in Seq(S) /\ Len(Tail(w)) = Len(w) - 1 /\ Len(w) \in Nat \ {0}
      /\ \A i \in 1..(Len(w) - 1) : Tail(w)[i] = w[i + 1]
  BY HeadTailProperties, EmptySeq
<1>2. Head(w) = w[1] /\ DOMAIN w = 1..Len(w) /\ DOMAIN Tail(w) = 1..(Len(w) - 1)
  BY <1>1, LenProperties
<1>3. \A i \in 1..(Len(w) - 1) : i + 1 \in 1..Len(w)
  BY <1>1
<1> DEFINE h == Head(w)
           t == Tail(w)
           L == Append(b, h) \o t
           R == b \o w
<1>4. /\ Append(b, h) \in Seq(S) /\ Len(Append(b, h)) = Len(b) + 1 /\ Len(b) \in Nat
      /\ Append(b, h)[Len(b) + 1] = h /\ \A i \in 1..Len(b) : Append(b, h)[i] = b[i]
  BY <1>1, AppendElements
<1> HIDE DEF h, t
<1>5. /\ L \in Seq(S) /\ Len(L) = Len(b) + 1 + Len(t)
      /\ \A i \in 1..(Len(b) + 1 + Len(t)) :
           L[i] = IF i <= Len(b) + 1 THEN Append(b, h)[i] ELSE t[i - (Len(b) + 1)]
  <2>1. t \in Seq(S)
    BY <1>1 DEF t
  <2> QED BY <1>4, <2>1, ConcatProperties
<1>6. /\ R \in Seq(S) /\ Len(R) = Len(b) + Len(w)
      /\ \A i \in 1..(Len(b) + Len(w)) : R[i] = IF i <= Len(b) THEN b[i] ELSE w[i - Len(b)]
  BY ConcatProperties
<1>7. Len(L) = Len(R) /\ Len(t) = Len(w) - 1
  BY <1>1, <1>4, <1>5, <1>6 DEF t
<1> DEFINE last == Len(L)
           m == Len(b)
<1>8. ASSUME NEW i \in 1..last PROVE L[i] = R[i]
  <2>1. CASE i <= Len(b)
    BY <1>4, <1>5, <1>6, <1>7, <2>1
  <2>2. CASE i = Len(b) + 1
    <3>1. L[i] = h /\ R[i] = w[1]
      BY <1>1, <1>4, <1>5, <1>6, <1>7, <2>2
    <3> QED BY <1>2, <3>1 DEF h
  <2>3. CASE i > Len(b) + 1
    <3>1. /\ L[i] = t[i - (Len(b) + 1)] /\ R[i] = w[i - Len(b)]
          /\ i - (Len(b) + 1) \in 1..(Len(w) - 1) /\ (i - (Len(b) + 1)) + 1 = i - Len(b)
      BY <1>1, <1>4, <1>5, <1>6, <1>7, <2>3
    <3> QED BY <1>1, <3>1 DEF t
  <2>4. last \in Nat /\ m \in Nat
    BY <1>4, <1>5, LenProperties
  <2> HIDE DEF last, m, L, R
  <2>5. i < m + 1 \/ i = m + 1 \/ i > m + 1
    BY <2>4
  <2>6. i < m + 1 => i <= m
    BY <2>4
  <2> QED BY <2>1, <2>2, <2>3, <2>5, <2>6 DEF m
<1> HIDE DEF L, R
<1>9. L = R
  BY <1>5, <1>6, <1>7, <1>8, SeqEqual
<1>10. Append(b, Head(w)) \o Tail(w) = b \o w
  BY <1>9 DEF L, R, h, t
<1>11. \A i \in DOMAIN Tail(w) : i + 1 \in DOMAIN w /\ Tail(w)[i] = w[i + 1]
  BY <1>1, <1>2, <1>3
<1>12. 1 \in DOMAIN w
  BY <1>1, <1>2
<1> QED BY <1>1, <1>2, <1>10, <1>11, <1>12

LEMMA Emitted ==
  ASSUME NEW S, NEW b \in Seq(S), NEW w \in Seq(S), NEW e \in S
  PROVE  b \o Append(w, e) = Append(b \o w, e) /\ b \o w \in Seq(S)
<1>1. Append(w, e) = w \o <<e>> /\ <<e>> \in Seq(S)
  BY AppendIsConcat
<1>2. b \o w \in Seq(S)
  BY ConcatProperties
<1>3. (b \o w) \o <<e>> = b \o (w \o <<e>>)
  BY <1>1, ConcatAssociative
<1>4. Append(b \o w, e) = (b \o w) \o <<e>>
  BY <1>2, AppendIsConcat
<1> QED BY <1>1, <1>2, <1>3, <1>4

LEMMA Ahead ==
  ASSUME NEW S, NEW b \in Seq(S), NEW w \in Seq(S), w # <<>>
  PROVE  /\ Len(b) \in Nat /\ Len(w) \in Nat \ {0} /\ Len(b \o w) = Len(b) + Len(w)
         /\ Len(b) + 1 \in DOMAIN (b \o w) /\ (b \o w)[Len(b) + 1] = Head(w)
<1> DEFINE R == b \o w
<1>1. Len(b) \in Nat /\ Len(w) \in Nat \ {0} /\ Head(w) = w[1]
  BY Moved, LenProperties
<1>2. /\ R \in Seq(S) /\ Len(R) = Len(b) + Len(w)
      /\ \A i \in 1..(Len(b) + Len(w)) : R[i] = IF i <= Len(b) THEN b[i] ELSE w[i - Len(b)]
  BY ConcatProperties
<1> HIDE DEF R
<1>3. DOMAIN R = 1..(Len(b) + Len(w)) /\ Len(b) + 1 \in 1..(Len(b) + Len(w))
  BY <1>1, <1>2, LenProperties
<1>4. R[Len(b) + 1] = w[1]
  BY <1>1, <1>2, <1>3
<1> QED BY <1>1, <1>2, <1>3, <1>4 DEF R

LEMMA HeadTail ==
  ASSUME NEW S, NEW q \in Seq(S), q # <<>>
  PROVE  /\ Head(q) \in S /\ Head(q) = q[1] /\ 1 \in DOMAIN q /\ Len(q) \in Nat \ {0}
         /\ Tail(q) \in Seq(S) /\ Len(Tail(q)) = Len(q) - 1 /\ DOMAIN Tail(q) = 1..(Len(q) - 1)
         /\ \A i \in 1..(Len(q) - 1) : i + 1 \in DOMAIN q /\ Tail(q)[i] = q[i + 1]
<1>1. /\ Head(q) \in S /\ Tail(q) \in Seq(S) /\ Len(Tail(q)) = Len(q) - 1 /\ Len(q) \in Nat \ {0}
      /\ Head(q) = q[1] /\ 1 \in DOMAIN q
      /\ \A i \in DOMAIN Tail(q) : i + 1 \in DOMAIN q /\ Tail(q)[i] = q[i + 1]
  BY Moved
<1>2. DOMAIN Tail(q) = 1..(Len(q) - 1)
  BY <1>1, LenProperties
<1> QED BY <1>1, <1>2

LEMMA OneLeft ==
  ASSUME NEW S, NEW X \in Seq(S), Len(X) = 1
  PROVE  X = <<X[1]>>
<1> DEFINE Y == <<X[1]>>
<1>1. X[1] \in S
  BY ElementOfSeq
<1>2. Y \in Seq(S) /\ Len(Y) = 1 /\ Y[1] = X[1]
  BY <1>1
<1> HIDE DEF Y
<1>3. \A i \in 1..1 : X[i] = Y[i]
  BY <1>2
<1>4. X = Y
  BY <1>2, <1>3, SeqEqual
<1> QED BY <1>4 DEF Y

(* What a call writes ends the input of its shell.                         *)
LEMMA Sent ==
  ASSUME NEW q \in Seq(Lines), NEW c \in Calls, NEW p, p = q \o Payload(c)
  PROVE  /\ p \in Seq(Lines) /\ Len(q) \in Nat /\ Len(p) = Len(q) + 2 /\ DOMAIN p = 1..Len(p)
         /\ p[Len(q) + 1] = Line(c, "cmd") /\ p[Len(q) + 2] = Line(c, "printf")
         /\ \A i \in 1..Len(q) : i \in DOMAIN q /\ p[i] = q[i]
<1> DEFINE t == Payload(c)
<1>1. t \in Seq(Lines) /\ Len(t) = 2 /\ t[1] = Line(c, "cmd") /\ t[2] = Line(c, "printf")
  BY DEF Payload, Line, Lines
<1> HIDE DEF t
<1>2. Len(q) \in Nat /\ DOMAIN q = 1..Len(q)
  BY LenProperties
<1>3. /\ p \in Seq(Lines) /\ Len(p) = Len(q) + Len(t)
      /\ \A i \in 1..(Len(q) + Len(t)) : p[i] = IF i <= Len(q) THEN q[i] ELSE t[i - Len(q)]
  BY <1>1, ConcatProperties DEF t
<1>4. DOMAIN p = 1..Len(p)
  BY <1>3, LenProperties
<1>5. p[Len(q) + 1] = t[1] /\ p[Len(q) + 2] = t[2]
  BY <1>1, <1>2, <1>3
<1> QED BY <1>1, <1>2, <1>3, <1>4, <1>5

-----------------------------------------------------------------------------
(* The streams in one step.                                                *)

LEMMA ReadersShell ==
  ASSUME IInv, StreamType, NEW c \in Calls, pc[c] \in WithShell
  PROVE  shell[c] \in Shells
<1>1. shell[c] \in Nat /\ shell[c] # 0 /\ shell[c] <= opened /\ opened <= MaxShells /\ opened \in Nat
  BY DEF IInv, TypeInv, Numbered, StreamType, NoShell
<1> QED BY <1>1, PtyAssumption DEF Shells

LEMMA BufferOfChunks ==
  ASSUME StreamType
  PROVE  \A c \in Calls : \A i \in DOMAIN buf[c] : buf[c][i] \in Chunks /\ buf[c][i].from \in Calls
<1> SUFFICES ASSUME NEW c \in Calls, NEW i \in DOMAIN buf[c]
             PROVE  buf[c][i] \in Chunks /\ buf[c][i].from \in Calls
  OBVIOUS
<1>1. buf[c] \in Seq(Chunks)
  BY DEF StreamType
<1>2. buf[c][i] \in Chunks
  BY <1>1, LenProperties, ElementOfSeq
<1> QED BY <1>2 DEF Chunks

LEMMA LawKept ==
  ASSUME NEW c, NEW s, Law(c, s), stdin'[s] = stdin[s], job'[s] = job[s],
         buf'[c] \o wire'[s] = buf[c] \o wire[s], c \in cut' <=> c \in cut
  PROVE  Law(c, s)'
<1>1. Stream(c, s)' = Stream(c, s)
  BY DEF Stream
<1>2. Typed(c, s)' = Typed(c, s)
  BY DEF Typed
<1>3. NotStarted(c, s) => NotStarted(c, s)'
  BY <1>1 DEF NotStarted
<1>4. Running(c, s) => Running(c, s)'
  BY <1>1 DEF Running
<1>5. Complete(c, s) => Complete(c, s)'
  BY <1>1 DEF Complete
<1>6. Flushed(c, s) => Flushed(c, s)'
  BY <1>1, <1>2 DEF Flushed
<1> QED BY <1>3, <1>4, <1>5, <1>6 DEF Law

(* Steps of the table, and giving up, touch no stream.                     *)
LEMMA NothingRead ==
  ASSUME IInv, StreamInv, UNCHANGED <<stdin, job, wire, cut, buf>>, opened' <= MaxShells,
         reader' \in [Shells -> Calls \cup {NoOne}],
         \A d \in Calls : pc[d] = "read" /\ pc'[d] = "read" => reader'[shell[d]] = reader[shell[d]],
         \A d \in Calls :
            \/ pc'[d] = pc[d] /\ shell'[d] = shell[d]
            \/ pc[d] \in {"ensure", "open"} /\ pc'[d] \in {"open", "queued", "refused"}
            \/ /\ pc[d] \in {"queued", "read", "evict"} /\ pc'[d] \in {"evict", "failed"}
               /\ shell'[d] = shell[d]
  PROVE  StreamInv'
<1>1. StreamType'
  BY DEF StreamInv, StreamType
<1>2. \A d \in Calls :
         /\ pc[d] \in {"read", "evict", "failed"} => pc'[d] \in {"read", "evict", "failed"} /\ shell'[d] = shell[d]
         /\ pc[d] \in {"evict", "failed"} => pc'[d] \in {"evict", "failed"}
         /\ pc'[d] = "read" => pc[d] = "read" /\ shell'[d] = shell[d]
         /\ pc'[d] = "ok" => pc[d] = "ok"
         /\ pc'[d] \in {"ensure", "open", "queued"} => pc[d] \in {"ensure", "open", "queued"}
         /\ shell'[d] # shell[d] => pc[d] \in {"ensure", "open", "queued"}
  OBVIOUS
<1>3. Owned'
  BY <1>2 DEF StreamInv, Owned, Typed, Printed
<1>4. Turn'
  BY <1>2 DEF StreamInv, Turn
<1>5. Strangers'
  <2> SUFFICES ASSUME NEW c \in Calls
               PROVE  /\ pc'[c] \in {"ensure", "open", "queued"} => buf[c] = <<>>
                      /\ \A i \in DOMAIN buf[c] : buf[c][i].from # c =>
                           /\ pc'[buf[c][i].from] \in {"evict", "failed"}
                           /\ shell'[buf[c][i].from] = shell'[c]
    BY DEF Strangers
  <2>1. pc'[c] \in {"ensure", "open", "queued"} => buf[c] = <<>>
    BY <1>2 DEF StreamInv, Strangers
  <2>2. ASSUME NEW i \in DOMAIN buf[c], buf[c][i].from # c
        PROVE  pc'[buf[c][i].from] \in {"evict", "failed"} /\ shell'[buf[c][i].from] = shell'[c]
    <3> DEFINE d == buf[c][i].from
    <3>1. d \in Calls /\ buf[c] # <<>>
      BY <2>2, BufferOfChunks DEF StreamInv
    <3>2. pc[d] \in {"evict", "failed"} /\ shell[d] = shell[c]
      BY <2>2 DEF StreamInv, Strangers
    <3>3. shell'[c] = shell[c]
      BY <1>2, <3>1 DEF StreamInv, Strangers
    <3> QED BY <1>2, <3>1, <3>2, <3>3
  <2> QED BY <2>1, <2>2
<1>6. InOrder'
  BY <1>2, LawKept DEF StreamInv, InOrder
<1>7. Finished'
  BY <1>2 DEF StreamInv, Finished
<1> QED BY <1>1, <1>3, <1>4, <1>5, <1>6, <1>7 DEF StreamInv

(* Steps of the host and of the terminal are judged by what they do to     *)
(* the stream of each reader.                                              *)
LEMMA HostKeepsStream ==
  ASSUME StreamInv, UNCHANGED <<opened, reader, calls>>, cut \subseteq cut',
         stdin' \in [Shells -> Seq(Lines)], wire' \in [Shells -> Seq(Chunks)],
         job' \in [Shells -> Jobs], \A s \in Shells : job'[s].call = NoOne => job'[s] = Idle,
         \A s \in Shells, c \in Calls :
            (Typed(c, s) \/ job[s].call = c \/ Printed(c, s))' => Typed(c, s) \/ job[s].call = c \/ Printed(c, s),
         \A s \in Shells, c \in Calls : reader[s] = c /\ pc[c] = "read" /\ shell[c] = s /\ Law(c, s) => Law(c, s)'
  PROVE  StreamInv'
<1>1. StreamType'
  BY DEF StreamInv, StreamType, calls
<1>2. Owned'
  BY DEF StreamInv, Owned, calls
<1>3. Turn' /\ Strangers'
  BY DEF StreamInv, Turn, Strangers, calls
<1>4. InOrder'
  BY DEF StreamInv, InOrder, Turn, calls
<1>5. Finished'
  BY DEF StreamInv, Finished, calls
<1> QED BY <1>1, <1>2, <1>3, <1>4, <1>5 DEF StreamInv

-----------------------------------------------------------------------------
(* The steps of a call.                                                    *)

LEMMA SendKeepsStream == ASSUME IInv, StreamInv, NEW c \in Calls, Send(c) PROVE StreamInv'
<1>1. /\ pc[c] = "queued" /\ UNCHANGED <<table, job, wire, cut, shell, buf>> /\ pc \in [Calls -> Places]
      /\ buf[c] = <<>>
  BY DEF Send, IInv, TypeInv, StreamInv, Strangers
<1>2. CASE Goto(c, "evict") /\ UNCHANGED <<reader, stdin>>
  BY <1>1, <1>2, NothingRead DEF Goto, table, StreamInv, StreamType
<1>3. CASE /\ reader' = [reader EXCEPT ![shell[c]] = c] /\ Goto(c, "read") /\ reader[shell[c]] = NoOne
           /\ stdin' = [stdin EXCEPT ![shell[c]] = @ \o Payload(c)]
  <2> DEFINE o == shell[c]
             q == stdin[o]
             p == q \o Payload(c)
  <2>1. o \in Shells
    BY <1>1, ReadersShell DEF WithShell, StreamInv
  <2>2. /\ stdin \in [Shells -> Seq(Lines)] /\ reader \in [Shells -> Calls \cup {NoOne}]
        /\ stdin'[o] = p /\ reader'[o] = c
        /\ \A s \in Shells : s # o => stdin'[s] = stdin[s] /\ reader'[s] = reader[s]
        /\ \A d \in Calls : d # c => pc'[d] = pc[d]
        /\ pc'[c] = "read"
    BY <1>1, <1>3, <2>1 DEF StreamInv, StreamType, Goto
  <2>3. /\ p \in Seq(Lines) /\ Len(q) \in Nat /\ Len(p) = Len(q) + 2 /\ DOMAIN p = 1..Len(p)
        /\ p[Len(q) + 1] = Line(c, "cmd") /\ p[Len(q) + 2] = Line(c, "printf")
        /\ \A i \in 1..Len(q) : i \in DOMAIN q /\ p[i] = q[i]
    <3>1. q \in Seq(Lines) /\ p = q \o Payload(c)
      BY <2>1, <2>2
    <3> HIDE DEF p, q
    <3> QED BY <3>1, Sent
  <2> HIDE DEF p, q
  <2>4. StreamType'
    BY <1>1, <1>3, <2>1, <2>2, <2>3 DEF StreamInv, StreamType, table, p, q
  <2>5. \A s \in Shells, d \in Calls : Typed(d, s)' => Typed(d, s) \/ (d = c /\ s = o)
    <3> SUFFICES ASSUME NEW s \in Shells, NEW d \in Calls, NEW i \in DOMAIN stdin'[s],
                        stdin'[s][i].call = d
                 PROVE  Typed(d, s) \/ (d = c /\ s = o)
      BY DEF Typed
    <3>1. CASE s # o
      BY <2>2, <3>1 DEF Typed
    <3>2. CASE s = o
      <4>1. i \in 1..(Len(q) + 2) /\ p[i].call = d
        BY <2>2, <2>3, <3>2
      <4>2. CASE i \in 1..Len(q)
        BY <2>3, <3>2, <4>1, <4>2 DEF Typed, q
      <4>3. CASE i \in {Len(q) + 1, Len(q) + 2}
        <5>1. p[i].call = c
          BY <2>3, <4>3 DEF Line
        <5> QED BY <3>2, <4>1, <5>1
      <4> QED BY <2>3, <4>1, <4>2, <4>3
    <3> QED BY <3>1, <3>2
  <2>6. Owned'
    <3>1. \A s \in Shells, d \in Calls : Printed(d, s)' = Printed(d, s) /\ job'[s] = job[s]
      BY <1>1 DEF Printed
    <3>2. \A d \in Calls : pc[d] \in {"read", "evict", "failed"} => pc'[d] = pc[d]
      BY <1>1, <2>2
    <3> QED BY <1>1, <2>2, <2>5, <3>1, <3>2 DEF StreamInv, Owned
  <2>7. Turn'
    <3>1. ASSUME NEW d \in Calls, d # c, pc[d] = "read" PROVE shell[d] \in Shells /\ shell[d] # o
      BY <1>3, <2>1, <3>1, ReadersShell, PtyAssumption DEF StreamInv, Turn, WithShell
    <3> QED BY <1>1, <2>2, <3>1 DEF StreamInv, Turn
  <2>8. Strangers'
    <3>1. \A d \in Calls : pc[d] \in {"evict", "failed"} => pc'[d] = pc[d]
      BY <1>1, <2>2
    <3>2. \A d \in Calls : pc'[d] \in {"ensure", "open", "queued"} => pc[d] \in {"ensure", "open", "queued"}
      BY <2>2
    <3>3. \A d \in Calls : \A i \in DOMAIN buf[d] : buf[d][i].from \in Calls
      BY BufferOfChunks DEF StreamInv
    <3> QED BY <1>1, <3>1, <3>2, <3>3 DEF StreamInv, Strangers
  <2>9. ASSUME NEW d \in Calls, NEW s \in Shells, d = c, s = o PROVE Law(d, s)'
    <3>1. ~Typed(d, s) /\ job[s].call # d /\ ~Printed(d, s)
      BY <1>1, <2>9 DEF StreamInv, Owned
    <3>2. buf[d] \o wire[s] = wire[s]
      BY <1>1, <2>9, ConcatEmptySeq DEF StreamInv, StreamType
    <3>3. \A i \in DOMAIN Stream(d, s)' : Stream(d, s)'[i].from # d
      BY <1>1, <3>1, <3>2 DEF Stream, Printed
    <3>4. \A i \in 1..(Len(p) - 2) : p[i].call # d
      BY <2>3, <2>9, <3>1 DEF Typed, q
    <3>5. Len(p) >= 2 /\ p[Len(p) - 1] = Line(d, "cmd") /\ p[Len(p)] = Line(d, "printf")
      <4>1. Len(p) >= 2 /\ Len(p) - 1 = Len(q) + 1
        BY <2>3
      <4> QED BY <2>3, <2>9, <4>1
    <3>6. NotStarted(d, s)'
      BY <1>1, <2>2, <2>9, <3>1, <3>3, <3>4, <3>5 DEF NotStarted
    <3> QED BY <3>6 DEF Law
  <2>10. InOrder'
    <3> SUFFICES ASSUME NEW d \in Calls, NEW s \in Shells, pc'[d] = "read", shell[d] = s,
                        Len(buf[d]) < MaxCapture
                 PROVE  Law(d, s)'
      BY <1>1 DEF InOrder
    <3>1. CASE d = c
      BY <2>9, <3>1
    <3>2. CASE d # c
      <4>1. pc[d] = "read" /\ s # o
        BY <1>3, <2>1, <2>2, <3>2, PtyAssumption DEF StreamInv, Turn
      <4>2. Law(d, s)
        BY <4>1 DEF StreamInv, InOrder
      <4> QED BY <1>1, <2>2, <4>1, <4>2, LawKept
    <3> QED BY <3>1, <3>2
  <2>11. Finished'
    BY <1>1, <2>2 DEF StreamInv, Finished
  <2> QED BY <2>4, <2>6, <2>7, <2>8, <2>10, <2>11 DEF StreamInv
<1> QED BY <1>2, <1>3 DEF Send

LEMMA ReceiveKeepsStream == ASSUME IInv, StreamInv, NEW c \in Calls, Receive(c) PROVE StreamInv'
<1> DEFINE o == shell[c]
           b == buf[c]
           w == wire[o]
           h == Head(w)
           t == Tail(w)
           all == AppendCapped(b, h)
<1>1. /\ pc[c] = "read" /\ w # <<>> /\ o \in Shells /\ reader[o] = c
      /\ pc \in [Calls -> Places] /\ wire \in [Shells -> Seq(Chunks)] /\ buf \in [Calls -> Seq(Chunks)]
      /\ reader \in [Shells -> Calls \cup {NoOne}]
  BY ReadersShell DEF Receive, IInv, TypeInv, StreamInv, StreamType, Turn, WithShell
<1>2. /\ wire'[o] = t /\ \A s \in Shells : s # o => wire'[s] = wire[s]
      /\ buf'[c] = all /\ \A d \in Calls : d # c => buf'[d] = buf[d]
      /\ wire' = [wire EXCEPT ![o] = t] /\ buf' = [buf EXCEPT ![c] = all]
      /\ UNCHANGED <<opened, stdin, job, cut, shell>>
  BY <1>1 DEF Receive, table
<1>3. \/ Token(c) \in Range(all) /\ reader' = [reader EXCEPT ![o] = NoOne] /\ pc' = [pc EXCEPT ![c] = "ok"]
      \/ Token(c) \notin Range(all) /\ UNCHANGED <<reader, pc>>
  BY DEF Receive, Release, Goto, Token
<1>4. \A d \in Calls : d # c => pc'[d] = pc[d]
  BY <1>1, <1>3
<1>5. /\ h \in Chunks /\ t \in Seq(Chunks) /\ h = w[1] /\ 1 \in DOMAIN w
      /\ Len(t) = Len(w) - 1 /\ Len(w) \in Nat \ {0}
      /\ \A i \in DOMAIN t : i + 1 \in DOMAIN w /\ t[i] = w[i + 1]
      /\ Append(b, h) \o t = b \o w
  <2>1. b \in Seq(Chunks) /\ w \in Seq(Chunks) /\ w # <<>>
    BY <1>1
  <2> HIDE DEF b, w
  <2> QED BY <2>1, Moved
<1>6. /\ Append(b, h) \in Seq(Chunks) /\ Len(Append(b, h)) = Len(b) + 1 /\ Len(b) \in Nat
      /\ DOMAIN b = 1..Len(b) /\ DOMAIN Append(b, h) = 1..(Len(b) + 1)
      /\ \A i \in 1..Len(b) : Append(b, h)[i] = b[i]
      /\ Append(b, h)[Len(b) + 1] = h
      /\ \A i \in DOMAIN Append(b, h) : i \in DOMAIN b \/ i = Len(b) + 1
  <2>1. b \in Seq(Chunks) /\ h \in Chunks
    BY <1>1, <1>5
  <2> HIDE DEF b, h
  <2> QED BY <2>1, AppendElements
<1>7. /\ Len(b) < MaxCapture => all = Append(b, h)
      /\ ~(Len(b) < MaxCapture) => all = b
  BY DEF AppendCapped
<1> HIDE DEF all
<1>8. all \in Seq(Chunks) /\ \A i \in DOMAIN all : (i \in DOMAIN b /\ all[i] = b[i]) \/ all[i] = h
  BY <1>1, <1>6, <1>7
<1>9. StreamType'
  BY <1>1, <1>2, <1>3, <1>5, <1>8 DEF StreamInv, StreamType
(* What comes is the caller's own or of a call that gave up.               *)
<1>10. h.from \in Calls /\ (h.from # c => pc[h.from] \in {"evict", "failed"} /\ shell[h.from] = o)
  <2>1. h.from \in Calls /\ Printed(h.from, o)
    BY <1>5 DEF Chunks, Printed
  <2>2. shell[h.from] = o /\ pc[h.from] \in {"read", "evict", "failed"}
    BY <1>1, <2>1 DEF StreamInv, Owned
  <2> QED BY <1>1, <2>1, <2>2 DEF StreamInv, Turn
<1>11. Strangers'
  <2>1. \A d \in Calls : pc[d] \in {"evict", "failed"} => pc'[d] = pc[d]
    BY <1>1, <1>4
  <2>2. \A d \in Calls : pc'[d] \in {"ensure", "open", "queued"} => pc[d] = pc'[d] /\ d # c
    BY <1>1, <1>3
  <2>3. ASSUME NEW d \in Calls, NEW i \in DOMAIN buf'[d], buf'[d][i].from # d
        PROVE  pc'[buf'[d][i].from] \in {"evict", "failed"} /\ shell[buf'[d][i].from] = shell[d]
    <3>1. CASE d # c
      BY <1>2, <2>1, <2>3, <3>1, BufferOfChunks DEF StreamInv, Strangers
    <3>2. CASE d = c
      <4>1. CASE i \in DOMAIN b /\ all[i] = b[i]
        BY <1>2, <2>1, <2>3, <3>2, <4>1, BufferOfChunks DEF StreamInv, Strangers
      <4>2. CASE all[i] = h
        BY <1>2, <1>10, <2>1, <2>3, <3>2, <4>2
      <4> QED BY <1>2, <1>8, <2>3, <3>2, <4>1, <4>2
    <3> QED BY <3>1, <3>2
  <2>4. \A d \in Calls : pc'[d] \in {"ensure", "open", "queued"} => buf'[d] = <<>>
    BY <1>2, <2>2 DEF StreamInv, Strangers
  <2> QED BY <1>2, <2>3, <2>4 DEF Strangers
(* The token ends the stream of its call.                                  *)
<1>12. ASSUME Token(c) \in Range(all)
       PROVE  /\ t = <<>> /\ stdin[o] = <<>> /\ job[o] = Idle
              /\ c \notin cut => Count(all, Out(c)) = Output[c]
  <2>1. \A i \in DOMAIN b : b[i] # Token(c)
    BY <1>1 DEF StreamInv, Turn
  <2>2. PICK j \in DOMAIN all : all[j] = Token(c)
    BY <1>12 DEF Range
  <2>3. h = Token(c) /\ Len(b) < MaxCapture /\ all = Append(b, h)
    BY <1>7, <1>8, <2>1, <2>2
  <2>4. Law(c, o)
    BY <1>1, <2>3 DEF StreamInv, InOrder
  <2>5. /\ Len(Stream(c, o)) = Len(b) + Len(w)
        /\ Len(b) + 1 \in DOMAIN Stream(c, o) /\ Stream(c, o)[Len(b) + 1] = h
    BY <1>1, Ahead DEF Stream
  <2>6. Complete(c, o)
    BY <2>3, <2>4, <2>5 DEF Law, NotStarted, Running, Flushed, Token, Chunk
  <2>7. Len(w) = 1
    <3> DEFINE x == Len(b)
               y == Len(w)
    <3>1. x \in Nat /\ y \in Nat \ {0}
      BY <1>5, <1>6
    <3>2. \A i \in 1..(Len(Stream(c, o)) - 1) : Stream(c, o)[i] # Token(c)
      BY <2>6 DEF Complete
    <3>3. ~(x + 1 \in 1..(x + y - 1))
      <4>1. Stream(c, o)[x + 1] = Token(c) /\ Len(Stream(c, o)) = x + y
        BY <2>3, <2>5
      <4> HIDE DEF x, y, o
      <4>2. \A i \in 1..(x + y - 1) : Stream(c, o)[i] # Token(c)
        BY <3>1, <3>2, <4>1
      <4> QED BY <4>1, <4>2
    <3> HIDE DEF x, y
    <3>4. y = 1
      BY <3>1, <3>3
    <3> QED BY <3>4 DEF y
  <2>8. t = <<>>
    BY <1>5, <2>7, EmptySeq
  <2>9. Stream(c, o) = all
    <3>1. all \o <<>> = all
      BY <1>8, ConcatEmptySeq
    <3> QED BY <1>5, <2>3, <2>8, <3>1 DEF Stream
  <2> QED BY <2>6, <2>8, <2>9 DEF Complete
<1>13. Owned'
  <2>1. ASSUME NEW s \in Shells, NEW d \in Calls,
               Typed(d, s)' \/ job'[s].call = d \/ Printed(d, s)'
        PROVE  Typed(d, s) \/ job[s].call = d \/ Printed(d, s)
    <3>1. Typed(d, s)' => Typed(d, s)
      BY <1>2 DEF Typed
    <3>2. Printed(d, s)' => Printed(d, s)
      BY <1>2, <1>5 DEF Printed
    <3> QED BY <1>2, <2>1, <3>1, <3>2
  <2>2. ASSUME NEW s \in Shells, Typed(c, s)' \/ job'[s].call = c \/ Printed(c, s)'
        PROVE  pc'[c] = "read"
    <3>1. s = o
      BY <2>1, <2>2 DEF StreamInv, Owned
    <3>2. CASE Token(c) \in Range(all)
      <4>1. ~Printed(c, s)' /\ ~Typed(c, s)' /\ job'[s].call # c
        <5>1. wire'[s] = <<>> /\ stdin'[s] = <<>> /\ job'[s] = Idle
          BY <1>2, <1>12, <3>1, <3>2
        <5>2. ~Printed(c, s)' /\ ~Typed(c, s)'
          BY <5>1 DEF Printed, Typed
        <5>3. Idle.call # c
          BY PtyAssumption DEF Idle
        <5> QED BY <5>1, <5>2, <5>3
      <4> QED BY <2>2, <4>1
    <3>3. CASE Token(c) \notin Range(all)
      BY <1>1, <1>3, <3>3
    <3> QED BY <3>2, <3>3
  <2> QED BY <1>2, <1>4, <2>1, <2>2 DEF StreamInv, Owned
<1>14. Turn'
  <2> SUFFICES ASSUME NEW d \in Calls, pc'[d] = "read"
               PROVE  reader'[shell[d]] = d /\ \A i \in DOMAIN buf'[d] : buf'[d][i] # Token(d)
    BY <1>2 DEF Turn
  <2>1. CASE d = c
    <3>1. Token(c) \notin Range(all) /\ reader' = reader
      BY <1>1, <1>3, <2>1
    <3> QED BY <1>1, <1>2, <2>1, <3>1 DEF Range
  <2>2. CASE d # c
    <3>1. pc[d] = "read" /\ shell[d] # o
      BY <1>1, <1>4, <2>2 DEF StreamInv, Turn
    <3>2. shell[d] \in Shells
      BY <3>1, ReadersShell DEF WithShell, StreamInv
    <3> QED BY <1>1, <1>2, <1>3, <2>2, <3>1, <3>2 DEF StreamInv, Turn
  <2> QED BY <2>1, <2>2
<1>15. InOrder'
  <2> SUFFICES ASSUME NEW d \in Calls, NEW s \in Shells, pc'[d] = "read", shell[d] = s,
                      Len(buf'[d]) < MaxCapture
               PROVE  Law(d, s)'
    BY <1>2 DEF InOrder
  <2>1. CASE d = c
    <3>1. Len(b) < MaxCapture /\ all = Append(b, h)
      BY <1>2, <1>7, <2>1
    <3>2. Law(d, s) /\ stdin'[s] = stdin[s] /\ job'[s] = job[s] /\ buf'[d] \o wire'[s] = buf[d] \o wire[s]
      BY <1>1, <1>2, <1>5, <2>1, <3>1 DEF StreamInv, InOrder
    <3> QED BY <1>2, <3>2, LawKept
  <2>2. CASE d # c
    <3>1. pc[d] = "read" /\ s # o /\ buf'[d] = buf[d] /\ wire'[s] = wire[s]
      BY <1>1, <1>2, <1>4, <2>2 DEF StreamInv, Turn
    <3>2. Law(d, s)
      BY <2>2, <3>1 DEF StreamInv, InOrder
    <3> QED BY <1>2, <3>1, <3>2, LawKept
  <2> QED BY <2>1, <2>2
<1>16. Finished'
  <2> SUFFICES ASSUME NEW d \in Calls, pc'[d] = "ok", d \notin cut
               PROVE  Count(buf'[d], Out(d)) = Output[d]
    BY <1>2 DEF Finished
  <2>1. CASE d = c
    BY <1>1, <1>2, <1>3, <1>12, <2>1
  <2>2. CASE d # c
    BY <1>2, <1>4, <2>2 DEF StreamInv, Finished
  <2> QED BY <2>1, <2>2
<1> QED BY <1>9, <1>11, <1>13, <1>14, <1>15, <1>16 DEF StreamInv

-----------------------------------------------------------------------------
(* The steps of the host and of the terminal.                              *)

LEMMA StreamGrows ==
  ASSUME StreamType, NEW c \in Calls, NEW s \in Shells, NEW k \in Chunks,
         wire'[s] = Append(wire[s], k), buf'[c] = buf[c]
  PROVE  /\ Stream(c, s) \in Seq(Chunks) /\ Stream(c, s)' = Append(Stream(c, s), k)
         /\ Len(Stream(c, s)) \in Nat /\ Len(Stream(c, s)') = Len(Stream(c, s)) + 1
         /\ Stream(c, s)'[Len(Stream(c, s)) + 1] = k
         /\ \A i \in 1..Len(Stream(c, s)) : i \in DOMAIN Stream(c, s) /\ Stream(c, s)'[i] = Stream(c, s)[i]
         /\ \A i \in DOMAIN Stream(c, s)' :
              \/ i \in DOMAIN Stream(c, s) /\ Stream(c, s)'[i] = Stream(c, s)[i]
              \/ Stream(c, s)'[i] = k
         /\ \A e : /\ Count(Stream(c, s), e) \in Nat
                   /\ k = e => Count(Stream(c, s)', e) = Count(Stream(c, s), e) + 1
                   /\ k # e => Count(Stream(c, s)', e) = Count(Stream(c, s), e)
<1>1. buf[c] \in Seq(Chunks) /\ wire[s] \in Seq(Chunks)
  BY DEF StreamType
<1>2. Stream(c, s) \in Seq(Chunks) /\ Stream(c, s)' = Append(Stream(c, s), k)
  <2>1. /\ buf[c] \o wire[s] \in Seq(Chunks)
        /\ buf[c] \o Append(wire[s], k) = Append(buf[c] \o wire[s], k)
    <3> DEFINE b == buf[c]
               w == wire[s]
    <3>1. b \in Seq(Chunks) /\ w \in Seq(Chunks)
      BY <1>1
    <3> HIDE DEF b, w
    <3>2. b \o w \in Seq(Chunks) /\ b \o Append(w, k) = Append(b \o w, k)
      BY <3>1, Emitted
    <3> QED BY <3>2 DEF b, w
  <2> QED BY <2>1 DEF Stream
<1>3. /\ Len(Stream(c, s)) \in Nat /\ Len(Append(Stream(c, s), k)) = Len(Stream(c, s)) + 1
      /\ Append(Stream(c, s), k)[Len(Stream(c, s)) + 1] = k
      /\ DOMAIN Stream(c, s) = 1..Len(Stream(c, s))
      /\ \A i \in 1..Len(Stream(c, s)) : Append(Stream(c, s), k)[i] = Stream(c, s)[i]
      /\ \A i \in DOMAIN Append(Stream(c, s), k) : i \in DOMAIN Stream(c, s) \/ i = Len(Stream(c, s)) + 1
  BY <1>2, AppendElements
<1>4. ASSUME NEW e
      PROVE  /\ Count(Stream(c, s), e) \in Nat
             /\ k = e => Count(Append(Stream(c, s), k), e) = Count(Stream(c, s), e) + 1
             /\ k # e => Count(Append(Stream(c, s), k), e) = Count(Stream(c, s), e)
  <2> DEFINE m == Count(Stream(c, s), e)
             p == Count(Append(Stream(c, s), k), e)
  <2>1. m \in Nat /\ p = m + (IF k = e THEN 1 ELSE 0)
    BY <1>2, CountAppend
  <2> HIDE DEF m, p
  <2>2. (k = e => p = m + 1) /\ (k # e => p = m)
    BY <2>1
  <2> QED BY <2>1, <2>2 DEF m, p
<1> QED BY <1>2, <1>3, <1>4

LEMMA WorkKeepsStream == ASSUME StreamInv, NEW s \in Shells, Work(s) PROVE StreamInv'
<1> DEFINE k == job[s].call
           n == job[s].left
<1>1. /\ n > 0 /\ UNCHANGED <<opened, reader, stdin, cut, calls>>
      /\ wire' = [wire EXCEPT ![s] = Append(wire[s], Out(k))]
      /\ job' = [job EXCEPT ![s] = IF n = 1 /\ k \notin Endless THEN Idle
                                    ELSE [call |-> k, left |-> n - 1]]
  <2>1. n > 0 /\ UNCHANGED <<opened, reader, stdin, cut, calls>>
    BY DEF Work, table
  <2>2. wire' = [wire EXCEPT ![s] = Append(wire[s], Out(k))]
    BY DEF Work, Emit, Out
  <2> QED BY <2>1, <2>2 DEF Work
<1>2. /\ k \in Calls /\ n \in Nat \ {0} /\ job[s] \in Jobs /\ k # NoOne
      /\ wire[s] \in Seq(Chunks) /\ job \in [Shells -> Jobs] /\ wire \in [Shells -> Seq(Chunks)]
  BY <1>1, PtyAssumption DEF StreamInv, StreamType, Jobs, Idle
<1>3. (job'[s] = Idle /\ n = 1) \/ job'[s] = [call |-> k, left |-> n - 1]
  BY <1>1, <1>2 DEF Jobs
<1>4. Out(k) \in Chunks
  BY <1>2 DEF Out, Chunk, Chunks
<1>5. /\ wire'[s] = Append(wire[s], Out(k)) /\ wire' \in [Shells -> Seq(Chunks)]
      /\ \A r \in Shells : r # s => wire'[r] = wire[r] /\ job'[r] = job[r]
      /\ \A i \in DOMAIN wire'[s] : (i \in DOMAIN wire[s] /\ wire'[s][i] = wire[s][i]) \/ wire'[s][i] = Out(k)
  <2>1. /\ Append(wire[s], Out(k)) \in Seq(Chunks)
        /\ DOMAIN wire[s] = 1..Len(wire[s])
        /\ Append(wire[s], Out(k))[Len(wire[s]) + 1] = Out(k)
        /\ \A i \in 1..Len(wire[s]) : Append(wire[s], Out(k))[i] = wire[s][i]
        /\ \A i \in DOMAIN Append(wire[s], Out(k)) : i \in DOMAIN wire[s] \/ i = Len(wire[s]) + 1
    BY <1>2, <1>4, AppendElements
  <2> QED BY <1>1, <1>2, <2>1
<1>6. job' \in [Shells -> Jobs] /\ \A r \in Shells : job'[r].call = NoOne => job'[r] = Idle
  <2>1. job'[s] \in Jobs /\ (job'[s].call = NoOne => job'[s] = Idle)
    BY <1>2, <1>3 DEF Jobs, Idle
  <2>2. job' = [job EXCEPT ![s] = job'[s]]
    BY <1>1, <1>2
  <2> QED BY <1>2, <1>5, <2>1, <2>2 DEF StreamInv, StreamType
<1>7. ASSUME NEW r \in Shells, NEW c \in Calls, (Typed(c, r) \/ job[r].call = c \/ Printed(c, r))'
      PROVE  Typed(c, r) \/ job[r].call = c \/ Printed(c, r)
  <2>1. Typed(c, r)' => Typed(c, r)
    BY <1>1 DEF Typed
  <2>2. job'[r].call = c => job[r].call = c
    BY <1>3, <1>5, PtyAssumption DEF Idle
  <2>3. Printed(c, r)' => Printed(c, r) \/ job[r].call = c
    BY <1>5 DEF Printed, Out, Chunk
  <2> QED BY <1>7, <2>1, <2>2, <2>3
<1>8. ASSUME NEW r \in Shells, NEW c \in Calls, Law(c, r) PROVE Law(c, r)'
  <2>1. CASE r # s
    BY <1>1, <1>5, <1>8, <2>1, LawKept DEF calls
  <2>2. CASE r = s
    <3> DEFINE X == Stream(c, r)
    <3>1. /\ X \in Seq(Chunks)
          /\ \A i \in DOMAIN X' : (i \in DOMAIN X /\ X'[i] = X[i]) \/ X'[i] = Out(k)
          /\ Count(X, Out(c)) \in Nat
          /\ Out(k) = Out(c) => Count(X', Out(c)) = Count(X, Out(c)) + 1
      <4>1. wire'[r] = Append(wire[r], Out(k)) /\ buf'[c] = buf[c] /\ StreamType
        BY <1>1, <1>5, <2>2 DEF calls, StreamInv
      <4> QED BY <1>4, <4>1, StreamGrows
    <3>2. stdin'[r] = stdin[r] /\ job[r] # Idle
      BY <1>1, <1>2, <2>2 DEF Idle
    <3>3. Out(k) # Token(c) /\ (k # c => Out(k).from # c) /\ (k = c => Out(k) = Out(c))
      BY DEF Out, Token, Chunk
    <3> HIDE DEF X
    <3>4. ASSUME NotStarted(c, r) PROVE NotStarted(c, r)'
      <4>1. k # c /\ job'[r].call # c
        BY <1>3, <2>2, <3>4, PtyAssumption DEF NotStarted, Idle
      <4>2. \A i \in DOMAIN X' : X'[i].from # c
        BY <3>1, <3>3, <3>4, <4>1 DEF NotStarted, X
      <4> QED BY <3>2, <3>4, <4>1, <4>2 DEF NotStarted, X
    <3>5. ASSUME Running(c, r) PROVE Running(c, r)'
      <4>1. k = c
        BY <2>2, <3>2, <3>5 DEF Running
      <4>2. job'[r] = Idle \/ job'[r].call = c
        BY <1>3, <2>2, <4>1
      <4>3. \A i \in DOMAIN X' : X'[i] # Token(c)
        BY <3>1, <3>3, <3>5 DEF Running, X
      <4>4. c \notin cut => Count(X', Out(c)) + job'[r].left = Output[c]
        <5> SUFFICES ASSUME c \notin cut PROVE Count(X', Out(c)) + job'[r].left = Output[c]
          OBVIOUS
        <5>1. Count(X, Out(c)) + n = Output[c]
          BY <2>2, <3>5 DEF Running, X
        <5>2. job'[r].left = n - 1
          BY <1>3, <2>2 DEF Idle
        <5>3. Count(X', Out(c)) = Count(X, Out(c)) + 1
          BY <3>1, <3>3, <4>1
        <5> HIDE DEF n
        <5>4. n \in Nat /\ Count(X, Out(c)) \in Nat
          BY <1>2, <3>1 DEF n
        <5> QED BY <5>1, <5>2, <5>3, <5>4
      <4> QED BY <1>1, <3>2, <3>5, <4>2, <4>3, <4>4 DEF Running, X
    <3>6. ~Complete(c, r)
      BY <3>2 DEF Complete
    <3>7. ASSUME Flushed(c, r) PROVE Flushed(c, r)'
      <4>1. \A i \in DOMAIN X' : X'[i] # Token(c)
        BY <3>1, <3>3, <3>7 DEF Flushed, X
      <4> QED BY <3>2, <3>7, <4>1 DEF Flushed, Typed, X
    <3> QED BY <1>8, <3>4, <3>5, <3>6, <3>7 DEF Law
  <2> QED BY <2>1, <2>2
<1>9. stdin' \in [Shells -> Seq(Lines)] /\ cut \subseteq cut'
  BY <1>1 DEF StreamInv, StreamType
<1> QED BY <1>1, <1>5, <1>6, <1>7, <1>8, <1>9, HostKeepsStream

LEMMA ReadLineKeepsStream == ASSUME StreamInv, NEW s \in Shells, ReadLine(s) PROVE StreamInv'
<1> DEFINE q == stdin[s]
           l == Head(q)
           t == Tail(q)
<1>1. /\ q # <<>> /\ job[s] = Idle /\ UNCHANGED <<opened, reader, cut, calls>>
      /\ stdin' = [stdin EXCEPT ![s] = t]
  BY DEF ReadLine, table
<1>2. \/ /\ l.what = "cmd" /\ wire' = wire
         /\ job' = [job EXCEPT ![s] = [call |-> l.call, left |-> Output[l.call]]]
      \/ /\ l.what = "printf" /\ job' = job
         /\ wire' = [wire EXCEPT ![s] = Append(wire[s], Token(l.call))]
  BY DEF ReadLine, Emit, Token
<1>3. /\ stdin \in [Shells -> Seq(Lines)] /\ wire \in [Shells -> Seq(Chunks)] /\ job \in [Shells -> Jobs]
      /\ \A r \in Shells : job[r].call = NoOne => job[r] = Idle
      /\ StreamType
  BY DEF StreamInv, StreamType
<1>4. /\ l \in Lines /\ l = q[1] /\ 1 \in DOMAIN q /\ Len(q) \in Nat \ {0}
      /\ t \in Seq(Lines) /\ Len(t) = Len(q) - 1 /\ DOMAIN t = 1..(Len(q) - 1)
      /\ \A i \in 1..(Len(q) - 1) : i + 1 \in DOMAIN q /\ t[i] = q[i + 1]
  <2>1. q \in Seq(Lines) /\ q # <<>>
    BY <1>1, <1>3
  <2> HIDE DEF q
  <2> QED BY <2>1, HeadTail
<1>5. l.call \in Calls /\ l.call # NoOne /\ Typed(l.call, s) /\ Output[l.call] \in Nat
  BY <1>4, PtyAssumption DEF Lines, Typed
<1>6. Token(l.call) \in Chunks
  BY <1>5 DEF Token, Chunk, Chunks
<1> HIDE DEF l, t
<1>7. /\ stdin'[s] = t /\ stdin' \in [Shells -> Seq(Lines)]
      /\ \A r \in Shells : r # s => stdin'[r] = stdin[r] /\ wire'[r] = wire[r] /\ job'[r] = job[r]
  BY <1>1, <1>2, <1>3, <1>4
<1>8. /\ wire' \in [Shells -> Seq(Chunks)]
      /\ \A i \in DOMAIN wire'[s] : \/ i \in DOMAIN wire[s] /\ wire'[s][i] = wire[s][i]
                                    \/ wire'[s][i].from = l.call
  <2>1. /\ Append(wire[s], Token(l.call)) \in Seq(Chunks)
        /\ DOMAIN wire[s] = 1..Len(wire[s])
        /\ Append(wire[s], Token(l.call))[Len(wire[s]) + 1] = Token(l.call)
        /\ \A i \in 1..Len(wire[s]) : Append(wire[s], Token(l.call))[i] = wire[s][i]
        /\ \A i \in DOMAIN Append(wire[s], Token(l.call)) : i \in DOMAIN wire[s] \/ i = Len(wire[s]) + 1
    <3>1. wire[s] \in Seq(Chunks)
      BY <1>3
    <3> QED BY <1>6, <3>1, AppendElements
  <2>2. Token(l.call).from = l.call
    BY DEF Token, Chunk
  <2>3. CASE wire' = wire
    BY <1>3, <2>3
  <2>4. CASE wire' = [wire EXCEPT ![s] = Append(wire[s], Token(l.call))]
    <3>1. wire'[s] = Append(wire[s], Token(l.call)) /\ wire' \in [Shells -> Seq(Chunks)]
      BY <1>3, <2>1, <2>4
    <3> QED BY <2>1, <2>2, <3>1
  <2> QED BY <1>2, <2>3, <2>4
<1>9. /\ job' \in [Shells -> Jobs] /\ \A r \in Shells : job'[r].call = NoOne => job'[r] = Idle
      /\ job'[s].call \in {l.call, NoOne}
  <2>1. CASE job' = [job EXCEPT ![s] = [call |-> l.call, left |-> Output[l.call]]]
    <3>1. [call |-> l.call, left |-> Output[l.call]] \in Jobs
      BY <1>5 DEF Jobs
    <3> QED BY <1>3, <1>5, <2>1, <3>1
  <2>2. CASE job' = job
    BY <1>1, <1>3, <2>2 DEF Idle
  <2> QED BY <1>2, <2>1, <2>2
<1>10. \A c \in Calls : Typed(c, s)' => Typed(c, s)
  <2> SUFFICES ASSUME NEW c \in Calls, NEW i \in DOMAIN t, t[i].call = c PROVE Typed(c, s)
    BY <1>7 DEF Typed
  <2> QED BY <1>4 DEF Typed
<1>11. ASSUME NEW r \in Shells, NEW c \in Calls, (Typed(c, r) \/ job[r].call = c \/ Printed(c, r))'
       PROVE  Typed(c, r) \/ job[r].call = c \/ Printed(c, r)
  <2>1. CASE r # s
    BY <1>7, <1>11, <2>1 DEF Typed, Printed
  <2>2. CASE r = s
    <3>1. job'[r].call = c => Typed(c, r)
      BY <1>5, <1>9, <2>2, PtyAssumption
    <3>2. Printed(c, r)' => Printed(c, r) \/ Typed(c, r)
      BY <1>5, <1>8, <2>2 DEF Printed
    <3> QED BY <1>10, <1>11, <2>2, <3>1, <3>2
  <2> QED BY <2>1, <2>2
<1>12. ASSUME NEW c \in Calls, Law(c, s) PROVE Law(c, s)'
  (* What the step adds to the stream is the token of the line's call.     *)
  <2>1. \/ l.what = "cmd" /\ Stream(c, s)' = Stream(c, s)
        \/ /\ l.what = "printf" /\ Stream(c, s) \in Seq(Chunks)
           /\ Len(Stream(c, s)) \in Nat /\ Len(Stream(c, s)') = Len(Stream(c, s)) + 1
           /\ Stream(c, s)'[Len(Stream(c, s)) + 1] = Token(l.call)
           /\ \A i \in 1..Len(Stream(c, s)) :
                i \in DOMAIN Stream(c, s) /\ Stream(c, s)'[i] = Stream(c, s)[i]
           /\ \A i \in DOMAIN Stream(c, s)' :
                \/ i \in DOMAIN Stream(c, s) /\ Stream(c, s)'[i] = Stream(c, s)[i]
                \/ Stream(c, s)'[i] = Token(l.call)
           /\ Count(Stream(c, s), Out(c)) \in Nat
           /\ Count(Stream(c, s)', Out(c)) = Count(Stream(c, s), Out(c))
    <3>1. buf' = buf
      BY <1>1 DEF calls
    <3>2. CASE l.what = "cmd" /\ wire' = wire
      BY <3>1, <3>2 DEF Stream
    <3>3. CASE l.what = "printf" /\ wire' = [wire EXCEPT ![s] = Append(wire[s], Token(l.call))]
      <4>1. wire'[s] = Append(wire[s], Token(l.call))
        BY <1>3, <3>3
      <4>2. Token(l.call) # Out(c)
        BY DEF Token, Out, Chunk
      <4> QED BY <1>3, <1>6, <3>1, <3>3, <4>1, <4>2, StreamGrows
    <3> QED BY <1>2, <3>2, <3>3
  <2>2. l.call # c => Token(l.call).from # c /\ Token(l.call) # Token(c)
    BY DEF Token, Chunk
  <2>3. ASSUME NotStarted(c, s), Len(q) = 2 PROVE Running(c, s)'
    <3>1. l = Line(c, "cmd") /\ t = <<Line(c, "printf")>>
      <4>1. Len(q) - 1 = 1 /\ q[1] = Line(c, "cmd") /\ q[2] = Line(c, "printf")
        BY <2>3 DEF NotStarted
      <4>2. Len(t) = 1 /\ t[1] = q[2]
        BY <1>4, <2>3
      <4>3. t = <<t[1]>>
        BY <1>4, <4>2, OneLeft
      <4> QED BY <1>4, <4>1, <4>2, <4>3
    <3>2. l.call = c /\ l.what = "cmd"
      BY <3>1 DEF Line
    <3>3. Stream(c, s)' = Stream(c, s) /\ job'[s] = [call |-> c, left |-> Output[c]]
      BY <1>2, <1>3, <2>1, <3>2
    <3>4. \A i \in DOMAIN Stream(c, s) : Stream(c, s)[i] # Token(c) /\ Stream(c, s)[i] # Out(c)
      BY <2>3 DEF NotStarted, Token, Out, Chunk
    <3>5. Count(Stream(c, s), Out(c)) + Output[c] = Output[c]
      BY <1>5, <3>2, <3>4, CountNone
    <3> QED BY <1>1, <1>7, <3>1, <3>3, <3>4, <3>5 DEF Running
  <2>4. ASSUME NotStarted(c, s), Len(q) # 2 PROVE NotStarted(c, s)'
    <3>1. /\ Len(q) > 2 /\ q[Len(q) - 1] = Line(c, "cmd") /\ q[Len(q)] = Line(c, "printf")
          /\ \A i \in 1..(Len(q) - 2) : q[i].call # c
      <4> DEFINE n == Len(q)
      <4>1. /\ n >= 2 /\ q[n - 1] = Line(c, "cmd") /\ q[n] = Line(c, "printf")
            /\ \A i \in 1..(n - 2) : q[i].call # c
        BY <2>4 DEF NotStarted
      <4>2. n \in Nat /\ n # 2
        BY <1>4, <2>4
      <4> HIDE DEF n
      <4>3. n > 2
        BY <4>1, <4>2
      <4> QED BY <4>1, <4>3 DEF n
    <3>2. l.call # c
      BY <1>4, <3>1
    <3>3. job'[s].call # c
      BY <1>9, <3>2, PtyAssumption
    <3>4. \A i \in DOMAIN Stream(c, s)' : Stream(c, s)'[i].from # c
      BY <2>1, <2>2, <2>4, <3>2 DEF NotStarted
    <3>5. Len(t) >= 2 /\ t[Len(t) - 1] = Line(c, "cmd") /\ t[Len(t)] = Line(c, "printf")
      <4>1. Len(t) - 1 \in 1..(Len(q) - 1) /\ Len(t) \in 1..(Len(q) - 1) /\ Len(t) >= 2
        BY <1>4, <3>1
      <4>2. t[Len(t) - 1] = q[Len(t)] /\ t[Len(t)] = q[Len(t) + 1]
        <5> DEFINE m == Len(t)
                   n == Len(q) - 1
        <5>1. m - 1 \in 1..n /\ m \in 1..n /\ m \in Int
          BY <1>4, <4>1
        <5>2. \A i \in 1..n : t[i] = q[i + 1]
          BY <1>4
        <5> HIDE DEF m, n
        <5>3. t[m - 1] = q[(m - 1) + 1] /\ t[m] = q[m + 1] /\ (m - 1) + 1 = m
          BY <5>1, <5>2
        <5> QED BY <5>3 DEF m
      <4> QED BY <1>4, <3>1, <4>1, <4>2
    <3>6. \A i \in 1..(Len(t) - 2) : t[i].call # c
      BY <1>4, <3>1
    <3> QED BY <1>7, <3>3, <3>4, <3>5, <3>6 DEF NotStarted
  <2>5. ASSUME Running(c, s) PROVE Complete(c, s)'
    <3>1. q = <<Line(c, "printf")>>
      BY <2>5 DEF Running
    <3>2. l = Line(c, "printf") /\ t = <<>>
      BY <1>4, <3>1, EmptySeq
    <3>3. l.call = c /\ l.what = "printf"
      BY <3>2 DEF Line
    <3>4. job'[s] = Idle
      BY <1>1, <1>2, <3>3
    <3>5. c \notin cut => Count(Stream(c, s)', Out(c)) = Output[c]
      BY <1>1, <2>1, <2>5, <3>3 DEF Running, Idle
    <3>6. /\ Len(Stream(c, s)') > 0 /\ Stream(c, s)'[Len(Stream(c, s)')] = Token(c)
          /\ \A i \in 1..(Len(Stream(c, s)') - 1) : Stream(c, s)'[i] # Token(c)
      <4>1. Len(Stream(c, s)') - 1 = Len(Stream(c, s)) /\ Len(Stream(c, s)') > 0
        BY <2>1, <3>3
      <4>2. Stream(c, s)'[Len(Stream(c, s)')] = Token(c)
        BY <2>1, <3>3
      <4>3. \A i \in 1..Len(Stream(c, s)) : Stream(c, s)'[i] # Token(c)
        BY <2>1, <2>5, <3>3 DEF Running
      <4> QED BY <4>1, <4>2, <4>3
    <3> QED BY <1>1, <1>7, <3>2, <3>4, <3>5, <3>6 DEF Complete
  <2>6. ~Complete(c, s)
    BY <1>1 DEF Complete
  <2>7. ASSUME Flushed(c, s) PROVE Flushed(c, s)'
    <3>1. l.call # c
      BY <1>5, <2>7 DEF Flushed
    <3> QED BY <1>10, <2>1, <2>2, <2>7, <3>1 DEF Flushed
  <2> QED BY <1>12, <2>3, <2>4, <2>5, <2>6, <2>7 DEF Law
<1>13. ASSUME NEW r \in Shells, NEW c \in Calls, Law(c, r) PROVE Law(c, r)'
  <2>1. CASE r # s
    BY <1>1, <1>7, <1>13, <2>1, LawKept DEF calls
  <2>2. CASE r = s
    BY <1>12, <1>13, <2>2
  <2> QED BY <2>1, <2>2
<1>14. cut \subseteq cut'
  BY <1>1
<1> QED BY <1>1, <1>7, <1>8, <1>9, <1>11, <1>13, <1>14, HostKeepsStream

LEMMA InterruptKeepsStream == ASSUME IInv, StreamInv, Interrupt PROVE StreamInv'
<1>1. PICK hit \in SUBSET (Range(slots) \ (gone \cup {NoShell})) :
        /\ cut' = cut \cup ({job[s].call : s \in hit} \ {NoOne})
        /\ job' = [s \in Shells |-> IF s \in hit THEN Idle ELSE job[s]]
        /\ \E flushed \in SUBSET hit :
             stdin' = [s \in Shells |-> IF s \in flushed THEN <<>> ELSE stdin[s]]
  BY DEF Interrupt
<1>2. PICK flushed \in SUBSET hit : stdin' = [s \in Shells |-> IF s \in flushed THEN <<>> ELSE stdin[s]]
  BY <1>1
<1>3. UNCHANGED <<opened, reader, wire, calls>>
  BY DEF Interrupt, table
<1>4. hit \subseteq Shells
  <2>1. ASSUME NEW s \in hit PROVE s \in Shells
    <3>1. PICK n \in Names : s = slots[n] /\ s # 0
      BY DEF Range, IInv, TypeInv, NoShell
    <3>2. s \in Nat /\ s <= opened /\ opened \in Nat /\ opened <= MaxShells
      BY <3>1 DEF IInv, TypeInv, Numbered, StreamInv, StreamType
    <3> QED BY <3>1, <3>2, PtyAssumption DEF Shells
  <2> QED BY <2>1
<1>5. /\ stdin \in [Shells -> Seq(Lines)] /\ wire \in [Shells -> Seq(Chunks)] /\ job \in [Shells -> Jobs]
      /\ \A s \in Shells : job[s].call = NoOne => job[s] = Idle
  BY DEF StreamInv, StreamType
<1>6. Idle \in Jobs /\ \A c \in Calls : Idle.call # c
  BY PtyAssumption DEF Idle, Jobs
<1>7. /\ stdin' \in [Shells -> Seq(Lines)] /\ job' \in [Shells -> Jobs]
      /\ \A s \in Shells : job'[s].call = NoOne => job'[s] = Idle
  <2>1. <<>> \in Seq(Lines)
    BY EmptySeq
  <2> QED BY <1>1, <1>2, <1>5, <1>6, <2>1
<1>8. \A s \in Shells : /\ job'[s] = Idle \/ (s \notin hit /\ job'[s] = job[s])
                        /\ stdin'[s] = stdin[s] \/ (s \in hit /\ stdin'[s] = <<>>)
  BY <1>1, <1>2
<1>9. ASSUME NEW s \in Shells, NEW c \in Calls, (Typed(c, s) \/ job[s].call = c \/ Printed(c, s))'
      PROVE  Typed(c, s) \/ job[s].call = c \/ Printed(c, s)
  <2>1. Typed(c, s)' => Typed(c, s)
    BY <1>8 DEF Typed
  <2>2. Printed(c, s)' => Printed(c, s)
    BY <1>3 DEF Printed
  <2>3. job'[s].call = c => job[s].call = c
    BY <1>6, <1>8
  <2> QED BY <1>9, <2>1, <2>2, <2>3
(* Only the command of an interrupted shell is cut.                        *)
<1>10. ASSUME NEW s \in Shells, NEW c \in Calls, shell[c] = s
       PROVE  /\ c \in cut => c \in cut'
              /\ c \in cut' => c \in cut \/ (s \in hit /\ job[s].call = c)
              /\ s \in hit /\ job[s].call = c => c \in cut'
  <2>1. c \in cut' => c \in cut \/ (\E r \in hit : job[r].call = c)
    BY <1>1
  <2>2. \A r \in hit : job[r].call = c => r = s
    BY <1>4, <1>10 DEF StreamInv, Owned
  <2>3. s \in hit /\ job[s].call = c => c \in cut'
    BY <1>1, PtyAssumption
  <2>4. c \in cut => c \in cut'
    BY <1>1
  <2> QED BY <2>1, <2>2, <2>3, <2>4
<1>11. ASSUME NEW s \in Shells, NEW c \in Calls, shell[c] = s, Law(c, s) PROVE Law(c, s)'
  <2>1. Stream(c, s)' = Stream(c, s)
    BY <1>3 DEF Stream, calls
  <2>2. CASE s \notin hit
    <3>1. stdin'[s] = stdin[s] /\ job'[s] = job[s] /\ (c \in cut' <=> c \in cut)
      BY <1>1, <1>2, <1>10, <1>11, <2>2
    <3> QED BY <1>3, <1>11, <3>1, LawKept DEF calls
  <2>3. CASE s \in hit
    <3>1. job'[s] = Idle /\ (c \notin cut' => c \notin cut /\ job[s].call # c)
      BY <1>1, <1>10, <1>11, <2>3
    <3>2. ASSUME NotStarted(c, s), stdin'[s] = stdin[s] PROVE NotStarted(c, s)'
      BY <1>6, <2>1, <3>1, <3>2 DEF NotStarted
    <3>3. ASSUME Running(c, s), stdin'[s] = stdin[s] PROVE Running(c, s)'
      BY <2>1, <3>1, <3>3 DEF Running
    <3>4. ASSUME Complete(c, s) PROVE Complete(c, s)'
      BY <1>8, <2>1, <3>1, <3>4 DEF Complete
    <3>5. ASSUME Flushed(c, s) PROVE Flushed(c, s)'
      BY <1>8, <2>1, <3>5 DEF Flushed, Typed
    <3>6. ASSUME NotStarted(c, s) \/ Running(c, s), stdin'[s] = <<>> PROVE Flushed(c, s)'
      <4>1. \A i \in DOMAIN Stream(c, s) : Stream(c, s)[i] # Token(c)
        BY <3>6 DEF NotStarted, Running, Token, Chunk
      <4> QED BY <2>1, <3>6, <4>1 DEF Flushed, Typed
    <3> QED BY <1>8, <1>11, <3>2, <3>3, <3>4, <3>5, <3>6 DEF Law
  <2> QED BY <2>2, <2>3
<1>12. cut \subseteq cut' /\ wire' \in [Shells -> Seq(Chunks)]
  BY <1>1, <1>3, <1>5
<1> QED BY <1>3, <1>7, <1>9, <1>11, <1>12, HostKeepsStream

LEMMA StreamInvHolds == Spec => [](IInv /\ StreamInv)
<1>1. Init => IInv /\ StreamInv
  <2> SUFFICES ASSUME Init PROVE StreamInv
    BY InitIInv
  <2>1. StreamType
    <3>1. \A S : <<>> \in Seq(S)
      BY EmptySeq
    <3>2. Idle \in Jobs
      BY DEF Idle, Jobs
    <3> QED BY <3>1, <3>2, PtyAssumption DEF Init, StreamType
  <2>2. Owned
    BY PtyAssumption DEF Init, Owned, Typed, Printed, Idle
  <2>3. Turn /\ Strangers /\ InOrder /\ Finished
    BY DEF Init, Turn, Strangers, InOrder, Finished
  <2> QED BY <2>1, <2>2, <2>3 DEF StreamInv
<1>2. IInv /\ StreamInv /\ [Next]_vars => IInv' /\ StreamInv'
  <2> SUFFICES ASSUME IInv, StreamInv, [Next]_vars PROVE StreamInv'
    BY NextIInv
  <2>1. ASSUME NEW c \in Calls, LockSlot(c) \/ OpenShell(c) \/ Fail(c) \/ Evict(c) PROVE StreamInv'
    <3>1. UNCHANGED <<stdin, job, wire, cut, buf>>
      BY <2>1 DEF LockSlot, OpenShell, Fail, Evict, remote
    <3>2. opened' <= MaxShells
      BY <2>1, PtyAssumption DEF LockSlot, OpenShell, Fail, Evict, table, StreamInv, StreamType, IInv, TypeInv
    <3>3. reader' \in [Shells -> Calls \cup {NoOne}]
      BY <2>1 DEF LockSlot, OpenShell, Fail, Evict, Release, StreamInv, StreamType
    <3>4. ASSUME NEW d \in Calls, pc[d] = "read", pc'[d] = "read" PROVE reader'[shell[d]] = reader[shell[d]]
      <4>1. CASE Fail(c)
        <5>1. /\ pc[c] = "read" /\ pc'[c] = "evict" /\ reader' = [reader EXCEPT ![shell[c]] = NoOne]
              /\ pc \in [Calls -> Places]
          BY <4>1 DEF Fail, Release, Goto, IInv, TypeInv
        <5>2. shell[d] # shell[c] /\ shell[d] \in Shells
          BY <3>4, <5>1, ReadersShell DEF StreamInv, Turn, WithShell
        <5> QED BY <5>1, <5>2 DEF StreamInv, StreamType
      <4>2. CASE ~Fail(c)
        BY <2>1, <4>2 DEF LockSlot, OpenShell, Evict
      <4> QED BY <4>1, <4>2
    <3>5. ASSUME NEW d \in Calls
          PROVE  \/ pc'[d] = pc[d] /\ shell'[d] = shell[d]
                 \/ pc[d] \in {"ensure", "open"} /\ pc'[d] \in {"open", "queued", "refused"}
                 \/ /\ pc[d] \in {"queued", "read", "evict"} /\ pc'[d] \in {"evict", "failed"}
                    /\ shell'[d] = shell[d]
      <4>1. pc \in [Calls -> Places] /\ shell \in [Calls -> Nat]
        BY DEF IInv, TypeInv
      <4> QED BY <2>1, <4>1 DEF LockSlot, OpenShell, Fail, Evict, Goto
    <3> QED BY <3>1, <3>2, <3>3, <3>4, <3>5, NothingRead
  <2>2. ASSUME NEW c \in Calls, Send(c) PROVE StreamInv'
    BY <2>2, SendKeepsStream
  <2>3. ASSUME NEW c \in Calls, Receive(c) PROVE StreamInv'
    BY <2>3, ReceiveKeepsStream
  <2>4. ASSUME UNCHANGED <<stdin, job, wire, cut, buf, opened, reader, pc, shell>> PROVE StreamInv'
    BY <2>4, NothingRead DEF StreamInv, StreamType
  <2>5. ASSUME NEW n \in Names, CloseShell(n) PROVE StreamInv'
    BY <2>4, <2>5 DEF CloseShell, remote, calls
  <2>6. CASE Interrupt
    BY <2>6, InterruptKeepsStream
  <2>7. ASSUME NEW s \in Shells, ReadLine(s) PROVE StreamInv'
    BY <2>7, ReadLineKeepsStream
  <2>8. ASSUME NEW s \in Shells, Work(s) PROVE StreamInv'
    BY <2>8, WorkKeepsStream
  <2>9. ASSUME NEW s \in Shells, Hangup(s) PROVE StreamInv'
    BY <2>4, <2>9 DEF Hangup, table, calls
  <2>10. CASE UNCHANGED vars
    BY <2>4, <2>10 DEF vars, table, remote, calls
  <2> QED BY <2>1, <2>2, <2>3, <2>5, <2>6, <2>7, <2>8, <2>9, <2>10 DEF Next
<1> QED BY <1>1, <1>2, PTL DEF Spec

(* What a successful call returns is all its command printed, unless an    *)
(* interrupt ended it, and what else is in it comes from calls on the same *)
(* shell that gave up (`PtyState::run`, session/pty.rs; `sh`, run.rs 438). *)
THEOREM NoSplicedOutput == Spec => []OutputIsWhole
<1>1. StreamInv => OutputIsWhole
  <2> SUFFICES ASSUME StreamInv, NEW c \in Calls, pc[c] = "ok"
               PROVE  /\ c \notin cut => Count(buf[c], Out(c)) = Output[c]
                      /\ \A k \in Range(buf[c]) : k.from # c =>
                           pc[k.from] \in {"evict", "failed"} /\ shell[k.from] = shell[c]
    BY DEF OutputIsWhole, Count, Out
  <2>1. c \notin cut => Count(buf[c], Out(c)) = Output[c]
    BY DEF StreamInv, Finished
  <2>2. ASSUME NEW k \in Range(buf[c]), k.from # c
        PROVE  pc[k.from] \in {"evict", "failed"} /\ shell[k.from] = shell[c]
    <3>1. PICK i \in DOMAIN buf[c] : buf[c][i] = k
      BY DEF Range
    <3> QED BY <2>2, <3>1 DEF StreamInv, Strangers
  <2> QED BY <2>1, <2>2
<1> QED BY <1>1, StreamInvHolds, PTL
=============================================================================
