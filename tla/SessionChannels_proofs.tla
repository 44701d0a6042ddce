----------------------- MODULE SessionChannels_proofs -----------------------
(***************************************************************************)
(* Proofs about SessionChannels, for every number of slots and of calls.   *)
(***************************************************************************)
EXTENDS SessionChannels, FiniteSetTheorems, SequenceTheorems, TLAPS

-----------------------------------------------------------------------------
(* The queue. *)

(* `RemoveAt` keeps a sequence one, shortens it by one and keeps the rest. *)
LEMMA RemoveAtProperties ==
  ASSUME NEW S, NEW seq \in Seq(S), NEW i \in 1..Len(seq)
  PROVE  /\ RemoveAt(seq, i) \in Seq(S)
         /\ Len(RemoveAt(seq, i)) = Len(seq) - 1
         /\ \A j \in 1..(Len(seq) - 1) :
              RemoveAt(seq, i)[j] = IF j < i THEN seq[j] ELSE seq[j + 1]
<1> DEFINE l == SubSeq(seq, 1, i - 1)
           r == SubSeq(seq, i + 1, Len(seq))
<1>0. Len(seq) \in Nat /\ i \in Int /\ i >= 1 /\ i <= Len(seq) /\ \A j \in 1..Len(seq) : seq[j] \in S
  BY LenProperties, ElementOfSeq
<1>1. /\ l \in Seq(S) /\ Len(l) = i - 1
      /\ \A j \in 1..(i - 1) : l[j] = seq[j]
  <2>1. \A j \in 1..(i - 1) : seq[j] \in S
    BY <1>0
  <2>2. i - 1 \in Int /\ 1 \in Int
    BY <1>0
  <2>3. /\ l \in Seq(S)
        /\ Len(l) = IF 1 <= i - 1 THEN (i - 1) - 1 + 1 ELSE 0
        /\ \A j \in 1..((i - 1) - 1 + 1) : l[j] = seq[1 + j - 1]
    BY <2>1, <2>2, SubSeqProperties
  <2> QED BY <2>3, <1>0
<1>2. /\ r \in Seq(S) /\ Len(r) = Len(seq) - i
      /\ \A j \in 1..(Len(seq) - i) : r[j] = seq[i + j]
  <2>1. \A j \in (i + 1)..Len(seq) : seq[j] \in S
    BY <1>0
  <2>2. i + 1 \in Int /\ Len(seq) \in Int
    BY <1>0
  <2>3. /\ r \in Seq(S)
        /\ Len(r) = IF i + 1 <= Len(seq) THEN Len(seq) - (i + 1) + 1 ELSE 0
        /\ \A j \in 1..(Len(seq) - (i + 1) + 1) : r[j] = seq[i + 1 + j - 1]
    BY <2>1, <2>2, SubSeqProperties
  <2> QED BY <2>3, <1>0
<1>3. RemoveAt(seq, i) = l \o r
  BY DEF RemoveAt
<1>4. /\ l \o r \in Seq(S)
      /\ Len(l \o r) = Len(l) + Len(r)
      /\ \A j \in 1..(Len(l) + Len(r)) :
           (l \o r)[j] = IF j <= Len(l) THEN l[j] ELSE r[j - Len(l)]
  <2> HIDE DEF l, r
  <2> QED BY <1>1, <1>2, ConcatProperties
<1> HIDE DEF l, r
<1>5. \A j \in 1..(Len(seq) - 1) :
        (l \o r)[j] = IF j < i THEN seq[j] ELSE seq[j + 1]
  <2> TAKE j \in 1..(Len(seq) - 1)
  <2>1. (l \o r)[j] = IF j <= i - 1 THEN l[j] ELSE r[j - (i - 1)]
    BY <1>0, <1>1, <1>2, <1>4
  <2>2. j <= i - 1 => l[j] = seq[j]
    BY <1>0, <1>1
  <2>3. ~(j <= i - 1) => j - (i - 1) \in 1..(Len(seq) - i) /\ i + (j - (i - 1)) = j + 1
    BY <1>0
  <2>4. ~(j <= i - 1) => r[j - (i - 1)] = seq[j + 1]
    BY <2>3, <1>2
  <2> QED BY <1>0, <2>1, <2>2, <2>4
<1> QED BY <1>0, <1>1, <1>2, <1>3, <1>4, <1>5

(* A call that leaves the select! leaves the queue, and no other does. *)
LEMMA LeaveLineOK ==
  ASSUME LineOK, stage \in [Calls -> Stages],
         NEW c \in Calls, NEW s \in Stages \ {"queued"},
         stage[c] = "queued", MoveTo(c, s), LeaveLine(c)
  PROVE  LineOK' /\ Queued' = Queued \ {c}
<1>1. PICK k \in DOMAIN line : line[k] = c /\ line' = RemoveAt(line, k)
  BY DEF LeaveLine
<1>2. Len(line) \in Nat /\ DOMAIN line = 1..Len(line)
  BY LenProperties DEF LineOK
<1>3. /\ line' \in Seq(Calls) /\ Len(line') = Len(line) - 1
      /\ \A j \in 1..(Len(line) - 1) : line'[j] = IF j < k THEN line[j] ELSE line[j + 1]
  BY <1>1, <1>2, RemoveAtProperties DEF LineOK
<1>4. DOMAIN line' = 1..(Len(line) - 1)
  BY <1>3, LenProperties
<1>5. Queued' = Queued \ {c}
  BY DEF Queued, MoveTo, Stages
<1>6. IsInjective(line')
  <2>1. \A i, j \in 1..Len(line) : line[i] = line[j] => i = j
    BY <1>2 DEF LineOK, IsInjective
  <2>2. SUFFICES ASSUME NEW i \in 1..(Len(line) - 1), NEW j \in 1..(Len(line) - 1),
                        line'[i] = line'[j]
                 PROVE  i = j
    BY <1>4 DEF IsInjective
  <2>3. PICK a \in 1..Len(line), b \in 1..Len(line) :
             /\ line'[i] = line[a] /\ a = (IF i < k THEN i ELSE i + 1)
             /\ line'[j] = line[b] /\ b = (IF j < k THEN j ELSE j + 1)
    BY <1>2, <1>3
  <2>4. a = b
    BY <2>1, <2>2, <2>3
  <2> QED BY <1>1, <1>2, <2>3, <2>4
<1>7. ToSet(line') = ToSet(line) \ {c}
  <2>1. ASSUME NEW x \in ToSet(line')
        PROVE  x \in ToSet(line) \ {c}
    <3>1. PICK j \in 1..(Len(line) - 1) : x = line'[j]
      BY <1>4 DEF ToSet
    <3>2. CASE j < k
      <4>1. x = line[j] /\ j \in DOMAIN line /\ j # k
        BY <1>2, <1>3, <3>1, <3>2
      <4> QED BY <4>1, <1>1 DEF ToSet, IsInjective, LineOK
    <3>3. CASE ~(j < k)
      <4>1. x = line[j + 1] /\ j + 1 \in DOMAIN line /\ j + 1 # k
        BY <1>2, <1>3, <3>1, <3>3
      <4> QED BY <4>1, <1>1 DEF ToSet, IsInjective, LineOK
    <3> QED BY <3>2, <3>3
  <2>2. ASSUME NEW x \in ToSet(line) \ {c}
        PROVE  x \in ToSet(line')
    <3>1. PICK j \in 1..Len(line) : x = line[j]
      BY <1>2 DEF ToSet
    <3>2. j # k
      BY <1>1, <2>2, <3>1
    <3>3. CASE j < k
      <4>1. j \in 1..(Len(line) - 1) /\ x = line'[j]
        BY <1>2, <1>3, <3>1, <3>3
      <4> QED BY <4>1, <1>4 DEF ToSet
    <3>4. CASE ~(j < k)
      <4>1. j - 1 \in 1..(Len(line) - 1) /\ ~(j - 1 < k) /\ (j - 1) + 1 = j
        BY <1>2, <3>1, <3>2, <3>4
      <4>2. x = line'[j - 1]
        BY <1>3, <3>1, <4>1
      <4> QED BY <4>1, <4>2, <1>4 DEF ToSet
    <3> QED BY <3>3, <3>4
  <2> QED BY <2>1, <2>2
<1> QED BY <1>3, <1>5, <1>6, <1>7 DEF LineOK

(* A call that enters the select! joins at the tail. *)
LEMMA JoinLineOK ==
  ASSUME LineOK, stage \in [Calls -> Stages], NEW c \in Calls,
         stage[c] # "queued", MoveTo(c, "queued"), line' = Append(line, c)
  PROVE  LineOK' /\ Queued' = Queued \cup {c}
<1>1. /\ line' \in Seq(Calls) /\ Len(line') = Len(line) + 1
      /\ \A i \in 1..Len(line) : line'[i] = line[i]
      /\ line'[Len(line) + 1] = c
  BY AppendProperties DEF LineOK
<1>2. /\ Len(line) \in Nat /\ DOMAIN line = 1..Len(line)
      /\ DOMAIN line' = 1..(Len(line) + 1)
  BY <1>1, LenProperties DEF LineOK
<1>3. Queued' = Queued \cup {c}
  BY DEF Queued, MoveTo
<1>4. c \notin Queued
  BY DEF Queued
<1>5. \A i \in 1..Len(line) : line[i] # c
  BY <1>2, <1>4 DEF LineOK, ToSet
<1>6. IsInjective(line')
  BY <1>1, <1>2, <1>5 DEF IsInjective, LineOK
<1>7. ToSet(line') = ToSet(line) \cup {c}
  BY <1>1, <1>2 DEF ToSet
<1> QED BY <1>1, <1>3, <1>6, <1>7 DEF LineOK

(* A permit given up goes back to the semaphore when nobody queues for it, *)
(* else to one call of its queue.                                          *)
LEMMA ReturnPermitCases ==
  ASSUME TypeOK, NEW c \in Calls, c \notin Ungranted, ReturnPermit(c)
  PROVE  \/ Ungranted = {} /\ free' = free + 1 /\ granted' = granted \ {c}
         \/ /\ free' = free
            /\ \E d \in Ungranted : d # c /\ granted' = (granted \ {c}) \cup {d}
BY DEF ReturnPermit, IsFirst

(* A notification is stored when nobody sleeps, else wakes one sleeper. *)
LEMMA NotifyParkedCases ==
  ASSUME TypeOK, NEW leaving, NotifyParked(leaving)
  PROVE  \/ Sleeping \ leaving = {} /\ signal' = TRUE /\ woken' = woken \ leaving
         \/ /\ signal' = signal
            /\ \E d \in Sleeping \ leaving : woken' = (woken \ leaving) \cup {d}
BY DEF NotifyParked, IsFirst

(* What leaving the select! does to the semaphore and to the Notify. *)
LEMMA DropAcquireCases ==
  ASSUME TypeOK, NEW c \in Calls, DropAcquire(c)
  PROVE  \/ c \notin granted /\ free' = free /\ granted' = granted
         \/ c \in granted /\ Ungranted = {} /\ free' = free + 1 /\ granted' = granted \ {c}
         \/ /\ c \in granted /\ free' = free
            /\ \E d \in Ungranted : d # c /\ granted' = (granted \ {c}) \cup {d}
BY ReturnPermitCases DEF DropAcquire, Ungranted, slots

LEMMA DropNotifiedCases ==
  ASSUME TypeOK, NEW c \in Calls, DropNotified(c)
  PROVE  \/ c \notin woken /\ signal' = signal /\ woken' = woken
         \/ c \in woken /\ Sleeping = {} /\ signal' = TRUE /\ woken' = woken \ {c}
         \/ /\ c \in woken /\ signal' = signal
            /\ \E d \in Sleeping : d # c /\ woken' = (woken \ {c}) \cup {d}
BY NotifyParkedCases DEF DropNotified, Sleeping, wakes

(* A step that moves no call into or out of the queue keeps it. *)
LEMMA SameLine ==
  ASSUME TypeOK, NEW c \in Calls, NEW s \in Stages \ {"queued"},
         stage[c] # "queued", MoveTo(c, s), UNCHANGED line
  PROVE  LineOK' /\ Queued' = Queued
BY DEF TypeOK, LineOK, Queued, MoveTo, Stages, ToSet, IsInjective

-----------------------------------------------------------------------------
(* Types. *)

LEMMA PoolTargetNat == PoolTarget \in Nat /\ PoolTarget < MaxChannels
BY ChannelsAssumption DEF PoolTarget, DefaultPoolTarget

LEMMA InitType == Init => TypeOK
<1> SUFFICES ASSUME Init PROVE TypeOK
  OBVIOUS
<1>1. Queued = {}
  BY DEF Init, Queued
<1>2. LineOK
  BY <1>1 DEF Init, LineOK, ToSet, IsInjective
<1> QED BY <1>1, <1>2, ChannelsAssumption DEF Init, TypeOK, Stages, RefillStages

LEMMA CallStepType ==
  ASSUME TypeOK, NEW c \in Calls, CallStep(c)
  PROVE  TypeOK'
<1> USE DEF slots, wakes, task, conn
<1>q. Queued \subseteq Calls /\ (c \in Queued <=> stage[c] = "queued")
  BY DEF Queued
<1>p. /\ stage \in [Calls -> Stages] /\ LineOK
      /\ granted \subseteq Queued /\ woken \subseteq Queued \ SlotCalls
  BY DEF TypeOK
<1>1. CASE TakeParked(c) /\ stage[c] # "queued"
  <2>1. LineOK' /\ Queued' = Queued
    BY <1>1, SameLine DEF TakeParked, Stages
  <2> QED BY <1>1, <2>1 DEF TakeParked, TypeOK, MoveTo, Stages
<1>2. CASE TakePermit(c) /\ stage[c] # "queued" /\ signal' \in {signal, FALSE}
  <2>1. LineOK' /\ Queued' = Queued
    BY <1>2, SameLine DEF TakePermit, Stages
  <2>2. free' \in Nat
    BY <1>2 DEF TakePermit, TypeOK
  <2>3. signal' \in BOOLEAN
    BY <1>2 DEF TypeOK
  <2> QED BY <1>2, <2>1, <2>2, <2>3 DEF TakePermit, TypeOK, MoveTo, Stages
<1>3. CASE TryTake(c)
  <2>1. CASE c \in ExecCalls /\ MoveTo(c, "lanes")
             /\ UNCHANGED <<line, slots, wakes, parked, task, conn>>
    <3>1. LineOK' /\ Queued' = Queued
      BY <1>3, <2>1, SameLine DEF TryTake, Stages
    <3> QED BY <2>1, <3>1 DEF TypeOK, MoveTo, Stages
  <2> QED BY <1>1, <1>2, <1>3, <2>1 DEF TryTake
<1>4. ASSUME stage[c] # "queued", MoveTo(c, "queued"), line' = Append(line, c),
             signal' \in {signal, FALSE}, UNCHANGED <<slots, woken, parked, task, conn>>
      PROVE  TypeOK'
  <2>1. LineOK' /\ Queued' = Queued \cup {c}
    BY <1>4, <1>p, JoinLineOK
  <2> QED BY <1>4, <1>p, <2>1 DEF TypeOK, MoveTo, Stages
<1>5. CASE TakeOrOpen(c)
  <2>1. stage[c] # "queued"
    BY <1>5 DEF TakeOrOpen
  <2> QED BY <1>1, <1>2, <1>4, <1>5, <2>1 DEF TakeOrOpen, TypeOK
<1>6. CASE AcquireSlot(c)
  <2>1. stage[c] # "queued"
    BY <1>6 DEF AcquireSlot
  <2> QED BY <1>2, <1>4, <1>6, <2>1 DEF AcquireSlot, TypeOK
<1>7. CASE RunGranted(c)
  <2>1. LineOK' /\ Queued' = Queued \ {c}
    BY <1>7, <1>p, LeaveLineOK DEF RunGranted, Stages
  <2>2. woken' \subseteq (Queued \ {c}) \ SlotCalls /\ signal' \in BOOLEAN
    BY <1>7, <1>p, DropNotifiedCases DEF RunGranted, Sleeping, TypeOK
  <2> QED BY <1>7, <1>p, <2>1, <2>2 DEF RunGranted, TypeOK, MoveTo, Stages
<1>8. CASE RunWoken(c)
  <2>1. LineOK' /\ Queued' = Queued \ {c}
    BY <1>8, <1>p, LeaveLineOK DEF RunWoken, Stages
  <2>2. granted' \subseteq Queued \ {c} /\ free' \in Nat
    <3>1. c \in granted => granted' \subseteq Queued \ {c} /\ free' \in Nat
      BY <1>8, <1>p, DropAcquireCases DEF RunWoken, Ungranted, TypeOK
    <3>2. c \notin granted => granted' \subseteq Queued \ {c} /\ free' \in Nat
      BY <1>8, <1>p, DropAcquireCases DEF RunWoken, Ungranted, TypeOK
    <3> QED BY <3>1, <3>2
  <2> QED BY <1>8, <1>p, <2>1, <2>2 DEF RunWoken, TypeOK, MoveTo, Stages
<1>9. ASSUME LeaveQueue(c) PROVE TypeOK'
  <2>1. LineOK' /\ Queued' = Queued \ {c}
    BY <1>9, <1>p, LeaveLineOK DEF LeaveQueue, Stages
  <2>2. granted' \subseteq Queued \ {c} /\ free' \in Nat
    <3>1. DropAcquire(c)
      BY <1>9 DEF LeaveQueue
    <3> QED BY <3>1, <1>p, DropAcquireCases DEF Ungranted, TypeOK
  <2>3. woken' \subseteq (Queued \ {c}) \ SlotCalls /\ signal' \in BOOLEAN
    <3>1. DropNotified(c)
      BY <1>9 DEF LeaveQueue
    <3> QED BY <3>1, <1>p, DropNotifiedCases DEF Sleeping, TypeOK
  <2> QED BY <1>9, <1>p, <2>1, <2>2, <2>3 DEF LeaveQueue, TypeOK, MoveTo, Stages
<1>10. CASE TimeOut(c)
  BY <1>9, <1>10 DEF TimeOut
<1>11. CASE OpenOk(c)
  <2>1. LineOK' /\ Queued' = Queued
    BY <1>11, SameLine DEF OpenOk, Stages
  <2>2. refillSignal' \in BOOLEAN
    BY <1>11 DEF OpenOk, TypeOK
  <2> QED BY <1>11, <2>1, <2>2 DEF OpenOk, TypeOK, MoveTo, Stages
<1>12. ASSUME stage[c] \in {"opening", "using"}, MoveTo(c, "idle"), ReturnPermit(c),
              UNCHANGED <<line, wakes, parked, task, conn>>
       PROVE  TypeOK'
  <2>1. LineOK' /\ Queued' = Queued
    BY <1>12, SameLine DEF Stages
  <2>2. c \notin Ungranted
    BY <1>12 DEF Ungranted, Queued
  <2>3. granted' \subseteq Queued /\ free' \in Nat
    BY <1>12, <1>p, <2>2, ReturnPermitCases DEF Ungranted, TypeOK
  <2> QED BY <1>12, <1>p, <2>1, <2>3 DEF TypeOK, MoveTo, Stages
<1>13. CASE OpenFail(c)
  BY <1>12, <1>13 DEF OpenFail
<1>14. CASE Finish(c)
  BY <1>12, <1>14 DEF Finish
<1>15. CASE Abandon(c)
  <2>1. CASE stage[c] = "lanes" /\ MoveTo(c, "idle")
             /\ UNCHANGED <<line, slots, wakes, parked, task, conn>>
    <3>1. LineOK' /\ Queued' = Queued
      BY <2>1, SameLine DEF Stages
    <3> QED BY <2>1, <3>1 DEF TypeOK, MoveTo, Stages
  <2> QED BY <1>9, <1>15, <2>1 DEF Abandon
<1> QED BY <1>3, <1>5, <1>6, <1>7, <1>8, <1>10, <1>11, <1>13, <1>14, <1>15 DEF CallStep

LEMMA StepType == TypeOK /\ [Next]_vars => TypeOK'
<1> SUFFICES ASSUME TypeOK, [Next]_vars PROVE TypeOK'
  OBVIOUS
<1> USE DEF slots, wakes, task, conn
<1>1. ASSUME UNCHANGED <<stage, line>> PROVE LineOK' /\ Queued' = Queued
  BY <1>1 DEF TypeOK, LineOK, Queued, ToSet, IsInjective
<1>2. ASSUME NEW c \in Calls, CallStep(c) PROVE TypeOK'
  BY <1>2, CallStepType
<1>3. CASE RefillExit
  BY <1>1, <1>3 DEF RefillExit, TypeOK, RefillStages
<1>4. CASE RefillFull
  BY <1>1, <1>4 DEF RefillFull, TypeOK, RefillStages
<1>5. CASE RefillTry
  <2>1. free' \in Nat
    BY <1>5 DEF RefillTry, TypeOK
  <2>2. refill' \in RefillStages /\ UNCHANGED <<stage, line, granted, wakes, parked, refillSignal, conn>>
    BY <1>5 DEF RefillTry, RefillStages
  <2> QED BY <1>1, <2>1, <2>2 DEF TypeOK
<1>6. CASE RefillNotified
  BY <1>1, <1>6 DEF RefillNotified, TypeOK, RefillStages
<1>7. CASE RefillTimer
  BY <1>1, <1>7 DEF RefillTimer, TypeOK, RefillStages
<1>8. CASE RefillPark
  <2>1. woken' \subseteq Queued \ SlotCalls /\ signal' \in BOOLEAN
    BY <1>8, NotifyParkedCases DEF RefillPark, Sleeping, TypeOK
  <2>2. parked' \in Nat
    BY <1>8 DEF RefillPark, TypeOK
  <2> QED BY <1>1, <1>8, <2>1, <2>2 DEF RefillPark, TypeOK, RefillStages
<1>9. CASE RefillRefused
  <2>1. granted' \subseteq Queued /\ free' \in Nat
    BY <1>9 DEF RefillRefused, IsFirst, Ungranted, TypeOK
  <2> QED BY <1>1, <1>9, <2>1 DEF RefillRefused, TypeOK, RefillStages
<1>10. CASE Close
  BY <1>1, <1>10 DEF Close, TypeOK
<1>11. CASE Drop
  <2>1. free' \in Nat /\ parked' \in Nat
    BY <1>11 DEF Drop, TypeOK
  <2> QED BY <1>1, <1>11, <2>1 DEF Drop, TypeOK
<1>12. CASE UNCHANGED vars
  BY <1>1, <1>12 DEF vars, TypeOK
<1> QED BY <1>2, <1>3, <1>4, <1>5, <1>6, <1>7, <1>8, <1>9, <1>10, <1>11, <1>12
        DEF Next, RefillStep

(* Every variable keeps its type, and the queue holds exactly the calls    *)
(* that wait in the select! of `take_or_open_channel` or in                *)
(* `acquire_channel`, each once, whatever order they leave it in.          *)
THEOREM TypeCorrect == Spec => []TypeOK
BY InitType, StepType, PTL DEF Spec

-----------------------------------------------------------------------------
(* Counting permits. *)

LEMMA OwnersFinite ==
  ASSUME TypeOK
  PROVE  /\ IsFiniteSet(Owners) /\ Cardinality(Owners) \in Nat
         /\ Owners \subseteq Calls
         /\ granted \subseteq Owners
<1>1. Owners \subseteq Calls
  BY DEF TypeOK, Owners, Held, Queued
<1>2. IsFiniteSet(Owners)
  BY <1>1, ChannelsAssumption, FS_Subset
<1> QED BY <1>1, <1>2, FS_CardinalityType DEF Owners, Held

(* The five ways a step of a call may move a permit. *)
SamePermits       == Owners' = Owners /\ free' = free /\ parked' = parked
FromSemaphore(c)  == /\ c \notin Owners /\ Owners' = Owners \cup {c}
                     /\ free > 0 /\ free' = free - 1 /\ parked' = parked
FromPool(c)       == /\ c \notin Owners /\ Owners' = Owners \cup {c}
                     /\ parked > 0 /\ parked' = parked - 1 /\ free' = free
ToSemaphore(c)    == /\ c \in Owners /\ Owners' = Owners \ {c}
                     /\ free' = free + 1 /\ parked' = parked
ToQueuedCall(c)   == /\ c \in Owners /\ free' = free /\ parked' = parked
                     /\ \E d \in Calls \ Owners : Owners' = (Owners \ {c}) \cup {d}

LEMMA CallStepPermits ==
  ASSUME TypeOK, NEW c \in Calls, CallStep(c)
  PROVE  /\ refill' = refill
         /\ \/ SamePermits \/ FromSemaphore(c) \/ FromPool(c)
            \/ ToSemaphore(c) \/ ToQueuedCall(c)
<1> USE DEF slots, wakes, task, conn
<1>t. /\ stage \in [Calls -> Stages]
      /\ granted \subseteq Queued /\ free \in Nat /\ parked \in Nat
  BY DEF TypeOK
<1>o. /\ \A d \in Calls : d \in Owners <=> stage[d] \in {"opening", "using"} \/ d \in granted
      /\ \A d \in Calls : d \in Owners' <=> stage'[d] \in {"opening", "using"} \/ d \in granted'
      /\ \A d \in Calls : d \in granted => stage[d] = "queued"
      /\ \A d \in Ungranted : d \in Calls /\ stage[d] = "queued" /\ d \notin granted
      /\ Owners \subseteq Calls
  BY <1>t DEF Owners, Held, Queued, Ungranted
<1>s. /\ TypeOK' /\ Owners' \subseteq Calls
  BY CallStepType DEF TypeOK, Owners, Held, Queued
<1>m. ASSUME NEW s, MoveTo(c, s)
      PROVE  stage'[c] = s /\ \A d \in Calls \ {c} : stage'[d] = stage[d]
  BY <1>m, <1>t DEF MoveTo
<1>1. ASSUME TakeParked(c), stage[c] \in {"idle", "lanes", "loop"}
      PROVE  FromPool(c) /\ refill' = refill
  <2>1. c \notin Owners /\ granted' = granted
    BY <1>1, <1>o DEF TakeParked
  <2>2. Owners' = Owners \cup {c}
    BY <1>1, <1>o, <1>s, <1>m, <2>1 DEF TakeParked
  <2> QED BY <1>1, <2>1, <2>2 DEF TakeParked, FromPool
<1>2. ASSUME TakePermit(c), stage[c] \in {"idle", "lanes", "loop"}
      PROVE  FromSemaphore(c) /\ refill' = refill
  <2>1. c \notin Owners /\ granted' = granted
    BY <1>2, <1>o DEF TakePermit
  <2>2. Owners' = Owners \cup {c}
    BY <1>2, <1>o, <1>s, <1>m, <2>1 DEF TakePermit
  <2> QED BY <1>2, <2>1, <2>2 DEF TakePermit, FromSemaphore
<1>3. ASSUME NEW s \in {"lanes", "queued", "idle"}, MoveTo(c, s), granted' = granted,
             stage[c] \in {"idle", "lanes", "loop"},
             free' = free, parked' = parked
      PROVE  SamePermits
  <2>1. Owners' = Owners
    BY <1>3, <1>o, <1>s, <1>m
  <2> QED BY <1>3, <2>1 DEF SamePermits
<1>4. CASE TryTake(c)
  BY <1>1, <1>2, <1>3, <1>4 DEF TryTake
<1>5. CASE TakeOrOpen(c)
  BY <1>1, <1>2, <1>3, <1>5 DEF TakeOrOpen
<1>6. CASE AcquireSlot(c)
  BY <1>2, <1>3, <1>6 DEF AcquireSlot
<1>7. CASE RunGranted(c)
  <2>1. Owners' = Owners
    BY <1>7, <1>o, <1>s, <1>m DEF RunGranted
  <2> QED BY <1>7, <2>1 DEF RunGranted, SamePermits
<1>8. ASSUME stage[c] = "queued", DropAcquire(c), parked' = parked,
             NEW s \in {"loop", "idle"}, MoveTo(c, s)
      PROVE  SamePermits \/ ToSemaphore(c) \/ ToQueuedCall(c)
  <2>1. CASE c \notin granted /\ free' = free /\ granted' = granted
    <3>1. Owners' = Owners
      BY <1>8, <1>o, <1>s, <1>m, <2>1
    <3> QED BY <1>8, <2>1, <3>1 DEF SamePermits
  <2>2. CASE c \in granted /\ free' = free + 1 /\ granted' = granted \ {c}
    <3>1. c \in Owners /\ Owners' = Owners \ {c}
      BY <1>8, <1>o, <1>s, <1>m, <2>2
    <3> QED BY <1>8, <2>2, <3>1 DEF ToSemaphore
  <2>3. CASE /\ c \in granted /\ free' = free
             /\ \E d \in Ungranted : d # c /\ granted' = (granted \ {c}) \cup {d}
    <3>1. PICK d \in Ungranted : d # c /\ granted' = (granted \ {c}) \cup {d}
      BY <2>3
    <3>2. c \in Owners /\ d \in Calls \ Owners /\ Owners' = (Owners \ {c}) \cup {d}
      BY <1>8, <1>o, <1>s, <1>m, <2>3, <3>1
    <3> QED BY <1>8, <2>3, <3>2 DEF ToQueuedCall
  <2> QED BY <1>8, <2>1, <2>2, <2>3, DropAcquireCases
<1>9. CASE RunWoken(c)
  BY <1>8, <1>9 DEF RunWoken
<1>10. ASSUME LeaveQueue(c)
       PROVE  refill' = refill /\ (SamePermits \/ ToSemaphore(c) \/ ToQueuedCall(c))
  BY <1>8, <1>10 DEF LeaveQueue
<1>11. CASE TimeOut(c)
  BY <1>10, <1>11 DEF TimeOut
<1>12. CASE OpenOk(c)
  <2>1. Owners' = Owners
    BY <1>12, <1>o, <1>s, <1>m DEF OpenOk
  <2> QED BY <1>12, <2>1 DEF OpenOk, SamePermits
<1>13. ASSUME stage[c] \in {"opening", "using"}, MoveTo(c, "idle"), ReturnPermit(c),
              parked' = parked
       PROVE  ToSemaphore(c) \/ ToQueuedCall(c)
  <2>1. c \notin Ungranted /\ c \notin granted /\ c \in Owners
    BY <1>13, <1>o
  <2>2. CASE free' = free + 1 /\ granted' = granted \ {c}
    <3>1. Owners' = Owners \ {c}
      BY <1>13, <1>o, <1>s, <1>m, <2>1, <2>2
    <3> QED BY <1>13, <2>1, <2>2, <3>1 DEF ToSemaphore
  <2>3. CASE /\ free' = free
             /\ \E d \in Ungranted : d # c /\ granted' = (granted \ {c}) \cup {d}
    <3>1. PICK d \in Ungranted : d # c /\ granted' = (granted \ {c}) \cup {d}
      BY <2>3
    <3>2. d \in Calls \ Owners /\ Owners' = (Owners \ {c}) \cup {d}
      BY <1>13, <1>o, <1>s, <1>m, <2>1, <3>1
    <3> QED BY <1>13, <2>1, <2>3, <3>2 DEF ToQueuedCall
  <2> QED BY <1>13, <2>1, <2>2, <2>3, ReturnPermitCases
<1>14. CASE OpenFail(c)
  BY <1>13, <1>14 DEF OpenFail
<1>15. CASE Finish(c)
  BY <1>13, <1>15 DEF Finish
<1>16. CASE Abandon(c)
  BY <1>3, <1>10, <1>16 DEF Abandon
<1> QED BY <1>4, <1>5, <1>6, <1>7, <1>9, <1>11, <1>12, <1>14, <1>15, <1>16
        DEF CallStep, RunGranted, RunWoken, OpenOk, OpenFail, Finish, TryTake, TakeOrOpen,
            AcquireSlot

LEMMA SwapCardinality ==
  ASSUME NEW S, IsFiniteSet(S), NEW c \in S, NEW d, d \notin S
  PROVE  Cardinality((S \ {c}) \cup {d}) = Cardinality(S)
<1>1. IsFiniteSet(S \ {c}) /\ Cardinality(S \ {c}) = Cardinality(S) - 1
  BY FS_RemoveElement
<1>2. Cardinality((S \ {c}) \cup {d}) = Cardinality(S \ {c}) + 1
  BY <1>1, FS_AddElement
<1>3. Cardinality(S) \in Nat
  BY FS_CardinalityType
<1> QED BY <1>1, <1>2, <1>3

LEMMA InitSlots == Init => SlotsConserved /\ SparesBounded
<1> SUFFICES ASSUME Init PROVE SlotsConserved /\ SparesBounded
  OBVIOUS
<1>1. Owners = {}
  BY DEF Init, Owners, Held
<1>2. Warming = 0
  BY DEF Init, Warming
<1> QED BY <1>1, <1>2, FS_EmptySet, PoolTargetNat, ChannelsAssumption
        DEF Init, SlotsConserved, SparesBounded

(* A step of the refill task, of the transport or none at all. *)
LEMMA OtherStepSlots ==
  ASSUME TypeOK, SlotsConserved, SparesBounded,
         RefillStep \/ Close \/ Drop \/ UNCHANGED vars
  PROVE  SlotsConserved' /\ SparesBounded'
<1> USE DEF slots, wakes, task, conn
<1>t. /\ free \in Nat /\ parked \in Nat /\ PoolTarget \in Nat
      /\ Cardinality(Owners) \in Nat /\ IsFiniteSet(Owners)
      /\ Warming \in {0, 1}
  BY OwnersFinite, PoolTargetNat DEF TypeOK, Warming
<1>w. /\ Warming = (IF refill = "opening" THEN 1 ELSE 0)
      /\ Warming' = (IF refill' = "opening" THEN 1 ELSE 0)
  BY DEF Warming
<1>o. stage' = stage /\ granted' = granted => Owners' = Owners
  BY DEF Owners, Held
<1>1. ASSUME stage' = stage, granted' = granted, free' = free, parked' = parked,
             refill' # "opening", refill # "opening"
      PROVE  SlotsConserved' /\ SparesBounded'
  BY <1>1, <1>o, <1>w DEF SlotsConserved, SparesBounded
<1>2. CASE RefillExit \/ RefillFull \/ RefillNotified \/ RefillTimer
  BY <1>1, <1>2 DEF RefillExit, RefillFull, RefillNotified, RefillTimer
<1>3. CASE RefillTry
  BY <1>3, <1>o, <1>w, <1>t DEF RefillTry, SlotsConserved, SparesBounded
<1>4. CASE RefillPark
  <2>1. /\ parked' = parked + 1 /\ free' = free /\ Warming = 1 /\ Warming' = 0
        /\ Owners' = Owners
    BY <1>4, <1>o, <1>w DEF RefillPark
  <2> QED BY <2>1, <1>t DEF SlotsConserved, SparesBounded
<1>5. CASE RefillRefused
  <2>1. parked' = parked /\ Warming = 1 /\ Warming' = 0 /\ stage' = stage
    BY <1>5, <1>w DEF RefillRefused
  <2>2. CASE free' = free + 1 /\ granted' = granted
    BY <2>1, <2>2, <1>o, <1>t DEF SlotsConserved, SparesBounded
  <2>3. CASE free' = free /\ \E d \in Ungranted : granted' = granted \cup {d}
    <3>1. PICK d \in Ungranted : granted' = granted \cup {d}
      BY <2>3
    <3>2. d \notin Owners
      BY DEF Ungranted, Owners, Held, Queued
    <3>3. Owners' = Owners \cup {d}
      BY <2>1, <3>1 DEF Owners, Held
    <3>4. Cardinality(Owners') = Cardinality(Owners) + 1
      BY <3>2, <3>3, <1>t, FS_AddElement
    <3> QED BY <2>1, <2>3, <3>4, <1>t DEF SlotsConserved, SparesBounded
  <2> QED BY <1>5, <2>2, <2>3 DEF RefillRefused, IsFirst
<1>6. CASE Close
  BY <1>6, <1>o, <1>w DEF Close, SlotsConserved, SparesBounded
<1>7. CASE Drop
  <2>1. /\ parked' = 0 /\ free' = free + parked /\ Warming = 0 /\ Warming' = 0
        /\ Owners' = Owners
    BY <1>7, <1>o, <1>w DEF Drop
  <2> QED BY <2>1, <1>t DEF SlotsConserved, SparesBounded
<1>8. CASE UNCHANGED vars
  BY <1>8, <1>o, <1>w DEF vars, SlotsConserved, SparesBounded
<1> QED BY <1>2, <1>3, <1>4, <1>5, <1>6, <1>7, <1>8 DEF RefillStep

LEMMA StepSlots ==
  TypeOK /\ SlotsConserved /\ SparesBounded /\ [Next]_vars => SlotsConserved' /\ SparesBounded'
<1> SUFFICES ASSUME TypeOK, SlotsConserved, SparesBounded, [Next]_vars
             PROVE  SlotsConserved' /\ SparesBounded'
  OBVIOUS
<1>1. ASSUME NEW c \in Calls, CallStep(c)
      PROVE  SlotsConserved' /\ SparesBounded'
  <2>t. /\ free \in Nat /\ parked \in Nat /\ PoolTarget \in Nat
        /\ Cardinality(Owners) \in Nat /\ IsFiniteSet(Owners)
        /\ Warming \in {0, 1}
    BY OwnersFinite, PoolTargetNat DEF TypeOK, Warming
  <2>1. /\ Warming' = Warming
        /\ \/ SamePermits \/ FromSemaphore(c) \/ FromPool(c)
           \/ ToSemaphore(c) \/ ToQueuedCall(c)
    BY <1>1, CallStepPermits DEF Warming
  <2>2. CASE SamePermits
    BY <2>1, <2>2 DEF SamePermits, SlotsConserved, SparesBounded
  <2>3. CASE FromSemaphore(c) \/ FromPool(c)
    <3>1. Cardinality(Owners') = Cardinality(Owners) + 1
      BY <2>3, <2>t, FS_AddElement DEF FromSemaphore, FromPool
    <3> QED BY <2>1, <2>3, <2>t, <3>1 DEF FromSemaphore, FromPool, SlotsConserved, SparesBounded
  <2>4. CASE ToSemaphore(c)
    <3>1. Cardinality(Owners') = Cardinality(Owners) - 1
      BY <2>4, <2>t, FS_RemoveElement DEF ToSemaphore
    <3> QED BY <2>1, <2>4, <2>t, <3>1 DEF ToSemaphore, SlotsConserved, SparesBounded
  <2>5. CASE ToQueuedCall(c)
    <3>1. Cardinality(Owners') = Cardinality(Owners)
      BY <2>5, <2>t, SwapCardinality DEF ToQueuedCall
    <3> QED BY <2>1, <2>5, <3>1 DEF ToQueuedCall, SlotsConserved, SparesBounded
  <2> QED BY <2>1, <2>2, <2>3, <2>4, <2>5
<1> QED BY <1>1, OtherStepSlots DEF Next

(* No path of a call, of the warm-up or of a lost connection leaks a slot  *)
(* or makes one up: the semaphore, the calls, the pool and the refill task *)
(* hold MaxChannels permits between them.                                  *)
THEOREM SlotsAreConserved == Spec => []SlotsConserved
<1>1. Init => TypeOK /\ SlotsConserved /\ SparesBounded
  BY InitType, InitSlots
<1>2. TypeOK /\ SlotsConserved /\ SparesBounded /\ [Next]_vars
      => TypeOK' /\ SlotsConserved' /\ SparesBounded'
  BY StepType, StepSlots
<1> QED BY <1>1, <1>2, PTL DEF Spec

-----------------------------------------------------------------------------
(* The two queues. *)

(* How a step of a call may change who queues in the semaphore.            *)
LEMMA CallStepQueue ==
  ASSUME TypeOK, NEW c \in Calls, CallStep(c)
  PROVE  \/ free' = 0
         \/ /\ Ungranted' \subseteq Ungranted
            /\ free' \in {free, free - 1} \/ Ungranted = {}
<1> USE DEF slots, wakes, task, conn
<1>t. stage \in [Calls -> Stages] /\ free \in Nat /\ granted \subseteq Queued
  BY DEF TypeOK
<1>m. ASSUME NEW s \in Stages \ {"queued"}, MoveTo(c, s)
      PROVE  Queued' = Queued \ {c}
  BY <1>m, <1>t DEF MoveTo, Queued
<1>1. ASSUME NEW s \in Stages \ {"queued"}, MoveTo(c, s), granted' = granted,
             free' \in {free, free - 1}
      PROVE  Ungranted' \subseteq Ungranted /\ free' \in {free, free - 1}
  BY <1>1, <1>m DEF Ungranted
<1>2. CASE TryTake(c)
  BY <1>1, <1>2 DEF TryTake, TakeParked, TakePermit, Stages
<1>3. CASE TakeOrOpen(c)
  BY <1>1, <1>3 DEF TakeOrOpen, TakeParked, TakePermit, Stages
<1>4. CASE AcquireSlot(c)
  BY <1>1, <1>4 DEF AcquireSlot, TakePermit, Stages
<1>5. CASE RunGranted(c)
  <2>1. Queued' = Queued \ {c} /\ free' = free /\ granted' = granted \ {c}
    BY <1>5, <1>m DEF RunGranted, Stages
  <2> QED BY <2>1 DEF Ungranted
<1>6. ASSUME NEW s \in Stages \ {"queued"}, MoveTo(c, s), DropAcquire(c)
      PROVE  /\ Ungranted' \subseteq Ungranted
             /\ free' = free \/ Ungranted = {}
  <2>1. Queued' = Queued \ {c}
    BY <1>6, <1>m
  <2> QED BY <1>6, <2>1, DropAcquireCases DEF Ungranted
<1>7. CASE RunWoken(c)
  BY <1>6, <1>7 DEF RunWoken, Stages
<1>8. CASE LeaveQueue(c)
  BY <1>6, <1>8 DEF LeaveQueue, Stages
<1>9. ASSUME stage[c] # "queued", MoveTo(c, "idle"), ReturnPermit(c)
      PROVE  /\ Ungranted' \subseteq Ungranted
             /\ free' = free \/ Ungranted = {}
  <2>1. Queued' = Queued /\ c \notin Ungranted /\ c \notin granted
    BY <1>9, <1>t DEF MoveTo, Queued, Ungranted
  <2> QED BY <1>9, <2>1, ReturnPermitCases DEF Ungranted
<1>10. CASE OpenOk(c)
  BY <1>1, <1>10 DEF OpenOk, Stages
<1>11. CASE OpenFail(c)
  BY <1>9, <1>11 DEF OpenFail
<1>12. CASE Finish(c)
  BY <1>9, <1>12 DEF Finish
<1>13. CASE Abandon(c)
  BY <1>1, <1>8, <1>13 DEF Abandon, Stages
<1> QED BY <1>2, <1>3, <1>4, <1>5, <1>7, <1>8, <1>10, <1>11, <1>12, <1>13
        DEF CallStep, TimeOut

LEMMA StepIdleSlot == TypeOK /\ NoIdleSlot /\ [Next]_vars => NoIdleSlot'
<1> SUFFICES ASSUME TypeOK, NoIdleSlot, [Next]_vars PROVE NoIdleSlot'
  OBVIOUS
<1> USE DEF slots, wakes, task, conn
<1>t. free \in Nat /\ (Ungranted # {} => free = 0)
  BY DEF TypeOK, NoIdleSlot
<1>1. ASSUME NEW c \in Calls, CallStep(c) PROVE NoIdleSlot'
  <2>1. free' \in Nat
    BY <1>1, CallStepType DEF TypeOK
  <2> QED BY <1>1, <1>t, <2>1, CallStepQueue DEF NoIdleSlot
<1>2. ASSUME UNCHANGED <<stage, granted>> PROVE Ungranted' = Ungranted
  BY <1>2 DEF Ungranted, Queued
<1>3. CASE RefillExit \/ RefillFull \/ RefillNotified \/ RefillTimer \/ RefillPark \/ Close
  BY <1>2, <1>3, <1>t DEF RefillExit, RefillFull, RefillNotified, RefillTimer, RefillPark, Close, NoIdleSlot
<1>4. CASE RefillTry
  BY <1>2, <1>4, <1>t DEF RefillTry, NoIdleSlot
<1>5. CASE RefillRefused
  <2>1. Ungranted # {} => free' = free
    BY <1>5 DEF RefillRefused
  <2>2. Ungranted' \subseteq Ungranted
    BY <1>5 DEF RefillRefused, IsFirst, Ungranted, Queued
  <2> QED BY <1>t, <2>1, <2>2 DEF NoIdleSlot
<1>6. CASE Drop
  <2>1. Ungranted' = {}
    BY <1>6 DEF Drop, Ungranted, Queued
  <2> QED BY <2>1 DEF NoIdleSlot
<1>7. CASE UNCHANGED vars
  BY <1>2, <1>7, <1>t DEF vars, NoIdleSlot
<1> QED BY <1>1, <1>3, <1>4, <1>5, <1>6, <1>7 DEF Next, RefillStep

(* A free permit never sits beside a call queued for one, though three     *)
(* kinds of step take permits without queueing.                            *)
THEOREM NoSlotIdles == Spec => []NoIdleSlot
<1>1. Init => NoIdleSlot
  BY DEF Init, NoIdleSlot, Ungranted, Queued
<1>2. TypeOK /\ NoIdleSlot /\ [Next]_vars => NoIdleSlot'
  BY StepIdleSlot
<1> QED BY <1>1, <1>2, TypeCorrect, PTL DEF Spec

-----------------------------------------------------------------------------
(* Parked channels and the calls that sleep. *)

LEMMA ComingFinite ==
  ASSUME TypeOK
  PROVE  IsFiniteSet(Coming) /\ Cardinality(Coming) \in Nat
<1>1. Coming \subseteq Calls
  BY DEF Coming, TypeOK, Queued
<1> QED BY <1>1, ChannelsAssumption, FS_Subset, FS_CardinalityType

LEMMA CallStepParks ==
  ASSUME TypeOK, NoMissedPark, NEW c \in Calls, CallStep(c)
  PROVE  NoMissedPark'
<1> USE DEF slots, wakes, task, conn
<1>t. /\ stage \in [Calls -> Stages] /\ parked \in Nat
      /\ woken \subseteq Queued \ SlotCalls
      /\ IsFiniteSet(Coming) /\ Cardinality(Coming) \in Nat
      /\ IsFiniteSet(Coming') /\ Cardinality(Coming') \in Nat
  <2>1. TypeOK'
    BY CallStepType
  <2>2. IsFiniteSet(Coming') /\ Cardinality(Coming') \in Nat
    <3>1. Coming' \subseteq Calls
      BY <2>1 DEF Coming, TypeOK, Queued
    <3> QED BY <3>1, ChannelsAssumption, FS_Subset, FS_CardinalityType
  <2> QED BY <2>2, ComingFinite DEF TypeOK
<1>m. ASSUME NEW s \in Stages, MoveTo(c, s)
      PROVE  /\ stage'[c] = s /\ \A d \in Calls \ {c} : stage'[d] = stage[d]
             /\ \A d \in Calls : d \in Queued' <=> stage'[d] = "queued"
             /\ \A d \in Calls : d \in Queued <=> stage[d] = "queued"
  BY <1>m, <1>t DEF MoveTo, Queued
<1>0. ASSUME parked' = 0 PROVE NoMissedPark'
  BY <1>0, <1>t DEF NoMissedPark
<1>1. ASSUME TakeParked(c), stage[c] # "queued" PROVE NoMissedPark'
  <2>1. /\ parked' = parked - 1 /\ parked > 0
        /\ Coming' = Coming \ {c} /\ Sleeping' = Sleeping
    BY <1>1, <1>t, <1>m DEF TakeParked, Coming, Sleeping, Stages, Queued
  <2>2. Cardinality(Coming') >= Cardinality(Coming) - 1
    BY <2>1, <1>t, FS_RemoveElement
  <2> QED BY <2>1, <2>2, <1>t DEF NoMissedPark
<1>2. ASSUME Coming' = Coming, Sleeping' \subseteq Sleeping, parked' = parked
      PROVE  NoMissedPark'
  BY <1>2 DEF NoMissedPark
<1>3. ASSUME NEW s \in {"idle", "lanes", "opening", "using"}, MoveTo(c, s),
             stage[c] \in {"idle", "lanes", "opening", "using"}, woken' = woken, parked' = parked
      PROVE  NoMissedPark'
  <2>1. Coming' = Coming /\ Sleeping' = Sleeping
    BY <1>3, <1>t DEF MoveTo, Coming, Sleeping, Queued
  <2> QED BY <1>2, <1>3, <2>1
<1>4. CASE TryTake(c)
  BY <1>0, <1>1, <1>4 DEF TryTake, TakePermit
<1>5. CASE TakeOrOpen(c)
  BY <1>0, <1>1, <1>5 DEF TakeOrOpen, TakePermit
<1>6. CASE AcquireSlot(c)
  <2>1. CASE TakePermit(c)
    BY <1>3, <1>6, <2>1 DEF AcquireSlot, TakePermit
  <2>2. CASE MoveTo(c, "queued") /\ UNCHANGED <<wakes, parked>>
    <3>1. Coming' = Coming /\ Sleeping' = Sleeping
      BY <1>6, <2>2, <1>t DEF AcquireSlot, MoveTo, Coming, Sleeping, Queued
    <3> QED BY <1>2, <2>2, <3>1
  <2> QED BY <1>6, <2>1, <2>2 DEF AcquireSlot
<1>7. ASSUME stage[c] = "queued", NEW s \in {"idle", "opening"}, MoveTo(c, s),
             DropNotified(c), parked' = parked
      PROVE  NoMissedPark'
  <2>1. CASE c \notin woken /\ woken' = woken
    <3>1. Coming' = Coming /\ Sleeping' \subseteq Sleeping
      BY <1>7, <2>1, <1>t DEF MoveTo, Coming, Sleeping, Queued
    <3> QED BY <1>2, <1>7, <3>1
  <2>2. CASE c \in woken /\ Sleeping = {} /\ woken' = woken \ {c}
    <3>1. Sleeping' = {}
      BY <1>7, <2>2, <1>t DEF MoveTo, Sleeping, Queued
    <3> QED BY <3>1 DEF NoMissedPark
  <2>3. CASE c \in woken /\ \E d \in Sleeping : d # c /\ woken' = (woken \ {c}) \cup {d}
    <3>1. PICK d \in Sleeping : d # c /\ woken' = (woken \ {c}) \cup {d}
      BY <2>3
    <3>2. d \notin Coming /\ c \in Coming
      BY <2>3 DEF Coming, Sleeping, Queued
    <3>3. Coming' = (Coming \ {c}) \cup {d} /\ Sleeping' \subseteq Sleeping
      BY <1>7, <1>t, <2>3, <3>1 DEF MoveTo, Coming, Sleeping, Queued
    <3>4. Cardinality(Coming') = Cardinality(Coming)
      BY <3>2, <3>3, <1>t, SwapCardinality
    <3> QED BY <1>7, <3>3, <3>4 DEF NoMissedPark
  <2> QED BY <1>7, <2>1, <2>2, <2>3, DropNotifiedCases
<1>8. CASE RunGranted(c)
  BY <1>7, <1>8 DEF RunGranted
<1>9. CASE LeaveQueue(c)
  BY <1>7, <1>9 DEF LeaveQueue
<1>10. CASE RunWoken(c)
  <2>1. Coming' = Coming /\ Sleeping' = Sleeping
    BY <1>10, <1>t DEF RunWoken, MoveTo, Coming, Sleeping, Queued
  <2> QED BY <1>2, <1>10, <2>1 DEF RunWoken
<1>11. CASE OpenOk(c) \/ OpenFail(c) \/ Finish(c)
  BY <1>3, <1>11 DEF OpenOk, OpenFail, Finish
<1>12. CASE Abandon(c)
  BY <1>3, <1>9, <1>12 DEF Abandon
<1> QED BY <1>4, <1>5, <1>6, <1>8, <1>9, <1>10, <1>11, <1>12 DEF CallStep, TimeOut

LEMMA StepMissedPark == TypeOK /\ NoMissedPark /\ [Next]_vars => NoMissedPark'
<1> SUFFICES ASSUME TypeOK, NoMissedPark, [Next]_vars PROVE NoMissedPark'
  OBVIOUS
<1> USE DEF slots, wakes, task, conn
<1>1. ASSUME NEW c \in Calls, CallStep(c) PROVE NoMissedPark'
  BY <1>1, CallStepParks
<1>2. ASSUME UNCHANGED <<stage, woken, parked>> PROVE NoMissedPark'
  BY <1>2 DEF NoMissedPark, Sleeping, Coming, Queued
<1>3. CASE RefillExit \/ RefillFull \/ RefillTry \/ RefillNotified \/ RefillTimer
           \/ RefillRefused \/ Close
  BY <1>2, <1>3 DEF RefillExit, RefillFull, RefillTry, RefillNotified, RefillTimer,
                    RefillRefused, Close
<1>4. CASE RefillPark
  <2>t. /\ IsFiniteSet(Coming) /\ Cardinality(Coming) \in Nat /\ parked \in Nat
        /\ parked' = parked + 1 /\ stage' = stage
    BY <1>4, ComingFinite DEF RefillPark, TypeOK
  <2>1. CASE Sleeping = {} /\ woken' = woken
    <3>1. Sleeping' = {}
      BY <2>1, <2>t DEF Sleeping, Queued
    <3> QED BY <3>1 DEF NoMissedPark
  <2>2. CASE \E d \in Sleeping : woken' = woken \cup {d}
    <3>1. PICK d \in Sleeping : woken' = woken \cup {d}
      BY <2>2
    <3>2. d \notin Coming
      BY DEF Coming, Sleeping, Queued
    <3>3. Coming' = Coming \cup {d} /\ Sleeping # {}
      BY <2>t, <3>1 DEF Coming
    <3>4. Cardinality(Coming') = Cardinality(Coming) + 1
      BY <2>t, <3>2, <3>3, FS_AddElement
    <3> QED BY <2>t, <3>3, <3>4 DEF NoMissedPark
  <2>3. \/ Sleeping \ {} = {} /\ woken' = woken \ {}
        \/ \E d \in Sleeping \ {} : woken' = (woken \ {}) \cup {d}
    <3>1. NotifyParked({})
      BY <1>4 DEF RefillPark
    <3> QED BY <3>1 DEF NotifyParked, IsFirst
  <2> QED BY <2>1, <2>2, <2>3
<1>5. CASE Drop
  <2>1. Sleeping' = {}
    BY <1>5 DEF Drop, Sleeping, Queued
  <2> QED BY <2>1 DEF NoMissedPark
<1>6. CASE UNCHANGED vars
  BY <1>2, <1>6 DEF vars
<1> QED BY <1>1, <1>3, <1>4, <1>5, <1>6 DEF Next, RefillStep

(* No call sleeps beside a parked channel that nobody is on the way to     *)
(* take, whichever branch of the select! each queued call left by.         *)
THEOREM NoParkIsMissed == Spec => []NoMissedPark
<1>1. Init => NoMissedPark
  BY DEF Init, NoMissedPark, Sleeping, Queued
<1>2. TypeOK /\ NoMissedPark /\ [Next]_vars => NoMissedPark'
  BY StepMissedPark
<1> QED BY <1>1, <1>2, TypeCorrect, PTL DEF Spec

-----------------------------------------------------------------------------
(* The refill task. *)

LEMMA StepRefillAwake ==
  TypeOK /\ SparesBounded /\ RefillAwake /\ [Next]_vars => RefillAwake'
<1> SUFFICES ASSUME TypeOK, SparesBounded, RefillAwake, [Next]_vars PROVE RefillAwake'
  OBVIOUS
<1> USE DEF slots, wakes, task, conn
<1>1. ASSUME UNCHANGED <<alive, refill, parked>>, refillSignal => refillSignal'
      PROVE  RefillAwake'
  BY <1>1 DEF RefillAwake
<1>2. ASSUME NEW c \in Calls, CallStep(c) PROVE RefillAwake'
  <2>1. CASE TakeParked(c)
    BY <2>1 DEF TakeParked, RefillAwake
  <2>2. CASE OpenOk(c)
    BY <1>1, <2>2 DEF OpenOk
  <2>3. ASSUME UNCHANGED <<alive, refill, parked, refillSignal>> PROVE RefillAwake'
    BY <1>1, <2>3
  <2> QED BY <1>2, <2>1, <2>2, <2>3
          DEF CallStep, TryTake, TakeOrOpen, AcquireSlot, TakePermit, RunGranted, RunWoken,
              TimeOut, LeaveQueue, OpenFail, Finish, Abandon
<1>3. CASE RefillFull
  <2>1. parked = PoolTarget
    BY <1>3, PoolTargetNat DEF RefillFull, SparesBounded, Warming, TypeOK
  <2> QED BY <1>3, <2>1 DEF RefillFull, RefillAwake, PoolTarget
<1>4. CASE RefillExit \/ RefillTry \/ RefillNotified \/ RefillTimer \/ RefillPark
           \/ RefillRefused
  BY <1>4 DEF RefillExit, RefillTry, RefillNotified, RefillTimer, RefillPark, RefillRefused,
              RefillAwake
<1>5. CASE Close
  BY <1>1, <1>5 DEF Close
<1>6. CASE Drop
  BY <1>6 DEF Drop, RefillAwake
<1>7. CASE UNCHANGED vars
  BY <1>1, <1>7 DEF vars
<1> QED BY <1>2, <1>3, <1>4, <1>5, <1>6, <1>7 DEF Next, RefillStep

(* The refill task never rests beside a short pool without a notification  *)
(* on its way, as long as the session exists.                              *)
THEOREM RefillStaysAwake == Spec => []RefillAwake
<1>1. Init => TypeOK /\ SlotsConserved /\ SparesBounded /\ RefillAwake
  <2>1. Init => RefillAwake
    BY DEF Init, RefillAwake
  <2> QED BY <2>1, InitType, InitSlots
<1>2. TypeOK /\ SlotsConserved /\ SparesBounded /\ RefillAwake /\ [Next]_vars
      => TypeOK' /\ SlotsConserved' /\ SparesBounded' /\ RefillAwake'
  BY StepType, StepSlots, StepRefillAwake
<1> QED BY <1>1, <1>2, PTL DEF Spec

-----------------------------------------------------------------------------
(* SessionChannels implements ChannelBudget. *)

LEMMA HeldFinite ==
  ASSUME TypeOK
  PROVE  /\ IsFiniteSet(Held) /\ Cardinality(Held) \in Nat
         /\ Cardinality(Held) <= Cardinality(Owners)
         /\ \A c \in Calls \ Held : c \in Owners => Cardinality(Held) < Cardinality(Owners)
<1>1. IsFiniteSet(Owners) /\ Held \subseteq Owners /\ Cardinality(Owners) \in Nat
  BY OwnersFinite DEF Owners
<1>2. IsFiniteSet(Held) /\ Cardinality(Held) <= Cardinality(Owners)
  BY <1>1, FS_Subset
<1>3. Cardinality(Held) \in Nat
  BY <1>2, FS_CardinalityType
<1>4. ASSUME NEW c \in Calls \ Held, c \in Owners
      PROVE  Cardinality(Held) < Cardinality(Owners)
  <2>1. Cardinality(Held \cup {c}) = Cardinality(Held) + 1
    BY <1>2, <1>4, FS_AddElement
  <2>2. Cardinality(Held \cup {c}) <= Cardinality(Owners)
    BY <1>1, <1>4, FS_Subset
  <2> QED BY <1>1, <1>3, <2>1, <2>2
<1> QED BY <1>2, <1>3, <1>4

RoomFor == Cardinality(Held) + (parked + Warming) < MaxChannels

LEMMA RoomLemma ==
  ASSUME TypeOK, SlotsConserved
  PROVE  /\ free > 0 => RoomFor
         /\ \A c \in Calls : c \in Owners \ Held => RoomFor
<1> DEFINE h == Cardinality(Held)
           o == Cardinality(Owners)
<1>1. h \in Nat /\ o \in Nat /\ h <= o
  BY HeldFinite, OwnersFinite
<1>2. free \in Nat /\ parked \in Nat /\ Warming \in Nat /\ MaxChannels \in Nat
  BY ChannelsAssumption DEF TypeOK, Warming
<1>3. free + o + parked + Warming = MaxChannels
  BY DEF SlotsConserved
<1>4. ASSUME NEW c \in Calls, c \in Owners \ Held PROVE h < o
  BY <1>4, HeldFinite
<1> HIDE DEF h, o
<1>5. free > 0 => h + (parked + Warming) < MaxChannels
  BY <1>1, <1>2, <1>3
<1>6. h < o => h + (parked + Warming) < MaxChannels
  BY <1>1, <1>2, <1>3
<1> QED BY <1>4, <1>5, <1>6 DEF RoomFor, h

LEMMA BudgetRoom == RoomFor => Budget!Room
<1>1. Budget!Cardinality(Held) = Cardinality(Held)
  BY DEF Cardinality, Budget!Cardinality
<1> QED BY <1>1 DEF Budget!Room, RoomFor

LEMMA CallStepBudget ==
  ASSUME TypeOK, SlotsConserved, NEW c \in Calls, CallStep(c)
  PROVE  Budget!Next \/ UNCHANGED Budget!vars
<1> USE DEF slots, wakes, task, conn
<1>t. /\ stage \in [Calls -> Stages] /\ free \in Nat /\ parked \in Nat
      /\ Warming \in {0, 1} /\ Warming' = Warming
      /\ granted \subseteq Owners
      /\ c \in Held <=> stage[c] \in {"opening", "using"}
      /\ c \in granted => stage[c] = "queued"
  BY CallStepPermits, OwnersFinite DEF TypeOK, Warming, Held, Queued
<1>r. free > 0 \/ (c \in granted /\ c \notin Held) => Budget!Room
  <2>1. free > 0 \/ c \in Owners \ Held => RoomFor
    BY RoomLemma, OwnersFinite
  <2> QED BY <1>t, <2>1, OwnersFinite, BudgetRoom
<1>u. ASSUME Held' = Held, parked' = parked PROVE UNCHANGED Budget!vars
  BY <1>u, <1>t DEF Budget!vars
<1>n. ASSUME Budget!Open(c) \/ Budget!TakeSpare(c) \/ Budget!Close(c) PROVE Budget!Next
  BY <1>n DEF Budget!Next
<1>1. ASSUME NEW s \in {"idle", "lanes", "loop", "queued"}, MoveTo(c, s),
             stage[c] \notin {"opening", "using"}, parked' = parked
      PROVE  UNCHANGED Budget!vars
  <2>1. Held' = Held
    BY <1>1, <1>t DEF MoveTo, Held
  <2> QED BY <1>1, <1>u, <2>1
<1>2. ASSUME TakeParked(c), stage[c] \notin {"opening", "using"} PROVE Budget!TakeSpare(c)
  <2>1. Held' = Held \cup {c} /\ c \notin Held
    BY <1>2, <1>t DEF TakeParked, MoveTo, Held
  <2>2. parked > 0 /\ parked' = parked - 1
    BY <1>2 DEF TakeParked
  <2> QED BY <1>t, <2>1, <2>2 DEF Budget!TakeSpare
<1>3. ASSUME stage[c] \notin {"opening", "using"}, MoveTo(c, "opening"), parked' = parked,
             free > 0 \/ c \in granted
      PROVE  Budget!Open(c)
  <2>1. Held' = Held \cup {c} /\ c \notin Held
    BY <1>3, <1>t DEF MoveTo, Held
  <2> QED BY <1>3, <1>t, <1>r, <2>1 DEF Budget!Open
<1>4. ASSUME stage[c] \in {"opening", "using"}, MoveTo(c, "idle"), parked' = parked
      PROVE  Budget!Close(c)
  <2>1. Held' = Held \ {c} /\ c \in Held
    BY <1>4, <1>t DEF MoveTo, Held
  <2> QED BY <1>4, <1>t, <2>1 DEF Budget!Close
<1>5. CASE TryTake(c)
  BY <1>n, <1>1, <1>2, <1>3, <1>5 DEF TryTake, TakePermit
<1>6. CASE TakeOrOpen(c)
  BY <1>n, <1>1, <1>2, <1>3, <1>6 DEF TakeOrOpen, TakePermit
<1>7. CASE AcquireSlot(c)
  BY <1>n, <1>1, <1>3, <1>7 DEF AcquireSlot, TakePermit
<1>8. CASE RunGranted(c)
  BY <1>n, <1>3, <1>8 DEF RunGranted
<1>9. CASE RunWoken(c) \/ LeaveQueue(c)
  BY <1>1, <1>9 DEF RunWoken, LeaveQueue
<1>10. CASE OpenOk(c)
  <2>1. Held' = Held
    BY <1>10, <1>t DEF OpenOk, MoveTo, Held
  <2> QED BY <1>10, <1>u, <2>1 DEF OpenOk
<1>11. CASE OpenFail(c) \/ Finish(c)
  BY <1>n, <1>4, <1>11 DEF OpenFail, Finish
<1>12. CASE Abandon(c)
  BY <1>1, <1>9, <1>12 DEF Abandon
<1> QED BY <1>5, <1>6, <1>7, <1>8, <1>9, <1>10, <1>11, <1>12 DEF CallStep, TimeOut

LEMMA StepBudget ==
  TypeOK /\ SlotsConserved /\ SparesBounded /\ [Next]_vars => [Budget!Next]_(Budget!vars)
<1> SUFFICES ASSUME TypeOK, SlotsConserved, SparesBounded, [Next]_vars
             PROVE  Budget!Next \/ UNCHANGED Budget!vars
  OBVIOUS
<1> USE DEF slots, wakes, task, conn
<1>t. /\ free \in Nat /\ parked \in Nat /\ PoolTarget \in Nat
      /\ Warming = (IF refill = "opening" THEN 1 ELSE 0)
      /\ Warming' = (IF refill' = "opening" THEN 1 ELSE 0)
      /\ stage' = stage => Held' = Held
  BY PoolTargetNat DEF TypeOK, Warming, Held
<1>1. ASSUME NEW c \in Calls, CallStep(c) PROVE Budget!Next \/ UNCHANGED Budget!vars
  BY <1>1, CallStepBudget
<1>2. ASSUME stage' = stage, parked' = parked, refill # "opening", refill' # "opening"
      PROVE  UNCHANGED Budget!vars
  BY <1>2, <1>t DEF Budget!vars
<1>3. CASE RefillExit \/ RefillFull \/ RefillNotified \/ RefillTimer
  BY <1>2, <1>3 DEF RefillExit, RefillFull, RefillNotified, RefillTimer
<1>4. CASE RefillTry
  <2>1. CASE free = 0 /\ refill' = "backoff"
    BY <1>2, <1>4, <2>1 DEF RefillTry
  <2>2. CASE free > 0 /\ refill' = "opening"
    <3>1. /\ Warming = 0 /\ Warming' = 1 /\ parked' = parked /\ Held' = Held
          /\ parked < PoolTarget
      BY <1>4, <1>t, <2>2 DEF RefillTry
    <3>2. Budget!Room
      BY <2>2, RoomLemma, BudgetRoom
    <3>3. Budget!Warm
      BY <1>t, <3>1, <3>2 DEF Budget!Warm
    <3> QED BY <3>3 DEF Budget!Next
  <2> QED BY <1>4, <2>1, <2>2 DEF RefillTry
<1>5. CASE RefillPark
  <2>1. Warming = 1 /\ Warming' = 0 /\ parked' = parked + 1 /\ Held' = Held
    BY <1>5, <1>t DEF RefillPark
  <2> QED BY <1>t, <2>1 DEF Budget!vars
<1>6. CASE RefillRefused
  <2>1. Warming = 1 /\ Warming' = 0 /\ parked' = parked /\ Held' = Held
    BY <1>6, <1>t DEF RefillRefused
  <2>2. Budget!Discard
    BY <1>t, <2>1 DEF Budget!Discard
  <2> QED BY <2>2 DEF Budget!Next
<1>7. CASE Close
  <2>1. Warming' = Warming /\ parked' = parked /\ Held' = Held
    BY <1>7, <1>t DEF Close
  <2> QED BY <2>1 DEF Budget!vars
<1>8. CASE Drop
  <2>1. Warming = 0 /\ Warming' = 0 /\ parked' = 0 /\ Held' = Held
    BY <1>8, <1>t DEF Drop
  <2>2. CASE parked = 0
    BY <2>1, <2>2 DEF Budget!vars
  <2>3. CASE parked > 0
    <3>1. Budget!Discard
      BY <1>t, <2>1, <2>3 DEF Budget!Discard
    <3> QED BY <3>1 DEF Budget!Next
  <2> QED BY <1>t, <2>2, <2>3
<1>9. CASE UNCHANGED vars
  <2>1. Warming' = Warming /\ parked' = parked /\ Held' = Held
    BY <1>9, <1>t DEF vars
  <2> QED BY <2>1 DEF Budget!vars
<1> QED BY <1>1, <1>3, <1>4, <1>5, <1>6, <1>7, <1>8, <1>9 DEF Next, RefillStep

(* Every step of the connection is one of the budget, or invisible to it:  *)
(* the channels of calls and the spares together never pass the cap.       *)
THEOREM BudgetImplemented == Spec => ImplementsBudget
<1>1. Init => Budget!Init
  BY DEF Init, Budget!Init, Held, Warming
<1>2. Init => TypeOK /\ SlotsConserved /\ SparesBounded
  BY InitType, InitSlots
<1>3. TypeOK /\ SlotsConserved /\ SparesBounded /\ [Next]_vars
      => TypeOK' /\ SlotsConserved' /\ SparesBounded'
  BY StepType, StepSlots
<1> QED BY <1>1, <1>2, <1>3, StepBudget, PTL DEF Spec, ImplementsBudget, Budget!Spec
=============================================================================
