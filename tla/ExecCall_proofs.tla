--------------------------- MODULE ExecCall_proofs ---------------------------
(***************************************************************************)
(* A command from its read-only check to its output: proofs about          *)
(* ExecCall, for any amount of output, OutputCapture, for every text and   *)
(* all limits, and CommandSegments, for every command.                     *)
(***************************************************************************)
EXTENDS ExecCall, OutputCapture, CommandSegments, FiniteSetTheorems, SequenceTheorems, WellFoundedInduction, TLAPS

-----------------------------------------------------------------------------
(* The messages of a channel. *)

Messages == {"data", "status", "signal", "eof", "close"}
PlacesOf(q, m) == {i \in 1..Len(q) : q[i] = m}
DataIn(q) == Cardinality(PlacesOf(q, "data"))

LEMMA DataInFinite ==
  ASSUME NEW q \in Seq(Messages)
  PROVE  IsFiniteSet(PlacesOf(q, "data")) /\ DataIn(q) \in Nat
<1>1. IsFiniteSet(1..Len(q))
  BY FS_Interval, LenProperties
<1>2. IsFiniteSet(PlacesOf(q, "data"))
  BY <1>1, FS_Subset DEF PlacesOf
<1> QED BY <1>2, FS_CardinalityType DEF DataIn

LEMMA EmitProperties ==
  ASSUME NEW q \in Seq(Messages), NEW m \in Messages
  PROVE  /\ Append(q, m) \in Seq(Messages) /\ Len(Append(q, m)) = Len(q) + 1
         /\ \A i \in 1..Len(q) : Append(q, m)[i] = q[i]
         /\ Append(q, m)[Len(q) + 1] = m
         /\ DataIn(Append(q, m)) = DataIn(q) + IF m = "data" THEN 1 ELSE 0
<1>1. /\ Append(q, m) \in Seq(Messages) /\ Len(Append(q, m)) = Len(q) + 1
      /\ \A i \in 1..Len(q) : Append(q, m)[i] = q[i]
      /\ Append(q, m)[Len(q) + 1] = m /\ Len(q) \in Nat
  BY AppendProperties, LenProperties
<1>2. CASE m = "data"
  <2>1. PlacesOf(Append(q, m), "data") = PlacesOf(q, "data") \cup {Len(q) + 1}
    BY <1>1, <1>2 DEF PlacesOf
  <2>2. Len(q) + 1 \notin PlacesOf(q, "data")
    BY <1>1 DEF PlacesOf
  <2> QED BY <1>1, <1>2, <2>1, <2>2, DataInFinite, FS_AddElement DEF DataIn
<1>3. CASE m # "data"
  <2>1. PlacesOf(Append(q, m), "data") = PlacesOf(q, "data")
    BY <1>1, <1>3 DEF PlacesOf
  <2> QED BY <1>1, <1>3, <2>1, DataInFinite DEF DataIn
<1> QED BY <1>2, <1>3

LEMMA ReadProperties ==
  ASSUME NEW q \in Seq(Messages), q # <<>>
  PROVE  /\ Tail(q) \in Seq(Messages) /\ Len(Tail(q)) = Len(q) - 1 /\ Len(q) \in Nat \ {0}
         /\ Head(q) = q[1] /\ Head(q) \in Messages
         /\ \A i \in 1..(Len(q) - 1) : Tail(q)[i] = q[i + 1]
         /\ DataIn(q) = DataIn(Tail(q)) + IF Head(q) = "data" THEN 1 ELSE 0
<1>1. /\ Tail(q) \in Seq(Messages) /\ Len(Tail(q)) = Len(q) - 1 /\ Len(q) \in Nat \ {0}
      /\ Head(q) = q[1] /\ Head(q) \in Messages
      /\ \A i \in 1..(Len(q) - 1) : Tail(q)[i] = q[i + 1]
  BY HeadTailProperties, LenProperties, EmptySeq
<1> DEFINE S == PlacesOf(Tail(q), "data")
           T == PlacesOf(q, "data") \ {1}
           shift == [i \in S |-> i + 1]
<1>2. shift \in Bijection(S, T)
  <2>1. \A i \in S : i + 1 \in T /\ i \in Int
    BY <1>1 DEF PlacesOf
  <2>2. \A j \in T : j - 1 \in S /\ (j - 1) + 1 = j
    BY <1>1 DEF PlacesOf
  <2>3. shift \in [S -> T]
    BY <2>1
  <2>4. \A a, b \in S : shift[a] = shift[b] => a = b
    BY <2>1
  <2>5. \A j \in T : \E i \in S : shift[i] = j
    BY <2>2
  <2> HIDE DEF S, T, shift
  <2>6. shift \in Injection(S, T)
    BY <2>3, <2>4 DEF Injection, IsInjective
  <2>7. shift \in Surjection(S, T)
    BY <2>3, <2>5 DEF Surjection
  <2> QED BY <2>6, <2>7 DEF Bijection
<1>3. IsFiniteSet(S) /\ IsFiniteSet(PlacesOf(q, "data")) /\ DataIn(Tail(q)) \in Nat /\ DataIn(q) \in Nat
  BY <1>1, DataInFinite
<1>4. Cardinality(T) = Cardinality(S)
  BY <1>2, <1>3, FS_Bijection DEF ExistsBijection
<1>5. Cardinality(T) = IF 1 \in PlacesOf(q, "data") THEN DataIn(q) - 1 ELSE DataIn(q)
  BY <1>3, FS_RemoveElement DEF DataIn
<1>6. 1 \in PlacesOf(q, "data") <=> Head(q) = "data"
  BY <1>1 DEF PlacesOf
<1> QED BY <1>1, <1>3, <1>4, <1>5, <1>6 DEF DataIn

LEMMA NoData ==
  ASSUME NEW q \in Seq(Messages), \A i \in 1..Len(q) : q[i] # "data"
  PROVE  DataIn(q) = 0
BY FS_EmptySet DEF DataIn, PlacesOf

-----------------------------------------------------------------------------
(* The invariant. *)

TypeInv ==
  /\ stage \in Stages /\ attempt \in {1, 2} /\ fromPool \in BOOLEAN
  /\ got \in Nat /\ printed \in Nat /\ sent \in Nat /\ runs \in Nat
  /\ status \in BOOLEAN /\ closeSeen \in BOOLEAN /\ closing \in BOOLEAN
  /\ timedOut \in BOOLEAN /\ interrupted \in BOOLEAN
  /\ registered \in BOOLEAN /\ cancel \in BOOLEAN /\ counted \in BOOLEAN
  /\ inbox \in Seq(Messages) /\ request \in BOOLEAN /\ eofSent \in BOOLEAN
  /\ chan \in {"open", "closed"} /\ net \in {"up", "down"}
  /\ proc \in {"none", "running", "exited", "killed"}
  /\ told \in BOOLEAN /\ first \in [sent : Nat, told : BOOLEAN]

(* What was sent was received or waits, no output is left at Eof, and Close *)
(* comes last.                                                             *)
Stream ==
  /\ got + DataIn(inbox) = sent /\ sent <= printed
  /\ proc = "none" => printed = 0 /\ ~eofSent
  /\ eofSent => sent = printed
  /\ \A i, j \in 1..Len(inbox) : inbox[i] = "eof" /\ i < j => inbox[j] # "data"
  /\ \A i \in 1..Len(inbox) : inbox[i] = "eof" => eofSent
  /\ \A i \in 1..Len(inbox) : inbox[i] = "close" => i = Len(inbox) /\ chan = "closed"

(* What the call knows, the server said. *)
Heard ==
  /\ closeSeen => chan = "closed" /\ inbox = <<>>
  /\ closing => eofSent /\ DataIn(inbox) = 0 /\ status
  /\ told => status \/ \E i \in 1..Len(inbox) : inbox[i] = "status"

(* How the call left its loop. *)
Left ==
  /\ stage = "done" /\ ~timedOut /\ ~interrupted /\ net = "up" => closeSeen \/ closing
  /\ stage = "reopening" => attempt = 1
  /\ stage = "reopening" /\ net = "up" => closeSeen /\ ~status /\ got = 0

(* The command is started once for each attempt at most, and the first     *)
(* left a channel that had said nothing.                                   *)
Silent == [sent |-> 0, told |-> FALSE]
Counted ==
  /\ first = Silent
  /\ runs <= (attempt - 1) + (IF proc = "none" THEN 0 ELSE 1)

IInv == TypeInv /\ Stream /\ Heard /\ Left /\ Counted

LEMMA InitIInv == Init => IInv
<1> SUFFICES ASSUME Init PROVE IInv
  OBVIOUS
<1>1. inbox \in Seq(Messages) /\ Len(inbox) = 0
  BY EmptySeq DEF Init
<1>2. DataIn(inbox) = 0
  <2>1. \A i \in 1..Len(inbox) : inbox[i] # "data"
    BY <1>1
  <2> QED BY <1>1, <2>1, NoData
<1>3. TypeInv
  BY <1>1 DEF Init, TypeInv, Stages
<1> QED BY <1>1, <1>2, <1>3 DEF Init, IInv, Stream, Heard, Left, Counted, Silent

-----------------------------------------------------------------------------
(* The server. *)

LEMMA ServerKeepsIInv == ASSUME IInv, Server PROVE IInv'
<1> USE DEF call, hook, process, history
<1>0. DataIn(inbox) \in Nat /\ Len(inbox) \in Nat
  BY DataInFinite, LenProperties DEF IInv, TypeInv
<1>1. CASE Run
  <2>1. TypeInv'
    <3>1. runs' \in Nat
      BY <1>1 DEF Run, IInv, TypeInv
    <3>4. request' \in BOOLEAN
      BY <1>1 DEF Run
    <3>5. proc' \in {"none", "running", "exited", "killed"}
      BY <1>1 DEF Run
    <3>2. UNCHANGED <<call, hook, inbox, chan, printed, sent, told, eofSent, net, first, counted>>
      BY <1>1 DEF Run
    <3> QED BY <3>1, <3>2, <3>4, <3>5 DEF IInv, TypeInv
  <2>2. Stream'
    BY <1>1 DEF Run, IInv, TypeInv, Stream
  <2>3. Heard' /\ Left'
    BY <1>1 DEF Run, IInv, TypeInv, Heard, Left
  <2>4. Counted'
    BY <1>1 DEF Run, IInv, TypeInv, Counted
  <2> QED BY <2>1, <2>2, <2>3, <2>4 DEF IInv
<1>2. CASE Write
  BY <1>0, <1>2, ExecCallAssumption DEF Write, IInv, TypeInv, Stream, Heard, Left, Counted
<1>3. CASE Lose
  BY <1>3 DEF Lose, server, IInv, TypeInv, Stream, Heard, Left, Counted
<1>4. ASSUME NEW m \in Messages, Emit(m)
      PROVE  /\ inbox' \in Seq(Messages) /\ Len(inbox') = Len(inbox) + 1
             /\ \A i \in 1..Len(inbox) : inbox'[i] = inbox[i]
             /\ inbox'[Len(inbox) + 1] = m
             /\ DataIn(inbox') = DataIn(inbox) + IF m = "data" THEN 1 ELSE 0
  BY <1>4, EmitProperties DEF Emit, IInv, TypeInv
<1>5. CASE SendData
  <2>1. chan = "open" /\ ~eofSent /\ ~closeSeen /\ ~closing
    BY <1>5 DEF SendData, IInv, TypeInv, Stream, Heard
  <2> QED BY <1>0, <1>4, <1>5, <2>1, SMTT(30) DEF SendData, Messages, IInv, TypeInv, Stream, Heard, Left, Counted
<1>6. CASE Exit
  <2>1. /\ proc = "running" /\ proc' \in {"exited", "killed"} /\ told' \in BOOLEAN
        /\ UNCHANGED <<stage, attempt, got, status, closeSeen, closing, timedOut, interrupted,
                       chan, printed, sent, eofSent, net, runs, first>>
    BY <1>6 DEF Exit
  <2>2. CASE chan = "open"
    <3>1. PICK m \in {"status", "signal"} : Emit(m) /\ (told' => told \/ m = "status")
      <4>1. \/ proc' = "exited" /\ Emit("status")
            \/ proc' = "killed" /\ Emit("signal") /\ told' = told
        BY <1>6, <2>1, <2>2 DEF Exit, IInv, TypeInv
      <4> QED BY <4>1
    <3>2. TypeInv'
      BY <1>4, <1>6, <3>1 DEF Exit, Messages, IInv, TypeInv
    <3>3. DataIn(inbox') = DataIn(inbox)
      BY <1>0, <1>4, <3>1 DEF Messages
    <3>4. \A i \in 1..Len(inbox') : inbox'[i] = (IF i = Len(inbox) + 1 THEN m ELSE inbox[i])
      BY <1>0, <1>4, <3>1 DEF Messages
    <3>5. Stream'
      BY <1>0, <1>4, <2>1, <2>2, <3>1, <3>3, <3>4 DEF Messages, IInv, Stream
    <3>6. m = "status" => inbox'[Len(inbox) + 1] = "status" /\ Len(inbox) + 1 \in 1..Len(inbox')
      BY <1>0, <1>4, <3>1 DEF Messages
    <3>7. ~closeSeen
      BY <2>2 DEF IInv, Heard
    <3>8. told' => status \/ \E i \in 1..Len(inbox') : inbox'[i] = "status"
      <4>1. ASSUME NEW i \in 1..Len(inbox), inbox[i] = "status"
            PROVE  i \in 1..Len(inbox') /\ inbox'[i] = "status"
        BY <1>0, <1>4, <3>1, <4>1 DEF Messages
      <4> QED BY <3>1, <3>6, <4>1 DEF IInv, Heard
    <3>9. Heard'
      BY <2>1, <3>3, <3>7, <3>8 DEF IInv, Heard
    <3> QED BY <2>1, <3>2, <3>5, <3>9 DEF IInv, Left, Counted
  <2>3. CASE chan # "open"
    <3>1. UNCHANGED inbox /\ told' = told
      BY <1>6, <2>3 DEF Exit, IInv, TypeInv
    <3>2. TypeInv'
      BY <1>6, <3>1 DEF Exit, IInv, TypeInv
    <3> QED BY <2>1, <3>1, <3>2 DEF IInv, Stream, Heard, Left, Counted
  <2> QED BY <2>2, <2>3
<1>7. CASE SendEof
  <2>1. chan = "open" /\ ~closeSeen
    BY <1>7 DEF SendEof, IInv, TypeInv, Stream, Heard
  <2> QED BY <1>0, <1>4, <1>7, <2>1, SMTT(30) DEF SendEof, Messages, IInv, TypeInv, Stream, Heard, Left, Counted
<1>8. CASE SendClose
  <2>1. chan = "open" /\ ~closeSeen
    BY <1>8 DEF SendClose, IInv, Heard
  <2> QED BY <1>0, <1>4, <1>8, <2>1, SMTT(30) DEF SendClose, Messages, IInv, TypeInv, Stream, Heard, Left, Counted
<1> QED BY <1>1, <1>2, <1>3, <1>5, <1>6, <1>7, <1>8 DEF Server

-----------------------------------------------------------------------------
(* The call. *)

(* A message is read from the front: nothing follows a Close, no output an *)
(* Eof. *)
AfterRead(m) ==
  /\ Stream' /\ inbox' \in Seq(Messages) /\ ~closeSeen
  /\ DataIn(inbox) = 0 => DataIn(inbox') = 0
  /\ m = "eof" => eofSent /\ DataIn(inbox') = 0
  /\ m = "close" => chan = "closed" /\ inbox' = <<>>
  /\ told /\ ~status /\ m # "status" => \E i \in 1..Len(inbox') : inbox'[i] = "status"
  /\ UNCHANGED <<attempt, fromPool, cancel, request, chan, proc, printed, sent, told, eofSent, net,
                 runs, first, counted>>

LEMMA ReadingOK ==
  ASSUME IInv, NEW m \in Messages, Reading(m), got' = got + (IF m = "data" THEN 1 ELSE 0)
  PROVE  AfterRead(m)
<1>1. /\ inbox' \in Seq(Messages) /\ Len(inbox') = Len(inbox) - 1 /\ Len(inbox) \in Nat \ {0}
      /\ inbox[1] = m /\ \A i \in 1..(Len(inbox) - 1) : inbox'[i] = inbox[i + 1]
      /\ DataIn(inbox) = DataIn(inbox') + (IF m = "data" THEN 1 ELSE 0)
      /\ inbox # <<>>
  BY ReadProperties DEF Reading, IInv, TypeInv
<1>2. DataIn(inbox) \in Nat /\ DataIn(inbox') \in Nat
  BY <1>1, DataInFinite DEF IInv, TypeInv
<1>3. Stream'
  <2>1. UNCHANGED <<chan, proc, printed, sent, eofSent>>
    BY DEF Reading, process
  <2>2. got' + DataIn(inbox') = got + DataIn(inbox)
    BY <1>1, <1>2 DEF IInv, TypeInv
  <2>3. \A i, j \in 1..Len(inbox') : inbox'[i] = "eof" /\ i < j => inbox'[j] # "data"
    <3>1. \A i \in 1..Len(inbox') : i + 1 \in 1..Len(inbox) /\ inbox'[i] = inbox[i + 1]
      BY <1>1
    <3> QED BY <1>1, <3>1 DEF IInv, Stream
  <2>4. \A i \in 1..Len(inbox') : inbox'[i] = "eof" => eofSent
    BY <1>1 DEF IInv, Stream
  <2>5. \A i \in 1..Len(inbox') : inbox'[i] = "close" => i = Len(inbox') /\ chan = "closed"
    BY <1>1 DEF IInv, Stream
  <2> QED BY <2>1, <2>2, <2>3, <2>4, <2>5 DEF IInv, Stream
<1>4. m = "eof" => eofSent /\ DataIn(inbox') = 0
  <2>1. m = "eof" => eofSent /\ \A i \in 1..Len(inbox') : inbox'[i] # "data"
    BY <1>1 DEF IInv, Stream
  <2> QED BY <1>1, <2>1, NoData
<1>5. m = "close" => chan = "closed" /\ inbox' = <<>>
  <2>1. m = "close" => chan = "closed" /\ Len(inbox') = 0
    BY <1>1 DEF IInv, Stream
  <2> QED BY <1>1, <2>1, EmptySeq
<1>6. ~closeSeen
  BY <1>1 DEF IInv, Heard
<1>7. ASSUME told, ~status, m # "status" PROVE \E i \in 1..Len(inbox') : inbox'[i] = "status"
  <2>1. PICK i \in 1..Len(inbox) : inbox[i] = "status"
    BY <1>7 DEF IInv, Heard
  <2>2. i # 1 /\ i - 1 \in 1..Len(inbox') /\ inbox'[i - 1] = inbox[i]
    BY <1>1, <1>7, <2>1
  <2> QED BY <2>1, <2>2
<1>8. UNCHANGED <<attempt, fromPool, cancel, request, chan, proc, printed, sent, told, eofSent, net,
                  runs, first, counted>>
  BY DEF Reading, process, history
<1>9. DataIn(inbox) = 0 => DataIn(inbox') = 0
  BY <1>1, <1>2
<1> QED BY <1>1, <1>3, <1>4, <1>5, <1>6, <1>7, <1>8, <1>9 DEF AfterRead

LEMMA ReadKeepsIInv ==
  ASSUME IInv, GetData \/ GetStatus \/ GetOther \/ GetEof \/ GetClose
  PROVE  IInv'
<1>0. got \in Nat
  BY DEF IInv, TypeInv
<1>1. CASE GetData
  <2>1. AfterRead("data") /\ got' = got + 1
    BY <1>1, ReadingOK DEF GetData, Messages
  <2>2. UNCHANGED <<stage, timedOut, interrupted, closeSeen, registered, status, closing>>
    BY <1>1 DEF GetData, Continue
  <2>3. stage = "reading"
    BY <1>1 DEF GetData, Reading
  <2>4. TypeInv'
    BY <1>0, <2>1, <2>2 DEF AfterRead, IInv, TypeInv
  <2> QED BY <2>1, <2>2, <2>3, <2>4 DEF AfterRead, IInv, Heard, Left, Counted
<1>2. ASSUME NEW m \in {"status", "signal", "eof"}, AfterRead(m), stage = "reading",
             UNCHANGED <<got, stage, timedOut, interrupted, closeSeen, registered>>,
             status' \in BOOLEAN, status \/ m = "status" => status',
             closing' \in BOOLEAN, closing' => closing \/ (m = "eof" /\ status)
      PROVE  IInv'
  <2>1. TypeInv'
    BY <1>2 DEF AfterRead, IInv, TypeInv
  <2>2. Heard'
    BY <1>2 DEF AfterRead, IInv, Heard
  <2> QED BY <1>2, <2>1, <2>2 DEF AfterRead, IInv, Left, Counted
<1>3. CASE GetStatus
  <2>1. AfterRead("status")
    BY <1>0, <1>3, ReadingOK DEF GetStatus, Messages
  <2>2. Continue /\ stage = "reading"
    BY <1>3, <2>1 DEF GetStatus, Reading, AfterRead
  <2> QED BY <1>2, <1>3, <2>1, <2>2 DEF GetStatus, Continue, IInv, TypeInv
<1>4. CASE GetOther
  <2>1. AfterRead("signal") /\ stage = "reading"
    BY <1>0, <1>4, ReadingOK DEF GetOther, Reading, Messages
  <2> QED BY <1>2, <1>4, <2>1 DEF GetOther, Continue, IInv, TypeInv
<1>5. CASE GetEof
  <2>1. AfterRead("eof") /\ stage = "reading"
    BY <1>0, <1>5, ReadingOK DEF GetEof, Reading, Messages
  <2>2. closing' \in BOOLEAN /\ (closing' => closing \/ status)
    <3>1. closing' = (closing \/ status) /\ closing \in BOOLEAN /\ status \in BOOLEAN
      BY <1>5 DEF GetEof, IInv, TypeInv
    <3> QED BY <3>1
  <2>3. UNCHANGED <<got, stage, timedOut, interrupted, closeSeen, registered>> /\ status' = status
    BY <1>5 DEF GetEof, Continue
  <2>4. status' \in BOOLEAN /\ (status \/ "eof" = "status" => status')
    BY <2>3, Zenon DEF IInv, TypeInv
  <2>5. closing' => closing \/ ("eof" = "eof" /\ status)
    BY <2>2, Zenon
  <2> QED BY <1>2, <2>1, <2>2, <2>3, <2>4, <2>5
<1>6. CASE GetClose
  <2>1. AfterRead("close") /\ stage = "reading" /\ UNCHANGED <<got, status, closing>>
    BY <1>0, <1>6, ReadingOK DEF GetClose, Reading, Messages
  <2>2. /\ closeSeen' = TRUE /\ timedOut' \in BOOLEAN /\ interrupted' \in BOOLEAN
        /\ registered' \in BOOLEAN
        /\ stage' \in {"reading", "done"}
    BY <1>6, <2>1 DEF GetClose, End, Stale, IInv, TypeInv
  <2>3. TypeInv'
    BY <2>1, <2>2 DEF AfterRead, IInv, TypeInv, Stages
  <2>4. Heard'
    <3>1. DataIn(inbox') = 0 /\ ~\E i \in 1..Len(inbox') : inbox'[i] = "status"
      <4>1. inbox' = <<>> /\ inbox' \in Seq(Messages)
        BY <2>1 DEF AfterRead
      <4>2. Len(inbox') = 0
        BY <4>1, EmptySeq
      <4>3. \A i \in 1..Len(inbox') : inbox'[i] # "data"
        BY <4>2
      <4>4. DataIn(inbox') = 0
        BY <4>1, <4>3, NoData
      <4> QED BY <4>2, <4>4
    <3> QED BY <2>1, <2>2, <3>1 DEF AfterRead, IInv, Heard
  <2> QED BY <2>1, <2>2, <2>3, <2>4 DEF AfterRead, IInv, Left, Counted
<1> QED BY <1>1, <1>3, <1>4, <1>5, <1>6

(* The loop ends without a message. *)
LEMMA EndKeepsIInv ==
  ASSUME IInv, Interrupted \/ Timer \/ StreamEnd
  PROVE  IInv'
<1>1. /\ stage = "reading" /\ closeSeen' = closeSeen /\ registered' \in BOOLEAN
      /\ timedOut' \in BOOLEAN /\ interrupted' \in BOOLEAN
      /\ stage' \in {"done", "reopening"}
      /\ stage' = "reopening" => attempt = 1 /\ closeSeen /\ ~status /\ got = 0
      /\ ~timedOut' /\ ~interrupted' => closing \/ closeSeen \/ net = "down"
  BY DEF Interrupted, Timer, StreamEnd, End, Stale, IInv, TypeInv
<1>2. UNCHANGED <<attempt, fromPool, got, status, closing, cancel, inbox, request, chan, proc, printed,
                  sent, told, eofSent, net, runs, first, counted>>
  BY DEF Interrupted, Timer, StreamEnd, server, process, history
<1>3. TypeInv'
  BY <1>1, <1>2 DEF IInv, TypeInv, Stages
<1>4. Stream' /\ Heard'
  BY <1>1, <1>2 DEF IInv, Stream, Heard
<1> QED BY <1>1, <1>2, <1>3, <1>4 DEF IInv, Left, Counted

LEMMA OtherKeepsIInv ==
  ASSUME IInv, SendExec \/ Interrupt \/ Abandon \/ UNCHANGED vars
  PROVE  IInv'
<1> USE DEF call, hook, process, server, history
<1>1. CASE SendExec
  <2>1. /\ request' \in BOOLEAN /\ registered' \in BOOLEAN /\ cancel' \in BOOLEAN
        /\ stage' \in {"reading", "reopening", "failed"}
        /\ stage' = "reopening" => attempt = 1 /\ net # "up"
    BY <1>1 DEF SendExec, IInv, TypeInv
  <2>2. UNCHANGED <<attempt, fromPool, got, status, closeSeen, closing, timedOut, interrupted, inbox, chan,
                    proc, printed, sent, told, eofSent, net, runs, first, counted>>
    BY <1>1 DEF SendExec
  <2>3. TypeInv'
    BY <2>1, <2>2 DEF IInv, TypeInv, Stages
  <2> QED BY <2>1, <2>2, <2>3 DEF IInv, Stream, Heard, Left, Counted
<1>2. CASE Interrupt
  BY <1>2 DEF Interrupt, IInv, TypeInv, Stream, Heard, Left, Counted
<1>3. CASE Abandon
  BY <1>3 DEF Abandon, IInv, TypeInv, Stages, Stream, Heard, Left, Counted
<1>4. CASE UNCHANGED vars
  BY <1>4 DEF vars, IInv, TypeInv, Stream, Heard, Left, Counted
<1> QED BY <1>1, <1>2, <1>3, <1>4

(* A retry begins anew: nothing was received and Close was, so nothing had *)
(* been sent.                                                              *)
LEMMA ReopenKeepsIInv == ASSUME IInv, Reopen \/ ReopenFails PROVE IInv'
<1> USE DEF hook, process, server, history
<1>1. CASE ReopenFails
  BY <1>1 DEF ReopenFails, IInv, TypeInv, Stages, Stream, Heard, Left, Counted
<1>2. CASE Reopen
  <2>1. attempt = 1 /\ closeSeen /\ ~status /\ got = 0 /\ chan = "closed" /\ inbox = <<>>
    BY <1>2 DEF Reopen, IInv, Left, Heard
  <2>2. DataIn(inbox) = 0 /\ Len(inbox) = 0
    <3>1. Len(inbox) = 0 /\ inbox \in Seq(Messages) /\ \A i \in 1..Len(inbox) : inbox[i] # "data"
      BY <2>1, EmptySeq DEF IInv, TypeInv
    <3> QED BY <3>1, NoData
  <2>3. sent = 0 /\ told = FALSE
    BY <2>1, <2>2 DEF IInv, TypeInv, Stream, Heard
  <2>4. first' = Silent /\ attempt' = 2 /\ proc' = "none" /\ runs' = runs
    BY <1>2, <2>3 DEF Reopen, Silent
  <2>5. Counted'
    BY <2>1, <2>4 DEF IInv, TypeInv, Counted
  <2>6. inbox' = <<>> /\ inbox' \in Seq(Messages) /\ Len(inbox') = 0 /\ DataIn(inbox') = 0
    BY <1>2, <2>1, <2>2 DEF Reopen, IInv, TypeInv
  <2>7. /\ got' = 0 /\ status' = FALSE /\ closeSeen' = FALSE /\ closing' = FALSE /\ request' = FALSE
        /\ chan' = "open" /\ printed' = 0 /\ sent' = 0 /\ told' = FALSE /\ eofSent' = FALSE
        /\ stage' = "sending"
        /\ UNCHANGED <<fromPool, timedOut, interrupted, registered, cancel, net, runs, counted>>
    BY <1>2 DEF Reopen
  <2>8. TypeInv'
    BY <2>4, <2>6, <2>7 DEF IInv, TypeInv, Stages, Silent
  <2>9. Stream' /\ Heard' /\ Left'
    BY <2>4, <2>6, <2>7 DEF IInv, Stream, Heard, Left
  <2> QED BY <2>5, <2>8, <2>9 DEF IInv
<1> QED BY <1>1, <1>2

LEMMA Inductive == Spec => []IInv
<1>1. IInv /\ [Next]_vars => IInv'
  BY ServerKeepsIInv, ReadKeepsIInv, EndKeepsIInv, OtherKeepsIInv, ReopenKeepsIInv DEF Next, Loop
<1> QED BY <1>1, InitIInv, PTL DEF Spec

-----------------------------------------------------------------------------
(* The theorems. *)

(* "re-running it would not be idempotent-safe" (exec.rs, `retry`): a      *)
(* command is started again once at most, and only after a channel closed  *)
(* on which nothing had been sent, whenever a server closes its channels   *)
(* and for any amount of output.                                           *)
THEOREM NoBlindRerun == Spec => []RerunOnlyAfterSilence
<1>1. IInv => RerunOnlyAfterSilence
  BY DEF IInv, TypeInv, Counted, Silent, RerunOnlyAfterSilence
<1> QED BY <1>1, Inductive, PTL

(* An exit code that is returned comes with all the output that was sent,  *)
(* with all the command printed if the server sent Eof, in whatever order  *)
(* exit, output, Eof and Close were sent, and however much of it there is. *)
THEOREM OutputComplete == Spec => []CompleteOutput
<1>1. ASSUME IInv, stage = "done", ~timedOut, ~interrupted, net = "up"
      PROVE  got = sent /\ (eofSent => got = printed)
  <2>1. got + DataIn(inbox) = sent /\ (closeSeen \/ closing) /\ (eofSent => sent = printed)
    BY <1>1 DEF IInv, Stream, Left
  <2>2. closeSeen => DataIn(inbox) = 0
    <3>1. closeSeen => Len(inbox) = 0 /\ inbox \in Seq(Messages)
      BY <1>1, EmptySeq DEF IInv, TypeInv, Heard
    <3>2. closeSeen => \A i \in 1..Len(inbox) : inbox[i] # "data"
      BY <3>1
    <3> QED BY <3>1, <3>2, NoData
  <2> QED BY <1>1, <2>1, <2>2 DEF IInv, TypeInv, Heard
<1>2. IInv => CompleteOutput
  BY <1>1 DEF CompleteOutput
<1> QED BY <1>2, Inductive, PTL

(* Unless the call was cut short or waited out CLOSE_GRACE, the server no  *)
(* longer counts the channel when the slot goes back or a retry opens one. *)
THEOREM SlotUntilClose == Spec => []SlotHeldUntilClosed
<1>1. IInv => SlotHeldUntilClosed
  BY DEF IInv, Heard, Left, SlotHeldUntilClosed
<1> QED BY <1>1, Inductive, PTL

-----------------------------------------------------------------------------
(* Numbers.                                                                *)

LEMMA SmallestOf ==
  ASSUME NEW T \in SUBSET Nat, T # {}
  PROVE  \E n \in T : \A m \in T : n <= m
<1>1. PICK n \in T : \A m \in T : <<m, n>> \notin OpToRel(<, Nat)
  BY NatLessThanWellFounded, WFMin
<1>2. \A m \in T : ~(m < n)
  BY <1>1 DEF OpToRel
<1> QED BY <1>2

LEMMA LargestOf ==
  ASSUME NEW n \in Nat, NEW T \in SUBSET 0..n, T # {}
  PROVE  \E i \in T : \A j \in T : j <= i
<1> DEFINE U == {n - i : i \in T}
<1>1. U \in SUBSET Nat /\ U # {}
  <2>1. \A i \in T : n - i \in Nat
    OBVIOUS
  <2> QED BY <2>1
<1>2. PICK m \in U : \A k \in U : m <= k
  BY <1>1, SmallestOf
<1>3. PICK i \in T : m = n - i
  OBVIOUS
<1>4. \A j \in T : j <= i
  BY <1>2, <1>3
<1> QED BY <1>4

LEMMA Induction ==
  ASSUME NEW T, 0 \in T, \A n \in Nat : n \in T => n + 1 \in T
  PROVE  Nat \subseteq T
<1> SUFFICES ASSUME Nat \ T # {} PROVE FALSE
  OBVIOUS
<1>1. PICK n \in Nat \ T : \A m \in Nat \ T : n <= m
  BY SmallestOf
<1>2. n # 0 /\ n - 1 \in Nat
  BY <1>1
<1>3. n - 1 \in T
  BY <1>1, <1>2
<1> QED BY <1>1, <1>2, <1>3

-----------------------------------------------------------------------------
(* The bytes of a stream.                                                  *)

Byte(c, p) == [char |-> c, part |-> p]
ByteSet == [char : Nat, part : 1..Widest]
NextByte(b, ws) == IF b.part < ws[b.char] THEN Byte(b.char, b.part + 1) ELSE Byte(b.char + 1, 1)

(* s is the first k characters of ws.                                      *)
IsText(s, ws, k) ==
  /\ s \in Seq(ByteSet)
  /\ k = 0 => s = <<>>
  /\ k > 0 => Len(s) > 0 /\ s[1] = Byte(1, 1) /\ s[Len(s)] = Byte(k, ws[k])
  /\ \A i \in 1..Len(s) : s[i].char \in 1..k /\ s[i].part <= ws[s[i].char]
  /\ \A i \in 1..(Len(s) - 1) : s[i + 1] = NextByte(s[i], ws)

LEMMA Characters ==
  ASSUME NEW k \in Nat, NEW w \in 1..Widest
  PROVE  /\ Character(k, w) \in Seq(ByteSet) /\ Len(Character(k, w)) = w
         /\ \A j \in 1..w : Character(k, w)[j] = Byte(k, j)
<1>1. Character(k, w) = [j \in 1..w |-> Byte(k, j)]
  BY DEF Character, Byte
<1>2. w \in Nat /\ \A j \in 1..w : Byte(k, j) \in ByteSet
  BY DEF Byte, ByteSet, Widest
<1> DEFINE c == Character(k, w)
<1> HIDE DEF c
<1>3. c \in [1..w -> ByteSet]
  BY <1>1, <1>2 DEF c
<1>4. c \in Seq(ByteSet)
  BY <1>2, <1>3, SeqDef
<1>5. Len(c) = w
  BY <1>2, <1>3, <1>4, LenProperties
<1> QED BY <1>1, <1>4, <1>5 DEF c

LEMMA TextGrows ==
  ASSUME NEW ws \in Seq(1..Widest), NEW k \in Nat, k + 1 <= Len(ws), NEW s, IsText(s, ws, k)
  PROVE  IsText(s \o Character(k + 1, ws[k + 1]), ws, k + 1)
<1> DEFINE w == ws[k + 1]
           c == Character(k + 1, w)
           t == s \o c
           n == Len(s)
<1>1. w \in 1..Widest /\ w \in Nat /\ w >= 1
  <2>1. k + 1 \in 1..Len(ws)
    BY LenProperties
  <2> QED BY <2>1, ElementOfSeq DEF Widest
<1>2. s \in Seq(ByteSet) /\ n \in Nat
  <2>1. s \in Seq(ByteSet)
    BY DEF IsText
  <2> QED BY <2>1, LenProperties
<1>3. c \in Seq(ByteSet) /\ Len(c) = w /\ \A j \in 1..w : c[j] = Byte(k + 1, j)
  BY <1>1, Characters
<1>4. t \in Seq(ByteSet) /\ Len(t) = n + w
      /\ \A i \in 1..(n + w) : t[i] = IF i <= n THEN s[i] ELSE c[i - n]
  <2> HIDE DEF c, w
  <2>1. s \in Seq(ByteSet) /\ c \in Seq(ByteSet) /\ Len(c) = w
    BY <1>2, <1>3
  <2>2. /\ s \o c \in Seq(ByteSet) /\ Len(s \o c) = Len(s) + Len(c)
        /\ \A i \in 1..(Len(s) + Len(c)) : (s \o c)[i] = IF i <= Len(s) THEN s[i] ELSE c[i - Len(s)]
    BY <2>1, ConcatProperties
  <2> QED BY <2>1, <2>2
<1> HIDE DEF c, t, n, w
<1>5. \A i \in 1..n : t[i] = s[i]
  BY <1>1, <1>2, <1>4
<1>6. \A j \in 1..w : t[n + j] = Byte(k + 1, j)
  <2> TAKE j \in 1..w
  <2>1. n + j \in 1..(n + w) /\ ~(n + j <= n) /\ (n + j) - n = j
    BY <1>1, <1>2
  <2> QED BY <1>3, <1>4, <2>1
<1>7. \A i \in 1..(n + w) : i \in 1..n \/ i - n \in 1..w
  BY <1>1, <1>2
<1>8. t[1] = Byte(1, 1)
  <2>1. CASE k = 0
    <3>1. n = 0
      BY <2>1, EmptySeq DEF IsText, n
    <3> QED BY <1>1, <1>2, <1>6, <2>1, <3>1
  <2>2. CASE k # 0
    BY <1>2, <1>5, <2>2 DEF IsText, n
  <2> QED BY <2>1, <2>2
<1>9. t[Len(t)] = Byte(k + 1, w)
  BY <1>1, <1>4, <1>6
<1>10. \A i \in 1..Len(t) : t[i].char \in 1..(k + 1) /\ t[i].part <= ws[t[i].char]
  <2> TAKE i \in 1..Len(t)
  <2>1. CASE i \in 1..n
    BY <1>5, <2>1 DEF IsText, n
  <2>2. CASE i - n \in 1..w
    <3>1. t[i] = Byte(k + 1, i - n)
      BY <1>1, <1>2, <1>4, <1>6, <2>2
    <3> QED BY <1>1, <2>2, <3>1 DEF Byte, w
  <2> QED BY <1>4, <1>7, <2>1, <2>2
<1>11. \A i \in 1..(Len(t) - 1) : t[i + 1] = NextByte(t[i], ws)
  <2> TAKE i \in 1..(Len(t) - 1)
  <2>1. CASE i < n
    <3>1. i \in 1..n /\ i + 1 \in 1..n /\ i \in 1..(n - 1)
      BY <1>1, <1>2, <1>4, <2>1
    <3> QED BY <1>5, <3>1 DEF IsText, n
  <2>2. CASE i = n
    <3>1. k > 0
      BY <1>2, <2>2, EmptySeq DEF IsText, n
    <3>2. t[i] = Byte(k, ws[k])
      BY <1>5, <2>2, <3>1 DEF IsText, n
    <3>3. t[i + 1] = Byte(k + 1, 1)
      BY <1>1, <1>6, <2>2
    <3>6. k \in 1..Len(ws)
      BY <3>1, LenProperties
    <3>4. ws[k] \in 1..Widest
      BY <3>6, ElementOfSeq
    <3>5. ~(Byte(k, ws[k]).part < ws[Byte(k, ws[k]).char])
      BY <3>4 DEF Byte, Widest
    <3> QED BY <3>2, <3>3, <3>5 DEF NextByte, Byte
  <2>3. CASE i > n
    <3> DEFINE j == i - n
    <3>1. j \in 1..w /\ j + 1 \in 1..w /\ j < w /\ i = n + j /\ i + 1 = n + (j + 1)
      BY <1>1, <1>2, <1>4, <2>3
    <3> HIDE DEF j
    <3>2. t[i] = Byte(k + 1, j) /\ t[i + 1] = Byte(k + 1, j + 1)
      BY <1>6, <3>1
    <3> QED BY <3>1, <3>2 DEF NextByte, Byte, w
  <2> QED BY <1>2, <2>1, <2>2, <2>3
<1>12. IsText(t, ws, k + 1)
  <2>1. k + 1 > 0 /\ k + 1 # 0 /\ Len(t) > 0
    BY <1>1, <1>2, <1>4
  <2>2. t[Len(t)] = Byte(k + 1, ws[k + 1])
    BY <1>9 DEF w
  <2> QED BY <1>4, <1>8, <1>10, <1>11, <2>1, <2>2 DEF IsText
<1> QED BY <1>12 DEF t, c, w

TextStep(sofar, ws, k) == sofar \o Character(k, ws[k])
IsTextFunction(f, ws, n) == f = [k \in 0..n |-> IF k = 0 THEN <<>> ELSE TextStep(f[k - 1], ws, k)]

LEMMA TextFunction ==
  ASSUME NEW ws, NEW n \in Nat
  PROVE  \E f : IsTextFunction(f, ws, n)
<1> DEFINE T == {k \in Nat : \E f : IsTextFunction(f, ws, k)}
<1>1. 0 \in T
  <2> DEFINE f == [k \in 0..0 |-> <<>>]
  <2>1. f = [k \in 0..0 |-> IF k = 0 THEN <<>> ELSE TextStep(f[k - 1], ws, k)]
    OBVIOUS
  <2> HIDE DEF f
  <2> QED BY <2>1 DEF IsTextFunction
<1>2. ASSUME NEW m \in Nat, m \in T PROVE m + 1 \in T
  <2>1. PICK f : f = [k \in 0..m |-> IF k = 0 THEN <<>> ELSE TextStep(f[k - 1], ws, k)]
    BY <1>2 DEF IsTextFunction
  <2> DEFINE g == [k \in 0..(m + 1) |-> IF k = 0 THEN <<>> ELSE TextStep(f[k - 1], ws, k)]
  <2>2. \A k \in 0..m : g[k] = f[k]
    BY <2>1
  <2>3. \A k \in 0..(m + 1) : k = 0 \/ g[k - 1] = f[k - 1]
    <3> HIDE DEF g
    <3>1. \A k \in 0..(m + 1) : k = 0 \/ k - 1 \in 0..m
      OBVIOUS
    <3> QED BY <2>2, <3>1
  <2>4. g = [k \in 0..(m + 1) |-> IF k = 0 THEN <<>> ELSE TextStep(g[k - 1], ws, k)]
    BY <2>3
  <2> HIDE DEF g
  <2> QED BY <2>4 DEF IsTextFunction
<1> HIDE DEF T
<1>3. n \in T
  BY <1>1, <1>2, Induction
<1> QED BY <1>3 DEF T

LEMMA StreamIsText ==
  ASSUME NEW ws \in Seq(1..Widest)
  PROVE  IsText(Bytes(ws), ws, Len(ws))
<1> DEFINE f == CHOOSE f : IsTextFunction(f, ws, Len(ws))
           T == {k \in Nat : k <= Len(ws) => IsText(f[k], ws, k)}
<1>1. Len(ws) \in Nat
  BY LenProperties
<1>2. Bytes(ws) = f[Len(ws)]
  BY DEF Bytes, IsTextFunction, TextStep
<1>3. f = [k \in 0..Len(ws) |-> IF k = 0 THEN <<>> ELSE TextStep(f[k - 1], ws, k)]
  BY <1>1, TextFunction DEF IsTextFunction
<1> HIDE DEF f
<1>4. 0 \in T
  <2>1. f[0] = <<>>
    BY <1>1, <1>3
  <2>2. <<>> \in Seq(ByteSet) /\ Len(<<>>) = 0
    BY EmptySeq
  <2>3. IsText(<<>>, ws, 0)
    BY <2>2 DEF IsText
  <2> QED BY <2>1, <2>3
<1>5. ASSUME NEW k \in Nat, k \in T PROVE k + 1 \in T
  <2> SUFFICES ASSUME k + 1 <= Len(ws) PROVE IsText(f[k + 1], ws, k + 1)
    OBVIOUS
  <2>1. k + 1 \in 0..Len(ws) /\ k + 1 # 0 /\ (k + 1) - 1 = k
    BY <1>1
  <2>2. \A j \in 0..Len(ws) : j # 0 => f[j] = TextStep(f[j - 1], ws, j)
    BY <1>3
  <2>3. f[k + 1] = TextStep(f[k], ws, k + 1)
    BY <2>1, <2>2
  <2>4. IsText(f[k], ws, k)
    BY <1>1, <1>5, <2>1
  <2> QED BY <2>3, <2>4, TextGrows DEF TextStep
<1> HIDE DEF T
<1>6. Len(ws) \in T
  BY <1>1, <1>4, <1>5, Induction
<1> QED BY <1>1, <1>2, <1>6 DEF T

-----------------------------------------------------------------------------
(* Where a piece of text may be cut.                                       *)

(* Bytes that follow each other in text, and those that also begin with a  *)
(* character.                                                              *)
Chained(s) ==
  /\ s \in Seq(ByteSet)
  /\ \A i \in 1..(Len(s) - 1) :
       \/ s[i + 1].char = s[i].char /\ s[i + 1].part = s[i].part + 1
       \/ s[i + 1].char = s[i].char + 1 /\ s[i + 1].part = 1
Clean(s) == Chained(s) /\ (Len(s) > 0 => s[1].part = 1)

LEMMA PartsBounded ==
  ASSUME NEW s, Chained(s)
  PROVE  Len(s) \in Nat /\ \A i \in 1..Len(s) : s[i].char \in Nat /\ s[i].part \in 1..4
<1>1. Len(s) \in Nat
  BY LenProperties DEF Chained
<1>2. \A i \in 1..Len(s) : s[i] \in ByteSet
  BY ElementOfSeq DEF Chained
<1>3. \A b \in ByteSet : b.char \in Nat /\ b.part \in 1..4
  BY DEF ByteSet, Widest
<1> QED BY <1>1, <1>2, <1>3

(* Of four bytes one begins a character.                                   *)
LEMMA OneOfFour ==
  ASSUME NEW s, Chained(s), NEW i \in Nat, i + 4 <= Len(s)
  PROVE  s[i + 1].part = 1 \/ s[i + 2].part = 1 \/ s[i + 3].part = 1 \/ s[i + 4].part = 1
<1>1. Len(s) \in Nat /\ \A j \in 1..Len(s) : s[j].part \in 1..4
  BY PartsBounded
<1>2. \A j \in 1..(Len(s) - 1) : s[j + 1].part = s[j].part + 1 \/ s[j + 1].part = 1
  BY DEF Chained
<1>3. i + 1 \in 1..Len(s) /\ i + 2 \in 1..Len(s) /\ i + 3 \in 1..Len(s) /\ i + 4 \in 1..Len(s)
      /\ i + 1 \in 1..(Len(s) - 1) /\ i + 2 \in 1..(Len(s) - 1) /\ i + 3 \in 1..(Len(s) - 1)
  BY <1>1
<1>4. /\ s[(i + 1) + 1].part = s[i + 1].part + 1 \/ s[(i + 1) + 1].part = 1
      /\ s[(i + 2) + 1].part = s[i + 2].part + 1 \/ s[(i + 2) + 1].part = 1
      /\ s[(i + 3) + 1].part = s[i + 3].part + 1 \/ s[(i + 3) + 1].part = 1
  BY <1>2, <1>3
<1>5. (i + 1) + 1 = i + 2 /\ (i + 2) + 1 = i + 3 /\ (i + 3) + 1 = i + 4
  OBVIOUS
<1>6. s[i + 1].part \in 1..4 /\ s[i + 4].part \in 1..4
  BY <1>1, <1>3
<1>7. /\ s[i + 2].part = s[i + 1].part + 1 \/ s[i + 2].part = 1
      /\ s[i + 3].part = s[i + 2].part + 1 \/ s[i + 3].part = 1
      /\ s[i + 4].part = s[i + 3].part + 1 \/ s[i + 4].part = 1
  BY <1>4, <1>5
<1> QED BY <1>6, <1>7

LEMMA BoundaryNear ==
  ASSUME NEW s, Chained(s), NEW i \in Nat, i + 3 < Len(s)
  PROVE  \E j \in i..(i + 3) : IsBoundary(s, j)
<1>1. Len(s) \in Nat
  BY PartsBounded
<1>2. s[i + 1].part = 1 \/ s[(i + 1) + 1].part = 1 \/ s[(i + 2) + 1].part = 1 \/ s[(i + 3) + 1].part = 1
  <2>1. (i + 1) + 1 = i + 2 /\ (i + 2) + 1 = i + 3 /\ (i + 3) + 1 = i + 4
    OBVIOUS
  <2> QED BY <1>1, <2>1, OneOfFour
<1> QED BY <1>2 DEF IsBoundary

LEMMA Floors ==
  ASSUME NEW s, Chained(s), NEW i \in 0..Len(s)
  PROVE  /\ FloorBoundary(s, i) \in 0..i /\ i < FloorBoundary(s, i) + 4
         /\ IsBoundary(s, FloorBoundary(s, i))
         /\ IsBoundary(s, i) => FloorBoundary(s, i) = i
<1> DEFINE T == {j \in 0..i : IsBoundary(s, j)}
           f == FloorBoundary(s, i)
<1>1. Len(s) \in Nat /\ i \in Nat
  BY PartsBounded
<1>2. \E j \in 0..i : IsBoundary(s, j) /\ \A k \in (j + 1)..i : ~IsBoundary(s, k)
  <2>1. 0 \in T
    BY <1>1 DEF IsBoundary
  <2>2. PICK j \in T : \A k \in T : k <= j
    BY <1>1, <2>1, LargestOf
  <2>3. \A k \in (j + 1)..i : ~IsBoundary(s, k)
    BY <1>1, <2>2
  <2> QED BY <2>2, <2>3
<1>3. f \in 0..i /\ IsBoundary(s, f) /\ \A k \in (f + 1)..i : ~IsBoundary(s, k)
  BY <1>2 DEF FloorBoundary
<1> HIDE DEF f
<1>4. i < f + 4
  <2> SUFFICES ASSUME f + 4 <= i PROVE FALSE
    BY <1>1, <1>3
  <2>1. CASE i = Len(s)
    BY <1>1, <1>3, <2>1 DEF IsBoundary
  <2>2. CASE i # Len(s)
    <3>1. i - 3 \in Nat /\ (i - 3) + 3 < Len(s)
      BY <1>1, <1>3, <2>2
    <3>2. PICK j \in (i - 3)..((i - 3) + 3) : IsBoundary(s, j)
      BY <3>1, BoundaryNear
    <3>3. j \in (f + 1)..i
      BY <1>1, <1>3, <3>2
    <3> QED BY <1>3, <3>2, <3>3
  <2> QED BY <2>1, <2>2
<1>5. IsBoundary(s, i) => f = i
  <2> SUFFICES ASSUME IsBoundary(s, i), f # i PROVE FALSE
    OBVIOUS
  <2>1. i \in (f + 1)..i
    BY <1>1, <1>3
  <2> QED BY <1>3, <2>1
<1> QED BY <1>3, <1>4, <1>5 DEF f

LEMMA Ceils ==
  ASSUME NEW s, Chained(s), NEW i \in 0..Len(s)
  PROVE  /\ CeilBoundary(s, i) \in i..Len(s) /\ CeilBoundary(s, i) < i + 4
         /\ IsBoundary(s, i) => CeilBoundary(s, i) = i
<1> DEFINE T == {j \in i..Len(s) : IsBoundary(s, j)}
           c == CeilBoundary(s, i)
<1>1. Len(s) \in Nat /\ i \in Nat
  BY PartsBounded
<1>2. \E j \in i..Len(s) : IsBoundary(s, j) /\ \A k \in i..(j - 1) : ~IsBoundary(s, k)
  <2>1. Len(s) \in T
    BY <1>1 DEF IsBoundary
  <2>2. T \in SUBSET Nat
    BY <1>1
  <2>3. PICK j \in T : \A k \in T : j <= k
    BY <2>1, <2>2, SmallestOf
  <2>4. \A k \in i..(j - 1) : ~IsBoundary(s, k)
    BY <1>1, <2>3
  <2> QED BY <2>3, <2>4
<1>3. c \in i..Len(s) /\ \A k \in i..(c - 1) : ~IsBoundary(s, k)
  BY <1>2 DEF CeilBoundary
<1> HIDE DEF c
<1>4. c < i + 4
  <2> SUFFICES ASSUME i + 4 <= c PROVE FALSE
    BY <1>1, <1>3
  <2>1. i + 3 < Len(s)
    BY <1>1, <1>3
  <2>2. PICK j \in i..(i + 3) : IsBoundary(s, j)
    BY <1>1, <2>1, BoundaryNear
  <2>3. j \in i..(c - 1)
    BY <1>1, <1>3, <2>2
  <2> QED BY <1>3, <2>2, <2>3
<1>5. IsBoundary(s, i) => c = i
  <2> SUFFICES ASSUME IsBoundary(s, i), c # i PROVE FALSE
    OBVIOUS
  <2>1. i \in i..(c - 1)
    BY <1>1, <1>3
  <2> QED BY <1>3, <2>1
<1> QED BY <1>3, <1>4, <1>5 DEF c

(* What head_tail shows of a head and a tail.                              *)
Cut(head, tail, total, max, shown, front, fromHead, fromTail) ==
  /\ front \in 0..fromHead /\ fromHead \in 0..Len(head) /\ fromTail \in 0..Len(tail)
  /\ shown.front = SubSeq(head, 1, front)
  /\ shown.middle = SubSeq(head, fromHead + 1, Len(head))
  /\ shown.back = SubSeq(tail, fromTail + 1, Len(tail))
  /\ front + (Len(head) - fromHead) + (Len(tail) - fromTail) <= max
  /\ shown.cut = Monus(total, front + (Len(head) - fromHead) + (Len(tail) - fromTail))
  /\ fromHead < Len(head) => total <= Len(head) + Len(tail)
  /\ fromTail > 0 => Len(head) - fromHead < 4
  /\ max >= 8 =>
       /\ Len(head) > 0 => front > 0 \/ fromHead = 0
       /\ Len(tail) > 0 => fromTail < Len(tail)
       /\ Len(tail) = 0 /\ Len(head) > 0 /\ total <= Len(head) => fromHead < Len(head) \/ front = Len(head)

LEMMA Cutting ==
  ASSUME NEW head, Chained(head), NEW tail, Chained(tail), NEW total \in Nat, NEW max \in Nat
  PROVE  \E front, fromHead, fromTail \in Nat :
           Cut(head, tail, total, max, HeadTail(head, tail, total, max), front, fromHead, fromTail)
<1> DEFINE hl == Len(head)
           tl == Len(tail)
           gap == Monus(total, hl + tl)
           half == max \div 2
           front == FloorBoundary(head, Least(half, hl))
           fromTail == CeilBoundary(tail, Monus(tl, max - front))
           budget == (max - front) - (tl - fromTail)
           fromHead == FromHead(head, front, gap, budget)
           shown == HeadTail(head, tail, total, max)
<1>1. hl \in Nat /\ tl \in Nat /\ half \in Nat /\ 2 * half <= max /\ max <= 2 * half + 1
  <2>1. half \in Nat /\ 2 * half <= max /\ max <= 2 * half + 1
    OBVIOUS
  <2> HIDE DEF half
  <2> QED BY <2>1, PartsBounded
<1>2. gap \in Nat /\ (gap = 0 <=> total <= hl + tl)
  BY <1>1 DEF Monus, Most
<1>3. CASE gap = 0 /\ hl + tl <= max
  <2>1. shown = [front |-> <<>>, cut |-> 0, middle |-> head, back |-> tail]
    BY <1>3 DEF HeadTail
  <2>2. SubSeq(head, 1, 0) = <<>>
    BY SubSeqEmpty
  <2>3. SubSeq(head, 0 + 1, hl) = head /\ SubSeq(tail, 0 + 1, tl) = tail
    BY SubSeqFull DEF Chained
  <2>4. Monus(total, 0 + (hl - 0) + (tl - 0)) = 0
    BY <1>1, <1>2, <1>3 DEF Monus, Most
  <2>5. shown.front = <<>> /\ shown.cut = 0 /\ shown.middle = head /\ shown.back = tail
    BY <2>1
  <2> HIDE DEF shown
  <2>6. Cut(head, tail, total, max, shown, 0, 0, 0)
    BY <1>1, <1>2, <1>3, <2>2, <2>3, <2>4, <2>5 DEF Cut
  <2> QED BY <2>6 DEF shown
<1>4. CASE ~(gap = 0 /\ hl + tl <= max)
  <2>1. shown = [front |-> First_(head, front),
                 cut |-> Monus(total, front + (hl - fromHead) + (tl - fromTail)),
                 middle |-> SubSeq(head, fromHead + 1, hl), back |-> SubSeq(tail, fromTail + 1, tl)]
    BY <1>4 DEF HeadTail
  <2>2. /\ shown.front = First_(head, front)
        /\ shown.cut = Monus(total, front + (hl - fromHead) + (tl - fromTail))
        /\ shown.middle = SubSeq(head, fromHead + 1, hl) /\ shown.back = SubSeq(tail, fromTail + 1, tl)
    <3> HIDE DEF shown, hl, tl, gap, half, front, fromTail, budget, fromHead
    <3> QED BY <2>1
  <2> HIDE DEF shown, hl, tl, gap, half
  <2>3. Least(half, hl) \in 0..hl /\ Least(half, hl) <= half /\ (Least(half, hl) = half \/ Least(half, hl) = hl)
    BY <1>1 DEF Least
  <2>4. front \in 0..Least(half, hl) /\ Least(half, hl) < front + 4
    BY <2>3, Floors DEF hl
  <2> DEFINE room == max - front
             at == Monus(tl, room)
  <2>5. front \in Nat /\ front <= hl /\ front <= half
    BY <1>1, <2>3, <2>4
  <2>6. front > 0 \/ hl = 0 \/ half < 4
    <3>1. CASE Least(half, hl) = hl
      <4>1. IsBoundary(head, hl)
        BY <1>1 DEF IsBoundary, hl
      <4>2. front = hl
        BY <2>3, <3>1, <4>1, Floors DEF hl
      <4> HIDE DEF front
      <4> QED BY <1>1, <4>2
    <3>2. CASE Least(half, hl) = half
      <4> HIDE DEF front
      <4> QED BY <1>1, <2>3, <2>4, <3>2
    <3> QED BY <2>3, <3>1, <3>2
  <2>19. IsBoundary(head, front)
    BY <2>3, Floors DEF hl
  <2> HIDE DEF front
  <2>7. room \in Nat /\ 2 * room >= max /\ at \in 0..tl /\ (at = 0 \/ at = tl - room)
    BY <1>1, <2>5 DEF Monus, Most
  <2>8. fromTail \in at..tl /\ fromTail < at + 4 /\ (at = 0 => fromTail = 0)
    <3>1. at \in 0..Len(tail)
      BY <2>7 DEF tl
    <3>2. at = 0 => IsBoundary(tail, at)
      BY DEF IsBoundary
    <3> HIDE DEF at
    <3>3. CeilBoundary(tail, at) \in at..Len(tail) /\ CeilBoundary(tail, at) < at + 4
          /\ (IsBoundary(tail, at) => CeilBoundary(tail, at) = at)
      BY <3>1, Ceils
    <3> QED BY <3>2, <3>3 DEF at, tl
  <2> HIDE DEF fromTail, room
  <2>9. fromTail \in 0..tl /\ tl - fromTail <= room /\ (fromTail > 0 => at = tl - room)
    BY <1>1, <2>7, <2>8 DEF Monus, Most
  <2>10. budget \in Nat /\ budget = room - (tl - fromTail)
    BY <1>1, <2>7, <2>9 DEF room
  <2>11. fromTail > 0 => budget < 4
    BY <1>1, <2>7, <2>8, <2>9, <2>10
  <2>12. max >= 8 /\ tl > 0 => fromTail < tl
    BY <1>1, <2>7, <2>8, <2>9
  <2>13. max >= 8 /\ tl = 0 => budget >= 4
    BY <1>1, <2>7, <2>9, <2>10
  <2> HIDE DEF budget, at
  <2> DEFINE low == Most(Monus(hl, budget), front)
  <2>14. low \in 0..hl /\ low >= front /\ (low = front \/ low = hl - budget) /\ hl - low <= budget
    BY <1>1, <2>5, <2>10 DEF Most, Monus
  <2>15. /\ fromHead \in front..hl /\ hl - fromHead <= budget
         /\ fromHead < hl => gap = 0
         /\ gap = 0 /\ budget >= 4 => fromHead < hl \/ front = hl
    <3>1. CASE gap = 0 /\ budget > 0
      <4>1. fromHead = CeilBoundary(head, low)
        BY <3>1 DEF FromHead, hl
      <4> HIDE DEF low, fromHead
      <4>2. CeilBoundary(head, low) \in low..hl /\ CeilBoundary(head, low) < low + 4
            /\ (IsBoundary(head, low) => CeilBoundary(head, low) = low)
        BY <2>14, Ceils DEF hl
      <4>3. CASE low = front
        BY <1>1, <2>5, <2>10, <2>14, <2>19, <3>1, <4>1, <4>2, <4>3
      <4>4. CASE low = hl - budget
        BY <1>1, <2>5, <2>10, <2>14, <3>1, <4>1, <4>2, <4>4
      <4> QED BY <2>14, <4>3, <4>4
    <3>2. CASE ~(gap = 0 /\ budget > 0)
      <4>1. fromHead = hl
        BY <3>2 DEF FromHead, hl
      <4> HIDE DEF fromHead
      <4> QED BY <1>1, <1>2, <2>5, <2>10, <3>2, <4>1
    <3> QED BY <3>1, <3>2
  <2> HIDE DEF fromHead
  <2>16. shown.front = SubSeq(head, 1, front)
    BY <1>1, <2>2, <2>5 DEF First_, Least, hl
  <2>17. front + (hl - fromHead) + (tl - fromTail) <= max
    BY <1>1, <2>5, <2>9, <2>10, <2>15 DEF room
  <2>18. Cut(head, tail, total, max, shown, front, fromHead, fromTail)
    <3>1. front \in 0..fromHead /\ fromHead \in 0..hl
      BY <1>1, <2>5, <2>15
    <3>2. fromHead < hl => total <= hl + tl
      BY <1>2, <2>15
    <3>3. fromTail > 0 => hl - fromHead < 4
      BY <1>1, <2>5, <2>10, <2>11, <2>15
    <3>4. max >= 8 =>
            /\ hl > 0 => front > 0 \/ fromHead = 0
            /\ tl > 0 => fromTail < tl
            /\ tl = 0 /\ hl > 0 /\ total <= hl => fromHead < hl \/ front = hl
      <4>1. max >= 8 => half >= 4
        BY <1>1
      <4>2. tl = 0 /\ total <= hl => gap = 0
        BY <1>1, <1>2
      <4> QED BY <1>1, <2>6, <2>12, <2>13, <2>15, <4>1, <4>2
    <3> QED BY <2>2, <2>9, <2>16, <2>17, <3>1, <3>2, <3>3, <3>4 DEF Cut, hl, tl
  <2>20. front \in Nat /\ fromHead \in Nat /\ fromTail \in Nat
    BY <1>1, <2>5, <2>9, <2>15
  <2> QED BY <2>18, <2>20 DEF shown
<1> QED BY <1>3, <1>4

-----------------------------------------------------------------------------
(* What is shown of a head and a tail that are text.                       *)

LEMMA Pieces ==
  ASSUME NEW s \in Seq(ByteSet), NEW m \in Nat, NEW n \in Nat, 1 <= m, m <= n + 1, n <= Len(s)
  PROVE  /\ SubSeq(s, m, n) \in Seq(ByteSet) /\ Len(SubSeq(s, m, n)) = n - m + 1
         /\ \A i \in 1..(n - m + 1) : SubSeq(s, m, n)[i] = s[m + i - 1]
<1>1. Len(s) \in Nat
  BY LenProperties
<1>2. \A i \in m..n : i \in 1..Len(s)
  BY <1>1
<1>3. \A i \in m..n : s[i] \in ByteSet
  BY <1>2, ElementOfSeq
<1>4. m \in Int /\ n \in Int
  OBVIOUS
<1>5. /\ SubSeq(s, m, n) \in Seq(ByteSet)
      /\ Len(SubSeq(s, m, n)) = IF m <= n THEN n - m + 1 ELSE 0
      /\ \A i \in 1..(n - m + 1) : SubSeq(s, m, n)[i] = s[m + i - 1]
  BY <1>3, <1>4, SubSeqProperties
<1> QED BY <1>5

LEMMA ChainedPieces ==
  ASSUME NEW s, Chained(s), NEW m \in Nat, NEW n \in Nat, 1 <= m, m <= n + 1, n <= Len(s)
  PROVE  Chained(SubSeq(s, m, n))
<1> DEFINE t == SubSeq(s, m, n)
<1>1. t \in Seq(ByteSet) /\ Len(t) = n - m + 1 /\ \A i \in 1..(n - m + 1) : t[i] = s[m + i - 1]
  BY Pieces DEF Chained
<1> HIDE DEF t
<1>2. Len(s) \in Nat
  BY PartsBounded
<1>3. ASSUME NEW i \in 1..(Len(t) - 1)
      PROVE  \/ t[i + 1].char = t[i].char /\ t[i + 1].part = t[i].part + 1
             \/ t[i + 1].char = t[i].char + 1 /\ t[i + 1].part = 1
  <2> DEFINE j == m + i - 1
  <2>1. j \in 1..(Len(s) - 1) /\ i \in 1..(n - m + 1) /\ i + 1 \in 1..(n - m + 1) /\ m + (i + 1) - 1 = j + 1
    BY <1>1, <1>2
  <2>2. t[i] = s[j] /\ t[i + 1] = s[j + 1]
    <3>1. t[i] = s[m + i - 1] /\ t[i + 1] = s[m + (i + 1) - 1]
      BY <1>1, <2>1
    <3> QED BY <2>1, <3>1
  <2> HIDE DEF j
  <2> QED BY <2>1, <2>2 DEF Chained
<1>4. Chained(t)
  BY <1>1, <1>3 DEF Chained
<1> QED BY <1>4 DEF t

Side(a, b) ==
  /\ a.char <= b.char
  /\ LET gone == Missing(a, b) IN gone = {} \/ \E k \in gone : gone = {k} /\ widths[k] = 1

LEMMA ChainedSide ==
  ASSUME NEW s, Chained(s)
  PROVE  SideBySide(s)
<1>1. Len(s) \in Nat /\ \A i \in 1..Len(s) : s[i].char \in Nat
  BY PartsBounded
<1>2. ASSUME NEW i \in 1..(Len(s) - 1) PROVE s[i].char <= s[i + 1].char /\ Missing(s[i], s[i + 1]) = {}
  <2>1. i \in 1..Len(s) /\ i + 1 \in 1..Len(s)
    BY <1>1
  <2>2. s[i].char \in Nat /\ s[i + 1].char \in Nat
    BY <1>1, <2>1
  <2>3. s[i + 1].char = s[i].char \/ s[i + 1].char = s[i].char + 1
    BY DEF Chained
  <2>4. \A k \in Int : ~(k \in (s[i].char + 1)..(s[i + 1].char - 1))
    BY <2>2, <2>3
  <2> QED BY <2>2, <2>3, <2>4 DEF Missing
<1> QED BY <1>2 DEF SideBySide

(* Two pieces side by side where they meet.                                *)
LEMMA JoinedSide ==
  ASSUME NEW s, Chained(s), NEW t, Chained(t),
         Len(s) > 0 /\ Len(t) > 0 => Side(s[Len(s)], t[1])
  PROVE  SideBySide(s \o t)
<1>1. Len(s) \in Nat /\ Len(t) \in Nat
  BY PartsBounded
<1>2. Len(s \o t) = Len(s) + Len(t)
      /\ \A i \in 1..(Len(s) + Len(t)) : (s \o t)[i] = IF i <= Len(s) THEN s[i] ELSE t[i - Len(s)]
  BY ConcatProperties DEF Chained
<1>3. SideBySide(s) /\ SideBySide(t)
  BY ChainedSide
<1> DEFINE u == s \o t
<1> HIDE DEF u
<1>4. ASSUME NEW i \in 1..(Len(u) - 1) PROVE Side(u[i], u[i + 1])
  <2>1. CASE i < Len(s)
    <3>1. i \in 1..(Len(s) - 1)
      BY <1>1, <2>1
    <3>2. u[i] = s[i] /\ u[i + 1] = s[i + 1]
      BY <1>1, <1>2, <2>1 DEF u
    <3> QED BY <1>3, <3>1, <3>2 DEF SideBySide, Side
  <2>2. CASE i = Len(s)
    <3>1. i + 1 - Len(s) = 1 /\ Len(s) > 0 /\ Len(t) > 0
      BY <1>1, <1>2, <2>2 DEF u
    <3>2. u[i] = s[Len(s)] /\ u[i + 1] = t[1]
      BY <1>1, <1>2, <2>2, <3>1 DEF u
    <3> QED BY <3>1, <3>2
  <2>3. CASE i > Len(s)
    <3> DEFINE j == i - Len(s)
    <3>1. j \in 1..(Len(t) - 1) /\ i + 1 - Len(s) = j + 1
      BY <1>1, <1>2, <2>3 DEF u
    <3>2. u[i] = t[j] /\ u[i + 1] = t[j + 1]
      BY <1>1, <1>2, <2>3, <3>1, SMTT(30) DEF u
    <3> HIDE DEF j
    <3> QED BY <1>3, <3>1, <3>2 DEF SideBySide, Side
  <2> QED BY <1>1, <2>1, <2>2, <2>3
<1>5. SideBySide(u)
  BY <1>4 DEF SideBySide, Side
<1> QED BY <1>5 DEF u

WellShown(head, tail, total, max, shown, all) ==
  /\ Len(all) <= max /\ shown.cut = Monus(total, Len(all))
  /\ SideBySide(shown.front)
  /\ \/ shown.back = tail /\ SideBySide(shown.middle \o shown.back)
     \/ shown.back # tail /\ Len(shown.middle) < Widest /\ SideBySide(shown.back)
  /\ max >= 8 /\ Len(head) > 0 => all[1] = head[1]
  /\ max >= 8 /\ Len(tail) > 0 => Last(all) = tail[Len(tail)]
  /\ max >= 8 /\ Len(tail) = 0 /\ Len(head) > 0 /\ total <= Len(head) => Last(all) = head[Len(head)]

LEMMA ShownOf ==
  ASSUME NEW head, Chained(head), NEW tail, Chained(tail), NEW total \in Nat, NEW max \in Nat,
         Len(head) > 0 /\ Len(tail) > 0 /\ total <= Len(head) + Len(tail) => Side(head[Len(head)], tail[1]),
         NEW shown, shown = HeadTail(head, tail, total, max),
         NEW all, all = shown.front \o shown.middle \o shown.back
  PROVE  WellShown(head, tail, total, max, shown, all)
<1> DEFINE hl == Len(head)
           tl == Len(tail)
<1>1. PICK front, fromHead, fromTail \in Nat : Cut(head, tail, total, max, shown, front, fromHead, fromTail)
  BY Cutting
<1>2. hl \in Nat /\ tl \in Nat /\ head \in Seq(ByteSet) /\ tail \in Seq(ByteSet)
  BY PartsBounded DEF Chained
<1>3. front <= fromHead /\ fromHead <= hl /\ fromTail <= tl
  BY <1>1, <1>2 DEF Cut
<1>4. /\ Chained(shown.front) /\ Len(shown.front) = front /\ shown.front \in Seq(ByteSet)
      /\ \A i \in 1..front : shown.front[i] = head[i]
  <2>1. shown.front = SubSeq(head, 1, front)
    BY <1>1 DEF Cut
  <2>2. Chained(shown.front)
    BY <1>2, <1>3, <2>1, ChainedPieces
  <2>3. Len(shown.front) = front - 1 + 1 /\ \A i \in 1..(front - 1 + 1) : shown.front[i] = head[1 + i - 1]
    BY <1>2, <1>3, <2>1, Pieces
  <2> QED BY <2>2, <2>3 DEF Chained
<1>5. /\ Chained(shown.middle) /\ Len(shown.middle) = hl - fromHead /\ shown.middle \in Seq(ByteSet)
      /\ \A i \in 1..(hl - fromHead) : shown.middle[i] = head[fromHead + i]
  <2>1. shown.middle = SubSeq(head, fromHead + 1, hl)
    BY <1>1 DEF Cut
  <2>2. Chained(shown.middle)
    BY <1>2, <1>3, <2>1, ChainedPieces
  <2>3. Len(shown.middle) = hl - (fromHead + 1) + 1
        /\ \A i \in 1..(hl - (fromHead + 1) + 1) : shown.middle[i] = head[(fromHead + 1) + i - 1]
    BY <1>2, <1>3, <2>1, Pieces
  <2>4. hl - (fromHead + 1) + 1 = hl - fromHead
    BY <1>2
  <2>5. \A i \in 1..(hl - fromHead) : (fromHead + 1) + i - 1 = fromHead + i
    BY <1>2
  <2> QED BY <2>2, <2>3, <2>4, <2>5 DEF Chained
<1>6. /\ Chained(shown.back) /\ Len(shown.back) = tl - fromTail /\ shown.back \in Seq(ByteSet)
      /\ \A i \in 1..(tl - fromTail) : shown.back[i] = tail[fromTail + i]
      /\ fromTail = 0 => shown.back = tail
  <2>1. shown.back = SubSeq(tail, fromTail + 1, tl)
    BY <1>1 DEF Cut
  <2>2. Chained(shown.back)
    BY <1>2, <1>3, <2>1, ChainedPieces
  <2>3. Len(shown.back) = tl - (fromTail + 1) + 1
        /\ \A i \in 1..(tl - (fromTail + 1) + 1) : shown.back[i] = tail[(fromTail + 1) + i - 1]
    BY <1>2, <1>3, <2>1, Pieces
  <2>4. tl - (fromTail + 1) + 1 = tl - fromTail
    BY <1>2
  <2>5. \A i \in 1..(tl - fromTail) : (fromTail + 1) + i - 1 = fromTail + i
    BY <1>2
  <2>6. fromTail = 0 => shown.back = tail
    BY <1>2, <2>1, SubSeqFull
  <2> QED BY <2>2, <2>3, <2>4, <2>5, <2>6 DEF Chained
<1> DEFINE most == shown.front \o shown.middle
           f == Len(shown.front)
           g == Len(shown.middle)
           b == Len(shown.back)
<1>7. /\ most \in Seq(ByteSet) /\ Len(most) = f + g
      /\ \A i \in 1..(f + g) : most[i] = IF i <= f THEN shown.front[i] ELSE shown.middle[i - f]
  <2>1. shown.front \in Seq(ByteSet) /\ shown.middle \in Seq(ByteSet)
    BY <1>4, <1>5
  <2>2. /\ most \in Seq(ByteSet) /\ Len(most) = Len(shown.front) + Len(shown.middle)
        /\ \A i \in 1..(Len(shown.front) + Len(shown.middle)) :
             most[i] = IF i <= Len(shown.front) THEN shown.front[i] ELSE shown.middle[i - Len(shown.front)]
    BY <2>1, ConcatProperties, ZenonT(30)
  <2> QED BY <2>2
<1>8. /\ all \in Seq(ByteSet) /\ Len(all) = f + g + b
      /\ \A i \in 1..(f + g + b) : all[i] = IF i <= f + g THEN most[i] ELSE shown.back[i - (f + g)]
  <2>1. all = most \o shown.back
    OBVIOUS
  <2> HIDE DEF most
  <2>2. /\ most \o shown.back \in Seq(ByteSet) /\ Len(most \o shown.back) = Len(most) + b
        /\ \A i \in 1..(Len(most) + b) : (most \o shown.back)[i] = IF i <= Len(most) THEN most[i]
                                                                   ELSE shown.back[i - Len(most)]
    <3>1. most \in Seq(ByteSet) /\ shown.back \in Seq(ByteSet)
      BY <1>6, <1>7
    <3> QED BY <3>1, ConcatProperties
  <2> QED BY <1>7, <2>1, <2>2
<1> HIDE DEF most
<1>9. f = front /\ g = hl - fromHead /\ b = tl - fromTail
  BY <1>4, <1>5, <1>6
<1>10. Len(all) <= max /\ shown.cut = Monus(total, Len(all))
  BY <1>1, <1>8, <1>9 DEF Cut
<1>11. SideBySide(shown.front)
  BY <1>4, ChainedSide
<1>12. \/ shown.back = tail /\ SideBySide(shown.middle \o shown.back)
       \/ shown.back # tail /\ Len(shown.middle) < Widest /\ SideBySide(shown.back)
  <2>1. CASE fromTail = 0
    <3>1. ASSUME g > 0, b > 0 PROVE Side(shown.middle[g], shown.back[1])
      <4>1. fromHead < hl /\ tl > 0
        BY <1>2, <1>3, <1>9, <2>1, <3>1
      <4>2. total <= hl + tl
        BY <1>1, <4>1 DEF Cut
      <4>3. g \in 1..(hl - fromHead) /\ fromHead + g = hl /\ 1 \in 1..(tl - fromTail) /\ fromTail + 1 = 1 /\ hl > 0
        BY <1>2, <1>3, <1>9, <2>1, <4>1
      <4>4. shown.middle[g] = head[hl] /\ shown.back[1] = tail[1]
        <5>1. shown.middle[g] = head[fromHead + g]
          BY <1>5, <4>3
        <5>2. shown.back[1] = tail[fromTail + 1]
          BY <1>6, <4>3
        <5> QED BY <4>3, <5>1, <5>2
      <4> QED BY <4>1, <4>2, <4>3, <4>4
    <3> QED BY <1>5, <1>6, <2>1, <3>1, JoinedSide
  <2>2. CASE fromTail > 0
    <3>1. shown.back # tail
      BY <1>2, <1>3, <1>9, <2>2
    <3>2. g < Widest
      BY <1>1, <1>9, <2>2 DEF Cut, Widest
    <3> QED BY <1>6, <3>1, <3>2, ChainedSide
  <2> QED BY <2>1, <2>2
<1>13. ASSUME max >= 8, hl > 0 PROVE all[1] = head[1]
  <2>1. front > 0 \/ fromHead = 0
    BY <1>1, <1>13 DEF Cut
  <2>2. CASE front > 0
    <3>1. 1 \in 1..(f + g + b) /\ 1 <= f + g /\ 1 \in 1..(f + g) /\ 1 <= f /\ 1 \in 1..front
      BY <1>2, <1>3, <1>9, <2>2
    <3>2. all[1] = most[1]
      BY <1>8, <3>1
    <3>3. most[1] = shown.front[1]
      BY <1>7, <3>1
    <3> QED BY <1>4, <3>1, <3>2, <3>3
  <2>3. CASE front = 0 /\ fromHead = 0
    <3>1. 1 \in 1..(f + g + b) /\ 1 <= f + g /\ 1 \in 1..(f + g) /\ ~(1 <= f) /\ 1 - f = 1 /\ 1 \in 1..(hl - fromHead)
          /\ fromHead + 1 = 1
      BY <1>2, <1>3, <1>9, <1>13, <2>3
    <3>2. all[1] = most[1]
      BY <1>8, <3>1
    <3>3. most[1] = shown.middle[1]
      BY <1>7, <3>1
    <3>4. shown.middle[1] = head[fromHead + 1]
      BY <1>5, <3>1
    <3> QED BY <3>1, <3>2, <3>3, <3>4
  <2>4. front > 0 \/ (front = 0 /\ fromHead = 0)
    <3>1. front \in Nat /\ fromHead \in Nat
      OBVIOUS
    <3> QED BY <1>3, <2>1, <3>1
  <2> QED BY <2>2, <2>3, <2>4
<1>14. ASSUME max >= 8, tl > 0 PROVE Last(all) = tail[tl]
  <2>1. fromTail < tl
    BY <1>1, <1>14 DEF Cut
  <2> DEFINE e == f + g + b
  <2>2. e \in 1..e /\ ~(e <= f + g) /\ e - (f + g) = b /\ b \in 1..(tl - fromTail) /\ fromTail + b = tl
    BY <1>2, <1>3, <1>9, <2>1
  <2>3. all[e] = tail[tl]
    <3>1. all[e] = shown.back[b]
      BY <1>8, <2>2
    <3> QED BY <1>6, <2>2, <3>1
  <2> QED BY <1>8, <2>3 DEF Last
<1>15. ASSUME max >= 8, tl = 0, hl > 0, total <= hl PROVE Last(all) = head[hl]
  <2>1. fromHead < hl \/ front = hl
    BY <1>1, <1>15 DEF Cut
  <2>2. b = 0 /\ Len(all) = f + g
    BY <1>2, <1>3, <1>8, <1>9, <1>15
  <2> DEFINE e == f + g
  <2>3. CASE fromHead < hl
    <3>1. e \in 1..(f + g + b) /\ e <= f + g /\ e \in 1..(f + g) /\ ~(e <= f) /\ e - f = g /\ g \in 1..(hl - fromHead)
          /\ fromHead + g = hl
      BY <1>2, <1>3, <1>9, <2>2, <2>3
    <3>2. all[e] = most[e]
      BY <1>8, <3>1
    <3>3. most[e] = shown.middle[g]
      BY <1>7, <3>1
    <3> QED BY <1>5, <2>2, <3>1, <3>2, <3>3 DEF Last
  <2>4. CASE fromHead = hl /\ front = hl
    <3>1. e = hl /\ e \in 1..(f + g + b) /\ e <= f + g /\ e \in 1..(f + g) /\ e <= f /\ e \in 1..front
      BY <1>2, <1>3, <1>9, <1>15, <2>2, <2>4
    <3>2. all[e] = most[e]
      BY <1>8, <3>1
    <3>3. most[e] = shown.front[e]
      BY <1>7, <3>1
    <3> QED BY <1>4, <2>2, <3>1, <3>2, <3>3 DEF Last
  <2> QED BY <1>2, <1>3, <2>1, <2>3, <2>4
<1> QED BY <1>10, <1>11, <1>12, <1>13, <1>14, <1>15 DEF WellShown

-----------------------------------------------------------------------------
(* What the capture has of the stream, however it came in messages.        *)

WindowSize == Least(TailKeep, Most(MaxCapture, 1))

(* s is the bytes of b from the o-th on.                                   *)
Slice(s, b, o) == s \in Seq(ByteSet) /\ \A i \in 1..Len(s) : s[i] = b[o + i]

Held(c, b, r) ==
  /\ c.total = r
  /\ Len(c.head) = Least(r, MaxCapture) /\ Slice(c.head, b, 0)
  /\ Len(c.tail) = Least(Monus(r, MaxCapture), WindowSize) /\ Slice(c.tail, b, r - Len(c.tail))

LEMMA Pushed ==
  ASSUME NEW b \in Seq(ByteSet), NEW r \in Nat, NEW n \in Nat \ {0}, r + n <= Len(b), NEW c, Held(c, b, r)
  PROVE  Held(Push(c, SubSeq(b, r + 1, r + n)), b, r + n)
<1> DEFINE data == SubSeq(b, r + 1, r + n)
           h == Len(c.head)
           t == Len(c.tail)
           room == Monus(MaxCapture, h)
           rest == SubSeq(data, room + 1, Len(data))
           lead == First_(data, room)
           joined == c.tail \o rest
           after == Push(c, data)
           m == MaxCapture
           k == WindowSize
<1>1. m \in Nat /\ k \in Nat /\ Len(b) \in Nat
  BY CaptureAssumption, LenProperties DEF WindowSize, Least, Most
<1>2. h \in Nat /\ t \in Nat /\ c.head \in Seq(ByteSet) /\ c.tail \in Seq(ByteSet)
  BY LenProperties DEF Held, Slice
<1>3. h = Least(r, m) /\ t = Least(Monus(r, m), k) /\ c.total = r
  BY DEF Held
<1>4. after = [head |-> c.head \o lead, total |-> c.total + Len(data), tail |-> Last_(joined, k)]
  BY DEF Push, WindowSize
<1>5. data \in Seq(ByteSet) /\ Len(data) = n /\ \A i \in 1..n : data[i] = b[r + i]
  <2>1. Len(data) = (r + n) - (r + 1) + 1 /\ data \in Seq(ByteSet)
        /\ \A i \in 1..((r + n) - (r + 1) + 1) : data[i] = b[(r + 1) + i - 1]
    BY <1>1, Pieces
  <2>2. (r + n) - (r + 1) + 1 = n /\ \A i \in 1..n : (r + 1) + i - 1 = r + i
    OBVIOUS
  <2> HIDE DEF data
  <2> QED BY <2>1, <2>2
<1>6. after.head = c.head \o lead /\ after.total = r + n /\ after.tail = Last_(joined, k)
  <2> HIDE DEF data, lead, joined, after
  <2> QED BY <1>3, <1>4, <1>5
<1> HIDE DEF data, after, m, k, h, t
<1>7. room \in Nat /\ room = IF r < m THEN m - r ELSE 0
  BY <1>1, <1>3 DEF Monus, Most, Least, m
<1> HIDE DEF room
<1>8. lead \in Seq(ByteSet) /\ Len(lead) = Least(room, n) /\ \A i \in 1..Len(lead) : lead[i] = b[r + i]
  <2> DEFINE l == Least(room, n)
  <2>1. l \in Nat /\ l <= n
    BY <1>7 DEF Least
  <2>2. lead = SubSeq(data, 1, l)
    BY <1>5 DEF First_
  <2> HIDE DEF l, lead
  <2>3. lead \in Seq(ByteSet) /\ Len(lead) = l - 1 + 1 /\ \A i \in 1..(l - 1 + 1) : lead[i] = data[1 + i - 1]
    BY <1>5, <2>1, <2>2, Pieces
  <2>4. l - 1 + 1 = l /\ \A i \in 1..l : 1 + i - 1 = i /\ i \in 1..n
    BY <2>1
  <2> QED BY <1>5, <2>3, <2>4 DEF l
<1> HIDE DEF lead
<1>9. /\ after.head \in Seq(ByteSet) /\ Len(after.head) = Least(r + n, m)
      /\ \A i \in 1..Len(after.head) : after.head[i] = b[0 + i]
  <2>1. /\ after.head \in Seq(ByteSet) /\ Len(after.head) = h + Len(lead)
        /\ \A i \in 1..(h + Len(lead)) : after.head[i] = IF i <= h THEN c.head[i] ELSE lead[i - h]
    <3>1. c.head \in Seq(ByteSet) /\ lead \in Seq(ByteSet)
      BY <1>2, <1>8
    <3>2. /\ c.head \o lead \in Seq(ByteSet) /\ Len(c.head \o lead) = Len(c.head) + Len(lead)
          /\ \A i \in 1..(Len(c.head) + Len(lead)) :
               (c.head \o lead)[i] = IF i <= Len(c.head) THEN c.head[i] ELSE lead[i - Len(c.head)]
      BY <3>1, ConcatProperties
    <3> QED BY <1>6, <3>2 DEF h
  <2>2. Len(after.head) = Least(r + n, m)
    BY <1>1, <1>3, <1>7, <1>8, <2>1 DEF Least
  <2>3. ASSUME NEW i \in 1..(h + Len(lead)) PROVE after.head[i] = b[0 + i]
    <3>1. CASE i <= h
      <4>1. i \in 1..Len(c.head)
        BY <1>2, <3>1 DEF h
      <4>2. c.head[i] = b[0 + i]
        BY <4>1 DEF Held, Slice
      <4> QED BY <2>1, <3>1, <4>2
    <3>2. CASE i > h
      <4>1. Len(lead) \in Nat
        BY <1>7, <1>8 DEF Least
      <4>2. i - h \in 1..Len(lead) /\ ~(i <= h)
        BY <1>2, <3>2, <4>1
      <4>3. h = r
        BY <1>1, <1>3, <1>7, <1>8, <4>2 DEF Least
      <4>4. after.head[i] = lead[i - h]
        BY <2>1, <4>2
      <4>5. lead[i - h] = b[r + (i - h)] /\ r + (i - h) = 0 + i
        BY <1>8, <4>2, <4>3
      <4> QED BY <4>4, <4>5
    <3>3. h + Len(lead) \in Nat
      BY <1>2, <1>7, <1>8 DEF Least
    <3> QED BY <1>2, <3>1, <3>2, <3>3
  <2> QED BY <2>1, <2>2, <2>3
<1>10. rest \in Seq(ByteSet) /\ Len(rest) = Monus(n, room) /\ \A i \in 1..Len(rest) : rest[i] = b[r + room + i]
  <2>1. CASE room <= n
    <3>0. rest = SubSeq(data, room + 1, n)
      BY <1>5
    <3> HIDE DEF rest
    <3>1. rest \in Seq(ByteSet) /\ Len(rest) = n - (room + 1) + 1
          /\ \A i \in 1..(n - (room + 1) + 1) : rest[i] = data[(room + 1) + i - 1]
      <4>1. data \in Seq(ByteSet) /\ n <= Len(data) /\ n \in Nat
        BY <1>5
      <4>2. room + 1 \in Nat /\ 1 <= room + 1 /\ room + 1 <= n + 1
        BY <1>7, <2>1
      <4> QED BY <3>0, <4>1, <4>2, Pieces
    <3>2. n - (room + 1) + 1 = n - room /\ Monus(n, room) = n - room
      BY <1>7, <2>1 DEF Monus, Most
    <3>3. ASSUME NEW i \in 1..(n - room) PROVE rest[i] = b[r + room + i]
      <4>1. (room + 1) + i - 1 = room + i /\ room + i \in 1..n /\ r + (room + i) = r + room + i
        BY <1>7, <2>1
      <4>2. rest[i] = data[room + i]
        BY <3>1, <3>2, <4>1
      <4>3. data[room + i] = b[r + (room + i)]
        BY <1>5, <4>1
      <4> QED BY <4>1, <4>2, <4>3
    <3> QED BY <3>1, <3>2, <3>3
  <2>2. CASE room > n
    <3>1. rest = <<>>
      BY <1>5, <1>7, <2>2, SubSeqEmpty
    <3> HIDE DEF rest
    <3>2. Monus(n, room) = 0
      BY <1>7, <2>2 DEF Monus, Most
    <3> QED BY <3>1, <3>2, EmptySeq
  <2>3. room <= n \/ room > n
    BY <1>7
  <2> QED BY <2>1, <2>2, <2>3
<1> HIDE DEF rest
<1> DEFINE u == Len(rest)
           j == Len(joined)
<1>11. u \in Nat /\ u = Monus(n, room)
  BY <1>7, <1>10 DEF Monus, Most
<1>12. joined \in Seq(ByteSet) /\ j = t + u
       /\ \A i \in 1..(t + u) : joined[i] = IF i <= t THEN c.tail[i] ELSE rest[i - t]
  <2>1. c.tail \in Seq(ByteSet) /\ rest \in Seq(ByteSet)
    BY <1>2, <1>10
  <2>2. /\ joined \in Seq(ByteSet) /\ Len(joined) = Len(c.tail) + Len(rest)
        /\ \A i \in 1..(Len(c.tail) + Len(rest)) :
             joined[i] = IF i <= Len(c.tail) THEN c.tail[i] ELSE rest[i - Len(c.tail)]
    BY <2>1, ConcatProperties, ZenonT(30)
  <2> QED BY <2>2 DEF t
<1> HIDE DEF joined, u
<1>13. /\ t > 0 => u = n
       /\ Least(t + u, k) = Least(Monus(r + n, m), k)
       /\ t = 0 /\ u > 0 => r + room + u = r + n
  BY <1>1, <1>2, <1>3, <1>7, <1>11 DEF Least, Monus, Most
<1>14. \A i \in 1..j : joined[i] = b[(r + n) - j + i]
  <2> TAKE i \in 1..j
  <2>1. CASE i <= t
    <3>1. i \in 1..Len(c.tail) /\ i \in 1..(t + u) /\ t > 0
      BY <1>2, <1>11, <1>12, <2>1 DEF t
    <3>2. c.tail[i] = b[(r - t) + i]
      BY <3>1 DEF Held, Slice, t
    <3>3. (r + n) - j + i = (r - t) + i
      BY <1>2, <1>11, <1>12, <1>13, <3>1
    <3>4. joined[i] = c.tail[i]
      BY <1>12, <2>1, <3>1
    <3> QED BY <3>2, <3>3, <3>4
  <2>2. CASE i > t
    <3>1. i - t \in 1..u /\ i \in 1..(t + u) /\ ~(i <= t)
      BY <1>2, <1>11, <1>12, <2>2
    <3>2. joined[i] = rest[i - t]
      BY <1>12, <3>1
    <3>3. rest[i - t] = b[r + room + (i - t)]
      BY <1>10, <3>1 DEF u
    <3>4. r + room + (i - t) = (r + n) - j + i
      <4>1. room + u = n
        BY <1>7, <1>11, <3>1 DEF Monus, Most
      <4>2. j = t + u
        BY <1>12
      <4>3. t \in Nat /\ room \in Nat /\ u \in Nat /\ i \in Int
        BY <1>2, <1>7, <1>11, <3>1
      <4> HIDE DEF j
      <4> QED BY <4>1, <4>2, <4>3
    <3> QED BY <3>2, <3>3, <3>4
  <2> QED BY <1>2, <1>11, <1>12, <2>1, <2>2
<1>15. j \in Nat
  BY <1>2, <1>11, <1>12
<1> HIDE DEF j
<1> DEFINE d == Monus(j, k)
<1>16. d \in Nat /\ d <= j /\ j - d = Least(j, k)
  BY <1>1, <1>15 DEF Monus, Most, Least
<1>17. after.tail = SubSeq(joined, d + 1, j)
  BY <1>6 DEF Last_, j
<1> HIDE DEF d
<1>18. after.tail \in Seq(ByteSet) /\ Len(after.tail) = j - d /\ \A i \in 1..(j - d) : after.tail[i] = joined[d + i]
  <2>1. /\ after.tail \in Seq(ByteSet) /\ Len(after.tail) = j - (d + 1) + 1
        /\ \A i \in 1..(j - (d + 1) + 1) : after.tail[i] = joined[(d + 1) + i - 1]
    BY <1>12, <1>15, <1>16, <1>17, Pieces DEF j
  <2>2. j - (d + 1) + 1 = j - d /\ \A i \in 1..(j - d) : (d + 1) + i - 1 = d + i
    BY <1>15, <1>16
  <2> QED BY <2>1, <2>2
<1>19. Len(after.tail) = Least(Monus(r + n, m), k)
  BY <1>12, <1>13, <1>16, <1>18
<1>20. \A i \in 1..Len(after.tail) : after.tail[i] = b[((r + n) - Len(after.tail)) + i]
  <2> TAKE i \in 1..Len(after.tail)
  <2>1. i \in 1..(j - d) /\ d + i \in 1..j
    BY <1>15, <1>16, <1>18
  <2>2. after.tail[i] = b[(r + n) - j + (d + i)]
    BY <1>14, <1>18, <2>1
  <2>3. (r + n) - j + (d + i) = ((r + n) - Len(after.tail)) + i
    BY <1>15, <1>16, <1>18
  <2> QED BY <2>2, <2>3
<1>21. Held(after, b, r + n)
  BY <1>6, <1>9, <1>18, <1>19, <1>20 DEF Held, Slice, m, k
<1> QED BY <1>21 DEF after, data

CaptureInv ==
  /\ widths \in Seq(1..Widest)
  /\ received \in Nat /\ received <= Len(Bytes(widths))
  /\ Held(capture, Bytes(widths), received)

LEMMA CaptureInvHolds == CaptureSpec => []CaptureInv
<1>1. CaptureInit => CaptureInv
  <2> SUFFICES ASSUME CaptureInit PROVE CaptureInv
    OBVIOUS
  <2> DEFINE b == Bytes(widths)
  <2>1. widths \in Seq(1..Widest) /\ received = 0 /\ capture = NewCapture
    BY DEF CaptureInit
  <2>2. b \in Seq(ByteSet)
    BY <2>1, StreamIsText DEF IsText
  <2> HIDE DEF b
  <2>3. Len(b) \in Nat /\ Len(b) >= 0
    BY <2>2, LenProperties
  <2>4. capture.head = <<>> /\ capture.tail = <<>> /\ capture.total = 0
    BY <2>1 DEF NewCapture
  <2>5. <<>> \in Seq(ByteSet) /\ Len(<<>>) = 0
    BY EmptySeq
  <2>6. Least(0, MaxCapture) = 0 /\ Least(Monus(0, MaxCapture), WindowSize) = 0
    BY CaptureAssumption DEF Least, Most, Monus, WindowSize
  <2>7. Held(capture, b, 0)
    BY <2>4, <2>5, <2>6 DEF Held, Slice
  <2> QED BY <2>1, <2>3, <2>7 DEF CaptureInv, b
<1>2. CaptureInv /\ [\E n \in Nat : Receive(n)]_capturevars => CaptureInv'
  <2> SUFFICES ASSUME CaptureInv, [\E n \in Nat : Receive(n)]_capturevars PROVE CaptureInv'
    OBVIOUS
  <2>1. CASE UNCHANGED capturevars
    BY <2>1 DEF CaptureInv, capturevars
  <2>2. ASSUME NEW n \in Nat, Receive(n) PROVE CaptureInv'
    <3> DEFINE b == Bytes(widths)
    <3>1. widths' = widths /\ received' = received + n
          /\ capture' = Push(capture, SubSeq(b, received + 1, received + n))
          /\ n \in 1..(Len(b) - received)
      BY <2>2 DEF Receive
    <3>2. b \in Seq(ByteSet)
      BY StreamIsText DEF IsText, CaptureInv
    <3>3. b' = b
      BY <3>1
    <3>4. received \in Nat /\ Held(capture, b, received)
      BY DEF CaptureInv
    <3> HIDE DEF b
    <3>5. Len(b) \in Nat
      BY <3>2, LenProperties
    <3>6. n \in Nat \ {0} /\ received + n <= Len(b)
      BY <3>1, <3>4, <3>5
    <3>7. Held(capture', b, received')
      BY <3>1, <3>2, <3>4, <3>6, Pushed
    <3>8. received' \in Nat /\ received' <= Len(b)
      BY <3>1, <3>4, <3>6
    <3>9. Bytes(widths') = b
      BY <3>1 DEF b
    <3> QED BY <3>1, <3>7, <3>8, <3>9 DEF CaptureInv
  <2> QED BY <2>1, <2>2
<1> QED BY <1>1, <1>2, PTL DEF CaptureSpec

-----------------------------------------------------------------------------
(* The stream and its slices.                                              *)

LEMMA ChainedStream ==
  ASSUME NEW ws, NEW b, NEW k \in Nat, IsText(b, ws, k)
  PROVE  Chained(b)
<1>1. Len(b) \in Nat /\ \A i \in 1..Len(b) : b[i] \in ByteSet
  BY LenProperties, ElementOfSeq DEF IsText
<1>2. ASSUME NEW i \in 1..(Len(b) - 1)
      PROVE  \/ b[i + 1].char = b[i].char /\ b[i + 1].part = b[i].part + 1
             \/ b[i + 1].char = b[i].char + 1 /\ b[i + 1].part = 1
  <2>1. b[i + 1] = NextByte(b[i], ws)
    BY DEF IsText
  <2> QED BY <2>1 DEF NextByte, Byte
<1> QED BY <1>2 DEF Chained, IsText

LEMMA ChainedSlice ==
  ASSUME NEW b, Chained(b), NEW s, NEW o \in Nat, Slice(s, b, o), o + Len(s) <= Len(b)
  PROVE  Chained(s)
<1>1. Len(s) \in Nat /\ Len(b) \in Nat
  BY LenProperties, PartsBounded DEF Slice
<1>2. ASSUME NEW i \in 1..(Len(s) - 1)
      PROVE  \/ s[i + 1].char = s[i].char /\ s[i + 1].part = s[i].part + 1
             \/ s[i + 1].char = s[i].char + 1 /\ s[i + 1].part = 1
  <2>1. i \in 1..Len(s) /\ i + 1 \in 1..Len(s) /\ o + i \in 1..(Len(b) - 1) /\ o + (i + 1) = (o + i) + 1
    BY <1>1
  <2>2. s[i] = b[o + i] /\ s[i + 1] = b[(o + i) + 1]
    BY <2>1 DEF Slice
  <2> QED BY <2>1, <2>2 DEF Chained
<1> QED BY <1>2 DEF Chained, Slice

(* The byte behind another and the one before it.                          *)
LEMMA Onward ==
  ASSUME NEW ws, NEW b, NEW k \in Nat, IsText(b, ws, k), NEW i \in 1..Len(b)
  PROVE  /\ b[i].part < ws[b[i].char] => i < Len(b)
         /\ i < Len(b) => b[i + 1] = NextByte(b[i], ws)
         /\ b[i].part > 1 => i > 1 /\ b[i - 1].char = b[i].char /\ b[i - 1].part = b[i].part - 1
<1>1. Len(b) \in Nat /\ \A j \in 1..Len(b) : b[j].part \in 1..4 /\ b[j].char \in Nat
  BY ChainedStream, PartsBounded
<1>2. k > 0
  <2> SUFFICES ASSUME k = 0 PROVE FALSE
    OBVIOUS
  <2>1. Len(b) = 0
    BY EmptySeq DEF IsText
  <2> QED BY <2>1
<1>3. b[1] = Byte(1, 1) /\ b[Len(b)] = Byte(k, ws[k])
  BY <1>2 DEF IsText
<1>4. b[i].part < ws[b[i].char] => i < Len(b)
  <2> SUFFICES ASSUME i = Len(b), b[i].part < ws[b[i].char] PROVE FALSE
    BY <1>1
  <2>1. b[i].char = k /\ b[i].part = ws[k]
    BY <1>3 DEF Byte
  <2>2. b[i].part \in 1..4
    BY <1>1
  <2> QED BY <2>1, <2>2
<1>5. i < Len(b) => b[i + 1] = NextByte(b[i], ws)
  <2> SUFFICES ASSUME i < Len(b) PROVE b[i + 1] = NextByte(b[i], ws)
    OBVIOUS
  <2>1. i \in 1..(Len(b) - 1)
    BY <1>1
  <2> QED BY <2>1 DEF IsText
<1>6. b[i].part > 1 => i > 1 /\ b[i - 1].char = b[i].char /\ b[i - 1].part = b[i].part - 1
  <2> SUFFICES ASSUME b[i].part > 1 PROVE i > 1 /\ b[i - 1].char = b[i].char /\ b[i - 1].part = b[i].part - 1
    OBVIOUS
  <2>1. i # 1
    BY <1>3 DEF Byte
  <2>2. i - 1 \in 1..(Len(b) - 1) /\ (i - 1) + 1 = i /\ i - 1 \in 1..Len(b)
    BY <1>1, <2>1
  <2>3. \/ b[i].char = b[i - 1].char /\ b[i].part = b[i - 1].part + 1
        \/ b[i].char = b[i - 1].char + 1 /\ b[i].part = 1
    BY <2>2, ChainedStream DEF Chained
  <2>4. b[i - 1].part \in 1..4
    BY <1>1, <2>2
  <2> QED BY <2>2, <2>3, <2>4
<1> QED BY <1>4, <1>5, <1>6

(* Where a character begins.                                               *)
LEMMA FirstPart ==
  ASSUME NEW ws, NEW b, NEW k \in Nat, IsText(b, ws, k), NEW i \in 1..Len(b)
  PROVE  LET q == i - b[i].part + 1 IN q \in 1..i /\ b[q].part = 1 /\ b[q].char = b[i].char
<1>1. Len(b) \in Nat /\ \A j \in 1..Len(b) : b[j].part \in 1..4 /\ b[j].char \in Nat
  BY ChainedStream, PartsBounded
<1>2. \A j \in 1..Len(b) : b[j].part > 1 =>
        j - 1 \in 1..Len(b) /\ b[j - 1].char = b[j].char /\ b[j - 1].part = b[j].part - 1
  <2> SUFFICES ASSUME NEW j \in 1..Len(b), b[j].part > 1
               PROVE  j - 1 \in 1..Len(b) /\ b[j - 1].char = b[j].char /\ b[j - 1].part = b[j].part - 1
    OBVIOUS
  <2>1. j > 1 /\ b[j - 1].char = b[j].char /\ b[j - 1].part = b[j].part - 1
    BY Onward
  <2> QED BY <1>1, <2>1
<1>3. CASE b[i].part = 1
  <2>1. i - b[i].part + 1 = i
    BY <1>3
  <2> QED BY <1>3, <2>1
<1>4. CASE b[i].part = 2
  <2>1. i - 1 \in 1..Len(b) /\ b[i - 1].char = b[i].char /\ b[i - 1].part = 1
    BY <1>2, <1>4
  <2>2. i - b[i].part + 1 = i - 1
    BY <1>4
  <2> QED BY <2>1, <2>2
<1>5. CASE b[i].part = 3
  <2>1. i - 1 \in 1..Len(b) /\ b[i - 1].char = b[i].char /\ b[i - 1].part = 2
    BY <1>2, <1>5
  <2>2. (i - 1) - 1 \in 1..Len(b) /\ b[(i - 1) - 1].char = b[i].char /\ b[(i - 1) - 1].part = 1
    BY <1>2, <2>1
  <2>3. i - b[i].part + 1 = (i - 1) - 1
    BY <1>5
  <2> QED BY <2>2, <2>3
<1>6. CASE b[i].part = 4
  <2>1. i - 1 \in 1..Len(b) /\ b[i - 1].char = b[i].char /\ b[i - 1].part = 3
    BY <1>2, <1>6
  <2>2. (i - 1) - 1 \in 1..Len(b) /\ b[(i - 1) - 1].char = b[i].char /\ b[(i - 1) - 1].part = 2
    BY <1>2, <2>1
  <2>3. ((i - 1) - 1) - 1 \in 1..Len(b) /\ b[((i - 1) - 1) - 1].char = b[i].char /\ b[((i - 1) - 1) - 1].part = 1
    BY <1>2, <2>2
  <2>4. i - b[i].part + 1 = ((i - 1) - 1) - 1
    BY <1>6
  <2> QED BY <2>3, <2>4
<1> QED BY <1>1, <1>3, <1>4, <1>5, <1>6

-----------------------------------------------------------------------------
(* The head and the tail a finished capture has.                           *)

(* A head that ends with a whole character stays as it is; one that splits *)
(* a character ends with the three bytes of U+FFFD.                        *)
Repaired(head, b, ws, lossy) ==
  LET h == Len(head)
      p == b[h].part
  IN /\ Chained(lossy)
     /\ Len(lossy) \in Nat /\ (h > 0 <=> Len(lossy) > 0)
     /\ h > 0 => lossy[1].char = 1
     /\ h > 0 => lossy[Len(lossy)].char = b[h].char
     /\ \/ Len(lossy) = h /\ (h > 0 => p = ws[b[h].char])
        \/ h > 0 /\ p < ws[b[h].char] /\ Len(lossy) = h - p + 3

LEMMA HeadRepaired ==
  ASSUME widths \in Seq(1..Widest), NEW b, NEW k \in Nat, k = Len(widths), IsText(b, widths, k),
         NEW head, Slice(head, b, 0), Len(head) <= Len(b)
  PROVE  Repaired(head, b, widths, Lossy(head))
<1> DEFINE h == Len(head)
           p == b[h].part
           c == b[h].char
           lossy == Lossy(head)
<1>1. h \in Nat /\ Len(b) \in Nat /\ head \in Seq(ByteSet)
  BY LenProperties DEF Slice, IsText
<1>2. Chained(b) /\ Chained(head)
  BY <1>1, ChainedStream, ChainedSlice
<1>3. \A i \in 1..h : head[i] = b[i]
  <2>1. \A i \in 1..h : head[i] = b[0 + i] /\ 0 + i = i
    BY <1>1 DEF Slice
  <2> QED BY <2>1
<1>4. CASE h = 0
  <2>1. head = <<>>
    BY <1>1, <1>4, EmptySeq
  <2>2. lossy = head
    BY <2>1 DEF Lossy
  <2> HIDE DEF lossy
  <2> QED BY <1>1, <1>2, <1>4, <2>2 DEF Repaired, lossy
<1>5. CASE h > 0
  <2>1. head # <<>> /\ Last(head) = head[h] /\ h \in 1..h /\ h \in 1..Len(b) /\ 1 \in 1..h /\ 1 \in 1..Len(b)
    <3>1. head # <<>>
      BY <1>5, EmptySeq
    <3> QED BY <1>1, <1>5, <3>1 DEF Last
  <2>2. head[h] = b[h]
    BY <1>3, <2>1
  <2>3. p \in 1..4 /\ c \in 1..k /\ p <= widths[c] /\ c \in Nat
    BY <1>2, <2>1, PartsBounded DEF IsText
  <2>4. b[1].char = 1 /\ b[1].part = 1
    <3>1. k > 0
      BY <2>3
    <3> QED BY <3>1 DEF IsText, Byte
  <2>5. CASE ~(p < widths[c])
    <3>1. lossy = head
      BY <2>1, <2>2, <2>5 DEF Lossy
    <3>6. widths[c] \in 1..Widest
      BY <2>3, ElementOfSeq
    <3>2. p = widths[c]
      BY <2>3, <2>5, <3>6 DEF Widest
    <3>3. head[1].char = 1
      BY <1>3, <2>1, <2>4
    <3>4. head[h].char = b[h].char
      BY <2>2
    <3>5. h > 0 <=> Len(head) > 0
      OBVIOUS
    <3> HIDE DEF lossy
    <3> QED BY <1>1, <1>2, <1>5, <3>1, <3>2, <3>3, <3>4 DEF Repaired, lossy
  <2>6. CASE p < widths[c]
    <3> DEFINE q == h - p
               most == SubSeq(head, 1, q)
               last == Character(c, 3)
    <3>1. q + 1 \in 1..h /\ b[q + 1].part = 1 /\ b[q + 1].char = c
      <4>1. LET z == h - b[h].part + 1 IN z \in 1..h /\ b[z].part = 1 /\ b[z].char = b[h].char
        BY <2>1, FirstPart
      <4> QED BY <4>1
    <3>2. q \in Nat /\ q <= h
      BY <1>1, <2>3, <3>1
    <3>3. lossy = most \o last
      <4>1. lossy = First_(head, h - p) \o Character(c, 3)
        BY <2>1, <2>2, <2>6 DEF Lossy
      <4>2. Least(q, h) = q
        BY <1>1, <3>2 DEF Least
      <4> QED BY <4>1, <4>2 DEF First_
    <3>4. Chained(most) /\ most \in Seq(ByteSet) /\ Len(most) = q /\ \A i \in 1..q : most[i] = head[i]
      <4>1. Chained(most)
        BY <1>1, <1>2, <3>2, ChainedPieces
      <4>2. most \in Seq(ByteSet) /\ Len(most) = q - 1 + 1 /\ \A i \in 1..(q - 1 + 1) : most[i] = head[1 + i - 1]
        BY <1>1, <3>2, Pieces
      <4>3. q - 1 + 1 = q /\ \A i \in 1..q : 1 + i - 1 = i
        BY <3>2
      <4> HIDE DEF most
      <4> QED BY <4>1, <4>2, <4>3
    <3>5. last \in Seq(ByteSet) /\ Len(last) = 3 /\ \A j \in 1..3 : last[j] = Byte(c, j)
      <4>1. 3 \in 1..Widest /\ c \in Nat
        BY <2>3 DEF Widest
      <4> QED BY <4>1, Characters
    <3> HIDE DEF most, last, lossy
    <3>6. /\ lossy \in Seq(ByteSet) /\ Len(lossy) = q + 3
          /\ \A i \in 1..(q + 3) : lossy[i] = IF i <= q THEN most[i] ELSE last[i - q]
      <4>1. /\ most \o last \in Seq(ByteSet) /\ Len(most \o last) = Len(most) + Len(last)
            /\ \A i \in 1..(Len(most) + Len(last)) :
                 (most \o last)[i] = IF i <= Len(most) THEN most[i] ELSE last[i - Len(most)]
        BY <3>4, <3>5, ConcatProperties
      <4> HIDE DEF q
      <4> QED BY <3>3, <3>4, <3>5, <4>1
    <3>7. /\ \A i \in 1..q : lossy[i] = b[i]
          /\ \A j \in 1..3 : lossy[q + j] = Byte(c, j)
      <4>1. \A i \in 1..q : i \in 1..(q + 3) /\ i <= q /\ i \in 1..h
        BY <1>1, <3>2
      <4>2. \A j \in 1..3 : q + j \in 1..(q + 3) /\ ~(q + j <= q) /\ (q + j) - q = j
        BY <3>2
      <4> HIDE DEF q
      <4>3. ASSUME NEW i \in 1..q PROVE lossy[i] = b[i]
        <5>1. lossy[i] = most[i]
          BY <3>6, <4>1
        <5> QED BY <1>3, <3>4, <4>1, <5>1
      <4>4. ASSUME NEW j \in 1..3 PROVE lossy[q + j] = Byte(c, j)
        <5>1. lossy[q + j] = last[j]
          BY <3>6, <4>2
        <5> QED BY <3>5, <5>1
      <4> QED BY <4>3, <4>4
    <3>8. Chained(lossy)
      <4> SUFFICES ASSUME NEW i \in 1..(Len(lossy) - 1)
                   PROVE  \/ lossy[i + 1].char = lossy[i].char /\ lossy[i + 1].part = lossy[i].part + 1
                          \/ lossy[i + 1].char = lossy[i].char + 1 /\ lossy[i + 1].part = 1
        BY <3>6 DEF Chained
      <4>1. CASE i < q
        <5>1. i \in 1..q /\ i + 1 \in 1..q /\ i \in 1..(Len(b) - 1)
          BY <1>1, <3>2, <4>1
        <5>2. lossy[i] = b[i] /\ lossy[i + 1] = b[i + 1]
          BY <3>7, <5>1
        <5> QED BY <1>2, <5>1, <5>2 DEF Chained
      <4>2. CASE i = q
        <5>1. i \in 1..q /\ i \in 1..(Len(b) - 1) /\ i \in 1..Len(b) /\ 1 \in 1..3
          BY <1>1, <3>1, <3>2, <4>2
        <5>2. lossy[i] = b[i] /\ lossy[i + 1] = Byte(c, 1)
          BY <3>7, <4>2, <5>1
        <5>3. \/ b[i + 1].char = b[i].char /\ b[i + 1].part = b[i].part + 1
              \/ b[i + 1].char = b[i].char + 1 /\ b[i + 1].part = 1
          BY <1>2, <5>1 DEF Chained
        <5>4. b[i].part \in 1..4
          BY <1>2, <5>1, PartsBounded
        <5>5. b[i + 1].char = b[i].char + 1
          BY <3>1, <4>2, <5>3, <5>4
        <5> QED BY <3>1, <4>2, <5>2, <5>5 DEF Byte
      <4>3. CASE i > q
        <5> DEFINE j == i - q
        <5>1. j \in 1..3 /\ j + 1 \in 1..3 /\ i = q + j /\ i + 1 = q + (j + 1)
          <6>1. i \in Int /\ q \in Nat /\ 1 <= i /\ i <= (q + 3) - 1
            BY <3>2, <3>6
          <6>2. j \in 1..2 /\ i = q + j
            BY <4>3, <6>1, SMTT(30)
          <6> HIDE DEF j
          <6> QED BY <6>1, <6>2
        <5> HIDE DEF j
        <5>2. lossy[i] = Byte(c, j) /\ lossy[i + 1] = Byte(c, j + 1)
          BY <3>7, <5>1
        <5> QED BY <5>2 DEF Byte
      <4> QED BY <3>2, <3>6, <4>1, <4>2, <4>3
    <3>9. lossy[1].char = 1
      <4>1. CASE q = 0
        <5>1. lossy[1] = Byte(c, 1)
          BY <3>7, <4>1
        <5>2. b[1].char = c
          BY <3>1, <4>1
        <5> QED BY <2>4, <5>1, <5>2 DEF Byte
      <4>2. CASE q > 0
        <5>1. 1 \in 1..q
          BY <3>2, <4>2
        <5> QED BY <2>4, <3>7, <5>1
      <4> QED BY <3>2, <4>1, <4>2
    <3>10. lossy[Len(lossy)].char = c
      <4>1. lossy[q + 3] = Byte(c, 3)
        BY <3>7
      <4> QED BY <3>6, <4>1 DEF Byte
    <3>11. Len(lossy) \in Nat /\ Len(lossy) > 0 /\ Len(lossy) = h - p + 3
      BY <3>2, <3>6
    <3> QED BY <1>5, <2>6, <3>8, <3>9, <3>10, <3>11 DEF Repaired, lossy
  <2> QED BY <2>5, <2>6
<1> QED BY <1>1, <1>4, <1>5

LEMMA TailSkips ==
  ASSUME NEW tail, Chained(tail)
  PROVE  \E n \in 0..Len(tail) :
           /\ n <= 3 /\ SkipOrphans(tail) = SubSeq(tail, n + 1, Len(tail))
           /\ \A i \in 1..n : tail[i].part > 1
           /\ n < Len(tail) => tail[n + 1].part = 1
<1> DEFINE t == Len(tail)
           orphans == {n \in 0..Least(3, t) : \A i \in 1..n : tail[i].part > 1}
           n == CHOOSE n \in orphans : \A m \in orphans : m <= n
<1>1. t \in Nat /\ \A i \in 1..t : tail[i].part \in 1..4
  BY PartsBounded
<1>2. Least(3, t) \in Nat /\ Least(3, t) <= 3 /\ Least(3, t) <= t /\ (Least(3, t) = 3 \/ Least(3, t) = t)
  BY <1>1 DEF Least
<1>3. \E i \in orphans : \A j \in orphans : j <= i
  <2>1. 0 \in orphans
    BY <1>2
  <2>2. orphans \in SUBSET (0..Least(3, t)) /\ orphans # {}
    BY <2>1
  <2> HIDE DEF orphans
  <2> QED BY <1>2, <2>2, LargestOf
<1>4. n \in orphans /\ \A m \in orphans : m <= n
  BY <1>3
<1>5. SkipOrphans(tail) = SubSeq(tail, n + 1, t)
  BY DEF SkipOrphans
<1> HIDE DEF n
<1>6. n \in 0..t /\ n <= 3 /\ n <= Least(3, t) /\ \A i \in 1..n : tail[i].part > 1
  BY <1>1, <1>2, <1>4
<1>7. ASSUME n < t PROVE tail[n + 1].part = 1
  <2> SUFFICES ASSUME tail[n + 1].part # 1 PROVE FALSE
    OBVIOUS
  <2>1. n + 1 \in 1..t /\ tail[n + 1].part > 1
    BY <1>1, <1>6, <1>7
  <2>2. \A i \in 1..(n + 1) : tail[i].part > 1
    BY <1>6, <2>1
  <2>3. CASE n + 1 <= Least(3, t)
    <3>1. n + 1 \in orphans
      BY <1>2, <1>6, <2>2, <2>3
    <3> QED BY <1>4, <1>6, <3>1
  <2>4. CASE n + 1 > Least(3, t)
    <3>1. n = 3 /\ 4 <= t
      BY <1>1, <1>2, <1>6, <1>7, <2>4
    <3>2. tail[0 + 1].part = 1 \/ tail[0 + 2].part = 1 \/ tail[0 + 3].part = 1 \/ tail[0 + 4].part = 1
      <4>1. 0 \in Nat /\ 0 + 4 <= Len(tail)
        BY <3>1
      <4> QED BY <4>1, OneOfFour
    <3>3. 1 \in 1..(n + 1) /\ 2 \in 1..(n + 1) /\ 3 \in 1..(n + 1) /\ 4 \in 1..(n + 1)
      BY <3>1
    <3>4. tail[1].part > 1 /\ tail[2].part > 1 /\ tail[3].part > 1 /\ tail[4].part > 1
      BY <2>2, <3>3
    <3> QED BY <3>2, <3>4
  <2> QED BY <1>2, <1>6, <2>3, <2>4
<1> QED BY <1>5, <1>6, <1>7

-----------------------------------------------------------------------------
(* A stream that has ended.                                                *)

(* What the lemmas below say of b = Bytes(widths), all of it received, and *)
(* of the head and the tail the capture then has.                          *)
Ended(b, head, tail) ==
  /\ widths \in Seq(1..Widest) /\ Len(widths) > 0
  /\ IsText(b, widths, Len(widths))
  /\ Slice(head, b, 0) /\ Len(head) = Least(Len(b), MaxCapture)
  /\ Slice(tail, b, Len(b) - Len(tail)) /\ Len(tail) = Least(Monus(Len(b), MaxCapture), WindowSize)

LEMMA EndSizes ==
  ASSUME NEW r \in Nat, NEW m \in Nat, NEW k \in Nat, NEW h \in Nat, NEW t \in Nat,
         h = Least(r, m), t = Least(Monus(r, m), k)
  PROVE  /\ h <= r /\ h <= m /\ (h = m \/ h = r)
         /\ t > 0 => r > m /\ h = m
         /\ t <= r - h
         /\ t = k \/ t = r - h
BY DEF Least, Monus, Most

LEMMA EndedFacts ==
  ASSUME NEW b, NEW head, NEW tail, Ended(b, head, tail)
  PROVE  /\ Len(b) \in Nat \ {0} /\ Len(head) \in Nat /\ Len(tail) \in Nat /\ Len(widths) \in Nat
         /\ MaxCapture \in Nat /\ WindowSize \in Nat \ {0} /\ (MaxCapture >= 4 => WindowSize >= 4)
         /\ Len(head) <= Len(b) /\ Len(head) <= MaxCapture /\ (Len(head) = MaxCapture \/ Len(head) = Len(b))
         /\ Len(tail) > 0 => Len(b) > MaxCapture /\ Len(head) = MaxCapture
         /\ Len(tail) <= Len(b) - Len(head)
         /\ Len(tail) = WindowSize \/ Len(tail) = Len(b) - Len(head)
         /\ Chained(b) /\ Chained(tail)
         /\ \A i \in 1..Len(tail) : tail[i] = b[(Len(b) - Len(tail)) + i]
         /\ b[Len(b)].char = Len(widths) /\ b[Len(b)].part = widths[Len(widths)]
         /\ \A i \in 1..Len(b) : b[i].part \in 1..4 /\ b[i].char \in 1..Len(widths) /\ widths[b[i].char] \in 1..4
                                 /\ b[i].part <= widths[b[i].char]
<1>1. Len(b) \in Nat /\ Len(head) \in Nat /\ Len(tail) \in Nat /\ Len(widths) \in Nat
  BY LenProperties DEF Ended, IsText, Slice
<1>2. Len(b) > 0 /\ b[Len(b)].char = Len(widths) /\ b[Len(b)].part = widths[Len(widths)]
  BY DEF Ended, IsText, Byte
<1>3. MaxCapture \in Nat /\ WindowSize \in Nat \ {0} /\ (MaxCapture >= 4 => WindowSize >= 4)
  BY CaptureAssumption DEF WindowSize, Least, Most, Widest
<1>4. /\ Len(head) <= Len(b) /\ Len(head) <= MaxCapture /\ (Len(head) = MaxCapture \/ Len(head) = Len(b))
      /\ Len(tail) > 0 => Len(b) > MaxCapture /\ Len(head) = MaxCapture
      /\ Len(tail) <= Len(b) - Len(head)
      /\ Len(tail) = WindowSize \/ Len(tail) = Len(b) - Len(head)
  <2>1. Len(head) = Least(Len(b), MaxCapture) /\ Len(tail) = Least(Monus(Len(b), MaxCapture), WindowSize)
    BY DEF Ended
  <2>2. WindowSize \in Nat /\ MaxCapture \in Nat
    BY <1>3
  <2> QED BY <1>1, <2>1, <2>2, EndSizes, SMTT(30)
<1>5. Chained(b)
  BY <1>1, ChainedStream DEF Ended
<1>6. Chained(tail)
  <2>1. Len(b) - Len(tail) \in Nat /\ (Len(b) - Len(tail)) + Len(tail) <= Len(b)
    BY <1>1, <1>4
  <2> QED BY <1>5, <2>1, ChainedSlice DEF Ended
<1>7. \A i \in 1..Len(tail) : tail[i] = b[(Len(b) - Len(tail)) + i]
  BY DEF Ended, Slice
<1>8. ASSUME NEW i \in 1..Len(b)
      PROVE  b[i].part \in 1..4 /\ b[i].char \in 1..Len(widths) /\ widths[b[i].char] \in 1..4
             /\ b[i].part <= widths[b[i].char]
  <2>1. b[i].part \in 1..4 /\ b[i].char \in 1..Len(widths) /\ b[i].part <= widths[b[i].char]
    BY <1>5, PartsBounded DEF Ended, IsText
  <2>2. widths[b[i].char] \in 1..Widest
    BY <2>1, ElementOfSeq DEF Ended
  <2> QED BY <2>1, <2>2 DEF Widest
<1> QED BY <1>1, <1>2, <1>3, <1>4, <1>5, <1>6, <1>7, <1>8

(* No more than a character of one byte is missing between a head and a    *)
(* tail that seem to have no gap between them.                             *)
LEMMA Meeting ==
  ASSUME NEW b, NEW head, NEW tail, Ended(b, head, tail),
         NEW lossy, Repaired(head, b, widths, lossy),
         NEW n \in 0..Len(tail), \A i \in 1..n : tail[i].part > 1, n < Len(tail), tail[n + 1].part = 1,
         Len(head) > 0, Len(b) <= Len(lossy) + (Len(tail) - n)
  PROVE  Side(lossy[Len(lossy)], tail[n + 1])
<1> DEFINE m == Len(head)
           p == b[m].part
           c == b[m].char
           w == widths[c]
           z == (Len(b) - Len(tail)) + (n + 1)
<1>1. /\ Len(b) \in Nat /\ m \in Nat /\ Len(tail) \in Nat /\ m < Len(b) /\ m \in 1..Len(b)
      /\ Len(tail) <= Len(b) - m
  BY EndedFacts
<1>2. p \in 1..4 /\ c \in Nat /\ w \in 1..4 /\ p <= w
  BY <1>1, EndedFacts
<1>3. tail[n + 1] = b[z] /\ b[z].part = 1 /\ z \in (m + 1)..Len(b)
  <2>1. n + 1 \in 1..Len(tail)
    BY <1>1
  <2>2. tail[n + 1] = b[z]
    BY <2>1, EndedFacts
  <2> QED BY <1>1, <2>1, <2>2
<1>4. lossy[Len(lossy)].char = c
  BY <1>1 DEF Repaired
<1>5. b[m + 1] = NextByte(b[m], widths)
  BY <1>1, Onward, EndedFacts DEF Ended
<1>8. z = (Len(b) - Len(tail)) + (n + 1) /\ n \in Nat /\ Len(lossy) \in Nat
      /\ Len(b) <= Len(lossy) + (Len(tail) - n)
  BY <1>1 DEF Repaired
<1>9. \/ Len(lossy) = m /\ p = w
      \/ p < w /\ Len(lossy) = m - p + 3
  BY <1>1 DEF Repaired
<1>10. p = b[m].part /\ c = b[m].char /\ w = widths[c]
  OBVIOUS
<1> HIDE DEF m, p, c, w, z
<1> SUFFICES /\ c <= b[z].char
             /\ \/ b[z].char = c + 1 \/ b[z].char = c
                \/ b[z].char = c + 2 /\ widths[c + 1] = 1
  <2>1. CASE b[z].char = c + 1 \/ b[z].char = c
    <3>1. (c + 1)..(b[z].char - 1) = {}
      <4>1. CASE b[z].char = c
        BY <1>2, <4>1
      <4>2. CASE b[z].char = c + 1
        BY <1>2, <4>2
      <4> QED BY <2>1, <4>1, <4>2
    <3>2. Missing(lossy[Len(lossy)], tail[n + 1]) = {}
      BY <1>3, <1>4, <3>1 DEF Missing
    <3> QED BY <1>2, <1>3, <1>4, <2>1, <3>2 DEF Side
  <2>2. CASE b[z].char = c + 2 /\ widths[c + 1] = 1
    <3>1. (c + 1)..(b[z].char - 1) = {c + 1}
      BY <1>2, <2>2
    <3>2. Missing(lossy[Len(lossy)], tail[n + 1]) = {c + 1}
      BY <1>3, <1>4, <3>1 DEF Missing
    <3> QED BY <1>2, <1>3, <1>4, <2>2, <3>2 DEF Side
  <2> QED BY <2>1, <2>2
<1>6. CASE Len(lossy) = m /\ p = w
  <2>1. z = m + 1
    BY <1>1, <1>3, <1>6, <1>8
  <2>2. b[m + 1].char = c + 1
    <3>1. ~(b[m].part < widths[b[m].char]) /\ b[m].char = c
      <4>1. ~(p < w)
        BY <1>2, <1>6
      <4> QED BY <1>10, <4>1
    <3> QED BY <1>5, <3>1 DEF NextByte, Byte
  <2> QED BY <1>2, <2>1, <2>2
<1>7. CASE p < w /\ Len(lossy) = m - p + 3
  <2>1. b[m + 1].char = c /\ b[m + 1].part = p + 1
    BY <1>5, <1>7, <1>10 DEF NextByte, Byte
  <2>2. z # m + 1 /\ z <= m + 1 + (3 - p)
    <3>1. z = m + 1 => p + 1 = 1
      BY <1>3, <2>1
    <3>2. z # m + 1
      BY <1>2, <3>1
    <3>3. z <= (m - p + 3) + 1
      BY <1>1, <1>2, <1>7, <1>8
    <3> QED BY <1>1, <1>2, <3>2, <3>3
  <2>3. p \in 1..2 /\ (z = m + 2 \/ (z = m + 3 /\ p = 1))
    <3>1. z \in Nat /\ m \in Nat /\ m + 1 < z
      BY <1>1, <1>3, <2>2
    <3>2. CASE p = 1
      BY <2>2, <3>1, <3>2
    <3>3. CASE p = 2
      BY <2>2, <3>1, <3>3
    <3>4. CASE p > 2
      BY <1>2, <2>2, <3>1, <3>4
    <3> QED BY <1>2, <3>2, <3>3, <3>4
  <2>4. m + 1 \in 1..Len(b) /\ m + 1 < Len(b) /\ (m + 1) + 1 = m + 2
    <3>1. m + 2 <= Len(b)
      BY <1>1, <1>3, <2>3
    <3> QED BY <1>1, <3>1
  <2>5. b[m + 2] = NextByte(b[m + 1], widths)
    <3>1. b[(m + 1) + 1] = NextByte(b[m + 1], widths)
      BY <2>4, Onward, EndedFacts DEF Ended
    <3> QED BY <2>4, <3>1
  <2>6. CASE z = m + 2
    <3>1. b[m + 2].part = 1
      BY <1>3, <2>6
    <3>2. b[m + 2].char = c + 1
      <4>1. ~(p + 1 < w)
        <5> SUFFICES ASSUME p + 1 < w PROVE FALSE
          OBVIOUS
        <5>1. b[m + 2].part = (p + 1) + 1
          BY <1>10, <2>1, <2>5 DEF NextByte, Byte
        <5> QED BY <1>2, <3>1, <5>1
      <4> QED BY <1>10, <2>1, <2>5, <4>1 DEF NextByte, Byte
    <3> QED BY <1>2, <2>6, <3>2
  <2>7. CASE z = m + 3 /\ p = 1
    <3>1. m + 2 \in 1..Len(b) /\ m + 2 < Len(b) /\ (m + 2) + 1 = m + 3
      BY <1>1, <1>3, <2>7
    <3>2. b[m + 3] = NextByte(b[m + 2], widths) /\ b[m + 3].part = 1
      <4>1. b[(m + 2) + 1] = NextByte(b[m + 2], widths)
        BY <3>1, Onward, EndedFacts DEF Ended
      <4> QED BY <1>3, <2>7, <3>1, <4>1
    <3>3. CASE 2 < w
      <4>1. b[m + 2].char = c /\ b[m + 2].part = 3
        BY <1>10, <2>1, <2>5, <2>7, <3>3 DEF NextByte, Byte
      <4>2. b[m + 3].char = c + 1
        <5>1. ~(3 < w)
          <6> SUFFICES ASSUME 3 < w PROVE FALSE
            OBVIOUS
          <6>1. b[m + 3].part = 3 + 1
            BY <1>10, <3>2, <4>1 DEF NextByte, Byte
          <6> QED BY <3>2, <6>1
        <5> QED BY <1>10, <3>2, <4>1, <5>1 DEF NextByte, Byte
      <4> QED BY <1>2, <2>7, <4>2
    <3>4. CASE w = 2
      <4>1. b[m + 2].char = c + 1 /\ b[m + 2].part = 1
        BY <1>10, <2>1, <2>5, <2>7, <3>4 DEF NextByte, Byte
      <4>2. widths[c + 1] \in 1..4
        <5>1. b[m + 2].char \in 1..Len(widths) /\ widths[b[m + 2].char] \in 1..4
          BY <3>1, EndedFacts
        <5> QED BY <4>1, <5>1
      <4>3. ~(1 < widths[c + 1])
        BY <3>2, <4>1 DEF NextByte, Byte
      <4>4. widths[c + 1] = 1
        BY <4>2, <4>3
      <4>5. b[m + 3].char = (c + 1) + 1
        BY <3>2, <4>1, <4>3 DEF NextByte, Byte
      <4> QED BY <1>2, <2>7, <4>4, <4>5
    <3> QED BY <1>2, <1>7, <2>7, <3>3, <3>4
  <2> QED BY <2>3, <2>6, <2>7
<1> QED BY <1>6, <1>7, <1>9

(* A tail without a whole character is the rest of the character the head  *)
(* splits, and unless that has four bytes there seems to be no gap.        *)
LEMMA NoTail ==
  ASSUME NEW b, NEW head, NEW tail, Ended(b, head, tail), MaxCapture >= 4,
         NEW lossy, Repaired(head, b, widths, lossy),
         Len(tail) <= 3, \A i \in 1..Len(tail) : tail[i].part > 1,
         ~(widths[Len(widths)] = 4 /\ Len(b) - MaxCapture \in 1..3)
  PROVE  Len(b) <= Len(lossy) /\ lossy[Len(lossy)].char = Len(widths)
<1> DEFINE m == Len(head)
           t == Len(tail)
           r == Len(b)
           k == Len(widths)
           w == widths[k]
<1>1. r \in Nat \ {0} /\ m \in Nat /\ t \in Nat /\ k \in Nat /\ m <= r /\ MaxCapture \in Nat
  BY EndedFacts
<1>2. t = r - m /\ m > 0 /\ (t > 0 => m = MaxCapture)
  BY EndedFacts
<1>3. b[r].char = k /\ b[r].part = w /\ w \in 1..4
  <2>1. r \in 1..r /\ r \in 1..Len(b)
    BY <1>1
  <2>2. b[r].char = k /\ b[r].part = w
    BY EndedFacts
  <2>3. b[r].part \in 1..4
    BY <2>1, EndedFacts
  <2> QED BY <2>2, <2>3
<1>4. \A i \in 1..r : b[i].part > 1 => b[i - 1].char = b[i].char /\ b[i - 1].part = b[i].part - 1
  BY <1>1, Onward DEF Ended
<1>5. \A i \in 1..t : b[m + i].part > 1
  <2> TAKE i \in 1..t
  <2>1. tail[i] = b[(r - t) + i]
    BY EndedFacts
  <2>2. (r - t) + i = m + i
    BY <1>1, <1>2
  <2> QED BY <2>1, <2>2
<1>9. t \in 0..3 /\ r = m + t
  BY <1>1, <1>2
<1>10. \/ Len(lossy) = m /\ b[m].part = widths[b[m].char]
       \/ b[m].part < widths[b[m].char] /\ Len(lossy) = m - b[m].part + 3
  BY <1>2 DEF Repaired
<1>11. lossy[Len(lossy)].char = b[m].char
  BY <1>2 DEF Repaired
<1>12. ~(w = 4 /\ r - MaxCapture \in 1..3) /\ w = widths[k] /\ k = Len(widths) /\ r = Len(b)
  OBVIOUS
<1> HIDE DEF m, t, r, k, w
<1>6. b[m].char = k /\ b[m].part = w - t
  <2>1. CASE t = 0
    BY <1>1, <1>3, <1>9, <2>1
  <2>2. CASE t = 1
    <3>1. r = m + 1 /\ 1 \in 1..t /\ r \in 1..r /\ r - 1 = m
      BY <1>1, <1>2, <1>9, <2>2
    <3>2. b[r].part > 1
      BY <1>5, <1>9, <3>1
    <3>3. b[r - 1].char = k /\ b[r - 1].part = w - 1
      BY <1>3, <1>4, <3>1, <3>2
    <3> QED BY <2>2, <3>1, <3>3
  <2>3. CASE t = 2
    <3>1. r = m + 2 /\ 1 \in 1..t /\ 2 \in 1..t /\ r \in 1..r /\ r - 1 \in 1..r /\ r - 1 = m + 1 /\ (r - 1) - 1 = m
      BY <1>1, <1>2, <1>9, <2>3
    <3>2. b[r].part > 1 /\ b[r - 1].part > 1
      BY <1>5, <1>9, <3>1
    <3>3. b[r - 1].char = k /\ b[r - 1].part = w - 1
      BY <1>3, <1>4, <3>1, <3>2
    <3>4. b[(r - 1) - 1].char = k /\ b[(r - 1) - 1].part = (w - 1) - 1
      BY <1>4, <3>1, <3>2, <3>3
    <3> QED BY <1>3, <2>3, <3>1, <3>4
  <2>4. CASE t = 3
    <3>1. r = m + 3 /\ 1 \in 1..t /\ 2 \in 1..t /\ 3 \in 1..t /\ r \in 1..r /\ r - 1 \in 1..r /\ r - 1 = m + 2
          /\ (r - 1) - 1 \in 1..r /\ (r - 1) - 1 = m + 1 /\ ((r - 1) - 1) - 1 = m
      BY <1>1, <1>2, <1>9, <2>4
    <3>2. b[r].part > 1 /\ b[r - 1].part > 1 /\ b[(r - 1) - 1].part > 1
      BY <1>5, <1>9, <3>1
    <3>3. b[r - 1].char = k /\ b[r - 1].part = w - 1
      BY <1>3, <1>4, <3>1, <3>2
    <3>4. b[(r - 1) - 1].char = k /\ b[(r - 1) - 1].part = (w - 1) - 1
      BY <1>4, <3>1, <3>2, <3>3
    <3>5. b[((r - 1) - 1) - 1].char = k /\ b[((r - 1) - 1) - 1].part = ((w - 1) - 1) - 1
      BY <1>4, <3>1, <3>2, <3>4
    <3> QED BY <1>3, <2>4, <3>1, <3>5, SMTT(30)
  <2> QED BY <1>9, <2>1, <2>2, <2>3, <2>4
<1>7. lossy[Len(lossy)].char = k
  BY <1>6, <1>11
<1>8. r <= Len(lossy)
  <2>1. CASE t = 0
    <3>1. Len(lossy) = m
      BY <1>3, <1>6, <1>10, <1>12, <2>1
    <3> QED BY <1>1, <1>9, <2>1, <3>1
  <2>2. CASE t > 0
    <3>1. w # 4
      BY <1>1, <1>2, <1>9, <1>12, <2>2
    <3>2. Len(lossy) = m - (w - t) + 3
      <4>1. b[m].part # widths[b[m].char]
        BY <1>3, <1>6, <1>9, <1>12, <2>2
      <4> QED BY <1>6, <1>10, <4>1
    <3> QED BY <1>1, <1>3, <1>9, <3>1, <3>2
  <2> QED BY <1>9, <2>1, <2>2
<1> QED BY <1>7, <1>8 DEF k, r

(* An answer shows the first and the last character of a stream that has   *)
(* ended, where there is room for them, nothing is missing between what it *)
(* shows side by side, and its mark counts what is: for every stream,      *)
(* however it came in messages, and every limit (`Capture`, exec.rs, and   *)
(* `head_tail`, truncate.rs), with the exceptions EndsKept states.         *)
THEOREM BothEndsShown == CaptureSpec => []EndsShown
<1>1. CaptureInv => EndsShown
  <2> SUFFICES ASSUME CaptureInv, received = Len(Bytes(widths)), widths # <<>>, NEW max \in 0..MaxShown
               PROVE  EndsKept(max)
    BY DEF EndsShown
  <2> DEFINE b == Bytes(widths)
             head == capture.head
             tail == capture.tail
             lossy == Lossy(head)
             whole == SkipOrphans(tail)
             total == capture.total
             shown == HeadTail(lossy, whole, total, max)
             all == shown.front \o shown.middle \o shown.back
  <2>1. widths \in Seq(1..Widest) /\ Len(widths) \in Nat /\ Len(widths) > 0 /\ IsText(b, widths, Len(widths))
        /\ Held(capture, b, Len(b))
    <3>1. widths \in Seq(1..Widest) /\ Held(capture, b, Len(b))
      BY DEF CaptureInv
    <3>2. Len(widths) \in Nat /\ Len(widths) > 0
      BY <3>1, EmptySeq
    <3> QED BY <3>1, <3>2, StreamIsText
  <2> HIDE DEF b
  <2>2. Ended(b, head, tail) /\ total = Len(b)
    BY <2>1 DEF Ended, Held
  <2>3. Repaired(head, b, widths, lossy)
    <3>1. Len(head) <= Len(b) /\ Slice(head, b, 0)
      BY <2>2, EndedFacts DEF Ended
    <3> HIDE DEF head
    <3> QED BY <2>1, <3>1, HeadRepaired
  <2>4. Chained(tail) /\ tail \in Seq(ByteSet) /\ Len(tail) \in Nat
    BY <2>2, EndedFacts DEF Ended, Slice
  <2>16. b[Len(b)].char = Len(widths)
    BY <2>2, EndedFacts
  <2> HIDE DEF tail, head, lossy, total
  <2>15. tail[Len(tail)] = b[Len(b)] \/ Len(tail) = 0
    <3>1. Len(tail) > 0 => Len(tail) \in 1..Len(tail)
      BY <2>4
    <3>2. \A i \in 1..Len(tail) : tail[i] = b[(Len(b) - Len(tail)) + i]
      BY <2>2, EndedFacts
    <3>3. Len(b) \in Nat
      BY <2>2, EndedFacts
    <3>4. (Len(b) - Len(tail)) + Len(tail) = Len(b)
      BY <2>4, <3>3
    <3> QED BY <2>4, <3>1, <3>2, <3>4
  <2>5. PICK n \in 0..Len(tail) :
           /\ n <= 3 /\ whole = SubSeq(tail, n + 1, Len(tail))
           /\ \A i \in 1..n : tail[i].part > 1
           /\ n < Len(tail) => tail[n + 1].part = 1
    BY <2>4, TailSkips
  <2> HIDE DEF whole
  <2>6. Chained(whole) /\ Len(whole) = Len(tail) - n /\ \A i \in 1..Len(whole) : whole[i] = tail[n + i]
    <3>1. n + 1 \in Nat /\ 1 <= n + 1 /\ n + 1 <= Len(tail) + 1
      BY <2>4
    <3>2. Chained(whole)
      BY <2>4, <2>5, <3>1, ChainedPieces
    <3>3. Len(whole) = Len(tail) - (n + 1) + 1
          /\ \A i \in 1..(Len(tail) - (n + 1) + 1) : whole[i] = tail[(n + 1) + i - 1]
      BY <2>4, <2>5, <3>1, Pieces
    <3>4. Len(tail) - (n + 1) + 1 = Len(tail) - n /\ \A i \in 1..(Len(tail) - n) : (n + 1) + i - 1 = n + i
      BY <2>4
    <3> QED BY <3>2, <3>3, <3>4
  <2>7. Chained(lossy) /\ Len(lossy) \in Nat /\ (Len(lossy) > 0 <=> Len(head) > 0)
    BY <2>3 DEF Repaired
  <2>8. Len(b) \in Nat \ {0} /\ Len(head) \in Nat /\ MaxCapture \in Nat
        /\ (MaxCapture >= 4 => Len(head) > 0 /\ WindowSize >= 4)
    <3>1. /\ Len(b) \in Nat \ {0} /\ Len(head) \in Nat /\ MaxCapture \in Nat
          /\ (Len(head) = MaxCapture \/ Len(head) = Len(b)) /\ (MaxCapture >= 4 => WindowSize >= 4)
      BY <2>2, EndedFacts
    <3> QED BY <3>1
  <2>9. ASSUME Len(lossy) > 0, Len(whole) > 0, total <= Len(lossy) + Len(whole)
        PROVE  Side(lossy[Len(lossy)], whole[1])
    <3>1. n < Len(tail) /\ Len(head) > 0 /\ Len(b) <= Len(lossy) + (Len(tail) - n)
      BY <2>2, <2>4, <2>6, <2>7, <2>9
    <3>2. Side(lossy[Len(lossy)], tail[n + 1])
      BY <2>2, <2>3, <2>5, <3>1, Meeting
    <3>3. 1 \in 1..Len(whole)
      BY <2>4, <2>6, <2>9
    <3> QED BY <2>6, <3>2, <3>3
  <2>10. max \in Nat /\ total \in Nat
    BY <2>2, <2>8, CaptureAssumption
  <2>11. /\ Len(all) <= max /\ shown.cut = Monus(total, Len(all))
         /\ SideBySide(shown.front)
         /\ \/ shown.back = whole /\ SideBySide(shown.middle \o shown.back)
            \/ shown.back # whole /\ Len(shown.middle) < Widest /\ SideBySide(shown.back)
         /\ max >= 8 /\ Len(lossy) > 0 => all[1] = lossy[1]
         /\ max >= 8 /\ Len(whole) > 0 => Last(all) = whole[Len(whole)]
         /\ max >= 8 /\ Len(whole) = 0 /\ Len(lossy) > 0 /\ total <= Len(lossy) => Last(all) = lossy[Len(lossy)]
    <3> HIDE DEF whole, lossy, total
    <3>1. Chained(lossy) /\ Chained(whole) /\ total \in Nat /\ max \in Nat
      BY <2>6, <2>7, <2>10
    <3>2. Len(lossy) > 0 /\ Len(whole) > 0 /\ total <= Len(lossy) + Len(whole) => Side(lossy[Len(lossy)], whole[1])
      BY <2>9
    <3>3. shown = HeadTail(lossy, whole, total, max) /\ all = shown.front \o shown.middle \o shown.back
      OBVIOUS
    <3> HIDE DEF shown, all
    <3>4. WellShown(lossy, whole, total, max, shown, all)
      BY <3>1, <3>2, <3>3, ShownOf
    <3> QED BY <3>4 DEF WellShown
  <2> HIDE DEF shown, all
  <2>12. ASSUME max >= 8, MaxCapture >= 4
         PROVE  all[1].char = 1 /\ (Last(all).char = Len(widths) \/ SplitAtEnd)
    <3>1. Len(lossy) > 0
      BY <2>7, <2>8, <2>12
    <3>2. all[1].char = 1
      BY <2>3, <2>7, <2>11, <2>12, <3>1 DEF Repaired
    <3>3. CASE Len(whole) > 0
      <4>1. Len(whole) \in 1..Len(whole) /\ n + Len(whole) = Len(tail) /\ Len(tail) \in 1..Len(tail)
        BY <2>4, <2>6, <3>3
      <4>2. Last(all) = tail[Len(tail)]
        BY <2>6, <2>11, <2>12, <3>3, <4>1
      <4> QED BY <2>4, <2>15, <2>16, <3>2, <4>1, <4>2
    <3>4. CASE Len(whole) = 0
      <4>1. Len(tail) = n /\ Len(tail) <= 3 /\ \A i \in 1..Len(tail) : tail[i].part > 1
        BY <2>4, <2>5, <2>6, <3>4
      <4>2. CASE widths[Len(widths)] = 4 /\ Len(b) - MaxCapture \in 1..3
        <5>1. SplitAtEnd
          BY <4>2 DEF SplitAtEnd, Widest, b
        <5> QED BY <3>2, <5>1
      <4>3. CASE ~(widths[Len(widths)] = 4 /\ Len(b) - MaxCapture \in 1..3)
        <5>1. Len(b) <= Len(lossy) /\ lossy[Len(lossy)].char = Len(widths)
          BY <2>2, <2>3, <2>12, <4>1, <4>3, NoTail
        <5> QED BY <2>2, <2>11, <2>12, <3>1, <3>2, <3>4, <5>1
      <4> QED BY <4>2, <4>3
    <3>5. Len(whole) \in Nat
      BY <2>6, PartsBounded
    <3> QED BY <3>3, <3>4, <3>5
  <2>13. FinishCapture(capture).head = lossy /\ FinishCapture(capture).tail = whole
         /\ FinishCapture(capture).total = total
    BY DEF FinishCapture, lossy, whole, total, head, tail
  <2>14. 2 * Widest = 8 /\ Widest = 4
    BY DEF Widest
  <2> QED BY <2>11, <2>12, <2>13, <2>14 DEF EndsKept, all, shown
<1> QED BY <1>1, CaptureInvHolds, PTL

-----------------------------------------------------------------------------
(* The two walks over a command satisfy their equations.                   *)

NextOf(cmd, i) == IF i = Len(cmd) THEN "end" ELSE cmd[i + 1]
IsWalk(f, cmd, m) == f = [i \in 0..m |-> IF i = 0 THEN Walk ELSE Read(f[i - 1], cmd[i], NextOf(cmd, i))]
IsKinds(f, cmd, m) == f = [i \in 1..m |-> KindAt(cmd, f, i)]
Walked(cmd) == CHOOSE f : IsWalk(f, cmd, Len(cmd))

LEMMA WalkExists ==
  ASSUME NEW cmd, NEW n \in Nat
  PROVE  \E f : IsWalk(f, cmd, n)
<1> DEFINE T == {m \in Nat : \E f : IsWalk(f, cmd, m)}
<1>1. 0 \in T
  <2> DEFINE f == [i \in 0..0 |-> Walk]
  <2>1. f = [i \in 0..0 |-> IF i = 0 THEN Walk ELSE Read(f[i - 1], cmd[i], NextOf(cmd, i))]
    OBVIOUS
  <2> HIDE DEF f
  <2> QED BY <2>1 DEF IsWalk
<1>2. ASSUME NEW m \in Nat, m \in T PROVE m + 1 \in T
  <2>1. PICK f : f = [i \in 0..m |-> IF i = 0 THEN Walk ELSE Read(f[i - 1], cmd[i], NextOf(cmd, i))]
    BY <1>2 DEF IsWalk
  <2> DEFINE g == [i \in 0..(m + 1) |-> IF i = 0 THEN Walk ELSE Read(f[i - 1], cmd[i], NextOf(cmd, i))]
  <2>2. \A i \in 0..m : g[i] = f[i]
    BY <2>1
  <2>3. \A i \in 0..(m + 1) : i = 0 \/ g[i - 1] = f[i - 1]
    <3> HIDE DEF g
    <3>1. \A i \in 0..(m + 1) : i = 0 \/ i - 1 \in 0..m
      OBVIOUS
    <3> QED BY <2>2, <3>1
  <2>4. g = [i \in 0..(m + 1) |-> IF i = 0 THEN Walk ELSE Read(g[i - 1], cmd[i], NextOf(cmd, i))]
    BY <2>3
  <2> HIDE DEF g
  <2> QED BY <2>4 DEF IsWalk
<1> HIDE DEF T
<1>3. n \in T
  BY <1>1, <1>2, Induction
<1> QED BY <1>3 DEF T

LEMMA WalkedSteps ==
  ASSUME NEW cmd, Len(cmd) \in Nat
  PROVE  /\ Walked(cmd)[0] = Walk
         /\ \A i \in 1..Len(cmd) : Walked(cmd)[i] = Read(Walked(cmd)[i - 1], cmd[i], NextOf(cmd, i))
         /\ ParseSegments(cmd) = PushSegment(Walked(cmd)[Len(cmd)]).out
<1> DEFINE f == Walked(cmd)
<1>1. f = [i \in 0..Len(cmd) |-> IF i = 0 THEN Walk ELSE Read(f[i - 1], cmd[i], NextOf(cmd, i))]
  BY WalkExists DEF IsWalk, Walked
<1>2. ParseSegments(cmd) = PushSegment(f[Len(cmd)]).out
  BY DEF ParseSegments, Walked, IsWalk, NextOf
<1> HIDE DEF f
<1>3. f[0] = Walk
  BY <1>1
<1>4. ASSUME NEW i \in 1..Len(cmd) PROVE f[i] = Read(f[i - 1], cmd[i], NextOf(cmd, i))
  <2>1. i \in 0..Len(cmd) /\ i # 0
    OBVIOUS
  <2> QED BY <1>1, <2>1
<1> QED BY <1>2, <1>3, <1>4 DEF f

(* The kind of a character depends on those before it only.                *)
LEMMA KindsAgree ==
  ASSUME NEW cmd, NEW f, NEW g, NEW i \in Nat \ {0}, \A j \in 1..(i - 1) : f[j] = g[j]
  PROVE  KindAt(cmd, f, i) = KindAt(cmd, g, i)
<1>1. \A q : Opened(f, q, i) <=> Opened(g, q, i)
  <2> TAKE q
  <2>1. {j \in 1..(i - 1) : f[j] = q} = {j \in 1..(i - 1) : g[j] = q}
    OBVIOUS
  <2> QED BY <2>1 DEF Opened
<1>2. i # 1 => f[i - 1] = g[i - 1]
  OBVIOUS
<1> QED BY <1>1, <1>2 DEF KindAt

LEMMA KindsExist ==
  ASSUME NEW cmd, NEW n \in Nat
  PROVE  \E f : IsKinds(f, cmd, n)
<1> DEFINE T == {m \in Nat : \E f : IsKinds(f, cmd, m)}
<1>1. 0 \in T
  <2> DEFINE f == [i \in 1..0 |-> "plain"]
  <2>1. f = [i \in 1..0 |-> KindAt(cmd, f, i)]
    OBVIOUS
  <2> HIDE DEF f
  <2> QED BY <2>1 DEF IsKinds
<1>2. ASSUME NEW m \in Nat, m \in T PROVE m + 1 \in T
  <2>1. PICK f : f = [i \in 1..m |-> KindAt(cmd, f, i)]
    BY <1>2 DEF IsKinds
  <2> DEFINE g == [i \in 1..(m + 1) |-> KindAt(cmd, f, i)]
  <2>2. \A i \in 1..m : g[i] = f[i]
    BY <2>1
  <2>3. ASSUME NEW i \in 1..(m + 1) PROVE KindAt(cmd, f, i) = KindAt(cmd, g, i)
    <3> HIDE DEF g
    <3>1. \A j \in 1..(i - 1) : f[j] = g[j]
      BY <2>2
    <3>2. i \in Nat \ {0}
      OBVIOUS
    <3> QED BY <3>1, <3>2, KindsAgree
  <2>4. g = [i \in 1..(m + 1) |-> KindAt(cmd, g, i)]
    BY <2>3
  <2> HIDE DEF g
  <2> QED BY <2>4 DEF IsKinds
<1> HIDE DEF T
<1>3. n \in T
  BY <1>1, <1>2, Induction
<1> QED BY <1>3 DEF T

LEMMA KindsSteps ==
  ASSUME NEW cmd, Len(cmd) \in Nat
  PROVE  DOMAIN Kinds(cmd) = 1..Len(cmd) /\ \A i \in 1..Len(cmd) : Kinds(cmd)[i] = KindAt(cmd, Kinds(cmd), i)
<1> DEFINE n == Len(cmd)
           f == CHOOSE g : IsKinds(g, cmd, n)
           h == SubSeq(f, 1, n)
<1>1. Kinds(cmd) = h
  BY DEF Kinds, IsKinds
<1>2. f = [i \in 1..n |-> KindAt(cmd, f, i)]
  BY KindsExist DEF IsKinds
<1> HIDE DEF f
<1>3. DOMAIN h = 1..n /\ \A i \in 1..n : h[i] = f[i]
  <2> DEFINE S == {f[i] : i \in 1..n}
  <2>1. \A i \in 1..n : f[i] \in S
    OBVIOUS
  <2> HIDE DEF S
  <2>2. /\ h \in Seq(S) /\ Len(h) = IF 1 <= n THEN n - 1 + 1 ELSE 0
        /\ \A i \in 1..(n - 1 + 1) : h[i] = f[1 + i - 1]
    BY <2>1, SubSeqProperties
  <2> HIDE DEF h
  <2>3. Len(h) = n /\ DOMAIN h = 1..Len(h)
    BY <2>2
  <2> QED BY <2>2, <2>3
<1> HIDE DEF h
<1>4. ASSUME NEW i \in 1..n PROVE h[i] = KindAt(cmd, h, i)
  <2>1. i \in Nat \ {0} /\ \A j \in 1..(i - 1) : f[j] = h[j]
    BY <1>3
  <2>2. KindAt(cmd, f, i) = KindAt(cmd, h, i)
    BY <2>1, KindsAgree
  <2> QED BY <1>2, <1>3, <2>2
<1> QED BY <1>1, <1>3, <1>4

-----------------------------------------------------------------------------
(* Counting positions.                                                     *)

LEMMA CountTo ==
  ASSUME NEW S, NEW r \in Nat
  PROVE  /\ IsFiniteSet(S \cap (1..r)) /\ Cardinality(S \cap (1..r)) \in Nat
         /\ Cardinality(S \cap (1..(r + 1))) = Cardinality(S \cap (1..r)) + (IF r + 1 \in S THEN 1 ELSE 0)
<1>1. IsFiniteSet(1..r)
  BY FS_Interval
<1>2. IsFiniteSet(S \cap (1..r))
  BY <1>1, FS_Subset
<1>3. Cardinality(S \cap (1..r)) \in Nat
  BY <1>2, FS_CardinalityType
<1>4. CASE r + 1 \in S
  <2>1. S \cap (1..(r + 1)) = (S \cap (1..r)) \cup {r + 1} /\ r + 1 \notin S \cap (1..r)
    BY <1>4
  <2> QED BY <1>2, <1>3, <1>4, <2>1, FS_AddElement
<1>5. CASE r + 1 \notin S
  <2>1. S \cap (1..(r + 1)) = S \cap (1..r)
    BY <1>5
  <2> QED BY <1>2, <1>3, <1>5, <2>1
<1> QED BY <1>4, <1>5

LEMMA CutsStep ==
  ASSUME NEW kind, NEW r \in Nat
  PROVE  /\ CutsBefore(kind, r + 1) \in Nat
         /\ CutsBefore(kind, r + 2) = CutsBefore(kind, r + 1) + (IF kind[r + 1] \in Separators THEN 1 ELSE 0)
<1> DEFINE S == {j \in Nat \ {0} : kind[j] \in Separators}
<1>1. /\ CutsBefore(kind, r + 1) = Cardinality(S \cap (1..r))
      /\ CutsBefore(kind, r + 2) = Cardinality(S \cap (1..(r + 1)))
  <2>1. {j \in 1..(r + 1 - 1) : kind[j] \in Separators} = S \cap (1..r)
    OBVIOUS
  <2>2. {j \in 1..(r + 2 - 1) : kind[j] \in Separators} = S \cap (1..(r + 1))
    OBVIOUS
  <2> QED BY <2>1, <2>2 DEF CutsBefore
<1>2. r + 1 \in S <=> kind[r + 1] \in Separators
  OBVIOUS
<1> HIDE DEF S
<1> QED BY <1>1, <1>2, CountTo

(* A separator can only move a later position to a later segment.          *)
LEMMA CutsGrow ==
  ASSUME NEW kind, NEW i \in Nat, NEW j \in Nat, i <= j
  PROVE  /\ CutsBefore(kind, i + 1) <= CutsBefore(kind, j + 1)
<1> DEFINE T == {d \in Nat : CutsBefore(kind, i + 1) <= CutsBefore(kind, i + d + 1)}
<1>1. 0 \in T
  BY CutsStep
<1>2. ASSUME NEW d \in Nat, d \in T PROVE d + 1 \in T
  <2> DEFINE r == i + d
  <2>1. CutsBefore(kind, r + 1) \in Nat /\ CutsBefore(kind, r + 2) \in Nat /\ CutsBefore(kind, i + 1) \in Nat
    <3>1. r + 1 \in Nat /\ r \in Nat /\ r + 2 = (r + 1) + 1
      OBVIOUS
    <3> HIDE DEF r
    <3> QED BY <3>1, CutsStep
  <2>2. CutsBefore(kind, r + 2) >= CutsBefore(kind, r + 1)
    <3>1. r \in Nat
      OBVIOUS
    <3> HIDE DEF r
    <3>2. CutsBefore(kind, r + 2) = CutsBefore(kind, r + 1) + (IF kind[r + 1] \in Separators THEN 1 ELSE 0)
      BY <3>1, CutsStep
    <3> QED BY <2>1, <3>2
  <2>3. i + (d + 1) + 1 = r + 2 /\ i + d + 1 = r + 1
    OBVIOUS
  <2> QED BY <1>2, <2>1, <2>2, <2>3
<1> HIDE DEF T
<1>3. j - i \in T
  BY <1>1, <1>2, Induction
<1>4. i + (j - i) + 1 = j + 1
  OBVIOUS
<1> QED BY <1>3, <1>4 DEF T

(* A quote is open until the next one of its sort.                         *)
LEMMA OpenedStep ==
  ASSUME NEW kind, NEW q, NEW r \in Nat
  PROVE  Opened(kind, q, r + 2) <=> (Opened(kind, q, r + 1) <=> kind[r + 1] # q)
<1> DEFINE S == {j \in Nat \ {0} : kind[j] = q}
           a == Cardinality(S \cap (1..r))
           b == Cardinality(S \cap (1..(r + 1)))
<1>1. /\ Opened(kind, q, r + 1) <=> a % 2 = 1
      /\ Opened(kind, q, r + 2) <=> b % 2 = 1
  <2>1. {j \in 1..(r + 1 - 1) : kind[j] = q} = S \cap (1..r)
    OBVIOUS
  <2>2. {j \in 1..(r + 2 - 1) : kind[j] = q} = S \cap (1..(r + 1))
    OBVIOUS
  <2> HIDE DEF S
  <2>3. a = Cardinality({j \in 1..(r + 1 - 1) : kind[j] = q})
    BY <2>1
  <2>4. b = Cardinality({j \in 1..(r + 2 - 1) : kind[j] = q})
    BY <2>2
  <2> HIDE DEF a, b
  <2> QED BY <2>3, <2>4 DEF Opened
<1>2. r + 1 \in S <=> kind[r + 1] = q
  OBVIOUS
<1> HIDE DEF S
<1>3. a \in Nat /\ b = a + (IF kind[r + 1] = q THEN 1 ELSE 0)
  BY <1>2, CountTo
<1> HIDE DEF a, b
<1>4. (a + 1) % 2 = 1 <=> a % 2 # 1
  BY <1>3
<1> QED BY <1>1, <1>3, <1>4

LEMMA OpenedFirst == ASSUME NEW kind, NEW q PROVE ~Opened(kind, q, 1)
<1>1. {j \in 1..(1 - 1) : kind[j] = q} = {}
  OBVIOUS
<1> QED BY <1>1, FS_EmptySet DEF Opened

LEMMA CutsFirst == ASSUME NEW kind PROVE CutsBefore(kind, 1) = 0
<1>1. {j \in 1..(1 - 1) : kind[j] \in Separators} = {}
  OBVIOUS
<1> QED BY <1>1, FS_EmptySet DEF CutsBefore

-----------------------------------------------------------------------------
(* What a set of positions spells.                                         *)

LEMMA PositionsFinite ==
  ASSUME NEW n \in Nat, NEW P \in SUBSET (1..n)
  PROVE  IsFiniteSet(P) /\ Cardinality(P) \in Nat /\ \A i \in P : i \in Nat /\ 1 <= i /\ i <= n
<1>1. IsFiniteSet(1..n)
  BY FS_Interval
<1>2. IsFiniteSet(P)
  BY <1>1, FS_Subset
<1> QED BY <1>2, FS_CardinalityType

LEMMA SpellsNothing ==
  ASSUME NEW cmd, NEW word \in Seq(Alphabet), NEW n \in Nat, NEW P \in SUBSET (1..n), Spells(word, cmd, P)
  PROVE  word = <<>> <=> P = {}
<1>1. IsFiniteSet(P)
  BY PositionsFinite
<1>2. Cardinality(P) = 0 <=> P = {}
  BY <1>1, FS_EmptySet
<1>3. Len(word) = Cardinality(P)
  BY DEF Spells
<1> QED BY <1>2, <1>3, EmptySeq

LEMMA NothingSpells == ASSUME NEW cmd PROVE Spells(<<>>, cmd, {})
  BY FS_EmptySet DEF Spells

LEMMA SpellsMore ==
  ASSUME NEW cmd, NEW word \in Seq(Alphabet), NEW r \in Nat, NEW P \in SUBSET (1..r),
         cmd[r + 1] \in Alphabet, Spells(word, cmd, P)
  PROVE  Spells(Append(word, cmd[r + 1]), cmd, P \cup {r + 1})
<1> DEFINE c == cmd[r + 1]
           Q == P \cup {r + 1}
<1>1. IsFiniteSet(P) /\ Cardinality(P) \in Nat /\ \A i \in P : i \in Nat /\ 1 <= i /\ i <= r
  BY PositionsFinite
<1>2. Cardinality(Q) = Cardinality(P) + 1
  <2>1. r + 1 \notin P
    OBVIOUS
  <2> QED BY <1>1, <2>1, FS_AddElement
<1>3. Len(word) = Cardinality(P) /\ \A i \in P : word[Cardinality({j \in P : j <= i})] = cmd[i]
  BY DEF Spells
<1>4. ASSUME NEW i \in P PROVE Append(word, c)[Cardinality({j \in Q : j <= i})] = cmd[i]
  <2> DEFINE R == {j \in P : j <= i}
  <2>1. {j \in Q : j <= i} = R
    OBVIOUS
  <2>2. IsFiniteSet(R) /\ Cardinality(R) \in Nat /\ Cardinality(R) <= Cardinality(P)
    BY <1>1, FS_Subset, FS_CardinalityType
  <2>3. Cardinality(R) # 0
    <3>1. i \in R
      OBVIOUS
    <3> QED BY <2>2, <3>1, FS_EmptySet
  <2>4. word[Cardinality(R)] = cmd[i]
    BY <1>3
  <2> HIDE DEF R
  <2>5. Cardinality(R) \in 1..Len(word)
    BY <2>2, <2>3, <1>3
  <2>6. Append(word, c)[Cardinality(R)] = word[Cardinality(R)]
    BY <2>5
  <2> QED BY <2>1, <2>4, <2>6
<1>5. Append(word, c)[Cardinality({j \in Q : j <= r + 1})] = c
  <2>1. {j \in Q : j <= r + 1} = Q
    <3>1. \A j \in Q : j <= r + 1
      BY <1>1
    <3> HIDE DEF Q
    <3> QED BY <3>1
  <2>2. Cardinality(Q) = Len(word) + 1
    BY <1>2, <1>3
  <2>3. c \in Alphabet /\ Append(word, c)[Len(word) + 1] = c
    OBVIOUS
  <2> HIDE DEF Q, c
  <2> QED BY <2>1, <2>2, <2>3
<1>6. Len(Append(word, c)) = Cardinality(Q)
  BY <1>2, <1>3
<1> QED BY <1>4, <1>5, <1>6 DEF Spells

(* Every place of a word is the rank of one of its positions.              *)
LEMMA Ranked ==
  ASSUME NEW n \in Nat, NEW P \in SUBSET (1..n), NEW m \in 1..Cardinality(P)
  PROVE  \E i \in P : Cardinality({j \in P : j <= i}) = m
<1> DEFINE at(r) == Cardinality(P \cap (1..r))
           T == {r \in Nat : \A x \in 1..at(r) : \E i \in P : at(i) = x}
<1>1. 0 \in T
  <2>1. P \cap (1..0) = {}
    OBVIOUS
  <2> QED BY <2>1, FS_EmptySet
<1>2. ASSUME NEW r \in Nat, r \in T PROVE r + 1 \in T
  <2>1. at(r) \in Nat /\ at(r + 1) = at(r) + (IF r + 1 \in P THEN 1 ELSE 0)
    BY CountTo
  <2>2. \A x \in 1..at(r) : \E i \in P : at(i) = x
    BY <1>2
  <2> HIDE DEF at
  <2>3. ASSUME NEW x \in 1..at(r + 1) PROVE \E i \in P : at(i) = x
    <3>1. CASE x \in 1..at(r)
      BY <3>1, <2>2
    <3>2. CASE x \notin 1..at(r)
      <4>1. r + 1 \in P /\ at(r + 1) = x
        BY <3>2, <2>1
      <4> QED BY <4>1
    <3> QED BY <3>1, <3>2
  <2> QED BY <2>3
<1> HIDE DEF T
<1>3. n \in T
  BY <1>1, <1>2, Induction
<1>4. P \cap (1..n) = P /\ \A i \in P : P \cap (1..i) = {j \in P : j <= i}
  <2>1. \A i \in P : i \in Nat /\ 1 <= i /\ i <= n
    BY PositionsFinite
  <2>2. P \cap (1..n) = P
    BY <2>1
  <2>3. ASSUME NEW i \in P PROVE P \cap (1..i) = {j \in P : j <= i}
    <3>1. i \in Nat /\ \A j \in P : j \in 1..i <=> j <= i
      BY <2>1
    <3> QED BY <3>1
  <2> QED BY <2>2, <2>3
<1> QED BY <1>3, <1>4 DEF T

LEMMA SpellsOne ==
  ASSUME NEW cmd, NEW n \in Nat, NEW P \in SUBSET (1..n), NEW v \in Seq(Alphabet), NEW w \in Seq(Alphabet),
         Spells(v, cmd, P), Spells(w, cmd, P)
  PROVE  v = w
<1>1. Len(v) = Cardinality(P) /\ Len(w) = Cardinality(P)
  BY DEF Spells
<1>2. ASSUME NEW m \in 1..Cardinality(P) PROVE v[m] = w[m]
  <2>1. PICK i \in P : Cardinality({j \in P : j <= i}) = m
    BY Ranked
  <2> QED BY <2>1 DEF Spells
<1> QED BY <1>1, <1>2, SeqEqual

-----------------------------------------------------------------------------
(* A word added behind others.                                             *)

(* The positions B are one word behind all of D.                           *)
Apart(kind, D, B) ==
  /\ \A i \in B : \A j \in D : j < i /\ \E m \in j..i : kind[m] \in Breaks
  /\ \A i \in B : \A j \in B : \A m \in j..i : kind[m] \notin Breaks

(* The words of a segment that the walk has at the positions D.            *)
WordsAt(cur, seen, cmd, kind, D) ==
  /\ Spells(cur.first, cmd, FirstWord(kind, D))
  /\ Spells(cur.second, cmd, SecondWord(kind, D))
  /\ seen = IF D = {} THEN 0 ELSE IF D \ FirstWord(kind, D) = {} THEN 1 ELSE 2

LEMMA WordAdded ==
  ASSUME NEW kind, NEW D \in SUBSET Nat, NEW B \in SUBSET Nat, Apart(kind, D, B)
  PROVE  /\ B \cap D = {}
         /\ FirstWord(kind, D \cup B) = IF D = {} THEN B ELSE FirstWord(kind, D)
<1>1. \A i \in B : \A j \in D : j < i /\ \E m \in j..i : kind[m] \in Breaks
  BY DEF Apart
<1>2. \A i \in B : \A j \in B : \A m \in j..i : kind[m] \notin Breaks
  BY DEF Apart
<1>3. B \cap D = {}
  BY <1>1
<1>4. CASE D = {}
  <2>1. FirstWord(kind, B) = B
    BY <1>2 DEF FirstWord
  <2>2. D \cup B = B
    BY <1>4
  <2> QED BY <1>3, <1>4, <2>1, <2>2
<1>5. CASE D # {}
  <2>1. ASSUME NEW i \in D PROVE i \in FirstWord(kind, D \cup B) <=> i \in FirstWord(kind, D)
    <3>1. \A j \in B : j..i = {}
      <4> TAKE j \in B
      <4>1. i < j /\ i \in Nat /\ j \in Nat
        BY <1>1, <2>1
      <4> QED BY <4>1
    <3> QED BY <2>1, <3>1 DEF FirstWord
  <2>2. ASSUME NEW i \in B PROVE i \notin FirstWord(kind, D \cup B)
    <3>1. PICK j \in D : TRUE
      BY <1>5
    <3>2. \E m \in j..i : kind[m] \in Breaks
      BY <1>1, <3>1
    <3> QED BY <3>1, <3>2 DEF FirstWord
  <2>3. FirstWord(kind, D \cup B) \subseteq D \cup B /\ FirstWord(kind, D) \subseteq D
    BY DEF FirstWord
  <2>4. FirstWord(kind, D \cup B) = FirstWord(kind, D)
    BY <2>1, <2>2, <2>3
  <2> QED BY <1>3, <1>5, <2>4
<1> QED BY <1>4, <1>5

WordsJoin(kind, D, B) ==
  LET C == D \cup B
      E == D \ FirstWord(kind, D)
  IN /\ FirstWord(kind, C) = IF D = {} THEN B ELSE FirstWord(kind, D)
     /\ SecondWord(kind, C) = IF D = {} THEN {} ELSE IF E = {} THEN B ELSE SecondWord(kind, D)
     /\ C \ FirstWord(kind, C) = IF D = {} THEN {} ELSE E \cup B

LEMMA WordsAdded ==
  ASSUME NEW kind, NEW D \in SUBSET Nat, NEW B \in SUBSET Nat, Apart(kind, D, B)
  PROVE  WordsJoin(kind, D, B)
<1> DEFINE E == D \ FirstWord(kind, D)
           C == D \cup B
<1>1. B \cap D = {} /\ FirstWord(kind, C) = IF D = {} THEN B ELSE FirstWord(kind, D)
  BY WordAdded
<1>2. FirstWord(kind, D) \subseteq D
  BY DEF FirstWord
<1>3. C \ FirstWord(kind, C) = IF D = {} THEN {} ELSE E \cup B
  BY <1>1, <1>2
<1>4. E \in SUBSET Nat /\ Apart(kind, E, B)
  BY DEF Apart
<1>5. FirstWord(kind, E \cup B) = IF E = {} THEN B ELSE FirstWord(kind, E)
  <2> HIDE DEF E
  <2> QED BY <1>4, WordAdded
<1>6. FirstWord(kind, {}) = {}
  BY DEF FirstWord
<1>7. SecondWord(kind, D) = FirstWord(kind, E) /\ SecondWord(kind, C) = FirstWord(kind, C \ FirstWord(kind, C))
  BY DEF SecondWord
<1> HIDE DEF E, C
<1>8. SecondWord(kind, C) = IF D = {} THEN {} ELSE IF E = {} THEN B ELSE SecondWord(kind, D)
  BY <1>3, <1>5, <1>6, <1>7
<1> QED BY <1>1, <1>3, <1>8 DEF E, C, WordsJoin

-----------------------------------------------------------------------------
(* The states of the walk.                                                 *)

SegmentType == [first: Seq(Alphabet), second: Seq(Alphabet), redirects: BOOLEAN]
WalkType == [out: Seq(SegmentType), cur: SegmentType, seen: 0..2, buf: Seq(Alphabet),
             quote: {"none", "single", "double"}, skip: {0, 1}]

LEMMA WalkOf ==
  ASSUME NEW o \in Seq(SegmentType), NEW c \in SegmentType, NEW s \in 0..2, NEW b \in Seq(Alphabet),
         NEW q \in {"none", "single", "double"}, NEW k \in {0, 1}
  PROVE  [out |-> o, cur |-> c, seen |-> s, buf |-> b, quote |-> q, skip |-> k] \in WalkType
  BY DEF WalkType

LEMMA WalkParts ==
  ASSUME NEW w \in WalkType
  PROVE  /\ w.out \in Seq(SegmentType) /\ w.cur \in SegmentType /\ w.seen \in 0..2 /\ w.buf \in Seq(Alphabet)
         /\ w.quote \in {"none", "single", "double"} /\ w.skip \in {0, 1}
         /\ w.cur.first \in Seq(Alphabet) /\ w.cur.second \in Seq(Alphabet) /\ w.cur.redirects \in BOOLEAN
<1>1. w.cur \in SegmentType
  BY DEF WalkType
<1> QED BY <1>1 DEF WalkType, SegmentType

LEMMA WalkBegins ==
  /\ Segment \in SegmentType /\ Segment.first = <<>> /\ Segment.second = <<>> /\ Segment.redirects = FALSE
  /\ Walk \in WalkType
<1>1. Segment \in SegmentType
  BY DEF Segment, SegmentType, NoWord
<1>2. Walk \in WalkType
  <2>1. <<>> \in Seq(SegmentType) /\ <<>> \in Seq(Alphabet) /\ 0 \in 0..2 /\ "none" \in {"none", "single", "double"} /\ 0 \in {0, 1}
    OBVIOUS
  <2> QED BY <1>1, <2>1, WalkOf DEF Walk
<1> QED BY <1>1, <1>2 DEF Segment, NoWord

LEMMA TokenPushed ==
  ASSUME NEW cmd, NEW kind, NEW n \in Nat, NEW D \in SUBSET (1..n), NEW B \in SUBSET (1..n), Apart(kind, D, B),
         NEW w \in WalkType, Spells(w.buf, cmd, B), WordsAt(w.cur, w.seen, cmd, kind, D)
  PROVE  LET v == PushToken(w)
         IN /\ v \in WalkType
            /\ v.out = w.out /\ v.quote = w.quote /\ v.skip = w.skip
            /\ v.buf = <<>> /\ v.cur.redirects = w.cur.redirects
            /\ WordsAt(v.cur, v.seen, cmd, kind, D \cup B)
<1> DEFINE v == PushToken(w)
           C == D \cup B
           E == D \ FirstWord(kind, D)
<1>1. w.buf = <<>> <=> B = {}
  BY SpellsNothing DEF WalkType
<1>2. D \in SUBSET Nat /\ B \in SUBSET Nat
  BY PositionsFinite
<1>3. /\ FirstWord(kind, C) = IF D = {} THEN B ELSE FirstWord(kind, D)
      /\ SecondWord(kind, C) = IF D = {} THEN {} ELSE IF E = {} THEN B ELSE SecondWord(kind, D)
      /\ C \ FirstWord(kind, C) = IF D = {} THEN {} ELSE E \cup B
  <2>1. WordsJoin(kind, D, B)
    BY <1>2, WordsAdded
  <2> QED BY <2>1 DEF WordsJoin
<1>4. w.seen = IF D = {} THEN 0 ELSE IF E = {} THEN 1 ELSE 2
  BY DEF WordsAt
<1>5. C = {} <=> D = {} /\ B = {}
  OBVIOUS
<1>6. Spells(w.cur.first, cmd, FirstWord(kind, D)) /\ Spells(w.cur.second, cmd, SecondWord(kind, D))
  BY DEF WordsAt
<1>7. D = {} => FirstWord(kind, D) = {} /\ SecondWord(kind, D) = {}
  BY DEF FirstWord, SecondWord
<1>8. CASE w.buf = <<>>
  <2>1. v = w /\ C = D
    BY <1>1, <1>8 DEF PushToken
  <2> QED BY <1>8, <2>1
<1>9. CASE w.buf # <<>> /\ w.seen = 0
  <2>1. v = [w EXCEPT !.cur.first = w.buf, !.buf = <<>>, !.seen = 1]
    BY <1>9 DEF PushToken
  <2>2. D = {} /\ B # {}
    BY <1>1, <1>4, <1>9
  <2>3. /\ v \in WalkType
        /\ v.out = w.out /\ v.quote = w.quote /\ v.skip = w.skip
        /\ v.buf = <<>> /\ v.cur.redirects = w.cur.redirects
        /\ v.cur.first = w.buf /\ v.cur.second = w.cur.second /\ v.seen = 1
    <3>1. v = [out |-> w.out, cur |-> [w.cur EXCEPT !.first = w.buf], seen |-> 1, buf |-> <<>>, quote |-> w.quote, skip |-> w.skip]
      BY <2>1 DEF WalkType
    <3> DEFINE c == [w.cur EXCEPT !.first = w.buf]
    <3>2. c \in SegmentType /\ c.first = w.buf /\ c.second = w.cur.second /\ c.redirects = w.cur.redirects
      BY WalkParts DEF SegmentType
    <3> HIDE DEF c
    <3>3. v = [out |-> w.out, cur |-> c, seen |-> 1, buf |-> <<>>, quote |-> w.quote, skip |-> w.skip]
      BY <3>1 DEF c
    <3>4. w.out \in Seq(SegmentType) /\ 1 \in 0..2 /\ <<>> \in Seq(Alphabet) /\ w.quote \in {"none", "single", "double"} /\ w.skip \in {0, 1}
      BY WalkParts
    <3> HIDE DEF v
    <3>5. v \in WalkType
      BY <3>2, <3>3, <3>4, WalkOf
    <3> QED BY <3>2, <3>3, <3>5 DEF c
  <2> HIDE DEF v, C, E
  <2>4. WordsAt(v.cur, v.seen, cmd, kind, C)
    BY <1>3, <1>5, <1>6, <1>7, <2>2, <2>3 DEF WordsAt
  <2> QED BY <2>3, <2>4 DEF v, C
<1>10. CASE w.buf # <<>> /\ w.seen = 1
  <2>1. v = [w EXCEPT !.cur.second = w.buf, !.buf = <<>>, !.seen = 2]
    BY <1>10 DEF PushToken
  <2>2. D # {} /\ E = {} /\ B # {}
    BY <1>1, <1>4, <1>10
  <2>3. /\ v \in WalkType
        /\ v.out = w.out /\ v.quote = w.quote /\ v.skip = w.skip
        /\ v.buf = <<>> /\ v.cur.redirects = w.cur.redirects
        /\ v.cur.first = w.cur.first /\ v.cur.second = w.buf /\ v.seen = 2
    <3>1. v = [out |-> w.out, cur |-> [w.cur EXCEPT !.second = w.buf], seen |-> 2, buf |-> <<>>, quote |-> w.quote, skip |-> w.skip]
      BY <2>1 DEF WalkType
    <3> DEFINE c == [w.cur EXCEPT !.second = w.buf]
    <3>2. c \in SegmentType /\ c.first = w.cur.first /\ c.second = w.buf /\ c.redirects = w.cur.redirects
      BY WalkParts DEF SegmentType
    <3> HIDE DEF c
    <3>3. v = [out |-> w.out, cur |-> c, seen |-> 2, buf |-> <<>>, quote |-> w.quote, skip |-> w.skip]
      BY <3>1 DEF c
    <3>4. w.out \in Seq(SegmentType) /\ 2 \in 0..2 /\ <<>> \in Seq(Alphabet) /\ w.quote \in {"none", "single", "double"} /\ w.skip \in {0, 1}
      BY WalkParts
    <3> HIDE DEF v
    <3>5. v \in WalkType
      BY <3>2, <3>3, <3>4, WalkOf
    <3> QED BY <3>2, <3>3, <3>5 DEF c
  <2> HIDE DEF v, C, E
  <2>4. WordsAt(v.cur, v.seen, cmd, kind, C)
    BY <1>3, <1>5, <1>6, <2>2, <2>3 DEF WordsAt
  <2> QED BY <2>3, <2>4 DEF v, C
<1>11. CASE w.buf # <<>> /\ w.seen = 2
  <2>1. v = [w EXCEPT !.buf = <<>>]
    BY <1>11 DEF PushToken
  <2>2. D # {} /\ E # {} /\ B # {}
    BY <1>1, <1>4, <1>11
  <2>3. /\ v \in WalkType
        /\ v.out = w.out /\ v.quote = w.quote /\ v.skip = w.skip
        /\ v.buf = <<>> /\ v.cur = w.cur /\ v.seen = 2
    <3>1. v = [out |-> w.out, cur |-> w.cur, seen |-> 2, buf |-> <<>>, quote |-> w.quote, skip |-> w.skip]
      BY <2>1, <1>11 DEF WalkType
    <3> DEFINE c == w.cur
    <3>2. c \in SegmentType
      BY WalkParts
    <3> HIDE DEF c
    <3>3. v = [out |-> w.out, cur |-> c, seen |-> 2, buf |-> <<>>, quote |-> w.quote, skip |-> w.skip]
      BY <3>1 DEF c
    <3>4. w.out \in Seq(SegmentType) /\ 2 \in 0..2 /\ <<>> \in Seq(Alphabet) /\ w.quote \in {"none", "single", "double"} /\ w.skip \in {0, 1}
      BY WalkParts
    <3> HIDE DEF v
    <3>5. v \in WalkType
      BY <3>2, <3>3, <3>4, WalkOf
    <3> QED BY <3>2, <3>3, <3>5 DEF c
  <2> HIDE DEF v, C, E
  <2>4. WordsAt(v.cur, v.seen, cmd, kind, C)
    BY <1>3, <1>5, <1>6, <2>2, <2>3 DEF WordsAt
  <2> QED BY <2>3, <2>4 DEF v, C
<1>12. w.seen \in {0, 1, 2}
  BY DEF WalkType
<1> QED BY <1>8, <1>9, <1>10, <1>11, <1>12

-----------------------------------------------------------------------------
(* The open segment after the first r characters.                          *)

InStretch(kind, r) ==
  {i \in DOMAIN kind : i <= r /\ kind[i] \notin Separators /\ CutsBefore(kind, i) = CutsBefore(kind, r + 1)}
OpenTo(kind, r) == {i \in InStretch(kind, r) : kind[i] \in Written}

(* The word being read, and what is behind it in the segment.              *)
Current(kind, r) == {i \in OpenTo(kind, r) : \A m \in i..r : kind[m] \notin Breaks}
Behind(kind, r) == OpenTo(kind, r) \ Current(kind, r)

LEMMA StretchStep ==
  ASSUME NEW kind, NEW n \in Nat, DOMAIN kind = 1..n, NEW r \in Nat, r < n
  PROVE  InStretch(kind, r + 1) = IF kind[r + 1] \in Separators THEN {} ELSE InStretch(kind, r) \cup {r + 1}
<1>1. /\ CutsBefore(kind, r + 1) \in Nat
      /\ CutsBefore(kind, r + 2) = CutsBefore(kind, r + 1) + (IF kind[r + 1] \in Separators THEN 1 ELSE 0)
  BY CutsStep
<1>2. r + 1 + 1 = r + 2 /\ r + 1 \in DOMAIN kind
  OBVIOUS
<1>3. CASE kind[r + 1] \in Separators
  <2> SUFFICES ASSUME NEW i \in DOMAIN kind, i <= r + 1, CutsBefore(kind, i) = CutsBefore(kind, r + 2) PROVE FALSE
    BY <1>2, <1>3 DEF InStretch
  <2>1. i - 1 \in Nat /\ i - 1 <= r /\ i - 1 + 1 = i
    OBVIOUS
  <2>2. CutsBefore(kind, i - 1 + 1) <= CutsBefore(kind, r + 1)
    BY <2>1, CutsGrow
  <2> QED BY <1>1, <1>3, <2>1, <2>2
<1>4. CASE kind[r + 1] \notin Separators
  <2>1. CutsBefore(kind, r + 2) = CutsBefore(kind, r + 1)
    BY <1>1, <1>4
  <2>2. \A i \in DOMAIN kind : i <= r + 1 <=> i <= r \/ i = r + 1
    OBVIOUS
  <2> QED BY <1>2, <1>4, <2>1, <2>2 DEF InStretch
<1> QED BY <1>3, <1>4

LEMMA Sorts ==
  /\ \A s \in Written : s \notin Breaks /\ s \notin Separators
  /\ \A s \in Breaks : s \notin Separators
  BY DEF Written, Breaks, Separators, Redirects

LEMMA OpenWithin ==
  ASSUME NEW kind, NEW n \in Nat, DOMAIN kind = 1..n, NEW r \in Nat
  PROVE  /\ InStretch(kind, r) \in SUBSET (1..r) /\ OpenTo(kind, r) \in SUBSET (1..r)
         /\ Current(kind, r) \in SUBSET (1..r) /\ Behind(kind, r) \in SUBSET (1..r)
         /\ Behind(kind, r) \cup Current(kind, r) = OpenTo(kind, r)
<1>1. InStretch(kind, r) \in SUBSET (1..r)
  BY DEF InStretch
<1>2. /\ OpenTo(kind, r) \subseteq InStretch(kind, r) /\ Current(kind, r) \subseteq OpenTo(kind, r)
      /\ Behind(kind, r) \subseteq OpenTo(kind, r)
  BY DEF OpenTo, Current, Behind
<1> QED BY <1>1, <1>2 DEF Behind

LEMMA OpenStep ==
  ASSUME NEW kind, NEW n \in Nat, DOMAIN kind = 1..n, NEW r \in Nat, r < n
  PROVE  /\ kind[r + 1] \in Separators =>
              OpenTo(kind, r + 1) = {} /\ Current(kind, r + 1) = {} /\ Behind(kind, r + 1) = {}
         /\ kind[r + 1] \in Breaks =>
              Current(kind, r + 1) = {} /\ Behind(kind, r + 1) = OpenTo(kind, r)
         /\ kind[r + 1] \in Written =>
              Current(kind, r + 1) = Current(kind, r) \cup {r + 1} /\ Behind(kind, r + 1) = Behind(kind, r)
         /\ kind[r + 1] \notin Separators \cup Breaks \cup Written =>
              Current(kind, r + 1) = Current(kind, r) /\ Behind(kind, r + 1) = Behind(kind, r)
<1>1. InStretch(kind, r + 1) = IF kind[r + 1] \in Separators THEN {} ELSE InStretch(kind, r) \cup {r + 1}
  BY StretchStep
<1>2. OpenTo(kind, r) \in SUBSET (1..r)
  BY OpenWithin
<1>3. ASSUME NEW i \in OpenTo(kind, r)
      PROVE  (\A m \in i..(r + 1) : kind[m] \notin Breaks) <=> (\A m \in i..r : kind[m] \notin Breaks) /\ kind[r + 1] \notin Breaks
  <2>1. i \in Nat /\ i <= r
    BY <1>2
  <2>2. \A m : m \in i..(r + 1) <=> m \in i..r \/ m = r + 1
    BY <2>1
  <2> QED BY <2>2
<1>4. CASE kind[r + 1] \in Separators
  <2>1. kind[r + 1] \notin Breaks \cup Written
    BY <1>4, Sorts
  <2> QED BY <1>1, <1>4, <2>1 DEF OpenTo, Current, Behind
<1>5. CASE kind[r + 1] \in Breaks
  <2>1. kind[r + 1] \notin Separators \cup Written
    BY <1>5, Sorts
  <2>2. OpenTo(kind, r + 1) = OpenTo(kind, r)
    BY <1>1, <2>1 DEF OpenTo
  <2>3. Current(kind, r + 1) = {}
    BY <1>3, <1>5, <2>2 DEF Current
  <2> QED BY <1>5, <2>1, <2>2, <2>3 DEF Behind
<1>6. CASE kind[r + 1] \in Written
  <2>1. kind[r + 1] \notin Separators \cup Breaks
    BY <1>6, Sorts
  <2>2. OpenTo(kind, r + 1) = OpenTo(kind, r) \cup {r + 1}
    BY <1>1, <1>6, <2>1 DEF OpenTo
  <2>3. \A m \in (r + 1)..(r + 1) : m = r + 1
    OBVIOUS
  <2>4. Current(kind, r + 1) = Current(kind, r) \cup {r + 1}
    BY <1>3, <2>1, <2>2, <2>3 DEF Current
  <2>5. r + 1 \notin OpenTo(kind, r)
    BY <1>2
  <2> QED BY <1>6, <2>1, <2>2, <2>4, <2>5 DEF Behind
<1>7. CASE kind[r + 1] \notin Separators \cup Breaks \cup Written
  <2>1. OpenTo(kind, r + 1) = OpenTo(kind, r)
    BY <1>1, <1>7 DEF OpenTo
  <2>2. Current(kind, r + 1) = Current(kind, r)
    BY <1>3, <1>7, <2>1 DEF Current
  <2> QED BY <1>7, <2>1, <2>2 DEF Behind
<1> QED BY <1>4, <1>5, <1>6, <1>7

LEMMA OpenApart ==
  ASSUME NEW kind, NEW n \in Nat, DOMAIN kind = 1..n, NEW r \in Nat
  PROVE  Apart(kind, Behind(kind, r), Current(kind, r))
<1>1. \A i \in OpenTo(kind, r) : i \in Nat /\ i <= r
  BY OpenWithin
<1>2. ASSUME NEW i \in Current(kind, r), NEW j \in Behind(kind, r)
      PROVE  j < i /\ \E m \in j..i : kind[m] \in Breaks
  <2>1. i \in Nat /\ i <= r /\ j \in Nat /\ j <= r
    BY <1>1 DEF Current, Behind
  <2>2. PICK m \in j..r : kind[m] \in Breaks
    BY DEF Current, Behind
  <2>3. m \notin i..r
    BY <2>2 DEF Current
  <2> QED BY <2>1, <2>2, <2>3
<1>3. ASSUME NEW i \in Current(kind, r), NEW j \in Current(kind, r), NEW m \in j..i
      PROVE  kind[m] \notin Breaks
  <2>1. m \in j..r
    BY <1>1 DEF Current
  <2> QED BY <2>1 DEF Current
<1> QED BY <1>2, <1>3 DEF Apart

(* A segment is all read at a separator and at the end.                    *)
LEMMA StretchClosed ==
  ASSUME NEW kind, NEW n \in Nat, DOMAIN kind = 1..n, NEW r \in 0..n, r < n => kind[r + 1] \in Separators
  PROVE  LET k == CutsBefore(kind, r + 1) + 1
         IN Stretch(kind, k) = InStretch(kind, r) /\ CharsOf(kind, k) = OpenTo(kind, r)
<1> DEFINE k == CutsBefore(kind, r + 1) + 1
<1>1. CutsBefore(kind, r + 1) \in Nat /\ k - 1 = CutsBefore(kind, r + 1)
  BY CutsStep
<1>2. ASSUME NEW i \in DOMAIN kind, kind[i] \notin Separators, CutsBefore(kind, i) = CutsBefore(kind, r + 1), ~(i <= r)
      PROVE  FALSE
  <2>1. r < n /\ i # r + 1
    BY <1>2
  <2>2. i - 1 \in Nat /\ r + 1 \in Nat /\ r + 1 <= i - 1 /\ i - 1 + 1 = i /\ r + 1 + 1 = r + 2
    BY <1>2, <2>1
  <2>3. CutsBefore(kind, r + 1 + 1) <= CutsBefore(kind, i - 1 + 1)
    BY <2>2, CutsGrow
  <2>4. CutsBefore(kind, r + 2) = CutsBefore(kind, r + 1) + 1
    BY <2>1, CutsStep
  <2> QED BY <1>1, <1>2, <2>2, <2>3, <2>4
<1>3. Stretch(kind, k) = InStretch(kind, r)
  BY <1>1, <1>2 DEF Stretch, InStretch
<1> QED BY <1>3 DEF CharsOf, OpenTo

-----------------------------------------------------------------------------
(* What the walk has read of the first r characters.                       *)

OpenAt(w, cmd, kind, r) ==
  /\ Len(w.out) = CutsBefore(kind, r + 1)
  /\ \A k \in 1..Len(w.out) : SegmentOf(w.out[k], cmd, kind, k)
  /\ Spells(w.buf, cmd, Current(kind, r))
  /\ WordsAt(w.cur, w.seen, cmd, kind, Behind(kind, r))
  /\ w.cur.redirects <=> \E i \in InStretch(kind, r) : kind[i] \in Redirects

SameText(v, w) == v.out = w.out /\ v.cur = w.cur /\ v.seen = w.seen /\ v.buf = w.buf

LEMMA OpenSame ==
  ASSUME NEW cmd, NEW kind, NEW r, NEW w, NEW v, SameText(v, w), OpenAt(w, cmd, kind, r)
  PROVE  OpenAt(v, cmd, kind, r)
  BY DEF SameText, OpenAt

(* No redirection is among what is no operator.                            *)
LEMMA RedirectsStep ==
  ASSUME NEW kind, NEW n \in Nat, DOMAIN kind = 1..n, NEW r \in Nat, r < n, kind[r + 1] \notin Separators
  PROVE  /\ CutsBefore(kind, r + 2) = CutsBefore(kind, r + 1)
         /\ (\E i \in InStretch(kind, r + 1) : kind[i] \in Redirects) <=>
               (\E i \in InStretch(kind, r) : kind[i] \in Redirects) \/ kind[r + 1] \in Redirects
<1>1. InStretch(kind, r + 1) = InStretch(kind, r) \cup {r + 1}
  BY StretchStep
<1>2. CutsBefore(kind, r + 2) = CutsBefore(kind, r + 1)
  BY CutsStep
<1> QED BY <1>1, <1>2

LEMMA OpenSilent ==
  ASSUME NEW cmd, NEW kind, NEW n \in Nat, DOMAIN kind = 1..n, NEW r \in Nat, r < n,
         kind[r + 1] \notin Separators \cup Breaks \cup Written,
         NEW w, OpenAt(w, cmd, kind, r)
  PROVE  OpenAt(w, cmd, kind, r + 1)
<1>1. Current(kind, r + 1) = Current(kind, r) /\ Behind(kind, r + 1) = Behind(kind, r)
  BY OpenStep
<1>2. kind[r + 1] \notin Separators /\ kind[r + 1] \notin Redirects /\ r + 1 + 1 = r + 2
  BY DEF Breaks
<1>3. /\ CutsBefore(kind, r + 2) = CutsBefore(kind, r + 1)
      /\ (\E i \in InStretch(kind, r + 1) : kind[i] \in Redirects) <=>
            (\E i \in InStretch(kind, r) : kind[i] \in Redirects) \/ kind[r + 1] \in Redirects
  BY <1>2, RedirectsStep
<1> QED BY <1>1, <1>2, <1>3 DEF OpenAt

LEMMA OpenChar ==
  ASSUME NEW cmd, NEW kind, NEW n \in Nat, DOMAIN kind = 1..n, NEW r \in Nat, r < n,
         kind[r + 1] \in Written, cmd[r + 1] \in Alphabet,
         NEW w \in WalkType, OpenAt(w, cmd, kind, r)
  PROVE  LET v == PushChar(w, cmd[r + 1])
         IN /\ v \in WalkType /\ v.quote = w.quote /\ v.skip = w.skip
            /\ OpenAt(v, cmd, kind, r + 1)
<1> DEFINE c == cmd[r + 1]
           v == PushChar(w, c)
<1>1. v = [out |-> w.out, cur |-> w.cur, seen |-> w.seen, buf |-> Append(w.buf, c), quote |-> w.quote, skip |-> w.skip]
  <2> DEFINE b == Append(w.buf, c)
  <2>1. v = [w EXCEPT !.buf = b]
    BY DEF PushChar
  <2> HIDE DEF b, v
  <2>2. v = [out |-> w.out, cur |-> w.cur, seen |-> w.seen, buf |-> b, quote |-> w.quote, skip |-> w.skip]
    BY <2>1 DEF WalkType
  <2> QED BY <2>2 DEF b
<1>2. w.out \in Seq(SegmentType) /\ w.cur \in SegmentType /\ w.seen \in 0..2 /\ Append(w.buf, c) \in Seq(Alphabet)
      /\ w.quote \in {"none", "single", "double"} /\ w.skip \in {0, 1} /\ w.buf \in Seq(Alphabet)
  BY WalkParts
<1>3. [out |-> w.out, cur |-> w.cur, seen |-> w.seen, buf |-> Append(w.buf, c), quote |-> w.quote, skip |-> w.skip]
        \in WalkType
  BY <1>2, WalkOf
<1>4. v \in WalkType /\ v.out = w.out /\ v.cur = w.cur /\ v.seen = w.seen /\ v.buf = Append(w.buf, c)
      /\ v.quote = w.quote /\ v.skip = w.skip
  BY <1>1, <1>3
<1>5. Current(kind, r + 1) = Current(kind, r) \cup {r + 1} /\ Behind(kind, r + 1) = Behind(kind, r)
  BY OpenStep
<1>6. kind[r + 1] \notin Separators /\ kind[r + 1] \notin Redirects /\ r + 1 + 1 = r + 2
  BY Sorts DEF Breaks
<1>7. /\ CutsBefore(kind, r + 2) = CutsBefore(kind, r + 1)
      /\ (\E i \in InStretch(kind, r + 1) : kind[i] \in Redirects) <=>
            (\E i \in InStretch(kind, r) : kind[i] \in Redirects) \/ kind[r + 1] \in Redirects
  BY <1>6, RedirectsStep
<1>8. Spells(Append(w.buf, c), cmd, Current(kind, r) \cup {r + 1})
  <2>1. Current(kind, r) \in SUBSET (1..r) /\ Spells(w.buf, cmd, Current(kind, r))
    BY OpenWithin DEF OpenAt
  <2> QED BY <1>2, <2>1, SpellsMore
<1> HIDE DEF v, c
<1>9. OpenAt(v, cmd, kind, r + 1)
  BY <1>4, <1>5, <1>6, <1>7, <1>8 DEF OpenAt
<1> QED BY <1>4, <1>9 DEF v, c

(* The open word is closed: at every break, and before every separator.    *)
LEMMA OpenWord ==
  ASSUME NEW cmd, NEW kind, NEW n \in Nat, DOMAIN kind = 1..n, NEW r \in Nat,
         NEW w \in WalkType, OpenAt(w, cmd, kind, r)
  PROVE  LET v == PushToken(w)
         IN /\ v \in WalkType
            /\ v.out = w.out /\ v.quote = w.quote /\ v.skip = w.skip
            /\ v.buf = <<>> /\ v.cur.redirects = w.cur.redirects
            /\ WordsAt(v.cur, v.seen, cmd, kind, OpenTo(kind, r))
<1> DEFINE D == Behind(kind, r)
           B == Current(kind, r)
<1>1. D \in SUBSET (1..r) /\ B \in SUBSET (1..r) /\ D \cup B = OpenTo(kind, r) /\ Apart(kind, D, B)
  BY OpenWithin, OpenApart
<1>2. Spells(w.buf, cmd, B) /\ WordsAt(w.cur, w.seen, cmd, kind, D)
  BY DEF OpenAt
<1> HIDE DEF D, B
<1>3. LET v == PushToken(w)
      IN /\ v \in WalkType
         /\ v.out = w.out /\ v.quote = w.quote /\ v.skip = w.skip
         /\ v.buf = <<>> /\ v.cur.redirects = w.cur.redirects
         /\ WordsAt(v.cur, v.seen, cmd, kind, D \cup B)
  BY <1>1, <1>2, TokenPushed
<1> QED BY <1>1, <1>3

(* The walk w moved to v behind position r, with no word open.             *)
Moved(v, w, cmd, kind, r) ==
  v \in WalkType /\ v.quote = w.quote /\ v.skip = w.skip /\ v.buf = <<>> /\ OpenAt(v, cmd, kind, r)

LEMMA OpenBreak ==
  ASSUME NEW cmd, NEW kind, NEW n \in Nat, DOMAIN kind = 1..n, NEW r \in Nat, r < n,
         kind[r + 1] \in Breaks, kind[r + 1] \notin Redirects,
         NEW w \in WalkType, OpenAt(w, cmd, kind, r)
  PROVE  Moved(PushToken(w), w, cmd, kind, r + 1)
<1> DEFINE v == PushToken(w)
<1>1. /\ v \in WalkType
      /\ v.out = w.out /\ v.quote = w.quote /\ v.skip = w.skip
      /\ v.buf = <<>> /\ v.cur.redirects = w.cur.redirects
      /\ WordsAt(v.cur, v.seen, cmd, kind, OpenTo(kind, r))
  BY OpenWord
<1>2. Current(kind, r + 1) = {} /\ Behind(kind, r + 1) = OpenTo(kind, r)
  BY OpenStep
<1>3. kind[r + 1] \notin Separators /\ r + 1 + 1 = r + 2
  BY Sorts
<1>4. /\ CutsBefore(kind, r + 2) = CutsBefore(kind, r + 1)
      /\ (\E i \in InStretch(kind, r + 1) : kind[i] \in Redirects) <=>
            (\E i \in InStretch(kind, r) : kind[i] \in Redirects) \/ kind[r + 1] \in Redirects
  BY <1>3, RedirectsStep
<1> HIDE DEF v
<1>5. OpenAt(v, cmd, kind, r + 1)
  BY <1>1, <1>2, <1>3, <1>4, NothingSpells DEF OpenAt
<1> QED BY <1>1, <1>5 DEF v, Moved

LEMMA OpenRedirect ==
  ASSUME NEW cmd, NEW kind, NEW n \in Nat, DOMAIN kind = 1..n, NEW r \in Nat, r < n,
         kind[r + 1] \in Redirects,
         NEW w \in WalkType, OpenAt(w, cmd, kind, r)
  PROVE  Moved(PushToken([w EXCEPT !.cur.redirects = TRUE]), w, cmd, kind, r + 1)
<1> DEFINE u == [w EXCEPT !.cur.redirects = TRUE]
           c == [w.cur EXCEPT !.redirects = TRUE]
           v == PushToken(u)
           D == Behind(kind, r)
           B == Current(kind, r)
<1>1. w.out \in Seq(SegmentType) /\ w.cur \in SegmentType /\ w.seen \in 0..2 /\ w.buf \in Seq(Alphabet)
      /\ w.quote \in {"none", "single", "double"} /\ w.skip \in {0, 1}
  BY WalkParts
<1>2. c \in SegmentType /\ c.first = w.cur.first /\ c.second = w.cur.second /\ c.redirects = TRUE
  BY <1>1 DEF SegmentType
<1>3. u = [out |-> w.out, cur |-> c, seen |-> w.seen, buf |-> w.buf, quote |-> w.quote, skip |-> w.skip]
  <2>1. u = [w EXCEPT !.cur = c]
    BY DEF WalkType
  <2> HIDE DEF c, u
  <2> QED BY <2>1 DEF WalkType
<1> HIDE DEF c, u
<1>4. u \in WalkType
  BY <1>1, <1>2, <1>3, WalkOf
<1>5. D \in SUBSET (1..r) /\ B \in SUBSET (1..r) /\ D \cup B = OpenTo(kind, r) /\ Apart(kind, D, B)
  BY OpenWithin, OpenApart
<1>6. Spells(w.buf, cmd, B) /\ WordsAt(w.cur, w.seen, cmd, kind, D)
  BY DEF OpenAt
<1> HIDE DEF D, B, v
<1>7. Spells(u.buf, cmd, B) /\ WordsAt(u.cur, u.seen, cmd, kind, D)
  BY <1>2, <1>3, <1>6 DEF WordsAt
<1>8. /\ v \in WalkType
      /\ v.out = u.out /\ v.quote = u.quote /\ v.skip = u.skip
      /\ v.buf = <<>> /\ v.cur.redirects = u.cur.redirects
      /\ WordsAt(v.cur, v.seen, cmd, kind, D \cup B)
  BY <1>4, <1>5, <1>7, TokenPushed DEF v
<1>9. v.out = w.out /\ v.quote = w.quote /\ v.skip = w.skip /\ v.cur.redirects = TRUE
  BY <1>2, <1>3, <1>8
<1>10. Current(kind, r + 1) = {} /\ Behind(kind, r + 1) = OpenTo(kind, r)
  BY OpenStep DEF Breaks
<1>11. kind[r + 1] \notin Separators /\ r + 1 + 1 = r + 2
  BY Sorts DEF Breaks
<1>12. /\ CutsBefore(kind, r + 2) = CutsBefore(kind, r + 1)
       /\ (\E i \in InStretch(kind, r + 1) : kind[i] \in Redirects) <=>
             (\E i \in InStretch(kind, r) : kind[i] \in Redirects) \/ kind[r + 1] \in Redirects
  BY <1>11, RedirectsStep
<1>13. OpenAt(v, cmd, kind, r + 1)
  BY <1>5, <1>8, <1>9, <1>10, <1>11, <1>12, NothingSpells DEF OpenAt
<1> QED BY <1>8, <1>9, <1>13 DEF v, u, Moved

(* Closing the open segment.                                               *)
LEMMA OpenClosed ==
  ASSUME NEW cmd, NEW kind, NEW n \in Nat, DOMAIN kind = 1..n, NEW r \in 0..n, r < n => kind[r + 1] \in Separators,
         NEW w \in WalkType, OpenAt(w, cmd, kind, r)
  PROVE  LET v == PushSegment(w)
         IN /\ v \in WalkType /\ v.quote = w.quote /\ v.skip = w.skip /\ v.buf = <<>>
            /\ v.cur = Segment /\ v.seen = 0
            /\ Len(v.out) = CutsBefore(kind, r + 1) + 1
            /\ \A k \in 1..Len(v.out) : SegmentOf(v.out[k], cmd, kind, k)
<1> DEFINE t == PushToken(w)
           v == PushSegment(w)
           k == CutsBefore(kind, r + 1) + 1
<1>1. /\ t \in WalkType
      /\ t.out = w.out /\ t.quote = w.quote /\ t.skip = w.skip
      /\ t.buf = <<>> /\ t.cur.redirects = w.cur.redirects
      /\ WordsAt(t.cur, t.seen, cmd, kind, OpenTo(kind, r))
  <2>1. r \in Nat
    OBVIOUS
  <2> QED BY <2>1, OpenWord
<1>2. v = [t EXCEPT !.out = Append(@, t.cur), !.cur = Segment, !.seen = 0]
  BY DEF PushSegment
<1>3. Stretch(kind, k) = InStretch(kind, r) /\ CharsOf(kind, k) = OpenTo(kind, r)
  BY StretchClosed
<1> HIDE DEF t, v
<1>4. t.out \in Seq(SegmentType) /\ t.cur \in SegmentType
      /\ t.quote \in {"none", "single", "double"} /\ t.skip \in {0, 1}
  BY <1>1, WalkParts
<1>5. v = [out |-> Append(t.out, t.cur), cur |-> Segment, seen |-> 0, buf |-> t.buf, quote |-> t.quote, skip |-> t.skip]
  BY <1>1, <1>2 DEF WalkType
<1>6. v \in WalkType
  <2>1. Append(t.out, t.cur) \in Seq(SegmentType) /\ 0 \in 0..2 /\ t.buf \in Seq(Alphabet)
    BY <1>1, <1>4
  <2> QED BY <1>4, <1>5, <2>1, WalkOf, WalkBegins
<1>7. Len(w.out) = k - 1 /\ k \in Nat /\ \A m \in 1..Len(w.out) : SegmentOf(w.out[m], cmd, kind, m)
  <2>1. CutsBefore(kind, r + 1) \in Nat
    BY CutsStep
  <2> QED BY <2>1 DEF OpenAt
<1>8. SegmentOf(t.cur, cmd, kind, k)
  BY <1>1, <1>3 DEF SegmentOf, WordsAt, OpenAt
<1> HIDE DEF k
<1>9. Len(v.out) = k
  BY <1>1, <1>4, <1>5, <1>7
<1>10. ASSUME NEW m \in 1..k PROVE SegmentOf(v.out[m], cmd, kind, m)
  <2>1. v.out = Append(w.out, t.cur) /\ w.out \in Seq(SegmentType) /\ t.cur \in SegmentType
    BY <1>1, <1>4, <1>5
  <2>2. m < k => v.out[m] = w.out[m] /\ m \in 1..Len(w.out)
    BY <1>7, <2>1
  <2>3. m = k => v.out[m] = t.cur
    BY <1>7, <2>1
  <2> QED BY <1>7, <1>8, <2>2, <2>3
<1> QED BY <1>1, <1>5, <1>6, <1>9, <1>10 DEF v, k

LEMMA OpenCut ==
  ASSUME NEW cmd, NEW kind, NEW n \in Nat, DOMAIN kind = 1..n, NEW r \in Nat, r < n,
         kind[r + 1] \in Separators,
         NEW w \in WalkType, OpenAt(w, cmd, kind, r)
  PROVE  Moved(PushSegment(w), w, cmd, kind, r + 1)
<1> DEFINE v == PushSegment(w)
<1>1. /\ v \in WalkType /\ v.quote = w.quote /\ v.skip = w.skip /\ v.buf = <<>>
      /\ v.cur = Segment /\ v.seen = 0
      /\ Len(v.out) = CutsBefore(kind, r + 1) + 1
      /\ \A k \in 1..Len(v.out) : SegmentOf(v.out[k], cmd, kind, k)
  <2>1. r \in 0..n
    OBVIOUS
  <2> QED BY <2>1, OpenClosed
<1> HIDE DEF v
<1>2. Current(kind, r + 1) = {} /\ Behind(kind, r + 1) = {} /\ InStretch(kind, r + 1) = {}
  BY OpenStep, StretchStep
<1>3. CutsBefore(kind, r + 2) = CutsBefore(kind, r + 1) + 1 /\ r + 1 + 1 = r + 2
  BY CutsStep
<1>4. WordsAt(v.cur, v.seen, cmd, kind, {})
  <2>1. FirstWord(kind, {}) = {} /\ SecondWord(kind, {}) = {}
    BY DEF FirstWord, SecondWord
  <2> QED BY <1>1, <2>1, WalkBegins, NothingSpells DEF WordsAt
<1>5. OpenAt(v, cmd, kind, r + 1)
  BY <1>1, <1>2, <1>3, <1>4, WalkBegins, NothingSpells DEF OpenAt
<1> QED BY <1>1, <1>5 DEF v, Moved

-----------------------------------------------------------------------------
(* The walk and the kinds, character by character.                         *)

(* The kind of the character behind position i.                            *)
After(cmd, kind, i) == IF i < Len(cmd) THEN kind[i + 1] ELSE "end"

(* Before a character taken by a look ahead the walk is one character      *)
(* further (an escaped one) or has no word open (half an operator).        *)
Reads(w, cmd, kind, i) ==
  /\ w \in WalkType
  /\ w.skip = 1 <=> After(cmd, kind, i) \in {"half", "escaped"}
  /\ After(cmd, kind, i) = "half" => w.buf = <<>>
  /\ OpenAt(w, cmd, kind, IF After(cmd, kind, i) = "escaped" THEN i + 1 ELSE i)
  /\ w.quote = "single" <=> Opened(kind, "sq", i + 1)
  /\ w.quote = "double" <=> Opened(kind, "dq", i + 1)

LEMMA Quoted ==
  ASSUME NEW u \in WalkType, NEW q \in {"none", "single", "double"}
  PROVE  LET v == [u EXCEPT !.quote = q]
         IN v \in WalkType /\ SameText(v, u) /\ v.quote = q /\ v.skip = u.skip
<1> DEFINE v == [u EXCEPT !.quote = q]
<1>1. v = [out |-> u.out, cur |-> u.cur, seen |-> u.seen, buf |-> u.buf, quote |-> q, skip |-> u.skip]
  BY DEF WalkType
<1> HIDE DEF v
<1>2. v \in WalkType
  BY <1>1, WalkParts, WalkOf
<1> QED BY <1>1, <1>2 DEF SameText, v

LEMMA Skipping ==
  ASSUME NEW u \in WalkType, NEW k \in {0, 1}
  PROVE  LET v == [u EXCEPT !.skip = k]
         IN v \in WalkType /\ SameText(v, u) /\ v.quote = u.quote /\ v.skip = k
<1> DEFINE v == [u EXCEPT !.skip = k]
<1>1. v = [out |-> u.out, cur |-> u.cur, seen |-> u.seen, buf |-> u.buf, quote |-> u.quote, skip |-> k]
  BY DEF WalkType
<1> HIDE DEF v
<1>2. v \in WalkType
  BY <1>1, WalkParts, WalkOf
<1> QED BY <1>1, <1>2 DEF SameText, v

LEMMA AfterKind ==
  ASSUME NEW cmd \in Seq(Alphabet), NEW kind, kind = Kinds(cmd), NEW i \in Nat, i < Len(cmd)
  PROVE  LET q == kind[i + 1]
             x == NextOf(cmd, i + 1)
             a == After(cmd, kind, i + 1)
         IN /\ a = "escaped" <=> i + 1 < Len(cmd) /\ q \in {"escape", "quotedEscape"}
            /\ a = "half" => Doubles(q, x)
            /\ i + 1 < Len(cmd) /\ Doubles(q, x) /\ ~Opened(kind, "sq", i + 2) /\ ~Opened(kind, "dq", i + 2)
                 => a = "half"
            /\ i + 1 = Len(cmd) => a = "end" /\ x = "end"
            /\ i + 1 < Len(cmd) => x = cmd[i + 2] /\ x \in Alphabet
<1> DEFINE q == kind[i + 1]
           x == NextOf(cmd, i + 1)
           a == After(cmd, kind, i + 1)
<1>1. CASE i + 1 = Len(cmd)
  BY <1>1 DEF After, NextOf
<1>2. CASE i + 1 < Len(cmd)
  <2>1. x = cmd[i + 2] /\ i + 2 \in 1..Len(cmd) /\ cmd[i + 2] \in Alphabet /\ i + 2 # 1 /\ i + 2 - 1 = i + 1 /\ i + 1 + 1 = i + 2
    BY <1>2 DEF NextOf
  <2>2. a = KindAt(cmd, kind, i + 2)
    BY <1>2, <2>1, KindsSteps DEF After
  <2> HIDE DEF a, x
  <2>3. a = LET escapes == i + 2 < Len(cmd) /\ x = "bs" /\ cmd[i + 2 + 1] \in Escapable
            IN IF q \in {"escape", "quotedEscape"} THEN "escaped"
               ELSE IF Opened(kind, "sq", i + 2) THEN (IF x = "sq" THEN "sq" ELSE "quoted")
               ELSE IF Opened(kind, "dq", i + 2)
                    THEN (IF x = "dq" THEN "dq" ELSE IF escapes THEN "quotedEscape" ELSE "quoted")
               ELSE BareKind(q, x)
    BY <2>1, <2>2 DEF KindAt
  <2> HIDE DEF q
  <2>4. BareKind(q, x) # "escaped" /\ (BareKind(q, x) = "half" => Doubles(q, x))
    BY DEF BareKind, Separators, Redirects
  <2>5. Doubles(q, x) => q \notin {"escape", "quotedEscape"} /\ BareKind(q, x) = "half"
    BY DEF BareKind, Doubles, Separators, Redirects
  <2> QED BY <1>2, <2>1, <2>3, <2>4, <2>5 DEF q, a, x
<1> QED BY <1>1, <1>2

LEMMA KindHere ==
  ASSUME NEW cmd \in Seq(Alphabet), NEW kind, kind = Kinds(cmd), NEW i \in Nat, i < Len(cmd)
  PROVE  LET q == kind[i + 1]
             c == cmd[i + 1]
             x == NextOf(cmd, i + 1)
         IN /\ c \in Alphabet /\ DOMAIN kind = 1..Len(cmd)
            /\ After(cmd, kind, i) = q
            /\ q # "escaped" =>
                 /\ Opened(kind, "sq", i + 1) => q = IF c = "sq" THEN "sq" ELSE "quoted"
                 /\ ~Opened(kind, "sq", i + 1) /\ Opened(kind, "dq", i + 1) =>
                      q = IF c = "dq" THEN "dq" ELSE IF c = "bs" /\ x \in Escapable THEN "quotedEscape" ELSE "quoted"
                 /\ ~Opened(kind, "sq", i + 1) /\ ~Opened(kind, "dq", i + 1) => \E before : q = BareKind(before, c)
<1> DEFINE q == kind[i + 1]
           c == cmd[i + 1]
           x == NextOf(cmd, i + 1)
           before == IF i + 1 = 1 THEN "plain" ELSE kind[i + 1 - 1]
           escapes == i + 1 < Len(cmd) /\ c = "bs" /\ cmd[i + 1 + 1] \in Escapable
<1>1. i + 1 \in 1..Len(cmd) /\ c \in Alphabet /\ Len(cmd) \in Nat
  OBVIOUS
<1>2. DOMAIN kind = 1..Len(cmd) /\ q = KindAt(cmd, kind, i + 1)
  BY <1>1, KindsSteps
<1>3. escapes <=> c = "bs" /\ x \in Escapable
  BY <1>1 DEF NextOf, Escapable
<1>4. q = IF before \in {"escape", "quotedEscape"} THEN "escaped"
          ELSE IF Opened(kind, "sq", i + 1) THEN (IF c = "sq" THEN "sq" ELSE "quoted")
          ELSE IF Opened(kind, "dq", i + 1)
               THEN (IF c = "dq" THEN "dq" ELSE IF escapes THEN "quotedEscape" ELSE "quoted")
          ELSE BareKind(before, c)
  BY <1>2 DEF KindAt
<1>5. After(cmd, kind, i) = q
  BY DEF After
<1> HIDE DEF q, c, x, before, escapes
<1> QED BY <1>1, <1>2, <1>3, <1>4, <1>5 DEF q, c, x

LEMMA ReadsNext ==
  ASSUME NEW cmd \in Seq(Alphabet), NEW kind, NEW i \in Nat, NEW w, Reads(w, cmd, kind, i),
         NEW v \in WalkType,
         LET a == After(cmd, kind, i + 1)
             q == kind[i + 1]
         IN /\ v.skip = 1 <=> a \in {"half", "escaped"}
            /\ a = "half" => v.buf = <<>>
            /\ OpenAt(v, cmd, kind, IF a = "escaped" THEN i + 2 ELSE i + 1)
            /\ v.quote = "single" <=> (w.quote = "single" <=> q # "sq")
            /\ v.quote = "double" <=> (w.quote = "double" <=> q # "dq")
  PROVE  Reads(v, cmd, kind, i + 1)
<1>1. i + 1 + 1 = i + 2
  OBVIOUS
<1>2. /\ Opened(kind, "sq", i + 2) <=> (Opened(kind, "sq", i + 1) <=> kind[i + 1] # "sq")
      /\ Opened(kind, "dq", i + 2) <=> (Opened(kind, "dq", i + 1) <=> kind[i + 1] # "dq")
  BY OpenedStep
<1>3. /\ w.quote = "single" <=> Opened(kind, "sq", i + 1)
      /\ w.quote = "double" <=> Opened(kind, "dq", i + 1)
  BY DEF Reads
<1> QED BY <1>1, <1>2, <1>3 DEF Reads

LEMMA ReadSkipped ==
  ASSUME NEW cmd \in Seq(Alphabet), NEW kind, kind = Kinds(cmd), NEW i \in Nat, i < Len(cmd),
         NEW w, Reads(w, cmd, kind, i), w.skip = 1
  PROVE  Reads(Read(w, cmd[i + 1], NextOf(cmd, i + 1)), cmd, kind, i + 1)
<1> DEFINE v == [w EXCEPT !.skip = 0]
           q == kind[i + 1]
           a == After(cmd, kind, i + 1)
<1>1. DOMAIN kind = 1..Len(cmd) /\ Len(cmd) \in Nat /\ After(cmd, kind, i) = q
  BY KindHere
<1>2. w \in WalkType /\ q \in {"half", "escaped"}
  BY <1>1 DEF Reads
<1>3. v \in WalkType /\ SameText(v, w) /\ v.quote = w.quote /\ v.skip = 0
  BY <1>2, Skipping
<1>4. Read(w, cmd[i + 1], NextOf(cmd, i + 1)) = v
  BY DEF Read
<1>5. a \notin {"half", "escaped"}
  <2>1. q \notin {"escape", "quotedEscape"} /\ ~Doubles(q, NextOf(cmd, i + 1))
    BY <1>2 DEF Doubles, Redirects
  <2> QED BY <2>1, AfterKind
<1>6. OpenAt(w, cmd, kind, i + 1)
  <2>1. CASE q = "escaped"
    BY <1>1, <2>1 DEF Reads
  <2>2. CASE q = "half"
    <3>1. w.buf = <<>> /\ OpenAt(w, cmd, kind, i)
      BY <1>1, <2>2 DEF Reads
    <3>2. q \in Breaks /\ q \notin Redirects
      BY <2>2 DEF Breaks, Redirects
    <3>3. OpenAt(PushToken(w), cmd, kind, i + 1)
      BY <1>1, <1>2, <3>1, <3>2, OpenBreak DEF Moved
    <3>4. PushToken(w) = w
      BY <3>1 DEF PushToken
    <3> QED BY <3>3, <3>4
  <2> QED BY <1>2, <2>1, <2>2
<1>7. OpenAt(v, cmd, kind, i + 1)
  BY <1>3, <1>6, OpenSame
<1> HIDE DEF v
<1>8. v.quote = "single" <=> (w.quote = "single" <=> q # "sq")
  BY <1>2, <1>3
<1>9. v.quote = "double" <=> (w.quote = "double" <=> q # "dq")
  BY <1>2, <1>3
<1> QED BY <1>3, <1>4, <1>5, <1>7, <1>8, <1>9, ReadsNext

(* What a step that looks at its character may use.                        *)
LEMMA Looks ==
  ASSUME NEW cmd \in Seq(Alphabet), NEW kind, kind = Kinds(cmd), NEW i \in Nat, i < Len(cmd),
         NEW w, Reads(w, cmd, kind, i), w.skip = 0
  PROVE  LET q == kind[i + 1]
         IN /\ DOMAIN kind = 1..Len(cmd) /\ Len(cmd) \in Nat /\ cmd[i + 1] \in Alphabet
            /\ w \in WalkType /\ OpenAt(w, cmd, kind, i)
            /\ q \notin {"half", "escaped"}
            /\ w.quote = "single" <=> Opened(kind, "sq", i + 1)
            /\ w.quote = "double" <=> Opened(kind, "dq", i + 1)
<1> DEFINE q == kind[i + 1]
<1>1. DOMAIN kind = 1..Len(cmd) /\ Len(cmd) \in Nat /\ cmd[i + 1] \in Alphabet /\ After(cmd, kind, i) = q
  BY KindHere
<1>2. q \notin {"half", "escaped"}
  BY <1>1 DEF Reads
<1> QED BY <1>1, <1>2 DEF Reads

LEMMA EscapeTaken ==
  ASSUME NEW cmd \in Seq(Alphabet), NEW kind, kind = Kinds(cmd), NEW i \in Nat, i + 1 < Len(cmd),
         NEW w \in WalkType, OpenAt(w, cmd, kind, i), kind[i + 1] \in {"escape", "quotedEscape"}
  PROVE  LET v == [PushChar(w, NextOf(cmd, i + 1)) EXCEPT !.skip = 1]
         IN /\ v \in WalkType /\ v.quote = w.quote /\ v.skip = 1 /\ OpenAt(v, cmd, kind, i + 2)
            /\ After(cmd, kind, i + 1) = "escaped"
<1> DEFINE x == NextOf(cmd, i + 1)
           u == PushChar(w, x)
           v == [u EXCEPT !.skip = 1]
<1>1. After(cmd, kind, i + 1) = "escaped" /\ x = cmd[i + 2] /\ x \in Alphabet
  BY AfterKind
<1>2. DOMAIN kind = 1..Len(cmd) /\ Len(cmd) \in Nat
  BY KindsSteps
<1>3. kind[i + 2] = "escaped" /\ i + 1 + 1 = i + 2
  BY <1>1 DEF After
<1>4. kind[i + 1] \notin Separators \cup Breaks \cup Written
  BY DEF Separators, Breaks, Written, Redirects
<1>5. OpenAt(w, cmd, kind, i + 1)
  BY <1>2, <1>4, OpenSilent
<1>6. u \in WalkType /\ u.quote = w.quote /\ u.skip = w.skip /\ OpenAt(u, cmd, kind, i + 2)
  <2>1. i + 1 \in Nat /\ kind[i + 1 + 1] \in Written /\ cmd[i + 1 + 1] = x
    BY <1>1, <1>3 DEF Written
  <2> HIDE DEF x
  <2>2. /\ PushChar(w, cmd[i + 1 + 1]) \in WalkType /\ PushChar(w, cmd[i + 1 + 1]).quote = w.quote
        /\ PushChar(w, cmd[i + 1 + 1]).skip = w.skip
        /\ OpenAt(PushChar(w, cmd[i + 1 + 1]), cmd, kind, i + 1 + 1)
    BY <1>1, <1>2, <1>5, <2>1, OpenChar
  <2> QED BY <1>3, <2>1, <2>2
<1> HIDE DEF u
<1>7. v \in WalkType /\ SameText(v, u) /\ v.quote = u.quote /\ v.skip = 1
  BY <1>6, Skipping
<1> HIDE DEF v
<1>8. OpenAt(v, cmd, kind, i + 2)
  BY <1>6, <1>7, OpenSame
<1> QED BY <1>1, <1>6, <1>7, <1>8 DEF u, v

(* A quote changes nothing but the quote.                                  *)
LEMMA QuoteTaken ==
  ASSUME NEW cmd \in Seq(Alphabet), NEW kind, kind = Kinds(cmd), NEW i \in Nat, i < Len(cmd),
         NEW w, Reads(w, cmd, kind, i), w.skip = 0, kind[i + 1] \in {"sq", "dq"},
         NEW s \in {"none", "single", "double"},
         s = "single" <=> (w.quote = "single" <=> kind[i + 1] # "sq"),
         s = "double" <=> (w.quote = "double" <=> kind[i + 1] # "dq")
  PROVE  Reads([w EXCEPT !.quote = s], cmd, kind, i + 1)
<1> DEFINE v == [w EXCEPT !.quote = s]
           q == kind[i + 1]
<1>1. DOMAIN kind = 1..Len(cmd) /\ Len(cmd) \in Nat /\ w \in WalkType /\ OpenAt(w, cmd, kind, i)
  BY Looks
<1>2. v \in WalkType /\ SameText(v, w) /\ v.quote = s /\ v.skip = 0
  BY <1>1, Quoted
<1>3. q \notin Separators \cup Breaks \cup Written
  BY DEF Separators, Breaks, Written, Redirects
<1>4. OpenAt(w, cmd, kind, i + 1)
  BY <1>1, <1>3, OpenSilent
<1> HIDE DEF v
<1>5. OpenAt(v, cmd, kind, i + 1)
  BY <1>2, <1>4, OpenSame
<1>6. After(cmd, kind, i + 1) \notin {"half", "escaped"}
  <2>1. q \notin {"escape", "quotedEscape"} /\ ~Doubles(q, NextOf(cmd, i + 1))
    BY DEF Doubles, Redirects
  <2> QED BY <2>1, AfterKind
<1>7. Reads(v, cmd, kind, i + 1)
  BY <1>2, <1>5, <1>6, ReadsNext
<1> QED BY <1>7 DEF v

(* So does a character of a word, but for the word.                        *)
LEMMA CharTaken ==
  ASSUME NEW cmd \in Seq(Alphabet), NEW kind, kind = Kinds(cmd), NEW i \in Nat, i < Len(cmd),
         NEW w, Reads(w, cmd, kind, i), w.skip = 0, kind[i + 1] \in {"plain", "quoted"}
  PROVE  Reads(PushChar(w, cmd[i + 1]), cmd, kind, i + 1)
<1> DEFINE v == PushChar(w, cmd[i + 1])
           q == kind[i + 1]
<1>1. /\ DOMAIN kind = 1..Len(cmd) /\ Len(cmd) \in Nat /\ cmd[i + 1] \in Alphabet
      /\ w \in WalkType /\ OpenAt(w, cmd, kind, i)
  BY Looks
<1>2. q \in Written
  BY DEF Written
<1>3. v \in WalkType /\ v.quote = w.quote /\ v.skip = w.skip /\ OpenAt(v, cmd, kind, i + 1)
  BY <1>1, <1>2, OpenChar
<1> HIDE DEF v
<1>4. After(cmd, kind, i + 1) \notin {"half", "escaped"}
  <2>1. q \notin {"escape", "quotedEscape"} /\ ~Doubles(q, NextOf(cmd, i + 1))
    BY DEF Doubles, Redirects
  <2> QED BY <2>1, AfterKind
<1>5. Reads(v, cmd, kind, i + 1)
  BY <1>3, <1>4, ReadsNext
<1> QED BY <1>5 DEF v

LEMMA ReadSingle ==
  ASSUME NEW cmd \in Seq(Alphabet), NEW kind, kind = Kinds(cmd), NEW i \in Nat, i < Len(cmd),
         NEW w, Reads(w, cmd, kind, i), w.skip = 0, w.quote = "single"
  PROVE  Reads(Read(w, cmd[i + 1], NextOf(cmd, i + 1)), cmd, kind, i + 1)
<1> DEFINE q == kind[i + 1]
           c == cmd[i + 1]
<1>1. Opened(kind, "sq", i + 1) /\ q \notin {"half", "escaped"}
  BY Looks
<1>2. q = IF c = "sq" THEN "sq" ELSE "quoted"
  BY <1>1, KindHere
<1>3. Read(w, c, NextOf(cmd, i + 1)) = IF c = "sq" THEN [w EXCEPT !.quote = "none"] ELSE PushChar(w, c)
  BY DEF Read
<1>4. CASE c = "sq"
  <2>1. Reads([w EXCEPT !.quote = "none"], cmd, kind, i + 1)
    BY <1>2, <1>4, QuoteTaken
  <2> QED BY <1>3, <1>4, <2>1
<1>5. CASE c # "sq"
  <2>1. Reads(PushChar(w, c), cmd, kind, i + 1)
    BY <1>2, <1>5, CharTaken
  <2> QED BY <1>3, <1>5, <2>1
<1> QED BY <1>4, <1>5

LEMMA ReadDouble ==
  ASSUME NEW cmd \in Seq(Alphabet), NEW kind, kind = Kinds(cmd), NEW i \in Nat, i < Len(cmd),
         NEW w, Reads(w, cmd, kind, i), w.skip = 0, w.quote = "double"
  PROVE  Reads(Read(w, cmd[i + 1], NextOf(cmd, i + 1)), cmd, kind, i + 1)
<1> DEFINE q == kind[i + 1]
           c == cmd[i + 1]
           x == NextOf(cmd, i + 1)
           v == Read(w, c, x)
<1>1. ~Opened(kind, "sq", i + 1) /\ Opened(kind, "dq", i + 1) /\ q \notin {"half", "escaped"}
      /\ w \in WalkType /\ OpenAt(w, cmd, kind, i)
  BY Looks
<1>2. q = IF c = "dq" THEN "dq" ELSE IF c = "bs" /\ x \in Escapable THEN "quotedEscape" ELSE "quoted"
  BY <1>1, KindHere
<1>3. v = InDouble(w, c, x)
  BY DEF Read
<1>4. CASE c = "dq"
  <2>1. Reads([w EXCEPT !.quote = "none"], cmd, kind, i + 1)
    BY <1>2, <1>4, QuoteTaken
  <2>2. v = [w EXCEPT !.quote = "none"]
    BY <1>3, <1>4 DEF InDouble
  <2> QED BY <2>1, <2>2
<1>5. CASE c = "bs" /\ x \in Escapable
  <2>1. v = [PushChar(w, x) EXCEPT !.skip = 1]
    BY <1>3, <1>5 DEF InDouble
  <2>2. i + 1 < Len(cmd)
    <3>1. i + 1 # Len(cmd)
      BY <1>5 DEF NextOf, Escapable
    <3> QED BY <3>1
  <2>3. q = "quotedEscape"
    BY <1>2, <1>5
  <2> HIDE DEF v
  <2>4. v \in WalkType /\ v.quote = w.quote /\ v.skip = 1 /\ OpenAt(v, cmd, kind, i + 2)
        /\ After(cmd, kind, i + 1) = "escaped"
    BY <1>1, <2>1, <2>2, <2>3, EscapeTaken
  <2>5. Reads(v, cmd, kind, i + 1)
    BY <2>3, <2>4, ReadsNext
  <2> QED BY <2>5 DEF v
<1>6. CASE c # "dq" /\ ~(c = "bs" /\ x \in Escapable)
  <2>1. Reads(PushChar(w, c), cmd, kind, i + 1)
    BY <1>2, <1>6, CharTaken
  <2>2. v = PushChar(w, c)
    BY <1>3, <1>6 DEF InDouble
  <2> QED BY <2>1, <2>2
<1> QED BY <1>4, <1>5, <1>6

(* An operator: closes the word or the segment, and may take the next      *)
(* character along.                                                        *)
LEMMA OperatorTaken ==
  ASSUME NEW cmd \in Seq(Alphabet), NEW kind, kind = Kinds(cmd), NEW i \in Nat, i < Len(cmd),
         NEW w, Reads(w, cmd, kind, i), w.quote = "none", kind[i + 1] \in Separators \cup Redirects,
         NEW u \in WalkType, u.quote = "none", u.buf = <<>>, OpenAt(u, cmd, kind, i + 1),
         NEW k \in {0, 1}, k = 1 <=> Doubles(kind[i + 1], NextOf(cmd, i + 1))
  PROVE  Reads([u EXCEPT !.skip = k], cmd, kind, i + 1)
<1> DEFINE v == [u EXCEPT !.skip = k]
           q == kind[i + 1]
           x == NextOf(cmd, i + 1)
           a == After(cmd, kind, i + 1)
<1>1. v \in WalkType /\ SameText(v, u) /\ v.quote = "none" /\ v.skip = k
  BY Skipping
<1>2. OpenAt(v, cmd, kind, i + 1) /\ v.buf = <<>>
  BY <1>1, OpenSame DEF SameText
<1>3. q \notin {"sq", "dq", "escape", "quotedEscape"}
  BY DEF Separators, Redirects
<1>4. ~Opened(kind, "sq", i + 2) /\ ~Opened(kind, "dq", i + 2)
  <2>1. ~Opened(kind, "sq", i + 1) /\ ~Opened(kind, "dq", i + 1)
    BY DEF Reads
  <2>2. /\ Opened(kind, "sq", i + 2) <=> (Opened(kind, "sq", i + 1) <=> kind[i + 1] # "sq")
        /\ Opened(kind, "dq", i + 2) <=> (Opened(kind, "dq", i + 1) <=> kind[i + 1] # "dq")
    BY OpenedStep
  <2> QED BY <1>3, <2>1, <2>2
<1>5. a # "escaped" /\ (a = "half" => Doubles(q, x))
      /\ (i + 1 < Len(cmd) /\ Doubles(q, x) => a = "half")
      /\ (i + 1 = Len(cmd) => x = "end")
  BY <1>3, <1>4, AfterKind
<1>6. Doubles(q, x) => x # "end"
  BY DEF Doubles, Redirects
<1>7. k = 1 <=> a \in {"half", "escaped"}
  BY <1>5, <1>6
<1> HIDE DEF v
<1>8. Reads(v, cmd, kind, i + 1)
  BY <1>1, <1>2, <1>3, <1>5, <1>7, ReadsNext
<1> QED BY <1>8 DEF v

LEMMA BareSorts ==
  ASSUME NEW before, NEW c
  PROVE  LET q == BareKind(before, c)
         IN /\ c \in {"sq", "dq"} => q = c
            /\ c = "bs" => q = "escape"
            /\ c = "_" => q = "blank"
            /\ c \in Separators \cup Redirects => q \in {"half", c}
            /\ c \notin {"sq", "dq", "bs", "_"} \cup Separators \cup Redirects => q = "plain"
  BY DEF BareKind, Separators, Redirects

UnquotedTable(v, w, c, x) ==
  /\ c = "sq" => v = [w EXCEPT !.quote = "single"]
  /\ c = "dq" => v = [w EXCEPT !.quote = "double"]
  /\ c = "bs" => v = IF x = "end" THEN w ELSE [PushChar(w, x) EXCEPT !.skip = 1]
  /\ c \in Separators => v = [PushSegment(w) EXCEPT !.skip = IF c \in {"|", "&"} /\ x = c THEN 1 ELSE 0]
  /\ c \in Redirects => v = [PushToken([w EXCEPT !.cur.redirects = TRUE])
                               EXCEPT !.skip = IF x \in Redirects \cup {"&"} THEN 1 ELSE 0]
  /\ c = "_" => v = PushToken(w)
  /\ c \notin {"sq", "dq", "bs", "_"} \cup Separators \cup Redirects => v = PushChar(w, c)

LEMMA UnquotedSorts == ASSUME NEW w, NEW c, NEW x PROVE UnquotedTable(Unquoted(w, c, x), w, c, x)
<1>1. \A s \in Separators : s \notin Redirects /\ s \notin {"sq", "dq", "bs", "_"}
  BY DEF Separators, Redirects
<1>2. \A s \in Redirects : s \notin {"sq", "dq", "bs", "_"}
  BY DEF Redirects
<1> QED BY <1>1, <1>2 DEF Unquoted, UnquotedTable

LEMMA DoublesSorts ==
  ASSUME NEW c, NEW x
  PROVE  /\ c \in Separators => (Doubles(c, x) <=> c \in {"|", "&"} /\ x = c)
         /\ c \in Redirects => (Doubles(c, x) <=> x \in Redirects \cup {"&"})
  BY DEF Doubles, Separators, Redirects

LEMMA ReadBare ==
  ASSUME NEW cmd \in Seq(Alphabet), NEW kind, kind = Kinds(cmd), NEW i \in Nat, i < Len(cmd),
         NEW w, Reads(w, cmd, kind, i), w.skip = 0, w.quote = "none"
  PROVE  Reads(Read(w, cmd[i + 1], NextOf(cmd, i + 1)), cmd, kind, i + 1)
<1> DEFINE q == kind[i + 1]
           c == cmd[i + 1]
           x == NextOf(cmd, i + 1)
           v == Read(w, c, x)
<1>1. /\ ~Opened(kind, "sq", i + 1) /\ ~Opened(kind, "dq", i + 1) /\ q \notin {"half", "escaped"}
      /\ w \in WalkType /\ OpenAt(w, cmd, kind, i)
      /\ DOMAIN kind = 1..Len(cmd) /\ Len(cmd) \in Nat /\ c \in Alphabet
  BY Looks
<1>2. PICK before : q = BareKind(before, c)
  BY <1>1, KindHere
<1>3. UnquotedTable(v, w, c, x)
  <2>1. v = Unquoted(w, c, x)
    BY DEF Read
  <2> HIDE DEF v, c, x
  <2> QED BY <2>1, UnquotedSorts
<1> HIDE DEF v, q, c, x
<1>4. CASE c \in {"sq", "dq"}
  <2> DEFINE s == IF c = "sq" THEN "single" ELSE "double"
  <2>1. q = c
    BY <1>1, <1>2, <1>4, BareSorts
  <2>2. v = [w EXCEPT !.quote = s]
    BY <1>3, <1>4 DEF UnquotedTable
  <2>3. s \in {"none", "single", "double"} /\ (s = "single" <=> (w.quote = "single" <=> q # "sq"))
        /\ (s = "double" <=> (w.quote = "double" <=> q # "dq")) /\ q \in {"sq", "dq"}
    BY <1>4, <2>1
  <2> HIDE DEF s
  <2>4. Reads([w EXCEPT !.quote = s], cmd, kind, i + 1)
    BY <2>3, QuoteTaken DEF q
  <2> QED BY <2>2, <2>4 DEF v, c, x
<1>5. CASE c = "bs"
  <2>1. q = "escape"
    BY <1>1, <1>2, <1>5, BareSorts
  <2>2. v = IF x = "end" THEN w ELSE [PushChar(w, x) EXCEPT !.skip = 1]
    BY <1>3, <1>5 DEF UnquotedTable
  <2>3. i + 1 < Len(cmd) => x # "end"
    BY AfterKind, CommandAssumption DEF x
  <2>4. i + 1 = Len(cmd) => x = "end" /\ After(cmd, kind, i + 1) = "end"
    BY AfterKind DEF x
  <2>5. CASE i + 1 < Len(cmd)
    <3>1. v = [PushChar(w, x) EXCEPT !.skip = 1]
      BY <2>2, <2>3, <2>5
    <3>2. v \in WalkType /\ v.quote = w.quote /\ v.skip = 1 /\ OpenAt(v, cmd, kind, i + 2)
          /\ After(cmd, kind, i + 1) = "escaped"
      BY <1>1, <2>1, <2>5, <3>1, EscapeTaken DEF x, q
    <3>3. Reads(v, cmd, kind, i + 1)
      BY <2>1, <3>2, ReadsNext DEF q
    <3> QED BY <3>3 DEF v, x, c
  <2>6. CASE i + 1 = Len(cmd)
    <3>1. v = w
      BY <2>2, <2>4, <2>6
    <3>2. q \notin Separators \cup Breaks \cup Written
      BY <2>1 DEF Separators, Breaks, Written, Redirects
    <3>3. OpenAt(w, cmd, kind, i + 1)
      BY <1>1, <3>2, OpenSilent DEF q
    <3>4. Reads(v, cmd, kind, i + 1)
      BY <1>1, <2>1, <2>4, <2>6, <3>1, <3>3, ReadsNext DEF q
    <3> QED BY <3>4 DEF v, x, c
  <2> QED BY <2>5, <2>6
<1>6. CASE c \in Separators
  <2> DEFINE k == IF c \in {"|", "&"} /\ x = c THEN 1 ELSE 0
             u == PushSegment(w)
  <2>1. q = c
    BY <1>1, <1>2, <1>6, BareSorts
  <2>2. v = [u EXCEPT !.skip = k]
    BY <1>3, <1>6 DEF UnquotedTable
  <2>3. k \in {0, 1} /\ (k = 1 <=> Doubles(q, x)) /\ q \in Separators \cup Redirects
    BY <1>6, <2>1, DoublesSorts
  <2>4. u \in WalkType /\ u.quote = "none" /\ u.buf = <<>> /\ OpenAt(u, cmd, kind, i + 1)
    <3>1. kind[i + 1] \in Separators
      BY <1>6, <2>1 DEF q
    <3>2. Moved(u, w, cmd, kind, i + 1)
      BY <1>1, <3>1, OpenCut
    <3> QED BY <3>2 DEF Moved
  <2> HIDE DEF u, k
  <2>5. Reads([u EXCEPT !.skip = k], cmd, kind, i + 1)
    BY <2>3, <2>4, OperatorTaken DEF q, x
  <2> QED BY <2>2, <2>5 DEF v, c, x
<1>7. CASE c \in Redirects
  <2> DEFINE k == IF x \in Redirects \cup {"&"} THEN 1 ELSE 0
             u == PushToken([w EXCEPT !.cur.redirects = TRUE])
  <2>1. q = c
    BY <1>1, <1>2, <1>7, BareSorts
  <2>2. v = [u EXCEPT !.skip = k]
    BY <1>3, <1>7 DEF UnquotedTable
  <2>3. k \in {0, 1} /\ (k = 1 <=> Doubles(q, x)) /\ q \in Separators \cup Redirects
    BY <1>7, <2>1, DoublesSorts
  <2>4. u \in WalkType /\ u.quote = "none" /\ u.buf = <<>> /\ OpenAt(u, cmd, kind, i + 1)
    <3>1. kind[i + 1] \in Redirects
      BY <1>7, <2>1 DEF q
    <3>2. Moved(u, w, cmd, kind, i + 1)
      BY <1>1, <3>1, OpenRedirect
    <3> QED BY <3>2 DEF Moved
  <2> HIDE DEF u, k
  <2>5. Reads([u EXCEPT !.skip = k], cmd, kind, i + 1)
    BY <2>3, <2>4, OperatorTaken DEF q, x
  <2> QED BY <2>2, <2>5 DEF v, c, x
<1>8. CASE c = "_"
  <2>1. q = "blank"
    BY <1>1, <1>2, <1>8, BareSorts
  <2>2. v = PushToken(w)
    BY <1>3, <1>8 DEF UnquotedTable
  <2>3. q \in Breaks /\ q \notin Redirects
    BY <2>1 DEF Breaks, Redirects
  <2>4. v \in WalkType /\ v.quote = w.quote /\ v.skip = w.skip /\ OpenAt(v, cmd, kind, i + 1)
    <3>1. kind[i + 1] \in Breaks /\ kind[i + 1] \notin Redirects
      BY <2>3 DEF q
    <3>2. Moved(PushToken(w), w, cmd, kind, i + 1)
      BY <1>1, <3>1, OpenBreak
    <3> QED BY <2>2, <3>2 DEF Moved
  <2>5. After(cmd, kind, i + 1) \notin {"half", "escaped"}
    <3>1. q \notin {"escape", "quotedEscape"} /\ ~Doubles(q, x)
      BY <2>1 DEF Doubles, Redirects
    <3> QED BY <3>1, AfterKind DEF q, x
  <2>6. Reads(v, cmd, kind, i + 1)
    <3>1. kind[i + 1] \notin {"sq", "dq"} /\ v.skip = 0 /\ v.quote = "none"
      BY <2>1, <2>4 DEF q
    <3> QED BY <2>4, <2>5, <3>1, ReadsNext
  <2> QED BY <2>6 DEF v, c, x
<1>9. CASE c \notin {"sq", "dq", "bs", "_"} \cup Separators \cup Redirects
  <2>1. q = "plain"
    BY <1>1, <1>2, <1>9, BareSorts
  <2>2. v = PushChar(w, c)
    BY <1>3, <1>9 DEF UnquotedTable
  <2>3. Reads(PushChar(w, c), cmd, kind, i + 1)
    BY <2>1, CharTaken DEF q, c
  <2> QED BY <2>2, <2>3 DEF v, c, x
<1> QED BY <1>4, <1>5, <1>6, <1>7, <1>8, <1>9

LEMMA WalkReads ==
  ASSUME NEW cmd \in Seq(Alphabet)
  PROVE  \A i \in 0..Len(cmd) : Reads(Walked(cmd)[i], cmd, Kinds(cmd), i)
<1> DEFINE kind == Kinds(cmd)
           f == Walked(cmd)
           T == {i \in Nat : i <= Len(cmd) => Reads(f[i], cmd, kind, i)}
<1>1. Len(cmd) \in Nat /\ DOMAIN kind = 1..Len(cmd) /\ f[0] = Walk
      /\ \A i \in 1..Len(cmd) : f[i] = Read(f[i - 1], cmd[i], NextOf(cmd, i))
  BY KindsSteps, WalkedSteps
<1>2. Reads(Walk, cmd, kind, 0)
  <2>1. After(cmd, kind, 0) \notin {"half", "escaped"}
    <3>1. CASE Len(cmd) = 0
      BY <3>1 DEF After
    <3>2. CASE Len(cmd) > 0
      <4>1. kind[1] = KindAt(cmd, kind, 1)
        BY <1>1, <3>2, KindsSteps
      <4>2. kind[1] = BareKind("plain", cmd[1])
        BY <4>1, OpenedFirst DEF KindAt
      <4>3. kind[1] \notin {"half", "escaped"}
        BY <4>2 DEF BareKind, Doubles, Separators, Redirects
      <4>4. After(cmd, kind, 0) = kind[1]
        BY <3>2 DEF After
      <4> QED BY <4>3, <4>4
    <3> QED BY <1>1, <3>1, <3>2
  <2>2. InStretch(kind, 0) = {} /\ Current(kind, 0) = {} /\ Behind(kind, 0) = {}
    BY <1>1, OpenWithin
  <2>3. WordsAt(Segment, 0, cmd, kind, {})
    <3>1. FirstWord(kind, {}) = {} /\ SecondWord(kind, {}) = {}
      BY DEF FirstWord, SecondWord
    <3> QED BY <3>1, WalkBegins, NothingSpells DEF WordsAt
  <2>4. Walk.out = <<>> /\ Walk.cur = Segment /\ Walk.seen = 0 /\ Walk.buf = <<>> /\ Walk.quote = "none" /\ Walk.skip = 0
    BY DEF Walk
  <2>5. CutsBefore(kind, 0 + 1) = 0
    BY CutsFirst
  <2>6. OpenAt(Walk, cmd, kind, 0)
    <3>1. Len(Walk.out) = 0 /\ Walk.cur.redirects = FALSE
      BY <2>4, WalkBegins
    <3>2. Spells(Walk.buf, cmd, Current(kind, 0)) /\ WordsAt(Walk.cur, Walk.seen, cmd, kind, Behind(kind, 0))
      BY <2>2, <2>3, <2>4, NothingSpells
    <3>3. 1..0 = {}
      OBVIOUS
    <3> QED BY <2>2, <2>5, <3>1, <3>2, <3>3 DEF OpenAt
  <2>7. ~Opened(kind, "sq", 0 + 1) /\ ~Opened(kind, "dq", 0 + 1)
    BY OpenedFirst
  <2> QED BY <2>1, <2>4, <2>6, <2>7, WalkBegins DEF Reads
<1>3. ASSUME NEW i \in Nat, i \in T, i + 1 <= Len(cmd) PROVE Reads(f[i + 1], cmd, kind, i + 1)
  <2> DEFINE w == f[i]
  <2>1. Reads(w, cmd, kind, i) /\ i < Len(cmd)
    BY <1>1, <1>3
  <2>2. f[i + 1] = Read(w, cmd[i + 1], NextOf(cmd, i + 1))
    BY <1>1, <1>3
  <2> HIDE DEF w
  <2>3. w.quote \in {"none", "single", "double"} /\ w.skip \in {0, 1}
    BY <2>1, WalkParts DEF Reads
  <2>4. Reads(Read(w, cmd[i + 1], NextOf(cmd, i + 1)), cmd, kind, i + 1)
    BY <2>1, <2>3, ReadSkipped, ReadSingle, ReadDouble, ReadBare
  <2> QED BY <2>2, <2>4
<1>4. 0 \in T
  BY <1>1, <1>2
<1>5. \A i \in Nat : i \in T => i + 1 \in T
  BY <1>3
<1> HIDE DEF T
<1>6. Nat \subseteq T
  BY <1>4, <1>5, Induction
<1> QED BY <1>6 DEF T

(* The segments found are the stretches between separators.                *)
LEMMA SegmentsFound ==
  ASSUME NEW cmd \in Seq(Alphabet)
  PROVE  LET found == ParseSegments(cmd)
         IN /\ found \in Seq(SegmentType)
            /\ Len(found) = CutsBefore(Kinds(cmd), Len(cmd) + 1) + 1
            /\ \A k \in 1..Len(found) : SegmentOf(found[k], cmd, Kinds(cmd), k)
<1> DEFINE n == Len(cmd)
           kind == Kinds(cmd)
           w == Walked(cmd)[n]
           v == PushSegment(w)
<1>1. n \in Nat /\ n \in 0..n /\ DOMAIN kind = 1..n /\ ParseSegments(cmd) = v.out
  BY KindsSteps, WalkedSteps
<1>2. Reads(w, cmd, kind, n)
  BY <1>1, WalkReads
<1>3. After(cmd, kind, n) = "end"
  BY <1>1 DEF After
<1> HIDE DEF w, kind, n
<1>4. w \in WalkType /\ OpenAt(w, cmd, kind, n)
  BY <1>2, <1>3 DEF Reads
<1>5. /\ v \in WalkType /\ Len(v.out) = CutsBefore(kind, n + 1) + 1
      /\ \A k \in 1..Len(v.out) : SegmentOf(v.out[k], cmd, kind, k)
  BY <1>1, <1>4, OpenClosed
<1> HIDE DEF v
<1>6. v.out \in Seq(SegmentType)
  BY <1>5, WalkParts
<1> QED BY <1>1, <1>5, <1>6 DEF kind, n

LEMMA LowerType ==
  ASSUME NEW w \in Seq(Alphabet)
  PROVE  /\ Lower(w) \in Seq(Alphabet) /\ Len(Lower(w)) = Len(w)
         /\ \A i \in 1..Len(w) : Lower(w)[i] = LowerCase[w[i]]
         /\ InLowerCase(Lower(w))
<1>1. Len(w) \in Nat /\ DOMAIN w = 1..Len(w) /\ \A i \in 1..Len(w) : w[i] \in Alphabet
  OBVIOUS
<1>2. Lower(w) \in [1..Len(w) -> Alphabet]
  BY <1>1, CommandAssumption DEF Lower
<1>3. Lower(w) \in Seq(Alphabet) /\ Len(Lower(w)) = Len(w)
  BY <1>1, <1>2, LenProperties, SeqDef
<1>4. \A i \in 1..Len(w) : Lower(w)[i] = LowerCase[w[i]]
  BY <1>1 DEF Lower
<1>5. InLowerCase(Lower(w))
  <2>1. Lower(Lower(w)) = [i \in 1..Len(w) |-> LowerCase[Lower(w)[i]]]
    BY <1>2 DEF Lower
  <2>2. \A i \in 1..Len(w) : LowerCase[Lower(w)[i]] = Lower(w)[i]
    BY <1>1, <1>4, CommandAssumption
  <2>3. Lower(w) = [i \in 1..Len(w) |-> Lower(w)[i]]
    BY <1>2
  <2> QED BY <2>1, <2>2, <2>3 DEF InLowerCase
<1> QED BY <1>3, <1>4, <1>5

(* What is spelled stays so when both are put in lower case. *)
LEMMA SpellsLower ==
  ASSUME NEW cmd \in Seq(Alphabet), NEW P \in SUBSET (1..Len(cmd)), NEW v \in Seq(Alphabet),
         Spells(v, cmd, P)
  PROVE  Spells(Lower(v), Lower(cmd), P)
<1>1. Len(Lower(v)) = Cardinality(P) /\ Len(v) = Cardinality(P) /\ Len(cmd) \in Nat
  BY LowerType DEF Spells
<1>2. ASSUME NEW i \in P
      PROVE  Lower(v)[Cardinality({j \in P : j <= i})] = Lower(cmd)[i]
  <2> DEFINE Q == {j \in P : j <= i}
  <2>1. IsFiniteSet(P)
    <3>1. IsFiniteSet(1..Len(cmd))
      BY <1>1, FS_Interval
    <3> QED BY <3>1, FS_Subset
  <2>2. IsFiniteSet(Q) /\ Cardinality(Q) <= Cardinality(P)
    BY <2>1, FS_Subset
  <2>3. i \in Q
    BY <1>1
  <2>4. Cardinality(Q) \in Nat /\ Cardinality(Q) # 0
    BY <2>2, <2>3, FS_CardinalityType, FS_EmptySet
  <2>5. v[Cardinality(Q)] = cmd[i]
    BY DEF Spells
  <2> HIDE DEF Q
  <2>6. Cardinality(Q) \in 1..Len(v)
    BY <1>1, <2>2, <2>4, FS_CardinalityType, <2>1
  <2> QED BY <2>5, <2>6, LowerType DEF Q
<1> QED BY <1>1, <1>2 DEF Spells

(* A word in lower case is spelled in any case when it is what the words   *)
(* of the command are once they are in lower case.                         *)
LEMMA AnyCaseOne ==
  ASSUME NEW cmd \in Seq(Alphabet), NEW P \in SUBSET (1..Len(cmd)), NEW v \in Seq(Alphabet),
         Spells(v, cmd, P), NEW w \in Seq(Alphabet)
  PROVE  (InLowerCase(w) /\ SpellsAnyCase(w, cmd, P)) <=> w = Lower(v)
<1>1. /\ Spells(Lower(v), Lower(cmd), P) /\ Lower(v) \in Seq(Alphabet) /\ InLowerCase(Lower(v))
      /\ Lower(cmd) \in Seq(Alphabet) /\ Len(cmd) \in Nat
  BY SpellsLower, LowerType
<1>2. ASSUME InLowerCase(w), SpellsAnyCase(w, cmd, P) PROVE w = Lower(v)
  <2>1. Spells(w, Lower(cmd), P)
    BY <1>2 DEF InLowerCase, SpellsAnyCase
  <2> QED BY <1>1, <2>1, SpellsOne
<1>3. ASSUME w = Lower(v) PROVE InLowerCase(w) /\ SpellsAnyCase(w, cmd, P)
  BY <1>1, <1>3 DEF InLowerCase, SpellsAnyCase
<1> QED BY <1>2, <1>3

(* What looks_writeful looks for in a segment. *)
Listed(s) == \/ s.redirects
             \/ Lower(s.first) \in AlwaysWrite
             \/ <<Lower(s.first), Lower(s.second)>> \in SubcommandWrite

(* A segment decides as its stretch does: what positions spell is one word. *)
LEMMA SegmentWrites ==
  ASSUME NEW cmd \in Seq(Alphabet), NEW k, NEW s \in SegmentType, SegmentOf(s, cmd, Kinds(cmd), k)
  PROVE  Listed(s) <=> Writes(cmd, Kinds(cmd), k)
<1> DEFINE n == Len(cmd)
           kind == Kinds(cmd)
           C == CharsOf(kind, k)
           F == FirstWord(kind, C)
           S == SecondWord(kind, C)
           R == \E i \in Stretch(kind, k) : kind[i] \in Redirects
           AnyCased(w, P) == InLowerCase(w) /\ SpellsAnyCase(w, cmd, P)
<1>1. C \in SUBSET (1..Len(cmd))
  <2>1. DOMAIN kind = 1..Len(cmd)
    BY KindsSteps
  <2> QED BY <2>1 DEF CharsOf, Stretch
<1>2. F \in SUBSET (1..Len(cmd)) /\ S \in SUBSET (1..Len(cmd))
  BY <1>1 DEF FirstWord, SecondWord
<1>3. Spells(s.first, cmd, F) /\ Spells(s.second, cmd, S) /\ (s.redirects <=> R)
  BY DEF SegmentOf
<1>4. s.first \in Seq(Alphabet) /\ s.second \in Seq(Alphabet)
  BY DEF SegmentType
<1>5. Writes(cmd, kind, k) <=> \/ R
                               \/ \E w \in AlwaysWrite : AnyCased(w, F)
                               \/ \E p \in SubcommandWrite : AnyCased(p[1], F) /\ AnyCased(p[2], S)
  BY DEF Writes
<1>6. AlwaysWrite \subseteq Seq(Alphabet)
      /\ \A p \in SubcommandWrite : p = <<p[1], p[2]>> /\ p[1] \in Seq(Alphabet) /\ p[2] \in Seq(Alphabet)
  BY CommandAssumption
<1> HIDE DEF n, kind, C, F, S, R
<1>7. \A w \in Seq(Alphabet) : AnyCased(w, F) <=> w = Lower(s.first)
  BY <1>2, <1>3, <1>4, AnyCaseOne
<1>8. \A w \in Seq(Alphabet) : AnyCased(w, S) <=> w = Lower(s.second)
  BY <1>2, <1>3, <1>4, AnyCaseOne
<1> HIDE DEF AnyCased
<1>9. Lower(s.first) \in AlwaysWrite <=> \E w \in AlwaysWrite : AnyCased(w, F)
  BY <1>6, <1>7
<1>10. <<Lower(s.first), Lower(s.second)>> \in SubcommandWrite
         <=> \E p \in SubcommandWrite : AnyCased(p[1], F) /\ AnyCased(p[2], S)
  <2>1. ASSUME <<Lower(s.first), Lower(s.second)>> \in SubcommandWrite
        PROVE  \E p \in SubcommandWrite : AnyCased(p[1], F) /\ AnyCased(p[2], S)
    <3> DEFINE p == <<Lower(s.first), Lower(s.second)>>
    <3>1. p[1] = Lower(s.first) /\ p[2] = Lower(s.second) /\ p \in SubcommandWrite
      BY <2>1
    <3> QED BY <1>6, <1>7, <1>8, <3>1
  <2>2. ASSUME NEW p \in SubcommandWrite, AnyCased(p[1], F), AnyCased(p[2], S)
        PROVE  <<Lower(s.first), Lower(s.second)>> \in SubcommandWrite
    <3>1. p[1] = Lower(s.first) /\ p[2] = Lower(s.second) /\ p = <<p[1], p[2]>>
      BY <1>6, <1>7, <1>8, <2>2
    <3> QED BY <3>1
  <2> QED BY <2>1, <2>2
<1> QED BY <1>3, <1>5, <1>9, <1>10 DEF kind, Listed

(* The read-only check of a command reads every command as its quotes say. *)
THEOREM CommandsReadAsQuoted == CommandSpec => []SegmentsAsQuoted
<1> DEFINE Typed == command \in Seq(Alphabet)
<1>1. CommandInit => Typed
  BY DEF CommandInit
<1>2. Typed /\ [Type]_command => Typed'
  BY DEF Type
<1>3. Typed => SegmentsAsQuoted
  <2> SUFFICES ASSUME Typed PROVE SegmentsAsQuoted
    OBVIOUS
  <2> DEFINE found == ParseSegments(command)
             kind == Kinds(command)
  <2>1. /\ found \in Seq(SegmentType) /\ Len(found) = CutsBefore(kind, Len(command) + 1) + 1
        /\ \A k \in 1..Len(found) : SegmentOf(found[k], command, kind, k)
    BY SegmentsFound
  <2>2. \A k \in 1..Len(found) : found[k] \in SegmentType /\ DOMAIN found = 1..Len(found)
    BY <2>1
  <2>3. \A k \in 1..Len(found) :
          Listed(found[k]) <=> Writes(command, kind, k)
    BY <2>1, <2>2, SegmentWrites
  <2>4. DOMAIN found = 1..Len(found)
    BY <2>1
  <2>5. LooksWriteful(command) <=> \E k \in 1..Len(found) : Writes(command, kind, k)
    BY <2>3, <2>4 DEF LooksWriteful, Listed
  <2> QED BY <2>1, <2>5 DEF SegmentsAsQuoted
<1> QED BY <1>1, <1>2, <1>3, PTL DEF CommandSpec
=============================================================================
