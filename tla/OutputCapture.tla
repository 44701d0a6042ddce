--------------------------- MODULE OutputCapture ---------------------------
(***************************************************************************)
(* What is kept and shown of a command's output: Capture (exec.rs) keeps   *)
(* the first bytes of a stream and a rolling window over its last ones,    *)
(* `head_tail` (truncate.rs) fits them into the answer.                    *)
(*                                                                         *)
(* A stream is text: a sequence of characters, each of so many bytes.  A   *)
(* byte is known by its character and its place in it.                     *)
(***************************************************************************)
EXTENDS Integers, Sequences, SequencesExt

CONSTANTS
  MaxCapture, \* `max`: bytes the head takes
  TailKeep,   \* TAIL_KEEP
  MaxShown    \* the largest limit of an answer

Widest == 4   \* bytes of a character of UTF-8, at most

ASSUME CaptureAssumption == MaxCapture \in Nat /\ TailKeep \in Nat /\ TailKeep >= Widest /\ MaxShown \in Nat

VARIABLES
  widths,   \* the characters of the stream: how many bytes each takes
  received, \* bytes received so far
  capture

capturevars == <<widths, received, capture>>

Character(k, w) == [i \in 1..w |-> [char |-> k, part |-> i]]
Bytes(ws) ==
  LET text[k \in 0..Len(ws)] == IF k = 0 THEN <<>> ELSE text[k - 1] \o Character(k, ws[k])
  IN text[Len(ws)]

Least(a, b) == IF a < b THEN a ELSE b
Most(a, b) == IF a > b THEN a ELSE b
Monus(a, b) == Most(a - b, 0)                      \* saturating_sub
Last_(s, n) == SubSeq(s, Monus(Len(s), n) + 1, Len(s))
First_(s, n) == SubSeq(s, 1, Least(n, Len(s)))

-----------------------------------------------------------------------------
(* Capture.                                                                *)

NewCapture == [head |-> <<>>, tail |-> <<>>, total |-> 0]

Push(c, data) ==
  LET room == Monus(MaxCapture, Len(c.head))
      rest == SubSeq(data, room + 1, Len(data))
      keep == Least(TailKeep, Most(MaxCapture, 1))
  IN [head |-> c.head \o First_(data, room), total |-> c.total + Len(data),
      tail |-> Last_(c.tail \o rest, keep)]

(* A character the head has only the beginning of becomes U+FFFD, which is *)
(* three bytes wide.                                                       *)
Lossy(s) ==
  IF s # <<>> /\ Last(s).part < widths[Last(s).char]
  THEN First_(s, Len(s) - Last(s).part) \o Character(Last(s).char, 3) ELSE s

(* The window may begin inside a character: up to three bytes are skipped. *)
SkipOrphans(s) ==
  LET orphans == {n \in 0..Least(3, Len(s)) : \A i \in 1..n : s[i].part > 1}
  IN SubSeq(s, (CHOOSE n \in orphans : \A m \in orphans : m <= n) + 1, Len(s))

FinishCapture(c) == [head |-> Lossy(c.head), tail |-> SkipOrphans(c.tail), total |-> c.total]

-----------------------------------------------------------------------------
(* head_tail.                                                              *)

IsBoundary(s, i) == i = 0 \/ i >= Len(s) \/ s[i + 1].part = 1
FloorBoundary(s, i) == CHOOSE j \in 0..i : IsBoundary(s, j) /\ \A k \in (j + 1)..i : ~IsBoundary(s, k)
CeilBoundary(s, i) == CHOOSE j \in i..Len(s) : IsBoundary(s, j) /\ \A k \in i..(j - 1) : ~IsBoundary(s, k)

(* Variant: the end of the head goes on into the tail whatever lies        *)
(* between them.                                                           *)
FromHeadAlways(head, front, gap, budget) ==
  IF budget > 0 THEN CeilBoundary(head, Most(Monus(Len(head), budget), front)) ELSE Len(head)

(* Where the part of the head shown after the mark begins. *)
FromHead(head, front, gap, budget) ==
  IF gap = 0 /\ budget > 0 THEN CeilBoundary(head, Most(Monus(Len(head), budget), front)) ELSE Len(head)

HeadTail(head, tail, total, max) ==
  LET kept == Len(head) + Len(tail)
      gap == Monus(total, kept)
      front == FloorBoundary(head, Least(max \div 2, Len(head)))
      fromTail == CeilBoundary(tail, Monus(Len(tail), max - front))
      budget == (max - front) - (Len(tail) - fromTail)
      fromHead == FromHead(head, front, gap, budget)
      shown == front + (Len(head) - fromHead) + (Len(tail) - fromTail)
  IN IF gap = 0 /\ kept <= max
     THEN [front |-> <<>>, cut |-> 0, middle |-> head, back |-> tail]
     ELSE [front |-> First_(head, front), cut |-> Monus(total, shown),
           middle |-> SubSeq(head, fromHead + 1, Len(head)),
           back |-> SubSeq(tail, fromTail + 1, Len(tail))]

-----------------------------------------------------------------------------
CaptureInit == widths \in Seq(1..Widest) /\ received = 0 /\ capture = NewCapture

(* The server sends a message of n bytes; a character may be split between *)
(* two messages, and the stream goes on while it has characters.           *)
Receive(n) ==
  /\ n \in 1..(Len(Bytes(widths)) - received)
  /\ capture' = Push(capture, SubSeq(Bytes(widths), received + 1, received + n))
  /\ received' = received + n
  /\ UNCHANGED widths

CaptureSpec == CaptureInit /\ [][\E n \in Nat : Receive(n)]_capturevars

-----------------------------------------------------------------------------
(* "The start and the end are what a reader needs" (truncate.rs 14): of a  *)
(* stream that has ended, what is shown, whatever the messages were and    *)
(* whatever the limit of the answer, fits the limit; what the mark counts  *)
(* as cut is what is missing; between two characters shown side by side    *)
(* nothing is: "The end of `head` only continues into `tail` when nothing  *)
(* was dropped between them" (truncate.rs 38); and it begins with the      *)
(* stream's first character and ends with its last, where there is room    *)
(* for two characters.  The code has three exceptions of a few bytes,      *)
(* which are stated here as they are.  The U+FFFD for a split character of *)
(* two bytes counts as three, so one byte dropped beside it is not seen;   *)
(* for one of four bytes it counts as less, so that there seems to be a    *)
(* gap behind the head, and a stream that ends with it shows no end; and   *)
(* room for less than a whole character of the tail goes to the end of the *)
(* head, though the tail is then cut.                                      *)
Missing(a, b) == (a.char + 1)..(b.char - 1)
SideBySide(s) ==
  \A i \in 1..(Len(s) - 1) :
    /\ s[i].char <= s[i + 1].char
    /\ LET gone == Missing(s[i], s[i + 1])
       IN gone = {} \/ \E k \in gone : gone = {k} /\ widths[k] = 1
SplitAtEnd == widths[Len(widths)] = Widest /\ received - MaxCapture \in 1..(Widest - 1)

EndsKept(max) ==
  LET c == FinishCapture(capture)
      shown == HeadTail(c.head, c.tail, c.total, max)
      all == shown.front \o shown.middle \o shown.back
  IN /\ Len(all) <= max /\ shown.cut = Monus(c.total, Len(all))
     /\ SideBySide(shown.front)
     /\ \/ shown.back = c.tail /\ SideBySide(shown.middle \o shown.back)
        \/ shown.back # c.tail /\ Len(shown.middle) < Widest /\ SideBySide(shown.back)
     /\ max >= 2 * Widest /\ MaxCapture >= Widest =>
          all[1].char = 1 /\ (Last(all).char = Len(widths) \/ SplitAtEnd)

(* The beginning and the end of every stream are shown, under every limit. *)
EndsShown ==
  received = Len(Bytes(widths)) /\ widths # <<>> => \A max \in 0..MaxShown : EndsKept(max)
=============================================================================
