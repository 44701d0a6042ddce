--------------------------- MODULE Transfers_proofs ---------------------------
(***************************************************************************)
(* Proofs about Transfers, for every number of transfers, of chunks,      *)
(* sizes and late requests.                                                *)
(***************************************************************************)
EXTENDS Transfers, TLAPS

USE DEF None, Old

Requests ==
  [by : Transfers, does : {"create", "rename", "posix", "remove", "clean", "look"}] \cup
  [by : Transfers, does : {"put"}, file : Transfers \cup {None}, chunk : Chunks]

TypeInv ==
  /\ dst \in Files \cup {None} /\ partial \in Transfers \cup {None}
  /\ content \in [Files -> [Chunks -> Files \cup {None}]]
  /\ step \in [Transfers -> Steps]
  /\ left \in [Transfers -> SUBSET Chunks]
  /\ handle \in [Transfers -> Transfers \cup {None}]
  /\ up \in [Transfers -> BOOLEAN]
  /\ extension \in BOOLEAN /\ expected \in BOOLEAN
  /\ late \subseteq Requests
  /\ last \in Transfers \cup {None} /\ strayed \in BOOLEAN

(* Transfers come one after the other, and only one that began asks.       *)
LastRuns ==
  /\ \A t \in Transfers : Active(t) => t = last
  /\ \A r \in late : step[r.by] # "idle"

(* Only a server without posix-rename is asked to remove the target.       *)
SlowPath ==
  /\ \A t \in Transfers : step[t] \in {"stat", "remove", "again"} => ~extension
  /\ \A r \in late : r.does = "remove" => ~extension

(* The two paths name different files, each made by a transfer that began. *)
Apart == dst # None => dst # partial
Distinct == Apart /\ \A t \in Transfers : dst = t \/ partial = t => step[t] # "idle"

(* A transfer that writes has `.partial` open and filled it so far.        *)
Filled(t) == [k \in Chunks |-> IF k \in Size[t] \ left[t] THEN t ELSE None]
Writing ==
  \A t \in Transfers : step[t] = "writing" =>
     /\ partial # None
     /\ t \notin Striped => handle[t] = partial
     /\ left[t] \subseteq Size[t]
     /\ content[partial] = Filled(t)

(* From the close on, what is left in `.partial` is the whole of it.       *)
Committing == {"rename", "posix", "stat", "remove", "again"}
WholePartial(t) == partial # None => content[partial] = Whole(t)
Streamed == \A t \in Transfers : step[t] \in Committing => WholePartial(t)

(* What the transfer that began last still has on its way can only do what *)
(* it was asked for.                                                       *)
Renames == {"rename", "posix"}
LateOne(r) ==
  /\ r.does = "create" => dst # r.by /\ partial # r.by /\ step[r.by] = "failed"
  /\ r.by = last =>
       /\ r.does = "put" => /\ step[r.by] \in {"clean", "failed"}
                            /\ r.file # None /\ r.file # dst
       /\ r.does \in Renames => step[r.by] # "writing" /\ WholePartial(r.by)
       /\ r.does = "clean" => step[r.by] = "failed"
LateTwo(r, q) ==
  r.by = last /\ q.by = last /\ r.does \in Renames => q.does \notin {"put", "create"}
LateOK == /\ \A r \in late : LateOne(r)
          /\ \A r, q \in late : LateTwo(r, q)

WholeDst == dst \in Transfers => \E t \in Transfers : content[dst] = Whole(t)

Sound == Distinct /\ Writing /\ Streamed /\ LateOK /\ WholeDst

IInv == TypeInv /\ LastRuns /\ SlowPath /\ NeverMissing /\ (~strayed => Sound)

-----------------------------------------------------------------------------
(* What each request does to the two paths. *)

(* What holds of the paths whatever takes effect late, and what does not.  *)
FrameOK ==
  /\ dst \in Files \cup {None} /\ partial \in Transfers \cup {None}
  /\ content \in [Files -> [Chunks -> Files \cup {None}]]
  /\ expected \in BOOLEAN
  /\ NeverMissing
PathsOK == Apart /\ WholeDst

LEMMA PutKeepsFrame ==
  ASSUME FrameOK, extension' = extension,
         NEW t \in Transfers, NEW f \in Transfers \cup {None}, NEW k \in Chunks, Put(t, f, k)
  PROVE  FrameOK' /\ partial' = partial /\ dst' = dst
         /\ content'[f] = [content[f] EXCEPT ![k] = t]
         /\ \A g \in Files \ {f} : content'[g] = content[g]
<1>1. f \in Files /\ content[f] \in [Chunks -> Files \cup {None}]
  BY DEF Put, FrameOK, Files
<1>2. content' = [content EXCEPT ![f] = [content[f] EXCEPT ![k] = t]]
  BY DEF Put
<1>3. [content[f] EXCEPT ![k] = t] \in [Chunks -> Files \cup {None}]
  BY <1>1 DEF Files
<1>4. content' \in [Files -> [Chunks -> Files \cup {None}]]
  BY <1>1, <1>2, <1>3 DEF FrameOK
<1>5. content'[f] = [content[f] EXCEPT ![k] = t] /\ \A g \in Files \ {f} : content'[g] = content[g]
  BY <1>1, <1>2 DEF FrameOK
<1>6. dst' = dst /\ partial' = partial /\ expected' = expected
  BY DEF Put
<1> QED BY <1>4, <1>5, <1>6 DEF FrameOK, NeverMissing

LEMMA CreateKeepsFrame ==
  ASSUME FrameOK, extension' = extension, NEW t \in Transfers, Create(t)
  PROVE  /\ FrameOK' /\ dst' = dst /\ partial' = (IF partial = None THEN t ELSE partial)
         /\ partial' \in Transfers /\ partial' # None
         /\ content'[partial'] = Empty
         /\ \A g \in Files \ {partial'} : content'[g] = content[g]
<1>1. partial' = (IF partial = None THEN t ELSE partial) /\ partial' \in Transfers
  BY TransfersAssumption DEF Create, FrameOK
<1>2. content' = [content EXCEPT ![partial'] = Empty] /\ dst' = dst /\ expected' = expected
  BY DEF Create
<1>3. Empty \in [Chunks -> Files \cup {None}]
  BY DEF Empty
<1>4. partial' \in Files
  BY <1>1 DEF Files
<1>5. /\ content' \in [Files -> [Chunks -> Files \cup {None}]]
      /\ content'[partial'] = Empty
      /\ \A g \in Files \ {partial'} : content'[g] = content[g]
  BY <1>2, <1>3, <1>4 DEF FrameOK
<1> QED BY <1>1, <1>2, <1>5, TransfersAssumption DEF FrameOK, NeverMissing

LEMMA MoveKeepsFrame ==
  ASSUME FrameOK, extension' = extension, Move
  PROVE  FrameOK' /\ dst' = partial /\ dst' # None /\ partial' = None /\ content' = content
BY TransfersAssumption DEF FrameOK, Move, NeverMissing, Files

(* The target is only removed where posix-rename is missing. *)
LEMMA RemoveKeepsFrame ==
  ASSUME FrameOK, extension' = extension, ~extension, RemoveDst
  PROVE  FrameOK' /\ dst' = None /\ partial' = partial /\ content' = content
BY TransfersAssumption DEF FrameOK, RemoveDst, NeverMissing, Files

LEMMA CleanKeepsFrame ==
  ASSUME FrameOK, extension' = extension, RemovePartial
  PROVE  FrameOK' /\ dst' = dst /\ partial' = None /\ content' = content
BY TransfersAssumption DEF FrameOK, RemovePartial, NeverMissing, Files

LEMMA NothingKeepsFrame ==
  ASSUME FrameOK, extension' = extension, Nothing
  PROVE  FrameOK' /\ dst' = dst /\ partial' = partial /\ content' = content
BY DEF FrameOK, Nothing, NeverMissing

(* A request by its name. *)
LEMMA EffectByName ==
  ASSUME NEW r \in Requests, Effect(r)
  PROVE  \/ r.does = "create" /\ Create(r.by)
         \/ r.does = "put" /\ r.file \in Transfers \cup {None} /\ r.chunk \in Chunks
            /\ Put(r.by, r.file, r.chunk)
         \/ r.does \in Renames /\ Move
         \/ r.does = "remove" /\ RemoveDst
         \/ r.does = "clean" /\ RemovePartial
         \/ r.does = "look" /\ Nothing
<1>1. r.does \in {"create", "rename", "posix", "remove", "clean", "look", "put"}
      /\ (r.does = "put" => r.file \in Transfers \cup {None} /\ r.chunk \in Chunks)
  BY DEF Requests
<1> QED BY <1>1 DEF Effect, PlainRename, Renames

LEMMA EffectKeepsFrame ==
  ASSUME FrameOK, extension' = extension, NEW r \in Requests, Effect(r),
         r.does = "remove" => ~extension
  PROVE  FrameOK'
<1>1. r.by \in Transfers
  BY DEF Requests
<1> QED BY <1>1, EffectByName, PutKeepsFrame, CreateKeepsFrame, MoveKeepsFrame, RemoveKeepsFrame,
           CleanKeepsFrame, NothingKeepsFrame

-----------------------------------------------------------------------------
(* A step of the one transfer that runs. *)

Began(t) == step[t] \notin {"done", "failed"} /\ \A u \in Transfers : Active(u) => u = t

LEMMA ActiveBegan == ASSUME IInv, NEW t \in Transfers, Active(t) PROVE Began(t) /\ t = last
BY DEF IInv, LastRuns, Began, Active

LEMMA FrameOfInv == IInv => FrameOK
BY DEF IInv, TypeInv, FrameOK

LEMMA AskIsRequest ==
  ASSUME NEW t \in Transfers,
         NEW w \in {"create", "rename", "posix", "remove", "clean", "look"}
  PROVE  Ask(t, w) \in Requests /\ Ask(t, w).by = t /\ Ask(t, w).does = w
BY DEF Ask, Requests

LEMMA ChunkIsRequest ==
  ASSUME NEW t \in Transfers, NEW f \in Transfers \cup {None}, NEW k \in Chunks
  PROVE  /\ Chunk(t, f, k) \in Requests /\ Chunk(t, f, k).by = t /\ Chunk(t, f, k).does = "put"
         /\ Chunk(t, f, k).file = f /\ Chunk(t, f, k).chunk = k
BY DEF Chunk, Requests

LEMMA TargetType == ASSUME IInv, NEW t \in Transfers PROVE Target(t) \in Transfers \cup {None}
BY DEF IInv, TypeInv, Target

LEMMA InFlightKinds ==
  ASSUME IInv, NEW t \in Transfers, NEW r \in InFlight(t)
  PROVE  /\ r \in Requests /\ r.by = t
         /\ \/ step[t] = "idle" /\ r.does = "create"
            \/ step[t] = "writing" /\ r.does = "put" /\ r.file = Target(t)
            \/ step[t] \in Committing /\ r.does \in Renames
            \/ step[t] = "remove" /\ r.does = "remove"
            \/ step[t] = "clean" /\ r.does = "clean"
<1>1. CASE step[t] = "writing"
  <2>1. PICK k \in left[t] : r = Chunk(t, Target(t), k)
    BY <1>1 DEF InFlight
  <2>2. k \in Chunks
    BY DEF IInv, TypeInv
  <2> QED BY <1>1, <2>1, <2>2, ChunkIsRequest, TargetType
<1>2. CASE step[t] # "writing"
  <2>1. \/ step[t] = "idle" /\ r = Ask(t, "create")
        \/ step[t] \in {"rename", "again"} /\ r = Ask(t, "rename")
        \/ step[t] = "posix" /\ r = Ask(t, "posix")
        \/ step[t] = "remove" /\ r = Ask(t, "remove")
        \/ step[t] = "clean" /\ r = Ask(t, "clean")
    BY <1>2 DEF InFlight
  <2> QED BY <2>1, AskIsRequest DEF Committing, Renames
<1> QED BY <1>1, <1>2

(* How a step of `t` that takes it to `s` may touch the paths. *)
Shape(t, s) ==
  /\ step[t] = "idle" => /\ s \in {"writing", "failed"}
                         /\ late' = late \/ (s = "failed" /\ Nothing)
  /\ step[t] = "writing" => /\ s \in {"writing", "rename", "clean", "failed"}
                            /\ dst' = dst /\ partial' = partial
                            /\ late' = late \/ s \in {"clean", "failed"}
  /\ step[t] \notin {"idle", "writing"} =>
       s # "writing" /\ content' = content /\ partial' \in {partial, None}
  /\ step[t] = "clean" => s = "failed" /\ dst' = dst
  /\ \A u \in Transfers : dst' = u \/ partial' = u => u = t \/ dst = u \/ partial = u

(* What `t` leaves on its way is sound. *)
LEMMA StepLate ==
  ASSUME IInv, Sound, NEW t \in Transfers, Began(t), NEW s \in Steps \ {"idle"}, To(t, s),
         t # last => step[t] = "idle",
         last' = t, late \subseteq late', late' \ late \subseteq InFlight(t), Shape(t, s)
  PROVE  LateOK'
<1>1. /\ step'[t] = s
      /\ \A u \in Transfers : u # t => step'[u] = step[u]
  BY DEF To, IInv, TypeInv
<1>2. \A r \in late : r.by \in Transfers /\ (r.by = t => t = last /\ step[t] # "idle" /\ r.does # "create")
  BY DEF IInv, TypeInv, Requests, LastRuns, Sound, LateOK, LateOne, Began
<1>3. ASSUME NEW r \in late PROVE LateOne(r)'
  <2>1. r.does = "create" => dst' # r.by /\ partial' # r.by /\ step'[r.by] = "failed"
    <3> SUFFICES ASSUME r.does = "create"
                 PROVE  dst' # r.by /\ partial' # r.by /\ step'[r.by] = "failed"
      OBVIOUS
    <3>1. dst # r.by /\ partial # r.by /\ step[r.by] = "failed" /\ r.by # t /\ r.by \in Transfers
      BY <1>2 DEF Sound, LateOK, LateOne
    <3> QED BY <3>1, <1>1 DEF Shape
  <2>2. ASSUME r.by = t, r.does = "put"
        PROVE  step'[r.by] \in {"clean", "failed"} /\ r.file # None /\ r.file # dst'
    <3>1. step[t] \in {"clean", "failed"} /\ r.file # None /\ r.file # dst
      BY <1>2, <2>2 DEF Sound, LateOK, LateOne
    <3> QED BY <1>1, <2>2, <3>1 DEF Shape, Began
  <2>3. ASSUME r.by = t, r.does \in Renames
        PROVE  step'[r.by] # "writing" /\ WholePartial(r.by)'
    <3>1. step[t] # "writing" /\ step[t] # "idle" /\ WholePartial(t)
      BY <1>2, <2>3 DEF Sound, LateOK, LateOne
    <3> QED BY <1>1, <2>3, <3>1 DEF Shape, WholePartial, Whole
  <2>4. ASSUME r.by = t, r.does = "clean" PROVE step'[r.by] = "failed"
    BY <1>2, <2>4 DEF Sound, LateOK, LateOne, Began
  <2> QED BY <2>1, <2>2, <2>3, <2>4 DEF LateOne
<1>4. ASSUME NEW r \in late' \ late PROVE LateOne(r)'
  <2>1. r \in InFlight(t)
    OBVIOUS
  <2>2. CASE step[t] = "idle" /\ r.does = "create" /\ r.by = t
    <3>1. s = "failed" /\ Nothing
      BY <2>2 DEF Shape
    <3>2. dst # t /\ partial # t
      BY <2>2 DEF Sound, Distinct
    <3> QED BY <1>1, <2>2, <3>1, <3>2 DEF LateOne, Nothing, Renames
  <2>3. CASE step[t] = "writing" /\ r.does = "put" /\ r.file = Target(t) /\ r.by = t
    <3>1. s \in {"clean", "failed"} /\ dst' = dst
      BY <2>3 DEF Shape
    <3>2. Target(t) = partial /\ partial # None
      BY <2>3 DEF Sound, Writing, Target
    <3>3. r.file # None /\ r.file # dst
      BY <2>3, <3>2 DEF Sound, Distinct, Apart
    <3> QED BY <1>1, <2>3, <3>1, <3>3 DEF LateOne, Renames
  <2>4. CASE step[t] \in Committing /\ r.does \in Renames /\ r.by = t
    <3>1. s # "writing" /\ content' = content /\ partial' \in {partial, None}
      BY <2>4 DEF Shape, Committing
    <3>2. WholePartial(t)
      BY <2>4 DEF Sound, Streamed
    <3>3. WholePartial(t)'
      BY <3>1, <3>2 DEF WholePartial, Whole
    <3> QED BY <1>1, <2>4, <3>1, <3>3 DEF LateOne, Renames
  <2>5. CASE step[t] = "remove" /\ r.does = "remove" /\ r.by = t
    BY <2>5 DEF LateOne, Renames
  <2>6. CASE step[t] = "clean" /\ r.does = "clean" /\ r.by = t
    BY <1>1, <2>6 DEF LateOne, Renames, Shape
  <2> QED BY <2>1, <2>2, <2>3, <2>4, <2>5, <2>6, InFlightKinds
<1>5. ASSUME NEW r \in late', NEW q \in late', r.by = t, q.by = t, r.does \in Renames
      PROVE  q.does \notin {"put", "create"}
  <2>1. CASE r \in late
    <3>1. t = last /\ step[t] \notin {"idle", "writing"}
      BY <1>2, <1>5, <2>1 DEF Sound, LateOK, LateOne
    <3>2. CASE q \in late
      BY <1>5, <2>1, <3>1, <3>2 DEF Sound, LateOK, LateTwo
    <3>3. CASE q \notin late
      BY <3>1, <3>3, InFlightKinds DEF Renames
    <3> QED BY <3>2, <3>3
  <2>2. CASE r \notin late
    <3>1. step[t] \in Committing
      BY <1>5, <2>2, InFlightKinds DEF Renames
    <3>2. CASE q \in late
      BY <1>2, <1>5, <3>1, <3>2 DEF Sound, LateOK, LateOne, Committing
    <3>3. CASE q \notin late
      BY <3>1, <3>3, InFlightKinds DEF Renames, Committing
    <3> QED BY <3>2, <3>3
  <2> QED BY <2>1, <2>2
<1>6. \A r, q \in late' : LateTwo(r, q)'
  BY <1>5 DEF LateTwo
<1> QED BY <1>3, <1>4, <1>6 DEF LateOK

(* What a step of `t` must leave behind for the invariant to hold again.   *)
LEMMA StepOfOne ==
  ASSUME IInv, NEW t \in Transfers, Began(t), NEW s \in Steps \ {"idle"}, To(t, s),
         t # last => step[t] = "idle",
         FrameOK', extension' = extension, up' \in [Transfers -> BOOLEAN],
         left' \in [Transfers -> SUBSET Chunks],
         handle' \in [Transfers -> Transfers \cup {None}],
         last' = t, strayed' = strayed,
         late \subseteq late', late' \ late \subseteq InFlight(t),
         s \in {"stat", "remove", "again"} => ~extension,
         ~strayed => /\ Shape(t, s) /\ PathsOK'
                     /\ s = "writing" => /\ partial' # None
                                         /\ t \notin Striped => handle'[t] = partial'
                                         /\ left'[t] \subseteq Size[t]
                                         /\ content'[partial'] = Filled(t)'
                     /\ s \in Committing => WholePartial(t)'
  PROVE  IInv'
<1>1. /\ step' \in [Transfers -> Steps] /\ step'[t] = s
      /\ \A u \in Transfers : u # t => step'[u] = step[u]
  BY DEF To, IInv, TypeInv
<1>2. \A u \in Transfers : u # t => step'[u] \in {"idle", "done", "failed"}
  BY <1>1 DEF Began, Active
<1>3. \A r \in late' \ late : r \in Requests /\ r.by = t /\ (r.does = "remove" => ~extension)
  BY InFlightKinds DEF IInv, SlowPath, Renames
<1>4. TypeInv'
  BY <1>1, <1>3 DEF FrameOK, TypeInv, IInv
<1>5. \A r \in late : r.by \in Transfers
  BY DEF IInv, TypeInv, Requests
<1>6. LastRuns'
  BY <1>1, <1>2, <1>3, <1>5 DEF LastRuns, Active, IInv
<1>7. SlowPath'
  <2>1. \A u \in Transfers : step'[u] \in {"stat", "remove", "again"} => ~extension
    BY <1>1, <1>2
  <2>2. \A r \in late' : r.does = "remove" => ~extension
    BY <1>3 DEF IInv, SlowPath
  <2> QED BY <2>1, <2>2 DEF SlowPath
<1>8. ASSUME ~strayed PROVE Sound'
  <2>1. Sound /\ Shape(t, s) /\ PathsOK'
    BY <1>8 DEF IInv
  <2>2. Distinct'
    BY <1>1, <2>1 DEF Distinct, PathsOK, Sound, Shape
  <2>3. Writing'
    BY <1>1, <1>2, <1>8 DEF Writing
  <2>4. Streamed'
    BY <1>1, <1>2, <1>8 DEF Streamed, Committing
  <2>5. LateOK'
    BY <2>1, StepLate
  <2> QED BY <2>1, <2>2, <2>3, <2>4, <2>5 DEF Sound, PathsOK
<1> QED BY <1>4, <1>6, <1>7, <1>8 DEF IInv, FrameOK

(* What is unanswered took effect or not, and may be on its way still.     *)
LEMMA UnansweredStep ==
  ASSUME IInv, NEW t \in Transfers, NEW r \in Requests, Answered(t, r) \/ Unanswered(t, r)
  PROVE  /\ Nothing \/ Effect(r)
         /\ up' \in [Transfers -> BOOLEAN]
         /\ late \subseteq late' /\ late' \ late \subseteq InFlight(t)
         /\ Answered(t, r) => late' = late /\ Effect(r)
         /\ InFlight(t) = {r} => late' = late \/ Nothing
<1>1. CASE Answered(t, r)
  BY <1>1 DEF Answered, IInv, TypeInv
<1>2. CASE Unanswered(t, r)
  <2>1. up' \in [Transfers -> BOOLEAN]
    BY <1>2 DEF Unanswered, IInv, TypeInv
  <2>2. PICK S \in SUBSET InFlight(t) :
          late' = late \cup S /\ (Nothing \/ (Effect(r) /\ r \notin S))
    BY <1>2 DEF Unanswered, Leaves
  <2>3. InFlight(t) = {r} => late' = late \/ Nothing
    BY <2>2
  <2>4. Answered(t, r) => late' = late /\ Effect(r)
    BY DEF Answered
  <2> QED BY <2>1, <2>2, <2>3, <2>4
<1> QED BY <1>1, <1>2

LEMMA OpenKeepsIInv == ASSUME IInv, NEW t \in Transfers, Open(t) PROVE IInv'
<1> DEFINE r == Ask(t, "create")
<1>1. step[t] = "idle" /\ Began(t) /\ FrameOK /\ extension' = extension /\ strayed' = strayed /\ last' = t
  BY FrameOfInv DEF Open, Began
<1>2. r \in Requests /\ r.by = t /\ r.does = "create" /\ InFlight(t) = {r}
  BY <1>1, AskIsRequest DEF InFlight
<1>3. Answered(t, r) \/ Unanswered(t, r)
  BY DEF Open
<1> HIDE DEF r
<1>4. /\ Nothing \/ Create(t)
      /\ up' \in [Transfers -> BOOLEAN]
      /\ late \subseteq late' /\ late' \ late \subseteq InFlight(t)
      /\ Answered(t, r) => late' = late /\ Create(t)
      /\ late' = late \/ Nothing
  BY <1>2, <1>3, UnansweredStep DEF Effect
<1>5. FrameOK'
  BY <1>1, <1>4, CreateKeepsFrame, NothingKeepsFrame
<1>6. \A u \in Transfers : dst' = u \/ partial' = u => u = t \/ dst = u \/ partial = u
  BY <1>1, <1>4, CreateKeepsFrame, NothingKeepsFrame
<1>7. ASSUME ~strayed PROVE PathsOK'
  <2>1. PathsOK /\ dst # t
    BY <1>1, <1>7 DEF IInv, Sound, PathsOK, Distinct
  <2>2. CASE Nothing
    BY <2>1, <2>2 DEF Nothing, PathsOK, Apart, WholeDst, Whole
  <2>3. CASE Create(t)
    <3>1. dst' = dst /\ partial' = (IF partial = None THEN t ELSE partial)
          /\ \A g \in Files \ {partial'} : content'[g] = content[g]
      BY <1>1, <2>3, CreateKeepsFrame
    <3>2. dst # None => dst # partial'
      BY <2>1, <3>1 DEF PathsOK, Apart
    <3>3. dst \in Transfers => content'[dst] = content[dst]
      BY <3>1, <3>2, TransfersAssumption DEF Files
    <3> QED BY <2>1, <3>1, <3>2, <3>3 DEF PathsOK, Apart, WholeDst, Whole
  <2> QED BY <1>4, <2>2, <2>3
<1>8. CASE Answered(t, r) /\ handle' = [handle EXCEPT ![t] = partial']
           /\ left' = [left EXCEPT ![t] = Size[t]] /\ To(t, "writing")
  <2>1. partial' # None /\ partial' \in Transfers /\ content'[partial'] = Empty
    BY <1>1, <1>4, <1>8, CreateKeepsFrame
  <2>2. handle'[t] = partial' /\ handle' \in [Transfers -> Transfers \cup {None}]
    BY <1>8, <2>1 DEF IInv, TypeInv
  <2>3. left'[t] = Size[t] /\ left' \in [Transfers -> SUBSET Chunks]
    BY <1>8, TransfersAssumption DEF IInv, TypeInv
  <2>4. content'[partial'] = Filled(t)'
    BY <2>1, <2>3 DEF Filled, Empty
  <2>5. Shape(t, "writing")
    BY <1>1, <1>4, <1>6, <1>8 DEF Shape
  <2> QED BY <1>1, <1>4, <1>5, <1>7, <1>8, <2>1, <2>2, <2>3, <2>4, <2>5, StepOfOne DEF Steps, Committing
<1>9. CASE To(t, "failed") /\ UNCHANGED <<left, handle>>
  <2>1. Shape(t, "failed")
    BY <1>1, <1>4, <1>6 DEF Shape
  <2> QED BY <1>1, <1>4, <1>5, <1>7, <1>9, <2>1, StepOfOne DEF Steps, Committing, IInv, TypeInv
<1> QED BY <1>8, <1>9 DEF Open, r

(* An answered chunk is one less to write. *)
LEMMA FilledByPut ==
  ASSUME IInv, NEW t \in Transfers, NEW k \in left[t], left[t] \subseteq Size[t],
         left' = [left EXCEPT ![t] = left[t] \ {k}]
  PROVE  [Filled(t) EXCEPT ![k] = t] = Filled(t)'
<1>1. left'[t] = left[t] \ {k} /\ k \in Chunks /\ k \in Size[t]
  BY DEF IInv, TypeInv
<1> QED BY <1>1 DEF Filled

(* A chunk written into the `.partial` leaves the target be. *)
LEMMA PutKeepsPaths ==
  ASSUME PathsOK, partial # None, dst' = dst, partial' = partial,
         \A g \in Files \ {partial} : content'[g] = content[g]
  PROVE  PathsOK'
BY DEF PathsOK, Apart, WholeDst, Whole, Files

LEMMA WriteChunkKeepsIInv == ASSUME IInv, NEW t \in Transfers, WriteChunk(t) PROVE IInv'
<1> DEFINE f == Target(t)
<1>1. step[t] = "writing" /\ Began(t) /\ t = last /\ FrameOK
  BY FrameOfInv, ActiveBegan DEF WriteChunk, Active
<1>2. PICK k \in left[t] :
        \/ /\ Answered(t, Chunk(t, f, k))
           /\ left' = [left EXCEPT ![t] = @ \ {k}]
           /\ UNCHANGED <<step, handle, extension, last, strayed>>
        \/ Unanswered(t, Chunk(t, f, k)) /\ To(t, "clean") /\ Keep(t)
  BY DEF WriteChunk
<1> DEFINE r == Chunk(t, f, k)
<1>3. k \in Chunks /\ f \in Transfers \cup {None} /\ extension' = extension /\ last' = t /\ strayed' = strayed
  BY <1>1, <1>2, TargetType DEF IInv, TypeInv, Keep
<1>4. r \in Requests /\ Effect(r) = Put(t, f, k)
  BY <1>3, ChunkIsRequest DEF Effect
<1>5. Answered(t, r) \/ Unanswered(t, r)
  BY <1>2
<1> HIDE DEF f, r
<1>6. /\ Nothing \/ Put(t, f, k)
      /\ up' \in [Transfers -> BOOLEAN]
      /\ late \subseteq late' /\ late' \ late \subseteq InFlight(t)
      /\ Answered(t, r) => late' = late /\ Put(t, f, k)
  BY <1>4, <1>5, UnansweredStep
<1>7. FrameOK' /\ dst' = dst /\ partial' = partial
  BY <1>1, <1>3, <1>6, PutKeepsFrame, NothingKeepsFrame
<1>8. ASSUME ~strayed
      PROVE  /\ f = partial /\ partial # None /\ left[t] \subseteq Size[t]
             /\ content[partial] = Filled(t) /\ (t \notin Striped => handle[t] = partial)
             /\ PathsOK
  BY <1>1, <1>8 DEF IInv, Sound, Writing, Target, Distinct, PathsOK, f
<1>9. ASSUME ~strayed PROVE PathsOK'
  <2>1. CASE Nothing
    BY <1>8, <1>9, <2>1 DEF Nothing, PathsOK, Apart, WholeDst, Whole
  <2>2. CASE Put(t, f, k)
    <3>1. FrameOK /\ extension' = extension /\ f \in Transfers \cup {None} /\ k \in Chunks
      BY <1>1, <1>3
    <3>2. \A g \in Files \ {f} : content'[g] = content[g]
      BY <2>2, <3>1, PutKeepsFrame
    <3>3. PathsOK /\ partial # None /\ f = partial
      BY <1>8, <1>9
    <3>4. \A g \in Files \ {partial} : content'[g] = content[g]
      BY <3>2, <3>3
    <3> QED BY <1>7, <3>3, <3>4, PutKeepsPaths
  <2> QED BY <1>6, <2>1, <2>2
<1>10. CASE Answered(t, r) /\ left' = [left EXCEPT ![t] = left[t] \ {k}]
            /\ UNCHANGED <<step, handle>>
  <2>1. ASSUME ~strayed PROVE content'[partial'] = Filled(t)'
    <3>1. FrameOK /\ extension' = extension /\ f \in Transfers \cup {None} /\ k \in Chunks
      BY <1>1, <1>3
    <3>2. Put(t, f, k)
      BY <1>6, <1>10
    <3>3. content'[f] = [content[f] EXCEPT ![k] = t]
      BY <3>1, <3>2, PutKeepsFrame
    <3>4. f = partial /\ content[partial] = Filled(t) /\ left[t] \subseteq Size[t]
      BY <1>8, <2>1
    <3>5. [Filled(t) EXCEPT ![k] = t] = Filled(t)'
      BY <1>10, <3>4, FilledByPut
    <3> QED BY <1>7, <3>3, <3>4, <3>5
  <2>2. left'[t] = left[t] \ {k} /\ left' \in [Transfers -> SUBSET Chunks]
    BY <1>10 DEF IInv, TypeInv
  <2>3. To(t, "writing") /\ handle' \in [Transfers -> Transfers \cup {None}]
    BY <1>1, <1>10 DEF To, IInv, TypeInv
  <2>4. Shape(t, "writing")
    BY <1>1, <1>6, <1>7, <1>10 DEF Shape
  <2>5. ASSUME ~strayed
        PROVE  partial' # None /\ (t \notin Striped => handle'[t] = partial') /\ left'[t] \subseteq Size[t]
    BY <1>7, <1>8, <1>10, <2>2, <2>5
  <2> QED BY <1>1, <1>3, <1>6, <1>7, <1>9, <2>1, <2>2, <2>3, <2>4, <2>5, StepOfOne DEF Steps, Committing
<1>11. CASE To(t, "clean") /\ Keep(t)
  <2>1. Shape(t, "clean")
    BY <1>1, <1>7 DEF Shape
  <2> QED BY <1>1, <1>3, <1>6, <1>7, <1>9, <1>11, <2>1, StepOfOne DEF Steps, Committing, Keep, IInv, TypeInv
<1> QED BY <1>2, <1>10, <1>11 DEF r

(* Steps that leave the paths alone. *)
LEMMA QuietKeepsIInv ==
  ASSUME IInv, NEW t \in Transfers, Active(t), Nothing, Keep(t), up' \in [Transfers -> BOOLEAN],
         late \subseteq late', late' \ late \subseteq InFlight(t),
         NEW s \in Steps \ {"idle", "writing"}, To(t, s),
         step[t] = "clean" => s = "failed",
         step[t] = "writing" => s \in {"rename", "clean", "failed"}
                                /\ (late' = late \/ s \in {"clean", "failed"}),
         s \in Committing => step[t] \in Committing \/ (step[t] = "writing" /\ left[t] = {}),
         s \in {"stat", "remove", "again"} => ~extension
  PROVE  IInv'
<1>1. Began(t) /\ t = last /\ FrameOK
  BY ActiveBegan, FrameOfInv
<1>2. FrameOK' /\ dst' = dst /\ partial' = partial /\ content' = content
  BY <1>1, NothingKeepsFrame DEF Keep
<1>3. Shape(t, s)
  BY <1>2 DEF Shape, Active
<1>4. ASSUME ~strayed PROVE PathsOK' /\ (s \in Committing => WholePartial(t)')
  <2>1. Sound
    BY <1>4 DEF IInv
  <2>2. s \in Committing => WholePartial(t)
    BY <2>1 DEF Sound, Writing, Streamed, Filled, Whole, WholePartial
  <2> QED BY <1>2, <2>1, <2>2 DEF Sound, Distinct, PathsOK, Apart, WholeDst, Whole, WholePartial
<1> QED BY <1>1, <1>2, <1>3, <1>4, StepOfOne DEF Keep, IInv, TypeInv

LEMMA CancelKeepsIInv == ASSUME IInv, NEW t \in Transfers, Cancel(t) PROVE IInv'
<1>1. late \subseteq late' /\ late' \ late \subseteq InFlight(t)
  BY DEF Cancel, Leaves
<1> QED BY <1>1, QuietKeepsIInv DEF Cancel, Steps, Committing, IInv, TypeInv

LEMMA CloseKeepsIInv ==
  ASSUME IInv, NEW t \in Transfers, CloseFile(t) \/ CloseEarly(t)
  PROVE  IInv'
<1>1. CASE CloseFile(t)
  <2> DEFINE r == Ask(t, "look")
  <2>1. r \in Requests /\ Effect(r) = Nothing
    BY AskIsRequest DEF Effect
  <2>2. Answered(t, r) \/ Unanswered(t, r)
    BY <1>1 DEF CloseFile
  <2> HIDE DEF r
  <2>3. Nothing /\ up' \in [Transfers -> BOOLEAN] /\ late \subseteq late'
        /\ late' \ late \subseteq InFlight(t) /\ (Answered(t, r) => late' = late)
    BY <2>1, <2>2, UnansweredStep
  <2>4. Keep(t) /\ Active(t) /\ step[t] = "writing" /\ left[t] = {}
        /\ ((Answered(t, r) /\ To(t, "rename")) \/ To(t, "clean"))
    BY <1>1 DEF CloseFile, Active, r
  <2> QED BY <2>3, <2>4, QuietKeepsIInv DEF Steps, Committing
<1>2. CASE CloseEarly(t)
  <2>1. Nothing /\ up' \in [Transfers -> BOOLEAN] /\ late' = late
    BY <1>2 DEF CloseEarly, Refused, IInv, TypeInv
  <2> QED BY <1>2, <2>1, QuietKeepsIInv DEF CloseEarly, Active, Steps, Committing
<1> QED BY <1>1, <1>2

(* A whole `.partial` becomes a whole target. *)
LEMMA MoveKeepsPaths ==
  ASSUME NEW t \in Transfers, WholePartial(t), Move
  PROVE  PathsOK' /\ content'[dst'] = Whole(t)
BY DEF Move, WholePartial, PathsOK, Apart, WholeDst, Whole

(* A step of the commit that moves the file, or takes one away. *)
LEMMA CommitKeepsIInv ==
  ASSUME IInv, NEW t \in Transfers, step[t] \in Committing \cup {"clean"}, Keep(t),
         up' \in [Transfers -> BOOLEAN], late \subseteq late', late' \ late \subseteq InFlight(t),
         NEW s \in {"done", "posix", "again", "clean", "failed"}, To(t, s),
         step[t] = "clean" => s = "failed",
         s = "again" => ~extension,
         \/ Move /\ step[t] # "clean"
         \/ RemoveDst /\ ~extension /\ step[t] # "clean"
         \/ RemovePartial /\ step[t] = "clean"
  PROVE  IInv'
<1>1. Active(t) /\ Began(t) /\ t = last /\ FrameOK
  BY ActiveBegan, FrameOfInv DEF Committing, Active
<1>2. FrameOK' /\ content' = content /\ partial' \in {partial, None} /\ dst' \in {dst, partial, None}
  BY <1>1, MoveKeepsFrame, RemoveKeepsFrame, CleanKeepsFrame DEF Keep
<1>3. step[t] = "clean" => dst' = dst
  BY DEF RemovePartial
<1>4. Shape(t, s)
  BY <1>2, <1>3, TransfersAssumption DEF Shape, Committing
<1>5. ASSUME ~strayed PROVE PathsOK' /\ (s \in Committing => WholePartial(t)')
  <2>1. Sound /\ PathsOK
    BY <1>5 DEF IInv, Sound, Distinct, PathsOK
  <2>2. step[t] # "clean" => WholePartial(t)
    BY <2>1 DEF Sound, Streamed
  <2>3. s \in Committing => WholePartial(t)'
    BY <1>2, <2>2 DEF WholePartial, Whole, Committing
  <2>4. PathsOK'
    <3>1. CASE Move /\ step[t] # "clean"
      BY <2>2, <3>1, MoveKeepsPaths
    <3>2. CASE RemoveDst
      BY <3>2, TransfersAssumption DEF RemoveDst, PathsOK, Apart, WholeDst
    <3>3. CASE RemovePartial
      BY <2>1, <3>3 DEF RemovePartial, PathsOK, Apart, WholeDst, Whole
    <3> QED BY <3>1, <3>2, <3>3
  <2> QED BY <2>3, <2>4
<1> QED BY <1>1, <1>2, <1>4, <1>5, StepOfOne DEF Keep, IInv, TypeInv, Steps

(* A request of the commit, answered or not. *)
LEMMA AskedKeepsIInv ==
  ASSUME IInv, NEW t \in Transfers, step[t] \in Committing \cup {"clean"}, Keep(t),
         NEW w \in {"rename", "posix", "remove", "clean", "look"},
         w = "clean" <=> step[t] = "clean",
         w = "remove" => step[t] = "remove",
         Answered(t, Ask(t, w)) \/ Unanswered(t, Ask(t, w)),
         NEW s \in {"done", "posix", "remove", "again", "clean", "failed"}, To(t, s),
         step[t] = "clean" => s = "failed",
         s \in {"remove", "again"} => step[t] \in {"stat", "remove"},
         w # "look" => s # "remove"
  PROVE  IInv'
<1> DEFINE r == Ask(t, w)
<1>1. r \in Requests /\ r.does = w
  BY AskIsRequest
<1>2. Answered(t, r) \/ Unanswered(t, r)
  OBVIOUS
<1> HIDE DEF r
<1>3. (Nothing \/ Effect(r)) /\ up' \in [Transfers -> BOOLEAN]
      /\ late \subseteq late' /\ late' \ late \subseteq InFlight(t)
  BY <1>1, <1>2, UnansweredStep
<1>4. Active(t) /\ (step[t] \in {"stat", "remove"} => ~extension)
  BY DEF Active, Committing, IInv, SlowPath
<1>5. CASE Nothing
  BY <1>3, <1>4, <1>5, QuietKeepsIInv DEF Steps, Committing
<1>6. CASE Effect(r) /\ ~Nothing
  <2>1. \/ w \in Renames /\ Move
        \/ w = "remove" /\ RemoveDst
        \/ w = "clean" /\ RemovePartial
    BY <1>1, <1>6, EffectByName
  <2>2. s # "remove"
    BY <2>1 DEF Renames
  <2> QED BY <1>3, <1>4, <2>1, <2>2, CommitKeepsIInv DEF Renames
<1> QED BY <1>3, <1>5, <1>6

LEMMA CommitStepsKeepIInv ==
  ASSUME IInv, NEW t \in Transfers,
         TryRename(t) \/ TryPosixRename(t) \/ Stat(t) \/ Remove(t) \/ RenameAgain(t) \/ Clean(t)
  PROVE  IInv'
<1>1. CASE TryRename(t)
  BY <1>1, AskedKeepsIInv DEF TryRename, Committing
<1>2. CASE TryPosixRename(t)
  <2>1. CASE ~extension /\ Refused(t) /\ To(t, "stat")
    <3>1. Nothing /\ up' \in [Transfers -> BOOLEAN] /\ late' = late
      BY <2>1 DEF Refused, IInv, TypeInv
    <3> QED BY <1>2, <2>1, <3>1, QuietKeepsIInv DEF TryPosixRename, Active, Steps, Committing
  <2>2. CASE ~(~extension /\ Refused(t) /\ To(t, "stat"))
    BY <1>2, <2>2, AskedKeepsIInv DEF TryPosixRename, Committing
  <2> QED BY <2>1, <2>2
<1>3. CASE Stat(t)
  <2>1. PICK s \in {"remove", "clean"} : To(t, s)
    BY <1>3 DEF Stat
  <2> QED BY <1>3, <2>1, AskedKeepsIInv DEF Stat, Committing
<1>4. CASE Remove(t)
  BY <1>4, AskedKeepsIInv DEF Remove, Committing
<1>5. CASE RenameAgain(t)
  BY <1>5, AskedKeepsIInv DEF RenameAgain, Committing
<1>6. CASE Clean(t)
  BY <1>6, AskedKeepsIInv DEF Clean
<1> QED BY <1>1, <1>2, <1>3, <1>4, <1>5, <1>6

-----------------------------------------------------------------------------
(* A late request. *)

(* One of the transfer that began last does only what it was asked for.    *)
LEMMA LandKeepsSound ==
  ASSUME IInv, Sound, NEW r \in late, r.by = last, Effect(r), late' = late \ {r},
         UNCHANGED <<step, left, handle, extension, last>>
  PROVE  Sound'
<1>1. /\ r \in Requests /\ r.by \in Transfers /\ r.by = last /\ LateOne(r)
      /\ \A q \in late : q.by \in Transfers /\ LateOne(q) /\ LateTwo(r, q)
      /\ FrameOK /\ step[last] # "idle"
  BY FrameOfInv DEF IInv, TypeInv, Requests, LastRuns, Sound, LateOK
<1>2. \A r1, r2 \in late' : LateTwo(r1, r2)'
  BY DEF Sound, LateOK, LateTwo
<1>3. \A u \in Transfers : u # last => step[u] \in {"idle", "done", "failed"}
  BY DEF IInv, LastRuns, Active
<1>4. CASE r.does = "create" /\ Create(last)
  <2>1. /\ dst' = dst /\ partial' = (IF partial = None THEN last ELSE partial)
        /\ \A g \in Files \ {partial'} : content'[g] = content[g]
    BY <1>1, <1>4, CreateKeepsFrame
  <2>2. dst # last /\ partial # last /\ step[last] = "failed"
    BY <1>1, <1>4 DEF LateOne
  <2>3. Distinct'
    BY <1>1, <2>1, <2>2 DEF Sound, Distinct, Apart
  <2>4. Writing' /\ Streamed'
    BY <1>3, <2>2 DEF Writing, Streamed, Committing
  <2>5. WholeDst'
    <3>1. dst \in Transfers => content'[dst] = content[dst]
      BY <2>1, <2>3, TransfersAssumption DEF Distinct, Apart, Files
    <3> QED BY <2>1, <3>1 DEF Sound, WholeDst, Whole
  <2>6. ASSUME NEW q \in late' PROVE LateOne(q)'
    <3>1. q.by = last => q.does \notin Renames
      BY <1>1, <1>4, <2>6 DEF Sound, LateOK, LateTwo
    <3>2. q.does = "create" => q.by # last
      <4>1. ASSUME q.does = "create", q.by = last PROVE FALSE
        <5>1. q = r
          BY <1>1, <1>4, <2>6, <4>1 DEF IInv, TypeInv, Requests
        <5> QED BY <2>6, <5>1
      <4> QED BY <4>1
    <3>3. LateOne(q)
      BY <1>1, <2>6
    <3> QED BY <2>1, <3>1, <3>2, <3>3 DEF LateOne
  <2> QED BY <1>2, <2>3, <2>4, <2>5, <2>6 DEF Sound, LateOK
<1>5. CASE r.does = "put" /\ r.file \in Transfers \cup {None} /\ r.chunk \in Chunks
           /\ Put(last, r.file, r.chunk)
  <2>1. /\ dst' = dst /\ partial' = partial
        /\ \A g \in Files \ {r.file} : content'[g] = content[g]
    BY <1>1, <1>5, PutKeepsFrame
  <2>2. step[last] \in {"clean", "failed"} /\ r.file # dst
    BY <1>1, <1>5 DEF LateOne
  <2>3. Distinct' /\ Writing' /\ Streamed'
    BY <1>3, <2>1, <2>2 DEF Sound, Distinct, Apart, Writing, Streamed, Committing
  <2>4. WholeDst'
    <3>1. dst \in Transfers => content'[dst] = content[dst]
      BY <2>1, <2>2 DEF Files
    <3> QED BY <2>1, <3>1 DEF Sound, WholeDst, Whole
  <2>5. ASSUME NEW q \in late' PROVE LateOne(q)'
    <3>1. q.by = last => q.does \notin Renames
      BY <1>1, <1>5, <2>5 DEF Sound, LateOK, LateTwo
    <3>2. LateOne(q)
      BY <1>1, <2>5
    <3> QED BY <2>1, <3>1, <3>2 DEF LateOne
  <2> QED BY <1>2, <2>3, <2>4, <2>5 DEF Sound, LateOK
<1>6. CASE r.does \in Renames /\ Move
  <2>1. dst' = partial /\ partial # None /\ partial' = None /\ content' = content
    BY <1>6 DEF Move
  <2>2. step[last] # "writing" /\ WholePartial(last)
    BY <1>1, <1>6 DEF LateOne
  <2>3. PathsOK'
    BY <1>1, <1>6, <2>2, MoveKeepsPaths
  <2>4. Distinct'
    BY <2>1, <2>3, TransfersAssumption DEF Sound, Distinct, PathsOK
  <2>5. Writing' /\ Streamed'
    BY <1>3, <2>1, <2>2 DEF Writing, Streamed, WholePartial
  <2>6. ASSUME NEW q \in late' PROVE LateOne(q)'
    <3>1. q.by = last => q.does \notin {"put", "create"}
      BY <1>1, <1>6, <2>5 DEF LateTwo
    <3>2. LateOne(q) /\ q.by \in Transfers
      BY <1>1, <2>5
    <3> QED BY <2>1, <3>1, <3>2, TransfersAssumption DEF LateOne, WholePartial
  <2> QED BY <1>2, <2>3, <2>4, <2>5, <2>6 DEF Sound, LateOK, PathsOK
<1>7. CASE r.does = "remove" /\ RemoveDst
  <2>1. dst' = None /\ partial' = partial /\ content' = content
    BY <1>7 DEF RemoveDst
  <2>2. Distinct' /\ Writing' /\ Streamed' /\ WholeDst'
    BY <2>1, TransfersAssumption
    DEF Sound, Distinct, Apart, Writing, Filled, Streamed, WholePartial, WholeDst, Whole
  <2>3. ASSUME NEW q \in late' PROVE LateOne(q)'
    <3>1. LateOne(q) /\ q.by \in Transfers
      BY <1>1, <2>3
    <3> QED BY <2>1, <3>1, TransfersAssumption DEF LateOne, WholePartial, Whole
  <2> QED BY <1>2, <2>2, <2>3 DEF Sound, LateOK
<1>8. CASE r.does = "clean" /\ RemovePartial
  <2>1. dst' = dst /\ partial' = None /\ content' = content
    BY <1>8 DEF RemovePartial
  <2>2. step[last] = "failed"
    BY <1>1, <1>8 DEF LateOne
  <2>3. Distinct' /\ Writing' /\ Streamed' /\ WholeDst'
    BY <1>3, <2>1, <2>2, TransfersAssumption
    DEF Sound, Distinct, Apart, Writing, Streamed, WholePartial, WholeDst, Whole, Committing
  <2>4. ASSUME NEW q \in late' PROVE LateOne(q)'
    <3>1. LateOne(q) /\ q.by \in Transfers
      BY <1>1, <2>4
    <3> QED BY <2>1, <3>1, TransfersAssumption DEF LateOne, WholePartial
  <2> QED BY <1>2, <2>3, <2>4 DEF Sound, LateOK
<1>9. CASE r.does = "look" /\ Nothing
  <2>1. dst' = dst /\ partial' = partial /\ content' = content
    BY <1>9 DEF Nothing
  <2>2. Distinct' /\ Writing' /\ Streamed' /\ WholeDst'
    BY <2>1 DEF Sound, Distinct, Apart, Writing, Filled, Streamed, WholePartial, WholeDst, Whole
  <2>3. ASSUME NEW q \in late' PROVE LateOne(q)'
    <3>1. LateOne(q)
      BY <1>1, <2>3
    <3> QED BY <2>1, <3>1 DEF LateOne, WholePartial, Whole
  <2> QED BY <1>2, <2>2, <2>3 DEF Sound, LateOK
<1> QED BY <1>1, <1>4, <1>5, <1>6, <1>7, <1>8, <1>9, EffectByName

LEMMA LandKeepsIInv == ASSUME IInv, Land PROVE IInv'
<1>1. PICK r \in late : Effect(r) /\ late' = late \ {r} /\ strayed' = (strayed \/ r.by # last)
  BY DEF Land
<1>2. UNCHANGED <<step, left, handle, up, extension, last>>
  BY DEF Land
<1>3. r \in Requests /\ (r.does = "remove" => ~extension)
  BY DEF IInv, TypeInv, SlowPath
<1>4. FrameOK'
  BY <1>1, <1>2, <1>3, FrameOfInv, EffectKeepsFrame
<1>5. TypeInv' /\ LastRuns' /\ SlowPath'
  BY <1>1, <1>2, <1>4 DEF IInv, TypeInv, FrameOK, LastRuns, Active, SlowPath
<1>6. ASSUME ~strayed' PROVE Sound'
  BY <1>1, <1>2, <1>6, LandKeepsSound DEF IInv
<1> QED BY <1>4, <1>5, <1>6 DEF IInv, FrameOK

-----------------------------------------------------------------------------

LEMMA OthersKeepIInv == ASSUME IInv, Others PROVE IInv'
<1>1. TypeInv' /\ LastRuns' /\ SlowPath'
  BY DEF Others, IInv, TypeInv, Files, LastRuns, Active, SlowPath
<1>2. NeverMissing'
  BY TransfersAssumption DEF Others, NeverMissing
<1>3. ASSUME ~strayed PROVE Sound'
  <2>1. (Sound /\ dst' \notin Transfers /\ dst' # partial) \/ dst' = None
    BY <1>3, TransfersAssumption DEF IInv, TypeInv, Others
  <2>2. Writing' /\ Streamed'
    BY <1>3 DEF IInv, Sound, Others, Writing, Filled, Streamed, WholePartial, Whole
  <2>3. Distinct' /\ WholeDst'
    BY <1>3, TransfersAssumption DEF IInv, TypeInv, Sound, Others, Distinct, Apart, WholeDst, Whole
  <2>4. ASSUME NEW q \in late' PROVE LateOne(q)'
    <3>1. LateOne(q) /\ q \in Requests
      BY <1>3, <2>4 DEF IInv, TypeInv, Sound, LateOK, Others
    <3> QED BY <3>1, TransfersAssumption DEF LateOne, WholePartial, Whole, Others, Requests
  <2>5. \A r, q \in late' : LateTwo(r, q)'
    BY <1>3 DEF IInv, Sound, LateOK, LateTwo, Others
  <2> QED BY <2>2, <2>3, <2>4, <2>5 DEF Sound, LateOK
<1> QED BY <1>1, <1>2, <1>3 DEF IInv, Others

LEMMA StutterKeepsIInv == ASSUME IInv, UNCHANGED vars PROVE IInv'
<1>1. TypeInv' /\ LastRuns' /\ SlowPath' /\ NeverMissing'
  BY DEF vars, IInv, TypeInv, LastRuns, Active, SlowPath, NeverMissing
<1>2. Sound => Sound'
  BY DEF vars, Sound, Distinct, Apart, Writing, Filled, Streamed, WholePartial, Whole, LateOK, LateOne,
         LateTwo, WholeDst
<1> QED BY <1>1, <1>2 DEF IInv, vars

LEMMA InitIInv == Init => IInv
<1> SUFFICES ASSUME Init PROVE IInv
  OBVIOUS
<1>1. TypeInv
  BY DEF Init, TypeInv, Files, Empty, Steps
<1>2. Sound
  BY TransfersAssumption DEF Init, Sound, Distinct, Apart, Writing, Streamed, Committing, LateOK, WholeDst
<1> QED BY <1>1, <1>2 DEF Init, IInv, LastRuns, Active, SlowPath, NeverMissing

LEMMA NextKeepsIInv == IInv /\ [Next]_vars => IInv'
<1> SUFFICES ASSUME IInv, [Next]_vars PROVE IInv'
  OBVIOUS
<1>1. ASSUME NEW t \in Transfers, Step(t) PROVE IInv'
  BY <1>1, OpenKeepsIInv, WriteChunkKeepsIInv, CloseKeepsIInv, CommitStepsKeepIInv, CancelKeepsIInv
  DEF Step
<1> QED BY <1>1, LandKeepsIInv, OthersKeepIInv, StutterKeepsIInv DEF Next

LEMMA Inductive == Spec => []IInv
BY InitIInv, NextKeepsIInv, PTL DEF Spec

(* "a network blip mid-transfer can't leave a half-written file at the     *)
(* final path", for any number of transfers and whatever the server and    *)
(* the connection do (sftp.rs, `upload`, `copy_between`, `commit_partial`).*)
THEOREM TargetIsWhole == Spec => []DstIsWhole
<1>1. IInv => DstIsWhole
  BY DEF IInv, Sound, WholeDst, DstIsWhole
<1> QED BY <1>1, Inductive, PTL

(* With posix-rename a path that had a file has one at every moment, also  *)
(* when a request of `commit_partial` fails or goes unanswered.            *)
THEOREM TargetNeverMissing == Spec => []NeverMissing
<1>1. IInv => NeverMissing
  BY DEF IInv
<1> QED BY <1>1, Inductive, PTL

(* A transfer that reports success has put the whole of its own file at    *)
(* the path: each way `commit_partial` ends well is a rename that was      *)
(* answered.                                                               *)
THEOREM SuccessShows == Spec => SuccessIsVisible
<1>1. ASSUME IInv, [Next]_vars, ~strayed,
             NEW t \in Transfers, step[t] # "done", step'[t] = "done"
      PROVE  dst' # None /\ content'[dst'] = Whole(t)
  <2>1. PICK u \in Transfers : Step(u)
    BY <1>1 DEF Next, Land, Others, vars
  <2>2. PICK s \in Steps : To(u, s) \/ step' = step
    BY <2>1 DEF Step, Open, WriteChunk, CloseFile, CloseEarly, TryRename, TryPosixRename, Stat,
       Remove, RenameAgain, Clean, Cancel, Steps
  <2>3. u = t
    BY <1>1, <2>2 DEF To, IInv, TypeInv
  <2>4. \/ step[t] = "rename" /\ Answered(t, Ask(t, "rename"))
        \/ step[t] = "posix" /\ Answered(t, Ask(t, "posix"))
        \/ step[t] = "again" /\ Answered(t, Ask(t, "rename"))
    BY <1>1, <2>1, <2>3 DEF Step, Open, WriteChunk, CloseFile, CloseEarly, TryRename, TryPosixRename,
       Stat, Remove, RenameAgain, Clean, Cancel, To, IInv, TypeInv
  <2>5. step[t] \in Committing /\ Move
    BY <2>4, AskIsRequest DEF Answered, Effect, PlainRename, Committing
  <2> QED BY <1>1, <2>5 DEF IInv, Sound, Streamed, WholePartial, Move, Whole
<1>2. IInv /\ [Next]_vars =>
        [\A t \in Transfers : ~strayed /\ step[t] # "done" /\ step'[t] = "done" =>
           dst' # None /\ content'[dst'] = Whole(t)]_vars
  BY <1>1
<1> QED BY <1>2, Inductive, PTL DEF Spec, SuccessIsVisible
===============================================================================
