------------------------------ MODULE Transfers ------------------------------
(***************************************************************************)
(* Files written on a host by `up` and `cp` (sftp.rs `upload`,             *)
(* `copy_between`, `commit_partial`): a transfer streams into              *)
(* `<dst>.partial` and then moves that onto `dst`, by a plain rename, by   *)
(* `posix-rename@openssh.com`, or by removing `dst` first.                 *)
(*                                                                         *)
(* Every request may be refused, the connection may be lost before a       *)
(* request arrives or before its answer comes back, and the client may     *)
(* cancel the transfer.  A request nobody waits for any more may still     *)
(* take effect, at any time: `posix-rename` has a channel of its own and a *)
(* time-out of 30 s, and what a lost connection carried is in the server's *)
(* hands.  Between two requests another program of the host may put a file *)
(* at `dst` or take it away.  Transfers to one `dst` come one after the    *)
(* other: nothing in the code keeps two from meeting in their common       *)
(* `.partial`, and then none of this holds.                                *)
(***************************************************************************)
EXTENDS Naturals, FiniteSets

CONSTANTS
  Transfers,   \* transfers to one `dst`
  Striped,     \* the `cp`s of a large file
  Chunks, Size,\* the chunks each transfer writes
  MaxLate      \* bound: late requests at once

ASSUME TransfersAssumption ==
  /\ "none" \notin Transfers /\ "old" \notin Transfers
  /\ Striped \subseteq Transfers
  /\ Size \in [Transfers -> SUBSET Chunks]
  /\ MaxLate \in Nat

VARIABLES
  dst, partial,   \* the file at each path, or None
  content,        \* what is in each file: chunk -> who wrote it
  step,           \* where each transfer stands
  left,           \* chunks it has still to write
  handle,         \* the file it has open
  up,             \* its connection
  extension,      \* the server knows posix-rename, and there is a slot for it
  late,           \* requests on their way that nobody waits for any more
  expected,       \* history: somebody's file should be at `dst`
  last,           \* history: the transfer that began last
  strayed         \* history: a late request of an earlier transfer took effect

vars == <<dst, partial, content, step, left, handle, up, extension, late, expected,
          last, strayed>>

None == "none"
Old  == "old"          \* a file of another program
Files == Transfers \cup {Old}
Empty == [k \in Chunks |-> None]
Whole(t) == [k \in Chunks |-> IF k \in Size[t] THEN t ELSE None]

Steps == {"idle", "writing", "rename", "posix", "stat", "remove", "again", "clean",
          "done", "failed"}
Active(t) == step[t] \notin {"idle", "done", "failed"}

To(t, s) == step' = [step EXCEPT ![t] = s]
Nothing == UNCHANGED <<dst, partial, content, expected>>

-----------------------------------------------------------------------------
(* What the server does.                                                   *)

(* Variant: without TRUNCATE. *)
CreateKeeping(t) ==
  /\ partial' = IF partial = None THEN t ELSE partial
  /\ content' = IF partial = None THEN [content EXCEPT ![t] = Empty] ELSE content
  /\ UNCHANGED <<dst, expected>>

(* CREATE | WRITE | TRUNCATE: a leftover `.partial` is the same file. *)
Create(t) ==
  /\ partial' = IF partial = None THEN t ELSE partial
  /\ content' = [content EXCEPT ![partial'] = Empty]
  /\ UNCHANGED <<dst, expected>>

Put(t, f, k) ==
  /\ f # None
  /\ content' = [content EXCEPT ![f] = [@ EXCEPT ![k] = t]]
  /\ UNCHANGED <<dst, partial, expected>>

Move ==
  /\ partial # None
  /\ dst' = partial /\ partial' = None /\ expected' = TRUE
  /\ UNCHANGED content

PlainRename == dst = None /\ Move

RemoveDst == dst # None /\ dst' = None /\ UNCHANGED <<partial, content, expected>>

RemovePartial == partial # None /\ partial' = None /\ UNCHANGED <<dst, content, expected>>

(* A request of `t`: what it asks of the server, and which chunk of which  *)
(* file when it writes.                                                    *)
Ask(t, what) == [by |-> t, does |-> what]
Chunk(t, f, k) == [by |-> t, does |-> "put", file |-> f, chunk |-> k]

Effect(r) ==
  CASE r.does = "create" -> Create(r.by)
    [] r.does = "put"    -> Put(r.by, r.file, r.chunk)
    [] r.does = "rename" -> PlainRename
    [] r.does = "posix"  -> extension /\ Move
    [] r.does = "remove" -> RemoveDst
    [] r.does = "clean"  -> RemovePartial
    [] OTHER             -> Nothing

-----------------------------------------------------------------------------
(* What a transfer hears of its requests.                                  *)

(* `upload` writes through its handle; each worker of a striped copy opens *)
(* the path anew.                                                          *)
Target(t) == IF t \in Striped THEN partial ELSE handle[t]

(* What `t` may be waiting for; the workers of a striped copy each for     *)
(* their own chunk.                                                        *)
InFlight(t) ==
  CASE step[t] = "idle"               -> {Ask(t, "create")}
    [] step[t] = "writing"            -> {Chunk(t, Target(t), k) : k \in left[t]}
    [] step[t] \in {"rename", "again"} -> {Ask(t, "rename")}
    [] step[t] = "posix"              -> {Ask(t, "posix")}
    [] step[t] = "remove"             -> {Ask(t, "remove")}
    [] step[t] = "clean"              -> {Ask(t, "clean")}
    [] OTHER                          -> {}

(* Some of what `t` waited for is still on its way when it goes on. *)
Leaves(t, requests) ==
  \E S \in SUBSET requests :
     /\ S # {} => up[t] /\ Cardinality(late \cup S) <= MaxLate
     /\ late' = late \cup S

Answered(t, r) == up[t] /\ Effect(r) /\ UNCHANGED <<up, late>>

Refused(t) == Nothing /\ UNCHANGED <<up, late>>

(* A request that is not answered with success: refused, lost, late, or    *)
(* done with the answer lost or late, and perhaps the connection with it.  *)
Unanswered(t, r) ==
  /\ \/ Nothing /\ Leaves(t, InFlight(t))
     \/ up[t] /\ Effect(r) /\ Leaves(t, InFlight(t) \ {r})
  /\ UNCHANGED up \/ up' = [up EXCEPT ![t] = FALSE]

(* What every request but the first and the chunks leaves alone. *)
Keep(t) == UNCHANGED <<left, handle, extension, last, strayed>>

-----------------------------------------------------------------------------
(* A transfer.                                                             *)

Open(t) ==
  /\ step[t] = "idle" /\ \A u \in Transfers : ~Active(u)
  /\ last' = t
  /\ \/ /\ Answered(t, Ask(t, "create"))
        /\ handle' = [handle EXCEPT ![t] = partial'] /\ left' = [left EXCEPT ![t] = Size[t]]
        /\ To(t, "writing")
     \/ Unanswered(t, Ask(t, "create")) /\ To(t, "failed") /\ UNCHANGED <<left, handle>>
  /\ UNCHANGED <<extension, strayed>>

WriteChunk(t) ==
  /\ step[t] = "writing"
  /\ \E k \in left[t] :
       \/ /\ Answered(t, Chunk(t, Target(t), k))
          /\ left' = [left EXCEPT ![t] = @ \ {k}]
          /\ UNCHANGED <<step, handle, extension, last, strayed>>
       \/ Unanswered(t, Chunk(t, Target(t), k)) /\ To(t, "clean") /\ Keep(t)

(* Variant: what was written is committed, finished or not. *)
CloseAnyway(t) ==
  /\ step[t] = "writing"
  /\ To(t, "rename")
  /\ Refused(t) /\ Keep(t)

(* The handle is closed; a failure to close is a failed transfer. *)
CloseFile(t) ==
  /\ step[t] = "writing" /\ left[t] = {}
  /\ \/ Answered(t, Ask(t, "look")) /\ To(t, "rename")
     \/ Unanswered(t, Ask(t, "look")) /\ To(t, "clean")
  /\ Keep(t)

(* A striped copy closes the first handle before its workers start, and    *)
(* returns at once when that fails.                                        *)
CloseEarly(t) ==
  /\ step[t] = "writing" /\ t \in Striped /\ left[t] = Size[t]
  /\ Refused(t) \/ (Nothing /\ UNCHANGED late /\ up' = [up EXCEPT ![t] = FALSE])
  /\ To(t, "failed")
  /\ Keep(t)

(* `commit_partial`, one request after the other. *)
TryRename(t) ==
  /\ step[t] = "rename"
  /\ \/ Answered(t, Ask(t, "rename")) /\ To(t, "done")
     \/ Unanswered(t, Ask(t, "rename")) /\ To(t, "posix")
  /\ Keep(t)

(* Variant: a refused rename goes straight to the fallback. *)
PosixSkipped(t) ==
  /\ step[t] = "posix"
  /\ Refused(t) /\ To(t, "stat")
  /\ Keep(t)

(* Given up after 30 s, whatever its channel still carries. *)
TryPosixRename(t) ==
  /\ step[t] = "posix"
  /\ \/ Answered(t, Ask(t, "posix")) /\ To(t, "done")
     \/ Unanswered(t, Ask(t, "posix")) /\ To(t, "clean")
     \/ ~extension /\ Refused(t) /\ To(t, "stat")
  /\ Keep(t)

Stat(t) ==
  /\ step[t] = "stat"
  /\ \/ Answered(t, Ask(t, "look")) /\ To(t, IF dst # None THEN "remove" ELSE "clean")
     \/ Unanswered(t, Ask(t, "look")) /\ To(t, "clean")
  /\ Keep(t)

Remove(t) ==
  /\ step[t] = "remove"
  /\ \/ Answered(t, Ask(t, "remove")) /\ To(t, "again")
     \/ Unanswered(t, Ask(t, "remove")) /\ To(t, "clean")
  /\ Keep(t)

RenameAgain(t) ==
  /\ step[t] = "again"
  /\ \/ Answered(t, Ask(t, "rename")) /\ To(t, "done")
     \/ Unanswered(t, Ask(t, "rename")) /\ To(t, "clean")
  /\ Keep(t)

(* Best effort: the error the transfer failed with is returned. *)
Clean(t) ==
  /\ step[t] = "clean"
  /\ Answered(t, Ask(t, "clean")) \/ Unanswered(t, Ask(t, "clean"))
  /\ To(t, "failed")
  /\ Keep(t)

(* The request is cancelled, or the server killed: no cleanup. *)
Cancel(t) ==
  /\ Active(t) /\ To(t, "failed")
  /\ Nothing /\ Leaves(t, InFlight(t))
  /\ Keep(t) /\ UNCHANGED up

Step(t) == \/ Open(t) \/ WriteChunk(t) \/ CloseFile(t) \/ CloseEarly(t)
           \/ TryRename(t) \/ TryPosixRename(t) \/ Stat(t) \/ Remove(t)
           \/ RenameAgain(t) \/ Clean(t) \/ Cancel(t)

(* A late request takes effect after all, or it never does. *)
Land ==
  /\ \E r \in late :
       Effect(r) /\ late' = late \ {r} /\ strayed' = (strayed \/ r.by # last)
  /\ UNCHANGED <<step, left, handle, up, extension, last>>

(* Another program of the host. *)
Others ==
  /\ \/ dst' = Old /\ expected' = TRUE
     \/ dst' = None /\ expected' = FALSE
  /\ UNCHANGED <<partial, content, step, left, handle, up, extension, late, last, strayed>>

Init ==
  /\ dst = None /\ partial = None /\ expected = FALSE
  /\ content = [f \in Files |-> Empty]
  /\ step = [t \in Transfers |-> "idle"]
  /\ left = [t \in Transfers |-> {}]
  /\ handle = [t \in Transfers |-> None]
  /\ up = [t \in Transfers |-> TRUE]
  /\ extension \in BOOLEAN
  /\ late = {} /\ last = None /\ strayed = FALSE

Next == (\E t \in Transfers : Step(t)) \/ Land \/ Others

Spec == Init /\ [][Next]_vars

-----------------------------------------------------------------------------

(* "a network blip mid-transfer can't leave a half-written file at the     *)
(* final path": what is at `dst` is another program's file or all of one   *)
(* transfer's, and nothing else, whatever earlier ones left in `.partial`, *)
(* unless a request of an earlier transfer took effect after the next one  *)
(* had begun in the same `.partial`.                                       *)
DstIsWhole ==
  ~strayed /\ dst \in Transfers => \E t \in Transfers : content[dst] = Whole(t)

(* A transfer that reports success has just put its own file at `dst`,     *)
(* with the same exception.                                                *)
SuccessIsVisible ==
  [][\A t \in Transfers : ~strayed /\ step[t] # "done" /\ step'[t] = "done" =>
       dst' # None /\ content'[dst'] = Whole(t)]_vars

(* "posix-rename replaces it atomically": with the extension, a path that  *)
(* had a file has one at every moment, through any failure, and whatever   *)
(* takes effect late.                                                      *)
NeverMissing == extension /\ expected => dst # None
=============================================================================
