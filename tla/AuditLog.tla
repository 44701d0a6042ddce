------------------------------- MODULE AuditLog -------------------------------
(***************************************************************************)
(* The audit log (audit.rs): tool calls put records in a bounded queue, a  *)
(* task writes them to the file in batches, and when the file is long      *)
(* enough shifts the generations `audit.log.N` down and begins a new file. *)
(*                                                                         *)
(* Files are kept as inodes, since the task goes on writing to what it has *)
(* open, under whatever name that now is, and to nothing once it has none. *)
(* Renames are single steps on a blocking thread; any of them may fail,    *)
(* and the process may die between any two.                                *)
(***************************************************************************)
EXTENDS Naturals, Sequences, SequencesExt

CONSTANTS
  MaxRecords,  \* bound: records written by the tools
  QueueCap,    \* AUDIT_QUEUE_CAP
  Batch,       \* AUDIT_BATCH
  MaxLength,   \* `audit_max_bytes`, in records; 0 never rotates
  Keeps,       \* `audit_keep_files`: the values it may have
  MaxInodes    \* bound: files created

ASSUME AuditAssumption ==
  /\ MaxRecords \in Nat /\ QueueCap \in Nat \ {0} /\ Batch \in Nat \ {0}
  /\ MaxLength \in Nat /\ Keeps \subseteq Nat /\ MaxInodes \in Nat

VARIABLES
  keep,     \* how many old generations are kept
  sent,     \* records the tools wrote
  queue,    \* those in the channel
  taken,    \* those the channel accepted, in order
  task,     \* where the writer task is
  batch,    \* what it took from the channel
  names,    \* generation -> inode: 0 is the live file, n is `audit.log.n`
  content,  \* inode -> what is in it
  handle,   \* the inode the task has open
  made,     \* inodes created
  written,  \* its own count of the live file's length
  shift,    \* in a rotation, the generation it moves next
  stop,     \* the shutdown signal
  due,      \* what the channel had accepted when the signal came
  trouble   \* which failures there were so far

calls == <<sent, queue, taken>>
disk == <<names, content, handle, made>>
logVars == <<keep, calls, task, batch, disk, written, shift, stop, due, trouble>>

NoFile == 0
Generations == UNION {0..k : k \in Keeps}
Took(what) == trouble' = trouble \cup {what}

-----------------------------------------------------------------------------
(* The callers: `write`.                                                   *)

Write ==
  /\ sent < MaxRecords /\ sent' = sent + 1
  /\ \/ /\ Len(queue) < QueueCap /\ task # "stopped"
        /\ queue' = Append(queue, sent') /\ taken' = Append(taken, sent')
     \/ /\ Len(queue) >= QueueCap \/ task = "stopped"
        /\ UNCHANGED <<queue, taken>>
  /\ UNCHANGED <<keep, task, batch, disk, written, shift, stop, due, trouble>>

(* `shutdown` signals and waits for the task. *)
Shutdown ==
  /\ ~stop /\ stop' = TRUE /\ due' = Len(taken)
  /\ UNCHANGED <<keep, calls, task, batch, disk, written, shift, trouble>>

-----------------------------------------------------------------------------
(* The task.                                                               *)

(* `open_audit_file`: append to the live file, or create it. *)
OpenLive ==
  \/ names[0] # NoFile /\ handle' = names[0] /\ UNCHANGED <<names, content, made>>
  \/ /\ names[0] = NoFile /\ made < MaxInodes
     /\ made' = made + 1 /\ handle' = made' /\ names' = [names EXCEPT ![0] = made']
     /\ content' = [content EXCEPT ![made'] = <<>>]

OpenFirst ==
  /\ task = "open" /\ OpenLive
  /\ task' = "select" /\ written' = Len(content'[handle'])
  /\ UNCHANGED <<keep, calls, batch, shift, stop, due, trouble>>

(* Without a file the task only empties the channel. *)
OpenFails ==
  /\ task = "open" /\ task' = "drain" /\ Took("open")
  /\ UNCHANGED <<keep, calls, batch, disk, written, shift, stop, due>>

Discard ==
  /\ task = "drain"
  /\ \/ stop /\ task' = "stopped" /\ UNCHANGED queue
     \/ ~stop /\ queue # <<>> /\ queue' = Tail(queue) /\ UNCHANGED task
  /\ UNCHANGED <<keep, sent, taken, batch, disk, written, shift, stop, due, trouble>>

(* Variant: the signal ends the task without a last look at the channel. *)
SelectStopsAtOnce ==
  /\ task = "select"
  /\ \/ /\ stop /\ batch' = <<>> /\ task' = "last" /\ UNCHANGED queue
     \/ /\ ~stop /\ queue # <<>> /\ task' = "write"
        /\ \E n \in 1..Len(queue) :
             /\ n <= Batch
             /\ batch' = SubSeq(queue, 1, n) /\ queue' = SubSeq(queue, n + 1, Len(queue))
  /\ UNCHANGED <<keep, sent, taken, disk, written, shift, stop, due, trouble>>

(* `biased`: the signal first, and with it all that is queued; else up to  *)
(* Batch records.                                                          *)
Select ==
  /\ task = "select"
  /\ \/ /\ stop /\ batch' = queue /\ queue' = <<>> /\ task' = "last"
     \/ /\ ~stop /\ queue # <<>> /\ task' = "write"
        /\ \E n \in 1..Len(queue) :
             /\ n <= Batch
             /\ batch' = SubSeq(queue, 1, n) /\ queue' = SubSeq(queue, n + 1, Len(queue))
  /\ UNCHANGED <<keep, sent, taken, disk, written, shift, stop, due, trouble>>

Put(records) == content' = [content EXCEPT ![handle] = @ \o records]

(* A write that fails may have written some of the batch; it is not counted. *)
WriteBatch ==
  /\ task \in {"write", "last"}
  /\ \/ Put(batch) /\ written' = written + Len(batch) /\ UNCHANGED trouble
     \/ \E n \in 0..(Len(batch) - 1) :
          Put(SubSeq(batch, 1, n)) /\ Took("write") /\ UNCHANGED written
  /\ task' = IF task = "last" THEN "stopped"
           ELSE IF MaxLength > 0 /\ written' >= MaxLength THEN "rotate" ELSE "select"
  /\ UNCHANGED <<keep, calls, batch, names, handle, made, shift, stop, due>>

-----------------------------------------------------------------------------
(* `rotate`.                                                               *)

Stay == UNCHANGED <<keep, calls, batch, content, handle, made, stop, due>>

(* Any error ends the rotation; the file in hand is written on. *)
RotateFails ==
  /\ task \in {"rotate", "move", "reopen"}
  /\ task' = "select" /\ written' = 0 /\ Took(task)
  /\ UNCHANGED <<names, shift>> /\ Stay

(* Flushed and synced, the oldest generation goes, or the file itself. *)
RotateBegin ==
  /\ task = "rotate"
  /\ \/ keep = 0 /\ names[0] # NoFile /\ names' = [names EXCEPT ![0] = NoFile] /\ task' = "reopen" /\ UNCHANGED shift
     \/ keep > 0 /\ names' = [names EXCEPT ![keep] = NoFile] /\ task' = "move" /\ shift' = keep - 1
  /\ UNCHANGED <<written, trouble>> /\ Stay

Move(n) == names' = [names EXCEPT ![n] = NoFile, ![n + 1] = names[n]]

(* Variant: the newest generation is moved first. *)
RotateMoveNewestFirst ==
  /\ task = "move"
  /\ LET n == keep - 1 - shift IN
     \/ n < keep /\ names[n] # NoFile /\ Move(n) /\ UNCHANGED trouble
     \/ n < keep /\ names[n] = NoFile /\ UNCHANGED <<names, trouble>>
  /\ \/ shift > 0 /\ shift' = shift - 1 /\ UNCHANGED task
     \/ shift = 0 /\ task' = "reopen" /\ UNCHANGED shift
  /\ UNCHANGED written /\ Stay

(* "Oldest first, so nothing is overwritten before it moves": a generation *)
(* that cannot be moved is passed over, but the live file must move.       *)
RotateMove ==
  /\ task = "move"
  /\ \/ /\ shift > 0 /\ shift' = shift - 1 /\ UNCHANGED task
        /\ \/ names[shift] # NoFile /\ Move(shift) /\ UNCHANGED trouble
           \/ names[shift] # NoFile /\ Took("shift") /\ UNCHANGED names
           \/ names[shift] = NoFile /\ UNCHANGED <<names, trouble>>
     \/ /\ shift = 0 /\ names[0] # NoFile /\ Move(0)
        /\ task' = "reopen" /\ UNCHANGED <<shift, trouble>>
  /\ UNCHANGED written /\ Stay

Reopen ==
  /\ task = "reopen" /\ OpenLive
  /\ task' = "select" /\ written' = 0
  /\ UNCHANGED <<keep, calls, batch, shift, stop, due, trouble>>

-----------------------------------------------------------------------------
(* The process dies; the next one finds the files as they are.             *)
Restart ==
  /\ task # "stopped" /\ Took("crash")
  /\ task' = "open" /\ queue' = <<>> /\ batch' = <<>> /\ handle' = NoFile
  /\ stop' = FALSE
  /\ UNCHANGED <<keep, sent, taken, names, content, made, written, shift, due>>

LogInit ==
  /\ keep \in Keeps
  /\ sent = 0 /\ queue = <<>> /\ taken = <<>> /\ task = "open" /\ batch = <<>>
  /\ names = [g \in Generations |-> NoFile]
  /\ content = [i \in 1..MaxInodes |-> <<>>] /\ handle = NoFile /\ made = 0
  /\ written = 0 /\ shift = 0 /\ stop = FALSE /\ due = 0 /\ trouble = {}

LogNext ==
  \/ Write \/ Shutdown
  \/ OpenFirst \/ OpenFails \/ Discard \/ Select \/ WriteBatch
  \/ RotateFails \/ RotateBegin \/ RotateMove \/ Reopen
  \/ Restart

LogSpec == LogInit /\ [][LogNext]_logVars
-----------------------------------------------------------------------------
(* What a reader of the files sees.                                        *)
Shown(g) == IF names[g] = NoFile THEN <<>> ELSE content[names[g]]
Kept == UNION {Range(Shown(g)) : g \in 0..keep}

(* "Append-only NDJSON audit log", "nothing is overwritten before it moves *)
(* ": read from the oldest generation to the live file the records are in  *)
(* the order the tools wrote them, none twice, whatever fails or dies.     *)
(* They are lost from the old end only, unless a generation could not be   *)
(* moved or the new file not be opened, when the task writes on to a file  *)
(* that is on its way out; and never before `keep` newer files exist,      *)
(* unless a rotation was also cut short, when the next one moves twice.    *)
LogKeepsNewest ==
  /\ \A g \in 0..keep :
       /\ \A i, j \in DOMAIN Shown(g) : i < j => Shown(g)[i] < Shown(g)[j]
       /\ \A newer \in 0..(g - 1) : \A r \in Range(Shown(g)), s \in Range(Shown(newer)) : r < s
  /\ trouble \cap {"shift", "reopen"} = {} =>
       \A f \in 1..made : \A r \in Range(content[f]) :
          (\E old \in Kept : old <= r) => r \in Kept
  /\ trouble \cap {"shift", "reopen", "move", "crash"} = {} =>
       \A f \in 1..made : f > made - keep => f \in Range(names)

(* "Drain pending entries, fsync, and join the writer task": when the task *)
(* has stopped, every record that was queued before the signal is written, *)
(* unless the file could not be opened, a write failed or the process died.*)
DrainedAtShutdown ==
  task = "stopped" /\ trouble \cap {"open", "write", "crash"} = {} =>
     \A i \in 1..due : \E f \in 1..MaxInodes : taken[i] \in Range(content[f])
=============================================================================
