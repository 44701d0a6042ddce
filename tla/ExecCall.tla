------------------------------- MODULE ExecCall -------------------------------
(***************************************************************************)
(* One `exec` on a channel it has a slot for (session/exec.rs), against    *)
(* the server that runs the command, the user who may interrupt it and the *)
(* client that may cancel the request.                                     *)
(*                                                                         *)
(* The channel may come from the warm pool, and the server may have closed *)
(* it while it waited there.  Messages of a channel arrive in order; what  *)
(* they carry is reduced to what the call does with them.  The server      *)
(* promises nothing: not that it answers or ends a command, nor that it    *)
(* keeps the channel of one that runs; only that its Close is the last     *)
(* message of a channel.                                                   *)
(***************************************************************************)
EXTENDS Naturals, Sequences

CONSTANT MaxOutput    \* bound: pieces of output one run of the command prints

ASSUME ExecCallAssumption == MaxOutput \in Nat

VARIABLES
  (* the call *)
  stage,       \* Stages
  attempt,     \* 1, or 2 after a retry
  fromPool,    \* the channel was parked
  got,         \* pieces of output received in this attempt
  status,      \* `exit_code` is known
  closeSeen, closing, timedOut, interrupted,
  registered,  \* `exec_cancels` has an entry for it
  cancel,      \* its Notify holds a notification
  (* the server's side of its current channel *)
  inbox,       \* messages sent and not yet read
  request,     \* the exec request is on its way
  chan,        \* the server counts the channel, or has closed it
  proc,        \* the process of the command
  printed, sent,
  told,        \* the exit status is sent
  eofSent,
  net,         \* the connection is up
  (* history *)
  runs,        \* times the command was started
  first,       \* what the first attempt's channel had sent of its run
  counted      \* an `interrupt` said it aborted this call

call    == <<stage, attempt, fromPool, got, status, closeSeen, closing, timedOut, interrupted>>
hook    == <<registered, cancel>>
process == <<proc, printed>>
server  == <<inbox, request, chan, process, sent, told, eofSent>>
history == <<runs, first, counted>>
vars    == <<call, hook, server, net, history>>

Stages == {"sending", "reading", "reopening", "done", "failed", "dropped"}

-----------------------------------------------------------------------------
(* The server.                                                             *)

(* The request reaches an open channel: the command starts. *)
Run ==
  /\ net = "up" /\ request /\ chan = "open" /\ proc = "none"
  /\ proc' = "running" /\ runs' = runs + 1 /\ request' = FALSE
  /\ UNCHANGED <<call, hook, inbox, chan, printed, sent, told, eofSent, net, first, counted>>

Emit(m) == inbox' = Append(inbox, m)

(* A process that outlives its channel writes to nobody. *)
Write ==
  /\ proc = "running" /\ printed < MaxOutput /\ ~eofSent
  /\ printed' = printed + 1
  /\ UNCHANGED <<call, hook, inbox, request, chan, proc, sent, told, eofSent, net, history>>

SendData ==
  /\ net = "up" /\ chan = "open" /\ sent < printed
  /\ sent' = sent + 1 /\ Emit("data")
  /\ UNCHANGED <<call, hook, request, chan, process, told, eofSent, net, history>>

(* The exit is told as it happens, on an open channel; output may still be *)
(* on its way.                                                             *)
Exit ==
  /\ net = "up" /\ proc = "running"
  /\ proc' \in {"exited", "killed"}
  /\ told' = (told \/ (chan = "open" /\ proc' = "exited"))
  /\ IF chan = "open" THEN Emit(IF proc' = "exited" THEN "status" ELSE "signal") ELSE UNCHANGED inbox
  /\ UNCHANGED <<call, hook, request, chan, printed, sent, eofSent, net, history>>

SendEof ==
  /\ net = "up" /\ chan = "open" /\ proc # "none" /\ sent = printed /\ ~eofSent
  /\ eofSent' = TRUE /\ Emit("eof")
  /\ UNCHANGED <<call, hook, request, chan, process, sent, told, net, history>>

(* The channel may be closed at any time: before the command starts (a     *)
(* parked channel that went stale), under a running one (a channel         *)
(* time-out), or after it, with or without Eof.                            *)
SendClose ==
  /\ net = "up" /\ chan = "open"
  /\ chan' = "closed" /\ Emit("close")
  /\ UNCHANGED <<call, hook, request, process, sent, told, eofSent, net, history>>

Lose ==
  /\ net = "up"
  /\ net' = "down"
  /\ UNCHANGED <<call, hook, server, history>>

-----------------------------------------------------------------------------
(* The call.                                                               *)

(* `channel.exec`: fails only when the connection is gone. *)
SendExec ==
  /\ stage = "sending"
  /\ IF net = "up"
     THEN /\ request' = TRUE /\ stage' = "reading"
          /\ registered' = TRUE /\ cancel' = FALSE
     ELSE /\ stage' = IF fromPool /\ attempt = 1 THEN "reopening" ELSE "failed"
          /\ UNCHANGED <<request, hook>>
  /\ UNCHANGED <<attempt, fromPool, got, status, closeSeen, closing, timedOut, interrupted,
                 inbox, chan, process, sent, told, eofSent, net, history>>

(* Variant: a first attempt that brought output is retried like one that   *)
(* brought nothing.                                                        *)
StaleUnlessStatus(late, stopped, closed) ==
  fromPool /\ attempt = 1 /\ closed /\ ~status /\ ~late /\ ~stopped

(* `retry`: `connection_lost`, and nothing received. *)
Stale(late, stopped, closed) ==
  /\ fromPool /\ attempt = 1
  /\ closed /\ ~status
  /\ got = 0 /\ ~late /\ ~stopped

(* The loop is left: deregister, then return or retry. *)
End(late, stopped, closed) ==
  /\ stage = "reading"
  /\ timedOut' = late /\ interrupted' = stopped /\ closeSeen' = closed
  /\ registered' = FALSE
  /\ stage' = IF Stale(late, stopped, closed) THEN "reopening" ELSE "done"

(* The select! is biased: a notification goes first. *)
Interrupted ==
  /\ cancel /\ End(FALSE, TRUE, closeSeen)
  /\ UNCHANGED <<attempt, fromPool, got, status, closing, cancel, server, net, history>>

(* Variant: the timer is not armed again for the wait for Close. *)
TimerOnce ==
  /\ ~cancel /\ ~closing /\ End(TRUE, FALSE, closeSeen)
  /\ UNCHANGED <<attempt, fromPool, got, status, closing, cancel, server, net, history>>

(* The call's deadline, or CLOSE_GRACE once the exit and Eof are in. *)
Timer ==
  /\ ~cancel /\ End(~closing, FALSE, closeSeen)
  /\ UNCHANGED <<attempt, fromPool, got, status, closing, cancel, server, net, history>>

Reading(m) ==
  /\ stage = "reading" /\ ~cancel /\ inbox # <<>> /\ Head(inbox) = m
  /\ inbox' = Tail(inbox)
  /\ UNCHANGED <<attempt, fromPool, cancel, request, chan, process, sent, told, eofSent, net, history>>

Continue == UNCHANGED <<stage, timedOut, interrupted, closeSeen, registered>>

GetData ==
  /\ Reading("data") /\ Continue
  /\ got' = got + 1
  /\ UNCHANGED <<status, closing>>

(* Variant: the exit status ends the call. *)
GetStatusAndStop ==
  /\ Reading("status")
  /\ status' = TRUE
  /\ End(FALSE, FALSE, closeSeen)
  /\ UNCHANGED <<got, closing>>

GetStatus ==
  /\ Reading("status")
  /\ status' = TRUE
  /\ IF closeSeen THEN End(FALSE, FALSE, TRUE) ELSE Continue
  /\ UNCHANGED <<got, closing>>

(* Any other message, an ExitSignal among them, is passed over. *)
GetOther ==
  /\ Reading("signal") /\ Continue
  /\ UNCHANGED <<got, status, closing>>

(* Variant: the slot goes back at Eof. *)
GetEofAndStop ==
  /\ Reading("eof")
  /\ IF status THEN End(FALSE, FALSE, closeSeen) ELSE Continue
  /\ UNCHANGED <<got, status, closing>>

GetEof ==
  /\ Reading("eof") /\ Continue
  /\ closing' = (closing \/ status)
  /\ UNCHANGED <<got, status>>

GetClose ==
  /\ Reading("close")
  /\ IF status THEN End(FALSE, FALSE, TRUE)
     ELSE closeSeen' = TRUE /\ UNCHANGED <<stage, timedOut, interrupted, registered>>
  /\ UNCHANGED <<got, status, closing>>

(* `wait` has nothing more to give: the channel or the connection is gone. *)
StreamEnd ==
  /\ ~cancel /\ inbox = <<>> /\ (closeSeen \/ net = "down")
  /\ End(FALSE, FALSE, closeSeen)
  /\ UNCHANGED <<attempt, fromPool, got, status, closing, cancel, server, net, history>>

(* The server confirms the CHANNEL_OPEN of the retry, a wait that neither  *)
(* the deadline nor an interrupt ends: a fresh channel on the same slot,   *)
(* and everything from the start.                                          *)
Reopen ==
  /\ stage = "reopening" /\ net = "up"
  /\ stage' = "sending" /\ attempt' = 2
  /\ got' = 0 /\ status' = FALSE
  /\ closeSeen' = FALSE /\ closing' = FALSE
  /\ inbox' = <<>> /\ request' = FALSE /\ chan' = "open"
  /\ proc' = "none" /\ printed' = 0 /\ sent' = 0 /\ told' = FALSE /\ eofSent' = FALSE
  /\ first' = [sent |-> sent, told |-> told]
  /\ UNCHANGED <<fromPool, timedOut, interrupted, hook, net, runs, counted>>

(* It refuses, or the connection is gone. *)
ReopenFails ==
  /\ stage = "reopening" /\ stage' = "failed"
  /\ UNCHANGED <<attempt, fromPool, got, status, closeSeen, closing, timedOut, interrupted,
                 hook, server, net, history>>

-----------------------------------------------------------------------------
(* The others.                                                             *)

(* Variant: only a call that waits at that moment is notified. *)
InterruptWaiting ==
  /\ registered
  /\ cancel' = (inbox = <<>>)
  /\ counted' = TRUE
  /\ UNCHANGED <<call, registered, server, net, runs, first>>

(* `cancel_own_execs`: every registered call is notified and counted. *)
Interrupt ==
  /\ registered
  /\ cancel' = TRUE
  /\ counted' = TRUE
  /\ UNCHANGED <<call, registered, server, net, runs, first>>

(* The request is cancelled: the future is dropped where it waits, and     *)
(* nothing deregisters it.                                                 *)
Abandon ==
  /\ stage \in {"sending", "reading", "reopening"}
  /\ stage' = "dropped"
  /\ UNCHANGED <<attempt, fromPool, got, status, closeSeen, closing, timedOut, interrupted,
                 hook, server, net, history>>

Init ==
  /\ stage = "sending" /\ attempt = 1 /\ fromPool \in BOOLEAN
  /\ got = 0 /\ status = FALSE
  /\ closeSeen = FALSE /\ closing = FALSE /\ timedOut = FALSE /\ interrupted = FALSE
  /\ registered = FALSE /\ cancel = FALSE
  /\ inbox = <<>> /\ request = FALSE /\ chan = "open"
  /\ proc = "none" /\ printed = 0 /\ sent = 0 /\ told = FALSE /\ eofSent = FALSE
  /\ net = "up" /\ runs = 0 /\ first = [sent |-> 0, told |-> FALSE] /\ counted = FALSE

Server == Run \/ Write \/ SendData \/ Exit \/ SendEof \/ SendClose \/ Lose

Loop == Interrupted \/ Timer \/ GetData \/ GetStatus \/ GetOther \/ GetEof \/ GetClose \/ StreamEnd

Next == Server \/ SendExec \/ Loop \/ Reopen \/ ReopenFails \/ Interrupt \/ Abandon

Spec == Init /\ [][Next]_vars

(* The runtime runs a call that is ready, and its timer fires: a server    *)
(* that talks without end does not hold it back, as its branch comes       *)
(* before the messages in the biased select!.  Nothing of the server: not  *)
(* even that it answers the retry's CHANNEL_OPEN (exec.rs 142), a wait     *)
(* that only the end of the connection cuts short.                         *)
FairSpec == Spec /\ WF_vars(SendExec) /\ WF_vars(net = "down" /\ ReopenFails)
                 /\ WF_vars(Interrupted) /\ WF_vars(Timer)

-----------------------------------------------------------------------------
(* "Only when nothing was received: any data or exit status means the      *)
(* command may have run, and re-running it would not be idempotent-safe"   *)
(* (exec.rs 125).  A command is started again once at most, and only after *)
(* a channel closed without a word of the first run, output or status: as  *)
(* Close comes last, nothing received is nothing sent.  That first run may *)
(* all the same be on, or have printed what never was sent: the code's     *)
(* "the exec request never ran" (exec.rs 123) is not what it can know.     *)
RerunOnlyAfterSilence == runs > 1 => runs = 2 /\ first = [sent |-> 0, told |-> FALSE]

(* An exit code that is returned comes with all the output the server sent *)
(* on the channel, in whatever order the exit, the output, Eof and Close   *)
(* were sent; with all the command printed, if it sent Eof.                *)
CompleteOutput ==
  stage = "done" /\ status /\ ~timedOut /\ ~interrupted /\ net = "up"
    => got = sent /\ (eofSent => got = printed)

(* "A call now keeps its slot until the server's `Close`": unless it was   *)
(* cut short or waited out CLOSE_GRACE, the server no longer counts the    *)
(* channel when the slot goes back, or when a retry opens a second one.    *)
SlotHeldUntilClosed ==
  /\ stage = "done" /\ ~timedOut /\ ~interrupted /\ ~closing /\ net = "up" => chan = "closed"
  /\ stage = "reopening" /\ net = "up" => chan = "closed"

(* An interrupt that counted a call ends it, whatever it was doing at the  *)
(* time ("a `notify_waiters` landing between two polls reached nobody and  *)
(* the interrupt was lost while the tool still reported it fired").        *)
InterruptSticks ==
  (counted /\ stage = "reading") ~> (stage = "dropped" \/ (stage = "done" /\ interrupted))

(* A call ends, though the server may never exit, send Eof or Close; only  *)
(* a CHANNEL_OPEN it never answers, on a connection it keeps up, holds it. *)
CallEnds ==
  \/ stage \in {"sending", "reading", "reopening"} ~> stage \in {"done", "failed", "dropped"}
  \/ <>[](stage = "reopening" /\ net = "up")
=============================================================================
