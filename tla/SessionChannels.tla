--------------------------- MODULE SessionChannels ---------------------------
(***************************************************************************)
(* The channel slots of one SSH connection (session/mod.rs, `Session`).    *)
(*                                                                         *)
(* A semaphore of MaxChannels permits counts the channels open against     *)
(* sshd's MaxSessions.  Four kinds of call want one:                       *)
(*   ExecCalls   `exec_channel`: try for a slot, then for an overflow      *)
(*               connection, then queue in `take_or_open_channel`;         *)
(*   ShellCalls  PTYs and the SFTP subsystem: `take_or_open_channel`;      *)
(*   RenameCalls `posix_rename`: `try_take_channel`, or do without;        *)
(*   SlotCalls   forwarded connections and ProxyJump transports:           *)
(*               `acquire_channel`, the bare permit.                       *)
(* A background task parks up to PoolTarget opened channels, permit        *)
(* included.  A call in `take_or_open_channel` waits in one `select!` on   *)
(* three things: a permit, the `parked` Notify, a 15 s deadline.           *)
(*                                                                         *)
(* The runtime runs one task at a time, so an action is a stretch of code  *)
(* between two awaits.  Cutting some stretches in two (a woken call's next *)
(* turn of the loop, the refill's next turn) adds interleavings: what      *)
(* holds here holds on a multi-threaded runtime too.                       *)
(***************************************************************************)
EXTENDS Naturals, Sequences, FiniteSets, SequencesExt

CONSTANTS ExecCalls, ShellCalls, RenameCalls, SlotCalls,
          MaxChannels         \* `max_channels_per_host`, at least 1

Calls == ExecCalls \cup ShellCalls \cup RenameCalls \cup SlotCalls

ASSUME ChannelsAssumption ==
  /\ MaxChannels \in Nat \ {0}
  /\ IsFiniteSet(Calls)
  /\ SlotCalls \cap (ExecCalls \cup ShellCalls \cup RenameCalls) = {}
  /\ ExecCalls \cap (ShellCalls \cup RenameCalls) = {}
  /\ ShellCalls \cap RenameCalls = {}

(* At most two spares, and at least one slot left for real calls. *)
DefaultPoolTarget == 2
PoolTarget == IF MaxChannels - 1 < DefaultPoolTarget THEN MaxChannels - 1
                                                     ELSE DefaultPoolTarget

VARIABLES
  stage,        \* what each call is doing (Stages)
  line,         \* calls in the select!, oldest first: the semaphore's queue
                \* and the Notify's, which they join in the same poll
  free,         \* permits in the semaphore
  granted,      \* queued calls the semaphore has handed a permit to
  woken,        \* queued calls the `parked` Notify has been delivered to
  signal,       \* `parked` holds a stored notification
  parked,       \* channels in `channel_pool`, each with its permit
  refill,       \* where the refill task stands (RefillStages)
  refillSignal, \* `refill_notify` has a notification for the task
  closed,       \* the SSH connection is gone
  alive         \* some Arc<Session> still exists

slots == <<free, granted>>
wakes == <<woken, signal>>
task  == <<refill, refillSignal>>
conn  == <<closed, alive>>
vars  == <<stage, line, slots, wakes, parked, task, conn>>

(* "lanes": `exec_channel` past its first try, busy with overflow          *)
(* connections; "loop": woken, about to look at the pool again;            *)
(* "opening": has a permit, CHANNEL_OPEN in flight; "using": has both.     *)
Stages == {"idle", "lanes", "loop", "queued", "opening", "using"}
RefillStages == {"top", "full", "backoff", "opening", "pause", "exited"}

-----------------------------------------------------------------------------
(* Queues.                                                                 *)

Queued    == {c \in Calls : stage[c] = "queued"}
Ungranted == Queued \ granted                  \* in the semaphore's queue
Sleeping  == (Queued \ SlotCalls) \ woken      \* in the Notify's queue

IsFirst(c, S) == \E i \in DOMAIN line : /\ line[i] = c /\ c \in S
                                        /\ \A j \in 1..(i - 1) : line[j] \notin S

(* Variant: a released slot that does not go through the semaphore's queue. *)
ReturnPermitBesideQueue(c) == free' = free + 1 /\ granted' = granted \ {c}

(* A permit given up by c goes to the oldest call in the semaphore's queue. *)
ReturnPermit(c) ==
  IF Ungranted = {}
  THEN free' = free + 1 /\ granted' = granted \ {c}
  ELSE /\ \E d \in Calls : IsFirst(d, Ungranted) /\ granted' = (granted \ {c}) \cup {d}
       /\ UNCHANGED free

(* `notify_one` (leaving = {}), and a delivered notification that call c   *)
(* drops unused (leaving = {c}): to the oldest sleeper, else it is stored. *)
NotifyParked(leaving) ==
  IF Sleeping \ leaving = {}
  THEN signal' = TRUE /\ woken' = woken \ leaving
  ELSE /\ \E d \in Calls : /\ IsFirst(d, Sleeping \ leaving)
                           /\ woken' = (woken \ leaving) \cup {d}
       /\ UNCHANGED signal

MoveTo(c, s) == stage' = [stage EXCEPT ![c] = s]

(* Variant: a delivered notification is dropped, not passed on. *)
DropNotifiedSilently(c) == UNCHANGED wakes

(* The select! is left with its acquire future unused: a permit it was     *)
(* handed goes on to the next call, and so does an unused notification.    *)
DropAcquire(c) == IF c \in granted THEN ReturnPermit(c) ELSE UNCHANGED slots
DropNotified(c) == IF c \in woken THEN NotifyParked({c}) ELSE UNCHANGED wakes
LeaveLine(c) == \E i \in DOMAIN line : line[i] = c /\ line' = RemoveAt(line, i)

-----------------------------------------------------------------------------
(* Calls.                                                                  *)

(* Variant: the refill task is not told. *)
TakeParkedQuietly(c) ==
  /\ parked > 0
  /\ parked' = parked - 1
  /\ MoveTo(c, "using")
  /\ UNCHANGED <<line, slots, wakes, task, conn>>

(* A parked channel is handed over with its permit, and the refill is told. *)
TakeParked(c) ==
  /\ parked > 0
  /\ parked' = parked - 1
  /\ MoveTo(c, "using")
  /\ refillSignal' = TRUE
  /\ UNCHANGED <<line, slots, wakes, refill, conn>>

TakePermit(c) ==
  /\ free > 0
  /\ free' = free - 1
  /\ MoveTo(c, "opening")
  /\ UNCHANGED <<line, granted, woken, parked, task, conn>>

(* `try_take_channel`.  An exec that finds nothing goes on to the overflow *)
(* connections; a rename does without.                                     *)
TryTake(c) ==
  /\ alive /\ stage[c] = "idle" /\ c \in ExecCalls \cup RenameCalls
  /\ \/ TakeParked(c)
     \/ parked = 0 /\ TakePermit(c) /\ UNCHANGED signal
     \/ /\ parked = 0 /\ free = 0 /\ c \in ExecCalls
        /\ MoveTo(c, "lanes")
        /\ UNCHANGED <<line, slots, wakes, parked, task, conn>>

(* One turn of the loop of `take_or_open_channel`.  A stored notification  *)
(* may be consumed by the turn: it only costs another look at an empty     *)
(* pool, and must be before the call can sleep.                            *)
TakeOrOpen(c) ==
  /\ \/ stage[c] \in {"lanes", "loop"}
     \/ alive /\ stage[c] = "idle" /\ c \in ShellCalls
  /\ \/ TakeParked(c)
     \/ parked = 0 /\ TakePermit(c) /\ signal' \in {signal, FALSE}
     \/ /\ parked = 0 /\ free = 0
        /\ MoveTo(c, "queued")
        /\ line' = Append(line, c)
        /\ signal' = FALSE
        /\ UNCHANGED <<slots, woken, parked, task, conn>>

(* `acquire_channel`: the semaphore alone. *)
AcquireSlot(c) ==
  /\ alive /\ stage[c] = "idle" /\ c \in SlotCalls
  /\ \/ TakePermit(c) /\ UNCHANGED signal
     \/ /\ free = 0
        /\ MoveTo(c, "queued")
        /\ line' = Append(line, c)
        /\ UNCHANGED <<slots, wakes, parked, task, conn>>

(* The semaphore's branch of the select!. *)
RunGranted(c) ==
  /\ stage[c] = "queued" /\ c \in granted
  /\ MoveTo(c, "opening")
  /\ LeaveLine(c)
  /\ granted' = granted \ {c}
  /\ DropNotified(c)
  /\ UNCHANGED <<free, parked, task, conn>>

(* The `parked` branch: back to the top of the loop, and of the queue's    *)
(* tail, whatever the semaphore had handed over meanwhile.                 *)
RunWoken(c) ==
  /\ stage[c] = "queued" /\ c \in woken
  /\ MoveTo(c, "loop")
  /\ LeaveLine(c)
  /\ woken' = woken \ {c}
  /\ DropAcquire(c)
  /\ UNCHANGED <<signal, parked, task, conn>>

(* The select! is left for good with nothing. *)
LeaveQueue(c) ==
  /\ stage[c] = "queued"
  /\ MoveTo(c, "idle")
  /\ LeaveLine(c)
  /\ DropAcquire(c) /\ DropNotified(c)
  /\ UNCHANGED <<parked, task, conn>>

(* Variant: `take_or_open_channel` without its deadline branch. *)
TimeOutSlotsOnly(c) == c \in SlotCalls /\ c \notin granted /\ LeaveQueue(c)

(* CHANNEL_ACQUIRE_TIMEOUT: `ChannelLimit`.  `select!` may pick it even    *)
(* when another branch is ready; `timeout` polls the semaphore first.      *)
TimeOut(c) == (c \in SlotCalls => c \notin granted) /\ LeaveQueue(c)

(* CHANNEL_OPEN confirmed.  A forward's or a jump's open tells nobody.     *)
OpenOk(c) ==
  /\ stage[c] = "opening" /\ ~closed
  /\ MoveTo(c, "using")
  /\ refillSignal' = (refillSignal \/ c \notin SlotCalls)
  /\ UNCHANGED <<line, slots, wakes, parked, refill, conn>>

(* Variant: the permit is forgotten on the error path. *)
OpenFailLeaks(c) ==
  /\ stage[c] = "opening"
  /\ MoveTo(c, "idle")
  /\ UNCHANGED <<line, slots, wakes, parked, task, conn>>

(* Refused OPEN_RETRIES + 1 times, or the connection is gone: the error is *)
(* returned and the permit dropped.                                        *)
OpenFail(c) ==
  /\ stage[c] = "opening"
  /\ MoveTo(c, "idle")
  /\ ReturnPermit(c)
  /\ UNCHANGED <<line, wakes, parked, task, conn>>

(* The command ends, the shell is dropped, the forwarded socket closes.    *)
Finish(c) ==
  /\ stage[c] = "using"
  /\ MoveTo(c, "idle")
  /\ ReturnPermit(c)
  /\ UNCHANGED <<line, wakes, parked, task, conn>>

(* The request is cancelled: its future is dropped at the await it is in   *)
(* (at a CHANNEL_OPEN that is OpenFail; the loop's own turns do not wait). *)
Abandon(c) ==
  \/ LeaveQueue(c)
  \/ /\ stage[c] = "lanes"
     /\ MoveTo(c, "idle")
     /\ UNCHANGED <<line, slots, wakes, parked, task, conn>>

-----------------------------------------------------------------------------
(* The refill task (`spawn_pool_refill`).                                  *)

RefillGone == ~alive \/ closed

RefillExit ==
  /\ refill = "top" /\ RefillGone
  /\ refill' = "exited"
  /\ UNCHANGED <<stage, line, slots, wakes, parked, refillSignal, conn>>

RefillFull ==
  /\ refill = "top" /\ ~RefillGone /\ parked >= PoolTarget
  /\ refill' = "full"
  /\ UNCHANGED <<stage, line, slots, wakes, parked, refillSignal, conn>>

(* Variant: spares are opened without counting against the cap. *)
RefillTryUncounted ==
  /\ refill = "top" /\ ~RefillGone /\ parked < PoolTarget
  /\ refill' = "opening"
  /\ UNCHANGED <<stage, line, slots, wakes, parked, refillSignal, conn>>

(* `try_acquire_owned`: it never queues. *)
RefillTry ==
  /\ refill = "top" /\ ~RefillGone /\ parked < PoolTarget
  /\ \/ free > 0 /\ free' = free - 1 /\ refill' = "opening"
     \/ free = 0 /\ refill' = "backoff" /\ UNCHANGED free
  /\ UNCHANGED <<stage, line, granted, wakes, parked, refillSignal, conn>>

RefillNotified ==
  /\ refill \in {"full", "backoff"} /\ refillSignal
  /\ refill' = "top"
  /\ refillSignal' = FALSE
  /\ UNCHANGED <<stage, line, slots, wakes, parked, conn>>

(* Variant: the back-off waits for a notification alone. *)
RefillTimerPauseOnly ==
  /\ refill = "pause"
  /\ refill' = "top"
  /\ UNCHANGED <<stage, line, slots, wakes, parked, refillSignal, conn>>

(* REFILL_BACKOFF, or the half second after a refused open. *)
RefillTimer ==
  /\ refill \in {"backoff", "pause"}
  /\ refill' = "top"
  /\ UNCHANGED <<stage, line, slots, wakes, parked, refillSignal, conn>>

(* Variant: the channel is parked and no queued call is told. *)
RefillParkSilently ==
  /\ refill = "opening" /\ ~closed
  /\ parked' = parked + 1
  /\ refill' = "top"
  /\ UNCHANGED <<stage, line, slots, wakes, refillSignal, conn>>

(* The opened spare is pushed, and one queued call told. *)
RefillPark ==
  /\ refill = "opening" /\ ~closed
  /\ parked' = parked + 1
  /\ NotifyParked({})
  /\ refill' = "top"
  /\ UNCHANGED <<stage, line, slots, refillSignal, conn>>

RefillRefused ==
  /\ refill = "opening"
  /\ IF Ungranted = {}
     THEN free' = free + 1 /\ UNCHANGED granted
     ELSE /\ \E d \in Calls : IsFirst(d, Ungranted) /\ granted' = granted \cup {d}
          /\ UNCHANGED free
  /\ refill' = IF closed THEN "exited" ELSE "pause"
  /\ UNCHANGED <<stage, line, wakes, parked, refillSignal, conn>>

-----------------------------------------------------------------------------
(* The connection.                                                         *)

(* The transport dies, or `disconnect` closes it. *)
Close ==
  /\ ~closed /\ alive
  /\ closed' = TRUE
  /\ UNCHANGED <<stage, line, slots, wakes, parked, task, alive>>

(* Evicted or replaced, and no call holds it: the last Arc drops, and the  *)
(* parked channels with their permits.                                     *)
Drop ==
  /\ alive /\ refill # "opening"
  /\ \A c \in Calls : stage[c] = "idle"
  /\ alive' = FALSE
  /\ parked' = 0
  /\ free' = free + parked
  /\ UNCHANGED <<stage, line, granted, wakes, task, closed>>

-----------------------------------------------------------------------------
(* The primary connection of a host has a refill task when it may have a   *)
(* spare at all; an overflow connection never has one.                     *)
Init ==
  /\ stage = [c \in Calls |-> "idle"]
  /\ line = <<>>
  /\ free = MaxChannels
  /\ granted = {} /\ woken = {}
  /\ signal = FALSE
  /\ parked = 0
  /\ refill \in IF PoolTarget > 0 THEN {"top", "exited"} ELSE {"exited"}
  /\ refillSignal = FALSE
  /\ closed = FALSE /\ alive = TRUE

CallStep(c) ==
  \/ TryTake(c) \/ TakeOrOpen(c) \/ AcquireSlot(c)
  \/ RunGranted(c) \/ RunWoken(c) \/ TimeOut(c)
  \/ OpenOk(c) \/ OpenFail(c) \/ Finish(c) \/ Abandon(c)

RefillStep ==
  \/ RefillExit \/ RefillFull \/ RefillTry \/ RefillNotified \/ RefillTimer
  \/ RefillPark \/ RefillRefused

Next == (\E c \in Calls : CallStep(c)) \/ RefillStep \/ Close \/ Drop

Spec == Init /\ [][Next]_vars

(* Runnable tasks run, timers fire, and an open is answered one way or the *)
(* other.  Nobody owes a Finish: a shell or a forward may last for ever.   *)
(* The deadline is fixed before the loop, so a call that is woken again    *)
(* and again finds it expired in every later select!, whose random choice  *)
(* among ready branches cannot pass it over for ever: hence SF on TimeOut. *)
(* The server refuses a spare only for a while (SF on RefillPark).         *)
Fairness ==
  /\ \A c \in Calls :
       /\ WF_vars(stage[c] # "idle" /\ TakeOrOpen(c))
       /\ WF_vars(RunGranted(c)) /\ WF_vars(RunWoken(c)) /\ SF_vars(TimeOut(c))
       /\ WF_vars(OpenOk(c) \/ OpenFail(c))
  /\ WF_vars(RefillStep)
  /\ SF_vars(RefillPark)

FairSpec == Spec /\ Fairness

-----------------------------------------------------------------------------
(* Invariants.                                                             *)

(* The queue holds exactly the queued calls, each once. *)
LineOK ==
  /\ line \in Seq(Calls)
  /\ ToSet(line) = Queued
  /\ IsInjective(line)

TypeOK ==
  /\ stage \in [Calls -> Stages]
  /\ LineOK
  /\ free \in Nat /\ parked \in Nat
  /\ granted \subseteq Queued
  /\ woken \subseteq Queued \ SlotCalls
  /\ refill \in RefillStages
  /\ signal \in BOOLEAN /\ refillSignal \in BOOLEAN
  /\ closed \in BOOLEAN /\ alive \in BOOLEAN

Held   == {c \in Calls : stage[c] \in {"opening", "using"}}
Owners == Held \cup granted
Warming == IF refill = "opening" THEN 1 ELSE 0

(* Every permit is in exactly one place on every path of take, time-out,   *)
(* cancellation, refused open and race of a permit with a notification:    *)
(* none leaks (calls would meet ChannelLimit for ever), none is minted     *)
(* (the server would refuse channels past MaxSessions).                    *)
SlotsConserved == free + Cardinality(Owners) + parked + Warming = MaxChannels

(* No call waits in the semaphore's queue while a permit is free: the      *)
(* "try" paths, which barge, cannot strand a queued call.                  *)
NoIdleSlot == Ungranted # {} => free = 0

(* The comment of `take_or_open_channel`: a call must not "sit out a whole *)
(* command on another channel while that one idles".  While a queued call  *)
(* sleeps, each parked channel has its own woken call on its way to it.    *)
Coming == woken \cup {c \in Calls : stage[c] = "loop"}
NoMissedPark == Sleeping # {} => parked <= Cardinality(Coming)

(* The pool is capped, so the warm-up never takes the last slot.           *)
SparesBounded == parked + Warming <= PoolTarget

(* "Always notifies the refill task so the pool topples back up": the task *)
(* never waits beside a pool that is short without a wake-up on its way.   *)
RefillAwake == alive /\ refill = "full" => parked = PoolTarget \/ refillSignal

(* The cap as the abstract specification states it. *)
Budget == INSTANCE ChannelBudget WITH
            held <- Held,
            spare <- parked + Warming,
            MaxSpares <- PoolTarget
ImplementsBudget == Budget!Spec

-----------------------------------------------------------------------------
(* Liveness.                                                               *)

(* "Bounded: an unbounded wait would hang the call forever behind a leaked *)
(* forward or a stuck PTY": a call that asked for a channel gets one, an   *)
(* error, or a ChannelLimit, whoever keeps the slots.                      *)
CallsAnswered ==
  \A c \in Calls : stage[c] \in {"lanes", "loop", "queued", "opening"}
                     ~> stage[c] \in {"using", "idle"}

(* Once calls stop coming, on a connection that stays up, the spares are   *)
(* all back, however the last calls ended.                                 *)
Quiet == /\ alive /\ ~closed /\ refill # "exited"
         /\ \A c \in Calls : stage[c] = "idle"
PoolRecovers == <>[]Quiet => <>[](parked = PoolTarget)
=============================================================================
