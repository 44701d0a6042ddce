# A TLA+ model of fast-mcp-ssh

fast-mcp-ssh is an MCP server that runs commands, shells, transfers and
forwards on remote hosts over SSH. It is one process on tokio's
`current_thread` runtime (`src/src/main.rs:45-50`): tasks interleave at awaits
only, but hundreds of them may be between two awaits at once, and each waits
for a server that may answer late, answer something else, or be gone.

This directory holds TLA+ modules that model it, the TLC configurations that
check them, and TLAPS proofs about thirteen of them. Paths below are relative to
the repository's root; its Rust sources are `src/src/*`.

## 1. The system

| component | state it keeps | operations | hard part | module |
|---|---|---|---|---|
| Channel slots and warm pool (`session/mod.rs`, `Session`) | semaphore, `channel_pool`, `parked` and `refill_notify` Notifys, the refill task | `try_take_channel`, `take_or_open_channel`, `acquire_channel`, `open_session_channel`, `spawn_pool_refill` | a wait on three things at once, barging, hand-over of permits and notifications to futures that are being dropped, a task that holds only a weak reference | SessionChannels |
| Connections per host (`session/mod.rs`, `SessionPool`) | `sessions`, `connect_locks`, lanes of each session | `get_or_connect`, `open_session`, `exec_channel`, `open_lane`, `prune_against`, `evict_idle`, `take_session` | singleflight per host, locks nested along ProxyJump, reload, disconnect and cancellation during a handshake, an authentication without a time-out | ConnectPool |
| One exec (`session/exec.rs`) | loop state of one call, its entry in `exec_cancels` | `exec_leased`, `exec_on_channel`, `cancel_all_execs` | order of exit, output, Eof, Close; retry of a stale channel; interrupt; deadline | ExecCall |
| PTY shells (`session/pty.rs`, `server.rs`) | default and named shells, read half lock | `ensure_pty`, `run`, `interrupt`, `close_pty`, `evict_broken_pty` | calls queued on a shell that breaks; capped output and the sentinel | PtyShells |
| Confirmations (`server.rs`, `confirm.rs`, `tools/run.rs`) | guard snapshot, `confirmations` | `run_guards`, `exec_batch`, `Confirm::ask`, `remember_confirm`, `reload` | the user answers while guards are reloaded and approvals expire; two rounds of one call | Confirmations |
| Tool handlers (`tools/*.rs`), guard verdicts (`guards.rs`), forwards | facts cache, table of forwards, audit records | every tool that does something | each handler chooses its checks and their order; reload and links move between its steps | ToolCalls |
| Writing files (`sftp.rs`) | `<dst>.partial`, `dst`, cached SFTP session | `upload`, `copy_between`, `commit_partial`, `posix_rename` | any request fails, its answer is lost, the call is cancelled, a request nobody waits for lands later | Transfers |
| Host keys (`known_hosts.rs`, `session/connect.rs`) | pins in memory and on disk | `check_server_key`, `add`, `flush` | failed flush, concurrent handshakes, a thread that outlives its lock, crashes | HostKeys |
| Audit log (`audit.rs`) | bounded queue, writer task, files | `write`, `rotate`, `shutdown` | full queue, rotation failing or cut short | AuditLog |
| Read-only check of a command (`guards.rs`) | none | `parse_segments`, `looks_writeful` | quoting | CommandSegments |
| Captured output (`tail.rs`, `output/truncate.rs`) | head, rolling tail, total | `push`, `finish`, `head_tail` | bytes, characters and limits cut each other | OutputCapture |
| Configuration (`config.rs`, `ssh_config.rs`) | the loaded hosts | `parse`, `merge_ssh_config`, `validate` | imported jumps to missing hosts or in a ring | HostConfig |
| Downloads, inline writes, authentication, formatting, process start | none between requests | | section 6 | |

How they meet: a tool call takes the guards (`run_guards`), a connection
(`get_or_connect`), a channel on it (`exec_channel`), and runs the command
(`exec_leased`). Shells and SFTP take channels of the same budget, as do
forwarded connections and the transport of a ProxyJump. A cancelled request
drops its future at whatever await it stands (`server.rs:181-187`). `reload`
swaps guards and configuration under calls in progress. The eviction timer and
`disconnect` take sessions away while calls still hold them. A connection's
handshake asks the store of host keys; every handler that acts writes to the
audit log.

In the models one component is the other's step: ConnectPool counts the slots
that SessionChannels has in detail; a connection, a transfer or an approval is
a step of ToolCalls that succeeds or fails; "the loaded hosts have no cycle of
jumps" is what HostConfig shows and ConnectPool assumes of each configuration;
which commands `looks_writeful` names is what CommandSegments computes and
ToolCalls takes as a set.

PROJECT.json lists the hazards at their lines, with the properties that cover
them or the reason why none does.

## 2. Modules

### ChannelBudget and SessionChannels

`ChannelBudget` is the promise of one connection to its server: never more
channels than the cap, of which at most `MaxSpares` are open for nobody.
`SessionChannels` is the code: calls of four kinds (exec, shell or SFTP,
posix-rename, bare slot), the semaphore's queue, the two Notifys, the refill
task, the 15 s deadline, cancellation anywhere (`Abandon`), refused opens, loss
of the connection (`Close`) and of the last reference (`Drop`).

`line` is the order of the calls in the `select!`; a call is in the semaphore's
queue until it is in `granted` and in the Notify's until it is in `woken`.
Dropping either future passes on what it had been given (`DropAcquire`,
`DropNotified`), as tokio does. `stage` "lanes" is an exec between its first
try and the queue; "loop" is a woken call about to look at the pool again.
These two extra stopping points have no await of their own at every place: they
only add interleavings. A call is used again after it ends, so the calls of an
instance bound how many are under way, not how many there ever are.

### ConnectPool (and MCConnectPool)

A call is a stack of frames, one per host it is opening: `open_session` of a
host behind a bastion calls `get_or_connect` for the bastion while it holds its
own host's lock. A frame goes from "lookup" (the fast path) to "lock", "open"
(the second look and the configuration read), "bastion", "slot", "handshake"
and "auth". TCP and the key exchange are timed, the authentication is not
(`session/connect.rs:261-281`). An error passes every frame and lets go of every
lock (`Fail`); a lane's error stops at `open_lane`, which remembers it until
`LaneRetry` and queues on the primary. A client may cancel a call wherever it
stands (`Cancel`), and its frames and locks go with it.

What is freed is derived, not stored: `Alive` is the closure of what the table,
the calls and the disconnect under way hold over "keeps its bastion" and "keeps
its lanes", as the `Arc`s do. Sessions are taken away by `Disconnect` and
`SendDisconnect`, `Reload` and its `Prune` host by host (two reloads may
overlap, each with its own configuration to prune against), `Evict`,
`DropIdleLanes` and `Lose`. Each session carries the configuration it was opened
from and the one in force when it was put in the table.

### ExecCall

One exec on its channel against a server that promises nothing: it may never
start the command, exit by status or signal, send Eof before or after the exit,
close the channel at any time, parked, under a running command or after it, or
be cut off. All that is assumed is that its Close is the last message of a
channel. `got`, `status`, `closing`, `closeSeen` are the locals of
`exec_on_channel`; `End` is what follows the loop, with the retry decision of
`exec_leased` (`Stale`). The retry opens a fresh channel (`Reopen`,
`ReopenFails`), a wait the call's deadline does not cover
(`session/exec.rs:142`). `first` keeps what the server had said of the first run
when the channel closed. Messages are kinds only; output is counted in pieces.
The `select!` is biased, so a notification goes before the timer and the timer
before a message: `Reading` requires that no notification is pending, and the
timer may fire at any time.

### PtyShells (and MCPtyShells)

`ensure_pty` under the mutex of the default shell or that of the named ones, a
command and its token written to the shell, the read half taken in turn, chunks
kept up to a cap, the deadline, the broken stream, eviction by name when a call
fails, `close` and `interrupt`. The shell on the host is external: it may print
late, run for ever, or hang up at any time. A chunk says which call's command it
comes from; a token counts as one.

### Confirmations (and MCConfirmations)

Judging a call's commands by the guards it took at its start, asking the user
(in place, or between two rounds), the bounded and expiring map of approvals,
and reload. A guard set is a function from commands to "allow", "deny" or a
confirm pattern: matching itself is not modelled. One host stands for all: the
map is keyed by host and command, and no operation relates two hosts but
reload, which clears them all. A yes is remembered for one command after
another (`left`, `RememberNext`), and until it is for all of them nothing else
moves (`Free`): there is one thread and no await in that loop. `yes` is a
history of what users approved, when, under which guards, and whether the
question listed it; `full` says that an approval met a full map.

### ToolCalls (and MCToolCalls)

`Handler` gives each tool as the sequence of its steps, a step being code up to
an await or an early return: which guard is asked for which side and access,
the connection, `realpath`, the second check, the effect, the record. The rows
are read off the handlers; one that branches on an argument has two rows.
There is one action per kind of step (`GuardPath`, `ResolvePath`, `DoEffect`,
...), and between two steps of a call any other call, a `Reload` or a `Relink`
may come. The table of forwards, the listeners and the aborted accept loops are
state of their own (`CheckPort`, `ListenOn`, `Unforward`, `LoopEnds`).
`seen` keeps the state of the links at which each path was resolved, `since` the
guards a call started under. A path is touched by name, so an effect follows the
link as it is by then. `shot` has two steps more (`Scratch`): the command that
writes its capture to a file of its own under `/tmp`, and the removal of that
file. `log` is what each call left in the audit log.

### Transfers (and MCTransfers)

`upload` and `copy_between` request by request. A request is `Answered` with
success, `Refused`, or `Unanswered`: not arrived, done with its answer lost, or
still on its way when the code gives it up, by the 30 s time-out of posix-rename,
a lost connection or the cancellation of the call. Those wait in `late` and
`Land` at any later step, in the middle of the next transfer too. What the SFTP
server does with a request is external (`Effect`). `strayed` is a history: a
late request of an earlier transfer took effect after the next one had begun.
`extension` stands for "the server advertises posix-rename and
there is a second channel to send it on" and keeps its value for a behaviour.
Other programs may put a file at `dst` or remove it. Transfers to one path come
one after the other: the code does not ensure it, and when two overlap in their
common `.partial`, `DstIsWhole` fails; the module says so where it assumes it.

### HostKeys (and MCHostKeys)

From the look at the store to the first await a handshake is one step: under
`tofu` an unknown key is pinned in memory at once. A pin by alias, from a file
of before 0.2.0, lets a handshake in (`by` "legacy") and is not entered for the
endpoint. The file follows: under `flush_lock` a snapshot is handed to a
blocking thread, whose `Truncate`, `Fill` and `Rename` are steps, each of which
may fail. A handshake dropped at its timeout lets the lock go and the thread
goes on (`dropped`). The process may crash at any step and start again from the
file.

### AuditLog

Files are inodes, because the writer goes on writing to what it has open under
whatever name that now is. Records enter a bounded queue, are taken in batches,
and a rotation renames generations one at a time, oldest first; every rename,
write and open may fail (`trouble` keeps which kinds did), the process may die
between any two, and the next run starts from the names it finds.

### CommandSegments, OutputCapture, HostConfig (and MCFunctions)

Sequential parts that only compute, each as operators with a reference
definition beside them. `ParseSegments` walks a command as the code does; the
reference reads it by position, without walking: `Kinds` says what each
character is by the quotes before it, `Stretch` which positions a segment has,
`FirstWord` and `SecondWord` which of them its words are, `Spells` what a word
at some positions is. The words of a command are put in lower case before the
tables are asked (`Lower`), the tables are not; the reference says the same
without folding: the word is an entry in any mix of cases (`SpellsAnyCase`), of
an entry that has no letter in upper case (`InLowerCase`). `Push`,
`FinishCapture` and `HeadTail` work on bytes that know which character they
belong to. `ReadLine` gathers `~/.ssh/config` into blocks, `MergeSshConfig`
imports and wires the jumps in the code's order, `Validate` is what makes a
configuration load. `MCFunctions` puts the three side by side, so that one run
builds up every input of each, a character, a message or a line at a time.

## 3. Runs

| run | instance | result |
|---|---|---|
| `channels` | an exec, a shell, a rename, a forward; 3 slots | all hold, 26 583 states |
| `connect` | 2 hosts, 2 execs and a transfer, 3 configurations, 1 channel per connection, 2 connections per host, 3 sessions, 2 events (cancellations among them) | all hold, 376 223 states |
| `connect_deadlock` | a call to each end of a chain that a reload turns round | **violated**: neither call ends |
| `exec` | 2 pieces of output per run | all hold, 15 166 states |
| `pty` | 3 calls on two named shells, one endless; 2 shells, 1 of them named at most, 3 chunks kept | all hold, 3 205 766 states |
| `confirm` | exec, batch, multi-round batch; 3 commands, room for 2 approvals, a reload that puts one more command under the pattern and denies another | all hold, 1 818 250 states |
| `confirm_freeze` | one exec, one expired approval | **violated**: the server waits for itself |
| `tools` | any tool with any argument beside a `forward`; 2 hosts, 3 paths, 2 guard sets, 1 port | all hold, 745 228 states |
| `transfers` | upload, striped copy, shorter upload; one late request at a time | all hold, 9 071 907 states |
| `hostkeys` | 4 handshakes, 4 aliases, 3 of them of one endpoint, 2 endpoints, 2 keys | all hold, 4 025 802 states |
| `audit` | 5 records, queue and batch of 2, files of 1 record, 0 or 2 generations kept | all hold, 3 633 653 states |
| `functions` | commands of up to 5 characters, one letter in both cases; streams of up to 5; 5 lines of ssh_config beside 5 hosts.toml | all hold, 534 260 states |

What the passing runs show:

- `SlotsConserved`, `ImplementsBudget`: no path loses or mints a slot.
- `NoIdleSlot`, `NoMissedPark`: the barging try paths strand nobody, and a
  parked channel never idles beside a call that sleeps for one.
- `RefillAwake`, `PoolRecovers`: the pool of spares fills up again.
- `CallsAnswered`: a call gets a channel or an error, whoever keeps the slots.
- `CallsEnd`: a call gets its connection or an error, whatever is reloaded,
  evicted or disconnected meanwhile (where no reload turns a chain round),
  unless it stays behind an authentication nobody answers, its own or one under
  a lock it waits for.
- `CallEnds`: an exec ends, whatever the server does with its channel, unless
  the server leaves the CHANNEL_OPEN of the retry unanswered on a connection it
  keeps up.
- `NoSecondConnection`, `LaneCap`: one handshake per host at a time and none
  beside a live session; a burst stays within `max_connections_per_host`, which
  the code counts for each primary session, not for the host (section 5).
- `UsedConnectionsSurvive`, `StaleOnlyIfOvertaken`: the clean-up closes no
  connection under a call, nor its bastion; after a reload the only session of
  an old configuration is one whose handshake the reload overtook.
- `CompleteOutput`, `SlotHeldUntilClosed`, `InterruptSticks`,
  `RerunOnlyAfterSilence`: the exec loop stops neither too early nor too late,
  loses no interrupt, and starts a command again once at most, after a channel
  that was closed without output or exit status. The first run may be over, or
  still be on: silence does not tell.
- `OutputIsWhole`, `BrokenShellLeaves`, `OpensOnce`: a shell call returns all
  its command printed and nothing of a call that did not fail beside it; a
  broken shell is never found again; one shell per name, within the cap.
- `ClearedByApproval`, `NoSecondPrompt`, `BlockWins`: nothing passes without a
  yes that listed it, or to a question of before a reload that covers it now
  (section 5); nobody is asked twice in one guard set unless an approval met a
  full map; a denied command sinks its batch.
- `PathsCleared`, `ReadOnlyUnchanged`, `OwnFilesClosed`, `RecordedOnce`,
  `ListenersReachable`: whatever comes between a handler's steps, a path it
  touches was allowed as given, and so is what the path resolves to at that
  moment, unless its links moved after the tool had it resolved, to what was
  allowed; a host that is read-only throughout a call is not changed by it, but
  for the capture of `shot` under `/tmp`; the server's own files stay closed; a
  changing or blocked call leaves one record, and no accept loop outlives its
  entry in the table.
- `DstIsWhole`, `SuccessIsVisible`: a path never shows part of a file, and
  success is not reported for another file, as long as no late request of an
  earlier transfer took effect in the `.partial` of a later one.
- `NeverMissing`: with posix-rename, which needs the server's extension and a
  free channel slot, a path that had a file always has one, whatever lands late.
- `OneKeyPerEndpoint`, `FileKeepsPins`: two first handshakes with one server
  accept one key between them, unless one of them was let in by a pin under its
  alias, and the file is whole and keeps it.
- `LogKeepsNewest`, `DrainedAtShutdown`: records stay in order, none twice, and
  are lost from the old end only; what was queued before a shutdown is written.
- `SegmentsAsQuoted`, `EndsShown`, `ImportHarmless`, `JumpsEnd`: the
  walk over a command finds what its quoting means, and a command is taken to
  write exactly when a segment redirects or begins, in any case, with an entry
  of the tables that is in lower case; an answer shows the two
  ends of its stream and counts what it cuts; an import never makes a
  configuration fail, and what loads has no cycle of jumps.

Each property also has a mutant of a mapped definition, kept beside it in the
module and marked "Variant", under which the run fails.

**Bounds.** SessionChannels: three slots are the least at which the pool target
is its full two and one slot is left for calls; one call of each kind is one
more than the slots. ConnectPool: with one channel per connection every second
call needs a lane; two connections let exactly one be opened; three sessions
allow a bastion, a primary and a lane, or a reconnect; two events allow a
reload, a loss or a cancellation in one handshake, and two overlapping reloads;
the three files add a bastion and then drop the host behind it. ExecCall: two
pieces let output come before and after the exit. PtyShells: one named place for
two names meets the cap, two calls on one shell of which the first never ends
meet a broken shell from the queue, three chunks of output with its token are
more than the three kept, and a second shell is what a later call finds.
Confirmations: the clock has three values and approvals last two ticks; a map of
two is overfilled by one batch and one exec. ToolCalls: one call of any tool
meets a `forward` for its port, one reload that turns the guards of both hosts
over, and a link that is harmless, then not, then harmless again. Transfers: two
chunks let a file be half-written, and three transfers let a leftover be taken
over twice, by a shorter file too. One late request at a time already lands in
each of the next two transfers, at each of their steps. HostKeys: three aliases
share an endpoint, one of them with a pin of an old file and, later, its
fingerprint in hosts.toml; the fourth has an endpoint to itself. AuditLog: five
records in files of one rotate more often than there are generations.
MCFunctions: five characters hold an operator between two words, or a quote
around it, and letters of either case in a word and in an entry of the tables;
five characters of one to four bytes overflow head and tail at every alignment;
five lines are two blocks with a keyword each and a third; the limits go to 10
bytes, more than head and tail together.

**Deadlock** is checked in `pty` only. Elsewhere `CHECK_DEADLOCK FALSE` stands
because each system may stop: a dropped connection, a call that ended, a frozen
server, finished transfers, a process that refuses to start.

**Fairness.** SessionChannels: tasks that can run do, timers fire, an open is
answered or fails (the keep-alive ends a dead connection). `SF` on `TimeOut`:
the deadline is fixed before the loop, so a call that is woken again and again
finds it ready in every later `select!`, whose random choice cannot pass it over
for ever. `SF` on `RefillPark`: a server refuses spares for a while only; needed
for `PoolRecovers` alone. There is no fairness on `Finish`: shells and forwards
may last for ever. ConnectPool: `WF_vars(\E c \in Calls : CallStep(c))`, some
call runs while one can. The waits in `CallStep` are bounded by the code (the
connection and the key exchange by `connect_timeout`, a slot by 15 s), except
that for a lock, which is enabled only when the lock is free. The authentication
is not in it: `connect.rs:261-281` awaits the server or the agent without a
time-out, and the keep-alive (`connect.rs:178-181`) only ends a transport on
which nothing is heard, so `Connected` and `AuthFails` have no fairness and
`CallsEnd` names the calls such a wait holds. ExecCall: the call's own steps and
its timer, and the error a wait for a channel gets when the connection is down;
nothing of the server, not even that it answers the CHANNEL_OPEN of the retry.
Confirmations: a call that can be judged is; users need not answer. The other
modules state no liveness.

## 4. Proofs

Eight modules hold theorems of their components, for every value of the
constants, from the assumption named in each (`ChannelsAssumption`,
`PoolAssumption`, `ExecCallAssumption`, `PtyAssumption`,
`ConfirmationsAssumption`, `ToolsAssumption` with `HandlerAssumption`,
`TransfersAssumption`, `HostKeysAssumption`, `AuditAssumption`,
`ConfigAssumption`, `CaptureAssumption`, `CommandAssumption`: the tables hold
words over the alphabet, none of them empty, "end", which stands for no next
character, is none, and what `LowerCase` gives is in lower case). TLC evaluates
them in the runs. `Stores_proofs` is about the two parts that keep a file on
this machine, HostKeys and AuditLog; `ConnectPool_proofs` is also about
HostConfig, on which ConnectPool rests, and `ExecCall_proofs` about
OutputCapture, which keeps what an exec prints, and CommandSegments, which reads
its command before.

`SessionChannels_proofs`:

- `TypeCorrect`: `TypeOK`, with `LineOK` (the queue holds the queued calls,
  each once), is inductive by itself. It rests on what `RemoveAt` and `Append`
  do to an injective sequence.
- `SlotsAreConserved`: needs `SparesBounded` beside it, and finiteness of the
  owners. The lemmas are one per way a permit moves: to the queue's head, to
  the counter, into the pool.
- `NoSlotIdles`: a returned permit goes to the oldest ungranted call if there
  is one; a permit is taken from the counter only when nobody waits or by a
  call that finds one free, and then nobody waits.
- `NoParkIsMissed`: each step that parks a channel or puts a call to sleep
  keeps `parked <= |Coming|` while somebody sleeps; a notified call that leaves
  hands its notification on.
- `RefillStaysAwake`: the task rests only after it saw the pool full, and each
  taking from the pool notifies.
- `BudgetImplemented`: every step is a step of `ChannelBudget` or leaves `held`
  and `spare` alone; room follows from `SlotsConserved`.

`ConnectPool_proofs`: `Singleflight`, `PruneIsThorough`, `LanesWithinCap` and
`UsedSurvive`. `GoodStack` says of a call's stack that its lower frames wait for
a bastion, and that each host it dials is locked by it, dialled once, and not
live in the table; the lock then belongs to one call, which gives
`NoSecondConnection`. `Described` says of a session no reload overtook that it
was opened from a file that describes its host as the current one does, or as
the previous one did while the host's turn in `prune_against` is to come.
`LaneCap` is not in the guard of `open_lane`, which counts the lanes once,
before the handshake: `Room` says that a held lane lock stands for the lane its
holder may add, and `LaneStage` that only the holder adds one. For
`UsedConnectionsSurvive`, what is in the table, carries another session or is
being dialled through is never a lane (`Lasting`), and only lanes are closed for
being idle; a lane a call is on has a slot taken (`UsedCounts`), so it is not
idle. Slots are counted over the calls, so `PoolAssumption` says that there are
finitely many.

The same module proves `ChainsOfJumpsEnd` and `ImportNeverFails` of HostConfig.
The walks of the code there are recursive functions, which exist by an
induction over their domain; the library has that induction for operators only,
so `Induction` restates it for sets, from the least element a set of numbers
has. Two lemmas carry the argument between the code's bounded walks and
"no hosts jump only among themselves" (`NoRing`): a walk that ends leaves every
set it starts in (`RingFree`), and one of as many steps as there are hosts that
did not end met a host twice, and so a ring (`ChainsEnd`, by pigeonhole). A jump
`jump_would_cycle` lets through adds no ring (`JumpAdded`), so wiring keeps
`Extends` one alias at a time.

`ExecCall_proofs`: `NoBlindRerun`, `OutputComplete`, `SlotUntilClose`. The
invariant follows the stream: what the server still has to say can only come in
certain orders (`Stream`), what the call heard and what is still in its inbox add
up to what the server sent (`Heard`, `Left`), and the runs are the attempts that
started (`Counted`). As Close comes last, a call that heard nothing before it
knows that nothing was sent; whether the command ran it does not know, and the
theorem does not say.

The same module proves `BothEndsShown` of OutputCapture, for every text of
characters of one to four bytes and all limits, a `TAIL_KEEP` of at least one
character assumed (the code's is 64 KiB). `StreamIsText` turns the bytes of a
stream into a property of neighbours (`NextByte`), by induction over its
characters. The invariant is `Held`: the head is the first bytes received and
the tail the last of those behind it, however they came in messages. From
there it is the algebra of the end: `Cutting` says what `head_tail` takes of two
texts whose characters are whole (a boundary is at most three bytes away,
`Floors`, `Ceils`); `HeadRepaired` and `TailSkips` what `finish` makes of a
split character; `Meeting` that a repaired head and a tail with no gap counted
between them are neighbours, or one byte apart; `NoTail` that a tail without a
whole character is the end of the character the head splits.

And it proves `CommandsReadAsQuoted` of CommandSegments: `SegmentsAsQuoted` for
every command over every alphabet and all tables. `WalkedSteps` and `KindsSteps`
turn the two recursive functions into equations of neighbours, by induction
over the length. The invariant of the walk is `Reads`: what it holds behind
position i is what the kinds say of the positions up to i (`OpenAt`: the
closed segments, the words behind and the word being read of the open one,
its redirection), its quote is the one whose sort occurs an odd number of times,
and the look-ahead flag is set exactly before half an operator, where no word is
open, or an escaped character, which the walk has already taken.
`OpenStep` says how the positions move with each kind; `OpenChar`, `OpenBreak`,
`OpenRedirect` and `OpenCut` that the code's steps follow them, resting on
`WordsAdded` (a word closed behind others is the first, the second, or
neither). `SpellsOne`, that positions spell one word only, carries the
segments to the answer of `looks_writeful`; `AnyCaseOne` that a word in lower
case is the fold of what the positions spell exactly when they spell it in some
mix of cases, and `Listed` that an entry with an upper-case letter is the fold
of nothing.

`PtyShells_proofs`: `BrokenShellGone`, `OneOpenPerName`, `NoSplicedOutput`.
`Held`: a call that opens a shell holds the mutex of its slot, the slot is empty
and there is room for it. `Numbered`: no shell number is ahead of those opened,
so a fresh shell is not one a failed call knew. `OutputIsWhole` follows the
stream of each shell, that is what its reader has kept and what is still to
come. The reader's command is still in the shell's input with nothing of it in
the stream (`NotStarted`), or running, with what it printed and what it has left
to print adding up to its output (`Running`), or done, with its token at the end
of the stream (`Complete`), or an interrupt threw the token away (`Flushed`).
Only calls that read or gave up have anything in a stream (`Owned`), the
reader holds the read half and has not seen its token (`Turn`), and a chunk of
another call is of one that failed on that shell (`Strangers`). Lemmas on
counting in a sequence carry each chunk from the shell to the reader.

`Confirmations_proofs`: `DeniedNeverRuns`, from `Judged`: nothing denied is
behind a call's position in its commands. `ClearedOnly` and `AskedOnce` from
`ApprovalInv`: a question lists at least what a yes to it would let through
under the version it was put by (`Put`), which a call and its retry may no
longer judge by; whatever the map, a confirmed pattern or the rest of a
remembering loop would let pass was said yes to (`Granted`), at a time not ahead
of the clock and to a question that listed it or came before a reload
(`Given`); and while no approval met a full map, whatever was said yes to in
this guard set is in the map or about to be (`Recalled`). The loop is one step
per command, so that the invariant carries the induction over the batch.

`ToolCalls_proofs`: `PathsAreCleared`, `ReadOnlyIsKept`, `OwnFilesStayClosed`,
`RecordedExactlyOnce`, `LoopsReachable`. Lemmas about the rows of `Handler`
(each effect on a path comes after its two checks, each command after its
verdict, each local file after its own, the record last and in every handler
that changes something) and the invariant `Cautious`, that every step a call
has passed left its verdict, which stays true when guards move on; what a path
resolved to is kept with the links of that moment (`seen`), so that an effect
either meets those links and touches what was judged, or others, and then it
is the exception the property names.

`Transfers_proofs`: `TargetIsWhole`, `TargetNeverMissing`, `SuccessShows`. One
transfer is active; while nothing `strayed` (`Sound`), the two paths name
distinct files, a writing transfer has filled `.partial` so far and from its
close on `.partial` is its whole file, and a late request of the last transfer
to begin finds its file no longer being written (`LateOK`); one of an earlier
transfer makes `strayed` true when it lands. `TargetNeverMissing` needs none of
this, and holds whatever strays: the target is removed only on a server without
posix-rename (`SlowPath`), by a request in time or late.

`Stores_proofs`: `OneKey`, `PinsAreKept`, `OrderKept`, `LogDrained`.
`MemoryKeeps`: what the store accepted is what it has pinned, legacy pins apart,
which are the alias's own and never change. `OneWriter` and `FileSaves`: while
no time-out left a thread behind, one thread writes, its snapshot has every pin
already saved, and the file has the pin of every handshake that got past its
flush. For AuditLog, `FilesInv` is about names and inodes: those of older
generations are older (`Aged`), the task has the newest open, under the live
name unless it could not be reopened (`Newest`), the slot a rename fills is free
unless a shift failed (`Moving`), while no shift and no reopening failed every
inode newer than a named one is named (`NewestNamed`), and without failures
generation g is the inode g before the newest, at every point of a rotation
(`Contiguous`). `RecordsInv` says that the inodes in their order, the batch in
hand and the queue hold ascending records (`InOrder`), and that each accepted
record is in one of them (`Accounted`).

Only model-checked: the liveness properties `CallsAnswered`, `PoolRecovers`,
`CallEnds`, `InterruptSticks` and `CallsEnd` (fairness and ENABLED are out of
the prover's reach). Every other property of a passing run is a theorem.

## 5. Findings and divergences

Two places where the code does not do what its comments or documents say are
kept as runs with a counterexample, and as findings in PROJECT.json: the
removal of an expired approval under its own map lock (`server.rs:279`,
`confirm_freeze`), and two handshakes that wait for each other's lock after a
reload turned their chain round (`session/mod.rs:686`, `connect_deadlock`).

Others are known from modelling and written where the model meets them:

- Channels: the refill task outlives a session dropped while it waits
  (`session/mod.rs:792`, against 775-777); a bare slot times out beside an idle
  spare (`session/mod.rs:335`); `open_lane` fails the call at its `?`
  (`session/mod.rs:661`) though its doc says a failure never does.
- Connections: nothing times an authentication (`session/connect.rs:261-281`),
  which runs under its host's connect lock: a server that keeps the transport
  up, or an agent, that never answers holds the call and every later call for
  the host. `max_connections_per_host` is documented as what one host may get
  (`config.rs:100-104`) and counted per primary session: one that was evicted or
  disconnected while calls use it lives on with its lanes beside its successor.
- Confirmations: an approval is remembered though a reload came between
  question and answer (`server.rs:256`); an approval of a pattern covers more
  when a reload widens it between two rounds (`confirm.rs:85`), which is the
  case "reloaded" of `ClearedByApproval`.
- Exec: a command runs again when its pooled channel closes with neither output
  nor status (`session/exec.rs:127`): "the exec request never ran" (121-125) is
  not what the call can know, as a command killed by a signal, or still running
  when the server shut its channel, looks the same. The CHANNEL_OPEN of the retry
  is outside the call's deadline (`session/exec.rs:142`). The entry of a cancelled
  call stays in `exec_cancels` (`session/mod.rs:250`).
- Files: without posix-rename the target can be gone when the fallback of
  `commit_partial` is cut short (`sftp.rs:167`, against 247-248); without a free
  channel slot the code takes that way on any server (`sftp.rs:206-214`). A
  posix-rename that timed out or was cancelled may land after the next transfer
  truncated the same `.partial`, and then moves a half-written file to the
  target (`sftp.rs:182-211`, against 245-248): the case `strayed` of `DstIsWhole`
  and `SuccessIsVisible`, which transfers in sequence can meet too. That the
  cached SFTP subsystem is never looked at again (`session/mod.rs:395`) makes
  every later transfer fail once it died on a live connection.
- Paths: a path is checked as resolved and then used by name
  (`tools/mod.rs:99-140`), so the effect follows a link that was moved after the
  check, against "a symlink cannot launder a blocked target"
  (`src/README.md:115-117`). `PathsCleared` states that as its exception.
- Read-only hosts: `shot` makes its capture with a command that is not judged and
  removes it by SFTP (`tools/visual.rs:148-181`) on every host, against
  "`read_only = true` blocks anything that looks like a write"
  (`src/README.md:111`). The entries `-S`, `-R`, `-U` and `-Syu` of `pacman` in
  the table of writing commands (`guards.rs:748-751`) match nothing, as only the
  words of the command are put in lower case (788-796), so `pacman -S x` passes;
  `SegmentsAsQuoted` says "an entry in lower case".
- Output: room for less than one character of the tail goes to the end of the
  head though text between is missing (`output/truncate.rs:38-44`); the U+FFFD
  of a split two-byte character counts as three bytes; that of a split four-byte
  character counts as less than it stands for, so that there seems to be a gap
  behind the head and a stream that ends with that character shows no end.
  `EndsKept` states the three.
- Configuration: an alias with a quoted-empty HostName or User in
  `~/.ssh/config` fails the whole configuration (`config.rs`, against 534-537
  and 561-565). `ImportHarmless` leaves it out and says so. Outside what a
  configuration is validated for, an imported IdentityFile that
  `local_read_allow` lists fails `GuardCache::build` (`guards.rs:605-618`), and
  so the start or the reload.
- Host keys: a handshake that times out drops `flush_lock` while its thread
  writes, so two threads may write at once (`FileKeepsPins` is conditional on
  it not having happened); a failed flush leaves the pin in memory. A pin by
  alias lets a handshake in without entering its key for the endpoint
  (`known_hosts.rs:98-107`), so another alias of that endpoint may pin another
  key under `tofu`: the exception of `OneKeyPerEndpoint`.
- Audit: when the new file cannot be opened after a rename the task writes on
  to the renamed one, and a rotation that was cut short is followed by one that
  moves twice; what is sent after the drain is lost.
- Shells: output at the cap drops the token, so the run times out and its shell
  goes (`session/pty.rs:255`); output of a call that failed on a shell can reach
  a call that was already queued on it; a call that fails late evicts by name
  and so takes away a fresh shell that has the name by then, which
  `BrokenShellLeaves` allows. The instance of `pty` uses named shells only.
- Forwards: an accept error ends the loop but leaves its entry; with local port
  0 the port is known after the bind, so two overlapping calls are told apart
  only then.
- No record is written when a connection or an SFTP request fails, nor of
  `facts` and `ping`, nor when the user denies the question of a recursive `rm`,
  though a denial is to be recorded as a blocked call (`audit.rs:64-66`); a
  refused checksum of `cp` is recorded as blocked.

## 6. Not modelled

- Authentication and the credential caches (`session/connect.rs`,
  `session/mod.rs`): requests to the russh library in a row; their outcome, a
  session or an error or neither, is `Connected`, `AuthFails` and the stage
  "auth" of ConnectPool.
- What a guard pattern matches, and the text of local paths: regular
  expressions and normalisation over strings. A set or a table of each instance
  stands for them.
- Formatting of answers, the command lines the operation tools compose, the
  images of the visual tools: no state, no promise but readability.
- Downloads, inline writes, deletion of directories: SFTP requests in a row
  with one way to fail, steps of ToolCalls that succeed or fail. A failed
  download leaves what it wrote at the local path, and nothing is promised of
  it.
- `hosts`, `ping`, `forwards`: they change nothing but what `get_or_connect`
  does.
- Process start, the eviction timer and MCP tasks: wiring. The timer's work is
  `Evict` and `DropIdleLanes`; cancelling a task is the `Abandon`, `Cancel` and
  `Leave` of the modules.

What would be worth doing next: the stripes of `download_striped`; local port 0
in ToolCalls; overlapping transfers to one path, should the code come to
serialise them.
