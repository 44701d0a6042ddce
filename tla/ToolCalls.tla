------------------------------ MODULE ToolCalls ------------------------------
(***************************************************************************)
(* The tool handlers (tools/run.rs, files.rs, ops.rs, visual.rs, net.rs):  *)
(* what each checks, in which order, before it touches a host, and what it *)
(* leaves in the audit log.                                                *)
(*                                                                         *)
(* A handler is the sequence of its steps, a step a stretch of code that   *)
(* ends at an await or an early return.  Between two steps of a call other *)
(* calls run, `reload` swaps the guards, and files on the host change: a   *)
(* symlink is pointed elsewhere.  Connections are ConnectPool's, approvals *)
(* Confirmations', transfers Transfers', the log's file AuditLog's; here   *)
(* each is a step that succeeds or fails.                                  *)
(***************************************************************************)
EXTENDS Naturals, Sequences, FiniteSets

CONSTANTS
  Calls, Hosts, Ports,
  Paths,          \* remote paths
  SensitivePaths, \* those the sensitive-path patterns match
  Targets,        \* what `realpath` may say of the paths, one map per moment
  Commands,
  Writeful,       \* commands `looks_writeful` says change something
  Locals,         \* local paths, resolved
  SensitiveLocals, Owned,  \* matched by the local patterns; the server's own
  GuardSets,      \* the guards of the configurations `reload` reads, in order
  ToolsOf,        \* which tools a call may be
  InputsOf        \* and, of each tool, which arguments

NoPort == "no port"
NoOne == "nobody"

(* A guard set is a default block and the blocks of the hosts that have    *)
(* their own, each [readOnly, deny, ask, allow]: the commands it denies or *)
(* asks about, and the local paths its allowlists cover.                   *)
ASSUME ToolsAssumption ==
  /\ SensitivePaths \subseteq Paths /\ Writeful \subseteq Commands
  /\ SensitiveLocals \subseteq Locals /\ Owned \subseteq Locals
  /\ \A i \in DOMAIN Targets : Targets[i] \in [Paths -> Paths]
  /\ \A i \in DOMAIN GuardSets : DOMAIN GuardSets[i].byHost \subseteq Hosts

VARIABLES
  guards,   \* the guard set in force, an index of GuardSets
  links,    \* the state of the hosts' file systems, an index of Targets
  facts,    \* `facts_cache`: hosts whose profile is cached
  forwards, \* `forwards`: local port -> the call whose listener it names
  listener, \* local port -> the call whose accept loop is bound to it
  aborted,  \* the calls whose accept loop was told to stop
  tool, input, \* what each call is
  pc,       \* the step it is at
  outcome,  \* "idle", "running", or "ok", "blocked", "denied", "deferred", "error"
  log,      \* the records it wrote
  since,    \* the guard set when it started
  seen      \* the links when it resolved each of its paths, or NotResolved

world == <<guards, links>>
ports == <<forwards, listener, aborted>>
vars == <<world, facts, ports, tool, input, pc, outcome, log, since, seen>>

Sides == {"to", "from"}
NotResolved == 0

-----------------------------------------------------------------------------
(* Steps and handlers.                                                     *)

Step(do, access, side) == [do |-> do, access |-> access, side |-> side]
Guard(access, side)   == Step("guard", access, side)   \* the path as spelled
Resolve(access, side) == Step("resolve", access, side) \* and what it resolves to
Effect(access, side)  == Step("effect", access, side)  \* a failure is not recorded
Run        == Step("run", "command", "to")             \* a failure is recorded
Query      == Effect("query", "to")                    \* a fixed read-only command
Scratch    == Effect("scratch", "to")                  \* on a temporary file of its own
Command    == Step("command", "command", "to")         \* run_guards
Prompt     == Step("prompt", "write", "to")            \* rm recursive=true
Connect    == Step("connect", "none", "to")            \* a failure is not recorded
ConnectRec == Step("connect", "recorded", "to")
LocalRead  == Step("local", "read", "to")
LocalWrite == Step("local", "write", "to")
Facts      == Step("facts", "query", "to")
Verify     == Step("verify", "read", "to")
FreePort   == Step("port", "none", "to")
Listen     == Step("listen", "none", "to")
Record     == Step("record", "none", "to")

(* `batch` is one command of the batch.                                    *)
Exec   == <<Command, ConnectRec, Run, Record>>
Batch  == <<Command, Connect, Run, Record>>
Shell  == <<Command, Connect, Effect("none", "to"), Run, Record>>
Up     == <<Guard("write", "to"), Connect, Resolve("write", "to"), LocalRead,
            Effect("write", "to"), Record>>
Dn     == <<Guard("read", "to"), Connect, Resolve("read", "to"), LocalWrite,
            Effect("read", "to"), Record>>
Cp     == <<Guard("read", "from"), Guard("write", "to"), Connect, Resolve("read", "from"),
            Resolve("write", "to"), Effect("read", "from"), Effect("write", "to"), Verify, Record>>
Look   == <<Guard("read", "to"), Connect, Resolve("read", "to"), Effect("read", "to"), Record>>
Ls     == Look
Stat   == Look
(* Variant: `tail` takes the path as it is spelled. *)
TailAsSpelled == <<Guard("read", "to"), Connect, Effect("read", "to"), Record>>
TailTool == Look
Change == <<Guard("write", "to"), Connect, Resolve("write", "to"), Effect("write", "to"), Record>>
(* Variant: an inline write leaves no record. *)
WrUnrecorded == <<Guard("write", "to"), Connect, Resolve("write", "to"), Effect("write", "to")>>
Wr     == Change
(* Variant: a directory is guarded as a read. *)
MkdirAsRead == <<Guard("read", "to"), Connect, Resolve("read", "to"), Effect("write", "to"), Record>>
Mkdir  == Change
Rm     == <<Guard("write", "to"), Prompt, Connect, Resolve("write", "to"),
            Effect("write", "to"), Record>>
Sys    == <<Connect, Query, Record>>
SysNet == <<Connect, Facts, Query, Record>>
SvcShow   == <<Connect, Query, Record>>
SvcChange == <<Command, Connect, Query, Effect("command", "to"), Record, Query>>
FactsTool == <<Facts>>
(* A command captures the screen into a new file under /tmp, which is      *)
(* fetched and removed by SFTP; no guard looks at either.                  *)
Shot   == <<LocalWrite, Facts, Connect, Scratch, Scratch, Record>>
Forward == <<FreePort, Connect, Listen, Record>>

Handler ==
  [exec |-> Exec, batch |-> Batch, sh |-> Shell, up |-> Up, dn |-> Dn, cp |-> Cp, ls |-> Ls,
   stat |-> Stat, tail |-> TailTool, wr |-> Wr, mkdir |-> Mkdir, rm |-> Rm, sys |-> Sys, sysNet |-> SysNet,
   svcShow |-> SvcShow, svcChange |-> SvcChange, facts |-> FactsTool, shot |-> Shot,
   forward |-> Forward]
Tools == DOMAIN Handler

ASSUME HandlerAssumption == \A c \in Calls : ToolsOf[c] \subseteq Tools

AtStep(c, do) ==
  outcome[c] = "running" /\ pc[c] <= Len(Handler[tool[c]]) /\ Handler[tool[c]][pc[c]].do = do
Current(c) == Handler[tool[c]][pc[c]]

(* The host and the path a step is about. *)
Place(c) == input[c][Current(c).side]

-----------------------------------------------------------------------------
(* Guards (guards.rs).                                                     *)

(* A host with its own block ignores the default one. *)
ForHost(i, h) == IF h \in DOMAIN GuardSets[i].byHost THEN GuardSets[i].byHost[h]
                                                     ELSE GuardSets[i].default

(* deny first, then read_only, then confirm. *)
Check(g, cmd) ==
  IF cmd \in g.deny \/ (g.readOnly /\ cmd \in Writeful) THEN "deny"
  ELSE IF cmd \in g.ask THEN "ask" ELSE "allow"

CheckSftp(g, access, path) == ~(access = "write" /\ g.readOnly) /\ path \notin SensitivePaths

(* Variant: the allowlist is looked at first. *)
CheckLocalAllowFirst(g, local) == local \in g.allow \/ local \notin SensitiveLocals \cup Owned

(* The server's own files first: no allowlist entry opens them. *)
CheckLocal(g, local) == local \notin Owned /\ (local \in g.allow \/ local \notin SensitiveLocals)

-----------------------------------------------------------------------------
(* How a step ends.                                                        *)

Keep(c) == UNCHANGED <<tool, input, since>>
Go(c) ==
  /\ pc' = [pc EXCEPT ![c] = @ + 1]
  /\ seen' = IF Current(c).do = "resolve" THEN [seen EXCEPT ![c][Current(c).side] = links] ELSE seen
  /\ outcome' = [outcome EXCEPT ![c] = IF pc[c] = Len(Handler[tool[c]]) THEN "ok" ELSE @]
  /\ Keep(c)
Stop(c, how) == outcome' = [outcome EXCEPT ![c] = how] /\ UNCHANGED <<pc, seen>> /\ Keep(c)
Write(c, what) == log' = [log EXCEPT ![c] = Append(@, what)]
Block(c) == Stop(c, "blocked") /\ Write(c, "blocked")
Pass(c) == Go(c) /\ UNCHANGED log

(* Calls start at any time, with arguments of any kind. *)
Start(c) ==
  /\ outcome[c] = "idle"
  /\ \E t \in ToolsOf[c] : \E in \in InputsOf[t] :
        tool' = [tool EXCEPT ![c] = t] /\ input' = [input EXCEPT ![c] = in]
  /\ outcome' = [outcome EXCEPT ![c] = "running"]
  /\ since' = [since EXCEPT ![c] = guards]
  /\ UNCHANGED <<world, facts, ports, pc, log, seen>>

GuardPath(c) ==
  /\ AtStep(c, "guard")
  /\ LET ok == CheckSftp(ForHost(guards, Place(c).host), Current(c).access, Place(c).path)
     IN (ok /\ Pass(c)) \/ (~ok /\ Block(c))
  /\ UNCHANGED <<world, facts, ports>>

(* `guard_resolved`: a path that cannot be resolved is refused, one that   *)
(* resolves to itself was checked already.                                 *)
ResolvePath(c) ==
  /\ AtStep(c, "resolve")
  /\ LET real == Targets[links][Place(c).path]
         ok == \/ real = Place(c).path
               \/ CheckSftp(ForHost(guards, Place(c).host), Current(c).access, real)
     IN (ok /\ Pass(c)) \/ Block(c)
  /\ UNCHANGED <<world, facts, ports>>

GuardCommand(c) ==
  /\ AtStep(c, "command")
  /\ LET verdict == Check(ForHost(guards, Place(c).host), input[c].cmd) IN
     \/ verdict # "deny" /\ Pass(c)                  \* allowed, or approved
     \/ verdict # "allow" /\ Block(c)                \* denied, by the guards or the user
     \/ verdict = "ask" /\ Stop(c, "deferred") /\ UNCHANGED log
  /\ UNCHANGED <<world, facts, ports>>

(* A recursive delete is asked about every time; a refusal is not recorded.*)
AskPrompt(c) ==
  /\ AtStep(c, "prompt")
  /\ \/ Pass(c)
     \/ input[c].recursive /\ Stop(c, "denied") /\ UNCHANGED log
     \/ input[c].recursive /\ Stop(c, "deferred") /\ UNCHANGED log
  /\ UNCHANGED <<world, facts, ports>>

DoConnect(c) ==
  /\ AtStep(c, "connect")
  /\ \/ Pass(c)
     \/ /\ Stop(c, "error")
        /\ IF Current(c).access = "recorded" THEN Write(c, "failed") ELSE UNCHANGED log
  /\ UNCHANGED <<world, facts, ports>>

GuardLocal(c) ==
  /\ AtStep(c, "local")
  /\ LET ok == CheckLocal(ForHost(guards, Place(c).host), input[c].local)
     IN (ok /\ Pass(c)) \/ (~ok /\ Block(c))
  /\ UNCHANGED <<world, facts, ports>>

(* An SFTP operation, or a command that is not the caller's own.  SFTP is  *)
(* given the path by name: it follows the links as they are by then.       *)
DoEffect(c) ==
  /\ AtStep(c, "effect")
  /\ Pass(c) \/ (Stop(c, "error") /\ UNCHANGED log)
  /\ UNCHANGED <<world, facts, ports>>

DoRun(c) ==
  /\ AtStep(c, "run")
  /\ Pass(c) \/ (Stop(c, "error") /\ Write(c, "failed"))
  /\ UNCHANGED <<world, facts, ports>>

(* `host_facts`: the cached profile, or a connection and a probe. *)
GetFacts(c) ==
  /\ AtStep(c, "facts")
  /\ LET h == Place(c).host IN
     \/ h \in facts /\ Pass(c) /\ UNCHANGED facts
     \/ h \notin facts /\ Pass(c) /\ facts' = facts \cup {h}
     \/ /\ h \notin facts \/ tool[c] = "facts"     \* it may be told to `refresh`
        /\ Stop(c, "error") /\ UNCHANGED <<log, facts>>
  /\ UNCHANGED <<world, ports>>

(* Equal digests, digests that could not be taken, or a mismatch. *)
DoVerify(c) ==
  /\ AtStep(c, "verify")
  /\ Pass(c) \/ (Stop(c, "error") /\ Write(c, "blocked"))
  /\ UNCHANGED <<world, facts, ports>>

WriteRecord(c) ==
  /\ AtStep(c, "record")
  /\ Go(c) /\ Write(c, "ok")
  /\ UNCHANGED <<world, facts, ports>>

-----------------------------------------------------------------------------
(* Local forwards (tools/net.rs, forward.rs).                              *)

CheckPort(c) ==
  /\ AtStep(c, "port")
  /\ \/ forwards[input[c].port] = NoOne /\ Pass(c)
     \/ forwards[input[c].port] # NoOne /\ Stop(c, "error") /\ UNCHANGED log
  /\ UNCHANGED <<world, facts, ports>>

(* Variant: the handle is entered before the listener is bound. *)
ListenEntersFirst(c) ==
  /\ AtStep(c, "listen")
  /\ forwards' = [forwards EXCEPT ![input[c].port] = c]
  /\ \/ /\ listener[input[c].port] = NoOne /\ Pass(c)
        /\ listener' = [listener EXCEPT ![input[c].port] = c]
     \/ listener[input[c].port] # NoOne /\ Stop(c, "error") /\ UNCHANGED <<log, listener>>
  /\ UNCHANGED <<world, facts, aborted>>

(* `forward::start` binds, spawns the accept loop and returns its handle,  *)
(* which is entered with no await in between.  A port is one that was      *)
(* asked for: `local = 0` lets the system choose, and of two such forwards *)
(* at once the later entry replaces the earlier (Ports has no port 0).     *)
ListenOn(c) ==
  /\ AtStep(c, "listen")
  /\ \/ /\ listener[input[c].port] = NoOne /\ Pass(c)
        /\ listener' = [listener EXCEPT ![input[c].port] = c]
        /\ forwards' = [forwards EXCEPT ![input[c].port] = c]
     \/ listener[input[c].port] # NoOne /\ Stop(c, "error") /\ UNCHANGED <<log, listener, forwards>>
  /\ UNCHANGED <<world, facts, aborted>>

(* `unforward` takes the entry and aborts its accept loop; the socket is   *)
(* closed when the runtime drops the aborted task.                         *)
Unforward(p) ==
  /\ forwards[p] # NoOne
  /\ forwards' = [forwards EXCEPT ![p] = NoOne]
  /\ aborted' = aborted \cup {forwards[p]}
  /\ UNCHANGED <<world, facts, listener, tool, input, pc, outcome, log, since, seen>>

(* The loop of an aborted forward is dropped; that of any other ends when  *)
(* `accept` fails, and its entry stays.                                    *)
LoopEnds(p) ==
  /\ listener[p] # NoOne
  /\ listener' = [listener EXCEPT ![p] = NoOne]
  /\ UNCHANGED <<world, facts, forwards, aborted, tool, input, pc, outcome, log, since, seen>>

-----------------------------------------------------------------------------
(* What changes meanwhile.                                                 *)

still == <<facts, ports, tool, input, pc, outcome, log, since, seen>>
Reload == guards < Len(GuardSets) /\ guards' = guards + 1 /\ UNCHANGED <<links, still>>
Relink == links < Len(Targets) /\ links' = links + 1 /\ UNCHANGED <<guards, still>>

(* Calls before these may have left any profile in the cache. *)
Init ==
  /\ guards = 1 /\ links = 1 /\ facts \in SUBSET Hosts
  /\ forwards = [p \in Ports |-> NoOne] /\ listener = [p \in Ports |-> NoOne]
  /\ aborted = {}
  /\ tool = [c \in Calls |-> CHOOSE t \in ToolsOf[c] : TRUE]
  /\ input = [c \in Calls |-> CHOOSE in \in InputsOf[tool[c]] : TRUE]
  /\ pc = [c \in Calls |-> 1]
  /\ outcome = [c \in Calls |-> "idle"]
  /\ log = [c \in Calls |-> <<>>]
  /\ since = [c \in Calls |-> 1]
  /\ seen = [c \in Calls |-> [s \in Sides |-> NotResolved]]

Next ==
  \/ \E c \in Calls :
       \/ Start(c) \/ GuardPath(c) \/ ResolvePath(c) \/ GuardCommand(c) \/ AskPrompt(c)
       \/ DoConnect(c) \/ GuardLocal(c) \/ DoEffect(c) \/ DoRun(c) \/ GetFacts(c)
       \/ DoVerify(c) \/ WriteRecord(c) \/ CheckPort(c) \/ ListenOn(c)
  \/ \E p \in Ports : Unforward(p) \/ LoopEnds(p)
  \/ Reload \/ Relink

Spec == Init /\ [][Next]_vars

-----------------------------------------------------------------------------
(* The guard sets in force at some moment since the call started. *)
SetsOf(c) == since[c]..guards

Touching(c, accesses) == (AtStep(c, "effect") \/ AtStep(c, "run")) /\ Current(c).access \in accesses

(* "SFTP follows symlinks, so `ln -s /etc/shadow /tmp/s` would otherwise   *)
(* launder a blocked read through a harmless-looking string" (mod.rs 91):  *)
(* when a file tool touches a path, the path as given was allowed, on its  *)
(* host and for that access, by a guard set in force during the call; and  *)
(* so is what it resolves to at that moment, unless the links moved after  *)
(* the tool had it resolved: what it resolved to then was allowed.  `tail` *)
(* once had no such check (files.rs 729).                                  *)
PathsCleared ==
  \A c \in Calls : Touching(c, {"read", "write"}) =>
     LET Allowed(path) == \E i \in SetsOf(c) :
           CheckSftp(ForHost(i, Place(c).host), Current(c).access, path)
         then == seen[c][Current(c).side]
     IN /\ Allowed(Place(c).path)
        /\ \/ Allowed(Targets[links][Place(c).path])
           \/ then \in 1..(links - 1) /\ Allowed(Targets[then][Place(c).path])

(* A host that stays read-only while a call runs is not changed by it,     *)
(* neither by SFTP nor by a command: except that `shot` makes and removes  *)
(* its capture under /tmp on any host (visual.rs 148, 181).                *)
ReadOnlyUnchanged ==
  \A c \in Calls :
     \/ Touching(c, {"write", "scratch"})
     \/ Touching(c, {"command"}) /\ input[c].cmd \in Writeful
     => \/ \E i \in SetsOf(c) : ~ForHost(i, Place(c).host).readOnly
        \/ tool[c] = "shot" /\ Touching(c, {"scratch"})

(* "Neither direction is ever open to a tool call" (guards.rs 208): the    *)
(* server's own files are never read by `up` nor written by `dn` or        *)
(* `shot`, whatever the allowlists cover.                                  *)
OwnFilesClosed ==
  \A c \in Calls : (AtStep(c, "effect") /\ tool[c] \in {"up", "dn", "shot"}) => input[c].local \notin Owned

(* A call that changed a host and succeeded, or that a guard refused, left *)
(* exactly one record saying so; no call leaves two (audit.rs, README 120).*)
Changing == {"exec", "batch", "sh", "up", "cp", "wr", "mkdir", "rm", "svcChange", "shot", "forward"}
RecordedOnce ==
  \A c \in Calls :
     /\ outcome[c] = "ok" /\ tool[c] \in Changing => log[c] = <<"ok">>
     /\ outcome[c] = "blocked" => log[c] = <<"blocked">>
     /\ Len(log[c]) <= 1

(* `forwards` and `unforward` reach every accept loop that runs: a bound   *)
(* port is held by the call its entry names or by a loop already told to   *)
(* stop, however `forward` calls on one port and `unforward` overlap and   *)
(* whichever of them fail (net.rs 55-75, forward.rs 29).                   *)
ListenersReachable ==
  \A p \in Ports : listener[p] # NoOne => forwards[p] = listener[p] \/ listener[p] \in aborted
=============================================================================
