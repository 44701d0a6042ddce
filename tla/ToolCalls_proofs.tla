--------------------------- MODULE ToolCalls_proofs ---------------------------
(***************************************************************************)
(* Proofs about ToolCalls, for every number of calls, guard sets, paths    *)
(* and states of the hosts' files.                                         *)
(***************************************************************************)
EXTENDS ToolCalls, TLAPS

-----------------------------------------------------------------------------
(* What the handlers' orders of steps have in common. *)

Touches(s) == s.do \in {"effect", "run"}

(* A path is touched only after a guard and a resolution for that access.  *)
PathsFirst(h) ==
  \A n \in 1..Len(h) : Touches(h[n]) /\ h[n].access \in {"read", "write"} =>
     /\ \E m \in 1..(n - 1) : h[m] = Guard(h[n].access, h[n].side)
     /\ \E m \in 1..(n - 1) : h[m] = Resolve(h[n].access, h[n].side)

(* A command of the caller's runs only after `run_guards`. *)
CommandFirst(h) ==
  \A n \in 1..Len(h) : Touches(h[n]) /\ h[n].access = "command" =>
     h[n].side = "to" /\ \E m \in 1..(n - 1) : h[m] = Command

(* Once the record is written, nothing is left that would write another.   *)
RecordLast(h) ==
  \A m, n \in 1..Len(h) : h[m].do = "record" /\ m < n => h[n].do = "effect"

(* A path is resolved once. *)
ResolvedOnce(h) ==
  \A m, n \in 1..Len(h) : h[m].do = "resolve" /\ h[n].do = "resolve" =>
     h[m].side \in Sides /\ (h[m].side = h[n].side => m = n)

Ordered(h) == Len(h) \in Nat /\ PathsFirst(h) /\ CommandFirst(h) /\ RecordLast(h) /\ ResolvedOnce(h)

LocalFirst(h) ==
  \A n \in 1..Len(h) : h[n].do = "effect" => \E m \in 1..(n - 1) : h[m].do = "local"

LEMMA HandlersOrdered == \A t \in Tools : Ordered(Handler[t])
<1> USE DEF Ordered, PathsFirst, CommandFirst, RecordLast, ResolvedOnce, Touches, Sides,
            Step, Guard, Resolve, Effect, Run, Query, Scratch, Command, Prompt, Connect, ConnectRec,
            LocalRead, LocalWrite, Facts, Verify, FreePort, Listen, Record
<1>1. Ordered(Exec) /\ Ordered(Batch) /\ Ordered(Shell)
  BY DEF Exec, Batch, Shell
<1>2. Ordered(Up) /\ Ordered(Dn)
  BY DEF Up, Dn
<1>3. Ordered(Cp)
  BY DEF Cp
<1>4. Ordered(Look) /\ Ordered(Change) /\ Ordered(Rm)
  BY DEF Look, Change, Rm
<1>5. Ordered(Sys) /\ Ordered(SysNet) /\ Ordered(SvcShow) /\ Ordered(SvcChange)
  BY DEF Sys, SysNet, SvcShow, SvcChange
<1>6. Ordered(FactsTool) /\ Ordered(Shot) /\ Ordered(Forward)
  BY DEF FactsTool, Shot, Forward
<1> QED
  <2> HIDE DEF Ordered
  <2> QED BY <1>1, <1>2, <1>3, <1>4, <1>5, <1>6 DEF Tools, Handler, Ls, Stat, TailTool, Wr, Mkdir

LEMMA LocalsOrdered == \A t \in {"up", "dn", "shot"} : LocalFirst(Handler[t])
<1> USE DEF LocalFirst, Step, Guard, Resolve, Effect, Query, Scratch, Connect, LocalRead, LocalWrite, Facts, Record
<1>1. LocalFirst(Up) /\ LocalFirst(Dn) /\ LocalFirst(Shot)
  BY DEF Up, Dn, Shot
<1> QED
  <2> HIDE DEF LocalFirst
  <2> QED BY <1>1 DEF Handler

LEMMA ChangesRecorded == \A t \in Changing : \E n \in 1..Len(Handler[t]) : Handler[t][n].do = "record"
<1> DEFINE Recorded(h) == \E n \in 1..Len(h) : h[n].do = "record"
<1> USE DEF Record, Step
<1>1. Recorded(Exec) /\ Recorded(Batch) /\ Recorded(Shell) /\ Recorded(Up) /\ Recorded(Cp)
  BY DEF Exec, Batch, Shell, Up, Cp
<1>2. Recorded(Change) /\ Recorded(Rm) /\ Recorded(SvcChange) /\ Recorded(Forward)
  BY DEF Change, Rm, SvcChange, Forward
<1>4. Recorded(Shot)
  BY DEF Shot
<1> HIDE DEF Recorded
<1>3. \A t \in Changing : Recorded(Handler[t])
  BY <1>1, <1>2, <1>4 DEF Changing, Handler, Wr, Mkdir
<1> QED BY <1>3 DEF Recorded

(* Only `shot` works on a temporary file of its own.                       *)
LEMMA ScratchOfShot ==
  \A t \in Tools : \A n \in 1..Len(Handler[t]) : Handler[t][n].access = "scratch" => t = "shot"
<1> DEFINE Clean(h) == \A n \in 1..Len(h) : h[n].access # "scratch"
<1> USE DEF Step, Guard, Resolve, Effect, Run, Query, Command, Prompt, Connect, ConnectRec,
            LocalRead, LocalWrite, Facts, Verify, FreePort, Listen, Record
<1>1. Clean(Exec) /\ Clean(Batch) /\ Clean(Shell)
  BY DEF Exec, Batch, Shell
<1>2. Clean(Up) /\ Clean(Dn)
  BY DEF Up, Dn
<1>3. Clean(Cp)
  BY DEF Cp
<1>4. Clean(Look) /\ Clean(Change) /\ Clean(Rm)
  BY DEF Look, Change, Rm
<1>5. Clean(Sys) /\ Clean(SysNet) /\ Clean(SvcShow) /\ Clean(SvcChange)
  BY DEF Sys, SysNet, SvcShow, SvcChange
<1>6. Clean(FactsTool) /\ Clean(Forward)
  BY DEF FactsTool, Forward
<1> HIDE DEF Clean
<1>7. \A t \in Tools \ {"shot"} : Clean(Handler[t])
  BY <1>1, <1>2, <1>3, <1>4, <1>5, <1>6 DEF Tools, Handler, Ls, Stat, TailTool, Wr, Mkdir
<1> QED BY <1>7 DEF Clean

-----------------------------------------------------------------------------
(* The invariant. *)

Outcomes == {"idle", "running", "ok", "blocked", "denied", "deferred", "error"}

CallTypes ==
  /\ guards \in Nat /\ links \in Nat \ {0}
  /\ tool = [c \in Calls |-> tool[c]] /\ input = [c \in Calls |-> input[c]]
  /\ pc \in [Calls -> Nat \ {0}]
  /\ outcome \in [Calls -> Outcomes]
  /\ log \in [Calls -> {<<>>, <<"ok">>, <<"blocked">>, <<"failed">>}]
  /\ since \in [Calls -> Nat] /\ seen \in [Calls -> [Sides -> Nat]]
PortTypes == forwards = [p \in Ports |-> forwards[p]] /\ listener = [p \in Ports |-> listener[p]]

(* What a step says of the call once it has passed, its path having been   *)
(* resolved in the state `at` of the links.                                *)
Clear(c, s, at) ==
  LET place == input[c][s.side] IN
  /\ s.do = "guard" =>
       \E i \in SetsOf(c) : CheckSftp(ForHost(i, place.host), s.access, place.path)
  /\ s.do = "resolve" =>
       /\ at \in 1..links
       /\ \/ Targets[at][place.path] = place.path
          \/ \E i \in SetsOf(c) : CheckSftp(ForHost(i, place.host), s.access, Targets[at][place.path])
  /\ s.do = "command" => \E i \in SetsOf(c) : Check(ForHost(i, place.host), input[c].cmd) # "deny"
  /\ s.do = "local" => input[c].local \notin Owned
Cleared(c, s) == Clear(c, s, seen[c][s.side])

Behind(c) == 1..(pc[c] - 1)
RecordBehind(c) == \E m \in Behind(c) : Handler[tool[c]][m].do = "record"

Cautious(c) ==
  /\ outcome[c] = "idle" => pc[c] = 1 /\ log[c] = <<>>
  /\ outcome[c] # "idle" => tool[c] \in Tools /\ since[c] <= guards
  /\ outcome[c] = "running" =>
       \A m \in Behind(c) : m <= Len(Handler[tool[c]]) /\ Cleared(c, Handler[tool[c]][m])
  /\ outcome[c] \in {"running", "ok"} => log[c] = IF RecordBehind(c) THEN <<"ok">> ELSE <<>>
  /\ outcome[c] = "ok" => pc[c] = Len(Handler[tool[c]]) + 1
  /\ outcome[c] = "blocked" => log[c] = <<"blocked">>

IInv == CallTypes /\ PortTypes /\ (\A c \in Calls : Cautious(c)) /\ ListenersReachable

(* A call that does not move keeps what it has: guard sets and states of   *)
(* the files only join those it has seen.                                  *)
LEMMA OthersKeepCautious ==
  ASSUME CallTypes, NEW c \in Calls, Cautious(c), guards' \in Nat, guards <= guards',
         links' \in Nat, links <= links', tool'[c] = tool[c], input'[c] = input[c],
         pc'[c] = pc[c], outcome'[c] = outcome[c], log'[c] = log[c], since'[c] = since[c], seen'[c] = seen[c]
  PROVE  Cautious(c)'
<1>1. since[c] \in Nat
  BY DEF CallTypes
<1>2. SetsOf(c) \subseteq SetsOf(c)' /\ 1..links \subseteq 1..links'
  BY <1>1 DEF SetsOf, CallTypes
<1>3. ASSUME NEW s, Cleared(c, s) PROVE Cleared(c, s)'
  BY <1>2, <1>3 DEF Cleared, Clear
<1>4. RecordBehind(c)' <=> RecordBehind(c)
  BY DEF RecordBehind, Behind
<1>5. outcome'[c] # "idle" => since'[c] <= guards'
  BY <1>1 DEF Cautious, CallTypes
<1> QED BY <1>3, <1>4, <1>5 DEF Cautious, Behind

-----------------------------------------------------------------------------
(* The ways a step of a call ends. *)

Alone(c) ==
  /\ UNCHANGED <<world, tool, input, since>>
  /\ \A d \in Calls \ {c} : /\ pc'[d] = pc[d] /\ outcome'[d] = outcome[d]
                            /\ log'[d] = log[d] /\ seen'[d] = seen[d]

LEMMA GoOn ==
  ASSUME CallTypes, NEW c \in Calls, Cautious(c), outcome[c] = "running", UNCHANGED world,
         pc[c] <= Len(Handler[tool[c]]), Clear(c, Current(c), links), Go(c),
         \/ Current(c).do # "record" /\ UNCHANGED log
         \/ Current(c).do = "record" /\ Write(c, "ok")
  PROVE  Cautious(c)' /\ Alone(c) /\ CallTypes'
<1> DEFINE h == Handler[tool[c]]
<1>0. Ordered(h) /\ pc[c] \in Nat \ {0} /\ Len(h) \in Nat /\ guards' = guards /\ links' = links
      /\ UNCHANGED <<tool, input, since>>
  BY HandlersOrdered DEF Cautious, CallTypes, Ordered, world, Go, Keep
<1>1. pc'[c] = pc[c] + 1 /\ pc' \in [Calls -> Nat \ {0}] /\ \A d \in Calls \ {c} : pc'[d] = pc[d]
  BY <1>0 DEF Go, CallTypes
<1>2. /\ outcome'[c] = IF pc[c] = Len(h) THEN "ok" ELSE "running"
      /\ outcome' \in [Calls -> Outcomes]
      /\ \A d \in Calls \ {c} : outcome'[d] = outcome[d]
  BY DEF Go, CallTypes, Outcomes
<1>3. Behind(c)' = Behind(c) \cup {pc[c]} /\ Behind(c) \subseteq 1..Len(h)
  BY <1>0, <1>1 DEF Behind
<1>9. /\ \A d \in Calls \ {c} : seen'[d] = seen[d]
      /\ seen' \in [Calls -> [Sides -> Nat]]
      /\ h[pc[c]].do = "resolve" => seen'[c][h[pc[c]].side] = links
      /\ \A m \in Behind(c) : h[m].do = "resolve" => seen'[c][h[m].side] = seen[c][h[m].side]
  <2>1. CASE h[pc[c]].do = "resolve"
    <3>1. seen' = [seen EXCEPT ![c][h[pc[c]].side] = links] /\ h[pc[c]].side \in Sides /\ links \in Nat
      <4>1. seen' = [seen EXCEPT ![c][h[pc[c]].side] = links] /\ links \in Nat
        BY <2>1 DEF Go, Current, CallTypes
      <4>2. ResolvedOnce(h) /\ pc[c] \in 1..Len(h)
        BY <1>0 DEF Ordered
      <4> QED BY <2>1, <4>1, <4>2 DEF ResolvedOnce
    <3>2. \A m \in Behind(c) : h[m].do = "resolve" => h[m].side # h[pc[c]].side
      BY <1>0, <1>3, <2>1 DEF Ordered, ResolvedOnce, Behind
    <3> QED BY <3>1, <3>2 DEF CallTypes
  <2>2. CASE h[pc[c]].do # "resolve"
    BY <2>2 DEF Go, Current, CallTypes
  <2> QED BY <2>1, <2>2
<1>4. UNCHANGED <<guards, links, tool, input, since>> /\ SetsOf(c)' = SetsOf(c)
  BY <1>0 DEF SetsOf
<1>10. ASSUME NEW s, NEW at, Clear(c, s, at), s.do = "resolve" => seen'[c][s.side] = at
       PROVE  Cleared(c, s)'
  BY <1>4, <1>10 DEF Cleared, Clear
<1>5. \A m \in Behind(c)' : m <= Len(h) /\ Cleared(c, h[m])'
  <2>1. ASSUME NEW m \in Behind(c) PROVE Cleared(c, h[m])'
    <3>1. Clear(c, h[m], seen[c][h[m].side])
      BY DEF Cautious, Cleared
    <3>2. PICK s : s = h[m]
      OBVIOUS
    <3>3. s.do = "resolve" => seen'[c][s.side] = seen[c][s.side]
      BY <1>9, <3>2
    <3>4. Cleared(c, s)'
      BY <1>10, <3>1, <3>2, <3>3
    <3>5. s = h[m]'
      BY <1>4, <3>2
    <3> QED BY <3>4, <3>5 DEF Cleared, Clear
  <2>2. ASSUME NEW n, n = pc[c] PROVE Cleared(c, h[n])'
    <3>1. PICK s : s = h[n]
      OBVIOUS
    <3>2. Clear(c, s, links) /\ (s.do = "resolve" => seen'[c][s.side] = links)
      BY <1>9, <2>2, <3>1 DEF Current
    <3>3. Cleared(c, s)'
      BY <1>10, <3>2
    <3>4. s = h[n]'
      BY <1>4, <3>1
    <3> QED BY <3>3, <3>4 DEF Cleared, Clear
  <2> QED BY <1>0, <1>3, <1>4, <2>1, <2>2
<1>6. log[c] = IF RecordBehind(c) THEN <<"ok">> ELSE <<>>
  BY DEF Cautious
<1>7. CASE Current(c).do # "record" /\ UNCHANGED log
  <2>1. RecordBehind(c)' <=> RecordBehind(c)
    BY <1>0, <1>3, <1>7 DEF RecordBehind, Current
  <2> QED BY <1>0, <1>1, <1>2, <1>5, <1>6, <1>7, <1>9, <2>1 DEF Cautious, Alone, CallTypes, world
<1>8. CASE Current(c).do = "record" /\ Write(c, "ok")
  <2>1. RecordBehind(c)'
    BY <1>0, <1>3, <1>8 DEF RecordBehind, Current
  <2>2. ~RecordBehind(c)
    <3>1. \A m \in Behind(c) : h[m].do = "record" => h[pc[c]].do = "effect"
      BY <1>0, <1>3 DEF Ordered, RecordLast, Behind
    <3> QED BY <1>8, <3>1 DEF RecordBehind, Current
  <2>3. log'[c] = <<"ok">> /\ \A d \in Calls \ {c} : log'[d] = log[d]
    BY <1>6, <1>8, <2>2 DEF Write, CallTypes
  <2>4. log' \in [Calls -> {<<>>, <<"ok">>, <<"blocked">>, <<"failed">>}]
    BY <1>6, <1>8, <2>2, <2>3 DEF Write, CallTypes
  <2> QED BY <1>0, <1>1, <1>2, <1>5, <1>8, <1>9, <2>1, <2>3, <2>4 DEF Cautious, Alone, CallTypes, world
<1> QED BY <1>7, <1>8

(* A call that has a step ahead other than its record or what follows it   *)
(* has written nothing. *)
LEMMA NothingYet ==
  ASSUME CallTypes, NEW c \in Calls, Cautious(c), outcome[c] = "running",
         pc[c] <= Len(Handler[tool[c]]), Current(c).do # "effect"
  PROVE  log[c] = <<>>
<1> DEFINE h == Handler[tool[c]]
<1>1. Ordered(h) /\ pc[c] \in Nat \ {0}
  BY HandlersOrdered DEF Cautious, CallTypes
<1>2. \A m \in Behind(c) : h[m].do = "record" => h[pc[c]].do = "effect"
  BY <1>1 DEF Ordered, RecordLast, Behind
<1> QED BY <1>2 DEF Cautious, RecordBehind, Current

LEMMA StopHere ==
  ASSUME CallTypes, NEW c \in Calls, Cautious(c), outcome[c] = "running", UNCHANGED world,
         pc[c] <= Len(Handler[tool[c]]),
         NEW how \in {"blocked", "denied", "deferred", "error"}, Stop(c, how),
         \/ UNCHANGED log /\ how # "blocked"
         \/ Write(c, "blocked") /\ how \in {"blocked", "error"} /\ Current(c).do # "effect"
         \/ Write(c, "failed") /\ how = "error" /\ Current(c).do # "effect"
  PROVE  Cautious(c)' /\ Alone(c) /\ CallTypes'
<1>1. /\ outcome'[c] = how /\ outcome' \in [Calls -> Outcomes] /\ pc' = pc
      /\ \A d \in Calls \ {c} : outcome'[d] = outcome[d]
      /\ UNCHANGED <<world, tool, input, since, seen, guards, links>>
  BY DEF Stop, Keep, CallTypes, Outcomes, world
<1>2. /\ how = "blocked" => log'[c] = <<"blocked">>
      /\ log' \in [Calls -> {<<>>, <<"ok">>, <<"blocked">>, <<"failed">>}]
      /\ \A d \in Calls \ {c} : log'[d] = log[d]
  <2>1. CASE UNCHANGED log /\ how # "blocked"
    BY <2>1 DEF CallTypes
  <2>2. ASSUME NEW w \in {"blocked", "failed"}, Write(c, w), Current(c).do # "effect",
               how = "blocked" => w = "blocked"
        PROVE  <1>2
    <3>1. log[c] = <<>>
      BY <2>2, NothingYet
    <3>2. Append(log[c], w) = <<w>>
      BY <3>1
    <3> QED BY <2>2, <3>2 DEF Write, CallTypes
  <2> QED BY <2>1, <2>2
<1> QED BY <1>1, <1>2 DEF Cautious, Alone, CallTypes, Outcomes

-----------------------------------------------------------------------------
(* The steps of a call. *)

LEMMA StartOK ==
  ASSUME CallTypes, NEW c \in Calls, Cautious(c), Start(c)
  PROVE  /\ Cautious(c)' /\ CallTypes' /\ UNCHANGED world
         /\ \A d \in Calls \ {c} : /\ tool'[d] = tool[d] /\ input'[d] = input[d] /\ pc'[d] = pc[d]
                                   /\ outcome'[d] = outcome[d] /\ log'[d] = log[d] /\ since'[d] = since[d]
                                   /\ seen'[d] = seen[d]
<1>1. PICK t \in ToolsOf[c] : \E in \in InputsOf[t] :
        tool' = [tool EXCEPT ![c] = t] /\ input' = [input EXCEPT ![c] = in]
  BY DEF Start
<1>2. t \in Tools /\ outcome[c] = "idle" /\ pc[c] = 1 /\ log[c] = <<>>
  BY <1>1, HandlerAssumption DEF Start, Cautious
<1>3. /\ outcome' = [outcome EXCEPT ![c] = "running"] /\ since' = [since EXCEPT ![c] = guards]
      /\ UNCHANGED <<guards, links, pc, log, seen>>
  BY DEF Start, world
<1>4. CallTypes'
  BY <1>1, <1>3 DEF CallTypes, Outcomes, world
<1>5. outcome'[c] = "running" /\ tool'[c] = t /\ since'[c] = guards
  BY <1>1, <1>3 DEF CallTypes
<1>6. Behind(c)' = {} /\ ~RecordBehind(c)'
  BY <1>2, <1>3 DEF Behind, RecordBehind
<1>7. Cautious(c)'
  BY <1>2, <1>3, <1>5, <1>6 DEF Cautious, CallTypes
<1> QED BY <1>1, <1>3, <1>4, <1>7 DEF CallTypes, world

(* What the guards in force now allow, a guard set of the call's allows.   *)
LEMMA NowCounts ==
  ASSUME CallTypes, NEW c \in Calls, Cautious(c), outcome[c] = "running"
  PROVE  guards \in SetsOf(c) /\ links \in 1..links
<1>1. since[c] \in Nat /\ since[c] <= guards
  BY DEF CallTypes, Cautious
<1> QED BY <1>1 DEF SetsOf, CallTypes

LEMMA GuardStepOK ==
  ASSUME CallTypes, NEW c \in Calls, Cautious(c),
         \/ GuardPath(c) \/ ResolvePath(c) \/ GuardCommand(c) \/ GuardLocal(c)
  PROVE  Cautious(c)' /\ Alone(c) /\ CallTypes'
<1>1. outcome[c] = "running" /\ pc[c] <= Len(Handler[tool[c]]) /\ UNCHANGED world
      /\ Current(c).do \notin {"effect", "record"}
  BY DEF GuardPath, ResolvePath, GuardCommand, GuardLocal, AtStep, Current, world
<1>2. \/ Clear(c, Current(c), links) /\ Pass(c)
      \/ Block(c)
      \/ Stop(c, "deferred") /\ UNCHANGED log
  <2>1. ASSUME GuardPath(c) PROVE <1>2
    BY <1>1, <2>1, NowCounts DEF GuardPath, AtStep, Current, Clear, Place
  <2>2. ASSUME ResolvePath(c) PROVE <1>2
    BY <1>1, <2>2, NowCounts DEF ResolvePath, AtStep, Current, Clear, Place
  <2>3. ASSUME GuardCommand(c) PROVE <1>2
    BY <1>1, <2>3, NowCounts DEF GuardCommand, AtStep, Current, Clear, Place
  <2>4. ASSUME GuardLocal(c) PROVE <1>2
    BY <1>1, <2>4 DEF GuardLocal, AtStep, Current, Clear, Place, CheckLocal
  <2> QED BY <2>1, <2>2, <2>3, <2>4
<1> QED BY <1>1, <1>2, GoOn, StopHere DEF Pass, Block

LEMMA OtherStepOK ==
  ASSUME CallTypes, NEW c \in Calls, Cautious(c),
         \/ AskPrompt(c) \/ DoConnect(c) \/ DoEffect(c) \/ DoRun(c) \/ GetFacts(c) \/ DoVerify(c)
         \/ WriteRecord(c) \/ CheckPort(c) \/ ListenOn(c)
  PROVE  Cautious(c)' /\ Alone(c) /\ CallTypes'
<1>1. outcome[c] = "running" /\ pc[c] <= Len(Handler[tool[c]]) /\ UNCHANGED world
      /\ Clear(c, Current(c), links)
  BY DEF AskPrompt, DoConnect, DoEffect, DoRun, GetFacts, DoVerify, WriteRecord, CheckPort, ListenOn,
         AtStep, Current, Clear, world
<1>2. CASE WriteRecord(c)
  BY <1>1, <1>2, GoOn DEF WriteRecord, AtStep, Current
<1>3. CASE AskPrompt(c) \/ DoEffect(c) \/ GetFacts(c) \/ CheckPort(c) \/ ListenOn(c)
  <2>1. \/ Pass(c) /\ Current(c).do # "record"
        \/ \E how \in {"denied", "deferred", "error"} : Stop(c, how) /\ UNCHANGED log
    BY <1>3 DEF AskPrompt, DoEffect, GetFacts, CheckPort, ListenOn, AtStep, Current
  <2> QED BY <1>1, <2>1, GoOn, StopHere DEF Pass
<1>4. CASE DoConnect(c) \/ DoRun(c) \/ DoVerify(c)
  <2>1. /\ Current(c).do \notin {"effect", "record"}
        /\ \/ Pass(c)
           \/ Stop(c, "error") /\ (UNCHANGED log \/ Write(c, "blocked") \/ Write(c, "failed"))
    BY <1>4 DEF DoConnect, DoRun, DoVerify, AtStep, Current
  <2> QED BY <1>1, <2>1, GoOn, StopHere DEF Pass
<1> QED BY <1>2, <1>3, <1>4

(* A bound port is held by the call its entry names, or by a loop told to  *)
(* stop: the entry only changes with the socket, or as it is told.         *)
LEMMA PortsOK ==
  ASSUME PortTypes, ListenersReachable, [Next]_vars
  PROVE  PortTypes' /\ ListenersReachable'
<1>1. CASE UNCHANGED ports
  BY <1>1 DEF PortTypes, ListenersReachable, ports
<1>2. ASSUME NEW c \in Calls, ListenOn(c) PROVE PortTypes' /\ ListenersReachable'
  BY <1>2 DEF ListenOn, PortTypes, ListenersReachable
<1>3. ASSUME NEW p \in Ports, Unforward(p) \/ LoopEnds(p) PROVE PortTypes' /\ ListenersReachable'
  BY <1>3 DEF Unforward, LoopEnds, PortTypes, ListenersReachable
<1>4. CASE \E c \in Calls : Start(c) \/ GuardPath(c) \/ ResolvePath(c) \/ GuardCommand(c) \/ AskPrompt(c)
             \/ DoConnect(c) \/ GuardLocal(c) \/ DoEffect(c) \/ DoRun(c) \/ GetFacts(c)
             \/ DoVerify(c) \/ WriteRecord(c) \/ CheckPort(c)
  BY <1>1, <1>4 DEF Start, GuardPath, ResolvePath, GuardCommand, AskPrompt, DoConnect, GuardLocal,
     DoEffect, DoRun, GetFacts, DoVerify, WriteRecord, CheckPort
<1> QED BY <1>1, <1>2, <1>3, <1>4 DEF Next, Reload, Relink, still, vars

LEMMA InitIInv == Init => IInv
<1> SUFFICES ASSUME Init PROVE IInv
  OBVIOUS
<1>1. CallTypes
  <2>1. tool = [c \in Calls |-> tool[c]]
    BY DEF Init
  <2>2. input = [c \in Calls |-> input[c]]
    <3> DEFINE Some(c) == CHOOSE in \in InputsOf[tool[c]] : TRUE
    <3>1. input = [c \in Calls |-> Some(c)]
      BY DEF Init
    <3> HIDE DEF Some
    <3> QED BY <3>1
  <2>3. pc \in [Calls -> Nat \ {0}] /\ guards \in Nat /\ links \in Nat \ {0}
        /\ since \in [Calls -> Nat] /\ seen \in [Calls -> [Sides -> Nat]]
    BY DEF Init, NotResolved
  <2>4. outcome \in [Calls -> Outcomes] /\ log \in [Calls -> {<<>>, <<"ok">>, <<"blocked">>, <<"failed">>}]
    BY DEF Init, Outcomes
  <2> QED BY <2>1, <2>2, <2>3, <2>4 DEF CallTypes
<1>3. PortTypes
  BY DEF Init, PortTypes
<1>2. \A c \in Calls : Cautious(c)
  BY DEF Init, Cautious
<1> QED BY <1>1, <1>2, <1>3 DEF Init, IInv, ListenersReachable

LEMMA NextKeepsIInv == IInv /\ [Next]_vars => IInv'
<1> SUFFICES ASSUME IInv, [Next]_vars PROVE IInv'
  OBVIOUS
<1>1. PortTypes' /\ ListenersReachable'
  BY PortsOK DEF IInv
<1> SUFFICES CallTypes' /\ \A c \in Calls : Cautious(c)'
  BY <1>1 DEF IInv
<1>2. ASSUME NEW c \in Calls, Start(c) PROVE CallTypes' /\ \A d \in Calls : Cautious(d)'
  <2>1. Cautious(c)' /\ CallTypes'
    BY <1>2, StartOK DEF IInv
  <2>2. ASSUME NEW d \in Calls \ {c} PROVE Cautious(d)'
    <3>1. guards' = guards /\ links' = links /\ guards \in Nat /\ links \in Nat
      BY <1>2, StartOK DEF IInv, CallTypes, world
    <3>2. /\ tool'[d] = tool[d] /\ input'[d] = input[d] /\ pc'[d] = pc[d]
          /\ outcome'[d] = outcome[d] /\ log'[d] = log[d] /\ since'[d] = since[d] /\ seen'[d] = seen[d]
      BY <1>2, StartOK DEF IInv
    <3> QED BY <3>1, <3>2, OthersKeepCautious DEF IInv
  <2> QED BY <2>1, <2>2
<1>3. ASSUME NEW c \in Calls, Cautious(c)' /\ Alone(c) /\ CallTypes'
      PROVE  CallTypes' /\ \A d \in Calls : Cautious(d)'
  <2>1. ASSUME NEW d \in Calls \ {c} PROVE Cautious(d)'
    <3>1. guards' = guards /\ links' = links /\ guards \in Nat /\ links \in Nat
      BY <1>3 DEF IInv, CallTypes, Alone, world
    <3>2. /\ tool'[d] = tool[d] /\ input'[d] = input[d] /\ pc'[d] = pc[d]
          /\ outcome'[d] = outcome[d] /\ log'[d] = log[d] /\ since'[d] = since[d] /\ seen'[d] = seen[d]
      BY <1>3 DEF Alone
    <3> QED BY <3>1, <3>2, OthersKeepCautious DEF IInv
  <2> QED BY <1>3, <2>1
<1>4. ASSUME NEW c \in Calls,
        \/ GuardPath(c) \/ ResolvePath(c) \/ GuardCommand(c) \/ GuardLocal(c)
        \/ AskPrompt(c) \/ DoConnect(c) \/ DoEffect(c) \/ DoRun(c) \/ GetFacts(c) \/ DoVerify(c)
        \/ WriteRecord(c) \/ CheckPort(c) \/ ListenOn(c)
      PROVE CallTypes' /\ \A d \in Calls : Cautious(d)'
  BY <1>3, <1>4, GuardStepOK, OtherStepOK DEF IInv
<1>5. CASE UNCHANGED <<tool, input, pc, outcome, log, since, seen>> /\ guards' \in Nat /\ guards <= guards'
           /\ links' \in Nat \ {0} /\ links <= links'
  <2>1. CallTypes'
    BY <1>5 DEF IInv, CallTypes
  <2> QED BY <1>5, <2>1, OthersKeepCautious DEF IInv
<1>6. CASE (\E p \in Ports : Unforward(p) \/ LoopEnds(p)) \/ UNCHANGED vars
  BY <1>5, <1>6 DEF IInv, CallTypes, Unforward, LoopEnds, world, vars
<1>7. CASE Reload \/ Relink
  BY <1>5, <1>7 DEF IInv, CallTypes, Reload, Relink, still
<1> QED BY <1>2, <1>4, <1>6, <1>7 DEF Next

LEMMA Inductive == Spec => []IInv
BY InitIInv, NextKeepsIInv, PTL DEF Spec

-----------------------------------------------------------------------------
(* The theorems. *)

(* When a file tool touches a path, the path as given was allowed by a     *)
(* guard set in force during the call, and so is what it resolves to then, *)
(* unless the links moved after the tool had it resolved, to what was      *)
(* allowed: with any number of reloads and of symlinks that move.          *)
THEOREM PathsAreCleared == Spec => []PathsCleared
<1>1. ASSUME IInv, NEW c \in Calls, Touching(c, {"read", "write"})
      PROVE  LET Allowed(path) == \E i \in SetsOf(c) :
                   CheckSftp(ForHost(i, Place(c).host), Current(c).access, path)
                 then == seen[c][Current(c).side]
             IN /\ Allowed(Place(c).path)
                /\ \/ Allowed(Targets[links][Place(c).path])
                   \/ then \in 1..(links - 1) /\ Allowed(Targets[then][Place(c).path])
  <2> DEFINE h == Handler[tool[c]]
             n == pc[c]
             Allowed(path) == \E i \in SetsOf(c) :
                   CheckSftp(ForHost(i, Place(c).host), Current(c).access, path)
             then == seen[c][Current(c).side]
  <2>1. Ordered(h) /\ n \in 1..Len(h) /\ Touches(h[n]) /\ h[n].access \in {"read", "write"}
        /\ outcome[c] = "running"
    BY <1>1, HandlersOrdered DEF IInv, CallTypes, Cautious, Touching, AtStep, Current, Touches
  <2>2. PICK m \in Behind(c) : h[m] = Guard(h[n].access, h[n].side)
    BY <2>1 DEF Ordered, PathsFirst, Behind
  <2>3. PICK k \in Behind(c) : h[k] = Resolve(h[n].access, h[n].side)
    BY <2>1 DEF Ordered, PathsFirst, Behind
  <2>4. Cleared(c, h[m]) /\ Cleared(c, h[k])
    BY <1>1, <2>1, <2>2, <2>3 DEF IInv, Cautious
  <2>5. Allowed(Place(c).path)
    <3>1. h[m].do = "guard" /\ h[m].access = Current(c).access /\ h[m].side = Current(c).side
      BY <2>2 DEF Guard, Step, Current
    <3> QED BY <2>4, <3>1 DEF Cleared, Clear, Place
  <2>6. then \in 1..links /\ Allowed(Targets[then][Place(c).path])
    <3>1. h[k].do = "resolve" /\ h[k].access = Current(c).access /\ h[k].side = Current(c).side
      BY <2>3 DEF Resolve, Step, Current
    <3>2. /\ then \in 1..links
          /\ Targets[then][Place(c).path] = Place(c).path \/ Allowed(Targets[then][Place(c).path])
      BY <2>4, <3>1 DEF Cleared, Clear, Place
    <3> QED BY <2>5, <3>2
  <2>7. then = links \/ then \in 1..(links - 1)
    BY <1>1, <2>6 DEF IInv, CallTypes
  <2> QED BY <2>5, <2>6, <2>7
<1>2. IInv => PathsCleared
  BY <1>1 DEF PathsCleared
<1> QED BY <1>2, Inductive, PTL

(* A host that stays read-only while a call runs is not changed by it,     *)
(* whichever of the tools it is, but for the capture `shot` makes and      *)
(* removes under /tmp.                                                     *)
THEOREM ReadOnlyIsKept == Spec => []ReadOnlyUnchanged
<1>1. ASSUME IInv, NEW c \in Calls,
             \/ Touching(c, {"write"})
             \/ Touching(c, {"command"}) /\ input[c].cmd \in Writeful
      PROVE  \E i \in SetsOf(c) : ~ForHost(i, Place(c).host).readOnly
  <2> DEFINE h == Handler[tool[c]]
             n == pc[c]
  <2>1. Ordered(h) /\ n \in 1..Len(h) /\ Touches(h[n]) /\ outcome[c] = "running"
    BY <1>1, HandlersOrdered DEF IInv, CallTypes, Cautious, Touching, AtStep, Current, Touches
  <2>2. CASE h[n].access = "write"
    <3>1. PICK m \in Behind(c) : h[m] = Guard("write", h[n].side)
      BY <2>1, <2>2 DEF Ordered, PathsFirst, Behind
    <3>2. Cleared(c, h[m])
      BY <1>1, <2>1, <3>1 DEF IInv, Cautious
    <3>3. h[m].do = "guard" /\ h[m].access = "write" /\ h[m].side = Current(c).side
      BY <3>1 DEF Guard, Step, Current
    <3> QED BY <3>2, <3>3 DEF Cleared, Clear, Place, CheckSftp
  <2>3. CASE h[n].access = "command" /\ input[c].cmd \in Writeful
    <3>1. h[n].side = "to" /\ \E m \in Behind(c) : h[m] = Command
      BY <2>1, <2>3 DEF Ordered, CommandFirst, Behind
    <3>2. PICK m \in Behind(c) : h[m] = Command
      BY <3>1
    <3>3. Cleared(c, h[m])
      BY <1>1, <2>1, <3>2 DEF IInv, Cautious
    <3> QED BY <2>3, <3>1, <3>2, <3>3 DEF Cleared, Clear, Command, Step, Place, Current, Check
  <2> QED BY <1>1, <2>2, <2>3 DEF Touching, Current
<1>2. ASSUME IInv, NEW c \in Calls, Touching(c, {"scratch"}) PROVE tool[c] = "shot"
  <2>1. tool[c] \in Tools /\ Current(c).access = "scratch" /\ pc[c] <= Len(Handler[tool[c]])
    BY <1>2 DEF IInv, Cautious, Touching, AtStep
  <2>2. pc[c] \in 1..Len(Handler[tool[c]])
    BY <1>2, <2>1, HandlersOrdered DEF IInv, CallTypes, Ordered
  <2> QED BY <2>1, <2>2, ScratchOfShot DEF Current
<1>3. IInv => ReadOnlyUnchanged
  <2> SUFFICES ASSUME IInv, NEW c \in Calls,
                      \/ Touching(c, {"write", "scratch"})
                      \/ Touching(c, {"command"}) /\ input[c].cmd \in Writeful
               PROVE  \/ \E i \in SetsOf(c) : ~ForHost(i, Place(c).host).readOnly
                      \/ tool[c] = "shot" /\ Touching(c, {"scratch"})
    BY DEF ReadOnlyUnchanged
  <2>1. CASE Touching(c, {"scratch"})
    BY <1>2, <2>1
  <2>2. CASE ~Touching(c, {"scratch"})
    <3>1. Touching(c, {"write"}) \/ (Touching(c, {"command"}) /\ input[c].cmd \in Writeful)
      BY <2>2 DEF Touching
    <3> QED BY <1>1, <3>1
  <2> QED BY <2>1, <2>2
<1> QED BY <1>3, Inductive, PTL

(* The server's own files are neither read by `up` nor written by `dn` or  *)
(* `shot`, whatever the allowlists of any guard set cover.                 *)
THEOREM OwnFilesStayClosed == Spec => []OwnFilesClosed
<1>1. ASSUME IInv, NEW c \in Calls, AtStep(c, "effect"), tool[c] \in {"up", "dn", "shot"}
      PROVE  input[c].local \notin Owned
  <2>1. Ordered(Handler[tool[c]]) /\ LocalFirst(Handler[tool[c]]) /\ pc[c] \in 1..Len(Handler[tool[c]])
    BY <1>1, HandlersOrdered, LocalsOrdered DEF IInv, CallTypes, Cautious, AtStep, Ordered
  <2>2. PICK m \in Behind(c) : Handler[tool[c]][m].do = "local"
    BY <1>1, <2>1 DEF LocalFirst, AtStep, Behind
  <2> QED BY <1>1, <2>2 DEF IInv, Cautious, Cleared, Clear, AtStep
<1>2. IInv => OwnFilesClosed
  BY <1>1 DEF OwnFilesClosed
<1> QED BY <1>2, Inductive, PTL

(* A call that changed a host and succeeded, or that a guard refused, left *)
(* exactly one record saying so, and no call leaves two.                   *)
THEOREM RecordedExactlyOnce == Spec => []RecordedOnce
<1>1. ASSUME IInv, NEW c \in Calls, outcome[c] = "ok", tool[c] \in Changing
      PROVE  log[c] = <<"ok">>
  <2>1. Behind(c) = 1..Len(Handler[tool[c]])
    <3>1. Len(Handler[tool[c]]) \in Nat /\ pc[c] = Len(Handler[tool[c]]) + 1
      BY <1>1, HandlersOrdered DEF IInv, Cautious, Ordered
    <3> QED BY <3>1 DEF Behind
  <2> QED BY <1>1, <2>1, ChangesRecorded DEF IInv, Cautious, RecordBehind
<1>2. ASSUME IInv, NEW c \in Calls
      PROVE  Len(log[c]) <= 1 /\ (outcome[c] = "blocked" => log[c] = <<"blocked">>)
  <2>1. log[c] \in {<<>>, <<"ok">>, <<"blocked">>, <<"failed">>}
    BY <1>2 DEF IInv, CallTypes
  <2>2. Len(<<>>) <= 1 /\ Len(<<"ok">>) <= 1 /\ Len(<<"blocked">>) <= 1 /\ Len(<<"failed">>) <= 1
    OBVIOUS
  <2>3. Len(log[c]) <= 1
    BY <2>1, <2>2, Zenon
  <2> QED BY <1>2, <2>3 DEF IInv, Cautious
<1>3. IInv => RecordedOnce
  BY <1>1, <1>2 DEF RecordedOnce
<1> QED BY <1>3, Inductive, PTL

(* Every accept loop that runs is named by the table or was told to stop,  *)
(* for any number of overlapping `forward` and `unforward` calls.          *)
THEOREM LoopsReachable == Spec => []ListenersReachable
<1>1. IInv => ListenersReachable
  BY DEF IInv
<1> QED BY <1>1, Inductive, PTL
===============================================================================
