---------------------------- MODULE HostConfig ----------------------------
(***************************************************************************)
(* Loading the configuration (config.rs) with the hosts of ~/.ssh/config   *)
(* imported into it (ssh_config.rs): lines are gathered into blocks, every *)
(* alias they declare is resolved over all blocks, becomes a host unless   *)
(* hosts.toml has one of that name, the jumps between hosts are wired, and *)
(* the whole is validated.                                                 *)
(*                                                                         *)
(* The lines come one at a time, each whatever the file has next: the text *)
(* of a line is abstracted to what it says, and the lines of an `Include`  *)
(* are lines of the file, as `feed` splices them in.  What validate says   *)
(* of a declared host by itself (its keys, its fingerprint) is `sound`.    *)
(***************************************************************************)
EXTENDS Naturals, Sequences, FiniteSets, SequencesExt

CONSTANTS
  Names,      \* what hosts are called
  Declared,   \* the [host.*] tables hosts.toml may have
  Lines,      \* the lines ~/.ssh/config may have
  MaxLines    \* bound: lines of the file

NoJump == "no jump"
Empty == "empty"      \* a quoted empty value

(* A line is a Host line with its patterns [negated, glob], a Match line,  *)
(* or a keyword with its value; a ProxyJump's value is its list of hops.   *)
HostLine(patterns) == [kw |-> "host", value |-> patterns]
MatchLine == [kw |-> "match", value |-> {}]
Keyword(kw, value) == [kw |-> kw, value |-> value]
Plain(name) == [negated |-> FALSE, glob |-> name]
Not(name) == [negated |-> TRUE, glob |-> name]
Star == Plain("*")

Host(addr, user, sound, jump) == [addr |-> addr, user |-> user, sound |-> sound, jump |-> jump]

Patterns == [negated : BOOLEAN, glob : Names \cup {"*"}]

ASSUME ConfigAssumption ==
  /\ NoJump \notin Names \cup {"*"}
  /\ \A t \in Declared :
       /\ DOMAIN t \subseteq Names /\ IsFiniteSet(DOMAIN t)
       /\ t = [n \in DOMAIN t |-> Host(t[n].addr, t[n].user, t[n].sound, t[n].jump)]
  /\ \A line \in Lines : line.kw = "host" => line.value \in Seq(Patterns)

VARIABLES
  toml,     \* `Config.hosts` as read from hosts.toml: a function on names
  blocks,   \* the closed blocks, [patterns, entries]
  current,  \* the open block: a sequence of at most one
  read      \* lines read

configvars == <<toml, blocks, current, read>>

-----------------------------------------------------------------------------
(* The parser (ssh_config.rs).                                             *)

Block(patterns) == [patterns |-> patterns, entries |-> <<>>, implicit |-> FALSE]
(* Keywords before the first Host line are an implicit `Host *`. *)
Global == [Block(<<Star>>) EXCEPT !.implicit = TRUE]

Flush == IF \E i \in DOMAIN current : current[i].implicit /\ current[i].entries = <<>>
         THEN blocks ELSE blocks \o current

ReadHost ==
  \E line \in Lines :
    /\ line.kw = "host"
    /\ blocks' = Flush
    /\ current' = <<Block(line.value)>>

ReadMatch ==
  \E line \in Lines :
    /\ line.kw = "match"
    /\ blocks' = Flush
    /\ current' = <<>>

ReadEntry ==
  \E line \in Lines :
    /\ line.kw \notin {"host", "match"}
    /\ current' = [i \in DOMAIN current |-> [current[i] EXCEPT !.entries = Append(@, line)]]
    /\ UNCHANGED blocks

ReadLine == /\ read < MaxLines /\ read' = read + 1 /\ UNCHANGED toml
            /\ ReadHost \/ ReadMatch \/ ReadEntry

Finished == Flush

-----------------------------------------------------------------------------
(* Resolution of an alias.                                                 *)

GlobMatch(glob, alias) == glob = "*" \/ glob = alias
Matches(b, alias) ==
  LET hits == {i \in DOMAIN b.patterns : GlobMatch(b.patterns[i].glob, alias)}
  IN hits # {} /\ \A i \in hits : ~b.patterns[i].negated

Entries(bs, alias) ==
  FlattenSeq([i \in DOMAIN bs |-> IF Matches(bs[i], alias) THEN bs[i].entries ELSE <<>>])

(* The first value wins. *)
Query(bs, alias, kw, otherwise) ==
  LET values == SelectSeq(Entries(bs, alias), LAMBDA e : e.kw = kw)
  IN IF values = <<>> THEN otherwise ELSE Head(values).value

(* The names the blocks declare, each once. *)
ListAliases(bs) ==
  LET patterns == FlattenSeq([i \in DOMAIN bs |-> bs[i].patterns])
      named[i \in 0..Len(patterns)] ==
        IF i = 0 THEN <<>>
        ELSE IF patterns[i].negated \/ patterns[i].glob \in {"*"} \cup ToSet(named[i - 1])
        THEN named[i - 1] ELSE Append(named[i - 1], patterns[i].glob)
  IN named[Len(patterns)]

(* The first hop of a chain, unless that is `none`. *)
JumpAlias(hops) == IF hops = <<>> \/ Head(hops) = "none" THEN NoJump ELSE Head(hops)

-----------------------------------------------------------------------------
(* merge_ssh_config.                                                       *)

(* Where `n` steps along the jumps lead from a host. *)
Along(hosts, from, n) ==
  LET walk[i \in 0..n] ==
        IF i = 0 THEN from
        ELSE IF walk[i - 1] \in DOMAIN hosts THEN hosts[walk[i - 1]].jump ELSE NoJump
  IN walk

WouldCycle(hosts, from, to) ==
  LET walk == Along(hosts, to, Cardinality(DOMAIN hosts) + 1)
  IN (\E i \in DOMAIN walk : walk[i] = from) \/ NoJump \notin {walk[i] : i \in DOMAIN walk}

(* An alias without a HostName is no host; a key that cannot be read is    *)
(* left out, so the host is always sound.                                  *)
Imported(bs, hosts) ==
  {a \in ToSet(ListAliases(bs)) : a \notin DOMAIN hosts /\ Query(bs, a, "hostname", NoJump) # NoJump}

Inserted(bs, hosts) ==
  [n \in DOMAIN hosts \cup Imported(bs, hosts) |->
     IF n \in DOMAIN hosts THEN hosts[n]
     ELSE Host(Query(bs, n, "hostname", NoJump), Query(bs, n, "user", "root"), TRUE, NoJump)]

(* Variant: each jump is judged against the hosts before any was wired.    *)
WireAtOnce(bs, hosts, new) ==
  [n \in DOMAIN hosts |->
     LET to == JumpAlias(Query(bs, n, "proxyjump", <<>>)) IN
     IF /\ n \in new
        /\ to \in DOMAIN hosts \ {n} /\ ~WouldCycle(hosts, n, to)
     THEN [hosts[n] EXCEPT !.jump = to] ELSE hosts[n]]

WireOne(bs, hosts, n) ==
  LET to == JumpAlias(Query(bs, n, "proxyjump", <<>>))
  IN IF to \in DOMAIN hosts \ {n} /\ ~WouldCycle(hosts, n, to)
     THEN [hosts EXCEPT ![n].jump = to] ELSE hosts
Wire(bs, hosts, new) ==
  LET aliases == ListAliases(bs)
      wired[i \in 0..Len(aliases)] ==
        IF i = 0 THEN hosts
        ELSE IF aliases[i] \in new THEN WireOne(bs, wired[i - 1], aliases[i]) ELSE wired[i - 1]
  IN wired[Len(aliases)]

MergeSshConfig(bs, hosts) == Wire(bs, Inserted(bs, hosts), Imported(bs, hosts))

-----------------------------------------------------------------------------
(* validate.                                                               *)

(* Variant: only a jump to the host itself is looked for. *)
ChainOfOne(hosts, n) == hosts[n].jump # n

(* Follow the chain from a host until it ends or repeats. *)
ChainEnds(hosts, n) == Along(hosts, n, Cardinality(DOMAIN hosts))[Cardinality(DOMAIN hosts)] = NoJump

Validate(hosts) ==
  \A n \in DOMAIN hosts :
    /\ hosts[n].sound /\ hosts[n].addr # Empty /\ hosts[n].user # Empty
    /\ hosts[n].jump = NoJump \/ hosts[n].jump \in DOMAIN hosts \ {n}
    /\ ChainEnds(hosts, n)

-----------------------------------------------------------------------------
ConfigInit == toml \in Declared /\ blocks = <<>> /\ current = <<Global>> /\ read = 0
ConfigSpec == ConfigInit /\ [][ReadLine]_configvars

(* The hosts of a loaded configuration, were the file to end here. *)
Loaded == MergeSshConfig(Finished, toml)

(* ConnectPool takes a bastion's lock while it holds that of the host      *)
(* behind it, and ends because "Validation at config load forbids cycles"  *)
(* (session/mod.rs 683): no set of hosts of a configuration that loads     *)
(* jumps only among its own members, and every jump is to a host.          *)
JumpsEnd ==
  Validate(Loaded) =>
    /\ \A n \in DOMAIN Loaded : Loaded[n].jump \in DOMAIN Loaded \cup {NoJump}
    /\ \A S \in (SUBSET DOMAIN Loaded) \ {{}} : \E n \in S : Loaded[n].jump \notin S

(* A side file never fails the whole configuration (config.rs 529, 565):   *)
(* what loads without the import loads with it, whatever ~/.ssh/config has *)
(* in it, and the declared hosts are as they were.  The code keeps this    *)
(* for keys and for jumps; an alias whose HostName or User is a quoted     *)
(* empty string does fail it, and is left out here.                        *)
ImportHarmless ==
  /\ \A n \in DOMAIN toml : Loaded[n] = toml[n]
  /\ Validate(toml) /\ (\A n \in DOMAIN Loaded : Empty \notin {Loaded[n].addr, Loaded[n].user})
       => Validate(Loaded)
=============================================================================
