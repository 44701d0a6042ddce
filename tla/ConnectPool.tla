----------------------------- MODULE ConnectPool -----------------------------
(***************************************************************************)
(* The connections of the server (session/mod.rs, `SessionPool`): one      *)
(* session per host in a table, opened by at most one call at a time,      *)
(* through its ProxyJump bastion when it has one; overflow connections     *)
(* ("lanes") for bursts of `exec`; and everything that takes a session     *)
(* away: `disconnect`, `reload`, the idle eviction, the network.           *)
(*                                                                         *)
(* A call is a stack of frames, one per host it is opening: `open_session` *)
(* of a host behind a bastion calls `get_or_connect` for the bastion while *)
(* it holds its own host's lock.  A session is freed when no Arc is left;  *)
(* who holds one is derived (`Alive`), never stored.                       *)
(*                                                                         *)
(* Passwords, keys and host keys are HostKeys'; the channel slots of one   *)
(* session are SessionChannels', here a count.                             *)
(***************************************************************************)
EXTENDS Naturals, Sequences, FiniteSets, SequencesExt

CONSTANTS
  Hosts,
  Calls, ExecCalls,   \* ExecCalls may open lanes; the others never do
  HostOf,             \* the host each call is for
  Configs,            \* the configuration files, in the order `reload` reads
                      \* them: host -> [addr, jump], for the hosts it defines
  Direct,             \* `proxy_jump` of a host reached without a bastion
  NoCall,
  MaxChannels,        \* `max_channels_per_host`
  MaxConnections,     \* `max_connections_per_host`
  MaxSessions,        \* bound: sessions ever opened
  MaxEvents           \* bound: disconnects, evictions, losses, reloads and
                      \* cancelled calls

NoSession == 0
Ids == 1..MaxSessions

(* A bastion is defined in the same file, and no chain returns to its      *)
(* start: what `Config::validate` refuses (HostConfig.tla).                *)
ASSUME PoolAssumption ==
  /\ IsFiniteSet(Calls) /\ ExecCalls \subseteq Calls /\ NoCall \notin Calls /\ Direct \notin Hosts
  /\ HostOf \in [Calls -> Hosts]
  /\ MaxChannels \in Nat \ {0} /\ MaxConnections \in Nat \ {0}
  /\ MaxSessions \in Nat /\ MaxEvents \in Nat
  /\ Configs # <<>> /\ DOMAIN Configs = 1..Len(Configs) /\ Len(Configs) \in Nat
  /\ \A i \in DOMAIN Configs : DOMAIN Configs[i] \subseteq Hosts /\ \A h \in DOMAIN Configs[i] :
        Configs[i][h].jump \in (DOMAIN Configs[i] \cup {Direct}) \ {h}

VARIABLES
  cfg,       \* the configuration in force, an index of Configs
  table,     \* `sessions`: host -> session
  sess,      \* every session opened so far: host, bastion session, the
             \* configuration it was opened from, the one in force when it
             \* was put in the table
  end,       \* "open", or how it ended: "asked", "idle", "lost"
  lanes,     \* session -> its overflow connections
  lock,      \* `connect_locks`: host -> the call in the critical section
  laneLock,  \* `lane_open`: session -> the call holding it
  laneFail,  \* sessions whose last lane failed within LANE_RETRY_AFTER
  phase,     \* what each call is doing: "connecting", it "have"s a session,
             \* "laneLock", "laneSlot", "queue", "using", "done", "failed"
  primary,   \* the session `get_or_connect` gave it
  slotOn,    \* the session it has a channel on, or is opening as a lane
  frames,    \* the hosts it is opening, outermost first
  closing,   \* sessions taken from the table to be sent a disconnect
  prune,     \* per reload, named by the configuration it put in force: the
             \* hosts its `prune_against` has still to walk
  events     \* how many of these there were so far

shared == <<cfg, closing, prune, events>>
lanevars == <<lanes, laneLock, laneFail>>
vars == <<cfg, table, sess, end, lanes, lock, laneLock, laneFail, phase, primary,
          slotOn, frames, closing, prune, events>>

(* pc: "lookup" of the table, waiting for the "lock", "open"ing the        *)
(* session, waiting for its "bastion", for a "slot" on it, exchanging keys *)
(* ("handshake", timed), then "auth"enticating, which has no time-out.     *)
Frame(h, pc, lane) == [host |-> h, pc |-> pc, lane |-> lane, cfg |-> 0, parent |-> NoSession]
Top(c) == Last(frames[c])
At(c, pc) == frames[c] # <<>> /\ Top(c).pc = pc

SetTop(c, f) == frames' = [frames EXCEPT ![c] = Append(Front(frames[c]), f)]
Become(c, p) == phase' = [phase EXCEPT ![c] = p]

-----------------------------------------------------------------------------
(* Who holds an Arc<Session>, and the channel slots taken on one.          *)

HeldByCall(c) == {primary[c], slotOn[c]} \cup {frames[c][i].parent : i \in DOMAIN frames[c]}
Held == UNION {HeldByCall(c) : c \in Calls} \cup {table[h] : h \in Hosts} \cup closing

(* A session keeps its bastion and its lanes: alive is the smallest set    *)
(* that has what is held and what its members keep.                        *)
Keeps(s) == {sess[s].parent} \cup lanes[s]
Kept(S) == (UNION {Keeps(s) : s \in S}) \ {NoSession}
Alive == {s \in DOMAIN sess : \A S \in SUBSET DOMAIN sess :
            (Held \ {NoSession}) \cup Kept(S) \subseteq S => s \in S}

IsOpen(s) == s # NoSession /\ end[s] = "open"

(* A `proxy_permit` is taken before the handshake and kept by the session. *)
SlotsTaken(s) ==
  Cardinality({c \in Calls : phase[c] = "using" /\ slotOn[c] = s})
  + Cardinality({c \in Calls : (At(c, "handshake") \/ At(c, "auth")) /\ Top(c).parent = s})
  + Cardinality({t \in Alive : sess[t].parent = s})
HasSlot(s) == SlotsTaken(s) < MaxChannels

-----------------------------------------------------------------------------
(* get_or_connect and open_session.                                        *)

(* The frame ends with session s: the caller's bastion, or the call's own. *)
Return(c, s) ==
  IF Len(frames[c]) > 1
  THEN /\ frames' = [frames EXCEPT ![c] =
              LET below == Front(@) IN
              Append(Front(below), [Last(below) EXCEPT !.parent = s, !.pc = "slot"])]
       /\ UNCHANGED <<phase, primary>>
  ELSE /\ frames' = [frames EXCEPT ![c] = <<>>]
       /\ primary' = [primary EXCEPT ![c] = s]
       /\ Become(c, "have")

Unlocked(c) == [h \in Hosts |-> IF lock[h] = c THEN NoCall ELSE lock[h]]
LaneUnlocked(c) == [s \in Ids |-> IF laneLock[s] = c THEN NoCall ELSE laneLock[s]]

(* An error passes every frame by `?`, dropping their guards; `open_lane`  *)
(* stops it, remembers it and queues on the primary.                       *)
Fail(c) ==
  /\ lock' = Unlocked(c)
  /\ laneLock' = LaneUnlocked(c)
  /\ frames' = [frames EXCEPT ![c] = <<>>]
  /\ IF Head(frames[c]).lane
     THEN /\ laneFail' = laneFail \cup {primary[c]}
          /\ Become(c, "queue") /\ UNCHANGED primary
     ELSE /\ Become(c, "failed") /\ UNCHANGED <<laneFail, primary>>
  /\ UNCHANGED <<sess, end, lanes, slotOn>>

(* `fresh_session`: a closed one is taken out of the table. *)
Fresh(h) == IsOpen(table[h])
Forget(h) == table' = [table EXCEPT ![h] = IF Fresh(h) THEN @ ELSE NoSession]

Lookup(c) ==
  /\ At(c, "lookup")
  /\ LET h == Top(c).host IN
     /\ Forget(h)
     /\ \/ /\ Fresh(h) /\ Return(c, table[h])
           /\ UNCHANGED <<sess, end, lanevars, lock, slotOn>>
        \/ /\ ~Fresh(h) /\ h \notin DOMAIN Configs[cfg] /\ Fail(c)
        \/ /\ ~Fresh(h) /\ h \in DOMAIN Configs[cfg]
           /\ SetTop(c, [Top(c) EXCEPT !.pc = "lock"])
           /\ UNCHANGED <<sess, end, lanevars, lock, phase, primary, slotOn>>
  /\ UNCHANGED shared

(* Variant: the table is not looked at again inside the critical section. *)
LockOnce(c) ==
  /\ At(c, "lock") /\ lock[Top(c).host] = NoCall
  /\ lock' = [lock EXCEPT ![Top(c).host] = c]
  /\ SetTop(c, [Top(c) EXCEPT !.pc = "open"])
  /\ UNCHANGED <<table, sess, end, lanevars, phase, primary, slotOn, shared>>

(* The lock, and the second look at the table: a sibling may have opened.  *)
Lock(c) ==
  /\ At(c, "lock") /\ lock[Top(c).host] = NoCall
  /\ LET h == Top(c).host IN
     /\ Forget(h)
     /\ \/ Fresh(h) /\ Return(c, table[h]) /\ UNCHANGED lock
        \/ /\ ~Fresh(h) /\ lock' = [lock EXCEPT ![h] = c]
           /\ SetTop(c, [Top(c) EXCEPT !.pc = "open"])
           /\ UNCHANGED <<phase, primary>>
  /\ UNCHANGED <<sess, end, lanevars, slotOn, shared>>

(* One configuration for the whole handshake, and the bastion first. *)
Open(c) ==
  /\ At(c, "open")
  /\ LET f == [Top(c) EXCEPT !.cfg = cfg] IN
     \/ f.host \notin DOMAIN Configs[cfg] /\ Fail(c)
     \/ /\ f.host \in DOMAIN Configs[cfg]
        /\ LET jump == Configs[cfg][f.host].jump IN
           IF jump = Direct
           THEN SetTop(c, [f EXCEPT !.pc = "handshake"])
           ELSE frames' = [frames EXCEPT ![c] =
                   Front(@) \o <<[f EXCEPT !.pc = "bastion"], Frame(jump, "lookup", FALSE)>>]
        /\ UNCHANGED <<sess, end, lanevars, lock, phase, primary, slotOn>>
  /\ UNCHANGED <<table, shared>>


(* `acquire_channel` on the bastion: a slot, or ChannelLimit after 15 s. *)
BastionSlot(c) ==
  /\ At(c, "slot")
  /\ \/ /\ HasSlot(Top(c).parent)
        /\ SetTop(c, [Top(c) EXCEPT !.pc = "handshake"])
        /\ UNCHANGED <<sess, end, lanevars, lock, phase, primary, slotOn>>
     \/ ~HasSlot(Top(c).parent) /\ Fail(c)
  /\ UNCHANGED <<table, shared>>

(* TCP, or a channel of the bastion, and the key exchange. *)
KeyExchange(c) ==
  /\ At(c, "handshake")
  /\ Top(c).parent # NoSession => IsOpen(Top(c).parent)
  /\ SetTop(c, [Top(c) EXCEPT !.pc = "auth"])
  /\ UNCHANGED <<table, sess, end, lanevars, lock, phase, primary, slotOn, shared>>

(* Authenticated: into the table, or on to a lane's first channel.         *)
Connected(c) ==
  /\ At(c, "auth") /\ Len(sess) < MaxSessions
  /\ Top(c).parent # NoSession => IsOpen(Top(c).parent)
  /\ LET f == Top(c)
         s == Len(sess) + 1
     IN /\ sess' = Append(sess, [host |-> f.host, parent |-> f.parent,
                                 from |-> f.cfg, at |-> cfg])
        /\ IF f.lane
           THEN /\ slotOn' = [slotOn EXCEPT ![c] = s]
                /\ frames' = [frames EXCEPT ![c] = <<>>]
                /\ Become(c, "laneSlot")
                /\ laneFail' = laneFail \ {primary[c]}
                /\ UNCHANGED <<table, lock, primary>>
           ELSE /\ table' = [table EXCEPT ![f.host] = s]
                /\ lock' = [lock EXCEPT ![f.host] = NoCall]
                /\ Return(c, s)
                /\ UNCHANGED <<slotOn, laneFail>>
  /\ UNCHANGED <<end, lanes, laneLock, shared>>

(* Unreachable, timed out, its host key refused, or the bastion is gone. *)
HandshakeFails(c) == At(c, "handshake") /\ Fail(c) /\ UNCHANGED <<table, shared>>

(* No method accepted, or the connection ends. *)
AuthFails(c) == At(c, "auth") /\ Fail(c) /\ UNCHANGED <<table, shared>>

-----------------------------------------------------------------------------
(* exec_channel.                                                           *)

FreeLanes(c) == {l \in lanes[primary[c]] : IsOpen(l) /\ HasSlot(l)}

TakeSlot(c, s) ==
  slotOn' = [slotOn EXCEPT ![c] = s] /\ Become(c, "using") /\ UNCHANGED primary

(* The call returns and drops its Arcs. *)
Leave(c, p) ==
  /\ Become(c, p)
  /\ primary' = [primary EXCEPT ![c] = NoSession]
  /\ slotOn' = [slotOn EXCEPT ![c] = NoSession]

(* The primary, then each lane: picked and reserved in one stretch.  A     *)
(* free slot of a closed connection is a failed CHANNEL_OPEN.              *)
TrySlots(c) ==
  /\ phase[c] = "have"
  /\ LET p == primary[c] IN
     \/ c \notin ExecCalls /\ Become(c, "queue") /\ UNCHANGED <<slotOn, primary>>
     \/ /\ c \in ExecCalls /\ HasSlot(p)
        /\ IF IsOpen(p) THEN TakeSlot(c, p) ELSE Leave(c, "failed")
     \/ /\ c \in ExecCalls /\ ~HasSlot(p)
        /\ \E l \in FreeLanes(c) : TakeSlot(c, l)
     \/ /\ c \in ExecCalls /\ ~HasSlot(p) /\ FreeLanes(c) = {}
        /\ Become(c, "laneLock") /\ UNCHANGED <<slotOn, primary>>
  /\ UNCHANGED <<table, sess, end, lanevars, lock, frames, shared>>

OpenLanes(s) == {l \in lanes[s] : IsOpen(l)}

(* Variant: the lane lock only covers the check, not the handshake. *)
OpenLaneUnguarded(c) ==
  /\ phase[c] = "laneLock" /\ laneLock[primary[c]] = NoCall
  /\ LET p == primary[c] IN
     /\ lanes' = [lanes EXCEPT ![p] = OpenLanes(p)]
     /\ IF Cardinality(OpenLanes(p)) + 1 >= MaxConnections \/ p \in laneFail
        THEN Become(c, "queue") /\ UNCHANGED frames
        ELSE /\ Become(c, "connecting")
             /\ frames' = [frames EXCEPT ![c] = <<Frame(HostOf[c], "open", TRUE)>>]
  /\ UNCHANGED <<table, sess, end, laneLock, laneFail, lock, primary, slotOn, shared>>

(* `open_lane`: try the lanes again under the lock, drop the dead ones,    *)
(* and open one if the cap and the last failure allow.                     *)
OpenLane(c) ==
  /\ phase[c] = "laneLock" /\ laneLock[primary[c]] = NoCall
  /\ LET p == primary[c] IN
     \/ \E l \in FreeLanes(c) : TakeSlot(c, l) /\ UNCHANGED <<lanes, laneLock, frames>>
     \/ /\ FreeLanes(c) = {}
        /\ lanes' = [lanes EXCEPT ![p] = OpenLanes(p)]
        /\ IF Cardinality(OpenLanes(p)) + 1 >= MaxConnections \/ p \in laneFail
           THEN Become(c, "queue") /\ UNCHANGED <<laneLock, frames>>
           ELSE /\ laneLock' = [laneLock EXCEPT ![p] = c]
                /\ Become(c, "connecting")
                /\ frames' = [frames EXCEPT ![c] = <<Frame(HostOf[c], "open", TRUE)>>]
        /\ UNCHANGED <<slotOn, primary>>
  /\ UNCHANGED <<table, sess, end, laneFail, lock, shared>>

(* The lane's first channel; only then is the lane there for others.  If   *)
(* it cannot be opened the call fails.                                     *)
LaneSlot(c) ==
  /\ phase[c] = "laneSlot"
  /\ laneLock' = LaneUnlocked(c)
  /\ \/ /\ IsOpen(slotOn[c])
        /\ lanes' = [lanes EXCEPT ![primary[c]] = @ \cup {slotOn[c]}]
        /\ TakeSlot(c, slotOn[c])
     \/ Leave(c, "failed") /\ UNCHANGED lanes
  /\ UNCHANGED <<table, sess, end, laneFail, lock, frames, shared>>

(* Queueing on the primary: a slot, or ChannelLimit after 15 s. *)
Queue(c) ==
  /\ phase[c] = "queue"
  /\ \/ HasSlot(primary[c]) /\ IsOpen(primary[c]) /\ TakeSlot(c, primary[c])
     \/ ~(HasSlot(primary[c]) /\ IsOpen(primary[c])) /\ Leave(c, "failed")
  /\ UNCHANGED <<table, sess, end, lanevars, lock, frames, shared>>

Finish(c) ==
  /\ phase[c] = "using" /\ Leave(c, "done")
  /\ UNCHANGED <<table, sess, end, lanevars, lock, frames, shared>>

Event == events < MaxEvents /\ events' = events + 1

(* The client cancels the call: its future is dropped wherever it is, with *)
(* the guards, the permits and the Arcs it holds.                          *)
Cancel(c) ==
  /\ Event
  /\ phase[c] \notin {"done", "failed"}
  /\ lock' = Unlocked(c)
  /\ laneLock' = LaneUnlocked(c)
  /\ frames' = [frames EXCEPT ![c] = <<>>]
  /\ Leave(c, "failed")
  /\ UNCHANGED <<table, sess, end, lanes, laneFail, cfg, closing, prune>>

(* LANE_RETRY_AFTER a failed lane, another may be tried. *)
LaneRetry(s) ==
  /\ s \in laneFail /\ laneFail' = laneFail \ {s}
  /\ UNCHANGED <<table, sess, end, lanes, laneLock, lock, phase, primary, slotOn, frames, shared>>

-----------------------------------------------------------------------------
(* What takes sessions away.                                               *)

calls == <<phase, primary, slotOn, frames, lock, laneLock, laneFail>>

Ended(S, why) == end' = [s \in Ids |-> IF s \in S /\ end[s] = "open" THEN why ELSE end[s]]

(* Out of the table first, so that a new call reconnects; then the         *)
(* disconnect message, on its handle and on every lane's.                  *)
Disconnect(h) ==
  /\ Event
  /\ table[h] # NoSession
  /\ closing' = closing \cup {table[h]}
  /\ table' = [table EXCEPT ![h] = NoSession]
  /\ UNCHANGED <<calls, sess, end, lanes, cfg, prune>>

SendDisconnect(s) ==
  /\ s \in closing
  /\ closing' = closing \ {s}
  /\ Ended({s} \cup lanes[s], "asked")
  /\ lanes' = [lanes EXCEPT ![s] = {}]
  /\ UNCHANGED <<calls, table, sess, cfg, prune, events>>

(* The configuration is swapped, then `prune_against` walks the hosts that *)
(* had a session, with the two configurations of its own reload: it waits  *)
(* for each disconnect, so a second reload may begin before it is through. *)
Reload ==
  /\ Event
  /\ cfg < Len(Configs)
  /\ cfg' = cfg + 1
  /\ prune' = [prune EXCEPT ![cfg + 1] = {h \in Hosts : table[h] # NoSession}]
  /\ UNCHANGED <<calls, table, sess, end, lanes, closing>>

Changed(h, old, new) ==
  h \notin DOMAIN Configs[new] \/ (h \in DOMAIN Configs[old] /\ Configs[old][h] # Configs[new][h])

(* Variant: a session stays when its address is the same. *)
PruneByAddress(h, new) ==
  /\ h \in prune[new]
  /\ prune' = [prune EXCEPT ![new] = @ \ {h}]
  /\ IF \/ h \notin DOMAIN Configs[new]
        \/ /\ h \in DOMAIN Configs[new - 1]
           /\ Configs[new - 1][h].addr # Configs[new][h].addr
     THEN /\ closing' = closing \cup ({table[h]} \ {NoSession})
          /\ table' = [table EXCEPT ![h] = NoSession]
     ELSE UNCHANGED <<closing, table>>
  /\ UNCHANGED <<calls, sess, end, lanes, cfg, events>>

Prune(h, new) ==
  /\ h \in prune[new]
  /\ prune' = [prune EXCEPT ![new] = @ \ {h}]
  /\ IF Changed(h, new - 1, new)
     THEN /\ closing' = closing \cup ({table[h]} \ {NoSession})
          /\ table' = [table EXCEPT ![h] = NoSession]
     ELSE UNCHANGED <<closing, table>>
  /\ UNCHANGED <<calls, sess, end, lanes, cfg, events>>

(* Variant: an idle session is disconnected, not only forgotten. *)
EvictAndClose(h) ==
  /\ Event
  /\ table[h] # NoSession
  /\ table' = [table EXCEPT ![h] = NoSession]
  /\ Ended({table[h]}, "idle")
  /\ UNCHANGED <<calls, sess, lanes, cfg, closing, prune>>

(* `evict_idle`: a call that outlasts `session_idle_timeout` has not       *)
(* touched its session since it began, so any session may be evicted.      *)
Evict(h) ==
  /\ Event
  /\ table[h] # NoSession
  /\ table' = [table EXCEPT ![h] = NoSession]
  /\ UNCHANGED <<calls, sess, end, lanes, cfg, closing, prune>>

(* Dead lanes, and idle ones with every slot free, are closed. *)
DropIdleLanes(h) ==
  /\ Event
  /\ table[h] # NoSession
  /\ LET p == table[h]
         gone == {l \in lanes[p] : ~IsOpen(l) \/ SlotsTaken(l) = 0}
     IN /\ gone # {}
        /\ lanes' = [lanes EXCEPT ![p] = @ \ gone]
        /\ Ended(gone, "idle")
  /\ UNCHANGED <<calls, table, sess, cfg, closing, prune>>

(* The peer or the network ends a connection; `is_closed` sees it. *)
Lose(s) ==
  /\ Event
  /\ s \in Alive /\ IsOpen(s)
  /\ Ended({s}, "lost")
  /\ UNCHANGED <<calls, table, sess, lanes, cfg, closing, prune>>

-----------------------------------------------------------------------------
Init ==
  /\ cfg = 1
  /\ table = [h \in Hosts |-> NoSession]
  /\ sess = <<>>
  /\ end = [s \in Ids |-> "open"]
  /\ lanes = [s \in Ids |-> {}]
  /\ lock = [h \in Hosts |-> NoCall]
  /\ laneLock = [s \in Ids |-> NoCall]
  /\ laneFail = {}
  /\ phase = [c \in Calls |-> "connecting"]
  /\ primary = [c \in Calls |-> NoSession]
  /\ slotOn = [c \in Calls |-> NoSession]
  /\ frames = [c \in Calls |-> <<Frame(HostOf[c], "lookup", FALSE)>>]
  /\ closing = {}
  /\ prune = [i \in DOMAIN Configs |-> {}]
  /\ events = 0

(* What a call does by itself or within a time-out. *)
CallStep(c) ==
  \/ Lookup(c) \/ Lock(c) \/ Open(c) \/ BastionSlot(c) \/ KeyExchange(c) \/ HandshakeFails(c)
  \/ TrySlots(c) \/ OpenLane(c) \/ LaneSlot(c) \/ Queue(c) \/ Finish(c)

Next ==
  \/ \E c \in Calls : CallStep(c) \/ Connected(c) \/ AuthFails(c) \/ Cancel(c)
  \/ \E h \in Hosts : Disconnect(h) \/ Evict(h) \/ DropIdleLanes(h)
  \/ \E h \in Hosts, i \in DOMAIN Configs : Prune(h, i)
  \/ \E s \in Ids : SendDisconnect(s) \/ Lose(s) \/ LaneRetry(s)
  \/ Reload

Spec == Init /\ [][Next]_vars

(* The runtime runs some call as long as one can run; the TCP connection   *)
(* and the key exchange are timed, and the wait for a slot ends after      *)
(* 15 s.  A call takes finitely many steps, so no stronger fairness is     *)
(* needed.  Nothing times the authentication (connect.rs 261-281): no      *)
(* fairness of the server, of the agent, nor of the client's Cancel.       *)
FairSpec == Spec /\ WF_vars(\E c \in Calls : CallStep(c))

-----------------------------------------------------------------------------
(* Calls past the table and the lock of h, opening its primary session. *)
Dialling(h) ==
  {c \in Calls : \E i \in DOMAIN frames[c] :
      /\ frames[c][i].host = h /\ ~frames[c][i].lane
      /\ frames[c][i].pc \in {"open", "bastion", "slot", "handshake", "auth"}}

(* "Singleflight per host: concurrent callers for the same host all wait   *)
(* for one handshake" (mod.rs 533): never two calls open h, and none does  *)
(* while the table has a live session for it.                              *)
NoSecondConnection ==
  \A h \in Hosts : Dialling(h) # {} => Cardinality(Dialling(h)) = 1 /\ ~IsOpen(table[h])

(* `max_connections_per_host` caps a primary plus its lanes, the one a     *)
(* call is opening included (mod.rs 634-669), however a burst interleaves. *)
(* Each primary counts for itself: one evicted or disconnected while calls *)
(* use it keeps its lanes beside the next primary of its host and that     *)
(* one's lanes, so the host as a whole may have more than the cap.         *)
LaneCap ==
  \A p \in 1..Len(sess) :
     1 + Cardinality(OpenLanes(p))
       + Cardinality({c \in Calls : /\ primary[c] = p
                                    /\ \/ frames[c] # <<>> /\ Head(frames[c]).lane
                                       \/ phase[c] = "laneSlot" /\ IsOpen(slotOn[c])})
       <= MaxConnections

(* "A lane with an exec in flight holds a channel, so it counts as used"   *)
(* (mod.rs 185) and an evicted session lives as long as its Arcs: the      *)
(* timer's clean-up never closes the connection under a call, nor the      *)
(* bastion that connection runs through.                                   *)
UsedConnectionsSurvive ==
  \A c \in Calls : phase[c] = "using" =>
     /\ end[slotOn[c]] # "idle"
     /\ sess[slotOn[c]].parent # NoSession => end[sess[slotOn[c]].parent] # "idle"

(* "Drop cached sessions for hosts that no longer exist in the current     *)
(* config, and for hosts whose connection-relevant fields changed" (mod.rs *)
(* 470): once `reload` is through, a session opened from a file that no    *)
(* longer describes its host is one whose handshake the reload overtook.   *)
StaleOnlyIfOvertaken ==
  (\A i \in DOMAIN Configs : prune[i] = {}) => \A h \in Hosts : LET s == table[h] IN
     s # NoSession /\ Changed(h, sess[s].from, cfg) => sess[s].from # sess[s].at

(* The calls an unanswered authentication holds: those authenticating, and *)
(* those that wait for the lock of one it holds.                           *)
Before(c) ==
  IF At(c, "lock") THEN {lock[Top(c).host]}
  ELSE IF phase[c] = "laneLock" THEN {laneLock[primary[c]]} ELSE {}
HeldByAuth ==
  {c \in Calls : \A S \in SUBSET Calls :
     {d \in Calls : At(d, "auth") \/ Before(d) \cap S # {}} \subseteq S => c \in S}

(* Every call returns, whatever is disconnected, evicted or reloaded       *)
(* meanwhile - "Validation at config load forbids cycles, so this          *)
(* terminates" (mod.rs 683) - unless it stays behind an authentication     *)
(* that nobody answers: its own, or one under a lock it waits for.         *)
CallsEnd == \A c \in Calls :
  <>(phase[c] \in {"done", "failed"}) \/ <>[](c \in HeldByAuth)
=============================================================================
