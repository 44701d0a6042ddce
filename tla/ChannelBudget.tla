---------------------------- MODULE ChannelBudget ----------------------------
(***************************************************************************)
(* What one SSH connection promises its server: never more channels than   *)
(* the configured cap, of which only a few may be spares that no call      *)
(* uses.  SessionChannels implements it.                                   *)
(***************************************************************************)
EXTENDS Naturals, FiniteSets

CONSTANTS Calls,         \* everything that may want a channel
          MaxChannels,   \* channels the connection may have at once
          MaxSpares      \* of those, how many may be open for nobody

VARIABLES held,          \* the calls that own a channel
          spare          \* channels open, or being opened, for nobody yet

vars == <<held, spare>>

Init == held = {} /\ spare = 0

Room == Cardinality(held) + spare < MaxChannels

Open(c) == c \notin held /\ Room /\ held' = held \cup {c} /\ UNCHANGED spare

TakeSpare(c) == c \notin held /\ spare > 0 /\ held' = held \cup {c} /\ spare' = spare - 1

Close(c) == c \in held /\ held' = held \ {c} /\ UNCHANGED spare

Warm == Room /\ spare < MaxSpares /\ spare' = spare + 1 /\ UNCHANGED held

Discard == spare > 0 /\ spare' \in 0..(spare - 1) /\ UNCHANGED held

Next == \/ \E c \in Calls : Open(c) \/ TakeSpare(c) \/ Close(c)
        \/ Warm
        \/ Discard

Spec == Init /\ [][Next]_vars

(* The cap of the connection (`max_channels_per_host`) is never exceeded. *)
WithinCap == Cardinality(held) + spare <= MaxChannels
=============================================================================
