--------------------------- MODULE ConnectPool_proofs ---------------------------
(***************************************************************************)
(* Proofs about ConnectPool, for every number of hosts, calls, sessions,   *)
(* configurations and events, and chains of bastions of any length; and    *)
(* about HostConfig, which shows that those chains end, for every          *)
(* hosts.toml and every ~/.ssh/config.                                     *)
(***************************************************************************)
EXTENDS ConnectPool, HostConfig, SequenceTheorems, FiniteSetTheorems, WellFoundedInduction, TLAPS

DiallingPcs == {"open", "bastion", "slot", "handshake", "auth"}
FrameSet == [host : Hosts, pc : DiallingPcs \cup {"lookup", "lock"}, lane : BOOLEAN,
             cfg : Nat, parent : Nat]
SessionSet == [host : Hosts, parent : Nat, from : Nat, at : Nat]

TypeInv ==
  /\ cfg \in DOMAIN Configs /\ prune \in [DOMAIN Configs -> SUBSET Hosts]
  /\ sess \in Seq(SessionSet) /\ Len(sess) <= MaxSessions
  /\ table \in [Hosts -> Nat] /\ \A h \in Hosts : table[h] <= Len(sess)
  /\ end \in [Ids -> {"open", "asked", "idle", "lost"}]
  /\ lock \in [Hosts -> Calls \cup {NoCall}]
  /\ frames \in [Calls -> Seq(FrameSet)]

Dials(f) == ~f.lane /\ f.pc \in DiallingPcs
Planned(f) == f.pc \in DiallingPcs \ {"open"} =>
                f.cfg \in DOMAIN Configs /\ f.host \in DOMAIN Configs[f.cfg]

(* All frames but the top one wait for their bastion; the call holds the   *)
(* lock of every host it dials, each dialled once and not in the table.    *)
GoodStack(c) ==
  \A i \in DOMAIN frames[c] : LET f == frames[c][i] IN
     /\ i # Len(frames[c]) => f.pc = "bastion"
     /\ Planned(f)
     /\ Dials(f) => /\ lock[f.host] = c /\ ~IsOpen(table[f.host])
                    /\ \A j \in DOMAIN frames[c] :
                          Dials(frames[c][j]) /\ frames[c][j].host = f.host => i = j

(* The configuration m describes h as l does, if l has it at all.          *)
Follows(h, l, m) ==
  h \in DOMAIN Configs[l] => h \in DOMAIN Configs[m] /\ Configs[m][h] = Configs[l][h]

(* A session no reload overtook was opened from a file that describes its  *)
(* host; and from then on two files between which no reload has the host's *)
(* turn still to come describe it alike.                                   *)
Described(h) ==
  table[h] # NoSession /\ sess[table[h]].from = sess[table[h]].at =>
     LET k == sess[table[h]].from IN
     /\ k \in 1..cfg /\ h \in DOMAIN Configs[k]
     /\ \A l, m \in k..cfg :
          l <= m /\ (\A j \in (l + 1)..m : h \notin prune[j]) => Follows(h, l, m)

IInv == /\ TypeInv
        /\ \A c \in Calls : GoodStack(c)
        /\ \A h \in Hosts : Described(h)

-----------------------------------------------------------------------------
(* Stacks.                                                                 *)

LEMMA TopFacts ==
  ASSUME NEW S, NEW fs \in Seq(S), fs # <<>>
  PROVE  /\ Len(fs) \in Nat \ {0} /\ Last(fs) = fs[Len(fs)] /\ Last(fs) \in S
         /\ Front(fs) \in Seq(S) /\ Len(Front(fs)) = Len(fs) - 1
         /\ \A i \in 1..(Len(fs) - 1) : Front(fs)[i] = fs[i]
<1> DEFINE n == Len(fs)
           front == SubSeq(fs, 1, n - 1)
<1>1. n \in Nat \ {0} /\ \A i \in 1..n : fs[i] \in S
  BY EmptySeq, LenProperties
<1>2. n - 1 \in Int /\ 1 \in Int /\ \A i \in 1..(n - 1) : fs[i] \in S
  BY <1>1
<1>3. /\ front \in Seq(S)
      /\ Len(front) = IF 1 <= n - 1 THEN n - 1 - 1 + 1 ELSE 0
      /\ \A i \in 1..(n - 1 - 1 + 1) : front[i] = fs[1 + i - 1]
  BY <1>2, SubSeqProperties
<1>4. Front(fs) = front /\ Last(fs) = fs[n]
  BY DEF Last, Front
<1> HIDE DEF n, front
<1>5. n - 1 - 1 + 1 = n - 1 /\ \A i \in Int : 1 + i - 1 = i
  BY <1>1
<1>6. Len(front) = n - 1 /\ \A i \in 1..(n - 1) : front[i] = fs[i]
  BY <1>1, <1>3, <1>5
<1>7. fs[n] \in S
  BY <1>1
<1> QED BY <1>1, <1>3, <1>4, <1>6, <1>7 DEF n

LEMMA SetTopFacts ==
  ASSUME NEW S, NEW fs \in Seq(S), fs # <<>>, NEW f \in S
  PROVE  LET new == Append(Front(fs), f) IN
         /\ new \in Seq(S) /\ Len(new) = Len(fs) /\ new[Len(fs)] = f
         /\ \A i \in 1..(Len(fs) - 1) : new[i] = fs[i]
<1>1. /\ Front(fs) \in Seq(S) /\ Len(Front(fs)) = Len(fs) - 1 /\ Len(fs) \in Nat \ {0}
      /\ \A i \in 1..(Len(fs) - 1) : Front(fs)[i] = fs[i]
  BY TopFacts
<1> QED BY <1>1, AppendProperties

LEMMA PushFacts ==
  ASSUME NEW S, NEW fs \in Seq(S), fs # <<>>, NEW f \in S, NEW g \in S
  PROVE  LET new == Front(fs) \o <<f, g>> IN
         /\ new \in Seq(S) /\ Len(new) = Len(fs) + 1
         /\ new[Len(fs)] = f /\ new[Len(fs) + 1] = g
         /\ \A i \in 1..(Len(fs) - 1) : new[i] = fs[i]
<1> DEFINE two == <<f, g>>
<1>1. two \in Seq(S) /\ Len(two) = 2 /\ two[1] = f /\ two[2] = g
  OBVIOUS
<1>2. /\ Front(fs) \in Seq(S) /\ Len(Front(fs)) = Len(fs) - 1 /\ Len(fs) \in Nat \ {0}
      /\ \A i \in 1..(Len(fs) - 1) : Front(fs)[i] = fs[i]
  BY TopFacts
<1> HIDE DEF two
<1>3. /\ Front(fs) \o two \in Seq(S)
      /\ Len(Front(fs) \o two) = Len(Front(fs)) + Len(two)
      /\ \A i \in 1..(Len(Front(fs)) + Len(two)) :
           (Front(fs) \o two)[i] = IF i <= Len(Front(fs)) THEN Front(fs)[i]
                                   ELSE two[i - Len(Front(fs))]
  BY <1>1, <1>2, ConcatProperties
<1>4. /\ Len(Front(fs) \o two) = Len(fs) + 1
      /\ (Front(fs) \o two)[Len(fs)] = two[1] /\ (Front(fs) \o two)[Len(fs) + 1] = two[2]
      /\ \A i \in 1..(Len(fs) - 1) : (Front(fs) \o two)[i] = fs[i]
  BY <1>1, <1>2, <1>3
<1> QED BY <1>1, <1>3, <1>4 DEF two

(* What `Return` leaves of a stack of several frames.                      *)
Popped(fs, f) == Append(Front(Front(fs)), f)

LEMMA PopFacts ==
  ASSUME NEW S, NEW fs \in Seq(S), Len(fs) > 1, NEW f \in S
  PROVE  /\ Last(Front(fs)) = fs[Len(fs) - 1] /\ Last(Front(fs)) \in S
         /\ Popped(fs, f) \in Seq(S) /\ Len(Popped(fs, f)) = Len(fs) - 1
         /\ Popped(fs, f)[Len(fs) - 1] = f
         /\ \A i \in 1..(Len(fs) - 2) : Popped(fs, f)[i] = fs[i]
<1>1. fs # <<>> /\ Len(fs) \in Nat
  BY EmptySeq
<1>2. /\ Front(fs) \in Seq(S) /\ Len(Front(fs)) = Len(fs) - 1
      /\ \A i \in 1..(Len(fs) - 1) : Front(fs)[i] = fs[i]
  BY <1>1, TopFacts
<1>3. Front(fs) # <<>>
  BY <1>1, <1>2, EmptySeq
<1>4. Last(Front(fs)) = Front(fs)[Len(Front(fs))] /\ Last(Front(fs)) \in S
  BY <1>2, <1>3, TopFacts
<1>5. /\ Append(Front(Front(fs)), f) \in Seq(S)
      /\ Len(Append(Front(Front(fs)), f)) = Len(Front(fs))
      /\ Append(Front(Front(fs)), f)[Len(Front(fs))] = f
      /\ \A i \in 1..(Len(Front(fs)) - 1) : Append(Front(Front(fs)), f)[i] = Front(fs)[i]
  BY <1>2, <1>3, SetTopFacts
<1>6. /\ Popped(fs, f) \in Seq(S) /\ Len(Popped(fs, f)) = Len(Front(fs))
      /\ Popped(fs, f)[Len(Front(fs))] = f
      /\ \A i \in 1..(Len(Front(fs)) - 1) : Popped(fs, f)[i] = Front(fs)[i]
  BY <1>5 DEF Popped
<1> QED BY <1>1, <1>2, <1>4, <1>6

-----------------------------------------------------------------------------
(* What a step leaves of the stacks.                                       *)

OpenNext(s) == s # NoSession /\ end'[s] = "open"   \* IsOpen after the step

(* The stack of a call of which a step takes neither the frames, the locks *)
(* nor the emptiness of the slots it locked.                               *)
LEMMA SameStack ==
  ASSUME TypeInv, NEW d \in Calls, GoodStack(d), frames'[d] = frames[d],
         \A h \in Hosts : lock[h] = d /\ ~IsOpen(table[h]) =>
            lock'[h] = d /\ ~OpenNext(table'[h])
  PROVE  GoodStack(d)'
<1>1. /\ DOMAIN frames[d] = 1..Len(frames[d])
      /\ \A i \in DOMAIN frames[d] : frames[d][i] \in FrameSet
  BY LenProperties, ElementOfSeq DEF TypeInv
<1>2. \A i \in DOMAIN frames[d] : frames[d][i].host \in Hosts
  BY <1>1 DEF FrameSet
<1> QED BY <1>1, <1>2 DEF GoodStack, Planned, Dials, IsOpen, OpenNext

LEMMA EmptyStack ==
  ASSUME TypeInv, NEW c \in Calls, frames' = [frames EXCEPT ![c] = <<>>]
  PROVE  frames' \in [Calls -> Seq(FrameSet)] /\ GoodStack(c)'
<1>1. frames'[c] = <<>> /\ frames' \in [Calls -> Seq(FrameSet)]
  BY EmptySeq DEF TypeInv
<1> QED BY <1>1 DEF GoodStack

(* A step forward in the top frame.                                        *)
LEMMA RetopGood ==
  ASSUME TypeInv, NEW c \in Calls, frames[c] # <<>>, GoodStack(c),
         NEW f \in FrameSet, SetTop(c, f), Planned(f),
         f.host = Top(c).host, f.lane = Top(c).lane,
         \A h \in Hosts : lock[h] = c /\ ~IsOpen(table[h]) =>
            lock'[h] = c /\ ~OpenNext(table'[h]),
         Dials(f) => \/ Dials(Top(c))
                     \/ /\ lock[f.host] = NoCall /\ lock'[f.host] = c
                        /\ ~OpenNext(table'[f.host])
  PROVE  frames' \in [Calls -> Seq(FrameSet)] /\ GoodStack(c)'
<1> DEFINE fs == frames[c]
           n == Len(fs)
           new == frames'[c]
<1>1. fs \in Seq(FrameSet) /\ n \in Nat \ {0} /\ Top(c) = fs[n] /\ DOMAIN fs = 1..n
      /\ \A i \in 1..n : fs[i] \in FrameSet /\ fs[i].host \in Hosts
  <2>1. fs \in Seq(FrameSet)
    BY DEF TypeInv
  <2>2. n \in Nat \ {0} /\ Last(fs) = fs[n] /\ DOMAIN fs = 1..n /\ \A i \in 1..n : fs[i] \in FrameSet
    BY <2>1, TopFacts, LenProperties, ElementOfSeq
  <2> QED BY <2>1, <2>2 DEF Top, FrameSet
<1>2. new = Append(Front(fs), f) /\ \A d \in Calls \ {c} : frames'[d] = frames[d]
  BY DEF SetTop, TypeInv
<1>3. /\ new \in Seq(FrameSet) /\ Len(new) = n /\ new[n] = f /\ DOMAIN new = 1..n
      /\ \A i \in 1..(n - 1) : new[i] = fs[i]
  BY <1>1, <1>2, SetTopFacts, LenProperties
<1>4. frames' \in [Calls -> Seq(FrameSet)]
  BY <1>2, <1>3 DEF SetTop, TypeInv
<1>G. \A i \in 1..n : /\ fs[i] \in FrameSet /\ fs[i].host \in Hosts
                      /\ i # n => fs[i].pc = "bastion"
                      /\ Planned(fs[i])
                      /\ Dials(fs[i]) => lock[fs[i].host] = c /\ ~IsOpen(table[fs[i].host])
  BY <1>1 DEF GoodStack
<1>H. \A i, j \in 1..n : Dials(fs[i]) /\ Dials(fs[j]) /\ fs[i].host = fs[j].host => i = j
  BY <1>1 DEF GoodStack
<1>5. Top(c) = fs[n] /\ f.host = fs[n].host
  BY <1>1
<1> HIDE DEF fs, n, new
<1>6. ASSUME NEW i \in 1..n
      PROVE  /\ i # n => new[i].pc = "bastion"
             /\ Planned(new[i])
             /\ Dials(new[i]) => lock'[new[i].host] = c /\ ~OpenNext(table'[new[i].host])
  <2>1. CASE i = n
    <3>1. new[i] = f /\ f.host \in Hosts
      BY <1>1, <1>3, <1>5, <1>G, <2>1
    <3>2. Dials(f) => lock'[f.host] = c /\ ~OpenNext(table'[f.host])
      BY <1>1, <1>5, <1>G, <3>1
    <3> QED BY <2>1, <3>1, <3>2
  <2>2. CASE i # n
    <3>1. new[i] = fs[i]
      BY <1>1, <1>3, <2>2
    <3> QED BY <1>G, <2>2, <3>1
  <2> QED BY <2>1, <2>2
<1>7. ASSUME NEW k \in 1..n, k # n, Dials(fs[k]), Dials(f), fs[k].host = f.host PROVE FALSE
  <2>1. lock[f.host] = c
    BY <1>G, <1>7
  <2>2. Dials(fs[n])
    BY <1>5, <1>7, <2>1, PoolAssumption
  <2> QED BY <1>1, <1>5, <1>H, <1>7, <2>2
<1>8. ASSUME NEW i \in 1..n, NEW j \in 1..n, Dials(new[i]), Dials(new[j]), new[i].host = new[j].host
      PROVE  i = j
  <2>1. \A k \in 1..n : new[k] = IF k = n THEN f ELSE fs[k]
    BY <1>1, <1>3
  <2> QED BY <1>7, <1>8, <1>H, <2>1
<1>9. \A i \in DOMAIN new :
        /\ i # Len(new) => new[i].pc = "bastion"
        /\ Planned(new[i])
        /\ Dials(new[i]) => /\ lock'[new[i].host] = c /\ ~OpenNext(table'[new[i].host])
                            /\ \A j \in DOMAIN new : Dials(new[j]) /\ new[j].host = new[i].host => i = j
  BY <1>3, <1>6, <1>8
<1> QED BY <1>4, <1>9 DEF GoodStack, Planned, Dials, new, IsOpen, OpenNext

(* The top frame turns to its bastion.                                     *)
LEMMA PushGood ==
  ASSUME TypeInv, NEW c \in Calls, frames[c] # <<>>, GoodStack(c),
         NEW f \in FrameSet, NEW g \in FrameSet, Planned(f),
         frames' = [frames EXCEPT ![c] = Front(@) \o <<f, g>>],
         f.pc = "bastion", g.pc = "lookup",
         f.host = Top(c).host, f.lane = Top(c).lane, Dials(f) => Dials(Top(c)),
         UNCHANGED <<lock, table, end>>
  PROVE  frames' \in [Calls -> Seq(FrameSet)] /\ GoodStack(c)'
<1> DEFINE fs == frames[c]
           n == Len(fs)
           new == frames'[c]
<1>1. fs \in Seq(FrameSet) /\ n \in Nat \ {0} /\ Top(c) = fs[n] /\ DOMAIN fs = 1..n
      /\ \A i \in 1..n : fs[i] \in FrameSet /\ fs[i].host \in Hosts
  <2>1. fs \in Seq(FrameSet)
    BY DEF TypeInv
  <2>2. n \in Nat \ {0} /\ Last(fs) = fs[n] /\ DOMAIN fs = 1..n /\ \A i \in 1..n : fs[i] \in FrameSet
    BY <2>1, TopFacts, LenProperties, ElementOfSeq
  <2> QED BY <2>1, <2>2 DEF Top, FrameSet
<1>2. new = Front(fs) \o <<f, g>> /\ \A d \in Calls \ {c} : frames'[d] = frames[d]
  BY DEF TypeInv
<1>3. /\ new \in Seq(FrameSet) /\ Len(new) = n + 1 /\ new[n] = f /\ new[n + 1] = g
      /\ DOMAIN new = 1..(n + 1) /\ \A i \in 1..(n - 1) : new[i] = fs[i]
  BY <1>1, <1>2, PushFacts, LenProperties
<1>4. frames' \in [Calls -> Seq(FrameSet)]
  BY <1>2, <1>3 DEF TypeInv
<1>5. Planned(g) /\ ~Dials(g)
  BY DEF Planned, Dials, DiallingPcs
<1>G. \A i \in 1..n : /\ fs[i] \in FrameSet /\ fs[i].host \in Hosts
                      /\ i # n => fs[i].pc = "bastion"
                      /\ Planned(fs[i])
                      /\ Dials(fs[i]) => lock[fs[i].host] = c /\ ~IsOpen(table[fs[i].host])
  BY <1>1 DEF GoodStack
<1>H. \A i, j \in 1..n : Dials(fs[i]) /\ Dials(fs[j]) /\ fs[i].host = fs[j].host => i = j
  BY <1>1 DEF GoodStack
<1>6. /\ f.host = fs[n].host /\ (Dials(f) => Dials(fs[n]))
      /\ \A h : IsOpen(table[h])' = IsOpen(table[h])
  BY <1>1 DEF IsOpen
<1> HIDE DEF fs, n, new
<1>7. /\ \A i \in 1..n : new[i] = IF i = n THEN f ELSE fs[i]
      /\ n \in 1..n /\ n + 1 \notin 1..n /\ \A i \in 1..(n + 1) : i # n + 1 => i \in 1..n
  <2>1. n \in Nat \ {0} /\ new[n] = f /\ \A i \in 1..(n - 1) : new[i] = fs[i]
    BY <1>1, <1>3
  <2>2. \A i \in 1..n : i # n => i \in 1..(n - 1)
    BY <2>1
  <2> QED BY <2>1, <2>2
<1>8. ASSUME NEW i \in 1..n
      PROVE  /\ new[i].pc = "bastion" /\ Planned(new[i]) /\ new[i].host = fs[i].host
             /\ Dials(new[i]) => Dials(fs[i])
  BY <1>6, <1>7, <1>G
<1>9. \A i \in DOMAIN new :
        /\ i # Len(new) => new[i].pc = "bastion"
        /\ Planned(new[i])
        /\ Dials(new[i]) => /\ lock[new[i].host] = c /\ ~IsOpen(table[new[i].host])
                            /\ \A j \in DOMAIN new : Dials(new[j]) /\ new[j].host = new[i].host => i = j
  <2> SUFFICES ASSUME NEW i \in 1..(n + 1)
               PROVE  /\ i # n + 1 => new[i].pc = "bastion"
                      /\ Planned(new[i])
                      /\ Dials(new[i]) =>
                           /\ lock[new[i].host] = c /\ ~IsOpen(table[new[i].host])
                           /\ \A j \in 1..(n + 1) : Dials(new[j]) /\ new[j].host = new[i].host => i = j
    BY <1>3
  <2>1. CASE i = n + 1
    BY <1>3, <1>5, <2>1
  <2>2. CASE i \in 1..n
    BY <1>3, <1>5, <1>7, <1>8, <1>G, <1>H, <2>2
  <2> QED BY <1>7, <2>1, <2>2
<1> QED BY <1>4, <1>6, <1>9 DEF GoodStack, Planned, Dials, new, IsOpen, OpenNext

(* The top frame is done: the one below goes on with its bastion, unless   *)
(* it was the last.                                                        *)
LEMMA ReturnGood ==
  ASSUME TypeInv, NEW c \in Calls, frames[c] # <<>>, GoodStack(c), NEW s \in Nat, Return(c, s),
         \A i \in 1..(Len(frames[c]) - 1) : Dials(frames[c][i]) =>
            lock'[frames[c][i].host] = c /\ ~OpenNext(table'[frames[c][i].host])
  PROVE  frames' \in [Calls -> Seq(FrameSet)] /\ GoodStack(c)'
<1> DEFINE fs == frames[c]
           n == Len(fs)
           new == frames'[c]
<1>1. fs \in Seq(FrameSet) /\ n \in Nat \ {0} /\ DOMAIN fs = 1..n /\ \A i \in 1..n : fs[i] \in FrameSet
  <2>1. fs \in Seq(FrameSet)
    BY DEF TypeInv
  <2> QED BY <2>1, TopFacts, LenProperties, ElementOfSeq
<1>G. \A i \in 1..n : /\ i # n => fs[i].pc = "bastion"
                      /\ Planned(fs[i])
  BY <1>1 DEF GoodStack
<1>H. \A i, j \in 1..n : Dials(fs[i]) /\ Dials(fs[j]) /\ fs[i].host = fs[j].host => i = j
  BY <1>1 DEF GoodStack
<1>2. CASE n > 1
  <2> DEFINE below == Last(Front(fs))
             g == [below EXCEPT !.parent = s, !.pc = "slot"]
  <2>1. Len(fs) > 1 /\ fs[1] \in FrameSet
    BY <1>1, <1>2
  <2>2. below = fs[n - 1] /\ below \in FrameSet
    BY <1>1, <2>1, PopFacts
  <2>3. new = Popped(fs, g) /\ frames' = [frames EXCEPT ![c] = new]
    BY <1>2 DEF Return, TypeInv, Popped
  <2>4. /\ g \in FrameSet /\ g.pc = "slot" /\ g.host = below.host /\ g.lane = below.lane
        /\ g.cfg = below.cfg
    <3>1. PICK b \in FrameSet : b = below
      BY <2>2
    <3>2. /\ [b EXCEPT !.parent = s, !.pc = "slot"] \in FrameSet
          /\ [b EXCEPT !.parent = s, !.pc = "slot"].pc = "slot"
          /\ [b EXCEPT !.parent = s, !.pc = "slot"].host = b.host
          /\ [b EXCEPT !.parent = s, !.pc = "slot"].lane = b.lane
          /\ [b EXCEPT !.parent = s, !.pc = "slot"].cfg = b.cfg
      BY DEF FrameSet, DiallingPcs
    <3> QED BY <3>1, <3>2
  <2> HIDE DEF g
  <2>5. /\ new \in Seq(FrameSet) /\ Len(new) = n - 1 /\ new[n - 1] = g /\ DOMAIN new = 1..(n - 1)
        /\ \A i \in 1..(n - 2) : new[i] = fs[i]
    <3> HIDE DEF fs, below
    <3>1. /\ Popped(fs, g) \in Seq(FrameSet) /\ Len(Popped(fs, g)) = n - 1
          /\ Popped(fs, g)[n - 1] = g /\ \A i \in 1..(n - 2) : Popped(fs, g)[i] = fs[i]
      <4>1. fs \in Seq(FrameSet) /\ g \in FrameSet /\ Len(fs) > 1
        BY <1>1, <2>1, <2>4
      <4>2. Popped(fs, g) \in Seq(FrameSet)
        BY <4>1, PopFacts
      <4>3. Len(Popped(fs, g)) = n - 1
        BY <4>1, PopFacts
      <4>4. Popped(fs, g)[n - 1] = g
        BY <4>1, PopFacts
      <4>5. \A i \in 1..(n - 2) : Popped(fs, g)[i] = fs[i]
        BY <4>1, PopFacts
      <4> QED BY <4>2, <4>3, <4>4, <4>5
    <3>2. DOMAIN Popped(fs, g) = 1..Len(Popped(fs, g))
      BY <3>1, LenProperties
    <3> QED BY <2>3, <3>1, <3>2
  <2>6. frames' \in [Calls -> Seq(FrameSet)]
    BY <2>3, <2>5 DEF TypeInv
  <2>7. \A i \in 1..(n - 1) : Dials(fs[i]) => lock'[fs[i].host] = c /\ ~OpenNext(table'[fs[i].host])
    OBVIOUS
  <2> HIDE DEF below, fs, n, new
  <2>8. /\ fs[n - 1].pc = "bastion" /\ Planned(fs[n - 1]) /\ n - 1 \in 1..(n - 1)
        /\ \A i \in 1..(n - 1) : i \in 1..n /\ i # n /\ (i # n - 1 => i \in 1..(n - 2))
    BY <1>1, <1>2, <1>G
  <2>9. Planned(g) /\ (Dials(g) => Dials(fs[n - 1]))
    BY <2>2, <2>4, <2>8 DEF Planned, Dials, DiallingPcs
  <2>10. \A i \in 1..(n - 1) : new[i] = IF i = n - 1 THEN g ELSE fs[i]
    BY <2>5, <2>8
  <2>11. ASSUME NEW i \in 1..(n - 1)
         PROVE  /\ Dials(new[i]) => Dials(fs[i])
                /\ new[i].host = fs[i].host
                /\ i # n - 1 => new[i].pc = "bastion"
                /\ Planned(new[i])
    BY <1>G, <2>2, <2>4, <2>8, <2>9, <2>10
  <2>12. \A i \in DOMAIN new :
           /\ i # Len(new) => new[i].pc = "bastion"
           /\ Planned(new[i])
           /\ Dials(new[i]) => /\ lock'[new[i].host] = c /\ ~OpenNext(table'[new[i].host])
                               /\ \A j \in DOMAIN new : Dials(new[j]) /\ new[j].host = new[i].host => i = j
    BY <1>H, <2>5, <2>7, <2>8, <2>11
  <2> QED BY <2>6, <2>12 DEF GoodStack, Planned, Dials, new, IsOpen, OpenNext
<1>3. CASE ~(n > 1)
  <2>1. frames' = [frames EXCEPT ![c] = <<>>]
    BY <1>3 DEF Return
  <2> QED BY <2>1, EmptyStack
<1> QED BY <1>2, <1>3

-----------------------------------------------------------------------------
(* What a step leaves of the table.                                        *)

Quiet == \A h \in Hosts : /\ table'[h] \in {table[h], NoSession}
                          /\ ~IsOpen(table[h]) => ~OpenNext(table'[h])

LEMMA QuietTable ==
  ASSUME TypeInv, \A h \in Hosts : table'[h] \in {table[h], NoSession},
         UNCHANGED end \/ \E S, why : Ended(S, why) /\ why \in {"asked", "idle", "lost"}
  PROVE  Quiet /\ end' \in [Ids -> {"open", "asked", "idle", "lost"}]
<1>1. ASSUME NEW h \in Hosts, ~IsOpen(table[h]) PROVE ~OpenNext(table'[h])
  <2>1. CASE UNCHANGED end
    BY <1>1, <2>1 DEF IsOpen, OpenNext
  <2>2. ASSUME NEW S, NEW why, Ended(S, why), why \in {"asked", "idle", "lost"}
        PROVE  ~OpenNext(table'[h])
    <3>1. CASE table'[h] = NoSession
      BY <3>1 DEF OpenNext
    <3>2. CASE table'[h] = table[h] /\ table[h] # NoSession
      <4>1. table[h] \in Ids
        <5>1. table[h] \in Nat /\ table[h] <= Len(sess) /\ Len(sess) <= MaxSessions /\ Len(sess) \in Nat
          BY LenProperties DEF TypeInv
        <5> QED BY <3>2, <5>1, PoolAssumption DEF NoSession, Ids
      <4> QED BY <1>1, <2>2, <3>2, <4>1 DEF Ended, IsOpen, OpenNext
    <3> QED BY <3>1, <3>2
  <2> QED BY <2>1, <2>2
<1>2. end' \in [Ids -> {"open", "asked", "idle", "lost"}]
  BY DEF TypeInv, Ended
<1> QED BY <1>1, <1>2 DEF Quiet

LEMMA ForgetQuiet ==
  ASSUME TypeInv, NEW h \in Hosts, Forget(h), UNCHANGED end
  PROVE  /\ Quiet /\ table' \in [Hosts -> Nat]
         /\ \A g \in Hosts : table'[g] \in {table[g], NoSession}
         /\ Fresh(h) => table' = table
         /\ ~Fresh(h) => ~OpenNext(table'[h])
<1>1. /\ table' = [table EXCEPT ![h] = IF Fresh(h) THEN table[h] ELSE NoSession]
      /\ table \in [Hosts -> Nat]
  BY DEF Forget, TypeInv
<1>2. table' \in [Hosts -> Nat] /\ \A g \in Hosts : table'[g] \in {table[g], NoSession}
  BY <1>1 DEF NoSession
<1>3. ~Fresh(h) => ~OpenNext(table'[h])
  BY <1>1 DEF OpenNext
<1> QED BY <1>1, <1>2, <1>3, QuietTable

(* What is known of a session stays known while it is in the table.        *)
LEMMA StillDescribed ==
  ASSUME TypeInv, NEW h \in Hosts, Described(h), table'[h] \in {table[h], NoSession},
         UNCHANGED <<cfg, prune>>, \A s \in 1..Len(sess) : sess'[s] = sess[s]
  PROVE  Described(h)'
<1>1. CASE table'[h] = NoSession
  BY <1>1 DEF Described
<1>2. CASE table'[h] = table[h] /\ table[h] # NoSession
  <2>1. table[h] \in 1..Len(sess)
    <3>1. table[h] \in Nat /\ table[h] <= Len(sess) /\ Len(sess) \in Nat
      BY LenProperties DEF TypeInv
    <3> QED BY <1>2, <3>1 DEF NoSession
  <2>2. sess'[table'[h]] = sess[table[h]]
    BY <1>2, <2>1
  <2> QED BY <1>2, <2>2 DEF Described, Follows
<1> QED BY <1>1, <1>2

(* A step of one call that leaves the sessions, the locks of the others    *)
(* and the configuration alone.                                            *)
LEMMA CallStepKeepsIInv ==
  ASSUME IInv, NEW c \in Calls,
         Quiet, table' \in [Hosts -> Nat],
         UNCHANGED <<cfg, prune, sess, end>>,
         lock' \in [Hosts -> Calls \cup {NoCall}],
         \A h \in Hosts : lock[h] \notin {c, NoCall} => lock'[h] = lock[h],
         frames' \in [Calls -> Seq(FrameSet)],
         \A d \in Calls \ {c} : frames'[d] = frames[d],
         GoodStack(c)'
  PROVE  IInv'
<1>1. \A h \in Hosts : table'[h] <= Len(sess)
  <2>1. Len(sess) \in Nat
    BY LenProperties DEF IInv, TypeInv
  <2>2. ASSUME NEW h \in Hosts PROVE table'[h] <= Len(sess)
    <3>1. table[h] \in Nat /\ table[h] <= Len(sess)
      BY DEF IInv, TypeInv
    <3>2. table'[h] = table[h] \/ table'[h] = 0
      BY DEF Quiet, NoSession
    <3> QED BY <2>1, <3>1, <3>2
  <2> QED BY <2>2
<1>2. TypeInv'
  BY <1>1 DEF IInv, TypeInv
<1>3. ASSUME NEW d \in Calls \ {c} PROVE GoodStack(d)'
  <2>1. d \in Calls /\ d \notin {c, NoCall}
    BY PoolAssumption
  <2>2. \A h \in Hosts : lock[h] = d /\ ~IsOpen(table[h]) => lock'[h] = d /\ ~OpenNext(table'[h])
    BY <2>1 DEF Quiet
  <2> QED BY <2>1, <2>2, SameStack DEF IInv
<1>4. ASSUME NEW h \in Hosts PROVE Described(h)'
  BY <1>4, StillDescribed DEF IInv, Quiet
<1> QED BY <1>2, <1>3, <1>4 DEF IInv

(* The call's stack is dropped, with its locks.                            *)
LEMMA DropKeepsIInv ==
  ASSUME IInv, NEW c \in Calls, lock' = Unlocked(c), frames' = [frames EXCEPT ![c] = <<>>],
         Quiet, table' \in [Hosts -> Nat], UNCHANGED <<cfg, prune, sess, end>>
  PROVE  IInv'
<1>1. lock' \in [Hosts -> Calls \cup {NoCall}] /\ \A h \in Hosts : lock[h] \notin {c, NoCall} => lock'[h] = lock[h]
  BY DEF Unlocked, IInv, TypeInv
<1>2. \A d \in Calls \ {c} : frames'[d] = frames[d]
  BY DEF IInv, TypeInv
<1> QED BY <1>1, <1>2, EmptyStack, CallStepKeepsIInv DEF IInv

LEMMA FailKeepsIInv ==
  ASSUME IInv, NEW c \in Calls, Fail(c), Quiet, table' \in [Hosts -> Nat], UNCHANGED shared
  PROVE  IInv'
BY DropKeepsIInv DEF Fail, shared

(* A step that touches neither stacks, locks nor the table.                *)
LEMMA UnrelatedKeepsIInv ==
  ASSUME IInv, UNCHANGED <<cfg, prune, sess, end, table, lock, frames>>
  PROVE  IInv'
<1>1. TypeInv'
  BY DEF IInv, TypeInv
<1>2. ASSUME NEW d \in Calls PROVE GoodStack(d)'
  BY <1>2 DEF IInv, GoodStack, IsOpen
<1>3. ASSUME NEW h \in Hosts PROVE Described(h)'
  BY <1>3 DEF IInv, Described
<1> QED BY <1>1, <1>2, <1>3 DEF IInv

-----------------------------------------------------------------------------
(* The steps.                                                              *)

LEMMA TopFrame ==
  ASSUME TypeInv, NEW c \in Calls, frames[c] # <<>>
  PROVE  /\ Top(c) \in FrameSet /\ Top(c).host \in Hosts /\ Len(frames[c]) \in Nat \ {0}
         /\ Top(c) = frames[c][Len(frames[c])] /\ DOMAIN frames[c] = 1..Len(frames[c])
<1>1. frames[c] \in Seq(FrameSet)
  BY DEF TypeInv
<1>2. /\ Top(c) \in FrameSet /\ Len(frames[c]) \in Nat \ {0}
      /\ Top(c) = frames[c][Len(frames[c])]
  BY <1>1, TopFacts DEF Top
<1>3. DOMAIN frames[c] = 1..Len(frames[c])
  BY <1>1, LenProperties
<1>4. Top(c).host \in Hosts
  BY <1>2 DEF FrameSet
<1> QED BY <1>2, <1>3, <1>4

(* A call that only moves its top frame on.                                *)
LEMMA MoveOn ==
  ASSUME IInv, NEW c \in Calls, frames[c] # <<>>, Quiet, table' \in [Hosts -> Nat],
         NEW f \in FrameSet, SetTop(c, f), Planned(f),
         f.host = Top(c).host, f.lane = Top(c).lane,
         UNCHANGED <<cfg, prune, sess, end>>,
         \/ UNCHANGED lock /\ (Dials(f) => Dials(Top(c)))
         \/ /\ lock[f.host] = NoCall /\ lock' = [lock EXCEPT ![f.host] = c]
            /\ ~OpenNext(table'[f.host])
  PROVE  IInv'
<1>1. f.host \in Hosts
  BY DEF FrameSet
<1>2. /\ lock' \in [Hosts -> Calls \cup {NoCall}]
      /\ \A h \in Hosts : lock[h] # NoCall => lock'[h] = lock[h]
  BY <1>1 DEF IInv, TypeInv
<1>3. \A h \in Hosts : lock[h] = c /\ ~IsOpen(table[h]) => lock'[h] = c /\ ~OpenNext(table'[h])
  BY <1>2, PoolAssumption DEF Quiet
<1>4. Dials(f) => \/ Dials(Top(c))
                  \/ lock[f.host] = NoCall /\ lock'[f.host] = c /\ ~OpenNext(table'[f.host])
  BY <1>1 DEF IInv, TypeInv
<1>5. \A d \in Calls \ {c} : frames'[d] = frames[d]
  BY DEF SetTop, IInv, TypeInv
<1>6. frames' \in [Calls -> Seq(FrameSet)] /\ GoodStack(c)'
  BY <1>3, <1>4, RetopGood DEF IInv
<1> QED BY <1>2, <1>5, <1>6, CallStepKeepsIInv

(* A call that finds a session in the table.                               *)
LEMMA FoundKeepsIInv ==
  ASSUME IInv, NEW c \in Calls, frames[c] # <<>>, Quiet, table' \in [Hosts -> Nat],
         NEW h \in Hosts, Return(c, table[h]), UNCHANGED <<cfg, prune, sess, end, lock>>
  PROVE  IInv'
<1>1. table[h] \in Nat /\ lock' \in [Hosts -> Calls \cup {NoCall}]
  BY DEF IInv, TypeInv
<1>2. \A d \in Calls \ {c} : frames'[d] = frames[d]
  BY DEF Return, IInv, TypeInv
<1>3. \A i \in 1..(Len(frames[c]) - 1) : Dials(frames[c][i]) =>
        lock'[frames[c][i].host] = c /\ ~OpenNext(table'[frames[c][i].host])
  <2> SUFFICES ASSUME NEW i \in 1..(Len(frames[c]) - 1), Dials(frames[c][i])
               PROVE  lock[frames[c][i].host] = c /\ ~OpenNext(table'[frames[c][i].host])
    OBVIOUS
  <2>1. i \in DOMAIN frames[c] /\ frames[c][i] \in FrameSet
    <3>1. frames[c] \in Seq(FrameSet) /\ i \in 1..Len(frames[c])
      BY TopFrame DEF IInv, TypeInv
    <3> QED BY <3>1, LenProperties, ElementOfSeq
  <2>2. frames[c][i].host \in Hosts
    BY <2>1 DEF FrameSet
  <2> QED BY <2>1, <2>2 DEF IInv, GoodStack, Quiet
<1>4. frames' \in [Calls -> Seq(FrameSet)] /\ GoodStack(c)'
  BY <1>1, <1>3, ReturnGood DEF IInv
<1> QED BY <1>1, <1>2, <1>4, CallStepKeepsIInv

LEMMA LookupKeepsIInv == ASSUME IInv, NEW c \in Calls, Lookup(c) PROVE IInv'
<1> DEFINE h == Top(c).host
<1>1. frames[c] # <<>> /\ Top(c).pc = "lookup" /\ Forget(h) /\ UNCHANGED shared
  BY DEF Lookup, At
<1>2. Top(c) \in FrameSet /\ h \in Hosts
  BY <1>1, TopFrame DEF IInv
<1>3. CASE /\ Fresh(h) /\ Return(c, table[h]) /\ UNCHANGED <<sess, end, lanevars, lock, slotOn>>
  BY <1>1, <1>2, <1>3, ForgetQuiet, FoundKeepsIInv DEF IInv, shared
<1>4. CASE Fail(c)
  <2>1. UNCHANGED end
    BY <1>4 DEF Fail
  <2> QED BY <1>1, <1>2, <1>4, <2>1, ForgetQuiet, FailKeepsIInv DEF IInv
<1>5. CASE /\ SetTop(c, [Top(c) EXCEPT !.pc = "lock"])
           /\ UNCHANGED <<sess, end, lanevars, lock, phase, primary, slotOn>>
  <2> DEFINE f == [Top(c) EXCEPT !.pc = "lock"]
  <2>1. f \in FrameSet /\ f.host = h /\ f.lane = Top(c).lane /\ f.pc = "lock"
    BY <1>2 DEF FrameSet
  <2>2. Planned(f) /\ ~Dials(f)
    BY <2>1 DEF Planned, Dials, DiallingPcs
  <2>3. SetTop(c, f) /\ UNCHANGED <<cfg, prune, sess, end, lock>>
    BY <1>1, <1>5 DEF shared
  <2>4. Quiet /\ table' \in [Hosts -> Nat]
    BY <1>1, <1>2, <2>3, ForgetQuiet DEF IInv
  <2> HIDE DEF f
  <2> QED BY <1>1, <2>1, <2>2, <2>3, <2>4, MoveOn
<1> QED BY <1>3, <1>4, <1>5 DEF Lookup

LEMMA LockKeepsIInv == ASSUME IInv, NEW c \in Calls, Lock(c) PROVE IInv'
<1> DEFINE h == Top(c).host
<1>1. /\ frames[c] # <<>> /\ Top(c).pc = "lock" /\ lock[h] = NoCall /\ Forget(h)
      /\ UNCHANGED <<sess, end, lanevars, slotOn, shared>>
  BY DEF Lock, At
<1>2. Top(c) \in FrameSet /\ h \in Hosts
  BY <1>1, TopFrame DEF IInv
<1>3. CASE Fresh(h) /\ Return(c, table[h]) /\ UNCHANGED lock
  BY <1>1, <1>2, <1>3, ForgetQuiet, FoundKeepsIInv DEF IInv, shared
<1>4. CASE /\ ~Fresh(h) /\ lock' = [lock EXCEPT ![h] = c]
           /\ SetTop(c, [Top(c) EXCEPT !.pc = "open"])
  <2> DEFINE f == [Top(c) EXCEPT !.pc = "open"]
  <2>1. f \in FrameSet /\ f.host = h /\ f.lane = Top(c).lane /\ f.pc = "open"
    BY <1>2 DEF FrameSet, DiallingPcs
  <2>2. Planned(f)
    BY <2>1 DEF Planned
  <2>3. SetTop(c, f) /\ UNCHANGED <<cfg, prune, sess, end>> /\ lock' = [lock EXCEPT ![f.host] = c]
    BY <1>1, <1>4, <2>1 DEF shared
  <2>4. Quiet /\ table' \in [Hosts -> Nat] /\ ~OpenNext(table'[f.host]) /\ lock[f.host] = NoCall
    BY <1>1, <1>2, <1>4, <2>1, ForgetQuiet DEF IInv
  <2> HIDE DEF f
  <2> QED BY <1>1, <2>1, <2>2, <2>3, <2>4, MoveOn
<1> QED BY <1>3, <1>4 DEF Lock

(* The table as it was.                                                    *)
LEMMA SameTable == ASSUME IInv, UNCHANGED <<table, end>> PROVE Quiet /\ table' \in [Hosts -> Nat]
BY QuietTable DEF IInv, TypeInv

LEMMA OpenKeepsIInv == ASSUME IInv, NEW c \in Calls, Open(c) PROVE IInv'
<1> DEFINE f == [Top(c) EXCEPT !.cfg = cfg]
<1>1. frames[c] # <<>> /\ Top(c).pc = "open" /\ UNCHANGED <<table, shared>>
  BY DEF Open, At
<1>2. Top(c) \in FrameSet /\ Top(c).host \in Hosts
  BY <1>1, TopFrame DEF IInv
<1>3. cfg \in DOMAIN Configs /\ cfg \in Nat
  BY PoolAssumption DEF IInv, TypeInv
<1>4. CASE Fail(c)
  <2>1. UNCHANGED end
    BY <1>4 DEF Fail
  <2> QED BY <1>1, <1>4, <2>1, SameTable, FailKeepsIInv
<1>5. CASE /\ f.host \in DOMAIN Configs[cfg]
           /\ LET jump == Configs[cfg][f.host].jump IN
              IF jump = Direct
              THEN SetTop(c, [f EXCEPT !.pc = "handshake"])
              ELSE frames' = [frames EXCEPT ![c] =
                      Front(@) \o <<[f EXCEPT !.pc = "bastion"], Frame(jump, "lookup", FALSE)>>]
           /\ UNCHANGED <<sess, end, lanevars, lock, phase, primary, slotOn>>
  <2>1. /\ f \in FrameSet /\ f.host = Top(c).host /\ f.lane = Top(c).lane /\ f.cfg = cfg
        /\ \A p \in {"handshake", "bastion"} :
             /\ [f EXCEPT !.pc = p] \in FrameSet
             /\ [f EXCEPT !.pc = p].host = f.host /\ [f EXCEPT !.pc = p].lane = f.lane
             /\ [f EXCEPT !.pc = p].cfg = cfg /\ [f EXCEPT !.pc = p].pc = p
    BY <1>2, <1>3 DEF FrameSet, DiallingPcs
  <2>2. \A p \in {"handshake", "bastion"} :
           /\ Planned([f EXCEPT !.pc = p])
           /\ Dials([f EXCEPT !.pc = p]) => Dials(Top(c))
    BY <1>1, <1>3, <1>5, <2>1 DEF Planned, Dials, DiallingPcs
  <2>3. UNCHANGED <<cfg, prune, sess, end, lock, table>>
    BY <1>1, <1>5 DEF shared
  <2> DEFINE jump == Configs[cfg][f.host].jump
             b == [f EXCEPT !.pc = "bastion"]
             g == Frame(jump, "lookup", FALSE)
             hs == [f EXCEPT !.pc = "handshake"]
  <2>4. CASE jump = Direct
    <3>1. SetTop(c, hs) /\ hs \in FrameSet /\ Planned(hs) /\ (Dials(hs) => Dials(Top(c)))
          /\ hs.host = Top(c).host /\ hs.lane = Top(c).lane
      BY <1>5, <2>1, <2>2, <2>4
    <3> HIDE DEF hs
    <3> QED BY <1>1, <2>3, <3>1, SameTable, MoveOn
  <2>5. CASE jump # Direct
    <3>1. jump \in Hosts
      BY <1>3, <1>5, <2>5, PoolAssumption
    <3>2. g \in FrameSet /\ g.pc = "lookup"
      BY <3>1 DEF Frame, FrameSet, NoSession
    <3>3. /\ frames' = [frames EXCEPT ![c] = Front(@) \o <<b, g>>]
          /\ b \in FrameSet /\ Planned(b) /\ b.pc = "bastion" /\ (Dials(b) => Dials(Top(c)))
          /\ b.host = Top(c).host /\ b.lane = Top(c).lane
      BY <1>5, <2>1, <2>2, <2>5
    <3> HIDE DEF b, g
    <3>4. frames' \in [Calls -> Seq(FrameSet)] /\ GoodStack(c)'
      BY <1>1, <2>3, <3>2, <3>3, PushGood DEF IInv
    <3>5. \A d \in Calls \ {c} : frames'[d] = frames[d]
      BY <3>3 DEF IInv, TypeInv
    <3>6. lock' \in [Hosts -> Calls \cup {NoCall}]
      BY <2>3 DEF IInv, TypeInv
    <3> QED BY <2>3, <3>4, <3>5, <3>6, SameTable, CallStepKeepsIInv
  <2> QED BY <2>4, <2>5
<1> QED BY <1>4, <1>5 DEF Open

LEMMA BastionSlotKeepsIInv == ASSUME IInv, NEW c \in Calls, BastionSlot(c) PROVE IInv'
<1> DEFINE f == [Top(c) EXCEPT !.pc = "handshake"]
<1>1. frames[c] # <<>> /\ Top(c).pc = "slot" /\ UNCHANGED <<table, shared>>
  BY DEF BastionSlot, At
<1>2. /\ Top(c) \in FrameSet /\ Len(frames[c]) \in DOMAIN frames[c]
      /\ Top(c) = frames[c][Len(frames[c])]
  BY <1>1, TopFrame DEF IInv
<1>3. CASE Fail(c)
  <2>1. UNCHANGED end
    BY <1>3 DEF Fail
  <2> QED BY <1>1, <1>3, <2>1, SameTable, FailKeepsIInv
<1>4. CASE SetTop(c, f) /\ UNCHANGED <<sess, end, lanevars, lock, phase, primary, slotOn>>
  <2>1. /\ f \in FrameSet /\ f.host = Top(c).host /\ f.lane = Top(c).lane /\ f.pc = "handshake"
        /\ f.cfg = Top(c).cfg
    BY <1>2 DEF FrameSet, DiallingPcs
  <2>2. Planned(Top(c))
    BY <1>2 DEF IInv, GoodStack
  <2>3. Planned(f) /\ (Dials(f) => Dials(Top(c)))
    BY <1>1, <2>1, <2>2 DEF Planned, Dials, DiallingPcs
  <2>4. UNCHANGED <<cfg, prune, sess, end, lock, table>>
    BY <1>1, <1>4 DEF shared
  <2> HIDE DEF f
  <2> QED BY <1>1, <1>4, <2>1, <2>3, <2>4, SameTable, MoveOn
<1> QED BY <1>3, <1>4 DEF BastionSlot

LEMMA KeyExchangeKeepsIInv == ASSUME IInv, NEW c \in Calls, KeyExchange(c) PROVE IInv'
<1> DEFINE f == [Top(c) EXCEPT !.pc = "auth"]
<1>1. /\ frames[c] # <<>> /\ Top(c).pc = "handshake" /\ SetTop(c, f)
      /\ UNCHANGED <<cfg, prune, sess, end, lock, table>>
  BY DEF KeyExchange, At, shared
<1>2. /\ Top(c) \in FrameSet /\ Len(frames[c]) \in DOMAIN frames[c]
      /\ Top(c) = frames[c][Len(frames[c])]
  BY <1>1, TopFrame DEF IInv
<1>3. /\ f \in FrameSet /\ f.host = Top(c).host /\ f.lane = Top(c).lane /\ f.pc = "auth"
      /\ f.cfg = Top(c).cfg
  BY <1>2 DEF FrameSet, DiallingPcs
<1>4. Planned(Top(c))
  BY <1>2 DEF IInv, GoodStack
<1>5. Planned(f) /\ (Dials(f) => Dials(Top(c)))
  BY <1>1, <1>3, <1>4 DEF Planned, Dials, DiallingPcs
<1> HIDE DEF f
<1> QED BY <1>1, <1>3, <1>5, SameTable, MoveOn

(* The new session is the last of all.                                     *)
LEMMA NewSession ==
  ASSUME TypeInv, NEW r \in SessionSet, sess' = Append(sess, r), Len(sess) < MaxSessions
  PROVE  /\ sess' \in Seq(SessionSet) /\ Len(sess') = Len(sess) + 1 /\ Len(sess') <= MaxSessions
         /\ Len(sess) \in Nat /\ sess'[Len(sess) + 1] = r
         /\ \A s \in 1..Len(sess) : sess'[s] = sess[s]
<1>1. sess \in Seq(SessionSet) /\ Len(sess) \in Nat /\ MaxSessions \in Nat
  BY LenProperties, PoolAssumption DEF TypeInv
<1>2. /\ sess' \in Seq(SessionSet) /\ Len(sess') = Len(sess) + 1 /\ sess'[Len(sess) + 1] = r
      /\ \A s \in 1..Len(sess) : sess'[s] = sess[s]
  BY <1>1, AppendProperties
<1> QED BY <1>1, <1>2

LEMMA ConnectedKeepsIInv == ASSUME IInv, NEW c \in Calls, Connected(c) PROVE IInv'
<1> DEFINE f == Top(c)
           s == Len(sess) + 1
           r == [host |-> f.host, parent |-> f.parent, from |-> f.cfg, at |-> cfg]
<1>1. /\ frames[c] # <<>> /\ f.pc = "auth" /\ Len(sess) < MaxSessions
      /\ sess' = Append(sess, r) /\ UNCHANGED <<end, cfg, prune>>
  BY DEF Connected, At, shared
<1>2. /\ f \in FrameSet /\ f.host \in Hosts /\ Len(frames[c]) \in DOMAIN frames[c]
      /\ f = frames[c][Len(frames[c])] /\ DOMAIN frames[c] = 1..Len(frames[c])
      /\ Len(frames[c]) \in Nat \ {0}
  BY <1>1, TopFrame DEF IInv
<1>3. cfg \in Nat /\ r \in SessionSet /\ r.from = f.cfg /\ r.at = cfg
  BY <1>2, PoolAssumption DEF IInv, TypeInv, FrameSet, SessionSet
<1>4. /\ sess' \in Seq(SessionSet) /\ Len(sess') = s /\ Len(sess') <= MaxSessions
      /\ Len(sess) \in Nat /\ sess'[s] = r
      /\ \A t \in 1..Len(sess) : sess'[t] = sess[t]
  BY <1>1, <1>3, NewSession DEF IInv
<1>5. Planned(f)
  BY <1>2 DEF IInv, GoodStack
<1>6. CASE f.lane
  <2>1. frames' = [frames EXCEPT ![c] = <<>>] /\ UNCHANGED <<table, lock>>
    BY <1>6 DEF Connected
  <2>2. frames' \in [Calls -> Seq(FrameSet)] /\ GoodStack(c)'
    BY <2>1, EmptyStack DEF IInv
  <2>3. TypeInv'
    BY <1>1, <1>4, <2>1, <2>2 DEF IInv, TypeInv
  <2>4. ASSUME NEW d \in Calls \ {c} PROVE GoodStack(d)'
    <3>1. frames'[d] = frames[d]
      BY <2>1 DEF IInv, TypeInv
    <3>2. \A h \in Hosts : ~IsOpen(table[h]) => ~OpenNext(table'[h])
      BY <1>1, <2>1 DEF IsOpen, OpenNext
    <3> QED BY <2>1, <3>1, <3>2, SameStack DEF IInv
  <2>5. ASSUME NEW h \in Hosts PROVE Described(h)'
    BY <1>1, <1>4, <2>1, StillDescribed DEF IInv
  <2> QED BY <2>2, <2>3, <2>4, <2>5 DEF IInv
<1>7. CASE ~f.lane
  <2>1. /\ table' = [table EXCEPT ![f.host] = s] /\ lock' = [lock EXCEPT ![f.host] = NoCall]
        /\ Return(c, s) /\ s \in Nat
    BY <1>4, <1>7 DEF Connected
  <2>2. Dials(f) /\ lock[f.host] = c
    BY <1>1, <1>2, <1>7 DEF IInv, GoodStack, Dials, DiallingPcs
  <2>3. /\ table' \in [Hosts -> Nat] /\ \A h \in Hosts : table'[h] <= Len(sess')
        /\ \A h \in Hosts \ {f.host} : table'[h] = table[h] /\ lock'[h] = lock[h]
        /\ lock' \in [Hosts -> Calls \cup {NoCall}] /\ table'[f.host] = s
    BY <1>2, <1>4, <2>1 DEF IInv, TypeInv
  <2>4. \A h \in Hosts \ {f.host} : ~IsOpen(table[h]) => ~OpenNext(table'[h])
    BY <1>1, <2>3 DEF IsOpen, OpenNext
  <2>5. ASSUME NEW i \in 1..(Len(frames[c]) - 1), Dials(frames[c][i])
        PROVE  lock'[frames[c][i].host] = c /\ ~OpenNext(table'[frames[c][i].host])
    <3>1. i \in DOMAIN frames[c] /\ i # Len(frames[c])
      BY <1>2
    <3>2. frames[c][i] \in FrameSet
      BY <1>2, <3>1, ElementOfSeq DEF IInv, TypeInv
    <3>3. /\ lock[frames[c][i].host] = c /\ ~IsOpen(table[frames[c][i].host])
          /\ frames[c][i].host # f.host
      BY <1>2, <2>2, <2>5, <3>1 DEF IInv, GoodStack
    <3>4. frames[c][i].host \in Hosts
      BY <3>2 DEF FrameSet
    <3> QED BY <2>3, <2>4, <3>3, <3>4
  <2>6. frames' \in [Calls -> Seq(FrameSet)] /\ GoodStack(c)'
    BY <1>1, <2>1, <2>5, ReturnGood DEF IInv
  <2>7. TypeInv'
    BY <1>1, <1>4, <2>3, <2>6 DEF IInv, TypeInv
  <2>8. ASSUME NEW d \in Calls \ {c} PROVE GoodStack(d)'
    <3>1. frames'[d] = frames[d]
      BY <2>1 DEF Return, IInv, TypeInv
    <3>2. \A h \in Hosts : lock[h] = d => h # f.host
      BY <2>2
    <3> QED BY <2>3, <2>4, <3>1, <3>2, SameStack DEF IInv
  <2>9. ASSUME NEW h \in Hosts PROVE Described(h)'
    <3>1. CASE h # f.host
      BY <1>1, <1>4, <2>3, <3>1, StillDescribed DEF IInv
    <3>2. CASE h = f.host
      <4>1. sess'[table'[h]] = r /\ cfg' = cfg
        BY <1>1, <1>4, <2>3, <3>2
      <4>2. f.host \in DOMAIN Configs[f.cfg]
        BY <1>1, <1>5 DEF Planned, DiallingPcs
      <4>3. r.from = r.at => h \in DOMAIN Configs[cfg] /\ cfg \in 1..cfg
        BY <1>3, <3>2, <4>2, PoolAssumption DEF IInv, TypeInv
      <4>4. \A l, m \in cfg..cfg : Follows(h, l, m)
        BY <1>3 DEF Follows
      <4>5. Described(h)' = (table'[h] # NoSession /\ r.from = r.at =>
              /\ r.from \in 1..cfg /\ h \in DOMAIN Configs[r.from]
              /\ \A l, m \in r.from..cfg :
                   l <= m /\ (\A j \in (l + 1)..m : h \notin prune[j]) => Follows(h, l, m))
        BY <1>1, <4>1 DEF Described, Follows
      <4> QED BY <1>3, <4>3, <4>4, <4>5
    <3> QED BY <3>1, <3>2
  <2> QED BY <2>6, <2>7, <2>8, <2>9 DEF IInv
<1> QED BY <1>6, <1>7

LEMMA OpenLaneKeepsIInv == ASSUME IInv, NEW c \in Calls, OpenLane(c) PROVE IInv'
<1> DEFINE g == Frame(HostOf[c], "open", TRUE)
<1>1. UNCHANGED <<cfg, prune, sess, end, table, lock>>
  BY DEF OpenLane, shared
<1>2. CASE UNCHANGED frames
  BY <1>1, <1>2, UnrelatedKeepsIInv
<1>3. CASE frames' = [frames EXCEPT ![c] = <<g>>]
  <2>1. g \in FrameSet /\ g.pc = "open" /\ g.lane
    BY PoolAssumption DEF Frame, FrameSet, DiallingPcs, NoSession
  <2>2. Planned(g) /\ ~Dials(g)
    BY <2>1 DEF Planned, Dials
  <2> HIDE DEF g
  <2>3. /\ <<g>> \in Seq(FrameSet) /\ Len(<<g>>) = 1 /\ DOMAIN <<g>> = {1} /\ <<g>>[1] = g
    BY <2>1
  <2>4. /\ frames'[c] = <<g>> /\ \A d \in Calls \ {c} : frames'[d] = frames[d]
        /\ frames' \in [Calls -> Seq(FrameSet)]
    BY <1>3, <2>3 DEF IInv, TypeInv
  <2>5. GoodStack(c)'
    BY <2>2, <2>3, <2>4 DEF GoodStack, Planned, Dials
  <2>6. lock' \in [Hosts -> Calls \cup {NoCall}]
    BY <1>1 DEF IInv, TypeInv
  <2> QED BY <1>1, <2>4, <2>5, <2>6, SameTable, CallStepKeepsIInv
<1> QED BY <1>2, <1>3 DEF OpenLane

(* What takes a session away, and a reload, touch no call.                 *)
LEMMA EventKeepsIInv ==
  ASSUME IInv, UNCHANGED <<sess, lock, frames>>,
         table' \in [Hosts -> Nat], \A h \in Hosts : table'[h] \in {table[h], NoSession},
         UNCHANGED end \/ \E S, why : Ended(S, why) /\ why \in {"asked", "idle", "lost"},
         cfg' \in DOMAIN Configs, prune' \in [DOMAIN Configs -> SUBSET Hosts],
         \A h \in Hosts : Described(h)'
  PROVE  IInv'
<1>1. Quiet /\ end' \in [Ids -> {"open", "asked", "idle", "lost"}]
  BY QuietTable DEF IInv
<1>2. \A h \in Hosts : table'[h] <= Len(sess)
  <2>1. Len(sess) \in Nat
    BY LenProperties DEF IInv, TypeInv
  <2>2. ASSUME NEW h \in Hosts PROVE table'[h] <= Len(sess)
    <3>1. table[h] \in Nat /\ table[h] <= Len(sess)
      BY DEF IInv, TypeInv
    <3>2. table'[h] = table[h] \/ table'[h] = 0
      BY DEF NoSession
    <3> QED BY <2>1, <3>1, <3>2
  <2> QED BY <2>2
<1>3. TypeInv'
  BY <1>1, <1>2 DEF IInv, TypeInv
<1>4. ASSUME NEW d \in Calls PROVE GoodStack(d)'
  BY <1>1, <1>4, SameStack DEF IInv, Quiet
<1> QED BY <1>3, <1>4 DEF IInv

LEMMA AwayKeepsIInv ==
  ASSUME IInv, UNCHANGED <<sess, lock, frames, cfg, prune>>,
         \/ UNCHANGED table
         \/ \E h \in Hosts : table' = [table EXCEPT ![h] = NoSession],
         UNCHANGED end \/ \E S, why : Ended(S, why) /\ why \in {"asked", "idle", "lost"}
  PROVE  IInv'
<1>1. table' \in [Hosts -> Nat] /\ \A h \in Hosts : table'[h] \in {table[h], NoSession}
  BY DEF IInv, TypeInv, NoSession
<1>2. ASSUME NEW h \in Hosts PROVE Described(h)'
  BY <1>1, <1>2, StillDescribed DEF IInv
<1>3. cfg' \in DOMAIN Configs /\ prune' \in [DOMAIN Configs -> SUBSET Hosts]
  BY DEF IInv, TypeInv
<1> QED BY <1>1, <1>2, <1>3, EventKeepsIInv

LEMMA ReloadKeepsIInv == ASSUME IInv, Reload PROVE IInv'
<1> DEFINE walk == {h \in Hosts : table[h] # NoSession}
<1>1. /\ cfg < Len(Configs) /\ cfg' = cfg + 1
      /\ prune' = [prune EXCEPT ![cfg + 1] = walk]
      /\ UNCHANGED <<table, sess, end, lock, frames>>
  BY DEF Reload, calls
<1>2. /\ cfg \in Nat /\ cfg' \in DOMAIN Configs /\ cfg + 1 \in DOMAIN Configs
      /\ prune' \in [DOMAIN Configs -> SUBSET Hosts] /\ prune'[cfg + 1] = walk
      /\ \A j \in DOMAIN Configs \ {cfg + 1} : prune'[j] = prune[j]
      /\ DOMAIN Configs = 1..Len(Configs) /\ Len(Configs) \in Nat
  BY <1>1, PoolAssumption DEF IInv, TypeInv
<1>3. ASSUME NEW h \in Hosts PROVE Described(h)'
  <2>1. SUFFICES ASSUME table[h] # NoSession, sess[table[h]].from = sess[table[h]].at
                 PROVE  LET k == sess[table[h]].from IN
                        /\ k \in 1..(cfg + 1) /\ h \in DOMAIN Configs[k]
                        /\ \A l, m \in k..(cfg + 1) :
                             l <= m /\ (\A j \in (l + 1)..m : h \notin prune'[j]) => Follows(h, l, m)
    BY <1>1 DEF Described, Follows
  <2> DEFINE k == sess[table[h]].from
  <2>2. /\ k \in 1..cfg /\ h \in DOMAIN Configs[k]
        /\ \A l, m \in k..cfg :
             l <= m /\ (\A j \in (l + 1)..m : h \notin prune[j]) => Follows(h, l, m)
    BY <2>1 DEF IInv, Described
  <2> HIDE DEF k
  <2>3. ASSUME NEW l \in k..(cfg + 1), NEW m \in k..(cfg + 1), l <= m,
               \A j \in (l + 1)..m : h \notin prune'[j]
        PROVE  Follows(h, l, m)
    <3>1. CASE l = m
      BY <3>1 DEF Follows
    <3>2. CASE l < m /\ m = cfg + 1
      <4>1. m \in (l + 1)..m /\ h \in prune'[m]
        BY <1>2, <2>1, <2>2, <3>2
      <4> QED BY <2>3, <4>1
    <3>3. CASE l < m /\ m # cfg + 1
      <4>1. l \in k..cfg /\ m \in k..cfg
        BY <1>2, <2>2, <3>3
      <4>2. ASSUME NEW j \in (l + 1)..m PROVE h \notin prune[j]
        <5>1. j \in DOMAIN Configs \ {cfg + 1}
          BY <1>1, <1>2, <2>2, <4>1
        <5> QED BY <1>2, <2>3, <5>1
      <4> QED BY <2>2, <2>3, <4>1, <4>2
    <3> QED BY <1>2, <2>2, <2>3, <3>1, <3>2, <3>3
  <2> QED BY <1>2, <2>2, <2>3 DEF k
<1>4. table' \in [Hosts -> Nat] /\ \A h \in Hosts : table'[h] \in {table[h], NoSession}
  BY <1>1 DEF IInv, TypeInv
<1> QED BY <1>1, <1>2, <1>3, <1>4, EventKeepsIInv

LEMMA PruneKeepsIInv == ASSUME IInv, NEW h \in Hosts, NEW i \in DOMAIN Configs, Prune(h, i) PROVE IInv'
<1>1. /\ h \in prune[i] /\ prune' = [prune EXCEPT ![i] = prune[i] \ {h}]
      /\ UNCHANGED <<sess, end, lock, frames, cfg>>
  BY DEF Prune, calls
<1>2. \/ Changed(h, i - 1, i) /\ table' = [table EXCEPT ![h] = NoSession]
      \/ ~Changed(h, i - 1, i) /\ UNCHANGED table
  BY DEF Prune
<1>3. /\ table' \in [Hosts -> Nat] /\ \A g \in Hosts : table'[g] \in {table[g], NoSession}
      /\ Changed(h, i - 1, i) => table'[h] = NoSession
      /\ \A g \in Hosts \ {h} : table'[g] = table[g]
  BY <1>2 DEF IInv, TypeInv, NoSession
<1>4. /\ cfg' \in DOMAIN Configs /\ prune' \in [DOMAIN Configs -> SUBSET Hosts]
      /\ \A j \in DOMAIN Configs : j # i => prune'[j] = prune[j]
      /\ \A j \in DOMAIN Configs : \A g \in Hosts : g # h => (g \in prune'[j] <=> g \in prune[j])
      /\ DOMAIN Configs = 1..Len(Configs) /\ Len(Configs) \in Nat /\ cfg \in DOMAIN Configs
  BY <1>1, PoolAssumption DEF IInv, TypeInv
<1>5. ASSUME NEW g \in Hosts PROVE Described(g)'
  <2>1. SUFFICES ASSUME table'[g] # NoSession, sess[table[g]].from = sess[table[g]].at,
                        table'[g] = table[g]
                 PROVE  LET k == sess[table[g]].from IN
                        /\ k \in 1..cfg /\ g \in DOMAIN Configs[k]
                        /\ \A l, m \in k..cfg :
                             l <= m /\ (\A j \in (l + 1)..m : g \notin prune'[j]) => Follows(g, l, m)
    BY <1>1, <1>3 DEF Described, Follows
  <2> DEFINE k == sess[table[g]].from
  <2>2. /\ k \in 1..cfg /\ g \in DOMAIN Configs[k]
        /\ \A l, m \in k..cfg :
             l <= m /\ (\A j \in (l + 1)..m : g \notin prune[j]) => Follows(g, l, m)
    BY <2>1 DEF IInv, Described
  <2> HIDE DEF k
  <2>3. ASSUME NEW l \in k..cfg, NEW m \in k..cfg, l <= m,
               \A j \in (l + 1)..m : g \notin prune'[j]
        PROVE  Follows(g, l, m)
    <3>1. /\ l \in Nat /\ m \in Nat /\ 1 <= l /\ m <= cfg /\ cfg \in Nat /\ k \in Nat /\ i \in Nat
          /\ \A j \in (l + 1)..m : j \in DOMAIN Configs
      BY <1>4, <2>2
    <3>2. CASE g # h \/ i \notin (l + 1)..m
      BY <1>4, <2>2, <2>3, <3>1, <3>2
    <3>3. CASE g = h /\ i \in (l + 1)..m
      <4>1. i - 1 \in k..cfg /\ i \in k..cfg /\ l <= i - 1 /\ i <= m
        BY <2>2, <2>3, <3>1, <3>3
      <4>2. \A j \in (l + 1)..(i - 1) : g \notin prune[j]
        BY <1>4, <2>3, <3>1, <3>3, <4>1
      <4>3. \A j \in (i + 1)..m : g \notin prune[j]
        BY <1>4, <2>3, <3>1, <3>3, <4>1
      <4>4. Follows(g, l, i - 1) /\ Follows(g, i, m)
        BY <2>2, <2>3, <4>1, <4>2, <4>3
      <4>5. Follows(g, i - 1, i)
        BY <1>3, <2>1, <3>3 DEF Changed, Follows
      <4> QED BY <4>4, <4>5 DEF Follows
    <3> QED BY <3>2, <3>3
  <2> QED BY <2>2, <2>3 DEF k
<1> QED BY <1>1, <1>3, <1>4, <1>5, EventKeepsIInv

LEMMA IInvHolds == Spec => []IInv
<1>1. Init => IInv
  <2> SUFFICES ASSUME Init PROVE IInv
    OBVIOUS
  <2>1. sess \in Seq(SessionSet) /\ Len(sess) = 0
    BY EmptySeq DEF Init
  <2> DEFINE First(c) == Frame(HostOf[c], "lookup", FALSE)
  <2>2. frames = [c \in Calls |-> <<First(c)>>]
    BY DEF Init
  <2>3. \A c \in Calls : First(c) \in FrameSet /\ ~Dials(First(c)) /\ Planned(First(c))
    BY PoolAssumption DEF Frame, FrameSet, Dials, Planned, DiallingPcs, NoSession
  <2> HIDE DEF First
  <2>4. ASSUME NEW c \in Calls PROVE frames[c] \in Seq(FrameSet) /\ GoodStack(c)
    <3>1. frames[c] = <<First(c)>>
      BY <2>2
    <3>2. /\ frames[c] \in Seq(FrameSet) /\ Len(frames[c]) = 1 /\ DOMAIN frames[c] = {1}
          /\ frames[c][1] = First(c)
      BY <2>3, <3>1
    <3> QED BY <2>3, <3>2 DEF GoodStack
  <2>6. frames \in [Calls -> Seq(FrameSet)]
    BY <2>2, <2>4
  <2>7. /\ table \in [Hosts -> Nat] /\ \A h \in Hosts : table[h] <= Len(sess)
        /\ Len(sess) <= MaxSessions /\ cfg \in DOMAIN Configs
    BY <2>1, PoolAssumption DEF Init, NoSession
  <2>8. TypeInv
    BY <2>1, <2>6, <2>7 DEF Init, TypeInv
  <2>5. \A h \in Hosts : Described(h)
    BY DEF Init, Described
  <2> QED BY <2>4, <2>5, <2>8 DEF IInv
<1>2. IInv /\ [Next]_vars => IInv'
  <2> SUFFICES ASSUME IInv, [Next]_vars PROVE IInv'
    OBVIOUS
  <2>1. ASSUME NEW c \in Calls, CallStep(c) \/ Connected(c) \/ AuthFails(c) \/ Cancel(c) PROVE IInv'
    <3>1. ASSUME HandshakeFails(c) \/ AuthFails(c) PROVE IInv'
      BY <3>1, SameTable, FailKeepsIInv DEF HandshakeFails, AuthFails, Fail
    <3>3. ASSUME Cancel(c) PROVE IInv'
      BY <3>3, SameTable, DropKeepsIInv DEF Cancel
    <3>2. ASSUME TrySlots(c) \/ LaneSlot(c) \/ Queue(c) \/ Finish(c) PROVE IInv'
      BY <3>2, UnrelatedKeepsIInv DEF TrySlots, LaneSlot, Queue, Finish, shared
    <3> QED BY <2>1, <3>1, <3>2, <3>3, KeyExchangeKeepsIInv, LookupKeepsIInv, LockKeepsIInv, OpenKeepsIInv, BastionSlotKeepsIInv,
               ConnectedKeepsIInv, OpenLaneKeepsIInv DEF CallStep
  <2>2. ASSUME NEW h \in Hosts, Disconnect(h) \/ Evict(h) PROVE IInv'
    BY <2>2, AwayKeepsIInv DEF Disconnect, Evict, calls
  <2>3. ASSUME NEW h \in Hosts, DropIdleLanes(h) PROVE IInv'
    <3>1. UNCHANGED <<sess, lock, frames, cfg, prune, table>> /\ \E S : Ended(S, "idle")
      BY <2>3 DEF DropIdleLanes, calls
    <3> QED BY <3>1, AwayKeepsIInv
  <2>4. ASSUME NEW s \in Ids, SendDisconnect(s) \/ Lose(s) \/ LaneRetry(s) PROVE IInv'
    <3>1. ASSUME LaneRetry(s) PROVE IInv'
      BY <3>1, UnrelatedKeepsIInv DEF LaneRetry, shared
    <3> QED BY <2>4, <3>1, AwayKeepsIInv DEF SendDisconnect, Lose, calls
  <2>5. ASSUME NEW h \in Hosts, NEW i \in DOMAIN Configs, Prune(h, i) PROVE IInv'
    BY <2>5, PruneKeepsIInv
  <2>6. ASSUME Reload PROVE IInv'
    BY <2>6, ReloadKeepsIInv
  <2>7. CASE UNCHANGED vars
    BY <2>7, UnrelatedKeepsIInv DEF vars
  <2> QED BY <2>1, <2>2, <2>3, <2>4, <2>5, <2>6, <2>7 DEF Next
<1> QED BY <1>1, <1>2, PTL DEF Spec

-----------------------------------------------------------------------------
(* At most one call dials a host, and none while the table has a live      *)
(* session for it (`get_or_connect`, "Singleflight per host").             *)
THEOREM Singleflight == Spec => []NoSecondConnection
<1>1. IInv => NoSecondConnection
  <2> SUFFICES ASSUME IInv, NEW h \in Hosts, Dialling(h) # {}
               PROVE  Cardinality(Dialling(h)) = 1 /\ ~IsOpen(table[h])
    BY DEF NoSecondConnection
  <2>1. \A c \in Dialling(h) : lock[h] = c /\ ~IsOpen(table[h])
    BY DEF Dialling, IInv, GoodStack, Dials, DiallingPcs
  <2>2. Dialling(h) = {lock[h]}
    BY <2>1
  <2> QED BY <2>1, <2>2, FS_Singleton
<1> QED BY <1>1, IInvHolds, PTL

(* Once a reload is through, the only session that was opened from a file  *)
(* that no longer describes its host is one whose handshake the reload     *)
(* overtook (`prune_against`).                                             *)
THEOREM PruneIsThorough == Spec => []StaleOnlyIfOvertaken
<1>1. IInv => StaleOnlyIfOvertaken
  <2> SUFFICES ASSUME IInv, \A i \in DOMAIN Configs : prune[i] = {}, NEW h \in Hosts,
                      table[h] # NoSession, sess[table[h]].from = sess[table[h]].at
               PROVE  ~Changed(h, sess[table[h]].from, cfg)
    BY DEF StaleOnlyIfOvertaken
  <2> DEFINE k == sess[table[h]].from
  <2>1. /\ k \in 1..cfg /\ h \in DOMAIN Configs[k]
        /\ \A l, m \in k..cfg :
             l <= m /\ (\A j \in (l + 1)..m : h \notin prune[j]) => Follows(h, l, m)
    BY DEF IInv, Described
  <2>2. cfg \in DOMAIN Configs /\ DOMAIN Configs = 1..Len(Configs) /\ Len(Configs) \in Nat
    BY PoolAssumption DEF IInv, TypeInv
  <2> HIDE DEF k
  <2>3. k \in k..cfg /\ cfg \in k..cfg /\ k <= cfg /\ \A j \in (k + 1)..cfg : j \in DOMAIN Configs
    BY <2>1, <2>2
  <2>4. Follows(h, k, cfg)
    BY <2>1, <2>3
  <2> QED BY <2>1, <2>4 DEF Follows, Changed, k
<1> QED BY <1>1, IInvHolds, PTL
-----------------------------------------------------------------------------
(* Lanes.                                                                  *)

Phases == {"connecting", "have", "laneLock", "laneSlot", "queue", "using", "done", "failed"}
Opened == 0..Len(sess)   \* a session, or none

LaneType ==
  /\ phase \in [Calls -> Phases]
  /\ primary \in [Calls -> Opened] /\ slotOn \in [Calls -> Opened]
  /\ lanes \in [Ids -> SUBSET (1..Len(sess))]
  /\ laneLock \in [Ids -> Calls \cup {NoCall}]

OpensLane(c) == phase[c] = "laneSlot" \/ \E i \in DOMAIN frames[c] : frames[c][i].lane

(* Only the outermost frame opens a lane, past the table and its host's    *)
(* lock, under the lane lock of the call's primary.                        *)
LaneStage(c) ==
  /\ frames[c] # <<>> => phase[c] = "connecting"
  /\ \A i \in DOMAIN frames[c] : frames[c][i].lane => i = 1 /\ frames[c][i].pc \in DiallingPcs
  /\ phase[c] \in {"have", "laneLock", "queue"} \/ OpensLane(c) => primary[c] # NoSession
  /\ phase[c] \in {"laneSlot", "using"} => slotOn[c] # NoSession
  /\ OpensLane(c) => laneLock[primary[c]] = c

(* A held lane lock stands for the lane its holder may add.                *)
Room(p) ==
  1 + Cardinality(OpenLanes(p)) + (IF laneLock[p] # NoCall THEN 1 ELSE 0) <= MaxConnections

LaneInv == /\ LaneType
           /\ \A c \in Calls : LaneStage(c)
           /\ \A p \in Ids : Room(p)

(* Not a lane: what the clean-up of idle lanes never closes.               *)
Lasting(s) ==
  /\ s \in 1..Len(sess) /\ end[s] # "idle"
  /\ \A p \in Ids : s \notin lanes[p]
  /\ \A c \in Calls : phase[c] = "laneSlot" => slotOn[c] # s

SurviveInv ==
  /\ \A h \in Hosts : table[h] # NoSession => Lasting(table[h])
  /\ \A t \in 1..Len(sess) : sess[t].parent # NoSession => Lasting(sess[t].parent)
  /\ \A c \in Calls : \A i \in DOMAIN frames[c] :
        frames[c][i].parent # NoSession => Lasting(frames[c][i].parent)
  /\ \A c \in Calls : phase[c] = "using" => end[slotOn[c]] # "idle"
  /\ \A t \in Ids : t > Len(sess) => end[t] # "idle"

(* What a step of a call leaves of its own stack: no frame opens a lane    *)
(* that did not before, and a parent is an old one or s.                   *)
Derived(c, s) ==
  \A i \in DOMAIN frames'[c] : LET f == frames'[c][i] IN
     /\ f.lane => i \in DOMAIN frames[c] /\ frames[c][i].lane /\ f.pc \in DiallingPcs
     /\ f.parent \in {NoSession, s} \/ \E j \in DOMAIN frames[c] : f.parent = frames[c][j].parent

LEMMA SetTopDerived ==
  ASSUME TypeInv, NEW c \in Calls, LaneStage(c), frames[c] # <<>>,
         NEW f \in FrameSet, SetTop(c, f), f.lane = Top(c).lane, f.parent = Top(c).parent,
         f.lane => f.pc \in DiallingPcs, NEW s
  PROVE  Derived(c, s) /\ frames'[c] # <<>>
<1> DEFINE fs == frames[c]
           n == Len(fs)
           new == frames'[c]
<1>1. fs \in Seq(FrameSet) /\ n \in Nat \ {0} /\ Top(c) = fs[n] /\ DOMAIN fs = 1..n
  BY TopFrame DEF TypeInv
<1>2. new = Append(Front(fs), f)
  BY DEF SetTop, TypeInv
<1>3. /\ new \in Seq(FrameSet) /\ Len(new) = n /\ new[n] = f /\ DOMAIN new = 1..n
      /\ \A i \in 1..(n - 1) : new[i] = fs[i]
  BY <1>1, <1>2, SetTopFacts, LenProperties
<1>4. new # <<>>
  BY <1>1, <1>3
<1>5. \A i \in DOMAIN fs : fs[i].lane => fs[i].pc \in DiallingPcs
  BY DEF LaneStage
<1>6. f.lane = fs[n].lane /\ f.parent = fs[n].parent
  BY <1>1
<1> HIDE DEF fs, n, new
<1>7. \A i \in 1..n : new[i] = IF i = n THEN f ELSE fs[i]
  BY <1>1, <1>3
<1>8. \A i \in DOMAIN new :
        /\ new[i].lane => i \in DOMAIN fs /\ fs[i].lane /\ new[i].pc \in DiallingPcs
        /\ \E j \in DOMAIN fs : new[i].parent = fs[j].parent
  BY <1>1, <1>3, <1>5, <1>6, <1>7
<1> QED BY <1>4, <1>8 DEF Derived, new, fs

LEMMA PushDerived ==
  ASSUME TypeInv, NEW c \in Calls, LaneStage(c), frames[c] # <<>>,
         NEW f \in FrameSet, NEW g \in FrameSet,
         frames' = [frames EXCEPT ![c] = Front(@) \o <<f, g>>],
         f.lane = Top(c).lane, f.parent = Top(c).parent, f.pc \in DiallingPcs,
         ~g.lane, g.parent = NoSession, NEW s
  PROVE  Derived(c, s) /\ frames'[c] # <<>>
<1> DEFINE fs == frames[c]
           n == Len(fs)
           new == frames'[c]
<1>1. fs \in Seq(FrameSet) /\ n \in Nat \ {0} /\ Top(c) = fs[n] /\ DOMAIN fs = 1..n
  BY TopFrame DEF TypeInv
<1>2. new = Front(fs) \o <<f, g>>
  BY DEF TypeInv
<1>3. /\ new \in Seq(FrameSet) /\ Len(new) = n + 1 /\ new[n] = f /\ new[n + 1] = g
      /\ DOMAIN new = 1..(n + 1) /\ \A i \in 1..(n - 1) : new[i] = fs[i]
  <2> HIDE DEF fs, new
  <2>1. fs \in Seq(FrameSet) /\ fs # <<>> /\ new = Front(fs) \o <<f, g>>
    BY <1>1, <1>2 DEF fs
  <2>2. /\ new \in Seq(FrameSet) /\ Len(new) = n + 1 /\ new[n] = f /\ new[n + 1] = g
        /\ \A i \in 1..(n - 1) : new[i] = fs[i]
    BY <2>1, PushFacts
  <2> QED BY <2>2, LenProperties
<1>4. new # <<>>
  BY <1>1, <1>3
<1>5. \A i \in DOMAIN fs : fs[i].lane => fs[i].pc \in DiallingPcs
  BY DEF LaneStage
<1>6. f.lane = fs[n].lane /\ f.parent = fs[n].parent
  BY <1>1
<1> HIDE DEF fs, n, new
<1>7. \A i \in 1..(n + 1) : new[i] = IF i = n + 1 THEN g ELSE IF i = n THEN f ELSE fs[i]
  BY <1>1, <1>3
<1>8. ASSUME NEW i \in 1..(n + 1)
      PROVE  /\ new[i].lane => i \in DOMAIN fs /\ fs[i].lane /\ new[i].pc \in DiallingPcs
             /\ new[i].parent = NoSession \/ \E j \in DOMAIN fs : new[i].parent = fs[j].parent
  <2>1. CASE i = n + 1
    BY <1>7, <2>1
  <2>2. CASE i \in 1..n
    BY <1>1, <1>5, <1>6, <1>7, <2>2
  <2> QED BY <1>1, <2>1, <2>2
<1> QED BY <1>3, <1>4, <1>8 DEF Derived, new, fs

LEMMA ReturnDerived ==
  ASSUME TypeInv, NEW c \in Calls, LaneStage(c), frames[c] # <<>>, ~Top(c).lane,
         NEW s \in Nat, Return(c, s)
  PROVE  /\ Derived(c, s)
         /\ \/ frames'[c] # <<>> /\ UNCHANGED <<phase, primary>>
            \/ /\ frames'[c] = <<>> /\ ~OpensLane(c)
               /\ primary' = [primary EXCEPT ![c] = s] /\ Become(c, "have")
<1> DEFINE fs == frames[c]
           n == Len(fs)
           new == frames'[c]
<1>1. /\ fs \in Seq(FrameSet) /\ n \in Nat \ {0} /\ Top(c) = fs[n] /\ DOMAIN fs = 1..n
      /\ \A i \in 1..n : fs[i] \in FrameSet
  <2>1. fs \in Seq(FrameSet)
    BY DEF TypeInv
  <2> QED BY <2>1, TopFrame, LenProperties, ElementOfSeq
<1>2. CASE n > 1
  <2> DEFINE below == Last(Front(fs))
             g == [below EXCEPT !.parent = s, !.pc = "slot"]
  <2>1. below = fs[n - 1] /\ below \in FrameSet
    <3> HIDE DEF fs
    <3>1. fs \in Seq(FrameSet) /\ Len(fs) > 1 /\ fs[1] \in FrameSet
      BY <1>1, <1>2
    <3> QED BY <3>1, PopFacts
  <2>2. new = Popped(fs, g) /\ UNCHANGED <<phase, primary>>
    BY <1>2 DEF Return, TypeInv, Popped
  <2>3. g \in FrameSet /\ g.pc = "slot" /\ g.lane = below.lane /\ g.parent = s
    <3>1. PICK b \in FrameSet : b = below
      BY <2>1
    <3>2. /\ [b EXCEPT !.parent = s, !.pc = "slot"] \in FrameSet
          /\ [b EXCEPT !.parent = s, !.pc = "slot"].pc = "slot"
          /\ [b EXCEPT !.parent = s, !.pc = "slot"].lane = b.lane
          /\ [b EXCEPT !.parent = s, !.pc = "slot"].parent = s
      BY DEF FrameSet, DiallingPcs
    <3> QED BY <3>1, <3>2
  <2>4. \A i \in DOMAIN fs : fs[i].lane => fs[i].pc \in DiallingPcs
    BY DEF LaneStage
  <2> HIDE DEF fs, new, g, below
  <2>5. fs \in Seq(FrameSet) /\ g \in FrameSet /\ Len(fs) > 1
    BY <1>1, <1>2, <2>3
  <2>6. /\ new \in Seq(FrameSet) /\ Len(new) = n - 1 /\ new[n - 1] = g
        /\ \A i \in 1..(n - 2) : new[i] = fs[i]
    <3>1. Popped(fs, g) \in Seq(FrameSet)
      BY <2>5, PopFacts
    <3>2. Len(Popped(fs, g)) = n - 1
      BY <2>5, PopFacts
    <3>3. Popped(fs, g)[n - 1] = g
      BY <2>5, PopFacts
    <3>4. \A i \in 1..(n - 2) : Popped(fs, g)[i] = fs[i]
      BY <2>5, PopFacts
    <3> QED BY <2>2, <3>1, <3>2, <3>3, <3>4
  <2> HIDE DEF n
  <2>7. DOMAIN new = 1..(n - 1) /\ new # <<>>
    BY <1>1, <1>2, <2>6, LenProperties
  <2>8. \A i \in 1..(n - 1) : new[i] = IF i = n - 1 THEN g ELSE fs[i]
    BY <1>1, <1>2, <2>6
  <2>9. \A i \in DOMAIN new :
          /\ new[i].lane => i \in DOMAIN fs /\ fs[i].lane /\ new[i].pc \in DiallingPcs
          /\ new[i].parent = s \/ \E j \in DOMAIN fs : new[i].parent = fs[j].parent
    BY <1>1, <1>2, <2>1, <2>3, <2>4, <2>7, <2>8 DEF DiallingPcs
  <2> QED BY <2>2, <2>7, <2>9 DEF Derived, new, fs
<1>3. CASE n = 1
  <2>1. /\ new = <<>> /\ primary' = [primary EXCEPT ![c] = s] /\ Become(c, "have")
    BY <1>3 DEF Return, TypeInv
  <2>2. ~OpensLane(c)
    BY <1>1, <1>3 DEF OpensLane, LaneStage
  <2> QED BY <2>1, <2>2 DEF Derived
<1>4. n > 1 \/ n = 1
  <2> HIDE DEF n
  <2> QED BY <1>1
<1> QED BY <1>2, <1>3, <1>4

(* A call that is opening a session moves on in its stack.                 *)
StackMoves(c, s) ==
  /\ \A d \in Calls \ {c} : frames'[d] = frames[d]
  /\ Derived(c, s)
  /\ UNCHANGED <<lanes, slotOn, laneLock, end>>
  /\ \/ frames'[c] # <<>> /\ UNCHANGED <<phase, primary>>
     \/ /\ frames'[c] = <<>> /\ ~OpensLane(c) /\ s # NoSession
        /\ primary' = [primary EXCEPT ![c] = s] /\ Become(c, "have")

LEMMA DialMoves ==
  ASSUME IInv, LaneInv, NEW c \in Calls,
         Lookup(c) \/ Lock(c) \/ Open(c) \/ BastionSlot(c) \/ KeyExchange(c)
  PROVE  /\ frames[c] # <<>> /\ UNCHANGED <<sess, end>>
         /\ \A h \in Hosts : table'[h] \in {table[h], NoSession}
         /\ Fail(c) \/ \E s \in {table[h] : h \in Hosts} \cup {NoSession} : StackMoves(c, s)
<1>1. TypeInv /\ LaneStage(c) /\ NoSession \in Nat /\ \A h \in Hosts : table[h] \in Nat
  BY DEF IInv, LaneInv, TypeInv, NoSession
<1>2. frames[c] # <<>>
  BY DEF Lookup, Lock, Open, BastionSlot, KeyExchange, At
<1>3. /\ Top(c) \in FrameSet /\ Top(c).host \in Hosts
      /\ Top(c).lane => Top(c).pc \in DiallingPcs
  <2>1. /\ Top(c) \in FrameSet /\ Top(c).host \in Hosts /\ Top(c) = frames[c][Len(frames[c])]
        /\ Len(frames[c]) \in DOMAIN frames[c]
    BY <1>1, <1>2, TopFrame
  <2> QED BY <1>1, <2>1 DEF LaneStage
<1>4. ASSUME NEW f, f \in FrameSet, SetTop(c, f), f.lane = Top(c).lane, f.parent = Top(c).parent,
             f.lane => f.pc \in DiallingPcs,
             UNCHANGED <<lanes, slotOn, laneLock, end, phase, primary>>
      PROVE  StackMoves(c, NoSession)
  <2>1. Derived(c, NoSession) /\ frames'[c] # <<>>
    BY <1>1, <1>2, <1>4, SetTopDerived
  <2>2. \A d \in Calls \ {c} : frames'[d] = frames[d]
    BY <1>1, <1>4 DEF SetTop, TypeInv
  <2> QED BY <1>4, <2>1, <2>2 DEF StackMoves
<1>5. ASSUME NEW h \in Hosts, Fresh(h), Return(c, table[h]), ~Top(c).lane,
             UNCHANGED <<lanes, slotOn, laneLock, end>>
      PROVE  StackMoves(c, table[h])
  <2>1. table[h] # NoSession
    BY <1>5 DEF Fresh, IsOpen
  <2>2. \A d \in Calls \ {c} : frames'[d] = frames[d]
    BY <1>1, <1>5 DEF Return, TypeInv
  <2> QED BY <1>1, <1>2, <1>5, <2>1, <2>2, ReturnDerived DEF StackMoves
<1>6. \A p \in DiallingPcs \cup {"lookup", "lock"} : LET f == [Top(c) EXCEPT !.pc = p] IN
         f \in FrameSet /\ f.lane = Top(c).lane /\ f.parent = Top(c).parent /\ f.pc = p
  BY <1>3 DEF FrameSet
<1>7. CASE Lookup(c)
  <2>1. ~Top(c).lane /\ UNCHANGED end /\ Forget(Top(c).host)
    BY <1>3, <1>7 DEF Lookup, At, DiallingPcs, Fail
  <2>2. \A h \in Hosts : table'[h] \in {table[h], NoSession}
    BY <1>1, <2>1 DEF Forget, TypeInv
  <2> DEFINE f == [Top(c) EXCEPT !.pc = "lock"]
  <2>3. CASE SetTop(c, f) /\ UNCHANGED <<sess, end, lanevars, lock, phase, primary, slotOn>>
    <3>1. f \in FrameSet /\ f.lane = Top(c).lane /\ f.parent = Top(c).parent /\ f.pc = "lock"
      BY <1>6
    <3> HIDE DEF f
    <3> QED BY <1>2, <1>4, <2>1, <2>2, <2>3, <3>1 DEF lanevars
  <2>4. CASE Fail(c)
    BY <1>2, <2>1, <2>2, <2>4 DEF Fail
  <2>5. CASE Fresh(Top(c).host) /\ Return(c, table[Top(c).host])
             /\ UNCHANGED <<sess, end, lanevars, lock, slotOn>>
    <3>1. StackMoves(c, table[Top(c).host])
      BY <1>3, <1>5, <2>1, <2>5 DEF lanevars
    <3> QED BY <1>2, <1>3, <2>2, <2>5, <3>1
  <2> QED BY <1>7, <2>3, <2>4, <2>5 DEF Lookup
<1>8. CASE Lock(c)
  <2>1. ~Top(c).lane /\ UNCHANGED <<sess, end, lanes, slotOn, laneLock>> /\ Forget(Top(c).host)
    BY <1>3, <1>8 DEF Lock, At, DiallingPcs, lanevars
  <2>2. \A h \in Hosts : table'[h] \in {table[h], NoSession}
    BY <1>1, <2>1 DEF Forget, TypeInv
  <2> DEFINE f == [Top(c) EXCEPT !.pc = "open"]
  <2>3. CASE SetTop(c, f) /\ UNCHANGED <<phase, primary>>
    <3>1. f \in FrameSet /\ f.lane = Top(c).lane /\ f.parent = Top(c).parent /\ f.pc \in DiallingPcs
      BY <1>6 DEF DiallingPcs
    <3> HIDE DEF f
    <3> QED BY <1>2, <1>4, <2>1, <2>2, <2>3, <3>1
  <2>4. CASE Fresh(Top(c).host) /\ Return(c, table[Top(c).host])
    <3>1. StackMoves(c, table[Top(c).host])
      BY <1>3, <1>5, <2>1, <2>4
    <3> QED BY <1>2, <1>3, <2>1, <2>2, <3>1
  <2> QED BY <1>8, <2>3, <2>4 DEF Lock
<1>9. CASE Open(c)
  <2>1. UNCHANGED table
    BY <1>9 DEF Open
  <2> DEFINE f == [Top(c) EXCEPT !.cfg = cfg]
             jump == Configs[cfg][f.host].jump
             hs == [f EXCEPT !.pc = "handshake"]
             b == [f EXCEPT !.pc = "bastion"]
             g == Frame(jump, "lookup", FALSE)
  <2>2. CASE Fail(c)
    BY <1>2, <2>1, <2>2 DEF Fail
  <2>3. CASE /\ f.host \in DOMAIN Configs[cfg]
             /\ IF jump = Direct THEN SetTop(c, hs)
                ELSE frames' = [frames EXCEPT ![c] = Front(@) \o <<b, g>>]
             /\ UNCHANGED <<sess, end, lanevars, lock, phase, primary, slotOn>>
    <3>1. cfg \in DOMAIN Configs /\ cfg \in Nat
      BY PoolAssumption DEF IInv, TypeInv
    <3>2. /\ hs \in FrameSet /\ hs.lane = Top(c).lane /\ hs.parent = Top(c).parent
          /\ hs.pc \in DiallingPcs
          /\ b \in FrameSet /\ b.lane = Top(c).lane /\ b.parent = Top(c).parent
          /\ b.pc \in DiallingPcs
      BY <1>3, <3>1 DEF FrameSet, DiallingPcs
    <3>3. CASE jump = Direct
      <4>1. SetTop(c, hs)
        BY <2>3, <3>3
      <4> HIDE DEF hs
      <4> QED BY <1>2, <1>4, <2>1, <2>3, <3>2, <4>1 DEF lanevars
    <3>4. CASE jump # Direct
      <4>1. jump \in Hosts
        BY <2>3, <3>1, <3>4, PoolAssumption
      <4>2. g \in FrameSet /\ ~g.lane /\ g.parent = NoSession
        BY <4>1 DEF Frame, FrameSet, NoSession
      <4>3. frames' = [frames EXCEPT ![c] = Front(@) \o <<b, g>>]
        BY <2>3, <3>4
      <4> HIDE DEF b, g
      <4>4. Derived(c, NoSession) /\ frames'[c] # <<>>
        BY <1>1, <1>2, <3>2, <4>2, <4>3, PushDerived
      <4>5. \A d \in Calls \ {c} : frames'[d] = frames[d]
        BY <1>1, <4>3 DEF TypeInv
      <4>6. StackMoves(c, NoSession)
        BY <2>3, <4>4, <4>5 DEF StackMoves, lanevars
      <4> QED BY <1>2, <2>1, <2>3, <4>6
    <3> QED BY <3>3, <3>4
  <2> QED BY <1>9, <2>2, <2>3 DEF Open
<1>10. CASE BastionSlot(c)
  <2>1. UNCHANGED table
    BY <1>10 DEF BastionSlot
  <2> DEFINE f == [Top(c) EXCEPT !.pc = "handshake"]
  <2>2. CASE Fail(c)
    BY <1>2, <2>1, <2>2 DEF Fail
  <2>3. CASE SetTop(c, f) /\ UNCHANGED <<sess, end, lanevars, lock, phase, primary, slotOn>>
    <3>1. f \in FrameSet /\ f.lane = Top(c).lane /\ f.parent = Top(c).parent /\ f.pc \in DiallingPcs
      BY <1>6 DEF DiallingPcs
    <3> HIDE DEF f
    <3> QED BY <1>2, <1>4, <2>1, <2>3, <3>1 DEF lanevars
  <2> QED BY <1>10, <2>2, <2>3 DEF BastionSlot
<1>11. CASE KeyExchange(c)
  <2> DEFINE f == [Top(c) EXCEPT !.pc = "auth"]
  <2>1. SetTop(c, f) /\ UNCHANGED <<table, sess, end, lanevars, lock, phase, primary, slotOn>>
    BY <1>11 DEF KeyExchange
  <2>2. f \in FrameSet /\ f.lane = Top(c).lane /\ f.parent = Top(c).parent /\ f.pc \in DiallingPcs
    BY <1>6 DEF DiallingPcs
  <2> HIDE DEF f
  <2> QED BY <1>2, <1>4, <2>1, <2>2 DEF lanevars
<1> QED BY <1>7, <1>8, <1>9, <1>10, <1>11

-----------------------------------------------------------------------------
(* The cap.                                                                *)

LEMMA SessionsCounted ==
  ASSUME TypeInv PROVE Len(sess) \in Nat /\ 1..Len(sess) \subseteq Ids /\ DOMAIN sess = 1..Len(sess)
BY LenProperties, PoolAssumption DEF TypeInv, Ids

(* A step that opens no lane and takes no lane lock.                       *)
LEMMA SameRoom ==
  ASSUME LaneInv, TypeInv, NEW p \in Ids, laneLock'[p] \in {laneLock[p], NoCall},
         \A l \in lanes'[p] : OpenNext(l) => l \in lanes[p] /\ end[l] = "open"
  PROVE  Room(p)'
<1>1. IsFiniteSet(OpenLanes(p)) /\ Cardinality(OpenLanes(p)) \in Nat
  <2>1. OpenLanes(p) \in SUBSET (1..Len(sess)) /\ Len(sess) \in Int /\ 1 \in Int
    BY SessionsCounted DEF OpenLanes, LaneInv, LaneType
  <2> QED BY <2>1, FS_Interval, FS_Subset, FS_CardinalityType
<1>2. OpenLanes(p)' \in SUBSET OpenLanes(p)
  BY DEF OpenLanes, IsOpen, OpenNext
<1>3. /\ IsFiniteSet(OpenLanes(p)') /\ Cardinality(OpenLanes(p)') <= Cardinality(OpenLanes(p))
      /\ Cardinality(OpenLanes(p)') \in Nat
  BY <1>1, <1>2, FS_Subset, FS_CardinalityType
<1>4. 1 + Cardinality(OpenLanes(p)) + (IF laneLock[p] # NoCall THEN 1 ELSE 0) <= MaxConnections
  BY DEF LaneInv, Room
<1> QED BY <1>1, <1>3, <1>4, PoolAssumption DEF Room

(* A step of one call that takes no lane lock from another.                *)
LEMMA CallKeepsLanes ==
  ASSUME TypeInv, LaneInv, NEW c \in Calls, Len(sess') \in Nat, Len(sess) <= Len(sess'),
         phase' \in [Calls -> Phases],
         primary' \in [Calls -> 0..Len(sess')], slotOn' \in [Calls -> 0..Len(sess')],
         lanes' \in [Ids -> SUBSET (1..Len(sess))], laneLock' \in [Ids -> Calls \cup {NoCall}],
         \A d \in Calls \ {c} :
            /\ frames'[d] = frames[d] /\ phase'[d] = phase[d]
            /\ primary'[d] = primary[d] /\ slotOn'[d] = slotOn[d]
            /\ \A p \in Ids : laneLock[p] = d => laneLock'[p] = d,
         LaneStage(c)', \A p \in Ids : Room(p)'
  PROVE  LaneInv'
<1>1. Len(sess) \in Nat /\ 1..Len(sess) \subseteq Ids /\ 1..Len(sess) \subseteq 1..Len(sess')
  BY SessionsCounted
<1>2. LaneType'
  BY <1>1 DEF LaneType, Opened
<1>3. ASSUME NEW d \in Calls \ {c} PROVE LaneStage(d)'
  <2>1. OpensLane(d) => primary[d] \in Ids
    <3>1. primary[d] \in 0..Len(sess) /\ (OpensLane(d) => primary[d] # 0)
      BY DEF LaneInv, LaneType, Opened, LaneStage, NoSession
    <3> QED BY <1>1, <3>1
  <2>2. OpensLane(d)' = OpensLane(d)
    BY DEF OpensLane
  <2> QED BY <2>1, <2>2 DEF LaneInv, LaneStage
<1> QED BY <1>2, <1>3 DEF LaneInv

LEMMA MovesKeepLanes ==
  ASSUME TypeInv, LaneInv, NEW c \in Calls, frames[c] # <<>>, NEW s \in Nat, StackMoves(c, s),
         Len(sess') \in Nat, Len(sess) <= Len(sess'), s <= Len(sess')
  PROVE  LaneInv'
<1>1. /\ UNCHANGED <<lanes, slotOn, laneLock, end>> /\ Len(sess) \in Nat
      /\ \A d \in Calls \ {c} : frames'[d] = frames[d]
  BY SessionsCounted DEF StackMoves
<1>2. /\ primary \in [Calls -> 0..Len(sess)] /\ slotOn \in [Calls -> 0..Len(sess)]
      /\ lanes \in [Ids -> SUBSET (1..Len(sess))] /\ laneLock \in [Ids -> Calls \cup {NoCall}]
      /\ phase \in [Calls -> Phases] /\ 0..Len(sess) \subseteq 0..Len(sess')
      /\ phase[c] = "connecting"
  BY <1>1 DEF LaneInv, LaneType, Opened, LaneStage
<1>3. ASSUME NEW p \in Ids PROVE Room(p)'
  BY <1>1, SameRoom DEF OpenNext
<1>4. \A i \in DOMAIN frames'[c] : frames'[c][i].lane =>
        i = 1 /\ frames'[c][i].pc \in DiallingPcs /\ i \in DOMAIN frames[c] /\ frames[c][i].lane
  BY DEF StackMoves, Derived, LaneInv, LaneStage
<1>5. CASE UNCHANGED <<phase, primary>>
  <2>1. OpensLane(c)' => OpensLane(c)
    BY <1>4, <1>5 DEF OpensLane
  <2>2. LaneStage(c)'
    BY <1>1, <1>2, <1>4, <1>5, <2>1 DEF LaneInv, LaneStage
  <2> QED BY <1>1, <1>2, <1>3, <1>5, <2>2, CallKeepsLanes
<1>6. CASE /\ frames'[c] = <<>> /\ ~OpensLane(c) /\ s # NoSession
           /\ primary' = [primary EXCEPT ![c] = s] /\ Become(c, "have")
  <2>1. /\ phase' = [phase EXCEPT ![c] = "have"] /\ phase' \in [Calls -> Phases]
        /\ phase'[c] = "have" /\ primary'[c] = s /\ primary' \in [Calls -> 0..Len(sess')]
        /\ \A d \in Calls \ {c} : phase'[d] = phase[d] /\ primary'[d] = primary[d]
    BY <1>2, <1>6 DEF Become, Phases
  <2>2. LaneStage(c)'
    BY <1>6, <2>1 DEF LaneStage, OpensLane
  <2> QED BY <1>1, <1>2, <1>3, <2>1, <2>2, CallKeepsLanes
<1> QED BY <1>5, <1>6 DEF StackMoves

LEMMA FailKeepsLanes ==
  ASSUME TypeInv, LaneInv, NEW c \in Calls, frames[c] # <<>>, Fail(c) PROVE LaneInv'
<1>1. /\ UNCHANGED <<sess, end, lanes, slotOn, primary>> /\ laneLock' = LaneUnlocked(c)
      /\ frames' = [frames EXCEPT ![c] = <<>>]
      /\ \/ Head(frames[c]).lane /\ Become(c, "queue")
         \/ Become(c, "failed")
  BY DEF Fail
<1>2. /\ LaneType /\ LaneStage(c) /\ Len(sess) \in Nat /\ frames \in [Calls -> Seq(FrameSet)]
  BY SessionsCounted DEF LaneInv, TypeInv
<1>3. /\ phase' \in [Calls -> Phases] /\ frames'[c] = <<>>
      /\ \A d \in Calls \ {c} : phase'[d] = phase[d] /\ frames'[d] = frames[d]
  BY <1>1, <1>2 DEF Become, Phases, LaneType
<1>4. /\ laneLock' \in [Ids -> Calls \cup {NoCall}]
      /\ \A p \in Ids : /\ laneLock'[p] \in {laneLock[p], NoCall}
                        /\ \A d \in Calls \ {c} : laneLock[p] = d => laneLock'[p] = d
  BY <1>1, <1>2 DEF LaneUnlocked, LaneType
<1>5. ASSUME NEW p \in Ids PROVE Room(p)'
  BY <1>1, <1>4, SameRoom DEF OpenNext
<1>6. Head(frames[c]).lane => primary[c] # NoSession
  <2>1. frames[c] \in Seq(FrameSet) /\ Len(frames[c]) \in Nat \ {0} /\ DOMAIN frames[c] = 1..Len(frames[c])
    BY <1>2, TopFrame
  <2>2. Head(frames[c]) = frames[c][1] /\ 1 \in DOMAIN frames[c]
    BY <2>1
  <2> QED BY <1>2, <2>2 DEF LaneStage, OpensLane
<1>7. phase'[c] = "failed" \/ (phase'[c] = "queue" /\ primary[c] # NoSession)
  BY <1>1, <1>2, <1>6 DEF Become, LaneType
<1>8. LaneStage(c)'
  <2>1. DOMAIN frames'[c] = {} /\ primary'[c] = primary[c]
    BY <1>1, <1>3
  <2> QED BY <1>3, <1>7, <2>1 DEF LaneStage, OpensLane
<1>9. /\ primary' \in [Calls -> 0..Len(sess')] /\ slotOn' \in [Calls -> 0..Len(sess')]
      /\ lanes' \in [Ids -> SUBSET (1..Len(sess))] /\ Len(sess') = Len(sess)
  BY <1>1, <1>2 DEF LaneType, Opened
<1>10. \A d \in Calls \ {c} :
          /\ frames'[d] = frames[d] /\ phase'[d] = phase[d]
          /\ primary'[d] = primary[d] /\ slotOn'[d] = slotOn[d]
          /\ \A p \in Ids : laneLock[p] = d => laneLock'[p] = d
  BY <1>1, <1>3, <1>4
<1>11. Len(sess') \in Nat /\ Len(sess) <= Len(sess')
  BY <1>2, <1>9
<1> QED BY <1>3, <1>4, <1>5, <1>8, <1>9, <1>10, <1>11, CallKeepsLanes

LEMMA ConnectedKeepsLanes == ASSUME TypeInv, LaneInv, NEW c \in Calls, Connected(c) PROVE LaneInv'
<1> DEFINE f == Top(c)
           s == Len(sess) + 1
           r == [host |-> f.host, parent |-> f.parent, from |-> f.cfg, at |-> cfg]
<1>1. /\ frames[c] # <<>> /\ f.pc = "auth" /\ Len(sess) < MaxSessions
      /\ sess' = Append(sess, r) /\ UNCHANGED <<end, lanes, laneLock>>
  BY DEF Connected, At
<1>2. f \in FrameSet /\ LaneType /\ LaneStage(c) /\ frames \in [Calls -> Seq(FrameSet)]
  BY <1>1, TopFrame DEF TypeInv, LaneInv
<1>3. r \in SessionSet
  BY <1>2, PoolAssumption DEF TypeInv, FrameSet, SessionSet
<1>4. Len(sess') = s /\ Len(sess) \in Nat /\ s \in Nat
  <2> HIDE DEF r
  <2> QED BY <1>1, <1>3, NewSession
<1>5. CASE f.lane
  <2>1. /\ slotOn' = [slotOn EXCEPT ![c] = s] /\ frames' = [frames EXCEPT ![c] = <<>>]
        /\ Become(c, "laneSlot") /\ UNCHANGED primary
    BY <1>5 DEF Connected
  <2>2. /\ slotOn' \in [Calls -> 0..Len(sess')] /\ slotOn'[c] = s /\ frames'[c] = <<>>
        /\ phase' \in [Calls -> Phases] /\ phase'[c] = "laneSlot"
        /\ primary' \in [Calls -> 0..Len(sess')]
        /\ \A d \in Calls \ {c} : /\ frames'[d] = frames[d] /\ phase'[d] = phase[d]
                                  /\ slotOn'[d] = slotOn[d]
    BY <1>2, <1>4, <2>1 DEF Become, Phases, LaneType, Opened
  <2>3. OpensLane(c)
    <3>1. f = frames[c][Len(frames[c])] /\ Len(frames[c]) \in DOMAIN frames[c]
      BY <1>1, TopFrame
    <3> QED BY <1>5, <3>1 DEF OpensLane
  <2>4. LaneStage(c)'
    BY <1>1, <1>2, <1>4, <2>1, <2>2, <2>3 DEF LaneStage, NoSession
  <2>5. ASSUME NEW p \in Ids PROVE Room(p)'
    BY <1>1, SameRoom DEF OpenNext
  <2>6. lanes' \in [Ids -> SUBSET (1..Len(sess))] /\ laneLock' \in [Ids -> Calls \cup {NoCall}]
    BY <1>1, <1>2 DEF LaneType
  <2>7. Len(sess') \in Nat /\ Len(sess) <= Len(sess')
    BY <1>4
  <2>8. \A d \in Calls \ {c} :
          /\ frames'[d] = frames[d] /\ phase'[d] = phase[d]
          /\ primary'[d] = primary[d] /\ slotOn'[d] = slotOn[d]
          /\ \A p \in Ids : laneLock[p] = d => laneLock'[p] = d
    BY <1>1, <2>1, <2>2
  <2> QED BY <2>2, <2>4, <2>5, <2>6, <2>7, <2>8, CallKeepsLanes
<1>6. CASE ~f.lane
  <2>1. Return(c, s) /\ UNCHANGED slotOn
    BY <1>6 DEF Connected
  <2>2. \A d \in Calls \ {c} : frames'[d] = frames[d]
    BY <1>2, <2>1 DEF Return
  <2>3. s # NoSession
    BY <1>4 DEF NoSession
  <2>4. StackMoves(c, s)
    <3> HIDE DEF s
    <3> QED BY <1>1, <1>2, <1>4, <1>6, <2>1, <2>2, <2>3, ReturnDerived DEF StackMoves
  <2> QED BY <1>1, <1>4, <2>4, MovesKeepLanes
<1> QED BY <1>5, <1>6

(* A call that is past its opening.                                        *)
LEMMA PlainCallKeepsLanes ==
  ASSUME TypeInv, LaneInv, NEW c \in Calls, UNCHANGED <<sess, frames>>, phase[c] # "connecting",
         NEW x \in {"laneLock", "queue", "using", "done", "failed"}, Become(c, x),
         \/ UNCHANGED primary /\ primary[c] # NoSession
         \/ primary' = [primary EXCEPT ![c] = NoSession] /\ x \in {"done", "failed"},
         NEW s \in Opened, slotOn' = [slotOn EXCEPT ![c] = s], x = "using" => s # NoSession,
         lanes' \in [Ids -> SUBSET (1..Len(sess))], laneLock' \in [Ids -> Calls \cup {NoCall}],
         \A p \in Ids : laneLock[p] \notin {c, NoCall} => laneLock'[p] = laneLock[p],
         \A p \in Ids : Room(p)'
  PROVE  LaneInv'
<1>1. LaneType /\ LaneStage(c) /\ Len(sess) \in Nat /\ 0 \in 0..Len(sess)
  BY SessionsCounted DEF LaneInv
<1>2. frames'[c] = <<>> /\ \A d \in Calls \ {c} : frames'[d] = frames[d]
  BY <1>1 DEF LaneStage
<1>3. /\ phase' \in [Calls -> Phases] /\ phase'[c] = x
      /\ \A d \in Calls \ {c} : phase'[d] = phase[d]
  BY <1>1 DEF Become, Phases, LaneType
<1>4. /\ primary' \in [Calls -> 0..Len(sess')] /\ slotOn' \in [Calls -> 0..Len(sess')]
      /\ slotOn'[c] = s
      /\ primary'[c] # NoSession \/ x \in {"done", "failed"}
      /\ \A d \in Calls \ {c} : primary'[d] = primary[d] /\ slotOn'[d] = slotOn[d]
  BY <1>1 DEF LaneType, Opened, NoSession
<1>5. LaneStage(c)'
  <2>1. DOMAIN frames'[c] = {}
    BY <1>2
  <2> QED BY <1>2, <1>3, <1>4, <2>1 DEF LaneStage, OpensLane
<1>6. \A d \in Calls \ {c} : \A p \in Ids : laneLock[p] = d => laneLock'[p] = d
  BY PoolAssumption
<1>7. Len(sess') \in Nat /\ Len(sess) <= Len(sess')
  BY <1>1
<1> QED BY <1>2, <1>3, <1>4, <1>5, <1>6, <1>7, CallKeepsLanes

(* The sessions a call may take a slot on.                                 *)
LEMMA TakeSlotFacts ==
  ASSUME TypeInv, LaneInv, NEW c \in Calls, primary[c] # NoSession
  PROVE  /\ primary[c] \in 1..Len(sess) /\ primary[c] \in Ids /\ primary[c] \in Opened
         /\ slotOn[c] \in Opened /\ slotOn = [slotOn EXCEPT ![c] = slotOn[c]]
         /\ NoSession \in Opened
         /\ \A l \in lanes[primary[c]] : l \in 1..Len(sess) /\ l \in Opened /\ l # NoSession
<1>1. LaneType /\ Len(sess) \in Nat /\ 1..Len(sess) \subseteq Ids
  BY SessionsCounted DEF LaneInv
<1>2. primary[c] \in 1..Len(sess)
  BY <1>1 DEF LaneType, Opened, NoSession
<1> QED BY <1>1, <1>2 DEF LaneType, Opened, NoSession

LEMMA SameLanes ==
  ASSUME TypeInv, LaneInv, UNCHANGED <<end, lanes, laneLock>>
  PROVE  /\ lanes' \in [Ids -> SUBSET (1..Len(sess))] /\ laneLock' \in [Ids -> Calls \cup {NoCall}]
         /\ \A p \in Ids : Room(p)'
<1>1. ASSUME NEW p \in Ids PROVE Room(p)'
  BY SameRoom DEF OpenNext
<1> QED BY <1>1 DEF LaneInv, LaneType

LEMMA SlotStepKeepsLanes ==
  ASSUME TypeInv, LaneInv, NEW c \in Calls, TrySlots(c) \/ Queue(c) \/ Finish(c)
  PROVE  LaneInv'
<1>1. /\ UNCHANGED <<sess, frames, end, lanes, laneLock>>
      /\ phase[c] \in {"have", "queue", "using"} /\ (phase[c] # "using" => primary[c] # NoSession)
  BY DEF TrySlots, Queue, Finish, lanevars, LaneInv, LaneStage
<1>2. /\ lanes' \in [Ids -> SUBSET (1..Len(sess))] /\ laneLock' \in [Ids -> Calls \cup {NoCall}]
      /\ \A p \in Ids : Room(p)'
  BY <1>1, SameLanes
<1>3. ASSUME NEW x \in {"done", "failed"}, Leave(c, x) PROVE LaneInv'
  <2>1. NoSession \in Opened
    BY SessionsCounted DEF Opened, NoSession
  <2> QED BY <1>1, <1>2, <1>3, <2>1, PlainCallKeepsLanes DEF Leave
<1>4. ASSUME primary[c] # NoSession, NEW s \in {primary[c]} \cup lanes[primary[c]], TakeSlot(c, s)
      PROVE  LaneInv'
  <2>1. s \in Opened /\ s # NoSession
    BY <1>4, TakeSlotFacts
  <2> QED BY <1>1, <1>2, <1>4, <2>1, PlainCallKeepsLanes DEF TakeSlot
<1>5. ASSUME primary[c] # NoSession, NEW x \in {"queue", "laneLock"}, Become(c, x),
             UNCHANGED <<slotOn, primary>>
      PROVE  LaneInv'
  <2>1. slotOn[c] \in Opened /\ slotOn' = [slotOn EXCEPT ![c] = slotOn[c]]
    BY <1>5, TakeSlotFacts
  <2> QED BY <1>1, <1>2, <1>5, <2>1, PlainCallKeepsLanes
<1>6. CASE TrySlots(c)
  BY <1>1, <1>3, <1>4, <1>5, <1>6 DEF TrySlots, FreeLanes
<1>7. CASE Queue(c)
  BY <1>1, <1>3, <1>4, <1>7 DEF Queue
<1>8. CASE Finish(c)
  BY <1>3, <1>8 DEF Finish
<1> QED BY <1>6, <1>7, <1>8

LEMMA OpenLaneKeepsLanes == ASSUME TypeInv, LaneInv, NEW c \in Calls, OpenLane(c) PROVE LaneInv'
<1> DEFINE p == primary[c]
<1>1. /\ UNCHANGED <<sess, end>> /\ phase[c] = "laneLock" /\ p # NoSession /\ laneLock[p] = NoCall
      /\ LaneType /\ LaneStage(c) /\ Len(sess) \in Nat /\ frames \in [Calls -> Seq(FrameSet)]
  BY SessionsCounted DEF OpenLane, LaneInv, LaneStage, TypeInv
<1>2. /\ p \in Ids /\ p \in Opened /\ slotOn[c] \in Opened
      /\ slotOn = [slotOn EXCEPT ![c] = slotOn[c]]
      /\ \A l \in lanes[p] : l \in 1..Len(sess) /\ l \in Opened /\ l # NoSession
  BY <1>1, TakeSlotFacts
<1>3. ASSUME NEW l \in FreeLanes(c), TakeSlot(c, l), UNCHANGED <<lanes, laneLock, frames>>
      PROVE  LaneInv'
  <2>1. l \in Opened /\ l # NoSession
    BY <1>2 DEF FreeLanes
  <2>2. /\ lanes' \in [Ids -> SUBSET (1..Len(sess))] /\ laneLock' \in [Ids -> Calls \cup {NoCall}]
        /\ \A q \in Ids : Room(q)'
    BY <1>1, <1>3, SameLanes
  <2> QED BY <1>1, <1>3, <2>1, <2>2, PlainCallKeepsLanes DEF TakeSlot
<1>4. ASSUME lanes' = [lanes EXCEPT ![p] = OpenLanes(p)], UNCHANGED <<slotOn, primary>>
      PROVE  /\ lanes' \in [Ids -> SUBSET (1..Len(sess))]
             /\ \A q \in Ids : lanes'[q] \subseteq lanes[q]
             /\ OpenLanes(p)' = OpenLanes(p)
  BY <1>1, <1>2, <1>4 DEF OpenLanes, LaneType, IsOpen
<1>5. ASSUME lanes' = [lanes EXCEPT ![p] = OpenLanes(p)], UNCHANGED <<slotOn, primary>>,
             Become(c, "queue"), UNCHANGED <<laneLock, frames>>
      PROVE  LaneInv'
  <2>1. /\ lanes' \in [Ids -> SUBSET (1..Len(sess))] /\ laneLock' \in [Ids -> Calls \cup {NoCall}]
        /\ \A q \in Ids : lanes'[q] \subseteq lanes[q] /\ laneLock'[q] = laneLock[q]
    BY <1>1, <1>4, <1>5 DEF LaneType
  <2>2. ASSUME NEW q \in Ids PROVE Room(q)'
    <3>1. \A l \in lanes'[q] : OpenNext(l) => l \in lanes[q] /\ end[l] = "open"
      BY <1>1, <2>1 DEF OpenNext
    <3> QED BY <2>1, <3>1, SameRoom
  <2>3. slotOn' = [slotOn EXCEPT ![c] = slotOn[c]]
    BY <1>2, <1>5
  <2> QED BY <1>1, <1>2, <1>5, <2>1, <2>2, <2>3, PlainCallKeepsLanes
<1>6. ASSUME lanes' = [lanes EXCEPT ![p] = OpenLanes(p)], UNCHANGED <<slotOn, primary>>,
             ~(Cardinality(OpenLanes(p)) + 1 >= MaxConnections),
             laneLock' = [laneLock EXCEPT ![p] = c], Become(c, "connecting"),
             frames' = [frames EXCEPT ![c] = <<Frame(HostOf[c], "open", TRUE)>>]
      PROVE  LaneInv'
  <2> DEFINE g == Frame(HostOf[c], "open", TRUE)
  <2>1. g.lane /\ g.pc \in DiallingPcs
    BY DEF Frame, DiallingPcs
  <2> HIDE DEF g
  <2>2. /\ frames'[c] = <<g>> /\ DOMAIN frames'[c] = {1} /\ frames'[c][1] = g
        /\ \A d \in Calls \ {c} : frames'[d] = frames[d]
    <3>1. frames'[c] = <<g>> /\ \A d \in Calls \ {c} : frames'[d] = frames[d]
      BY <1>1, <1>6 DEF g
    <3> QED BY <3>1
  <2>3. /\ laneLock'[p] = c /\ laneLock' \in [Ids -> Calls \cup {NoCall}]
        /\ \A q \in Ids \ {p} : laneLock'[q] = laneLock[q]
    BY <1>1, <1>2, <1>6 DEF LaneType
  <2>4. /\ phase' \in [Calls -> Phases] /\ phase'[c] = "connecting"
        /\ \A d \in Calls \ {c} : phase'[d] = phase[d]
    BY <1>1, <1>6 DEF Become, Phases, LaneType
  <2>5. LaneStage(c)'
    BY <1>1, <1>6, <2>1, <2>2, <2>3, <2>4 DEF LaneStage, OpensLane
  <2>6. ASSUME NEW q \in Ids PROVE Room(q)'
    <3>1. CASE q = p
      <4>1. OpenLanes(p) \in SUBSET (1..Len(sess)) /\ Len(sess) \in Int /\ 1 \in Int
        BY <1>1, <1>2 DEF OpenLanes
      <4>2. Cardinality(OpenLanes(p)) \in Nat
        BY <4>1, FS_Interval, FS_Subset, FS_CardinalityType
      <4>3. 1 + Cardinality(OpenLanes(p)) + 1 <= MaxConnections
        BY <1>6, <4>2, PoolAssumption
      <4>4. c # NoCall
        BY PoolAssumption
      <4> QED BY <1>4, <1>6, <2>3, <3>1, <4>3, <4>4 DEF Room
    <3>2. CASE q # p
      <4>1. laneLock'[q] = laneLock[q] /\ lanes'[q] \subseteq lanes[q]
        BY <1>4, <1>6, <2>3, <3>2
      <4>2. \A l \in lanes'[q] : OpenNext(l) => l \in lanes[q] /\ end[l] = "open"
        BY <1>1, <4>1 DEF OpenNext
      <4> QED BY <4>1, <4>2, SameRoom
    <3> QED BY <3>1, <3>2
  <2>7. /\ primary' \in [Calls -> 0..Len(sess')] /\ slotOn' \in [Calls -> 0..Len(sess')]
        /\ Len(sess') \in Nat /\ Len(sess) <= Len(sess')
    BY <1>1, <1>6 DEF LaneType, Opened
  <2>8. \A d \in Calls \ {c} :
          /\ frames'[d] = frames[d] /\ phase'[d] = phase[d]
          /\ primary'[d] = primary[d] /\ slotOn'[d] = slotOn[d]
          /\ \A q \in Ids : laneLock[q] = d => laneLock'[q] = d
    BY <1>1, <1>6, <2>2, <2>3, <2>4, PoolAssumption
  <2> QED BY <1>4, <1>6, <2>3, <2>4, <2>5, <2>6, <2>7, <2>8, CallKeepsLanes
<1> QED BY <1>3, <1>5, <1>6 DEF OpenLane

LEMMA LaneSlotKeepsLanes == ASSUME TypeInv, LaneInv, NEW c \in Calls, LaneSlot(c) PROVE LaneInv'
<1> DEFINE p == primary[c]
           s == slotOn[c]
<1>1. /\ UNCHANGED <<sess, end, frames>> /\ phase[c] = "laneSlot" /\ laneLock' = LaneUnlocked(c)
      /\ LaneType /\ LaneStage(c) /\ Len(sess) \in Nat
  BY SessionsCounted DEF LaneSlot, LaneInv
<1>2. p # NoSession /\ laneLock[p] = c /\ s # NoSession
  BY <1>1 DEF LaneStage, OpensLane
<1>3. /\ p \in Ids /\ s \in Opened /\ NoSession \in Opened
      /\ \A l \in lanes[p] : l \in 1..Len(sess)
  BY <1>2, TakeSlotFacts
<1>4. s \in 1..Len(sess)
  BY <1>1, <1>2, <1>3 DEF Opened, NoSession
<1>5. /\ laneLock' \in [Ids -> Calls \cup {NoCall}] /\ laneLock'[p] = NoCall
      /\ \A q \in Ids : /\ laneLock'[q] \in {laneLock[q], NoCall}
                        /\ laneLock[q] # c => laneLock'[q] = laneLock[q]
  BY <1>1, <1>2, <1>3 DEF LaneUnlocked, LaneType
<1>6. CASE lanes' = [lanes EXCEPT ![p] = @ \cup {s}] /\ TakeSlot(c, s)
  <2>1. /\ lanes' \in [Ids -> SUBSET (1..Len(sess))] /\ lanes'[p] = lanes[p] \cup {s}
        /\ \A q \in Ids \ {p} : lanes'[q] = lanes[q]
    BY <1>1, <1>3, <1>4, <1>6 DEF LaneType
  <2>2. ASSUME NEW q \in Ids PROVE Room(q)'
    <3>1. CASE q # p
      BY <1>1, <1>5, <2>1, <3>1, SameRoom DEF OpenNext
    <3>2. CASE q = p
      <4>1. OpenLanes(p) \in SUBSET (1..Len(sess)) /\ Len(sess) \in Int /\ 1 \in Int
        BY <1>1, <1>3 DEF OpenLanes
      <4>2. IsFiniteSet(OpenLanes(p)) /\ Cardinality(OpenLanes(p)) \in Nat
        BY <4>1, FS_Interval, FS_Subset, FS_CardinalityType
      <4>3. OpenLanes(p)' \in SUBSET (OpenLanes(p) \cup {s})
        <5>1. primary' = primary
          BY <1>6 DEF TakeSlot
        <5> QED BY <1>1, <2>1, <5>1 DEF OpenLanes, IsOpen
      <4>4. /\ IsFiniteSet(OpenLanes(p) \cup {s})
            /\ Cardinality(OpenLanes(p) \cup {s}) <= Cardinality(OpenLanes(p)) + 1
            /\ Cardinality(OpenLanes(p) \cup {s}) \in Nat
        <5>1. /\ IsFiniteSet(OpenLanes(p) \cup {s})
              /\ Cardinality(OpenLanes(p) \cup {s}) = IF s \in OpenLanes(p) THEN Cardinality(OpenLanes(p))
                                                       ELSE Cardinality(OpenLanes(p)) + 1
          BY <4>2, FS_AddElement
        <5> QED BY <4>2, <5>1
      <4>5. /\ Cardinality(OpenLanes(p)') <= Cardinality(OpenLanes(p) \cup {s})
            /\ Cardinality(OpenLanes(p)') \in Nat
        BY <4>3, <4>4, FS_Subset, FS_CardinalityType
      <4>6. 1 + Cardinality(OpenLanes(p)) + 1 <= MaxConnections
        <5>1. c # NoCall /\ Room(p)
          BY <1>3, PoolAssumption DEF LaneInv
        <5> QED BY <1>2, <5>1 DEF Room
      <4>7. 1 + Cardinality(OpenLanes(p)') + 0 <= MaxConnections
        BY <4>2, <4>4, <4>5, <4>6, PoolAssumption
      <4>8. Room(p)' <=> 1 + Cardinality(OpenLanes(p)') + (IF laneLock'[p] # NoCall THEN 1 ELSE 0) <= MaxConnections
        <5>1. primary' = primary
          BY <1>6 DEF TakeSlot
        <5> QED BY <5>1 DEF Room
      <4> QED BY <1>5, <1>6, <3>2, <4>7, <4>8 DEF TakeSlot
    <3> QED BY <3>1, <3>2
  <2> QED BY <1>1, <1>2, <1>3, <1>5, <1>6, <2>1, <2>2, PlainCallKeepsLanes DEF TakeSlot
<1>7. CASE Leave(c, "failed") /\ UNCHANGED lanes
  <2>1. lanes' \in [Ids -> SUBSET (1..Len(sess))]
    BY <1>1, <1>7 DEF LaneType
  <2>2. ASSUME NEW q \in Ids PROVE Room(q)'
    BY <1>1, <1>5, <1>7, SameRoom DEF OpenNext
  <2> QED BY <1>1, <1>3, <1>5, <1>7, <2>1, <2>2, PlainCallKeepsLanes DEF Leave
<1> QED BY <1>6, <1>7 DEF LaneSlot

(* A cancelled call gives its lane lock back.                              *)
LEMMA CancelKeepsLanes == ASSUME TypeInv, LaneInv, NEW c \in Calls, Cancel(c) PROVE LaneInv'
<1>1. /\ UNCHANGED <<sess, end, lanes>> /\ laneLock' = LaneUnlocked(c)
      /\ frames' = [frames EXCEPT ![c] = <<>>] /\ Leave(c, "failed")
  BY DEF Cancel
<1>2. /\ LaneType /\ Len(sess) \in Nat /\ frames \in [Calls -> Seq(FrameSet)] /\ 0 \in 0..Len(sess)
  BY SessionsCounted DEF LaneInv, TypeInv
<1>3. /\ phase' = [phase EXCEPT ![c] = "failed"] /\ primary' = [primary EXCEPT ![c] = 0]
      /\ slotOn' = [slotOn EXCEPT ![c] = 0]
  BY <1>1 DEF Leave, Become, NoSession
<1>4. /\ phase' \in [Calls -> Phases] /\ primary' \in [Calls -> 0..Len(sess')]
      /\ slotOn' \in [Calls -> 0..Len(sess')] /\ phase'[c] = "failed" /\ frames'[c] = <<>>
      /\ lanes' \in [Ids -> SUBSET (1..Len(sess))]
      /\ \A d \in Calls \ {c} : /\ frames'[d] = frames[d] /\ phase'[d] = phase[d]
                                /\ primary'[d] = primary[d] /\ slotOn'[d] = slotOn[d]
  BY <1>1, <1>2, <1>3 DEF Phases, LaneType, Opened
<1>5. /\ laneLock' \in [Ids -> Calls \cup {NoCall}]
      /\ \A p \in Ids : /\ laneLock'[p] \in {laneLock[p], NoCall}
                        /\ \A d \in Calls \ {c} : laneLock[p] = d => laneLock'[p] = d
  BY <1>1, <1>2 DEF LaneUnlocked, LaneType
<1>6. ASSUME NEW p \in Ids PROVE Room(p)'
  BY <1>1, <1>5, SameRoom DEF OpenNext
<1>7. LaneStage(c)'
  <2>1. DOMAIN frames'[c] = {}
    BY <1>4
  <2> QED BY <1>4, <2>1 DEF LaneStage, OpensLane
<1>8. Len(sess') \in Nat /\ Len(sess) <= Len(sess')
  BY <1>1, <1>2
<1> QED BY <1>4, <1>5, <1>6, <1>7, <1>8, CallKeepsLanes

(* What takes a session away frees room.                                   *)
LEMMA AwayKeepsLanes ==
  ASSUME TypeInv, LaneInv, UNCHANGED calls, UNCHANGED sess,
         lanes' \in [Ids -> SUBSET (1..Len(sess))],
         \A p \in Ids : lanes'[p] \subseteq lanes[p],
         \A t \in Ids : end'[t] = "open" => end[t] = "open"
  PROVE  LaneInv'
<1>1. LaneType' /\ 1..Len(sess) \subseteq Ids
  BY SessionsCounted DEF LaneInv, LaneType, Opened, calls
<1>2. ASSUME NEW d \in Calls PROVE LaneStage(d)'
  BY <1>2 DEF calls, LaneInv, LaneStage, OpensLane
<1>3. ASSUME NEW p \in Ids PROVE Room(p)'
  <2>1. lanes[p] \subseteq Ids
    BY <1>1 DEF LaneInv, LaneType
  <2>2. \A l \in lanes'[p] : OpenNext(l) => l \in lanes[p] /\ end[l] = "open"
    BY <2>1 DEF OpenNext
  <2> QED BY <2>2, SameRoom DEF calls
<1> QED BY <1>1, <1>2, <1>3 DEF LaneInv

LEMMA EndedFacts ==
  ASSUME NEW S, NEW why \in {"asked", "idle", "lost"}, Ended(S, why)
  PROVE  \A t \in Ids : end'[t] = "open" => end[t] = "open"
BY DEF Ended

LEMMA EventKeepsLanes ==
  ASSUME TypeInv, LaneInv,
         \/ \E h \in Hosts : Disconnect(h) \/ Evict(h) \/ DropIdleLanes(h)
         \/ \E h \in Hosts, i \in DOMAIN Configs : Prune(h, i)
         \/ \E s \in Ids : SendDisconnect(s) \/ Lose(s)
         \/ Reload
  PROVE  LaneInv'
<1>1. lanes \in [Ids -> SUBSET (1..Len(sess))] /\ \A h \in Hosts : table[h] \in 0..Len(sess)
  BY SessionsCounted DEF LaneInv, LaneType, TypeInv
<1>2. ASSUME UNCHANGED calls, UNCHANGED <<sess, lanes, end>> PROVE LaneInv'
  BY <1>1, <1>2, AwayKeepsLanes
<1>3. ASSUME NEW h \in Hosts, DropIdleLanes(h) PROVE LaneInv'
  <2> DEFINE gone == {l \in lanes[table[h]] : ~IsOpen(l) \/ SlotsTaken(l) = 0}
  <2>1. /\ UNCHANGED calls /\ UNCHANGED sess /\ Ended(gone, "idle")
        /\ lanes' = [lanes EXCEPT ![table[h]] = @ \ gone]
    BY <1>3 DEF DropIdleLanes
  <2> HIDE DEF gone
  <2>2. /\ lanes' \in [Ids -> SUBSET (1..Len(sess))] /\ \A p \in Ids : lanes'[p] \subseteq lanes[p]
    BY <1>1, <2>1
  <2> QED BY <2>1, <2>2, EndedFacts, AwayKeepsLanes
<1>4. ASSUME NEW s \in Ids, SendDisconnect(s) PROVE LaneInv'
  <2>1. /\ UNCHANGED calls /\ UNCHANGED sess /\ Ended({s} \cup lanes[s], "asked")
        /\ lanes' = [lanes EXCEPT ![s] = {}]
    BY <1>4 DEF SendDisconnect
  <2>2. /\ lanes' \in [Ids -> SUBSET (1..Len(sess))] /\ \A p \in Ids : lanes'[p] \subseteq lanes[p]
    BY <1>1, <2>1
  <2> QED BY <2>1, <2>2, EndedFacts, AwayKeepsLanes
<1>5. ASSUME NEW s \in Ids, Lose(s) PROVE LaneInv'
  BY <1>1, <1>5, EndedFacts, AwayKeepsLanes DEF Lose
<1>6. ASSUME NEW h \in Hosts, Disconnect(h) \/ Evict(h) \/ \E i \in DOMAIN Configs : Prune(h, i) PROVE LaneInv'
  BY <1>2, <1>6 DEF Disconnect, Prune, Evict
<1>7. ASSUME Reload PROVE LaneInv'
  BY <1>2, <1>7 DEF Reload
<1> QED BY <1>3, <1>4, <1>5, <1>6, <1>7

LEMMA LaneInvNext == IInv /\ LaneInv /\ [Next]_vars => LaneInv'
<1> SUFFICES ASSUME IInv, LaneInv, [Next]_vars PROVE LaneInv'
  OBVIOUS
<1>1. TypeInv /\ Len(sess) \in Nat /\ \A h \in Hosts : table[h] \in Nat /\ table[h] <= Len(sess)
  BY SessionsCounted DEF IInv, TypeInv
<1>2. ASSUME NEW c \in Calls, CallStep(c) \/ Connected(c) \/ AuthFails(c) \/ Cancel(c) PROVE LaneInv'
  <2>1. CASE Lookup(c) \/ Lock(c) \/ Open(c) \/ BastionSlot(c) \/ KeyExchange(c)
    <3>1. /\ frames[c] # <<>> /\ UNCHANGED sess
          /\ Fail(c) \/ \E s \in {table[h] : h \in Hosts} \cup {NoSession} : StackMoves(c, s)
      BY <2>1, DialMoves
    <3>2. ASSUME NEW s \in {table[h] : h \in Hosts} \cup {NoSession}, StackMoves(c, s) PROVE LaneInv'
      <4>1. s \in Nat /\ s <= Len(sess') /\ Len(sess') \in Nat /\ Len(sess) <= Len(sess')
        BY <1>1, <3>1 DEF NoSession
      <4> QED BY <1>1, <3>1, <3>2, <4>1, MovesKeepLanes
    <3> QED BY <1>1, <3>1, <3>2, FailKeepsLanes
  <2>2. CASE Connected(c)
    BY <1>1, <2>2, ConnectedKeepsLanes
  <2>3. CASE HandshakeFails(c) \/ AuthFails(c)
    BY <1>1, <2>3, FailKeepsLanes DEF HandshakeFails, AuthFails, At
  <2>4. CASE TrySlots(c) \/ OpenLane(c) \/ LaneSlot(c) \/ Queue(c) \/ Finish(c)
    BY <1>1, <2>4, SlotStepKeepsLanes, OpenLaneKeepsLanes, LaneSlotKeepsLanes
  <2>5. CASE Cancel(c)
    BY <1>1, <2>5, CancelKeepsLanes
  <2> QED BY <1>2, <2>1, <2>2, <2>3, <2>4, <2>5 DEF CallStep
<1>3. ASSUME UNCHANGED vars PROVE LaneInv'
  <2>1. UNCHANGED calls /\ UNCHANGED <<sess, lanes, end>>
    BY <1>3 DEF vars, calls
  <2> QED BY <1>1, <2>1, AwayKeepsLanes DEF LaneInv, LaneType
<1>4. ASSUME NEW s \in Ids, LaneRetry(s) PROVE LaneInv'
  BY <1>4 DEF LaneRetry, LaneInv, LaneType, Opened, LaneStage, OpensLane, Room, OpenLanes, IsOpen
<1> QED BY <1>1, <1>2, <1>3, <1>4, EventKeepsLanes DEF Next

LEMMA LaneInvHolds == Spec => []LaneInv
<1>1. Init => LaneInv
  <2> SUFFICES ASSUME Init PROVE LaneInv
    OBVIOUS
  <2>1. Len(sess) = 0 /\ sess = <<>>
    BY DEF Init
  <2>2. LaneType
    BY <2>1 DEF Init, LaneType, Phases, Opened, NoSession
  <2>3. ASSUME NEW c \in Calls PROVE LaneStage(c)
    <3> DEFINE g == Frame(HostOf[c], "lookup", FALSE)
    <3>1. frames[c] = <<g>> /\ g.lane = FALSE /\ phase[c] = "connecting"
      BY DEF Init, Frame
    <3> HIDE DEF g
    <3>2. DOMAIN frames[c] = {1} /\ frames[c][1] = g
      BY <3>1
    <3> QED BY <3>1, <3>2 DEF LaneStage, OpensLane
  <2>4. ASSUME NEW p \in Ids PROVE Room(p)
    <3>1. OpenLanes(p) = {} /\ laneLock[p] = NoCall
      BY DEF Init, OpenLanes
    <3> QED BY <3>1, FS_EmptySet, PoolAssumption DEF Room
  <2> QED BY <2>2, <2>3, <2>4 DEF LaneInv
<1> QED BY <1>1, LaneInvNext, IInvHolds, PTL DEF Spec

(* A primary session, its open lanes and the one being opened never exceed *)
(* `max_connections_per_host`, however a burst of calls interleaves        *)
(* (`open_lane`: the lane lock covers the whole handshake).  It bounds the *)
(* connections of each primary, not of the host: an evicted primary still  *)
(* in use counts apart from the next one.                                  *)
THEOREM LanesWithinCap == Spec => []LaneCap
<1>1. IInv /\ LaneInv => LaneCap
  <2> SUFFICES ASSUME IInv, LaneInv, NEW p \in 1..Len(sess)
               PROVE  1 + Cardinality(OpenLanes(p))
                        + Cardinality({c \in Calls : /\ primary[c] = p
                                                     /\ \/ frames[c] # <<>> /\ Head(frames[c]).lane
                                                        \/ phase[c] = "laneSlot" /\ IsOpen(slotOn[c])})
                        <= MaxConnections
    BY DEF LaneCap
  <2> DEFINE Openers == {c \in Calls : /\ primary[c] = p
                                       /\ \/ frames[c] # <<>> /\ Head(frames[c]).lane
                                          \/ phase[c] = "laneSlot" /\ IsOpen(slotOn[c])}
  <2>1. p \in Ids /\ TypeInv /\ Len(sess) \in Int /\ 1 \in Int
    BY SessionsCounted DEF IInv
  <2>2. OpenLanes(p) \in SUBSET (1..Len(sess))
    BY <2>1 DEF OpenLanes, LaneInv, LaneType
  <2>3. Cardinality(OpenLanes(p)) \in Nat
    BY <2>1, <2>2, FS_Interval, FS_Subset, FS_CardinalityType
  <2>4. ASSUME NEW c \in Openers PROVE laneLock[p] = c /\ c # NoCall
    <3>1. LaneStage(c) /\ c # NoCall /\ primary[c] = p /\ c \in Calls
      BY PoolAssumption DEF LaneInv
    <3>2. CASE frames[c] # <<>> /\ Head(frames[c]).lane
      <4>1. frames[c] \in Seq(FrameSet)
        BY <2>1 DEF TypeInv
      <4>2. Head(frames[c]) = frames[c][1] /\ 1 \in DOMAIN frames[c]
        BY <2>1, <3>2, <4>1, TopFrame
      <4> QED BY <3>1, <3>2, <4>2 DEF LaneStage, OpensLane
    <3>3. CASE phase[c] = "laneSlot"
      BY <3>1, <3>3 DEF LaneStage, OpensLane
    <3> QED BY <3>2, <3>3
  <2>5. Cardinality(Openers) = 0 \/ (Cardinality(Openers) = 1 /\ laneLock[p] # NoCall)
    <3>1. CASE Openers = {}
      BY <3>1, FS_EmptySet
    <3>2. CASE Openers # {}
      <4>1. Openers = {laneLock[p]} /\ laneLock[p] # NoCall
        BY <2>4, <3>2
      <4> HIDE DEF Openers
      <4> QED BY <4>1, FS_Singleton
    <3> QED BY <3>1, <3>2
  <2>6. Room(p)
    BY <2>1 DEF LaneInv
  <2> HIDE DEF Openers
  <2>7. 1 + Cardinality(OpenLanes(p)) + Cardinality(Openers) <= MaxConnections
    BY <2>3, <2>5, <2>6, PoolAssumption DEF Room
  <2> QED BY <2>7 DEF Openers
<1> QED BY <1>1, IInvHolds, LaneInvHolds, PTL

-----------------------------------------------------------------------------
(* The clean-up of idle lanes.                                             *)

(* A step after which no session that stays is idle, no session became a   *)
(* lane that a call was not opening as one, and nothing is kept as a       *)
(* bastion that was not known to stay.                                     *)
LEMMA SurviveKept ==
  ASSUME TypeInv, LaneInv, SurviveInv, UNCHANGED sess,
         \A s : Lasting(s) => end'[s] # "idle",
         \A t \in Ids : t > Len(sess) => end'[t] # "idle",
         \A p \in Ids : \A l \in lanes'[p] :
            l \in lanes[p] \/ \E c \in Calls : phase[c] = "laneSlot" /\ slotOn[c] = l,
         \A c \in Calls : phase'[c] = "laneSlot" => phase[c] = "laneSlot" /\ slotOn'[c] = slotOn[c],
         \A h \in Hosts : table'[h] \in {table[h], NoSession},
         \A c \in Calls : \A i \in DOMAIN frames'[c] :
            frames'[c][i].parent # NoSession => Lasting(frames'[c][i].parent),
         \A c \in Calls : phase'[c] = "using" => end'[slotOn'[c]] # "idle"
  PROVE  SurviveInv'
<1>1. ASSUME NEW s, Lasting(s) PROVE Lasting(s)'
  BY <1>1 DEF Lasting
<1>2. \A h \in Hosts : table'[h] # NoSession => Lasting(table[h])' /\ table'[h] = table[h]
  BY <1>1 DEF SurviveInv
<1>3. \A t \in 1..Len(sess) : sess[t].parent # NoSession => Lasting(sess[t].parent)'
  BY <1>1 DEF SurviveInv
<1>4. ASSUME NEW c \in Calls, NEW i \in DOMAIN frames'[c], frames'[c][i].parent # NoSession
      PROVE  Lasting(frames[c][i].parent)'
  <2>1. PICK s : s = frames'[c][i].parent
    OBVIOUS
  <2>2. Lasting(s)
    BY <1>4, <2>1
  <2> QED BY <1>1, <2>1, <2>2 DEF Lasting
<1> QED BY <1>1, <1>2, <1>3, <1>4 DEF SurviveInv, Lasting

LEMMA CallSurvives ==
  ASSUME TypeInv, LaneInv, SurviveInv, NEW c \in Calls, UNCHANGED <<sess, end>>,
         \A p \in Ids : \A l \in lanes'[p] :
            l \in lanes[p] \/ (phase[c] = "laneSlot" /\ slotOn[c] = l),
         \A h \in Hosts : table'[h] \in {table[h], NoSession},
         \A d \in Calls \ {c} :
            frames'[d] = frames[d] /\ phase'[d] = phase[d] /\ slotOn'[d] = slotOn[d],
         phase'[c] # "laneSlot",
         \A i \in DOMAIN frames'[c] :
            frames'[c][i].parent # NoSession => Lasting(frames'[c][i].parent),
         phase'[c] = "using" => end[slotOn'[c]] = "open"
  PROVE  SurviveInv'
<1>1. \A s : Lasting(s) => end'[s] # "idle"
  BY DEF Lasting
<1>2. \A t \in Ids : t > Len(sess) => end'[t] # "idle"
  BY DEF SurviveInv
<1>3. ASSUME NEW d \in Calls, phase'[d] = "laneSlot" PROVE phase[d] = "laneSlot" /\ slotOn'[d] = slotOn[d]
  BY <1>3
<1>4. ASSUME NEW d \in Calls, NEW i \in DOMAIN frames'[d], frames'[d][i].parent # NoSession
      PROVE  Lasting(frames'[d][i].parent)
  BY <1>4 DEF SurviveInv
<1>5. ASSUME NEW d \in Calls, phase'[d] = "using" PROVE end'[slotOn'[d]] # "idle"
  BY <1>5 DEF SurviveInv
<1>6. \A p \in Ids : \A l \in lanes'[p] :
         l \in lanes[p] \/ \E d \in Calls : phase[d] = "laneSlot" /\ slotOn[d] = l
  OBVIOUS
<1> QED BY <1>1, <1>2, <1>3, <1>4, <1>5, <1>6, SurviveKept

LEMMA DialSurvives ==
  ASSUME IInv, LaneInv, SurviveInv, NEW c \in Calls,
         \/ Lookup(c) \/ Lock(c) \/ Open(c) \/ BastionSlot(c) \/ KeyExchange(c)
         \/ HandshakeFails(c) \/ AuthFails(c)
  PROVE  SurviveInv'
<1>1. /\ frames[c] # <<>> /\ UNCHANGED <<sess, end>>
      /\ \A h \in Hosts : table'[h] \in {table[h], NoSession}
      /\ Fail(c) \/ \E s \in {table[h] : h \in Hosts} \cup {NoSession} : StackMoves(c, s)
  <2>1. CASE HandshakeFails(c) \/ AuthFails(c)
    BY <2>1 DEF HandshakeFails, AuthFails, Fail, At
  <2> QED BY <2>1, DialMoves
<1>2. /\ phase \in [Calls -> Phases] /\ phase[c] = "connecting" /\ TypeInv
  BY <1>1 DEF IInv, LaneInv, LaneType, LaneStage
<1>3. CASE Fail(c)
  <2>1. /\ frames'[c] = <<>> /\ phase'[c] \in {"queue", "failed"} /\ UNCHANGED <<lanes, slotOn>>
        /\ \A d \in Calls \ {c} : frames'[d] = frames[d] /\ phase'[d] = phase[d]
    BY <1>2, <1>3 DEF Fail, Become, TypeInv
  <2>2. DOMAIN frames'[c] = {}
    BY <2>1
  <2> QED BY <1>1, <1>2, <2>1, <2>2, CallSurvives
<1>4. ASSUME NEW s \in {table[h] : h \in Hosts} \cup {NoSession}, StackMoves(c, s) PROVE SurviveInv'
  <2>1. /\ UNCHANGED <<lanes, slotOn>> /\ phase'[c] \in {"connecting", "have"}
        /\ \A d \in Calls \ {c} : frames'[d] = frames[d] /\ phase'[d] = phase[d]
    BY <1>2, <1>4 DEF StackMoves, Become
  <2>2. ASSUME NEW i \in DOMAIN frames'[c], frames'[c][i].parent # NoSession
        PROVE  Lasting(frames'[c][i].parent)
    BY <1>4, <2>2 DEF StackMoves, Derived, SurviveInv
  <2> QED BY <1>1, <1>2, <2>1, <2>2, CallSurvives
<1> QED BY <1>1, <1>3, <1>4

LEMMA CancelSurvives ==
  ASSUME TypeInv, LaneInv, SurviveInv, NEW c \in Calls, Cancel(c) PROVE SurviveInv'
<1>1. /\ UNCHANGED <<sess, end, lanes, table>> /\ frames' = [frames EXCEPT ![c] = <<>>]
      /\ phase' = [phase EXCEPT ![c] = "failed"] /\ slotOn' = [slotOn EXCEPT ![c] = NoSession]
  BY DEF Cancel, Leave, Become
<1>2. /\ frames'[c] = <<>> /\ phase'[c] = "failed"
      /\ \A d \in Calls \ {c} : frames'[d] = frames[d] /\ phase'[d] = phase[d] /\ slotOn'[d] = slotOn[d]
  BY <1>1 DEF TypeInv, LaneInv, LaneType
<1>3. DOMAIN frames'[c] = {}
  BY <1>2
<1> QED BY <1>1, <1>2, <1>3, CallSurvives

LEMMA SlotStepSurvives ==
  ASSUME TypeInv, LaneInv, SurviveInv, NEW c \in Calls,
         TrySlots(c) \/ OpenLane(c) \/ LaneSlot(c) \/ Queue(c) \/ Finish(c)
  PROVE  SurviveInv'
<1>1. /\ LaneType /\ UNCHANGED <<sess, end, table>>
  BY DEF LaneInv, TrySlots, OpenLane, LaneSlot, Queue, Finish
<1>2. ASSUME NEW s, TakeSlot(c, s), IsOpen(s) PROVE phase'[c] = "using" /\ end[slotOn'[c]] = "open"
  BY <1>1, <1>2 DEF TakeSlot, Become, IsOpen, LaneType
<1>3. ASSUME NEW x \in {"failed", "done"}, Leave(c, x) PROVE phase'[c] = x
  BY <1>1, <1>3 DEF Leave, Become, LaneType
<1>4. ASSUME NEW x, Become(c, x) PROVE phase'[c] = x
  BY <1>1, <1>4 DEF Become, LaneType
<1>5. phase'[c] # "laneSlot" /\ (phase'[c] = "using" => end[slotOn'[c]] = "open")
  <2>1. CASE TrySlots(c)
    BY <1>2, <1>3, <1>4, <2>1 DEF TrySlots, FreeLanes
  <2>2. CASE OpenLane(c)
    BY <1>2, <1>4, <2>2 DEF OpenLane, FreeLanes
  <2>3. CASE LaneSlot(c)
    BY <1>2, <1>3, <2>3 DEF LaneSlot
  <2>4. CASE Queue(c)
    BY <1>2, <1>3, <2>4 DEF Queue
  <2>5. CASE Finish(c)
    BY <1>3, <2>5 DEF Finish
  <2> QED BY <2>1, <2>2, <2>3, <2>4, <2>5
<1>6. \A d \in Calls \ {c} : phase'[d] = phase[d] /\ slotOn'[d] = slotOn[d]
  BY <1>1 DEF TrySlots, OpenLane, LaneSlot, Queue, Finish, TakeSlot, Leave, Become, LaneType
<1>7. \A p \in Ids : \A l \in lanes'[p] : l \in lanes[p] \/ (phase[c] = "laneSlot" /\ slotOn[c] = l)
  <2>1. CASE UNCHANGED lanes
    BY <2>1
  <2>2. CASE lanes' = [lanes EXCEPT ![primary[c]] = OpenLanes(primary[c])]
    BY <1>1, <2>2 DEF OpenLanes, LaneType
  <2>3. CASE phase[c] = "laneSlot" /\ lanes' = [lanes EXCEPT ![primary[c]] = @ \cup {slotOn[c]}]
    BY <1>1, <2>3 DEF LaneType
  <2> QED BY <2>1, <2>2, <2>3 DEF TrySlots, OpenLane, LaneSlot, Queue, Finish, lanevars
<1>8. /\ \A d \in Calls \ {c} : frames'[d] = frames[d]
      /\ \A i \in DOMAIN frames'[c] :
            frames'[c][i].parent # NoSession => Lasting(frames'[c][i].parent)
  <2>1. CASE UNCHANGED frames
    BY <2>1 DEF SurviveInv
  <2> DEFINE g == Frame(HostOf[c], "open", TRUE)
  <2>2. CASE frames' = [frames EXCEPT ![c] = <<g>>]
    <3>1. g.parent = NoSession
      BY DEF Frame
    <3> HIDE DEF g
    <3>2. frames'[c] = <<g>> /\ \A d \in Calls \ {c} : frames'[d] = frames[d]
      BY <2>2 DEF TypeInv
    <3>3. DOMAIN frames'[c] = {1} /\ frames'[c][1] = g
      BY <3>2
    <3> QED BY <3>1, <3>2, <3>3
  <2> QED BY <2>1, <2>2 DEF TrySlots, OpenLane, LaneSlot, Queue, Finish
<1> QED BY <1>1, <1>5, <1>6, <1>7, <1>8, CallSurvives

(* `Lasting` after the step.                                               *)
LastingNext(s) ==
  /\ s \in 1..Len(sess') /\ end'[s] # "idle"
  /\ \A p \in Ids : s \notin lanes'[p]
  /\ \A c \in Calls : phase'[c] = "laneSlot" => slotOn'[c] # s

LEMMA ConnectedSurvives ==
  ASSUME TypeInv, LaneInv, SurviveInv, NEW c \in Calls, Connected(c) PROVE SurviveInv'
<1> DEFINE f == Top(c)
           s == Len(sess) + 1
           r == [host |-> f.host, parent |-> f.parent, from |-> f.cfg, at |-> cfg]
<1>1. /\ frames[c] # <<>> /\ f.pc = "auth" /\ Len(sess) < MaxSessions
      /\ sess' = Append(sess, r) /\ UNCHANGED <<end, lanes, laneLock>>
  BY DEF Connected, At
<1>2. /\ f \in FrameSet /\ f.host \in Hosts /\ Len(frames[c]) \in DOMAIN frames[c]
      /\ f = frames[c][Len(frames[c])]
      /\ LaneType /\ LaneStage(c) /\ frames \in [Calls -> Seq(FrameSet)]
  BY <1>1, TopFrame DEF TypeInv, LaneInv
<1>3. r \in SessionSet
  BY <1>2, PoolAssumption DEF TypeInv, FrameSet, SessionSet
<1>4. /\ Len(sess') = s /\ Len(sess) \in Nat /\ s \in Nat /\ sess'[s] = r
      /\ \A t \in 1..Len(sess) : sess'[t] = sess[t]
  <2> HIDE DEF r
  <2> QED BY <1>1, <1>3, NewSession
<1>5. s \in Ids /\ 1..Len(sess') = 1..Len(sess) \cup {s} /\ s \notin 1..Len(sess) /\ s # NoSession
  BY <1>1, <1>4, PoolAssumption DEF Ids, NoSession
<1>6. phase[c] = "connecting" /\ \A d \in Calls : slotOn[d] \in 0..Len(sess)
  BY <1>1, <1>2 DEF LaneStage, LaneType, Opened
<1>7. /\ \A d \in Calls \ {c} : frames'[d] = frames[d] /\ phase'[d] = phase[d] /\ slotOn'[d] = slotOn[d]
      /\ phase'[c] # "using" /\ (phase'[c] = "laneSlot" => slotOn'[c] = s /\ f.lane)
      /\ \A i \in DOMAIN frames'[c] : frames'[c][i].parent \in {NoSession, s}
            \/ \E j \in DOMAIN frames[c] : frames'[c][i].parent = frames[c][j].parent
  <2>1. CASE f.lane
    <3>1. /\ slotOn' = [slotOn EXCEPT ![c] = s] /\ frames' = [frames EXCEPT ![c] = <<>>]
          /\ phase' = [phase EXCEPT ![c] = "laneSlot"]
      BY <2>1 DEF Connected, Become
    <3>2. frames'[c] = <<>>
      BY <1>2, <3>1
    <3> QED BY <1>2, <2>1, <3>1, <3>2 DEF LaneType
  <2>2. CASE ~f.lane
    <3>1. Return(c, s) /\ UNCHANGED slotOn
      BY <2>2 DEF Connected
    <3>2. /\ Derived(c, s)
          /\ \/ UNCHANGED phase
             \/ Become(c, "have")
      <4> HIDE DEF s
      <4> QED BY <1>1, <1>2, <1>4, <2>2, <3>1, ReturnDerived
    <3>3. \A d \in Calls \ {c} : frames'[d] = frames[d]
      BY <1>2, <3>1 DEF Return
    <3> QED BY <1>2, <1>6, <3>1, <3>2, <3>3 DEF Become, LaneType, Derived
  <2> QED BY <2>1, <2>2
<1>8. ASSUME NEW t, Lasting(t) PROVE LastingNext(t)
  <2>1. /\ t \in 1..Len(sess') /\ t # s /\ end'[t] # "idle" /\ \A p \in Ids : t \notin lanes'[p]
    BY <1>1, <1>5, <1>8 DEF Lasting
  <2>2. ASSUME NEW d \in Calls, phase'[d] = "laneSlot" PROVE slotOn'[d] # t
    BY <1>7, <1>8, <2>1, <2>2 DEF Lasting
  <2> QED BY <2>1, <2>2 DEF LastingNext
<1>9. ASSUME ~f.lane PROVE LastingNext(s)
  <2>1. end[s] # "idle"
    BY <1>4, <1>5 DEF SurviveInv
  <2>2. \A p \in Ids : s \notin lanes[p]
    BY <1>2, <1>5 DEF LaneType
  <2>3. ASSUME NEW d \in Calls, phase'[d] = "laneSlot" PROVE slotOn'[d] # s
    <3>1. d # c
      BY <1>7, <1>9, <2>3
    <3>2. slotOn'[d] = slotOn[d]
      BY <1>7, <3>1
    <3> QED BY <1>4, <1>6, <3>2
  <2> QED BY <1>1, <1>5, <2>1, <2>2, <2>3 DEF LastingNext
<1>10. ASSUME NEW h \in Hosts, table'[h] # NoSession PROVE LastingNext(table'[h])
  <2>1. CASE f.lane
    <3>1. table'[h] = table[h]
      BY <2>1 DEF Connected
    <3> QED BY <1>8, <1>10, <3>1 DEF SurviveInv
  <2>2. CASE ~f.lane
    <3>1. table' = [table EXCEPT ![f.host] = s] /\ table \in [Hosts -> Nat]
      BY <2>2 DEF Connected, TypeInv
    <3>2. table'[h] = s \/ table'[h] = table[h]
      BY <3>1
    <3> QED BY <1>8, <1>9, <1>10, <2>2, <3>2 DEF SurviveInv
  <2> QED BY <2>1, <2>2
<1>11. \A i \in DOMAIN frames[c] : frames[c][i].parent # NoSession => LastingNext(frames[c][i].parent)
  BY <1>8 DEF SurviveInv
<1>12. ASSUME NEW t \in 1..Len(sess'), sess'[t].parent # NoSession PROVE LastingNext(sess'[t].parent)
  <2>1. CASE t \in 1..Len(sess)
    BY <1>4, <1>8, <1>12, <2>1 DEF SurviveInv
  <2>2. CASE t = s
    <3>1. sess'[t].parent = f.parent
      BY <1>4, <2>2
    <3> QED BY <1>2, <1>11, <1>12, <3>1
  <2> QED BY <1>5, <2>1, <2>2
<1>13. ASSUME NEW d \in Calls, NEW i \in DOMAIN frames'[d], frames'[d][i].parent # NoSession
       PROVE  LastingNext(frames'[d][i].parent)
  <2>1. CASE d # c
    BY <1>7, <1>8, <1>13, <2>1 DEF SurviveInv
  <2>2. CASE d = c
    <3>1. f.lane => frames'[c] = <<>>
      BY <1>2 DEF Connected
    <3>2. ~f.lane
      BY <1>13, <2>2, <3>1
    <3> QED BY <1>7, <1>9, <1>11, <1>13, <2>2, <3>2
  <2> QED BY <2>1, <2>2
<1>14. ASSUME NEW d \in Calls, phase'[d] = "using" PROVE end'[slotOn'[d]] # "idle"
  BY <1>1, <1>7, <1>14 DEF SurviveInv
<1>15. ASSUME NEW t \in Ids, t > Len(sess') PROVE end'[t] # "idle"
  <2>1. t > Len(sess)
    BY <1>4, <1>15 DEF Ids
  <2> QED BY <1>1, <2>1 DEF SurviveInv
<1> QED BY <1>10, <1>12, <1>13, <1>14, <1>15 DEF SurviveInv, Lasting, LastingNext

(* A call on a session holds a slot of it.                                 *)
LEMMA UsedCounts ==
  ASSUME TypeInv, NEW c \in Calls, phase[c] = "using" PROVE SlotsTaken(slotOn[c]) # 0
<1> DEFINE s == slotOn[c]
           users == {d \in Calls : phase[d] = "using" /\ slotOn[d] = s}
           dialling == {d \in Calls : (At(d, "handshake") \/ At(d, "auth")) /\ Top(d).parent = s}
           behind == {t \in Alive : sess[t].parent = s}
<1>1. users \in SUBSET Calls /\ dialling \in SUBSET Calls /\ behind \in SUBSET (1..Len(sess))
  BY SessionsCounted DEF Alive
<1>2. IsFiniteSet(Calls) /\ IsFiniteSet(1..Len(sess))
  BY SessionsCounted, FS_Interval, PoolAssumption
<1>3. c \in users
  OBVIOUS
<1>4. SlotsTaken(s) = Cardinality(users) + Cardinality(dialling) + Cardinality(behind)
  BY DEF SlotsTaken
<1> HIDE DEF users, dialling, behind
<1>5. /\ Cardinality(users) \in Nat /\ Cardinality(users) # 0
      /\ Cardinality(dialling) \in Nat /\ Cardinality(behind) \in Nat
  BY <1>1, <1>2, <1>3, FS_Subset, FS_CardinalityType, FS_EmptySet
<1> QED BY <1>4, <1>5

LEMMA EventSurvives ==
  ASSUME TypeInv, LaneInv, SurviveInv,
         \/ \E h \in Hosts : Disconnect(h) \/ Evict(h) \/ DropIdleLanes(h)
         \/ \E h \in Hosts, i \in DOMAIN Configs : Prune(h, i)
         \/ \E s \in Ids : SendDisconnect(s) \/ Lose(s)
         \/ Reload
  PROVE  SurviveInv'
<1>1. /\ lanes \in [Ids -> SUBSET (1..Len(sess))] /\ 1..Len(sess) \subseteq Ids
      /\ table \in [Hosts -> Nat] /\ \A h \in Hosts : table[h] \in 0..Len(sess)
  BY SessionsCounted DEF LaneInv, LaneType, TypeInv
<1>2. UNCHANGED calls /\ UNCHANGED sess /\ UNCHANGED <<frames, phase, slotOn>>
  BY DEF Disconnect, Prune, Evict, DropIdleLanes, SendDisconnect, Lose, Reload, calls
<1>3. ASSUME \A h \in Hosts : table'[h] \in {table[h], NoSession},
             \A p \in Ids : lanes'[p] \subseteq lanes[p],
             \A t \in Ids : end'[t] = "idle" =>
                \/ end[t] = "idle"
                \/ t \in 1..Len(sess) /\ ~Lasting(t) /\ \A c \in Calls : phase[c] = "using" => slotOn[c] # t
      PROVE  SurviveInv'
  <2>1. \A s : Lasting(s) => end'[s] # "idle"
    BY <1>1, <1>3 DEF Lasting
  <2>2. \A t \in Ids : t > Len(sess) => end'[t] # "idle"
    BY <1>3, SessionsCounted DEF SurviveInv, Ids
  <2>3. ASSUME NEW c \in Calls, phase[c] = "using" PROVE end'[slotOn[c]] # "idle"
    <3>1. slotOn[c] \in Ids
      BY <1>1, <2>3, SessionsCounted DEF LaneInv, LaneType, LaneStage, Opened, NoSession
    <3> QED BY <1>3, <2>3, <3>1 DEF SurviveInv
  <2>4. \A c \in Calls : \A i \in DOMAIN frames'[c] :
           frames'[c][i].parent # NoSession => Lasting(frames'[c][i].parent)
    BY <1>2 DEF SurviveInv
  <2> QED BY <1>2, <1>3, <2>1, <2>2, <2>3, <2>4, SurviveKept
<1>4. ASSUME NEW S, NEW why \in {"asked", "lost"}, Ended(S, why) PROVE \A t \in Ids : end'[t] = "idle" => end[t] = "idle"
  BY <1>4 DEF Ended
<1>5. ASSUME NEW h \in Hosts, Disconnect(h) \/ Evict(h) \/ \E i \in DOMAIN Configs : Prune(h, i) PROVE SurviveInv'
  <2>1. /\ UNCHANGED <<end, lanes>>
        /\ UNCHANGED table \/ table' = [table EXCEPT ![h] = NoSession]
    BY <1>5 DEF Disconnect, Prune, Evict
  <2> QED BY <1>1, <1>3, <2>1
<1>6. ASSUME NEW h \in Hosts, DropIdleLanes(h) PROVE SurviveInv'
  <2> DEFINE p == table[h]
             gone == {l \in lanes[p] : ~IsOpen(l) \/ SlotsTaken(l) = 0}
  <2>1. /\ UNCHANGED table /\ Ended(gone, "idle") /\ lanes' = [lanes EXCEPT ![p] = @ \ gone]
        /\ p # NoSession
    BY <1>6 DEF DropIdleLanes
  <2>2. p \in Ids
    BY <1>1, <2>1, SessionsCounted DEF NoSession
  <2>3. ASSUME NEW t \in Ids, end'[t] = "idle", end[t] # "idle"
        PROVE  t \in 1..Len(sess) /\ ~Lasting(t) /\ \A c \in Calls : phase[c] = "using" => slotOn[c] # t
    <3>1. t \in gone /\ end[t] = "open"
      BY <2>1, <2>3 DEF Ended
    <3>2. t \in lanes[p] /\ t \in 1..Len(sess)
      BY <1>1, <2>2, <3>1
    <3>3. SlotsTaken(t) = 0
      BY <2>3, <3>1, <3>2, SessionsCounted DEF IsOpen, NoSession
    <3> QED BY <2>2, <3>2, <3>3, UsedCounts DEF Lasting
  <2> HIDE DEF gone
  <2>4. \A q \in Ids : lanes'[q] \subseteq lanes[q]
    BY <1>1, <2>1
  <2> QED BY <1>3, <2>1, <2>3, <2>4
<1>7. ASSUME NEW s \in Ids, SendDisconnect(s) PROVE SurviveInv'
  <2>1. /\ UNCHANGED table /\ Ended({s} \cup lanes[s], "asked") /\ lanes' = [lanes EXCEPT ![s] = {}]
    BY <1>7 DEF SendDisconnect
  <2>2. \A q \in Ids : lanes'[q] \subseteq lanes[q]
    BY <1>1, <2>1
  <2> QED BY <1>3, <1>4, <2>1, <2>2
<1>8. ASSUME NEW s \in Ids, Lose(s) PROVE SurviveInv'
  <2>1. UNCHANGED <<table, lanes>> /\ Ended({s}, "lost")
    BY <1>8 DEF Lose
  <2> QED BY <1>3, <1>4, <2>1
<1>9. ASSUME Reload PROVE SurviveInv'
  <2>1. UNCHANGED <<table, lanes, end>>
    BY <1>9 DEF Reload
  <2> QED BY <1>3, <2>1
<1> QED BY <1>5, <1>6, <1>7, <1>8, <1>9

LEMMA SurviveInvHolds == Spec => []SurviveInv
<1>1. Init => SurviveInv
  <2> SUFFICES ASSUME Init PROVE SurviveInv
    OBVIOUS
  <2>1. sess = <<>> /\ 1..Len(sess) = {}
    BY DEF Init
  <2>2. ASSUME NEW c \in Calls, NEW i \in DOMAIN frames[c] PROVE frames[c][i].parent = NoSession
    <3> DEFINE g == Frame(HostOf[c], "lookup", FALSE)
    <3>1. frames[c] = <<g>> /\ g.parent = NoSession
      BY DEF Init, Frame
    <3> HIDE DEF g
    <3>2. i = 1 /\ frames[c][1] = g
      BY <3>1
    <3> QED BY <3>1, <3>2
  <2> QED BY <2>1, <2>2 DEF Init, SurviveInv
<1>2. IInv /\ LaneInv /\ SurviveInv /\ [Next]_vars => SurviveInv'
  <2> SUFFICES ASSUME IInv, LaneInv, SurviveInv, [Next]_vars PROVE SurviveInv'
    OBVIOUS
  <2>1. TypeInv
    BY DEF IInv
  <2>2. ASSUME NEW c \in Calls, CallStep(c) \/ Connected(c) \/ AuthFails(c) \/ Cancel(c)
        PROVE  SurviveInv'
    BY <2>1, <2>2, DialSurvives, ConnectedSurvives, SlotStepSurvives, CancelSurvives DEF CallStep
  <2>4. ASSUME NEW s \in Ids, LaneRetry(s) PROVE SurviveInv'
    BY <2>4 DEF LaneRetry, SurviveInv, Lasting
  <2>3. CASE UNCHANGED vars
    BY <2>3 DEF vars, SurviveInv, Lasting
  <2> QED BY <2>1, <2>2, <2>3, <2>4, EventSurvives DEF Next
<1> QED BY <1>1, <1>2, IInvHolds, LaneInvHolds, PTL DEF Spec

(* The clean-up of idle lanes never closes the connection a call runs on,  *)
(* nor the bastion that connection goes through (`drop_idle_lanes`: a lane *)
(* with an exec in flight counts as used).                                 *)
THEOREM UsedSurvive == Spec => []UsedConnectionsSurvive
<1>1. LaneInv /\ SurviveInv => UsedConnectionsSurvive
  <2> SUFFICES ASSUME LaneInv, SurviveInv, NEW c \in Calls, phase[c] = "using"
               PROVE  /\ end[slotOn[c]] # "idle"
                      /\ sess[slotOn[c]].parent # NoSession => end[sess[slotOn[c]].parent] # "idle"
    BY DEF UsedConnectionsSurvive
  <2>1. slotOn[c] \in 1..Len(sess)
    BY DEF LaneInv, LaneType, LaneStage, Opened, NoSession
  <2> QED BY <2>1 DEF SurviveInv, Lasting
<1> QED BY <1>1, LaneInvHolds, SurviveInvHolds, PTL

-----------------------------------------------------------------------------
(* Numbers and the functions defined by them.                              *)

LEMMA Least ==
  ASSUME NEW T \in SUBSET Nat, T # {}
  PROVE  \E n \in T : \A m \in T : n <= m
<1>1. PICK n \in T : \A m \in T : <<m, n>> \notin OpToRel(<, Nat)
  BY NatLessThanWellFounded, WFMin
<1>2. \A m \in T : ~(m < n)
  BY <1>1 DEF OpToRel
<1> QED BY <1>2

LEMMA Induction ==
  ASSUME NEW T, 0 \in T, \A n \in Nat : n \in T => n + 1 \in T
  PROVE  Nat \subseteq T
<1> SUFFICES ASSUME Nat \ T # {} PROVE FALSE
  OBVIOUS
<1>1. PICK n \in Nat \ T : \A m \in Nat \ T : n <= m
  BY Least
<1>2. n # 0 /\ n - 1 \in Nat
  BY <1>1
<1>3. n - 1 \in T
  BY <1>1, <1>2
<1> QED BY <1>1, <1>2, <1>3

(* What each recursive definition of HostConfig stands for is a function.  *)
After(hosts, x) == IF x \in DOMAIN hosts THEN hosts[x].jump ELSE NoJump
IsWalk(f, hosts, from, n) == f = [i \in 0..n |-> IF i = 0 THEN from ELSE After(hosts, f[i - 1])]

LEMMA AlongWalks ==
  ASSUME NEW hosts, NEW from, NEW n \in Nat
  PROVE  IsWalk(Along(hosts, from, n), hosts, from, n)
<1> DEFINE T == {k \in Nat : \E f : IsWalk(f, hosts, from, k)}
<1>1. 0 \in T
  <2> DEFINE f == [i \in 0..0 |-> from]
  <2>1. f = [i \in 0..0 |-> IF i = 0 THEN from ELSE After(hosts, f[i - 1])]
    OBVIOUS
  <2> HIDE DEF f
  <2> QED BY <2>1 DEF IsWalk
<1>2. ASSUME NEW k \in Nat, k \in T PROVE k + 1 \in T
  <2>1. PICK f : f = [i \in 0..k |-> IF i = 0 THEN from ELSE After(hosts, f[i - 1])]
    BY <1>2 DEF IsWalk
  <2> DEFINE g == [i \in 0..(k + 1) |-> IF i = 0 THEN from ELSE After(hosts, f[i - 1])]
  <2>2. \A i \in 0..k : g[i] = f[i]
    BY <2>1
  <2>3. \A i \in 0..(k + 1) : i = 0 \/ g[i - 1] = f[i - 1]
    <3> HIDE DEF g
    <3>1. \A i \in 0..(k + 1) : i = 0 \/ i - 1 \in 0..k
      OBVIOUS
    <3> QED BY <2>2, <3>1
  <2>4. g = [i \in 0..(k + 1) |-> IF i = 0 THEN from ELSE After(hosts, g[i - 1])]
    BY <2>3
  <2> HIDE DEF g
  <2> QED BY <2>4 DEF IsWalk
<1> HIDE DEF T
<1>3. n \in T
  BY <1>1, <1>2, Induction
<1>4. \E f : IsWalk(f, hosts, from, n)
  BY <1>3 DEF T
<1>5. Along(hosts, from, n) = CHOOSE f : IsWalk(f, hosts, from, n)
  BY DEF Along, IsWalk, After
<1> QED BY <1>4, <1>5

Joined(s, t) == s \o t
IsFlat(f, ss, n) == f = [i \in 1..n |-> IF i = 1 THEN ss[i] ELSE Joined(f[i - 1], ss[i])]

LEMMA FlatFunction ==
  ASSUME NEW ss, NEW n \in Nat
  PROVE  \E f : IsFlat(f, ss, n)
<1> DEFINE T == {k \in Nat : \E f : IsFlat(f, ss, k)}
<1>1. 0 \in T
  <2> DEFINE f == [i \in 1..0 |-> ss]
  <2>1. f = [i \in 1..0 |-> IF i = 1 THEN ss[i] ELSE Joined(f[i - 1], ss[i])]
    OBVIOUS
  <2> HIDE DEF f
  <2> QED BY <2>1 DEF IsFlat
<1>2. ASSUME NEW k \in Nat, k \in T PROVE k + 1 \in T
  <2>1. PICK f : f = [i \in 1..k |-> IF i = 1 THEN ss[i] ELSE Joined(f[i - 1], ss[i])]
    BY <1>2 DEF IsFlat
  <2> DEFINE g == [i \in 1..(k + 1) |-> IF i = 1 THEN ss[i] ELSE Joined(f[i - 1], ss[i])]
  <2>2. \A i \in 1..k : g[i] = f[i]
    BY <2>1
  <2>3. \A i \in 1..(k + 1) : i = 1 \/ g[i - 1] = f[i - 1]
    <3> HIDE DEF g
    <3>1. \A i \in 1..(k + 1) : i = 1 \/ i - 1 \in 1..k
      OBVIOUS
    <3> QED BY <2>2, <3>1
  <2>4. g = [i \in 1..(k + 1) |-> IF i = 1 THEN ss[i] ELSE Joined(g[i - 1], ss[i])]
    BY <2>3
  <2> HIDE DEF g
  <2> QED BY <2>4 DEF IsFlat
<1> HIDE DEF T
<1>3. n \in T
  BY <1>1, <1>2, Induction
<1> QED BY <1>3 DEF T

LEMMA Flattened ==
  ASSUME NEW S, NEW ss \in Seq(Seq(S))
  PROVE  FlattenSeq(ss) \in Seq(S)
<1>1. Len(ss) \in Nat /\ \A i \in 1..Len(ss) : ss[i] \in Seq(S)
  BY LenProperties, ElementOfSeq
<1>2. CASE Len(ss) = 0
  <2>1. ss = <<>>
    BY <1>2, EmptySeq
  <2> QED BY <1>2, <2>1, EmptySeq DEF FlattenSeq
<1>3. CASE Len(ss) # 0
  <2> DEFINE f == CHOOSE f : IsFlat(f, ss, Len(ss))
             T == {k \in Nat : k + 1 <= Len(ss) => f[k + 1] \in Seq(S)}
  <2>1. FlattenSeq(ss) = f[Len(ss)]
    BY <1>3 DEF FlattenSeq, IsFlat, Joined
  <2>2. f = [i \in 1..Len(ss) |-> IF i = 1 THEN ss[i] ELSE Joined(f[i - 1], ss[i])]
    BY <1>1, FlatFunction DEF IsFlat
  <2> HIDE DEF f
  <2>3. 0 \in T
    BY <1>1, <2>2
  <2>4. ASSUME NEW k \in Nat, k \in T PROVE k + 1 \in T
    <3> SUFFICES ASSUME k + 2 <= Len(ss) PROVE f[k + 2] \in Seq(S)
      OBVIOUS
    <3>1. k + 2 \in 1..Len(ss) /\ k + 2 # 1 /\ (k + 2) - 1 = k + 1
      BY <1>1
    <3>2. \A i \in 1..Len(ss) : i # 1 => f[i] = Joined(f[i - 1], ss[i])
      BY <2>2
    <3>4. f[k + 2] = Joined(f[k + 1], ss[k + 2])
      BY <3>1, <3>2
    <3>3. f[k + 1] \in Seq(S) /\ ss[k + 2] \in Seq(S)
      BY <1>1, <2>4, <3>1
    <3> QED BY <3>3, <3>4, ConcatProperties DEF Joined
  <2>5. Len(ss) - 1 \in Nat
    BY <1>1, <1>3
  <2> HIDE DEF T
  <2>6. Len(ss) - 1 \in T
    BY <2>3, <2>4, <2>5, Induction
  <2> QED BY <1>1, <2>1, <2>5, <2>6 DEF T
<1> QED BY <1>2, <1>3

-----------------------------------------------------------------------------
(* Jumps.                                                                  *)

(* No hosts jump only among themselves.                                    *)
NoRing(hosts) == \A S \in (SUBSET DOMAIN hosts) \ {{}} : \E n \in S : hosts[n].jump \notin S
JumpsKnown(hosts) == \A n \in DOMAIN hosts : hosts[n].jump \in {NoJump} \cup (DOMAIN hosts \ {n})
Named(hosts) == IsFiniteSet(DOMAIN hosts) /\ NoJump \notin DOMAIN hosts

LEMMA Steps ==
  ASSUME NEW hosts, NEW from, NEW n \in Nat
  PROVE  LET w == Along(hosts, from, n) IN
         w[0] = from /\ \A i \in Nat : i + 1 <= n => w[i + 1] = After(hosts, w[i])
<1> DEFINE w == Along(hosts, from, n)
<1>1. w = [i \in 0..n |-> IF i = 0 THEN from ELSE After(hosts, w[i - 1])]
  BY AlongWalks DEF IsWalk
<1> HIDE DEF w
<1>2. w[0] = from
  BY <1>1
<1>3. ASSUME NEW i \in Nat, i + 1 <= n PROVE w[i + 1] = After(hosts, w[i])
  <2>1. \A j \in 0..n : j # 0 => w[j] = After(hosts, w[j - 1])
    BY <1>1
  <2>2. i + 1 \in 0..n /\ i + 1 # 0 /\ (i + 1) - 1 = i
    BY <1>3
  <2> QED BY <2>1, <2>2
<1> QED BY <1>2, <1>3 DEF w

(* A chain that ends leaves every set.                                     *)
LEMMA RingFree ==
  ASSUME NEW hosts, Named(hosts), \A n \in DOMAIN hosts : ChainEnds(hosts, n)
  PROVE  NoRing(hosts)
<1> SUFFICES ASSUME NEW S \in SUBSET DOMAIN hosts, NEW from \in S, \A n \in S : hosts[n].jump \in S
             PROVE  FALSE
  BY DEF NoRing
<1> DEFINE c == Cardinality(DOMAIN hosts)
           w == Along(hosts, from, c)
           T == {i \in Nat : i <= c => w[i] \in S}
<1>1. c \in Nat
  BY FS_CardinalityType DEF Named
<1> HIDE DEF c
<1>2. w[0] = from /\ \A i \in Nat : i + 1 <= c => w[i + 1] = After(hosts, w[i])
  BY <1>1, Steps
<1>3. w[c] = NoJump
  BY DEF ChainEnds, c
<1> HIDE DEF w
<1>4. 0 \in T
  BY <1>2
<1>5. ASSUME NEW i \in Nat, i \in T PROVE i + 1 \in T
  <2> SUFFICES ASSUME i + 1 <= c PROVE w[i + 1] \in S
    OBVIOUS
  <2>1. w[i] \in S
    BY <1>1, <1>5
  <2> QED BY <1>2, <2>1 DEF After
<1> HIDE DEF T
<1>6. c \in T
  BY <1>1, <1>4, <1>5, Induction
<1> QED BY <1>1, <1>3, <1>6 DEF T, Named

(* A chain as long as there are hosts that did not end met one twice.      *)
LEMMA ChainsEnd ==
  ASSUME NEW hosts, Named(hosts), JumpsKnown(hosts), NoRing(hosts), NEW from \in DOMAIN hosts
  PROVE  ChainEnds(hosts, from)
<1> DEFINE c == Cardinality(DOMAIN hosts)
           w == Along(hosts, from, c)
<1>1. c \in Nat /\ IsFiniteSet(DOMAIN hosts) /\ NoJump \notin DOMAIN hosts
  BY FS_CardinalityType DEF Named
<1> SUFFICES ASSUME w[c] # NoJump PROVE FALSE
  BY DEF ChainEnds
<1>2. w[0] = from /\ \A i \in Nat : i + 1 <= c => w[i + 1] = After(hosts, w[i])
  BY <1>1, Steps
<1> HIDE DEF w
<1>3. \A k \in Nat : k <= c => w[c - k] # NoJump
  <2> DEFINE T == {k \in Nat : k <= c => w[c - k] # NoJump}
  <2>1. 0 \in T
    BY <1>1
  <2>2. ASSUME NEW k \in Nat, k \in T PROVE k + 1 \in T
    <3> SUFFICES ASSUME k + 1 <= c PROVE w[c - (k + 1)] # NoJump
      OBVIOUS
    <3> DEFINE i == c - (k + 1)
    <3>1. i \in Nat /\ i + 1 <= c /\ c - k = i + 1
      BY <1>1
    <3>2. w[i + 1] # NoJump
      BY <1>1, <2>2, <3>1
    <3> HIDE DEF i
    <3>3. w[i] # NoJump
      BY <1>1, <1>2, <3>1, <3>2 DEF After
    <3> QED BY <3>3 DEF i
  <2> HIDE DEF T
  <2>3. Nat \subseteq T
    BY <2>1, <2>2, Induction
  <2> QED BY <2>3 DEF T
<1>4. \A i \in 0..c : w[i] # NoJump
  <2> TAKE i \in 0..c
  <2>1. c - i \in Nat /\ c - i <= c /\ c - (c - i) = i
    BY <1>1
  <2> QED BY <1>3, <2>1
<1>5. \A i \in 0..c : w[i] \in DOMAIN hosts
  <2> TAKE i \in 0..c
  <2>1. CASE i = 0
    BY <1>2, <2>1
  <2>2. CASE i # 0
    <3>1. i - 1 \in Nat /\ (i - 1) + 1 <= c /\ (i - 1) + 1 = i
      BY <1>1, <2>2
    <3>2. w[i] = After(hosts, w[i - 1])
      BY <1>2, <3>1
    <3> QED BY <1>4, <3>2 DEF After, JumpsKnown
  <2> QED BY <2>1, <2>2
<1>6. PICK i, j \in 0..c : i < j /\ w[i] = w[j]
  <2> DEFINE f == [k \in 0..c |-> w[k]]
  <2>1. f \in [0..c -> DOMAIN hosts]
    BY <1>5
  <2>2. IsFiniteSet(0..c) /\ Cardinality(0..c) = c + 1 /\ Cardinality(DOMAIN hosts) < Cardinality(0..c)
    BY <1>1, FS_Interval
  <2> HIDE DEF f, c
  <2>3. \E x, y \in 0..c : x # y /\ f[x] = f[y]
    BY <1>1, <2>1, <2>2, FS_PigeonHole
  <2>4. PICK x, y \in 0..c : x # y /\ w[x] = w[y]
    BY <2>3 DEF f
  <2>5. x < y \/ y < x
    BY <1>1, <2>4
  <2> QED BY <2>4, <2>5
<1> DEFINE S == {w[k] : k \in i..(j - 1)}
<1>7. S \subseteq DOMAIN hosts
  BY <1>1, <1>5
<1>8. w[i] \in S
  BY <1>1, <1>6
<1>9. ASSUME NEW n \in S PROVE hosts[n].jump \in S
  <2>1. PICK k \in i..(j - 1) : n = w[k]
    OBVIOUS
  <2>2. k \in 0..c /\ k \in Nat /\ k + 1 <= c /\ k + 1 \in 0..c
    BY <1>1, <2>1
  <2>3. w[k + 1] = hosts[n].jump
    BY <1>2, <1>5, <2>1, <2>2 DEF After
  <2>4. CASE k + 1 = j
    BY <1>6, <1>8, <2>3, <2>4
  <2>5. CASE k + 1 # j
    <3>1. k + 1 \in i..(j - 1)
      BY <1>1, <2>1, <2>5
    <3> QED BY <2>3, <3>1
  <2> QED BY <2>4, <2>5
<1> HIDE DEF S
<1> QED BY <1>7, <1>8, <1>9 DEF NoRing

(* A jump that `jump_would_cycle` lets through closes no ring.             *)
LEMMA JumpAdded ==
  ASSUME NEW hosts, Named(hosts), NoRing(hosts), NEW n \in DOMAIN hosts, NEW to \in DOMAIN hosts,
         ~WouldCycle(hosts, n, to), NEW wired, DOMAIN wired = DOMAIN hosts, wired[n].jump = to,
         \A m \in DOMAIN hosts \ {n} : wired[m].jump = hosts[m].jump
  PROVE  NoRing(wired)
<1> SUFFICES ASSUME NEW S \in SUBSET DOMAIN hosts, S # {}, \A m \in S : wired[m].jump \in S
             PROVE  FALSE
  BY DEF NoRing
<1>1. CASE n \notin S
  BY <1>1 DEF NoRing
<1>2. CASE n \in S
  <2> DEFINE c == Cardinality(DOMAIN hosts) + 1
             w == Along(hosts, to, c)
  <2>1. c \in Nat
    BY FS_CardinalityType DEF Named
  <2>9. IsWalk(w, hosts, to, c)
    <3> HIDE DEF c
    <3> QED BY <2>1, AlongWalks
  <2>2. w = [i \in 0..c |-> IF i = 0 THEN to ELSE After(hosts, w[i - 1])]
    BY <2>9 DEF IsWalk
  <2>3. w[0] = to /\ \A i \in Nat : i + 1 <= c => w[i + 1] = After(hosts, w[i])
    BY <2>1, Steps
  <2>4. (\A i \in DOMAIN w : w[i] # n) /\ NoJump \in {w[i] : i \in DOMAIN w}
    BY DEF WouldCycle
  <2> HIDE DEF c, w
  <2>5. PICK e \in 0..c : w[e] = NoJump
    BY <2>2, <2>4
  <2> DEFINE T == {i \in Nat : i <= c => w[i] \in S \ {n}}
  <2>6. 0 \in T
    <3>1. 0 \in DOMAIN w
      BY <2>1, <2>2
    <3>2. to \in S
      BY <1>2
    <3> QED BY <2>3, <2>4, <3>1, <3>2
  <2>7. ASSUME NEW i \in Nat, i \in T PROVE i + 1 \in T
    <3> SUFFICES ASSUME i + 1 <= c PROVE w[i + 1] \in S \ {n}
      OBVIOUS
    <3>1. w[i] \in S \ {n}
      BY <2>1, <2>7
    <3>2. w[i + 1] = hosts[w[i]].jump
      BY <2>3, <3>1 DEF After
    <3>3. i + 1 \in DOMAIN w
      BY <2>1, <2>2
    <3> QED BY <2>4, <3>1, <3>2, <3>3
  <2> HIDE DEF T
  <2>8. e \in T /\ e <= c
    BY <2>1, <2>6, <2>7, Induction
  <2> QED BY <2>5, <2>8 DEF T, Named
<1> QED BY <1>1, <1>2

-----------------------------------------------------------------------------
(* The aliases of ~/.ssh/config.                                           *)

NamedBy(sofar, pattern) ==
  IF pattern.negated \/ pattern.glob \in {"*"} \cup ToSet(sofar) THEN sofar ELSE Append(sofar, pattern.glob)
IsNamed(f, patterns, n) == f = [i \in 0..n |-> IF i = 0 THEN <<>> ELSE NamedBy(f[i - 1], patterns[i])]

LEMMA NamedFunction ==
  ASSUME NEW patterns, NEW n \in Nat
  PROVE  \E f : IsNamed(f, patterns, n)
<1> DEFINE T == {k \in Nat : \E f : IsNamed(f, patterns, k)}
<1>1. 0 \in T
  <2> DEFINE f == [i \in 0..0 |-> <<>>]
  <2>1. f = [i \in 0..0 |-> IF i = 0 THEN <<>> ELSE NamedBy(f[i - 1], patterns[i])]
    OBVIOUS
  <2> HIDE DEF f
  <2> QED BY <2>1 DEF IsNamed
<1>2. ASSUME NEW k \in Nat, k \in T PROVE k + 1 \in T
  <2>1. PICK f : f = [i \in 0..k |-> IF i = 0 THEN <<>> ELSE NamedBy(f[i - 1], patterns[i])]
    BY <1>2 DEF IsNamed
  <2> DEFINE g == [i \in 0..(k + 1) |-> IF i = 0 THEN <<>> ELSE NamedBy(f[i - 1], patterns[i])]
  <2>2. \A i \in 0..k : g[i] = f[i]
    BY <2>1
  <2>3. \A i \in 0..(k + 1) : i = 0 \/ g[i - 1] = f[i - 1]
    <3> HIDE DEF g
    <3>1. \A i \in 0..(k + 1) : i = 0 \/ i - 1 \in 0..k
      OBVIOUS
    <3> QED BY <2>2, <3>1
  <2>4. g = [i \in 0..(k + 1) |-> IF i = 0 THEN <<>> ELSE NamedBy(g[i - 1], patterns[i])]
    BY <2>3
  <2> HIDE DEF g
  <2> QED BY <2>4 DEF IsNamed
<1> HIDE DEF T
<1>3. n \in T
  BY <1>1, <1>2, Induction
<1> QED BY <1>3 DEF T

Blocks == [patterns : Seq(Patterns), entries : Seq(Lines), implicit : BOOLEAN]

LEMMA AliasesTyped ==
  ASSUME NEW bs \in Seq(Blocks)
  PROVE  ListAliases(bs) \in Seq(Names)
<1> DEFINE each == [i \in DOMAIN bs |-> bs[i].patterns]
           patterns == FlattenSeq(each)
           f == CHOOSE f : IsNamed(f, patterns, Len(patterns))
           T == {k \in Nat : k <= Len(patterns) => f[k] \in Seq(Names)}
<1>1. patterns \in Seq(Patterns)
  <2>1. DOMAIN bs = 1..Len(bs) /\ Len(bs) \in Nat /\ \A i \in 1..Len(bs) : bs[i].patterns \in Seq(Patterns)
    <3>1. DOMAIN bs = 1..Len(bs) /\ Len(bs) \in Nat
      BY LenProperties
    <3>2. \A i \in 1..Len(bs) : bs[i] \in Blocks
      BY ElementOfSeq
    <3>3. \A b \in Blocks : b.patterns \in Seq(Patterns)
      BY DEF Blocks
    <3> QED BY <3>1, <3>2, <3>3
  <2>2. each \in Seq(Seq(Patterns))
    BY <2>1, SeqDef
  <2> HIDE DEF each
  <2> QED BY <2>2, Flattened
<1>2. ListAliases(bs) = f[Len(patterns)]
  BY DEF ListAliases, IsNamed, NamedBy
<1> HIDE DEF patterns
<1>3. Len(patterns) \in Nat /\ \A i \in 1..Len(patterns) : patterns[i] \in Patterns
  BY <1>1, LenProperties, ElementOfSeq
<1>4. f = [i \in 0..Len(patterns) |-> IF i = 0 THEN <<>> ELSE NamedBy(f[i - 1], patterns[i])]
  BY <1>3, NamedFunction DEF IsNamed
<1> HIDE DEF f
<1>5. 0 \in T
  BY <1>3, <1>4, EmptySeq
<1>6. ASSUME NEW k \in Nat, k \in T PROVE k + 1 \in T
  <2> SUFFICES ASSUME k + 1 <= Len(patterns) PROVE f[k + 1] \in Seq(Names)
    OBVIOUS
  <2>1. k + 1 \in 0..Len(patterns) /\ k + 1 \in 1..Len(patterns) /\ k + 1 # 0 /\ (k + 1) - 1 = k
    BY <1>3
  <2>2. \A i \in 0..Len(patterns) : i # 0 => f[i] = NamedBy(f[i - 1], patterns[i])
    BY <1>4
  <2>3. f[k + 1] = NamedBy(f[k], patterns[k + 1])
    BY <2>1, <2>2
  <2>4. f[k] \in Seq(Names) /\ patterns[k + 1] \in Patterns
    BY <1>3, <1>6, <2>1
  <2>5. CASE patterns[k + 1].glob \in Names
    BY <2>3, <2>4, <2>5, AppendProperties DEF NamedBy
  <2>6. CASE patterns[k + 1].glob = "*"
    BY <2>3, <2>4, <2>6 DEF NamedBy
  <2> QED BY <2>4, <2>5, <2>6 DEF Patterns
<1> HIDE DEF T
<1>7. Len(patterns) \in T
  BY <1>3, <1>5, <1>6, Induction
<1> QED BY <1>2, <1>3, <1>7 DEF T

-----------------------------------------------------------------------------
(* Wiring the imported hosts, one after the other.                         *)

WiredBy(bs, sofar, alias, new) == IF alias \in new THEN WireOne(bs, sofar, alias) ELSE sofar
IsWired(f, bs, hosts, new, aliases, n) ==
  f = [i \in 0..n |-> IF i = 0 THEN hosts ELSE WiredBy(bs, f[i - 1], aliases[i], new)]

LEMMA WiredFunction ==
  ASSUME NEW bs, NEW hosts, NEW new, NEW aliases, NEW n \in Nat
  PROVE  \E f : IsWired(f, bs, hosts, new, aliases, n)
<1> DEFINE T == {k \in Nat : \E f : IsWired(f, bs, hosts, new, aliases, k)}
<1>1. 0 \in T
  <2> DEFINE f == [i \in 0..0 |-> hosts]
  <2>1. f = [i \in 0..0 |-> IF i = 0 THEN hosts ELSE WiredBy(bs, f[i - 1], aliases[i], new)]
    OBVIOUS
  <2> HIDE DEF f
  <2> QED BY <2>1 DEF IsWired
<1>2. ASSUME NEW k \in Nat, k \in T PROVE k + 1 \in T
  <2>1. PICK f : f = [i \in 0..k |-> IF i = 0 THEN hosts ELSE WiredBy(bs, f[i - 1], aliases[i], new)]
    BY <1>2 DEF IsWired
  <2> DEFINE g == [i \in 0..(k + 1) |-> IF i = 0 THEN hosts ELSE WiredBy(bs, f[i - 1], aliases[i], new)]
  <2>2. \A i \in 0..k : g[i] = f[i]
    BY <2>1
  <2>3. \A i \in 0..(k + 1) : i = 0 \/ g[i - 1] = f[i - 1]
    <3> HIDE DEF g
    <3>1. \A i \in 0..(k + 1) : i = 0 \/ i - 1 \in 0..k
      OBVIOUS
    <3> QED BY <2>2, <3>1
  <2>4. g = [i \in 0..(k + 1) |-> IF i = 0 THEN hosts ELSE WiredBy(bs, g[i - 1], aliases[i], new)]
    BY <2>3
  <2> HIDE DEF g
  <2> QED BY <2>4 DEF IsWired
<1> HIDE DEF T
<1>3. n \in T
  BY <1>1, <1>2, Induction
<1> QED BY <1>3 DEF T

(* What wiring leaves of the hosts it starts from.                         *)
Extends(hosts, wired, new) ==
  /\ DOMAIN wired = DOMAIN hosts
  /\ \A n \in DOMAIN hosts \ new : wired[n] = hosts[n]
  /\ \A n \in new : wired[n].sound = hosts[n].sound /\ wired[n].addr = hosts[n].addr
                    /\ wired[n].user = hosts[n].user
  /\ JumpsKnown(hosts) => JumpsKnown(wired)
  /\ NoRing(hosts) => NoRing(wired)

(* A host is what Host makes.                                              *)
Made(hosts) == \A n \in DOMAIN hosts : hosts[n] = Host(hosts[n].addr, hosts[n].user, hosts[n].sound, hosts[n].jump)

LEMMA OneWired ==
  ASSUME NEW bs, NEW hosts, Named(hosts), NEW new \in SUBSET DOMAIN hosts, NEW sofar,
         Made(sofar), Extends(hosts, sofar, new), NEW n \in new
  PROVE  LET wired == WireOne(bs, sofar, n) IN Made(wired) /\ Extends(hosts, wired, new)
<1> DEFINE to == JumpAlias(Query(bs, n, "proxyjump", <<>>))
           wired == WireOne(bs, sofar, n)
<1>1. CASE ~(to \in DOMAIN sofar \ {n} /\ ~WouldCycle(sofar, n, to))
  BY <1>1 DEF WireOne
<1>2. CASE to \in DOMAIN sofar \ {n} /\ ~WouldCycle(sofar, n, to)
  <2>1. wired = [sofar EXCEPT ![n].jump = to]
    BY <1>2 DEF WireOne
  <2> HIDE DEF wired, to
  <2>2. DOMAIN wired = DOMAIN sofar /\ DOMAIN sofar = DOMAIN hosts /\ n \in DOMAIN sofar
    BY <2>1 DEF Extends
  <2>3. \A m \in DOMAIN sofar \ {n} : wired[m] = sofar[m]
    BY <2>1, <2>2
  <2>4. wired[n] = Host(sofar[n].addr, sofar[n].user, sofar[n].sound, to)
    BY <2>1, <2>2 DEF Made, Host
  <2>5. wired[n].sound = sofar[n].sound /\ wired[n].addr = sofar[n].addr /\ wired[n].user = sofar[n].user
        /\ wired[n].jump = to
    BY <2>4 DEF Host
  <2>6. Made(wired)
    <3>1. wired[n] = Host(wired[n].addr, wired[n].user, wired[n].sound, wired[n].jump)
      BY <2>4, <2>5
    <3>2. ASSUME NEW m \in DOMAIN sofar \ {n}
          PROVE  wired[m] = Host(wired[m].addr, wired[m].user, wired[m].sound, wired[m].jump)
      BY <2>3 DEF Made
    <3> QED BY <2>2, <3>1, <3>2 DEF Made
  <2>7. \A m \in DOMAIN hosts \ new : wired[m] = hosts[m]
    BY <2>2, <2>3 DEF Extends
  <2>8. \A m \in new : wired[m].sound = hosts[m].sound /\ wired[m].addr = hosts[m].addr
                       /\ wired[m].user = hosts[m].user
    BY <2>2, <2>3, <2>5 DEF Extends
  <2>9. JumpsKnown(sofar) => JumpsKnown(wired)
    BY <1>2, <2>2, <2>3, <2>5 DEF JumpsKnown
  <2>10. NoRing(sofar) => NoRing(wired)
    <3> SUFFICES ASSUME NoRing(sofar) PROVE NoRing(wired)
      OBVIOUS
    <3>1. Named(sofar)
      BY <2>2 DEF Named
    <3>2. \A m \in DOMAIN sofar \ {n} : wired[m].jump = sofar[m].jump
      BY <2>3
    <3> QED BY <1>2, <2>2, <2>5, <3>1, <3>2, JumpAdded
  <2> QED BY <2>2, <2>6, <2>7, <2>8, <2>9, <2>10 DEF Extends, wired
<1> QED BY <1>1, <1>2

LEMMA WireExtends ==
  ASSUME NEW bs, NEW hosts, Named(hosts), Made(hosts), NEW new \in SUBSET DOMAIN hosts,
         ListAliases(bs) \in Seq(Names)
  PROVE  Extends(hosts, Wire(bs, hosts, new), new)
<1> DEFINE aliases == ListAliases(bs)
           f == CHOOSE f : IsWired(f, bs, hosts, new, aliases, Len(aliases))
           T == {k \in Nat : k <= Len(aliases) => Made(f[k]) /\ Extends(hosts, f[k], new)}
<1>1. Wire(bs, hosts, new) = f[Len(aliases)]
  BY DEF Wire, IsWired, WiredBy
<1>2. Len(aliases) \in Nat
  BY LenProperties
<1> HIDE DEF aliases
<1>3. f = [i \in 0..Len(aliases) |-> IF i = 0 THEN hosts ELSE WiredBy(bs, f[i - 1], aliases[i], new)]
  BY <1>2, WiredFunction DEF IsWired
<1> HIDE DEF f
<1>4. 0 \in T
  <2>1. f[0] = hosts
    BY <1>2, <1>3
  <2> QED BY <2>1 DEF Extends
<1>5. ASSUME NEW k \in Nat, k \in T PROVE k + 1 \in T
  <2> SUFFICES ASSUME k + 1 <= Len(aliases)
               PROVE  Made(f[k + 1]) /\ Extends(hosts, f[k + 1], new)
    OBVIOUS
  <2>1. k + 1 \in 0..Len(aliases) /\ k + 1 # 0 /\ (k + 1) - 1 = k
    BY <1>2
  <2>2. \A i \in 0..Len(aliases) : i # 0 => f[i] = WiredBy(bs, f[i - 1], aliases[i], new)
    BY <1>3
  <2>3. f[k + 1] = WiredBy(bs, f[k], aliases[k + 1], new)
    BY <2>1, <2>2
  <2>4. Made(f[k]) /\ Extends(hosts, f[k], new)
    BY <1>2, <1>5, <2>1
  <2>5. CASE aliases[k + 1] \in new
    BY <2>3, <2>4, <2>5, OneWired DEF WiredBy
  <2>6. CASE aliases[k + 1] \notin new
    BY <2>3, <2>4, <2>6 DEF WiredBy
  <2> QED BY <2>5, <2>6
<1> HIDE DEF T
<1>6. Len(aliases) \in T
  BY <1>2, <1>4, <1>5, Induction
<1> QED BY <1>1, <1>2, <1>6 DEF T

-----------------------------------------------------------------------------
(* The lines read so far and what they load.                               *)

ConfigTyped == toml \in Declared /\ blocks \in Seq(Blocks) /\ current \in Seq(Blocks)

LEMMA FlushTyped == ConfigTyped => Flush \in Seq(Blocks)
<1> SUFFICES ASSUME ConfigTyped PROVE Flush \in Seq(Blocks)
  OBVIOUS
<1>1. blocks \o current \in Seq(Blocks)
  BY ConcatProperties DEF ConfigTyped
<1> QED BY <1>1 DEF Flush, ConfigTyped

LEMMA OneBlock == \A b \in Blocks : <<b>> \in Seq(Blocks)
OBVIOUS

LEMMA ConfigTyping == ConfigSpec => []ConfigTyped
<1>1. ConfigInit => ConfigTyped
  <2>1. <<Star>> \in Seq(Patterns) /\ <<>> \in Seq(Lines) /\ <<>> \in Seq(Blocks)
    BY DEF Star, Plain, Patterns
  <2>2. Global \in Blocks
    BY <2>1 DEF Global, Block, Blocks
  <2> QED BY <2>1, <2>2, OneBlock DEF ConfigInit, ConfigTyped
<1>2. ConfigTyped /\ [ReadLine]_configvars => ConfigTyped'
  <2> SUFFICES ASSUME ConfigTyped, [ReadLine]_configvars PROVE ConfigTyped'
    OBVIOUS
  <2>1. CASE UNCHANGED configvars
    BY <2>1 DEF ConfigTyped, configvars
  <2>2. CASE ReadLine /\ ReadHost
    <3>1. PICK line \in Lines : line.kw = "host" /\ blocks' = Flush /\ current' = <<Block(line.value)>>
      BY <2>2 DEF ReadHost
    <3>2. Block(line.value) \in Blocks
      <4>1. line.value \in Seq(Patterns) /\ <<>> \in Seq(Lines)
        BY <3>1, ConfigAssumption, EmptySeq
      <4> QED BY <4>1 DEF Block, Blocks
    <3> QED BY <2>2, <3>1, <3>2, OneBlock, FlushTyped DEF ConfigTyped, ReadLine
  <2>3. CASE ReadLine /\ ReadMatch
    BY <2>3, FlushTyped, EmptySeq DEF ConfigTyped, ReadLine, ReadMatch
  <2>4. CASE ReadLine /\ ReadEntry
    <3>1. PICK line \in Lines :
            current' = [i \in DOMAIN current |-> [current[i] EXCEPT !.entries = Append(@, line)]]
      BY <2>4 DEF ReadEntry
    <3>2. DOMAIN current = 1..Len(current) /\ Len(current) \in Nat /\ \A i \in 1..Len(current) : current[i] \in Blocks
      BY LenProperties, ElementOfSeq DEF ConfigTyped
    <3>3. \A b \in Blocks : [b EXCEPT !.entries = Append(@, line)] \in Blocks
      <4> TAKE b \in Blocks
      <4>1. b.entries \in Seq(Lines)
        BY DEF Blocks
      <4>2. Append(b.entries, line) \in Seq(Lines)
        BY <4>1, AppendProperties
      <4> QED BY <4>2 DEF Blocks
    <3>4. current' \in Seq(Blocks)
      BY <3>1, <3>2, <3>3, SeqDef
    <3> QED BY <2>4, <3>4 DEF ConfigTyped, ReadLine, ReadEntry
  <2> QED BY <2>1, <2>2, <2>3, <2>4 DEF ReadLine
<1> QED BY <1>1, <1>2, PTL DEF ConfigSpec

(* The hosts before any jump of the import is wired.                       *)
LEMMA InsertedHosts ==
  ASSUME toml \in Declared, NEW bs, ListAliases(bs) \in Seq(Names)
  PROVE  LET hosts == Inserted(bs, toml)
             new == Imported(bs, toml)
         IN /\ Named(toml)
            /\ Named(hosts) /\ Made(hosts) /\ new \subseteq DOMAIN hosts
            /\ DOMAIN hosts = DOMAIN toml \cup new
            /\ \A n \in DOMAIN toml : n \notin new /\ hosts[n] = toml[n]
            /\ \A n \in new : hosts[n].sound /\ hosts[n].jump = NoJump
            /\ JumpsKnown(toml) => JumpsKnown(hosts)
            /\ NoRing(toml) => NoRing(hosts)
<1> DEFINE hosts == Inserted(bs, toml)
           new == Imported(bs, toml)
<1>1. Named(toml) /\ Made(toml) /\ DOMAIN toml \subseteq Names /\ NoJump \notin Names
  <2>1. \A n \in DOMAIN toml : toml[n] = Host(toml[n].addr, toml[n].user, toml[n].sound, toml[n].jump)
    BY ConfigAssumption
  <2> QED BY <2>1, ConfigAssumption DEF Named, Made
<1>2. new \subseteq Names /\ IsFiniteSet(new)
  <2>1. ToSet(ListAliases(bs)) \subseteq Names
    BY ElementOfSeq, LenProperties DEF ToSet
  <2>2. IsFiniteSet(ToSet(ListAliases(bs)))
    <3> DEFINE s == ListAliases(bs)
    <3>1. Len(s) \in Nat /\ DOMAIN s = 1..Len(s)
      BY LenProperties
    <3> HIDE DEF s
    <3>2. IsFiniteSet(1..Len(s))
      BY <3>1, FS_Interval
    <3> DEFINE T == {s[i] : i \in 1..Len(s)}
               f == [i \in 1..Len(s) |-> s[i]]
    <3>3. f \in Surjection(1..Len(s), T)
      BY DEF Surjection
    <3> HIDE DEF f, T
    <3>4. IsFiniteSet(T)
      BY <3>2, <3>3, FS_Surjection
    <3> QED BY <3>1, <3>4 DEF ToSet, s, T
  <2>3. new \subseteq ToSet(ListAliases(bs))
    BY DEF Imported
  <2> QED BY <2>1, <2>2, <2>3, FS_Subset
<1>3. \A n \in DOMAIN toml : n \notin new
  BY DEF Imported
<1>4. DOMAIN hosts = DOMAIN toml \cup new
  BY DEF Inserted
<1>5. \A n \in DOMAIN toml : hosts[n] = toml[n]
  BY DEF Inserted
<1>6. \A n \in new : hosts[n] = Host(Query(bs, n, "hostname", NoJump), Query(bs, n, "user", "root"), TRUE, NoJump)
  BY <1>3 DEF Inserted
<1> HIDE DEF hosts, new
<1>7. \A n \in new : hosts[n].sound /\ hosts[n].jump = NoJump
  <2> TAKE n \in new
  <2> DEFINE a == Query(bs, n, "hostname", NoJump)
             u == Query(bs, n, "user", "root")
  <2>1. hosts[n] = Host(a, u, TRUE, NoJump)
    BY <1>6
  <2> HIDE DEF a, u
  <2>2. hosts[n].sound = TRUE /\ hosts[n].jump = NoJump
    BY <2>1 DEF Host
  <2> QED BY <2>2
<1>8. Named(hosts)
  <2>1. IsFiniteSet(DOMAIN toml \cup new)
    BY <1>1, <1>2, FS_Union DEF Named
  <2> QED BY <1>1, <1>2, <1>4, <2>1 DEF Named
<1>9. Made(hosts)
  <2>1. ASSUME NEW n \in new
        PROVE  hosts[n] = Host(hosts[n].addr, hosts[n].user, hosts[n].sound, hosts[n].jump)
    <3>1. hosts[n] = Host(Query(bs, n, "hostname", NoJump), Query(bs, n, "user", "root"), TRUE, NoJump)
      BY <1>6
    <3> DEFINE a == Query(bs, n, "hostname", NoJump)
               u == Query(bs, n, "user", "root")
    <3> HIDE DEF a, u
    <3>2. hosts[n] = Host(a, u, TRUE, NoJump)
      BY <3>1 DEF a, u
    <3>3. hosts[n].addr = a /\ hosts[n].user = u /\ hosts[n].sound = TRUE /\ hosts[n].jump = NoJump
      BY <3>2 DEF Host
    <3> QED BY <3>2, <3>3
  <2> QED BY <1>1, <1>4, <1>5, <2>1 DEF Made
<1>10. JumpsKnown(toml) => JumpsKnown(hosts)
  BY <1>4, <1>5, <1>7 DEF JumpsKnown
<1>11. NoRing(toml) => NoRing(hosts)
  <2> SUFFICES ASSUME NoRing(toml), NEW S \in (SUBSET DOMAIN hosts) \ {{}}, \A n \in S : hosts[n].jump \in S
               PROVE  FALSE
    BY DEF NoRing
  <2>1. CASE S \cap new = {}
    <3>1. S \in (SUBSET DOMAIN toml) \ {{}}
      BY <1>4, <2>1
    <3> QED BY <1>5, <3>1 DEF NoRing
  <2>2. CASE S \cap new # {}
    <3>1. PICK n \in new : n \in S
      BY <2>2
    <3> QED BY <1>7, <1>8, <3>1 DEF Named
  <2> QED BY <2>1, <2>2
<1> QED BY <1>1, <1>3, <1>4, <1>5, <1>7, <1>8, <1>9, <1>10, <1>11 DEF hosts, new

LEMMA LoadedHosts ==
  ASSUME ConfigTyped
  PROVE  LET new == Imported(Finished, toml) IN
         /\ Named(toml) /\ Named(Loaded) /\ DOMAIN Loaded = DOMAIN toml \cup new
         /\ \A n \in DOMAIN toml : Loaded[n] = toml[n]
         /\ \A n \in new : Loaded[n].sound
         /\ JumpsKnown(toml) => JumpsKnown(Loaded)
         /\ NoRing(toml) => NoRing(Loaded)
<1> DEFINE hosts == Inserted(Finished, toml)
           new == Imported(Finished, toml)
<1>1. ListAliases(Finished) \in Seq(Names)
  BY FlushTyped, AliasesTyped DEF Finished
<1>2. toml \in Declared
  BY DEF ConfigTyped
<1>3. /\ Named(toml)
      /\ Named(hosts) /\ Made(hosts) /\ new \subseteq DOMAIN hosts
      /\ DOMAIN hosts = DOMAIN toml \cup new
      /\ \A n \in DOMAIN toml : n \notin new /\ hosts[n] = toml[n]
      /\ \A n \in new : hosts[n].sound /\ hosts[n].jump = NoJump
      /\ JumpsKnown(toml) => JumpsKnown(hosts)
      /\ NoRing(toml) => NoRing(hosts)
  BY <1>1, <1>2, InsertedHosts
<1>4. Loaded = Wire(Finished, hosts, new)
  BY DEF Loaded, MergeSshConfig
<1> HIDE DEF hosts, new
<1>5. Extends(hosts, Loaded, new)
  BY <1>1, <1>3, <1>4, WireExtends
<1>6. Named(Loaded)
  BY <1>3, <1>5 DEF Named, Extends
<1>7. \A n \in DOMAIN toml : Loaded[n] = toml[n]
  BY <1>3, <1>5 DEF Extends
<1>8. \A n \in new : Loaded[n].sound
  BY <1>3, <1>5 DEF Extends
<1> QED BY <1>3, <1>5, <1>6, <1>7, <1>8 DEF Extends, new

(* What validate says of the jumps.                                        *)
LEMMA ValidatedJumps ==
  ASSUME NEW hosts, Named(hosts), Validate(hosts)
  PROVE  JumpsKnown(hosts) /\ NoRing(hosts)
<1>1. JumpsKnown(hosts)
  BY DEF Validate, JumpsKnown
<1>2. NoRing(hosts)
  BY RingFree DEF Validate
<1> QED BY <1>1, <1>2

(* No hosts of a configuration that loads jump only among themselves, and  *)
(* every jump is to a host (validate, config.rs): a chain of bastions ends,*)
(* whatever hosts.toml and ~/.ssh/config say, so the locks taken along one *)
(* are never waited for in a ring.                                         *)
THEOREM ChainsOfJumpsEnd == ConfigSpec => []JumpsEnd
<1>1. ConfigTyped => JumpsEnd
  <2> SUFFICES ASSUME ConfigTyped, Validate(Loaded)
               PROVE  /\ \A n \in DOMAIN Loaded : Loaded[n].jump \in DOMAIN Loaded \cup {NoJump}
                      /\ \A S \in (SUBSET DOMAIN Loaded) \ {{}} : \E n \in S : Loaded[n].jump \notin S
    BY DEF JumpsEnd
  <2>1. JumpsKnown(Loaded) /\ NoRing(Loaded)
    BY LoadedHosts, ValidatedJumps
  <2> QED BY <2>1 DEF JumpsKnown, NoRing
<1> QED BY <1>1, ConfigTyping, PTL

(* The import of ~/.ssh/config changes no declared host, and what loads    *)
(* without it loads with it (merge_ssh_config): whatever the file says, no *)
(* jump it asks for closes a ring or names a host that is not there.       *)
THEOREM ImportNeverFails == ConfigSpec => []ImportHarmless
<1>1. ConfigTyped => ImportHarmless
  <2> SUFFICES ASSUME ConfigTyped PROVE ImportHarmless
    OBVIOUS
  <2> DEFINE new == Imported(Finished, toml)
  <2>1. /\ Named(toml) /\ Named(Loaded) /\ DOMAIN Loaded = DOMAIN toml \cup new
        /\ \A n \in DOMAIN toml : Loaded[n] = toml[n]
        /\ \A n \in new : Loaded[n].sound
        /\ JumpsKnown(toml) => JumpsKnown(Loaded)
        /\ NoRing(toml) => NoRing(Loaded)
    BY LoadedHosts
  <2> HIDE DEF new
  <2>2. ASSUME Validate(toml), \A n \in DOMAIN Loaded : Empty \notin {Loaded[n].addr, Loaded[n].user}
        PROVE  Validate(Loaded)
    <3>1. JumpsKnown(Loaded) /\ NoRing(Loaded)
      BY <2>1, <2>2, ValidatedJumps
    <3>2. \A n \in DOMAIN Loaded : ChainEnds(Loaded, n)
      BY <2>1, <3>1, ChainsEnd
    <3>3. \A n \in DOMAIN Loaded : Loaded[n].sound
      BY <2>1, <2>2 DEF Validate
    <3>4. \A n \in DOMAIN Loaded : Loaded[n].jump = NoJump \/ Loaded[n].jump \in DOMAIN Loaded \ {n}
      BY <3>1 DEF JumpsKnown
    <3> QED BY <2>2, <3>2, <3>3, <3>4 DEF Validate
  <2> QED BY <2>1, <2>2 DEF ImportHarmless
<1> QED BY <1>1, ConfigTyping, PTL
=============================================================================
