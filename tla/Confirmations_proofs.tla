------------------------- MODULE Confirmations_proofs -------------------------
(***************************************************************************)
(* Proofs about Confirmations, for every number of calls, of commands in a *)
(* call, of guard sets and of reloads.                                     *)
(***************************************************************************)
EXTENDS Confirmations, SequenceTheorems, FiniteSetTheorems, TLAPS

TypeInv ==
  /\ stage \in [Calls -> Stages]
  /\ pos \in [Calls -> Nat \ {0}]
  /\ snap \in [Calls -> DOMAIN GuardSets]
  /\ version \in DOMAIN GuardSets

VerdictAt(c, i) == GuardSets[snap[c]][CmdsOf[c][i]]

(* A call has no denied command behind it, none before it while it asks,   *)
(* and nothing ahead of it once it runs or its questions are out.          *)
Judged(c) ==
  /\ stage[c] # "idle" =>
       \A i \in 1..Len(CmdsOf[c]) : i < pos[c] => VerdictAt(c, i) # "deny"
  /\ stage[c] = "asking" => VerdictAt(c, pos[c]) # "deny"
  /\ stage[c] \in {"awaiting", "running"} => pos[c] > Len(CmdsOf[c])

IInv == TypeInv /\ \A c \in Calls : Judged(c)

LEMMA Constants ==
  /\ \A c \in Calls : Len(CmdsOf[c]) \in Nat
  /\ Len(GuardSets) \in Nat \ {0} /\ DOMAIN GuardSets = 1..Len(GuardSets)
  /\ "deny" \notin Patterns
BY ConfirmationsAssumption, LenProperties, EmptySeq

(* Only the call that moves changes what is known of it.                   *)
Others(c) == \A d \in Calls \ {c} : stage'[d] = stage[d] /\ pos'[d] = pos[d] /\ snap'[d] = snap[d]

LEMMA OthersKeepJudged ==
  ASSUME IInv, NEW c \in Calls, Others(c), Judged(c)', TypeInv'
  PROVE  IInv'
<1>1. ASSUME NEW d \in Calls \ {c} PROVE Judged(d)'
  BY <1>1 DEF IInv, Others, Judged, VerdictAt
<1> QED BY <1>1 DEF IInv

(* Judging one more command that is not denied. *)
LEMMA AdvanceOK ==
  ASSUME IInv, NEW c \in Calls, stage[c] \in {"checking", "asking"}, VerdictAt(c, pos[c]) # "deny",
         Advance(c), UNCHANGED <<version, snap>>,
         Go(c, "checking") \/ (stage[c] = "checking" /\ UNCHANGED stage)
  PROVE  IInv'
<1>1. pos'[c] = pos[c] + 1 /\ stage'[c] = "checking" /\ snap' = snap
  BY DEF Advance, Go, IInv, TypeInv
<1>2. TypeInv' /\ Others(c)
  BY DEF Advance, Go, Others, IInv, TypeInv, Stages
<1>3. pos[c] \in Nat /\ Len(CmdsOf[c]) \in Nat
  BY Constants DEF IInv, TypeInv
<1>4. ASSUME NEW i \in 1..Len(CmdsOf[c]), i < pos'[c] PROVE VerdictAt(c, i)' # "deny"
  <2>1. i < pos[c] \/ i = pos[c]
    BY <1>1, <1>3, <1>4
  <2>2. VerdictAt(c, i) # "deny"
    BY <2>1, <1>3 DEF IInv, Judged
  <2> QED BY <1>1, <2>2 DEF VerdictAt
<1> QED BY <1>1, <1>2, <1>4, OthersKeepJudged DEF Judged

LEMMA ReturnOK == ASSUME IInv, NEW c \in Calls, Return(c), UNCHANGED version PROVE IInv'
<1>1. stage'[c] = "idle" /\ TypeInv' /\ Others(c)
  BY Constants DEF Return, Go, Others, IInv, TypeInv, Stages
<1> QED BY <1>1, OthersKeepJudged DEF Judged

LEMMA BeginOK == ASSUME IInv, NEW c \in Calls, Begin(c) PROVE IInv'
<1>1. stage'[c] = "checking" /\ pos'[c] = 1 /\ TypeInv' /\ Others(c)
  BY DEF Begin, Go, Others, IInv, TypeInv, Stages
<1> QED BY <1>1, OthersKeepJudged DEF Judged

LEMMA JudgeOK == ASSUME IInv, NEW c \in Calls, Judge(c) PROVE IInv'
<1>1. CASE Pass(c)
  <2>1. stage[c] = "checking" /\ VerdictAt(c, pos[c]) # "deny"
    BY <1>1, Constants DEF Pass, Judging, Verdict, Current, VerdictAt
  <2> QED BY <1>1, <2>1, AdvanceOK DEF Pass
<1>2. CASE Block(c)
  BY <1>2, ReturnOK DEF Block
<1>3. CASE Freeze(c)
  BY <1>3 DEF Freeze, call, IInv, TypeInv, Judged, VerdictAt
<1>4. ASSUME MustAsk(c) PROVE stage[c] = "checking" /\ VerdictAt(c, pos[c]) # "deny"
  BY <1>4, Constants DEF MustAsk, Judging, Verdict, Current, VerdictAt
<1>5. CASE Elicit(c)
  <2>1. stage'[c] = "asking" /\ UNCHANGED <<pos, snap, version>> /\ TypeInv' /\ Others(c)
    BY <1>5 DEF Elicit, Go, Others, IInv, TypeInv, Stages
  <2> QED BY <1>4, <1>5, <2>1, OthersKeepJudged DEF Elicit, IInv, Judged, VerdictAt
<1>6. CASE UseAnswer(c)
  <2>1. \/ Return(c)
        \/ Advance(c) /\ UNCHANGED <<stage, snap>>
    BY <1>6 DEF UseAnswer, Approve, Says
  <2>2. MustAsk(c) /\ UNCHANGED version
    BY <1>6 DEF UseAnswer
  <2> QED BY <1>4, <2>1, <2>2, ReturnOK, AdvanceOK
<1>7. CASE Defer(c)
  BY <1>4, <1>7, AdvanceOK DEF Defer
<1>8. CASE Conclude(c)
  <2>1. /\ stage[c] = "checking" /\ pos[c] > Len(CmdsOf[c]) /\ UNCHANGED <<pos, snap, version>>
        /\ stage'[c] \in {"running", "awaiting"} /\ TypeInv' /\ Others(c)
    BY <1>8 DEF Conclude, Go, Others, IInv, TypeInv, Stages
  <2> QED BY <2>1, OthersKeepJudged DEF IInv, Judged, VerdictAt
<1>9. CASE RememberNext(c)
  BY <1>9 DEF RememberNext, IInv, TypeInv, Judged, VerdictAt
<1> QED BY <1>1, <1>2, <1>3, <1>5, <1>6, <1>7, <1>8, <1>9 DEF Judge

LEMMA ReplyOK == ASSUME IInv, NEW c \in Calls, Reply(c) PROVE IInv'
<1>1. stage[c] = "asking" /\ UNCHANGED version
  BY DEF Reply
<1>2. \/ Advance(c) /\ Go(c, "checking") /\ UNCHANGED snap
      \/ Return(c)
  BY DEF Reply, Approve, Says
<1>3. VerdictAt(c, pos[c]) # "deny"
  BY <1>1 DEF IInv, Judged
<1> QED BY <1>1, <1>2, <1>3, ReturnOK, AdvanceOK

LEMMA Inductive == Spec => []IInv
<1>1. Init => IInv
  BY Constants DEF Init, IInv, TypeInv, Judged, Stages
<1>2. ASSUME IInv, [Next]_vars PROVE IInv'
  <2>1. ASSUME NEW c \in Calls, Start(c) \/ Retry(c) \/ Judge(c) \/ Reply(c) \/ Leave(c) PROVE IInv'
    BY <1>2, <2>1, BeginOK, JudgeOK, ReplyOK, ReturnOK DEF Start, Retry, Leave
  <2>2. CASE Reload
    <3>1. version' \in DOMAIN GuardSets
      BY <1>2, <2>2, Constants DEF Reload, IInv, TypeInv
    <3> QED BY <1>2, <2>2, <3>1 DEF Reload, call, IInv, TypeInv, Judged, VerdictAt
  <2>3. CASE Tick \/ UNCHANGED vars
    BY <1>2, <2>3 DEF Tick, vars, call, IInv, TypeInv, Judged, VerdictAt
  <2> QED BY <1>2, <2>1, <2>2, <2>3 DEF Next
<1> QED BY <1>1, <1>2, PTL DEF Spec

-----------------------------------------------------------------------------
(* "A block wins over a pending confirmation" (run.rs, `exec_batch`): no   *)
(* call runs, or comes back to its client with questions, that has a       *)
(* denied command among its commands, however many calls and reloads       *)
(* there are meanwhile.                                                    *)
THEOREM DeniedNeverRuns == Spec => []BlockWins
<1>1. ASSUME IInv, NEW c \in Calls, stage[c] \in {"awaiting", "running"}, NEW d \in ToSet(CmdsOf[c])
      PROVE  GuardSets[snap[c]][d] # "deny"
  <2>1. PICK i \in 1..Len(CmdsOf[c]) : d = CmdsOf[c][i]
    BY <1>1, Constants, ConfirmationsAssumption, LenProperties DEF ToSet
  <2>2. i < pos[c]
    BY <1>1, Constants DEF IInv, TypeInv, Judged
  <2> QED BY <1>1, <2>1, <2>2 DEF IInv, Judged, VerdictAt
<1>2. IInv => BlockWins
  BY <1>1 DEF BlockWins
<1> QED BY <1>2, Inductive, PTL
-----------------------------------------------------------------------------
(* What approvals let through.                                             *)

(* The commands a question with this key lists under a version.            *)
Lists(c, v, k) ==
  IF c \in Execs THEN {CmdsOf[c][1]}
  ELSE {CmdsOf[c][i] : i \in {j \in DOMAIN CmdsOf[c] : GuardSets[v][CmdsOf[c][j]] = k}}

Questions == UNION {[K -> SUBSET Cmds] : K \in SUBSET (Cmds \cup Patterns)}

LocalType ==
  /\ confirmed \in [Calls -> SUBSET Patterns] /\ left \in [Calls -> SUBSET Nat]
  /\ prompt \in [Calls -> Questions] /\ shown \in [Calls -> Questions]
  /\ answers \in [Calls -> UNION {[K -> BOOLEAN] : K \in SUBSET (Cmds \cup Patterns)}]
  /\ under \in [Calls -> DOMAIN GuardSets]
  /\ clock \in Nat /\ full \in BOOLEAN
  /\ IsFiniteSet(DOMAIN remembered) /\ \A d \in DOMAIN remembered : remembered[d] \in Nat

(* Every question lists what a yes to it would let through under the       *)
(* version it was put by.                                                  *)
Put(c) ==
  /\ \A k \in DOMAIN prompt[c] : Lists(c, snap[c], k) \subseteq prompt[c][k]
  /\ \A k \in DOMAIN shown[c] : Lists(c, under[c], k) \subseteq shown[c][k]
  /\ DOMAIN answers[c] \subseteq DOMAIN shown[c]
  /\ stage[c] = "asking" =>
       pos[c] \in DOMAIN CmdsOf[c] /\ Verdict(c) \in Patterns /\ Key(c) \in DOMAIN prompt[c]

Given == \A y \in yes : y.how \in {"listed", "reloaded"} /\ y.at \in Nat /\ y.at <= clock
                           /\ y.given \in Nat /\ y.given <= version

(* Whatever passes without a question was said yes to.                     *)
Granted ==
  /\ \A d \in DOMAIN remembered : \E y \in yes : y.cmd = d /\ y.at = remembered[d]
  /\ \A c \in Calls : \A i \in left[c] : i \in DOMAIN CmdsOf[c] /\ \E y \in yes : y.cmd = CmdsOf[c][i] /\ y.at = clock
  /\ \A c \in Calls : \A i \in DOMAIN CmdsOf[c] :
       GuardSets[snap[c]][CmdsOf[c][i]] \in confirmed[c] => \E y \in yes : y.cmd = CmdsOf[c][i]

(* Whatever was said yes to in this guard set is remembered, or about to.  *)
Recalled ==
  ~full /\ Ttl > 0 =>
    \A y \in yes : y.given = version =>
      \/ y.cmd \in DOMAIN remembered /\ y.at <= remembered[y.cmd]
      \/ \E c \in Calls : \E i \in left[c] : CmdsOf[c][i] = y.cmd

ApprovalInv == IInv /\ LocalType /\ (\A c \in Calls : Put(c)) /\ Given /\ Granted /\ Recalled

(* A question lists the command that raises it, and every command that a   *)
(* yes to it lets through.                                                 *)
LEMMA Listing ==
  ASSUME TypeInv, NEW c \in Calls, pos[c] \in DOMAIN CmdsOf[c]
  PROVE  /\ Current(c) \in Cmds /\ Current(c) \in Listed(c) /\ Listed(c) \subseteq Cmds
         /\ Covered(c) \subseteq DOMAIN CmdsOf[c] /\ Covered(c) \subseteq Nat
         /\ Verdict(c) \in Patterns => Key(c) \in Cmds \cup Patterns
         /\ Listed(c) = Lists(c, snap[c], Key(c))
<1>1. /\ CmdsOf[c] \in Seq(Cmds) /\ DOMAIN CmdsOf[c] = 1..Len(CmdsOf[c]) /\ Len(CmdsOf[c]) \in Nat
      /\ \A i \in DOMAIN CmdsOf[c] : CmdsOf[c][i] \in Cmds
      /\ c \in Execs => Len(CmdsOf[c]) = 1
  BY ConfirmationsAssumption, LenProperties, ElementOfSeq
<1>2. Covered(c) \subseteq DOMAIN CmdsOf[c] /\ Covered(c) \subseteq Nat /\ pos[c] \in Covered(c)
  BY <1>1 DEF Covered, Verdict, Current
<1>3. Current(c) \in Cmds /\ Current(c) \in Listed(c) /\ Listed(c) \subseteq Cmds
  BY <1>1, <1>2 DEF Current, Listed
<1>4. CASE c \in Execs
  <2>1. pos[c] = 1 /\ \A i \in DOMAIN CmdsOf[c] : i = 1
    BY <1>1, <1>4
  <2>2. Covered(c) = {1}
    BY <1>2, <2>1
  <2> QED BY <1>2, <1>3, <1>4, <2>2 DEF Listed, Lists, Key
<1>5. CASE c \notin Execs
  BY <1>2, <1>3, <1>5 DEF Listed, Covered, Lists, Key
<1> QED BY <1>2, <1>3, <1>4, <1>5

LEMMA NoneIsQuestions == None \in Questions /\ DOMAIN None = {}
BY DEF None, Questions

(* Whose turn it is not keeps what it has.                                 *)
Untouched(c) ==
  \A d \in Calls \ {c} :
    /\ stage'[d] = stage[d] /\ pos'[d] = pos[d] /\ snap'[d] = snap[d]
    /\ prompt'[d] = prompt[d] /\ shown'[d] = shown[d] /\ answers'[d] = answers[d] /\ under'[d] = under[d]

LEMMA PutStays ==
  ASSUME NEW d \in Calls, Put(d), stage'[d] = stage[d], pos'[d] = pos[d], snap'[d] = snap[d],
         prompt'[d] = prompt[d], shown'[d] = shown[d], answers'[d] = answers[d], under'[d] = under[d]
  PROVE  Put(d)'
BY DEF Put, Key, Verdict, Current

LEMMA OthersPut ==
  ASSUME NEW c \in Calls, \A d \in Calls : Put(d), Untouched(c), Put(c)'
  PROVE  \A d \in Calls : Put(d)'
<1> SUFFICES ASSUME NEW d \in Calls, d # c PROVE Put(d)'
  OBVIOUS
<1> QED BY PutStays DEF Untouched

(* Steps that approve and remember nothing; a call that ends or begins     *)
(* drops what it was granted.                                              *)
LEMMA GrantsStay ==
  ASSUME Given, Granted, Recalled, UNCHANGED <<clock, version, remembered, yes, full, left>>,
         \A d \in Calls : confirmed'[d] = {} \/ (confirmed'[d] = confirmed[d] /\ snap'[d] = snap[d])
  PROVE  Given' /\ Granted' /\ Recalled'
<1>1. Given' /\ Recalled'
  BY DEF Given, Recalled
<1>2. Granted'
  BY DEF Granted
<1> QED BY <1>1, <1>2

LEMMA BeginKeeps ==
  ASSUME ApprovalInv, NEW c \in Calls, Start(c) \/ Retry(c)
  PROVE  LocalType' /\ (\A d \in Calls : Put(d)') /\ Given' /\ Granted' /\ Recalled'
<1>1. /\ stage'[c] = "checking" /\ snap'[c] = version /\ confirmed'[c] = {} /\ prompt'[c] = None
      /\ UNCHANGED <<clock, version, remembered, yes, full, left>>
      /\ \A d \in Calls \ {c} : confirmed'[d] = confirmed[d] /\ snap'[d] = snap[d]
      /\ Untouched(c)
      /\ confirmed' \in [Calls -> SUBSET Patterns] /\ prompt' \in [Calls -> Questions]
  <2>1. /\ Begin(c) /\ UNCHANGED left
        /\ answers \in [Calls -> UNION {[K -> BOOLEAN] : K \in SUBSET (Cmds \cup Patterns)}]
        /\ TypeInv /\ LocalType
    BY DEF Start, Retry, Begin, ApprovalInv, IInv, LocalType
  <2>2. /\ stage'[c] = "checking" /\ snap'[c] = version /\ confirmed'[c] = {} /\ prompt'[c] = None
        /\ confirmed' \in [Calls -> SUBSET Patterns] /\ prompt' \in [Calls -> Questions]
    BY <2>1, NoneIsQuestions DEF Begin, Go, TypeInv, LocalType
  <2>3. \A d \in Calls \ {c} : /\ stage'[d] = stage[d] /\ pos'[d] = pos[d] /\ snap'[d] = snap[d]
                              /\ confirmed'[d] = confirmed[d] /\ prompt'[d] = prompt[d]
    BY <2>1 DEF Begin, Go, TypeInv, LocalType
  <2>4. \A d \in Calls \ {c} : shown'[d] = shown[d] /\ answers'[d] = answers[d] /\ under'[d] = under[d]
    <3>1. CASE Start(c)
      BY <2>1, <3>1 DEF Start, LocalType
    <3>2. CASE Retry(c)
      BY <2>1, <3>2 DEF Retry, LocalType
    <3> QED BY <3>1, <3>2
  <2> QED BY <2>1, <2>2, <2>3, <2>4 DEF Begin, Untouched
<1>2. \/ shown'[c] = None /\ answers'[c] = None
      \/ shown'[c] = prompt[c] /\ DOMAIN answers'[c] = DOMAIN prompt[c] /\ under'[c] = snap[c]
  BY DEF Start, Retry, ApprovalInv, LocalType
<1>3. LocalType'
  <2>1. CASE Start(c)
    <3>1. None \in UNION {[K -> BOOLEAN] : K \in SUBSET (Cmds \cup Patterns)}
      BY DEF None
    <3> QED BY <1>1, <2>1, <3>1, NoneIsQuestions DEF Start, ApprovalInv, LocalType
  <2>2. CASE Retry(c)
    <3>1. PICK a \in [DOMAIN prompt[c] -> BOOLEAN] : answers' = [answers EXCEPT ![c] = a]
      BY <2>2 DEF Retry
    <3>2. DOMAIN prompt[c] \in SUBSET (Cmds \cup Patterns)
      BY DEF ApprovalInv, LocalType, Questions
    <3>3. a \in UNION {[K -> BOOLEAN] : K \in SUBSET (Cmds \cup Patterns)}
      BY <3>2
    <3>4. prompt[c] \in Questions /\ snap[c] \in DOMAIN GuardSets
      BY DEF ApprovalInv, LocalType, IInv, TypeInv
    <3> QED BY <1>1, <2>2, <3>1, <3>3, <3>4 DEF Retry, ApprovalInv, LocalType
  <2> QED BY <2>1, <2>2
<1>4. Put(c)'
  BY <1>1, <1>2, NoneIsQuestions DEF Put, ApprovalInv
<1>5. \A d \in Calls : Put(d)'
  BY <1>1, <1>4, OthersPut DEF ApprovalInv
<1>6. Given' /\ Granted' /\ Recalled'
  BY <1>1, GrantsStay DEF ApprovalInv
<1> QED BY <1>3, <1>5, <1>6

LEMMA ReturnKeeps ==
  ASSUME ApprovalInv, NEW c \in Calls, Return(c), UNCHANGED <<clock, version, remembered, yes, full>>
  PROVE  LocalType' /\ (\A d \in Calls : Put(d)') /\ Given' /\ Granted' /\ Recalled'
<1>1. 1 \in DOMAIN GuardSets
  BY Constants
<1>2. None \in UNION {[K -> BOOLEAN] : K \in SUBSET (Cmds \cup Patterns)}
  BY DEF None
<1>3. LocalType'
  BY <1>1, <1>2, NoneIsQuestions DEF Return, ApprovalInv, LocalType
<1>4. /\ stage'[c] = "idle" /\ confirmed'[c] = {} /\ prompt'[c] = None /\ shown'[c] = None /\ answers'[c] = None
      /\ \A d \in Calls \ {c} : confirmed'[d] = confirmed[d] /\ snap'[d] = snap[d]
      /\ Untouched(c) /\ UNCHANGED left
  BY DEF Return, Go, Untouched, ApprovalInv, IInv, TypeInv, LocalType
<1>5. Put(c)'
  BY <1>4, NoneIsQuestions DEF Put
<1>6. \A d \in Calls : Put(d)'
  BY <1>4, <1>5, OthersPut DEF ApprovalInv
<1>7. Given' /\ Granted' /\ Recalled'
  BY <1>4, GrantsStay DEF ApprovalInv
<1> QED BY <1>3, <1>6, <1>7

(* A question is put, now or for the client's next round.                  *)
LEMMA AskKeeps ==
  ASSUME ApprovalInv, NEW c \in Calls, Elicit(c) \/ Defer(c)
  PROVE  LocalType' /\ (\A d \in Calls : Put(d)') /\ Given' /\ Granted' /\ Recalled'
<1>1. /\ UNCHANGED <<clock, version, remembered, snap, confirmed, left, shown, answers, under, yes, full>>
      /\ MustAsk(c) /\ Untouched(c) /\ Verdict(c) \in Patterns
      /\ stage'[c] = "asking" => stage'[c] = "asking" /\ pos' = pos /\ Elicit(c)
  BY DEF Elicit, Defer, Go, Advance, Untouched, MustAsk, Judging, ApprovalInv, IInv, TypeInv, LocalType
<1>2. pos[c] \in DOMAIN CmdsOf[c]
  <2>1. pos[c] \in Nat \ {0} /\ pos[c] <= Len(CmdsOf[c]) /\ Len(CmdsOf[c]) \in Nat
    BY <1>1, Constants DEF MustAsk, Judging, ApprovalInv, IInv, TypeInv
  <2>2. DOMAIN CmdsOf[c] = 1..Len(CmdsOf[c])
    BY ConfirmationsAssumption, LenProperties
  <2> QED BY <2>1, <2>2
<1>3. Listed(c) = Lists(c, snap[c], Key(c)) /\ Key(c) \in Cmds \cup Patterns /\ Listed(c) \subseteq Cmds
  BY <1>1, <1>2, Listing DEF ApprovalInv, IInv
<1>4. /\ prompt'[c] \in Questions /\ Key(c) \in DOMAIN prompt'[c] /\ prompt' \in [Calls -> Questions]
      /\ \A k \in DOMAIN prompt'[c] : Lists(c, snap[c], k) \subseteq prompt'[c][k]
  <2>1. CASE Elicit(c)
    <3> DEFINE q == [k \in {Key(c)} |-> Listed(c)]
    <3>1. q \in Questions /\ DOMAIN q = {Key(c)} /\ q[Key(c)] = Listed(c)
      <4>1. q \in [{Key(c)} -> SUBSET Cmds] /\ {Key(c)} \in SUBSET (Cmds \cup Patterns)
        BY <1>3
      <4> QED BY <4>1 DEF Questions
    <3>2. prompt' = [prompt EXCEPT ![c] = q]
      BY <2>1 DEF Elicit
    <3> HIDE DEF q
    <3> QED BY <1>3, <3>1, <3>2 DEF ApprovalInv, LocalType
  <2>2. CASE Defer(c)
    <3> DEFINE old == prompt[c]
               q == [k \in DOMAIN old \cup {Key(c)} |-> IF k \in DOMAIN old THEN old[k] ELSE Listed(c)]
    <3>1. DOMAIN old \subseteq Cmds \cup Patterns /\ \A k \in DOMAIN old : old[k] \subseteq Cmds
      BY DEF ApprovalInv, LocalType, Questions
    <3>2. /\ q \in Questions /\ DOMAIN q = DOMAIN old \cup {Key(c)}
          /\ \A k \in DOMAIN old : q[k] = old[k]
          /\ Key(c) \notin DOMAIN old => q[Key(c)] = Listed(c)
      <4> HIDE DEF old
      <4>1. q \in [DOMAIN old \cup {Key(c)} -> SUBSET Cmds]
        BY <1>3, <3>1
      <4>2. DOMAIN old \cup {Key(c)} \in SUBSET (Cmds \cup Patterns)
        BY <1>3, <3>1
      <4> QED BY <4>1, <4>2 DEF Questions
    <3>3. prompt' = [prompt EXCEPT ![c] = q]
      BY <2>2 DEF Defer
    <3>4. \A k \in DOMAIN old : Lists(c, snap[c], k) \subseteq old[k]
      BY DEF ApprovalInv, Put
    <3> HIDE DEF q, old
    <3> QED BY <1>3, <3>2, <3>3, <3>4 DEF ApprovalInv, LocalType
  <2> QED BY <2>1, <2>2, <1>1
<1>5. LocalType'
  BY <1>1, <1>4 DEF ApprovalInv, LocalType
<1>6. Put(c)'
  BY <1>1, <1>2, <1>4 DEF ApprovalInv, Put, Key, Verdict, Current
<1>7. \A d \in Calls : Put(d)'
  BY <1>1, <1>6, OthersPut DEF ApprovalInv
<1>8. Given' /\ Granted' /\ Recalled'
  BY <1>1, GrantsStay DEF ApprovalInv
<1> QED BY <1>5, <1>7, <1>8

LEMMA RestKeeps ==
  ASSUME ApprovalInv, NEW c \in Calls, Pass(c) \/ Freeze(c) \/ Conclude(c)
  PROVE  LocalType' /\ (\A d \in Calls : Put(d)') /\ Given' /\ Granted' /\ Recalled'
<1>1. /\ UNCHANGED <<clock, version, remembered, snap, confirmed, left, prompt, shown, answers, under, yes, full>>
      /\ Untouched(c) /\ stage'[c] # "asking"
  BY DEF Pass, Freeze, Conclude, call, Judging, Go, Advance, Untouched, ApprovalInv, IInv, TypeInv
<1>2. Put(c)'
  BY <1>1 DEF ApprovalInv, Put
<1>3. \A d \in Calls : Put(d)'
  BY <1>1, <1>2, OthersPut DEF ApprovalInv
<1>4. LocalType'
  BY <1>1 DEF ApprovalInv, LocalType
<1>5. Given' /\ Granted' /\ Recalled'
  BY <1>1, GrantsStay DEF ApprovalInv
<1> QED BY <1>3, <1>4, <1>5

(* A yes to a question that listed what it lets through, or was put under  *)
(* another version.                                                        *)
LEMMA ApproveKeeps ==
  ASSUME ApprovalInv, NEW c \in Calls, NEW listed, NEW asked, Approve(c, listed, asked), Free,
         pos[c] \in DOMAIN CmdsOf[c], Verdict(c) \in Patterns, Listed(c) \subseteq listed \/ asked # snap[c],
         UNCHANGED <<clock, version, remembered, full, snap, shown, answers, under>>,
         UNCHANGED prompt \/ prompt' = [prompt EXCEPT ![c] = None],
         stage'[c] = "checking", \A d \in Calls \ {c} : stage'[d] = stage[d]
  PROVE  /\ LocalType' /\ (\A d \in Calls : Put(d)') /\ Given' /\ Granted' /\ Recalled'
         /\ \E y \in yes' : y.cmd = Current(c) /\ y.how \in {"listed", "reloaded"}
         /\ Verdict(c) \in confirmed'[c]
<1> DEFINE new == {[cmd |-> d, at |-> clock, given |-> version,
                    how |-> IF d \in listed THEN "listed"
                            ELSE IF asked # snap[c] THEN "reloaded" ELSE "unlisted"] : d \in Listed(c)}
<1>1. /\ yes' = yes \cup new /\ left' = [left EXCEPT ![c] = Covered(c)]
      /\ confirmed' = [confirmed EXCEPT ![c] = confirmed[c] \cup {Verdict(c)}]
      /\ pos' = [pos EXCEPT ![c] = pos[c] + 1]
  BY DEF Approve, Says, Advance
<1>2. /\ Current(c) \in Cmds /\ Current(c) \in Listed(c)
      /\ Covered(c) \subseteq DOMAIN CmdsOf[c] /\ Covered(c) \subseteq Nat
  BY Listing DEF ApprovalInv, IInv
<1>3. ASSUME NEW y \in new
      PROVE  y.how \in {"listed", "reloaded"} /\ y.at = clock /\ y.given = version /\ y.cmd \in Listed(c)
  OBVIOUS
<1>4. ASSUME NEW d \in Listed(c) PROVE \E y \in new : y.cmd = d /\ y.at = clock
  <2> DEFINE y == [cmd |-> d, at |-> clock, given |-> version,
                   how |-> IF d \in listed THEN "listed"
                           ELSE IF asked # snap[c] THEN "reloaded" ELSE "unlisted"]
  <2>1. y \in new
    OBVIOUS
  <2>2. y.cmd = d /\ y.at = clock
    OBVIOUS
  <2> HIDE DEF y, new
  <2> QED BY <2>1, <2>2
<1> HIDE DEF new
<1>5. /\ confirmed' \in [Calls -> SUBSET Patterns] /\ confirmed'[c] = confirmed[c] \cup {Verdict(c)}
      /\ left' \in [Calls -> SUBSET Nat] /\ left'[c] = Covered(c)
      /\ \A d \in Calls \ {c} : confirmed'[d] = confirmed[d] /\ left'[d] = left[d] /\ pos'[d] = pos[d]
      /\ prompt' \in [Calls -> Questions] /\ prompt'[c] \in {prompt[c], None}
      /\ \A d \in Calls \ {c} : prompt'[d] = prompt[d]
  <2>1. /\ confirmed \in [Calls -> SUBSET Patterns] /\ left \in [Calls -> SUBSET Nat]
        /\ prompt \in [Calls -> Questions] /\ pos \in [Calls -> Nat \ {0}]
    BY DEF ApprovalInv, LocalType, IInv, TypeInv
  <2>2. confirmed' \in [Calls -> SUBSET Patterns] /\ confirmed'[c] = confirmed[c] \cup {Verdict(c)}
    BY <1>1, <2>1
  <2>3. left' \in [Calls -> SUBSET Nat] /\ left'[c] = Covered(c)
    BY <1>1, <1>2, <2>1
  <2>4. \A d \in Calls \ {c} : confirmed'[d] = confirmed[d] /\ left'[d] = left[d] /\ pos'[d] = pos[d]
    BY <1>1, <2>1
  <2>5. /\ prompt' \in [Calls -> Questions] /\ prompt'[c] \in {prompt[c], None}
        /\ \A d \in Calls \ {c} : prompt'[d] = prompt[d]
    BY <2>1, NoneIsQuestions
  <2> QED BY <2>2, <2>3, <2>4, <2>5
<1>6. LocalType'
  BY <1>5 DEF ApprovalInv, LocalType
<1>7. Put(c)'
  BY <1>5, NoneIsQuestions DEF ApprovalInv, Put
<1>8. \A d \in Calls : Put(d)'
  BY <1>5, <1>7, OthersPut DEF ApprovalInv, Untouched
<1>9. Given'
  BY <1>1, <1>3, Constants DEF ApprovalInv, LocalType, IInv, TypeInv, Given
<1>10. \A d \in Listed(c) : \E y \in yes' : y.cmd = d /\ y.at = clock
  BY <1>1, <1>4
<1>11. \A i \in Covered(c) : CmdsOf[c][i] \in Listed(c)
  BY DEF Listed
<1>12. Granted'
  <2>1. \A d \in DOMAIN remembered : \E y \in yes' : y.cmd = d /\ y.at = remembered[d]
    BY <1>1 DEF ApprovalInv, Granted
  <2>2. ASSUME NEW d \in Calls, NEW i \in left'[d]
        PROVE  i \in DOMAIN CmdsOf[d] /\ \E y \in yes' : y.cmd = CmdsOf[d][i] /\ y.at = clock
    BY <1>2, <1>5, <1>10, <1>11 DEF Free
  <2>3. ASSUME NEW d \in Calls, NEW i \in DOMAIN CmdsOf[d], GuardSets[snap[d]][CmdsOf[d][i]] \in confirmed'[d]
        PROVE  \E y \in yes' : y.cmd = CmdsOf[d][i]
    <3>1. CASE GuardSets[snap[d]][CmdsOf[d][i]] \in confirmed[d]
      BY <1>1, <3>1 DEF ApprovalInv, Granted
    <3>2. CASE GuardSets[snap[d]][CmdsOf[d][i]] \notin confirmed[d]
      <4>1. d = c /\ GuardSets[snap[c]][CmdsOf[c][i]] = Verdict(c)
        BY <1>5, <2>3, <3>2
      <4>2. i \in Covered(c)
        BY <4>1 DEF Covered
      <4> QED BY <1>10, <1>11, <4>1, <4>2
    <3> QED BY <3>1, <3>2
  <2> QED BY <2>1, <2>2, <2>3 DEF Granted
<1>13. Recalled'
  <2> SUFFICES ASSUME ~full, Ttl > 0, NEW y \in yes', y.given = version
               PROVE  \/ y.cmd \in DOMAIN remembered /\ y.at <= remembered[y.cmd]
                      \/ \E d \in Calls : \E i \in left'[d] : CmdsOf[d][i] = y.cmd
    BY DEF Recalled
  <2>1. CASE y \in yes
    BY <2>1 DEF ApprovalInv, Recalled, Free
  <2>2. CASE y \in new
    <3>1. y.cmd \in Listed(c)
      BY <1>3, <2>2
    <3>2. PICK i \in Covered(c) : CmdsOf[c][i] = y.cmd
      BY <3>1 DEF Listed
    <3> QED BY <1>5, <3>2
  <2> QED BY <1>1, <2>1, <2>2
<1>14. \E y \in yes' : y.cmd = Current(c) /\ y.how \in {"listed", "reloaded"}
  BY <1>2, <1>9, <1>10 DEF Given
<1> QED BY <1>5, <1>6, <1>8, <1>9, <1>12, <1>13, <1>14

(* The questions were put by the version in hand, or by another.           *)
LEMMA AnswerKeeps ==
  ASSUME ApprovalInv, NEW c \in Calls, UseAnswer(c) \/ Reply(c)
  PROVE  /\ LocalType' /\ (\A d \in Calls : Put(d)') /\ Given' /\ Granted' /\ Recalled'
         /\ \/ Return(c)
            \/ /\ Verdict(c) \in Patterns
               /\ \E y \in yes' : y.cmd = Current(c) /\ y.how \in {"listed", "reloaded"}
               /\ Verdict(c) \in confirmed'[c]
<1>1. CASE UseAnswer(c)
  <2>1. /\ MustAsk(c) /\ Free /\ Verdict(c) \in Patterns /\ stage[c] = "checking" /\ Key(c) \in DOMAIN answers[c]
        /\ UNCHANGED <<clock, version, remembered, full>>
    BY <1>1 DEF UseAnswer, MustAsk, Judging
  <2>2. pos[c] \in DOMAIN CmdsOf[c]
    <3>1. pos[c] \in Nat \ {0} /\ pos[c] <= Len(CmdsOf[c]) /\ Len(CmdsOf[c]) \in Nat
      BY <2>1, Constants DEF MustAsk, Judging, ApprovalInv, IInv, TypeInv
    <3>2. DOMAIN CmdsOf[c] = 1..Len(CmdsOf[c])
      BY ConfirmationsAssumption, LenProperties
    <3> QED BY <3>1, <3>2
  <2>3. CASE Approve(c, shown[c][Key(c)], under[c]) /\ UNCHANGED <<stage, snap, prompt, shown, answers, under>>
    <3>1. Listed(c) \subseteq shown[c][Key(c)] \/ under[c] # snap[c]
      BY <2>1, <2>2, Listing DEF ApprovalInv, IInv, Put
    <3> QED BY <2>1, <2>2, <2>3, <3>1, ApproveKeeps
  <2>4. CASE Return(c) /\ UNCHANGED yes
    BY <2>1, <2>4, ReturnKeeps
  <2> QED BY <1>1, <2>3, <2>4 DEF UseAnswer
<1>2. CASE Reply(c)
  <2>1. /\ Free /\ stage[c] = "asking" /\ pos[c] \in DOMAIN CmdsOf[c] /\ Verdict(c) \in Patterns
        /\ Key(c) \in DOMAIN prompt[c] /\ UNCHANGED <<clock, version, remembered, full>>
    BY <1>2 DEF Reply, ApprovalInv, Put
  <2>2. CASE /\ Approve(c, prompt[c][Key(c)], snap[c]) /\ Go(c, "checking")
             /\ prompt' = [prompt EXCEPT ![c] = None] /\ UNCHANGED <<snap, shown, answers, under>>
    <3>1. Listed(c) \subseteq prompt[c][Key(c)]
      BY <2>1, Listing DEF ApprovalInv, IInv, Put
    <3>2. stage'[c] = "checking" /\ \A d \in Calls \ {c} : stage'[d] = stage[d]
      BY <2>2 DEF Go, ApprovalInv, IInv, TypeInv
    <3> QED BY <2>1, <2>2, <3>1, <3>2, ApproveKeeps
  <2>3. CASE Return(c) /\ UNCHANGED yes
    BY <2>1, <2>3, ReturnKeeps
  <2> QED BY <1>2, <2>2, <2>3 DEF Reply
<1> QED BY <1>1, <1>2

(* One more entry; while the map has room nothing else changes.            *)
LEMMA Remembering ==
  ASSUME LocalType, NEW d
  PROVE  /\ IsFiniteSet(DOMAIN Remember(remembered, d))
         /\ \A k \in DOMAIN Remember(remembered, d) :
              \/ k \in DOMAIN remembered /\ Remember(remembered, d)[k] = remembered[k]
              \/ k = d /\ Remember(remembered, d)[k] = clock
         /\ Ttl > 0 /\ ~(Cardinality(DOMAIN remembered) >= MaxRemembered) =>
              /\ DOMAIN Remember(remembered, d) = DOMAIN remembered \cup {d} /\ Remember(remembered, d)[d] = clock
              /\ \A k \in DOMAIN remembered \ {d} : Remember(remembered, d)[k] = remembered[k]
<1> DEFINE D == DOMAIN remembered
           kept == {k \in D : Cardinality(D) < MaxRemembered \/ IsFresh(remembered[k])}
           small == [k \in kept |-> remembered[k]]
           large == [k \in kept \cup {d} |-> IF k = d THEN clock ELSE remembered[k]]
           m == Remember(remembered, d)
<1>1. m = IF Ttl = 0 THEN remembered ELSE IF Cardinality(kept) >= MaxRemembered THEN small ELSE large
  BY DEF Remember
<1>2. IsFiniteSet(D) /\ Cardinality(D) \in Nat /\ MaxRemembered \in Nat /\ Ttl \in Nat
  BY ConfirmationsAssumption, FS_CardinalityType DEF LocalType
<1>3. kept \subseteq D
  OBVIOUS
<1>4. IsFiniteSet(kept)
  BY <1>2, <1>3, FS_Subset
<1>5. IsFiniteSet(kept \cup {d})
  BY <1>4, FS_AddElement
<1>6. /\ DOMAIN small = kept /\ \A k \in kept : small[k] = remembered[k]
      /\ DOMAIN large = kept \cup {d} /\ large[d] = clock /\ \A k \in kept \ {d} : large[k] = remembered[k]
  OBVIOUS
<1>7. ~(Cardinality(D) >= MaxRemembered) => kept = D /\ ~(Cardinality(kept) >= MaxRemembered)
  <2> SUFFICES ASSUME ~(Cardinality(D) >= MaxRemembered) PROVE kept = D
    OBVIOUS
  <2>1. Cardinality(D) < MaxRemembered
    BY <1>2
  <2> QED BY <2>1
<1> HIDE DEF kept, small, large
<1>8. IsFiniteSet(DOMAIN m)
  BY <1>1, <1>2, <1>4, <1>5, <1>6
<1>9. \A k \in DOMAIN m : (k \in D /\ m[k] = remembered[k]) \/ (k = d /\ m[k] = clock)
  BY <1>1, <1>3, <1>6
<1>10. ASSUME Ttl > 0, ~(Cardinality(D) >= MaxRemembered)
       PROVE  DOMAIN m = D \cup {d} /\ m[d] = clock /\ \A k \in D \ {d} : m[k] = remembered[k]
  <2>1. kept = D /\ m = large
    BY <1>1, <1>2, <1>7, <1>10
  <2> QED BY <1>6, <2>1
<1> QED BY <1>8, <1>9, <1>10

LEMMA RememberKeeps ==
  ASSUME ApprovalInv, NEW c \in Calls, RememberNext(c)
  PROVE  LocalType' /\ (\A d \in Calls : Put(d)') /\ Given' /\ Granted' /\ Recalled'
<1>1. PICK i \in left[c] : remembered' = Remember(remembered, CmdsOf[c][i]) /\ left' = [left EXCEPT ![c] = left[c] \ {i}]
  BY DEF RememberNext
<1> DEFINE e == CmdsOf[c][i]
<1>2. /\ UNCHANGED <<clock, version, stage, pos, snap, confirmed, prompt, shown, answers, under, yes>>
      /\ full' = (full \/ Cardinality(DOMAIN remembered) >= MaxRemembered)
  BY DEF RememberNext
<1>3. /\ IsFiniteSet(DOMAIN remembered')
      /\ \A k \in DOMAIN remembered' :
           (k \in DOMAIN remembered /\ remembered'[k] = remembered[k]) \/ (k = e /\ remembered'[k] = clock)
      /\ Ttl > 0 /\ ~(Cardinality(DOMAIN remembered) >= MaxRemembered) =>
           /\ DOMAIN remembered' = DOMAIN remembered \cup {e} /\ remembered'[e] = clock
           /\ \A k \in DOMAIN remembered \ {e} : remembered'[k] = remembered[k]
  BY <1>1, Remembering DEF ApprovalInv
<1>4. /\ left'[c] = left[c] \ {i} /\ left' \in [Calls -> SUBSET Nat]
      /\ \A d \in Calls \ {c} : left'[d] = left[d]
  BY <1>1 DEF ApprovalInv, LocalType
<1> HIDE DEF e
<1>5. LocalType'
  <2>1. \A k \in DOMAIN remembered' : remembered'[k] \in Nat
    BY <1>3 DEF ApprovalInv, LocalType
  <2>2. full' \in BOOLEAN
    BY <1>2
  <2> QED BY <1>2, <1>3, <1>4, <2>1, <2>2 DEF ApprovalInv, LocalType
<1>6. \A d \in Calls : Put(d)'
  BY <1>2, PutStays DEF ApprovalInv
<1>7. Given'
  BY <1>2 DEF ApprovalInv, Given
<1>8. Granted'
  <2>1. \E y \in yes : y.cmd = e /\ y.at = clock
    BY DEF ApprovalInv, Granted, e
  <2>2. \A d \in DOMAIN remembered' : \E y \in yes : y.cmd = d /\ y.at = remembered'[d]
    BY <1>3, <2>1 DEF ApprovalInv, Granted
  <2>3. \A d \in Calls : left'[d] \subseteq left[d]
    BY <1>4
  <2> QED BY <1>2, <2>2, <2>3 DEF ApprovalInv, Granted
<1>9. Recalled'
  <2> SUFFICES ASSUME ~full', Ttl > 0, NEW y \in yes, y.given = version
               PROVE  \/ y.cmd \in DOMAIN remembered' /\ y.at <= remembered'[y.cmd]
                      \/ \E d \in Calls : \E j \in left'[d] : CmdsOf[d][j] = y.cmd
    BY <1>2 DEF Recalled
  <2>1. /\ ~full /\ DOMAIN remembered' = DOMAIN remembered \cup {e} /\ remembered'[e] = clock
        /\ \A k \in DOMAIN remembered \ {e} : remembered'[k] = remembered[k]
    BY <1>2, <1>3
  <2>2. CASE y.cmd = e
    BY <2>1, <2>2 DEF ApprovalInv, Given
  <2>3. CASE y.cmd # e /\ y.cmd \in DOMAIN remembered /\ y.at <= remembered[y.cmd]
    BY <2>1, <2>3
  <2>4. CASE y.cmd # e /\ \E d \in Calls : \E j \in left[d] : CmdsOf[d][j] = y.cmd
    <3>1. PICK d \in Calls : \E j \in left[d] : CmdsOf[d][j] = y.cmd
      BY <2>4
    <3>2. PICK j \in left[d] : CmdsOf[d][j] = y.cmd
      BY <3>1
    <3>3. j \in left'[d]
      BY <1>4, <2>4, <3>2 DEF e
    <3> QED BY <3>2, <3>3
  <2> QED BY <2>1, <2>2, <2>3, <2>4 DEF ApprovalInv, Recalled
<1> QED BY <1>5, <1>6, <1>7, <1>8, <1>9

LEMMA ReloadKeeps ==
  ASSUME ApprovalInv, Reload \/ Tick
  PROVE  LocalType' /\ (\A d \in Calls : Put(d)') /\ Given' /\ Granted' /\ Recalled'
<1>1. Free /\ UNCHANGED <<stage, pos, snap, confirmed, left, prompt, shown, answers, under, yes>>
  BY DEF Reload, Tick, call
<1>2. \A d \in Calls : Put(d)' /\ left[d] = {}
  BY <1>1, PutStays DEF ApprovalInv, Free
<1>3. version \in Nat /\ clock \in Nat
  BY Constants DEF ApprovalInv, IInv, TypeInv, LocalType
<1>4. CASE Reload
  <2>1. version' = version + 1 /\ remembered' = None /\ full' = FALSE /\ clock' = clock
    BY <1>4 DEF Reload
  <2>2. IsFiniteSet(DOMAIN None) /\ DOMAIN None = {}
    BY FS_EmptySet DEF None
  <2>3. LocalType'
    BY <1>1, <2>1, <2>2 DEF ApprovalInv, LocalType
  <2>4. Given' /\ \A y \in yes : y.given # version'
    BY <1>1, <1>3, <2>1 DEF ApprovalInv, Given
  <2>5. Granted'
    BY <1>1, <1>2, <2>1, <2>2 DEF ApprovalInv, Granted
  <2>6. Recalled'
    BY <1>1, <2>4 DEF Recalled
  <2> QED BY <1>2, <2>3, <2>4, <2>5, <2>6
<1>5. CASE Tick
  <2>1. clock' = clock + 1 /\ UNCHANGED <<version, remembered, full>>
    BY <1>5 DEF Tick
  <2>2. LocalType' /\ Given'
    BY <1>1, <1>3, <2>1 DEF ApprovalInv, LocalType, Given
  <2>3. Granted' /\ Recalled'
    BY <1>1, <1>2, <2>1 DEF ApprovalInv, Granted, Recalled
  <2> QED BY <1>2, <2>2, <2>3
<1> QED BY <1>4, <1>5

LEMMA ApprovalStart == ASSUME Init, IInv PROVE ApprovalInv
<1>1. /\ confirmed = [c \in Calls |-> {}] /\ left = [c \in Calls |-> {}] /\ prompt = [c \in Calls |-> None]
      /\ shown = [c \in Calls |-> None] /\ answers = [c \in Calls |-> None] /\ under = [c \in Calls |-> 1]
      /\ stage = [c \in Calls |-> "idle"] /\ remembered = None
      /\ clock = 0 /\ version = 1 /\ yes = {} /\ full = FALSE
  BY DEF Init
<1>2. IsFiniteSet(DOMAIN None) /\ None \in Questions /\ DOMAIN None = {} /\ 1 \in DOMAIN GuardSets
  BY FS_EmptySet, NoneIsQuestions, Constants
<1>3. None \in UNION {[K -> BOOLEAN] : K \in SUBSET (Cmds \cup Patterns)}
  BY DEF None
<1>4. LocalType
  BY <1>1, <1>2, <1>3 DEF LocalType
<1>5. \A c \in Calls : Put(c)
  BY <1>1, <1>2 DEF Put
<1>6. Given /\ Granted /\ Recalled
  BY <1>1, <1>2 DEF Given, Granted, Recalled
<1> QED BY <1>4, <1>5, <1>6 DEF ApprovalInv

LEMMA ApprovalStep == ASSUME ApprovalInv, IInv', [Next]_vars PROVE ApprovalInv'
<1>1. ASSUME NEW c \in Calls, Start(c) \/ Retry(c) \/ Judge(c) \/ Reply(c) \/ Leave(c) PROVE ApprovalInv'
  <2>1. CASE Start(c) \/ Retry(c)
    BY <2>1, BeginKeeps DEF ApprovalInv
  <2>2. CASE Block(c) \/ Leave(c)
    <3>1. Return(c) /\ UNCHANGED <<clock, version, remembered, yes, full>>
      BY <2>2 DEF Block, Leave
    <3> QED BY <3>1, ReturnKeeps DEF ApprovalInv
  <2>3. CASE Pass(c) \/ Freeze(c) \/ Conclude(c)
    BY <2>3, RestKeeps DEF ApprovalInv
  <2>4. CASE Elicit(c) \/ Defer(c)
    BY <2>4, AskKeeps DEF ApprovalInv
  <2>5. CASE UseAnswer(c) \/ Reply(c)
    BY <2>5, AnswerKeeps DEF ApprovalInv
  <2>6. CASE RememberNext(c)
    BY <2>6, RememberKeeps DEF ApprovalInv
  <2> QED BY <1>1, <2>1, <2>2, <2>3, <2>4, <2>5, <2>6 DEF Judge
<1>2. CASE Reload \/ Tick
  BY <1>2, ReloadKeeps DEF ApprovalInv
<1>3. CASE UNCHANGED vars
  <2>1. UNCHANGED <<clock, version, remembered, stage, pos, snap, confirmed, left, prompt, shown, answers, under, yes, full>>
    BY <1>3 DEF vars, call
  <2>2. LocalType' /\ \A d \in Calls : Put(d)'
    BY <2>1, PutStays DEF ApprovalInv, LocalType
  <2>3. Given' /\ Granted' /\ Recalled'
    BY <2>1, GrantsStay DEF ApprovalInv
  <2> QED BY <2>2, <2>3 DEF ApprovalInv
<1> QED BY <1>1, <1>2, <1>3 DEF Next

LEMMA Approvals == Spec => []ApprovalInv
<1> QED BY ApprovalStart, ApprovalStep, Inductive, PTL DEF Spec

(* Where a call's position moves on, with the reason.                      *)
LEMMA Cleared ==
  ASSUME ApprovalInv, [Next]_vars, NEW c \in Calls, pos'[c] = pos[c] + 1
  PROVE  /\ Verdict(c) # "deny"
         /\ \/ Verdict(c) = "allow"
            \/ Key(c) \in DOMAIN prompt'[c]
            \/ \E y \in yes' : /\ y.cmd = Current(c) /\ y.how \in {"listed", "reloaded"}
                               /\ Verdict(c) \in confirmed'[c] \/ IsFresh(y.at)
<1>1. pos[c] \in Nat \ {0} /\ pos[c] # pos[c] + 1 /\ pos[c] + 1 # 1 /\ "deny" \notin Patterns
  BY Constants DEF ApprovalInv, IInv, TypeInv
<1>2. ASSUME NEW d \in Calls, Start(d) \/ Retry(d) \/ Judge(d) \/ Reply(d) \/ Leave(d)
      PROVE  Pass(c) \/ Defer(c) \/ ((UseAnswer(c) \/ Reply(c)) /\ ~Return(c))
  <2>1. pos \in [Calls -> Nat \ {0}]
    BY DEF ApprovalInv, IInv, TypeInv
  <2>2. ASSUME Return(d) \/ Begin(d) PROVE FALSE
    BY <1>1, <2>1, <2>2 DEF Return, Begin
  <2>3. ASSUME UNCHANGED pos PROVE FALSE
    BY <1>1, <2>3
  <2>4. ASSUME Advance(d) PROVE c = d
    BY <1>1, <2>1, <2>4 DEF Advance
  <2>5. CASE Start(d) \/ Retry(d) \/ Block(d) \/ Leave(d)
    BY <2>2, <2>5 DEF Start, Retry, Block, Leave
  <2>6. CASE Freeze(d) \/ Elicit(d) \/ Conclude(d) \/ RememberNext(d)
    BY <2>3, <2>6 DEF Freeze, Elicit, Conclude, RememberNext, call
  <2>7. CASE Pass(d) \/ Defer(d)
    BY <2>4, <2>7 DEF Pass, Defer
  <2>8. CASE UseAnswer(d) \/ Reply(d)
    <3>1. Return(d) \/ Advance(d)
      BY <2>8 DEF UseAnswer, Reply, Approve, Says
    <3> QED BY <2>2, <2>4, <2>8, <3>1
  <2> QED BY <1>2, <2>5, <2>6, <2>7, <2>8 DEF Judge
<1>3. Pass(c) \/ Defer(c) \/ ((UseAnswer(c) \/ Reply(c)) /\ ~Return(c))
  <2>1. ~Reload /\ ~Tick /\ ~UNCHANGED vars
    BY <1>1 DEF Reload, Tick, vars, call
  <2> QED BY <1>2, <2>1 DEF Next
<1>4. CASE Pass(c)
  <2>1. /\ Verdict(c) = "allow" \/ (Verdict(c) \in Patterns /\ Known(c))
        /\ Judging(c)
        /\ UNCHANGED <<yes, confirmed>>
    BY <1>4 DEF Pass
  <2>2. Verdict(c) # "deny"
    BY <1>1, <1>4, ConfirmationsAssumption DEF Pass
  <2>3. CASE Verdict(c) \in confirmed[c]
    <3>1. pos[c] \in DOMAIN CmdsOf[c]
      <4>1. pos[c] <= Len(CmdsOf[c]) /\ Len(CmdsOf[c]) \in Nat
        BY <1>4, Constants DEF Pass, Judging
      <4>2. DOMAIN CmdsOf[c] = 1..Len(CmdsOf[c])
        BY ConfirmationsAssumption, LenProperties
      <4> QED BY <1>1, <4>1, <4>2
    <3>2. \E y \in yes : y.cmd = Current(c)
      BY <2>3, <3>1 DEF ApprovalInv, Granted, Verdict, Current
    <3> QED BY <2>1, <2>2, <2>3, <3>2 DEF ApprovalInv, Given
  <2>4. CASE Current(c) \in DOMAIN remembered /\ IsFresh(remembered[Current(c)])
    <3>1. \E y \in yes : y.cmd = Current(c) /\ y.at = remembered[Current(c)]
      BY <2>4 DEF ApprovalInv, Granted
    <3> QED BY <2>1, <2>2, <2>4, <3>1 DEF ApprovalInv, Given
  <2> QED BY <2>1, <2>2, <2>3, <2>4 DEF Known
<1>5. CASE Defer(c)
  <2>1. Verdict(c) \in Patterns
    BY <1>5 DEF Defer, MustAsk
  <2>2. Key(c) \in DOMAIN prompt'[c]
    <3> DEFINE q == [k \in DOMAIN prompt[c] \cup {Key(c)} |->
                       IF k \in DOMAIN prompt[c] THEN prompt[c][k] ELSE Listed(c)]
    <3>1. Key(c) \in DOMAIN q
      OBVIOUS
    <3>2. prompt' = [prompt EXCEPT ![c] = q]
      BY <1>5 DEF Defer
    <3> HIDE DEF q
    <3> QED BY <3>1, <3>2 DEF ApprovalInv, LocalType
  <2> QED BY <1>1, <2>1, <2>2
<1>6. CASE (UseAnswer(c) \/ Reply(c)) /\ ~Return(c)
  BY <1>1, <1>6, AnswerKeeps
<1> QED BY <1>3, <1>4, <1>5, <1>6

(* No command gets past its judgement (`run_guards`, `exec_batch`) unless  *)
(* its guards allow it, its question is still open, or a user said yes to  *)
(* a question that listed it, or was put before a reload, in this call or  *)
(* within the window: for any commands, guard sets, reloads and calls.     *)
THEOREM ClearedOnly == Spec => ClearedByApproval
<1>1. ASSUME ApprovalInv, [Next]_vars
      PROVE  \A c \in Calls : pos'[c] = pos[c] + 1 =>
               /\ Verdict(c) # "deny"
               /\ \/ Verdict(c) = "allow"
                  \/ Key(c) \in DOMAIN prompt'[c]
                  \/ \E y \in yes' : /\ y.cmd = Current(c) /\ y.how \in {"listed", "reloaded"}
                                     /\ Verdict(c) \in confirmed'[c] \/ IsFresh(y.at)
  BY <1>1, Cleared
<1> QED BY <1>1, Approvals, PTL DEF Spec, ClearedByApproval

(* A repeat inside the window is not asked for again (`confirm_remembered`)*)
(* in the guard set it was approved in, while no approval met a full map.  *)
THEOREM AskedOnce == Spec => NoSecondPrompt
<1>1. ASSUME ApprovalInv, NEW c \in Calls, Elicit(c) \/ Defer(c), ~full,
             NEW y \in yes, y.cmd = Current(c), y.given = version, IsFresh(y.at)
      PROVE  FALSE
  <2>1. Free /\ ~Known(c)
    BY <1>1 DEF Elicit, Defer, MustAsk, Judging
  <2>2. clock < y.at + Ttl /\ y.at <= clock /\ y.at \in Nat /\ clock \in Nat /\ Ttl \in Nat
    BY <1>1, ConfirmationsAssumption DEF IsFresh, ApprovalInv, Given, LocalType
  <2>3. Ttl > 0
    BY <2>2
  <2>4. Current(c) \in DOMAIN remembered /\ y.at <= remembered[Current(c)] /\ remembered[Current(c)] \in Nat
    BY <1>1, <2>1, <2>3 DEF ApprovalInv, Recalled, Free, LocalType
  <2>5. IsFresh(remembered[Current(c)])
    BY <2>2, <2>4 DEF IsFresh
  <2> QED BY <2>1, <2>4, <2>5 DEF Known
<1>2. ASSUME ApprovalInv
      PROVE  \A c \in Calls : Elicit(c) \/ Defer(c) =>
               full \/ ~\E y \in yes : y.cmd = Current(c) /\ y.given = version /\ IsFresh(y.at)
  BY <1>1, <1>2
<1> QED BY <1>2, Approvals, PTL DEF NoSecondPrompt
===============================================================================
