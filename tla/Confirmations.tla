----------------------------- MODULE Confirmations -----------------------------
(***************************************************************************)
(* Confirmed commands on one host (server.rs `run_guards`, tools/run.rs    *)
(* `exec_batch`, confirm.rs).                                              *)
(*                                                                         *)
(* A tool call takes the compiled guards once and judges its commands in   *)
(* order: one may be allowed, denied, or match a confirm pattern and need  *)
(* the user's yes, unless the same command was approved less than          *)
(* `confirm_ttl` ago.  A client of the older protocol is asked while the   *)
(* call waits; a newer one ("multi-round") gets the questions as an        *)
(* interim result and repeats the call with the answers.  `reload` swaps   *)
(* the guards under calls in progress and forgets every approval.          *)
(*                                                                         *)
(* Guards are judged, not matched: a guard set maps a command to "allow",  *)
(* "deny" or the confirm pattern that stops it.                            *)
(***************************************************************************)
EXTENDS Naturals, Sequences, FiniteSets, SequencesExt

CONSTANTS
  Cmds, Patterns,
  GuardSets,       \* what each successive reload puts in force
  Calls,
  Execs,           \* calls of `exec`, `sh`...: one command, asked for by itself
  MultiRound,      \* calls of clients that are asked between two rounds
  CmdsOf,          \* the commands of each call; a batch's may be several
  Ttl,             \* `confirm_ttl`; 0 remembers nothing
  MaxRemembered,   \* MAX_REMEMBERED_CONFIRMATIONS
  MaxClock         \* bound on time

ASSUME ConfirmationsAssumption ==
  /\ GuardSets \in Seq([Cmds -> {"allow", "deny"} \cup Patterns]) /\ GuardSets # <<>>
  /\ Cmds \cap Patterns = {} /\ {"allow", "deny"} \cap Patterns = {}
  /\ Execs \subseteq Calls /\ MultiRound \subseteq Calls
  /\ CmdsOf \in [Calls -> Seq(Cmds) \ {<<>>}]
  /\ \A c \in Execs : Len(CmdsOf[c]) = 1
  /\ Ttl \in Nat /\ MaxRemembered \in Nat /\ MaxClock \in Nat

VARIABLES
  clock,
  version,     \* the guard set in force
  remembered,  \* `confirmations`: command -> when it was approved
  frozen,      \* the only thread waits for a lock it holds
  stage,       \* where each call is
  pos,         \* the command it judges next
  snap,        \* the version it judges by
  confirmed,   \* patterns approved for the rest of the batch
  left,        \* where its commands stand that a yes is still to be remembered for
  prompt,      \* questions of this round: key -> commands they list
  shown,       \* questions of the round before
  answers,     \* and what the client answered
  under,       \* history: the version that round judged by
  yes,         \* history: what users approved
  full         \* history: in this guard set an approval met a full map

call == <<stage, pos, snap, confirmed, left, prompt, shown, answers, under>>
vars == <<clock, version, remembered, frozen, call, yes, full>>

Stages == {"idle", "checking", "asking", "awaiting", "running"}
None == [k \in {} |-> {}]

Current(c) == CmdsOf[c][pos[c]]
Verdict(c) == GuardSets[snap[c]][Current(c)]

(* An exec asks for its command, a batch for the pattern. *)
Key(c) == IF c \in Execs THEN Current(c) ELSE Verdict(c)

(* Variant: the question names the command that raised it alone. *)
CoveredFirst(c) == {pos[c]}

(* Where the commands stand that one yes lets through. *)
Covered(c) == {i \in DOMAIN CmdsOf[c] : GuardSets[snap[c]][CmdsOf[c][i]] = Verdict(c)}
Listed(c) == {CmdsOf[c][i] : i \in Covered(c)}

IsFresh(at) == clock < at + Ttl

(* `remember_confirm`: a full map drops its expired entries; if it is full *)
(* still, it does not remember.                                            *)
Remember(map, d) ==
  LET kept == {k \in DOMAIN map : Cardinality(DOMAIN map) < MaxRemembered \/ IsFresh(map[k])}
  IN  IF Ttl = 0 THEN map
      ELSE IF Cardinality(kept) >= MaxRemembered THEN [k \in kept |-> map[k]]
      ELSE [k \in kept \cup {d} |-> IF k = d THEN clock ELSE map[k]]

-----------------------------------------------------------------------------
(* A call.                                                                 *)

(* There is one thread, and remembering does not await. *)
Free == ~frozen /\ \A c \in Calls : left[c] = {}

Judging(c) == Free /\ stage[c] = "checking" /\ pos[c] <= Len(CmdsOf[c])

Go(c, s) == stage' = [stage EXCEPT ![c] = s]
Advance(c) == pos' = [pos EXCEPT ![c] = @ + 1]

(* The call returns, and its locals with it. *)
Return(c) ==
  /\ Go(c, "idle")
  /\ pos' = [pos EXCEPT ![c] = 1] /\ snap' = [snap EXCEPT ![c] = 1]
  /\ confirmed' = [confirmed EXCEPT ![c] = {}]
  /\ prompt' = [prompt EXCEPT ![c] = None] /\ shown' = [shown EXCEPT ![c] = None]
  /\ answers' = [answers EXCEPT ![c] = None] /\ under' = [under EXCEPT ![c] = 1]
  /\ UNCHANGED left

Begin(c) ==
  /\ snap' = [snap EXCEPT ![c] = version]
  /\ pos' = [pos EXCEPT ![c] = 1]
  /\ confirmed' = [confirmed EXCEPT ![c] = {}]
  /\ prompt' = [prompt EXCEPT ![c] = None]
  /\ Go(c, "checking")
  /\ UNCHANGED <<clock, version, remembered, frozen, left, yes, full>>

Start(c) ==
  /\ Free /\ stage[c] = "idle"
  /\ Begin(c)
  /\ shown' = [shown EXCEPT ![c] = None]
  /\ answers' = [answers EXCEPT ![c] = None]
  /\ UNCHANGED under

(* The client repeats the call with an answer to every question. *)
Retry(c) ==
  /\ Free /\ stage[c] = "awaiting"
  /\ Begin(c)
  /\ shown' = [shown EXCEPT ![c] = prompt[c]] /\ under' = [under EXCEPT ![c] = snap[c]]
  /\ \E a \in [DOMAIN prompt[c] -> BOOLEAN] : answers' = [answers EXCEPT ![c] = a]

(* `confirm_remembered`, asked unless the pattern is already confirmed. *)
Known(c) ==
  \/ Verdict(c) \in confirmed[c]
  \/ Current(c) \in DOMAIN remembered /\ IsFresh(remembered[Current(c)])

Expired(c) ==
  /\ Verdict(c) \in Patterns \ confirmed[c]
  /\ Ttl > 0 /\ Current(c) \in DOMAIN remembered /\ ~IsFresh(remembered[Current(c)])

Pass(c) ==
  /\ Judging(c)
  /\ Verdict(c) = "allow" \/ (Verdict(c) \in Patterns /\ Known(c))
  /\ Advance(c)
  /\ UNCHANGED <<clock, version, remembered, frozen, stage, snap, confirmed, left, prompt,
                 shown, answers, under, yes, full>>

Block(c) ==
  /\ Judging(c) /\ Verdict(c) = "deny"
  /\ Return(c)
  /\ UNCHANGED <<clock, version, remembered, frozen, yes, full>>

(* The expired entry is removed while the `get` that found it still holds  *)
(* its shard of the map: the thread waits for itself.                      *)
Freeze(c) ==
  /\ Judging(c) /\ Expired(c)
  /\ frozen' = TRUE
  /\ UNCHANGED <<clock, version, remembered, call, yes, full>>

MustAsk(c) == Judging(c) /\ Verdict(c) \in Patterns /\ ~Known(c) /\ ~Expired(c)

(* A yes to a question that listed these commands under that version.      *)
Says(c, listed, asked) ==
  /\ confirmed' = [confirmed EXCEPT ![c] = @ \cup {Verdict(c)}]
  /\ yes' = yes \cup {[cmd |-> d, at |-> clock, given |-> version,
                      how |-> IF d \in listed THEN "listed"
                              ELSE IF asked # snap[c] THEN "reloaded" ELSE "unlisted"] : d \in Listed(c)}
  /\ Advance(c)

(* Variant: only the command that raised the question is remembered. *)
ApproveOne(c, listed, asked) == Says(c, listed, asked) /\ left' = [left EXCEPT ![c] = {pos[c]}]

(* It is remembered for every command it covers. *)
Approve(c, listed, asked) == Says(c, listed, asked) /\ left' = [left EXCEPT ![c] = Covered(c)]

RememberNext(c) ==
  /\ ~frozen
  /\ \E i \in left[c] :
       /\ \A j \in left[c] : i <= j
       /\ remembered' = Remember(remembered, CmdsOf[c][i])
       /\ left' = [left EXCEPT ![c] = @ \ {i}]
  /\ full' = (full \/ Cardinality(DOMAIN remembered) >= MaxRemembered)
  /\ UNCHANGED <<clock, version, frozen, stage, pos, snap, confirmed, prompt, shown, answers, under, yes>>

(* The call waits for the elicitation. *)
Elicit(c) ==
  /\ MustAsk(c) /\ c \notin MultiRound
  /\ prompt' = [prompt EXCEPT ![c] = [k \in {Key(c)} |-> Listed(c)]]
  /\ Go(c, "asking")
  /\ UNCHANGED <<clock, version, remembered, frozen, pos, snap, confirmed, left, shown,
                 answers, under, yes, full>>

(* A no, an error and a cancelled elicitation are all a denial. *)
Reply(c) ==
  /\ Free /\ stage[c] = "asking"
  /\ \/ /\ Approve(c, prompt[c][Key(c)], snap[c]) /\ Go(c, "checking")
        /\ prompt' = [prompt EXCEPT ![c] = None]
        /\ UNCHANGED <<snap, shown, answers, under>>
     \/ Return(c) /\ UNCHANGED yes
  /\ UNCHANGED <<clock, version, remembered, frozen, full>>

(* The answer of the round before. *)
UseAnswer(c) ==
  /\ MustAsk(c) /\ c \in MultiRound /\ Key(c) \in DOMAIN answers[c]
  /\ IF answers[c][Key(c)]
     THEN Approve(c, shown[c][Key(c)], under[c]) /\ UNCHANGED <<stage, snap, prompt, shown, answers, under>>
     ELSE Return(c) /\ UNCHANGED yes
  /\ UNCHANGED <<clock, version, remembered, frozen, full>>

(* Variant: the first question ends the round. *)
DeferAtOnce(c) ==
  /\ MustAsk(c) /\ c \in MultiRound /\ Key(c) \notin DOMAIN answers[c]
  /\ prompt' = [prompt EXCEPT ![c] = [k \in DOMAIN @ \cup {Key(c)} |->
                 IF k \in DOMAIN @ THEN @[k] ELSE Listed(c)]]
  /\ Go(c, "awaiting")
  /\ UNCHANGED <<clock, version, remembered, frozen, pos, snap, confirmed, left, shown,
                 answers, under, yes, full>>

(* A new question: queued once per key, and the judging goes on. *)
Defer(c) ==
  /\ MustAsk(c) /\ c \in MultiRound /\ Key(c) \notin DOMAIN answers[c]
  /\ prompt' = [prompt EXCEPT ![c] = [k \in DOMAIN @ \cup {Key(c)} |->
                 IF k \in DOMAIN @ THEN @[k] ELSE Listed(c)]]
  /\ Advance(c)
  /\ UNCHANGED <<clock, version, remembered, frozen, stage, snap, confirmed, left, shown,
                 answers, under, yes, full>>

(* Everything is judged: the commands run, or the questions go back. *)
Conclude(c) ==
  /\ Free /\ stage[c] = "checking" /\ pos[c] > Len(CmdsOf[c])
  /\ Go(c, IF prompt[c] = None THEN "running" ELSE "awaiting")
  /\ UNCHANGED <<clock, version, remembered, frozen, pos, snap, confirmed, left, prompt,
                 shown, answers, under, yes, full>>

(* The commands are done, or the client does not come back. *)
Leave(c) ==
  /\ Free /\ stage[c] \in {"running", "awaiting"}
  /\ Return(c)
  /\ UNCHANGED <<clock, version, remembered, frozen, yes, full>>

-----------------------------------------------------------------------------
Reload ==
  /\ Free /\ version < Len(GuardSets)
  /\ version' = version + 1
  /\ remembered' = None /\ full' = FALSE
  /\ UNCHANGED <<clock, frozen, call, yes>>

Tick ==
  /\ Free /\ clock < MaxClock
  /\ clock' = clock + 1
  /\ UNCHANGED <<version, remembered, frozen, call, yes, full>>

Init ==
  /\ clock = 0 /\ version = 1 /\ remembered = None /\ frozen = FALSE
  /\ stage = [c \in Calls |-> "idle"]
  /\ pos = [c \in Calls |-> 1] /\ snap = [c \in Calls |-> 1]
  /\ confirmed = [c \in Calls |-> {}] /\ left = [c \in Calls |-> {}]
  /\ prompt = [c \in Calls |-> None]
  /\ shown = [c \in Calls |-> None] /\ answers = [c \in Calls |-> None]
  /\ under = [c \in Calls |-> 1] /\ yes = {} /\ full = FALSE

Judge(c) == Pass(c) \/ Block(c) \/ Freeze(c) \/ Elicit(c) \/ UseAnswer(c) \/ Defer(c)
            \/ RememberNext(c) \/ Conclude(c)

Next == \/ \E c \in Calls : Start(c) \/ Retry(c) \/ Judge(c) \/ Reply(c) \/ Leave(c)
        \/ Reload
        \/ Tick

Spec == Init /\ [][Next]_vars

(* A call that can go on does: users answer and clients come back or not.  *)
FairSpec == Spec /\ \A c \in Calls : WF_vars(Judge(c))

-----------------------------------------------------------------------------

(* No command gets past its judgement unless its guards allow it, or the   *)
(* question is still open, or the user said yes to a question that listed  *)
(* this very command, in this call or less than `confirm_ttl` ago.         *)
(* ("so the operator approves what they can actually see", and             *)
(* "approving `systemctl stop nginx` must not silently approve             *)
(* `systemctl stop firewalld`".)  The code has one exception: a pattern    *)
(* answered for in the round before covers what it stops now, though a     *)
(* reload came between and the question listed less.                       *)
ClearedByApproval ==
  [][\A c \in Calls : pos'[c] = pos[c] + 1 =>
       /\ Verdict(c) # "deny"
       /\ \/ Verdict(c) = "allow"
          \/ Key(c) \in DOMAIN prompt'[c]
          \/ \E y \in yes' : /\ y.cmd = Current(c) /\ y.how \in {"listed", "reloaded"}
                             /\ Verdict(c) \in confirmed'[c] \/ IsFresh(y.at)]_vars

(* "A repeat of the identical command inside the window runs without a     *)
(* second prompt": no question is opened for a command approved, in this   *)
(* guard set and call or another, less than `confirm_ttl` ago, unless an   *)
(* approval met a full map ("simply stops remembering and prompts again"). *)
NoSecondPrompt ==
  [][\A c \in Calls : Elicit(c) \/ Defer(c) =>
       full \/ ~\E y \in yes : y.cmd = Current(c) /\ y.given = version /\ IsFresh(y.at)]_vars

(* "A block wins over a pending confirmation": no batch runs, and none     *)
(* comes back to the client with questions, that has a denied command.     *)
BlockWins ==
  \A c \in Calls : stage[c] \in {"awaiting", "running"} =>
    \A d \in ToSet(CmdsOf[c]) : GuardSets[snap[c]][d] # "deny"

(* "anything else prompts again": a call that meets an expired approval    *)
(* asks the user.                                                          *)
PromptsAgain == \A c \in Calls \ MultiRound :
                  (Judging(c) /\ Expired(c)) ~> stage[c] = "asking"
=============================================================================
