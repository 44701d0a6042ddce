---------------------------- MODULE MCFunctions ----------------------------
(* The three sequential parts that only compute, side by side: a state is  *)
(* an input of one of them, built up a character, a message or a line at a *)
(* time, and the invariants compare what the code makes of it with what it *)
(* should be.                                                              *)
EXTENDS CommandSegments, OutputCapture, HostConfig

CONSTANTS MaxCommand, MaxStream, MaxChunk
VARIABLE part

vars == <<part, command, capturevars, configvars>>

Letters == {"w", "x", "X", "_", "sq", "dq", "bs", "|", "&", ">"}
LowerCases == [c \in Letters |-> IF c = "X" THEN "x" ELSE c]
WordsAlwaysWrite == {<<"w">>}
PairsWrite == {<<<<"x">>, <<"x">>>>, <<<<"w", "x">>, <<"X">>>>}

NamesWritten == {"a", "b", "d"}
Ready(jump) == Host("addr", "user", TRUE, jump)
TablesDeclared ==
  {[n \in {} |-> Ready(NoJump)], [n \in {"d"} |-> Ready(NoJump)], [n \in {"d"} |-> Ready("a")],
   [n \in {"b", "d"} |-> Ready(IF n = "b" THEN "d" ELSE "b")],
   [n \in {"d"} |-> Host("addr", "user", FALSE, NoJump)]}
LinesWritten ==
  {HostLine(<<Plain("a")>>), HostLine(<<Plain("b")>>), HostLine(<<Star, Not("a")>>), MatchLine,
   Keyword("hostname", "addr"), Keyword("user", Empty), Keyword("proxyjump", <<"a">>),
   Keyword("proxyjump", <<"b", "a">>), Keyword("proxyjump", <<"d">>), Keyword("proxyjump", <<"none">>)}

Init ==
  /\ command = <<>> /\ capture = NewCapture /\ received = 0
  /\ blocks = <<>> /\ current = <<Global>> /\ read = 0
  /\ \/ part = "command" /\ widths = <<>> /\ toml \in {[n \in {} |-> Ready(NoJump)]}
     \/ /\ part = "output" /\ widths \in UNION {[1..n -> 1..Widest] : n \in 1..MaxStream}
        /\ toml \in {[n \in {} |-> Ready(NoJump)]}
     \/ part = "config" /\ widths = <<>> /\ toml \in Declared

TypeOne ==
  /\ part = "command" /\ Len(command) < MaxCommand /\ Type
  /\ UNCHANGED <<part, capturevars, configvars>>
Message == part = "output" /\ (\E n \in 1..MaxChunk : Receive(n)) /\ UNCHANGED <<part, command, configvars>>
NextLine == part = "config" /\ ReadLine /\ UNCHANGED <<part, command, capturevars>>

Next == TypeOne \/ Message \/ NextLine
Spec == Init /\ [][Next]_vars
=============================================================================
