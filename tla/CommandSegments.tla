-------------------------- MODULE CommandSegments --------------------------
(***************************************************************************)
(* `looks_writeful` (guards.rs), the read-only check of a command: one     *)
(* walk over its characters cuts it into segments, each with its first two *)
(* words and whether it redirects; tables of commands then decide.         *)
(*                                                                         *)
(* A command is a sequence of characters: "_" stands for white space, "sq",*)
(* "dq" and "bs" for the quotes and the backslash, "tick" and "nl" for the *)
(* backquote and the end of a line; any other is a letter.                 *)
(***************************************************************************)
EXTENDS Naturals, Sequences, FiniteSets

CONSTANTS
  Alphabet,        \* the characters
  LowerCase,       \* each in lower case
  AlwaysWrite,     \* ALWAYS_WRITE: words
  SubcommandWrite  \* SUBCOMMAND_WRITE: pairs of words

ASSUME CommandAssumption ==
  /\ "end" \notin Alphabet
  /\ LowerCase \in [Alphabet -> Alphabet]
  /\ \A c \in Alphabet : LowerCase[LowerCase[c]] = LowerCase[c]
  /\ AlwaysWrite \subseteq Seq(Alphabet) \ {<<>>}
  /\ SubcommandWrite \subseteq (Seq(Alphabet) \ {<<>>}) \X (Seq(Alphabet) \ {<<>>})

VARIABLE command

Separators == {"|", "&", ";", "nl"}
Redirects == {">", "<"}
Escapable == {"dq", "bs", "$", "tick", "nl"}  \* by a backslash in double quotes

NoWord == <<>>
Segment == [first |-> NoWord, second |-> NoWord, redirects |-> FALSE]

(* The walk: the segments closed, the open one, how many words of it were  *)
(* seen, the word being read, the quotes it is in, and how many characters *)
(* were already consumed by a look ahead.                                  *)
Walk == [out |-> <<>>, cur |-> Segment, seen |-> 0, buf |-> <<>>, quote |-> "none", skip |-> 0]

PushToken(w) ==
  CASE w.buf = <<>> -> w
    [] w.seen = 0 /\ w.buf # <<>> -> [w EXCEPT !.cur.first = w.buf, !.buf = <<>>, !.seen = 1]
    [] w.seen = 1 /\ w.buf # <<>> -> [w EXCEPT !.cur.second = w.buf, !.buf = <<>>, !.seen = 2]
    [] w.seen = 2 /\ w.buf # <<>> -> [w EXCEPT !.buf = <<>>]

PushSegment(w) ==
  LET v == PushToken(w) IN [v EXCEPT !.out = Append(@, v.cur), !.cur = Segment, !.seen = 0]

PushChar(w, c) == [w EXCEPT !.buf = Append(@, c)]

(* Variant: a backslash in double quotes always takes the next character.  *)
QuotedEscapesAll(w, c, next) ==
  CASE c = "dq" -> [w EXCEPT !.quote = "none"]
    [] c = "bs" /\ next # "end" -> [PushChar(w, next) EXCEPT !.skip = 1]
    [] OTHER -> PushChar(w, c)

InDouble(w, c, next) ==
  CASE c = "dq" -> [w EXCEPT !.quote = "none"]
    [] c = "bs" /\ next \in Escapable -> [PushChar(w, next) EXCEPT !.skip = 1]
    [] OTHER -> PushChar(w, c)

Unquoted(w, c, next) ==
  CASE c = "sq" -> [w EXCEPT !.quote = "single"]
    [] c = "dq" -> [w EXCEPT !.quote = "double"]
    [] c = "bs" -> IF next = "end" THEN w ELSE [PushChar(w, next) EXCEPT !.skip = 1]
    [] c \in Separators -> [PushSegment(w) EXCEPT !.skip = IF c \in {"|", "&"} /\ next = c THEN 1 ELSE 0]
    [] c \in Redirects -> [PushToken([w EXCEPT !.cur.redirects = TRUE])
                              EXCEPT !.skip = IF next \in Redirects \cup {"&"} THEN 1 ELSE 0]
    [] c = "_" -> PushToken(w)
    [] OTHER -> PushChar(w, c)

Read(w, c, next) ==
  CASE w.skip = 1 -> [w EXCEPT !.skip = 0]
    [] w.skip = 0 /\ w.quote = "single" -> IF c = "sq" THEN [w EXCEPT !.quote = "none"] ELSE PushChar(w, c)
    [] w.skip = 0 /\ w.quote = "double" -> InDouble(w, c, next)
    [] w.skip = 0 /\ w.quote = "none" -> Unquoted(w, c, next)

ParseSegments(cmd) ==
  LET next(i) == IF i = Len(cmd) THEN "end" ELSE cmd[i + 1]
      walked[i \in 0..Len(cmd)] == IF i = 0 THEN Walk ELSE Read(walked[i - 1], cmd[i], next(i))
  IN PushSegment(walked[Len(cmd)]).out

(* `to_ascii_lowercase`. *)
Lower(word) == [i \in DOMAIN word |-> LowerCase[word[i]]]

(* The words of the command are put in lower case, those of the tables are *)
(* compared as they are written.                                           *)
LooksWriteful(cmd) ==
  LET found == ParseSegments(cmd)
  IN \E i \in DOMAIN found :
     LET s == found[i]
     IN \/ s.redirects
        \/ Lower(s.first) \in AlwaysWrite
        \/ <<Lower(s.first), Lower(s.second)>> \in SubcommandWrite

-----------------------------------------------------------------------------
(* A command of any length, typed character by character.                  *)

CommandInit == command = <<>>
Type == \E c \in Alphabet : command' = Append(command, c)
CommandSpec == CommandInit /\ [][Type]_command

-----------------------------------------------------------------------------
(* A reference definition, by position instead of by walking: what a       *)
(* character is depends on the quotes before it, segments lie between      *)
(* separators, and words are the characters of a segment with no operator  *)
(* and no blank between them.                                              *)

Doubles(a, c) == (a \in Redirects /\ c \in Redirects \cup {"&"}) \/ (a = c /\ c \in {"|", "&"})

(* A character outside quotes, behind one of the kind `before`.            *)
BareKind(before, c) ==
  CASE c \in {"sq", "dq"} -> c
    [] c = "bs" -> "escape"
    [] c = "_" -> "blank"
    [] c \in Separators \cup Redirects -> IF Doubles(before, c) THEN "half" ELSE c
    [] OTHER -> "plain"

(* Of the quotes q before position i the last one is still open.           *)
Opened(kind, q, i) == Cardinality({j \in 1..(i - 1) : kind[j] = q}) % 2 = 1

(* The kind of the character at i, given the kinds of those before it.     *)
KindAt(cmd, kind, i) ==
  LET c == cmd[i]
      before == IF i = 1 THEN "plain" ELSE kind[i - 1]
      escapes == i < Len(cmd) /\ c = "bs" /\ cmd[i + 1] \in Escapable
  IN IF before \in {"escape", "quotedEscape"} THEN "escaped"
     ELSE IF Opened(kind, "sq", i) THEN (IF c = "sq" THEN "sq" ELSE "quoted")
     ELSE IF Opened(kind, "dq", i)
          THEN (IF c = "dq" THEN "dq" ELSE IF escapes THEN "quotedEscape" ELSE "quoted")
     ELSE BareKind(before, c)

(* All of them, as a sequence.                                             *)
Kinds(cmd) == LET kind[i \in 1..Len(cmd)] == KindAt(cmd, kind, i) IN SubSeq(kind, 1, Len(cmd))

Written == {"plain", "quoted", "escaped"}   \* part of a word
Breaks == Redirects \cup {"half", "blank"}   \* end a word
CutsBefore(kind, i) == Cardinality({j \in 1..(i - 1) : kind[j] \in Separators})

(* The positions of the k-th segment and those of its characters.          *)
Stretch(kind, k) == {i \in DOMAIN kind : kind[i] \notin Separators /\ CutsBefore(kind, i) = k - 1}
CharsOf(kind, k) == {i \in Stretch(kind, k) : kind[i] \in Written}

(* Of the characters at C those of the first word; C is all of a segment   *)
(* or all behind its first word.                                           *)
FirstWord(kind, C) == {i \in C : \A j \in C : \A m \in j..i : kind[m] \notin Breaks}
SecondWord(kind, C) == FirstWord(kind, C \ FirstWord(kind, C))

(* The word is the characters of the command at the positions P.           *)
Spells(word, cmd, P) ==
  /\ Len(word) = Cardinality(P)
  /\ \A i \in P : word[Cardinality({j \in P : j <= i})] = cmd[i]

SegmentOf(s, cmd, kind, k) ==
  LET C == CharsOf(kind, k)
  IN /\ Spells(s.first, cmd, FirstWord(kind, C))
     /\ Spells(s.second, cmd, SecondWord(kind, C))
     /\ s.redirects <=> \E i \in Stretch(kind, k) : kind[i] \in Redirects

(* It is, but for the case of its letters.                                 *)
SpellsAnyCase(word, cmd, P) == Spells(Lower(word), Lower(cmd), P)

(* An entry of the tables with a letter in upper case is dead.             *)
InLowerCase(word) == Lower(word) = word

Writes(cmd, kind, k) ==
  LET C == CharsOf(kind, k)
  IN \/ \E i \in Stretch(kind, k) : kind[i] \in Redirects
     \/ \E w \in AlwaysWrite : InLowerCase(w) /\ SpellsAnyCase(w, cmd, FirstWord(kind, C))
     \/ \E p \in SubcommandWrite :
          /\ InLowerCase(p[1]) /\ InLowerCase(p[2])
          /\ SpellsAnyCase(p[1], cmd, FirstWord(kind, C))
          /\ SpellsAnyCase(p[2], cmd, SecondWord(kind, C))

(* "Tokenized read-only check. Splits `cmd` into pipeline segments,        *)
(* respects single/double quotes" (guards.rs 773): on every command the    *)
(* walk finds the segments, words and redirections that its characters     *)
(* make when read one position at a time, so quoting neither hides an      *)
(* operator or a word nor makes one up, and it is taken to write exactly   *)
(* when one of those segments redirects or begins, in upper or lower case, *)
(* with an entry of the tables that is itself in lower case.  The entries  *)
(* that are not, ("pacman", "-S") and the like, match nothing, though the  *)
(* tables list them as commands that write.                                *)
SegmentsAsQuoted ==
  LET found == ParseSegments(command)
      kind == Kinds(command)
  IN /\ Len(found) = CutsBefore(kind, Len(command) + 1) + 1
     /\ \A k \in 1..Len(found) : SegmentOf(found[k], command, kind, k)
     /\ LooksWriteful(command) <=> \E k \in 1..Len(found) : Writes(command, kind, k)
=============================================================================
