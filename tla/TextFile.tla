------------------------------ MODULE TextFile ------------------------------
(***************************************************************************)
(* What internal/builtin computes about the text of a file: the edit that  *)
(* edit_file makes of it and the pages that read_file returns, as          *)
(* operators.  A text is a sequence of characters, NL among them.          *)
(***************************************************************************)
EXTENDS Integers, Sequences

CONSTANTS
    Chars,  \* the characters of a text
    NL      \* the newline

ASSUME CharsAssumption == NL \in Chars

Texts == Seq(Chars)

\* Text t stands at position i of s.
OccursAt(s, t, i) ==
    /\ i + Len(t) - 1 <= Len(s)
    /\ SubSeq(s, i, i + Len(t) - 1) = t

\* The places that strings.Count counts and strings.Replace replaces: from
\* the left, each search going on behind the place found before.
Found(s, t) ==
    LET from[i \in 1 .. Len(s) + 1] ==
            IF i > Len(s) THEN {}
            ELSE IF OccursAt(s, t, i) THEN {i} \cup from[i + Len(t)]
            ELSE from[i + 1]
    IN  from[1]

\* s with new in the place of old, at the places in at.
Replaced(s, old, new, at) ==
    LET from[i \in 1 .. Len(s) + 1] ==
            IF i > Len(s) THEN << >>
            ELSE IF i \in at THEN new \o from[i + Len(old)]
            ELSE << s[i] >> \o from[i + 1]
    IN  from[1]

First(places) == { i \in places : \A j \in places : i <= j }

\* A slip (see AgentTurn): a snippet that occurs more than once will do.
RefusedIfMissing(s, old, new, all) ==
    old = << >> \/ old = new \/ Found(s, old) = {}

\* ApplyEdit returns an error.
Refused(s, old, new, all) ==
    \/ old = << >> \/ old = new
    \/ Found(s, old) = {}
    \/ ~all /\ First(Found(s, old)) # Found(s, old)

\* ApplyEdit, when it returns none.
ApplyEdit(s, old, new, all) ==
    Replaced(s, old, new, IF all THEN Found(s, old) ELSE First(Found(s, old)))

-----------------------------------------------------------------------------
(* Reading.                                                                *)

\* strings.Split at newlines: one line more than there are newlines.
Lines(s) ==
    LET from[i \in 1 .. Len(s) + 1] ==
            IF i > Len(s) THEN << << >> >>
            ELSE IF s[i] = NL THEN << << >> >> \o from[i + 1]
            ELSE << << s[i] >> \o Head(from[i + 1]) >> \o Tail(from[i + 1])
    IN  from[1]

\* strings.Join with newlines.
Joined(lines) ==
    LET upTo[i \in 0 .. Len(lines)] ==
            IF i = 0 THEN << >>
            ELSE IF i = 1 THEN lines[1]
            ELSE upTo[i - 1] \o << NL >> \o lines[i]
    IN  upTo[Len(lines)]

\* The position before the first line of a page (offset is 1-based, 0: none).
PageStart(offset) == IF offset > 0 THEN offset - 1 ELSE 0

\* A slip: the line at the offset is taken for the one before it.
PageOneBased(s, offset, limit) ==
    LET n == Len(Lines(s))
        end == IF limit > 0 /\ offset + limit < n THEN offset + limit ELSE n
    IN  Joined(SubSeq(Lines(s), offset + 1, end))

PastEnd(s, offset) == PageStart(offset) > Len(Lines(s))

\* read_file with an offset or a limit, inside the file.
Page(s, offset, limit) ==
    LET n == Len(Lines(s))
        from == PageStart(offset)
        end == IF limit > 0 /\ from + limit < n THEN from + limit ELSE n
    IN  Joined(SubSeq(Lines(s), from + 1, end))
=============================================================================
