---------------------------- MODULE SessionFile ----------------------------
(***************************************************************************)
(* The JSONL file of a session as internal/session/store.go writes and     *)
(* reads it: one line per message, appended by one write each.  A process  *)
(* killed inside such a write leaves a last line without its newline; the  *)
(* next append goes straight behind it, on the same line.                  *)
(*                                                                         *)
(* A line is the message it decodes to, or Junk.  A file that is missing   *)
(* reads as an empty one.  The 64 MB limit of a line is left out.          *)
(***************************************************************************)
EXTENDS Envelope

\* A line that is not the JSON of one message: a fragment, or two on a line.
Junk == [kind |-> "junk", ids |-> {}]

Line == Message \cup {Junk}

\* open: the file does not end in a newline.
File == [lines : Seq(Line), open : BOOLEAN]

EmptyFile == [lines |-> << >>, open |-> FALSE]

FileOf(h) == [lines |-> h, open |-> FALSE]

\* The lines that an append leaves as they are.
Closed(f) == IF f.open THEN SubSeq(f.lines, 1, Len(f.lines) - 1) ELSE f.lines

\* One message of Store.Append, written to the end.
Put(f, m) ==
    [lines |-> Append(Closed(f), IF f.open THEN Junk ELSE m), open |-> FALSE]

\* The file after a kill (or a full disk) inside that write: some of the
\* bytes, or all of them but the newline.
TornPuts(f, m) ==
    { [lines |-> Append(Closed(f), Junk), open |-> TRUE],
      [lines |-> Append(Closed(f), IF f.open THEN Junk ELSE m), open |-> TRUE] }

\* A slip (see AgentTurn): a line that does not decode is skipped anywhere.
LoadableAnyway(f) == TRUE

\* Store.Load succeeds: a line that does not decode is forgiven only when it
\* is the last one and has no newline.
Loadable(f) ==
    \A i \in 1 .. Len(f.lines) :
        f.lines[i] = Junk => (f.open /\ i = Len(f.lines))

\* The messages Load returns when it succeeds.
Loaded(f) ==
    IF f.lines # << >> /\ f.lines[Len(f.lines)] = Junk
    THEN SubSeq(f.lines, 1, Len(f.lines) - 1)
    ELSE f.lines
=============================================================================
