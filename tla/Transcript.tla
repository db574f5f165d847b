----------------------------- MODULE Transcript -----------------------------
(***************************************************************************)
(* What a session promises whoever resumes it, without files, processes or *)
(* kills: a history that grows by messages a provider accepts where they   *)
(* stand, and that is shortened only by putting a summary in the place of  *)
(* an older part, never between a tool call and its answer.                *)
(***************************************************************************)
EXTENDS Compaction

CONSTANTS Histories  \* the histories a session may start from

ASSUME HistoriesAssumption ==
    \A h \in Histories : h \in Seq(Message) /\ Paired(h)

VARIABLE log

Init == log \in Histories

\* The record grows by one message that may stand there.
Record(m) ==
    /\ IF log = << >> THEN m.kind # "result" ELSE MayFollow(Final(log), m)
    /\ log' = Append(log, m)

\* The oldest messages give way to a summary of them.
Fold(cut) ==
    /\ ~Unanswered(log)
    /\ log[cut + 1].kind \in UserText
    /\ log' = Folded(log, cut)

Next ==
    \/ \E m \in Message : Record(m)
    \/ \E cut \in 1 .. Len(log) - 1 : Fold(cut)

Spec == Init /\ [][Next]_log

-----------------------------------------------------------------------------
TypeOK == log \in Seq(Message)

\* Tool calls and their results stay together, however the history grew and
\* however often it was compacted (repairDanglingToolUse, the flushes of Turn
\* and CutIndex together are there for this).
LogPaired == Paired(log)

\* A compaction of a history that may be sent (CutIndex, Rewrite) leaves one
\* that may be sent, of which at most a quarter, rounded up, is of the old;
\* and the rest of the old may be sent for a summary.
CutKeepsTail ==
    \A cut \in CutIndex(log) :
        /\ ~Unanswered(log) => Replayable(Folded(log, cut))
        /\ Replayable(Older(log, cut))
        /\ 4 * (Len(log) - cut) < Len(log) + 4

\* A compaction makes the history shorter.
CutShortens == \A cut \in CutIndex(log) : Len(Folded(log, cut)) < Len(log)
=============================================================================
