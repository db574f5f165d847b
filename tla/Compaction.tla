----------------------------- MODULE Compaction -----------------------------
(***************************************************************************)
(* The choice internal/compact makes of what to keep, as operators: where  *)
(* the kept tail of a history begins, and the history that replaces it.    *)
(* Positions are the code's: the head is the first `cut' messages.         *)
(***************************************************************************)
EXTENDS Envelope

\* A slip (see AgentTurn): the kept share is taken for the dropped one.
TailStartEarly(n) == n \div 4

\* keepRatio is 0.25 at the only call: the tail is looked for in the last quarter.
TailStart(n) == (3 * n) \div 4

\* A slip: every user message will do, whatever its first block is.
CuttableAnyUser(h) ==
    { c \in TailStart(Len(h)) .. Len(h) - 1 : h[c + 1].kind # "reply" }

\* The positions CutIndex accepts, going forward from that point.
Cuttable(h) ==
    { c \in TailStart(Len(h)) .. Len(h) - 1 : h[c + 1].kind \in UserText }

\* CutIndex: the first of them; empty stands for the code's 0, no cut.
CutIndex(h) ==
    IF Len(h) < 4
    THEN {}
    ELSE { c \in Cuttable(h) : \A d \in Cuttable(h) : c <= d }

\* The part of h that a summary is asked of, and then stands for.
Older(h, cut) == SubSeq(h, 1, cut)

\* A slip: the tail begins one message early.
FoldedEarly(h, cut) == << Said("summary") >> \o SubSeq(h, cut, Len(h))

\* What Rewrite puts in the place of h.
Folded(h, cut) == << Said("summary") >> \o SubSeq(h, cut + 1, Len(h))
=============================================================================
