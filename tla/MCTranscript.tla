---------------------------- MODULE MCTranscript ----------------------------
(***************************************************************************)
(* All transcripts up to a length, and what CutIndex, the repair and the   *)
(* OpenAI adapter make of each of them.                                    *)
(***************************************************************************)
EXTENDS Requests

CONSTANTS c1, c2, MaxLen

Fresh == { << >> }

\* Bound: MaxLen messages.
MCNext ==
    \/ Len(log) < MaxLen /\ \E m \in Produced : Record(m)
    \/ \E cut \in 1 .. Len(log) - 1 : Fold(cut)

MCSpec == Init /\ [][MCNext]_log
=============================================================================
