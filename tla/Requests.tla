------------------------------ MODULE Requests ------------------------------
(***************************************************************************)
(* The transcripts that anyrun writes (Transcript), and the request that a *)
(* run makes first of one that it resumes, as the provider gets it.        *)
(***************************************************************************)
EXTENDS Transcript, OpenAIRequest

\* Only replies and results carry ids, results are given to calls, and the
\* resume note is not recorded.
Produced ==
    { Said(k) : k \in Kinds \ {"reply", "result", "note"} }
        \cup { Reply(S) : S \in SUBSET Ids }
        \cup { Results(S) : S \in (SUBSET Ids) \ {{}} }

ASSUME ProducedAssumption == \A h \in Histories : h \in Seq(Produced)

WrittenNext ==
    \/ \E m \in Produced : Record(m)
    \/ \E cut \in 1 .. Len(log) - 1 : Fold(cut)

WrittenSpec == Init /\ [][WrittenNext]_log

-----------------------------------------------------------------------------
\* What a run shows the provider first: the history repaired, the resume note
\* when it is due, and the user message.
Opened(h, input) ==
    LET closed == IF Dangling(h) THEN Append(h, Closing(h)) ELSE h
        noted == IF CutShort(closed) THEN Append(closed, Said("note")) ELSE closed
    IN  Append(noted, Said(input))

\* However a history was cut off, the first request on it is accepted once it
\* is translated, with and without a system prompt (repairDanglingToolUse: "the
\* session would become unusable rather than resumable").  This is of providers
\* that give every call an id: SafeToSend fails with others (unnamed_call).
RepairAccepted ==
    \A input \in {"request", "media"}, prompted \in BOOLEAN :
        WireAccepted(toOpenAI(prompted, Opened(log, input)))

\* toOpenAI neither breaks nor mends the pairing of calls and results: of any
\* stretch of a history the provider accepts the translation exactly when the
\* loop's own rule lets it be sent.  It is what makes the rule the right one.
WireAgrees ==
    \A i \in 1 .. Len(log) : \A j \in i .. Len(log) :
        LET part == SubSeq(log, i, j)
        IN  WireAccepted(toOpenAI(FALSE, part)) <=> Replayable(part)
=============================================================================
