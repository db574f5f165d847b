--------------------------- MODULE OpenAIRequest ---------------------------
(***************************************************************************)
(* What internal/provider/openai makes of a history before it posts it:    *)
(* chat-completions messages, each with its role, the ids of its           *)
(* tool_calls (role assistant) or the id in tool_call_id (role tool).      *)
(*                                                                         *)
(* Texts are left out, and with them what a block that is no text becomes  *)
(* (a placeholder).  The results of one message are in some order: ids     *)
(* have none here.                                                         *)
(***************************************************************************)
EXTENDS Envelope, SequencesExt

Wire(role, ids) == [role |-> role, ids |-> ids]

\* A slip (see AgentTurn): the results of a message travel in one wire
\* message, which has room for one id.
TranslatedWhole(m) ==
    IF m.kind = "reply" THEN << Wire("assistant", m.ids) >>
    ELSE IF m.kind = "result"
    THEN << Wire("tool", { CHOOSE id \in m.ids : TRUE }) >>
    ELSE << Wire("user", {}) >>

\* The wire messages of one message of the history: each tool_result becomes
\* one of its own.  A user message of results has no text beside them.
Translated(m) ==
    IF m.kind = "reply" THEN << Wire("assistant", m.ids) >>
    ELSE IF m.kind = "result"
    THEN SetToSeq({ Wire("tool", {id}) : id \in m.ids })
    ELSE << Wire("user", {}) >>

\* prompted: there is a system prompt.
toOpenAI(prompted, h) ==
    (IF prompted THEN << Wire("system", {}) >> ELSE << >>)
        \o FlattenSeq([i \in 1 .. Len(h) |-> Translated(h[i])])

-----------------------------------------------------------------------------
(***************************************************************************)
(* What an OpenAI-compatible provider accepts (stated, not coded: "every   *)
(* tool_call needing a matching tool message", loop.go:95-97).             *)
(***************************************************************************)

\* The tool messages that stand between i and j, and nothing else does.
ToolsOnly(w, i, j) == \A n \in i + 1 .. j : w[n].role = "tool"

\* The ids answered right after position i.
AnsweredAfter(w, i) ==
    UNION { w[j].ids : j \in { k \in i + 1 .. Len(w) : ToolsOnly(w, i, k) } }

WireAccepted(w) ==
    /\ \A i \in 1 .. Len(w) :
        w[i].role = "assistant" => w[i].ids \subseteq AnsweredAfter(w, i)
    /\ \A j \in 1 .. Len(w) :
        w[j].role = "tool" =>
            \E i \in 1 .. j - 1 :
                /\ w[i].role = "assistant"
                /\ w[j].ids \subseteq w[i].ids
                /\ ToolsOnly(w, i, j)
=============================================================================
