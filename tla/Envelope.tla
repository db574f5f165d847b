------------------------------ MODULE Envelope ------------------------------
(***************************************************************************)
(* The messages of a session (internal/envelope), and what internal/loop   *)
(* reads off a history of them: whether it was cut off before a tool call  *)
(* was answered, how that is repaired, and whether the run it records      *)
(* ended early.                                                            *)
(*                                                                         *)
(* A message keeps what the program tells messages apart by: its role, the *)
(* type of its first content block (together, the kind) and the ids of its *)
(* tool_use or tool_result blocks.  Texts, tool names and arguments, and   *)
(* the order of the blocks are left out; the ids of a reply are a set, so  *)
(* that two calls with the same id count as one.                           *)
(***************************************************************************)
EXTENDS Integers, Sequences

CONSTANTS
    Ids,  \* the ids a provider may give the tool calls of a reply
    NoId  \* the empty id: one of Ids if the provider may leave ids out

(***************************************************************************)
(* kind       role       first block                                       *)
(* "request"  user       text        the message the host pipes in         *)
(* "media"    user       another     the same, led by an image, audio...   *)
(* "summary"  user       text        what a compaction puts in its place   *)
(* "note"     user       text        shown to the provider, never stored   *)
(* "reply"    assistant  any         the model's turn, with its tool calls *)
(* "result"   user       tool_result the answers to those calls            *)
(***************************************************************************)
Kinds == {"request", "media", "summary", "note", "reply", "result"}

Message == [kind : Kinds, ids : SUBSET Ids]

Said(kind) == [kind |-> kind, ids |-> {}]
Reply(calls) == [kind |-> "reply", ids |-> calls]
Results(calls) == [kind |-> "result", ids |-> calls]

\* A user message whose first block is text: where compact.CutIndex may cut.
UserText == {"request", "summary", "note"}

\* The calls of a reply that the repair looks at.
Named(m) == m.ids \ {NoId}

Final(h) == h[Len(h)]

\* A history that the repair takes for one cut off before an answer.
Dangling(h) ==
    /\ h # << >>
    /\ Final(h).kind = "reply"
    /\ Named(Final(h)) # {}

\* A slip (see AgentTurn): of several calls only one is answered.
ClosingOne(h) == Results({ CHOOSE id \in Named(Final(h)) : TRUE })

\* The synthetic tool_result message that closes such a history.
Closing(h) == Results(Named(Final(h)))

\* The history ends with a result the model never got to react to.
CutShort(h) ==
    /\ h # << >>
    /\ Final(h).kind = "result"

-----------------------------------------------------------------------------
(***************************************************************************)
(* What a provider accepts (stated, not coded: it is what the comments of  *)
(* repairDanglingToolUse and of the flushes in Turn say providers reject). *)
(* A call with an empty id is a call: "every tool_call" needs its answer.  *)
(***************************************************************************)

Calls(m) == m.kind = "reply" /\ m.ids # {}

\* Result message r answers every call of reply a and nothing else.
Answers(r, a) == r.kind = "result" /\ a.kind = "reply" /\ r.ids = a.ids

\* Message m may come right after message a.
MayFollow(a, m) == (Calls(a) \/ m.kind = "result") => Answers(m, a)

\* Every tool_use but one at the very end is answered by the message after
\* it, and every tool_result follows the tool_use it answers.
Paired(h) ==
    /\ h # << >> => h[1].kind # "result"
    /\ \A i \in 1 .. Len(h) - 1 : MayFollow(h[i], h[i + 1])

\* A history that ends with tool calls nobody answered.
Unanswered(h) == h # << >> /\ Calls(Final(h))

\* What may be sent to a provider.
Replayable(h) == Paired(h) /\ ~Unanswered(h)
=============================================================================
