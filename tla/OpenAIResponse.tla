--------------------------- MODULE OpenAIResponse ---------------------------
(***************************************************************************)
(* What internal/provider/openai reads off the answer to a request: the    *)
(* tool calls, why the model stopped, and the size of the context.         *)
(*                                                                         *)
(* Left out: texts, names and arguments of calls.                          *)
(***************************************************************************)
EXTENDS Envelope

\* finish_reason, "" when the provider sends none.
FinishReasons == {"", "stop", "length", "tool_calls", "content_filter"}

(***************************************************************************)
(* calls are the tool calls that decode; undecoded says that there was one *)
(* that does not, which is skipped with a word on stderr.                  *)
(* prompt and completion are the provider's counts of tokens; hit and      *)
(* details are the two places where it may say how much was cached.        *)
(***************************************************************************)
Response ==
    [finish : FinishReasons, calls : SUBSET Ids, undecoded : BOOLEAN,
     prompt : Nat, completion : Nat, hit : Nat, details : Nat]

NoResponse ==
    [finish |-> "", calls |-> {}, undecoded |-> FALSE,
     prompt |-> 0, completion |-> 0, hit |-> 0, details |-> 0]

\* A slip (see AgentTurn): a reply that was cut off passes for a whole one.
normalizeStopLoose(reason) ==
    IF reason \in {"stop", "", "length"} THEN "end_turn" ELSE reason

\* Reasons other than these two pass through.
normalizeStop(reason) ==
    IF reason \in {"stop", ""} THEN "end_turn"
    ELSE IF reason = "length" THEN "max_tokens"
    ELSE reason

StopReasons == {"end_turn", "max_tokens", "tool_use", "tool_calls", "content_filter"}

\* A call that was skipped counts for nothing here.
StopReason(r) ==
    IF r.finish = "tool_calls" \/ r.calls # {}
    THEN "tool_use"
    ELSE normalizeStop(r.finish)

CacheRead(r) == IF r.hit = 0 THEN r.details ELSE r.hit

\* The provider's prompt count includes what was cached; the host adds the two.
InputTokens(r) ==
    IF r.prompt < CacheRead(r) THEN 0 ELSE r.prompt - CacheRead(r)

\* What Turn keeps for the next run's compaction check.
ContextTokens(r) == InputTokens(r) + CacheRead(r) + r.completion
=============================================================================
