---------------------------- MODULE RunLifecycle ----------------------------
(***************************************************************************)
(* A process of anyrun from its start to its exit status: cmd/anyrun's     *)
(* run, the events it writes to stdout (internal/emit), and between them   *)
(* the Turn of AgentTurn with the answers of the OpenAI adapter.  This is  *)
(* what the host sees of a run: a stream of events and a status.           *)
(*                                                                         *)
(* Every step of AgentTurn is here with the event that the code writes     *)
(* between the same two effects.  An event is one write; a write that      *)
(* fails leaves the encoder with its error, so that nothing is written     *)
(* after it.  (A closed pipe is no such failure: it kills the process.)    *)
(*                                                                         *)
(* Left out: texts and counts in events, and what the set-up consists of   *)
(* (the environment, files, stdin, and the MCP servers of ToolSupply).     *)
(***************************************************************************)
EXTENDS AgentTurn, OpenAIResponse

CONSTANTS
    Responses,     \* answers the provider may give
    StdoutMayFail  \* a write to stdout may fail

ASSUME LifecycleAssumption ==
    /\ Responses \subseteq Response
    /\ \A r \in Responses : r.calls \in Replies /\ ContextTokens(r) \in Sizes
    /\ StdoutMayFail \in BOOLEAN

VARIABLES
    stage,   \* where run() is; "none": there is no process
    stream,  \* the events the process, or the last one, has written
    broken,  \* the encoder has met an error
    last,    \* the last answer of the provider
    status   \* how the process ended

seen == <<stage, stream, broken, last, status>>
lifeVars == <<vars, seen>>

Stages == {"none", "arguments", "setup", "turn", "leave"}
Statuses == {"none", "ok", "failed", "usage", "killed"}

\* What the properties tell events apart by.
EventTypes ==
    {"init", "compact_start", "compact_boundary", "assistant", "results",
     "success", "error"}

Event ==
    [type : EventTypes, ids : SUBSET Ids,
     stop : {"none"} \cup StopReasons \cup WrapUps]

Plain(type) == [type |-> type, ids |-> {}, stop |-> "none"]
AssistantTurn(calls) == [type |-> "assistant", ids |-> calls, stop |-> "none"]
ToolResults(ids) == [type |-> "results", ids |-> ids, stop |-> "none"]
Result(reason) == [type |-> "success", ids |-> {}, stop |-> reason]
ResultError == Plain("error")

\* Writer.write returns nil, or an error, now or ever since an earlier one.
Emitted(e) == ~broken /\ stream' = Append(stream, e) /\ UNCHANGED broken
Lost == (broken \/ StdoutMayFail) /\ broken' = TRUE /\ UNCHANGED stream

\* An event whose error is not looked at.
Tried(e) == Emitted(e) \/ Lost

LifeInit ==
    /\ Init
    /\ stage = "none" /\ stream = << >> /\ broken = FALSE
    /\ last = NoResponse /\ status = "none"

-----------------------------------------------------------------------------
(* Before and after the turn.                                              *)

\* The host starts a process.
Start ==
    /\ stage = "none"
    /\ runs < MaxRuns
    /\ stage' = "arguments"
    /\ stream' = << >> /\ broken' = FALSE /\ last' = NoResponse /\ status' = "none"
    /\ UNCHANGED vars

\* An unknown flag, another format, no session: there is no writer yet.
RefuseArguments ==
    /\ stage = "arguments"
    /\ stage' = "none"
    /\ status' = "usage"
    /\ UNCHANGED <<vars, stream, broken, last>>

ParseArgs ==
    /\ stage = "arguments"
    /\ stage' = "setup"
    /\ UNCHANGED <<vars, stream, broken, last, status>>

\* A slip (see AgentTurn): an error of the set-up is returned as it is.
SetUpFailsQuietly ==
    /\ stage = "setup"
    /\ stage' = "leave"
    /\ status' = "failed"
    /\ UNCHANGED <<vars, stream, broken, last>>

SetUpFails ==
    /\ stage = "setup"
    /\ Tried(ResultError)
    /\ stage' = "leave"
    /\ status' = "failed"
    /\ UNCHANGED <<vars, last>>

Enter(kind) ==
    /\ stage = "setup"
    /\ Launch(kind)
    /\ Tried(Plain("init"))
    /\ stage' = "turn"
    /\ UNCHANGED <<last, status>>

\* A slip: what went wrong, or right, is reported on the way out.
LeaveReporting ==
    /\ stage = "leave"
    /\ Tried(IF status = "failed" THEN ResultError ELSE Result("end_turn"))
    /\ stage' = "none"
    /\ UNCHANGED <<vars, last, status>>

\* The deferred Close of the MCP servers, and the exit.
Leave ==
    /\ stage = "leave"
    /\ stage' = "none"
    /\ UNCHANGED <<vars, stream, broken, last, status>>

-----------------------------------------------------------------------------
(* The turn, with what it shows.                                           *)

Unseen ==
    \/ LoadHistory \/ PersistRepair \/ Summarize \/ BackUp \/ Copy \/ Rename
    \/ RenameFails \/ Begin \/ HitCap \/ WindDown \/ TakeTurn \/ Flush
    \/ \E id \in Ids : CallTool(id)
    \/ TruncateMeta \/ WriteMeta

Work ==
    /\ stage = "turn"
    /\ Unseen
    /\ UNCHANGED seen

AnnounceCompaction ==
    /\ stage = "turn"
    /\ CheckContext
    /\ IF NeedsCompaction THEN Tried(Plain("compact_start")) ELSE UNCHANGED <<stream, broken>>
    /\ UNCHANGED <<stage, last, status>>

MarkBoundary ==
    /\ stage = "turn"
    /\ Reload
    /\ Tried(Plain("compact_boundary"))
    /\ UNCHANGED <<stage, last, status>>

\* A slip: the reply is recorded whether or not it could be shown.
AnswerUnchecked(r) ==
    /\ stage = "turn"
    /\ Chat(r.calls, ContextTokens(r))
    /\ Tried(AssistantTurn(r.calls))
    /\ last' = r
    /\ UNCHANGED <<stage, status>>

\* The reply is shown, and becomes a message.
Answer(r) ==
    /\ stage = "turn"
    /\ Chat(r.calls, ContextTokens(r))
    /\ Emitted(AssistantTurn(r.calls))
    /\ last' = r
    /\ UNCHANGED <<stage, status>>

ShowResults ==
    /\ stage = "turn"
    /\ GiveResults
    /\ Emitted(ToolResults(Final(msgs).ids))
    /\ UNCHANGED <<stage, last, status>>

\* The reason is the run's when it was cut short, the provider's otherwise.
ReportedStop == IF stop = "end_turn" THEN StopReason(last) ELSE stop

Finish ==
    /\ stage = "turn"
    /\ Report
    /\ Emitted(Result(ReportedStop))
    /\ stage' = "leave"
    /\ status' = "ok"
    /\ UNCHANGED last

\* Loading, Chat or a write to the session fails.
FailTurn ==
    /\ stage = "turn"
    /\ Unloadable \/ FailInWrite \/ (pc \in {"chat", "flush"} /\ Fail)
    /\ Tried(ResultError)
    /\ stage' = "leave"
    /\ status' = "failed"
    /\ UNCHANGED last

\* An event that the turn insists on is not written, nor is the error then.
FailUnheard ==
    /\ stage = "turn"
    /\ pc \in {"chat", "tools", "report"} /\ Fail
    /\ Lost
    /\ stage' = "leave"
    /\ status' = "failed"
    /\ UNCHANGED last

\* SIGKILL; the host knows, and keeps what it has read.
Die ==
    /\ stage # "none"
    /\ IF stage = "turn" THEN Kill \/ KillInWrite ELSE UNCHANGED vars
    /\ stage' = "none"
    /\ status' = "killed"
    /\ UNCHANGED <<stream, broken, last>>

Elapse ==
    /\ stage = "turn"
    /\ Tick
    /\ UNCHANGED seen

-----------------------------------------------------------------------------
Running ==
    \/ RefuseArguments \/ ParseArgs \/ SetUpFails
    \/ \E kind \in Inputs : Enter(kind)
    \/ Work \/ AnnounceCompaction \/ MarkBoundary
    \/ \E r \in Responses : Answer(r)
    \/ ShowResults \/ Finish \/ FailTurn \/ FailUnheard \/ Leave

LifeNext == Start \/ Running \/ Die \/ Elapse

LifeSpec == LifeInit /\ [][LifeNext]_lifeVars

\* The process waits for other programs, and has set itself no limit: for the
\* end of stdin and for MCP servers to come up (pool.go:48-93), for a tool
\* (pool.go:135, builtin.go:277), for the servers to go (pool.go:156).
Waiting == stage \in {"setup", "leave"} \/ (pc = "tools" /\ todo # {})

\* A process that does not wait for others takes its next step: the provider
\* answers or the HTTP client gives up after ten minutes (openai.go:170), and
\* the host reads what is written.
FairLifeSpec == LifeSpec /\ WF_lifeVars(Running /\ ~Waiting)

-----------------------------------------------------------------------------
(* What is checked.                                                        *)

\* Every variable has values of its kind, and there is a turn in its stage only.
LifeTypeOK ==
    /\ TypeOK
    /\ stage \in Stages /\ stream \in Seq(Event) /\ broken \in BOOLEAN
    /\ last \in Response /\ status \in Statuses
    /\ (stage = "turn") <=> (pc # "idle")

IsResult(e) == e.type \in {"success", "error"}

\* A process writes at most one result event, and nothing after it: the host
\* takes the line for the end of the run.
ResultIsLast ==
    \A i \in 1 .. Len(stream) : IsResult(stream[i]) => i = Len(stream)

EndsWith(type) == stream # << >> /\ Final(stream).type = type

\* The status and the stream tell the same story ("error result event on
\* stdout, message on stderr, non-zero exit"), unless stdout is broken: a
\* success is told before the process may end well, a failure of the set-up or
\* of the turn as an error, and no success is told of a run that failed.
StatusTold ==
    /\ (stage = "none" /\ status = "ok") => EndsWith("success")
    /\ (stage = "none" /\ status = "failed") => (broken \/ EndsWith("error"))
    /\ EndsWith("success") => status \in {"ok", "killed"}

\* What the host reads as "end_turn" is a reply the model itself ended, with no
\* call that decodes, and the record ends with it: a reply that was cut off by
\* its length, or by a filter, or that asks for a tool that can be called, does
\* not pass for a finished one.  (Calls that do not decode are skipped: a reply
\* that has no others passes, but only if the provider itself says "stop".)
EndTurnIsWhole ==
    (EndsWith("success") /\ Final(stream).stop = "end_turn") =>
        /\ last.finish \in {"stop", ""}
        /\ last.calls = {}
        /\ Loaded(disk) # << >> /\ Final(Loaded(disk)) = Reply({})

\* The replies and results among events, as messages.
StepsOf(events) ==
    LET upTo[n \in 0 .. Len(events)] ==
            IF n = 0 THEN << >>
            ELSE IF events[n].type = "assistant"
            THEN Append(upTo[n - 1], Reply(events[n].ids))
            ELSE IF events[n].type = "results"
            THEN Append(upTo[n - 1], Results(events[n].ids))
            ELSE upTo[n - 1]
    IN  upTo[Len(events)]

\* What the host was shown of this run.
Steps == StepsOf(stream)

\* The file ends with the first n steps of this run, behind its user message.
OnRecord(n) ==
    LET h == Loaded(disk)
    IN  n > 0 =>
          /\ Len(h) > n
          /\ h[Len(h) - n].kind \in Inputs
          /\ SubSeq(h, Len(h) - n + 1, Len(h)) = SubSeq(Steps, 1, n)

\* The record of a run, if it can be read, is what the host was shown of it,
\* step by step: all of it when tools run or the run reports, and all but the
\* last step when the process ends, or is, in the middle of writing one.
StreamOnRecord ==
    \/ ~Loadable(disk)
    \/ OnRecord(Len(Steps))
    \/ /\ Steps # << >>
       /\ pc = "flush" \/ status \in {"failed", "killed"}
       /\ OnRecord(Len(Steps) - 1)

\* Every process comes to an end, whatever fails in it, unless it waits for
\* another program for ever: no failure is tried again and again.
EveryStartEnds == <>[]Waiting \/ ((stage # "none") ~> (stage = "none"))

\* Whatever kills and torn metadata came before, a run that ends well leaves
\* the size of its own last context to the next one's check ("A corrupt meta
\* file only degrades compaction timing", meta.go:38).
MetaHeals ==
    (stage = "leave" /\ status = "ok") => meta.tokens = ContextTokens(last)
=============================================================================
