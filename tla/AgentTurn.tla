----------------------------- MODULE AgentTurn -----------------------------
(***************************************************************************)
(* The runs of anyrun on one session: internal/loop.Turn with the session  *)
(* store, the metadata file and the compaction it drives, and the host     *)
(* that starts a process per message and may kill it at any moment.        *)
(*                                                                         *)
(* One process at a time.  A step is what lies between two effects another *)
(* run can see: a write to a file, a rename, an answer of the provider, a  *)
(* call of a tool.  Memory is lost when the process ends.                  *)
(*                                                                         *)
(* Time is counted in units of wrapUpReserve (90 s).  Left out: texts,     *)
(* token sums of the result, several runs at once.  The events that a run  *)
(* writes are in RunLifecycle.                                             *)
(*                                                                         *)
(* A definition called a slip is no part of the system: it is what another *)
(* would be with a plausible mistake in it, and some property must notice. *)
(***************************************************************************)
EXTENDS Compaction, SessionFile

CONSTANTS
    Histories,   \* what the session file may hold before the first run
    Inputs,      \* kinds of user messages the host sends
    Replies,     \* sets of call ids a reply of the provider may carry
    Sizes,       \* context sizes a reply may report, in tokens
    TokenLimit,  \* ContextWindow * CompactAt, 0: compaction is off
    MaxTurns,    \* --max-turns, 0: no limit
    TimeBudget,  \* ANYRUN_TIME_BUDGET in units of 90 s, 0: none
    MaxRuns,     \* how many runs the host starts
    Faults       \* what may go wrong beside a kill between two steps

(***************************************************************************)
(* "read"    reading the session file fails though its content is sound    *)
(* "torn"    a kill (or a full disk) inside the write of one line          *)
(* "split"   a kill (or an error) between two lines of one Append          *)
(* "repair"  persisting the repair of a dangling tool_use fails            *)
(* "rewrite" a step of compact.Rewrite fails                               *)
(* "meta"    writing the metadata file fails                               *)
(***************************************************************************)
FaultKinds == {"read", "torn", "split", "repair", "rewrite", "meta"}

ASSUME TurnAssumption ==
    /\ Histories \subseteq { h \in Seq(Message) : Paired(h) }
    /\ Inputs \subseteq {"request", "media"}
    /\ Replies \subseteq SUBSET Ids
    /\ Sizes \subseteq Nat
    /\ TokenLimit \in Nat /\ MaxTurns \in Nat /\ TimeBudget \in Nat
    /\ MaxRuns \in Nat
    /\ Faults \subseteq FaultKinds

wrapUpTurns == 2
wrapUpReserve == 1
minTurnsForWrapUp == 5
minBudgetForWrapUp == 2

VARIABLES
    disk,     \* <id>.jsonl
    backup,   \* <id>.jsonl.pre-compact
    meta,     \* <id>.meta.json: [tokens, count] (ContextTokens, CompactCount)
    pc,       \* where the process is; "idle": there is none
    input,    \* userMsg
    msgs,     \* the history as loaded, then what the provider is shown
    pending,  \* messages not yet written
    mem,      \* the metadata in memory
    noted,    \* the resume note was put before the user message
    turn,     \* turns begun
    wrapUp,   \* wrapUpWhy
    offered,  \* the request of this turn carries the tools
    todo,     \* calls of the last reply not yet executed
    elapsed,  \* time since the process started
    stop,     \* the stop reason to report
    runs,     \* runs started so far
    outcome,  \* how the last run ended
    folds     \* renames that replaced the file by a compacted one

files == <<disk, backup, meta>>
history == <<runs, outcome, folds>>
memory == <<input, msgs, pending, mem, noted, turn, wrapUp, offered, todo, elapsed, stop>>
vars == <<files, pc, memory, history>>

Metas == [tokens : Nat, count : Nat]
NoMeta == [tokens |-> 0, count |-> 0]

Init ==
    /\ disk \in { FileOf(h) : h \in Histories }
    /\ backup = EmptyFile
    /\ meta = NoMeta
    /\ pc = "idle"
    /\ input = "request" /\ msgs = << >> /\ pending = << >> /\ mem = NoMeta
    /\ noted = FALSE /\ turn = 0 /\ wrapUp = "none" /\ offered = FALSE
    /\ todo = {} /\ elapsed = 0 /\ stop = "none"
    /\ runs = 0 /\ outcome = "none" /\ folds = 0

\* The process ends; what it had in memory goes with it.
Exit(how) ==
    /\ pc' = "idle"
    /\ outcome' = how
    /\ input' = "request" /\ msgs' = << >> /\ pending' = << >> /\ mem' = NoMeta
    /\ noted' = FALSE /\ turn' = 0 /\ wrapUp' = "none" /\ offered' = FALSE
    /\ todo' = {} /\ elapsed' = 0 /\ stop' = "none"
    /\ UNCHANGED <<runs, folds>>

-----------------------------------------------------------------------------
(* Starting: load, repair, and perhaps compact.                            *)

Launch(kind) ==
    /\ pc = "idle"
    /\ runs < MaxRuns
    /\ pc' = "load"
    /\ input' = kind
    /\ runs' = runs + 1
    /\ outcome' = "none"
    /\ UNCHANGED <<files, msgs, pending, mem, noted, turn, wrapUp, offered,
                   todo, elapsed, stop, folds>>

\* A slip: the history is not looked at for calls without results.
LoadHistoryUnrepaired ==
    /\ pc = "load"
    /\ Loadable(disk)
    /\ msgs' = Loaded(disk)
    /\ mem' = meta
    /\ pc' = "check"
    /\ UNCHANGED <<files, input, pending, noted, turn, wrapUp, offered, todo,
                   elapsed, stop, history>>

LoadHistory ==
    /\ pc = "load"
    /\ Loadable(disk)
    /\ msgs' = Loaded(disk)
    /\ mem' = meta
    /\ pc' = IF Dangling(Loaded(disk)) THEN "repair" ELSE "check"
    /\ UNCHANGED <<files, input, pending, noted, turn, wrapUp, offered, todo,
                   elapsed, stop, history>>

\* A slip: the repair stays in memory.
PersistRepairUnsaved ==
    /\ pc = "repair"
    /\ msgs' = Append(msgs, Closing(msgs))
    /\ noted' = TRUE
    /\ pc' = "check"
    /\ UNCHANGED <<files, input, pending, mem, turn, wrapUp, offered, todo,
                   elapsed, stop, history>>

\* "persist repair" may fail: the run goes on with the repaired view, and the
\* file is without it, or with a part of its line.
PersistRepair ==
    /\ pc = "repair"
    /\ \/ disk' = Put(disk, Closing(msgs))
       \/ "repair" \in Faults /\ disk' = disk
       \/ {"repair", "torn"} \subseteq Faults /\ disk' \in TornPuts(disk, Closing(msgs))
    /\ msgs' = Append(msgs, Closing(msgs))
    /\ noted' = TRUE
    /\ pc' = "check"
    /\ UNCHANGED <<backup, meta, input, pending, mem, turn, wrapUp, offered,
                   todo, elapsed, stop, history>>

NeedsCompaction ==
    /\ TokenLimit > 0
    /\ mem.tokens > TokenLimit
    /\ CutIndex(msgs) # {}

CheckContext ==
    /\ pc = "check"
    /\ pc' = IF NeedsCompaction THEN "summarize" ELSE "begin"
    /\ UNCHANGED <<files, memory, history>>

\* The provider fails, or answers without text: on with the big context.
Summarize ==
    /\ pc = "summarize"
    /\ pc' \in {"backup", "begin"}
    /\ UNCHANGED <<files, memory, history>>

\* A slip: a compaction that failed is tried again.
BackUpRetried ==
    /\ pc = "backup"
    /\ \/ backup' = EmptyFile /\ pc' = "copy"
       \/ "rewrite" \in Faults /\ backup' = backup /\ pc' = "summarize"
    /\ UNCHANGED <<disk, meta, memory, history>>

\* Rewrite has the new content in a temporary file (which nothing reads, and
\* the next Rewrite truncates) and copies the old one, beginning with a
\* truncation of the copy's file.  A part of a copy is taken for none.
BackUp ==
    /\ pc = "backup"
    /\ \/ backup' = EmptyFile /\ pc' = "copy"
       \/ "rewrite" \in Faults /\ backup' = backup /\ pc' = "begin"
    /\ UNCHANGED <<disk, meta, memory, history>>

\* A slip: the error of the copy is not looked at.
CopyUnchecked ==
    /\ pc = "copy"
    /\ \/ backup' = disk
       \/ "rewrite" \in Faults /\ backup' = backup
    /\ pc' = "rename"
    /\ UNCHANGED <<disk, meta, memory, history>>

Copy ==
    /\ pc = "copy"
    /\ \/ backup' = disk /\ pc' = "rename"
       \/ "rewrite" \in Faults /\ backup' = backup /\ pc' = "begin"
    /\ UNCHANGED <<disk, meta, memory, history>>

\* A slip: the tail is kept without the summary.
RenameWithoutSummary ==
    /\ pc = "rename"
    /\ \E cut \in CutIndex(msgs) : disk' = FileOf(SubSeq(msgs, cut + 1, Len(msgs)))
    /\ folds' = folds + 1
    /\ pc' = "reload"
    /\ UNCHANGED <<backup, meta, memory, runs, outcome>>

Rename ==
    /\ pc = "rename"
    /\ \E cut \in CutIndex(msgs) : disk' = FileOf(Folded(msgs, cut))
    /\ folds' = folds + 1
    /\ pc' = "reload"
    /\ UNCHANGED <<backup, meta, memory, runs, outcome>>

RenameFails ==
    /\ pc = "rename"
    /\ "rewrite" \in Faults
    /\ pc' = "begin"
    /\ UNCHANGED <<files, memory, history>>

Reload ==
    /\ pc = "reload"
    /\ Loadable(disk)
    /\ msgs' = Loaded(disk)
    /\ mem' = [mem EXCEPT !.count = @ + 1]
    /\ pc' = "begin"
    /\ UNCHANGED <<files, input, pending, noted, turn, wrapUp, offered, todo,
                   elapsed, stop, history>>

\* A slip: a history that ends in results is not announced.
BeginUnannounced ==
    /\ pc = "begin"
    /\ noted' = noted
    /\ msgs' = Append(IF noted' THEN Append(msgs, Said("note")) ELSE msgs, Said(input))
    /\ pending' = << Said(input) >>
    /\ pc' = "turn"
    /\ UNCHANGED <<files, input, mem, turn, wrapUp, offered, todo, elapsed,
                   stop, history>>

\* A slip: the user message is written as soon as it is there.
BeginWriting ==
    /\ pc = "begin"
    /\ noted' = (noted \/ CutShort(msgs))
    /\ msgs' = Append(IF noted' THEN Append(msgs, Said("note")) ELSE msgs, Said(input))
    /\ disk' = Put(disk, Said(input))
    /\ pending' = << >>
    /\ pc' = "turn"
    /\ UNCHANGED <<backup, meta, input, mem, turn, wrapUp, offered, todo,
                   elapsed, stop, history>>

\* What is said before the first turn: the note, when work is unfinished, and
\* the user message, which is to be written with the first reply.
Begin ==
    /\ pc = "begin"
    /\ noted' = (noted \/ CutShort(msgs))
    /\ msgs' = Append(IF noted' THEN Append(msgs, Said("note")) ELSE msgs, Said(input))
    /\ pending' = << Said(input) >>
    /\ pc' = "turn"
    /\ UNCHANGED <<files, input, mem, turn, wrapUp, offered, todo, elapsed,
                   stop, history>>

-----------------------------------------------------------------------------
(* One turn: the cap and the wind-down, a reply, its calls, their results. *)

\* A slip: the turns reserved for the wind-down are not taken off the cap.
wrapUpReasonLate ==
    IF MaxTurns > minTurnsForWrapUp /\ turn >= MaxTurns
    THEN "max_turns"
    ELSE IF TimeBudget > minBudgetForWrapUp /\ elapsed >= TimeBudget - wrapUpReserve
    THEN "time_budget"
    ELSE "none"

wrapUpReason ==
    IF MaxTurns > minTurnsForWrapUp /\ turn >= MaxTurns - wrapUpTurns
    THEN "max_turns"
    ELSE IF TimeBudget > minBudgetForWrapUp /\ elapsed >= TimeBudget - wrapUpReserve
    THEN "time_budget"
    ELSE "none"

AtCap == MaxTurns > 0 /\ turn >= MaxTurns

\* A slip: the provider's word for a limit is reported.
HitCapRaw ==
    /\ pc = "turn"
    /\ AtCap
    /\ stop' = "length"
    /\ pc' = "save"
    /\ UNCHANGED <<files, input, msgs, pending, mem, noted, turn, wrapUp,
                   offered, todo, elapsed, history>>

HitCap ==
    /\ pc = "turn"
    /\ AtCap
    /\ stop' = "max_turns"
    /\ pc' = "save"
    /\ UNCHANGED <<files, input, msgs, pending, mem, noted, turn, wrapUp,
                   offered, todo, elapsed, history>>

\* The note is given once, and the tools are withheld from that request.
WindDown ==
    /\ pc = "turn"
    /\ ~AtCap
    /\ wrapUpReason # "none" /\ wrapUp = "none"
    /\ wrapUp' = wrapUpReason
    /\ msgs' = Append(msgs, Said("note"))
    /\ offered' = FALSE
    /\ pc' = "chat"
    /\ UNCHANGED <<files, input, pending, mem, noted, turn, todo, elapsed,
                   stop, history>>

TakeTurn ==
    /\ pc = "turn"
    /\ ~AtCap
    /\ wrapUpReason = "none" \/ wrapUp # "none"
    /\ offered' = TRUE
    /\ pc' = "chat"
    /\ UNCHANGED <<files, input, msgs, pending, mem, noted, turn, wrapUp, todo,
                   elapsed, stop, history>>

\* A slip: nothing is written before the tools run.
ChatUnwritten(calls, size) ==
    /\ pc = "chat"
    /\ msgs' = Append(msgs, Reply(calls))
    /\ pending' = Append(pending, Reply(calls))
    /\ mem' = [mem EXCEPT !.tokens = size]
    /\ todo' = calls
    /\ pc' = IF calls = {} THEN "flush" ELSE "tools"
    /\ UNCHANGED <<files, input, noted, turn, wrapUp, offered, elapsed, stop,
                   history>>

\* A slip: a context that has grown is not taken back when it shrinks.
ChatKeepingLargest(calls, size) ==
    /\ pc = "chat"
    /\ msgs' = Append(msgs, Reply(calls))
    /\ pending' = Append(pending, Reply(calls))
    /\ mem' = [mem EXCEPT !.tokens = IF size > @ THEN size ELSE @]
    /\ todo' = calls
    /\ pc' = "flush"
    /\ UNCHANGED <<files, input, noted, turn, wrapUp, offered, elapsed, stop,
                   history>>

\* A slip: the answer that ends a run is not written.
ChatUnflushed(calls, size) ==
    /\ pc = "chat"
    /\ msgs' = Append(msgs, Reply(calls))
    /\ pending' = Append(pending, Reply(calls))
    /\ mem' = [mem EXCEPT !.tokens = size]
    /\ todo' = calls
    /\ pc' = IF calls = {} THEN "save" ELSE "flush"
    /\ stop' = IF calls = {} THEN "end_turn" ELSE stop
    /\ UNCHANGED <<files, input, noted, turn, wrapUp, offered, elapsed, history>>

\* The provider may call tools it was not offered; nothing here stops it.
Chat(calls, size) ==
    /\ pc = "chat"
    /\ msgs' = Append(msgs, Reply(calls))
    /\ pending' = Append(pending, Reply(calls))
    /\ mem' = [mem EXCEPT !.tokens = size]
    /\ todo' = calls
    /\ pc' = "flush"
    /\ UNCHANGED <<files, input, noted, turn, wrapUp, offered, elapsed, stop,
                   history>>

\* flush, one line at a time: more to write, or on to what the loop does
\* after a reply without calls, a reply with calls, results.
WriteLine ==
    /\ pc = "flush"
    /\ disk' = Put(disk, Head(pending))
    /\ pending' = Tail(pending)
    /\ UNCHANGED <<backup, meta, input, msgs, mem, noted, wrapUp, offered,
                   todo, elapsed, history>>

Flush ==
    \/ /\ WriteLine
       /\ Len(pending) > 1
       /\ UNCHANGED <<pc, turn, stop>>
    \/ /\ WriteLine
       /\ Len(pending) = 1 /\ Head(pending).kind = "reply" /\ todo = {}
       /\ stop' = IF wrapUp # "none" THEN wrapUp ELSE "end_turn"
       /\ pc' = "save"
       /\ UNCHANGED turn
    \/ /\ WriteLine
       /\ Len(pending) = 1 /\ Head(pending).kind = "reply" /\ todo # {}
       /\ pc' = "tools"
       /\ UNCHANGED <<turn, stop>>
    \/ /\ WriteLine
       /\ Len(pending) = 1 /\ Head(pending).kind = "result"
       /\ turn' = turn + 1
       /\ pc' = "turn"
       /\ UNCHANGED stop

\* A failing tool is a result like any other.
CallTool(id) ==
    /\ pc = "tools"
    /\ id \in todo
    /\ todo' = todo \ {id}
    /\ UNCHANGED <<files, pc, input, msgs, pending, mem, noted, turn, wrapUp,
                   offered, elapsed, stop, history>>

GiveResults ==
    /\ pc = "tools"
    /\ todo = {}
    /\ msgs' = Append(msgs, Results(Final(msgs).ids))
    /\ pending' = << Results(Final(msgs).ids) >>
    /\ pc' = "flush"
    /\ UNCHANGED <<files, input, mem, noted, turn, wrapUp, offered, todo,
                   elapsed, stop, history>>

-----------------------------------------------------------------------------
(* The end of a run.                                                       *)

\* os.WriteFile truncates, then writes.  An empty file reads as NoMeta.
TruncateMeta ==
    /\ pc = "save"
    /\ \/ meta' = NoMeta /\ pc' = "meta"
       \/ "meta" \in Faults /\ meta' = meta /\ pc' = "report"
    /\ UNCHANGED <<disk, backup, memory, history>>

WriteMeta ==
    /\ pc = "meta"
    /\ \/ meta' = mem
       \/ "meta" \in Faults /\ meta' = meta
    /\ pc' = "report"
    /\ UNCHANGED <<disk, backup, memory, history>>

Report ==
    /\ pc = "report"
    /\ Exit(stop)
    /\ UNCHANGED files

\* The file does not load, for what is in it or for an error of the system:
\* the run ends before it asks anything of the model.
Unloadable ==
    /\ pc \in {"load", "reload"}
    /\ Loadable(disk) => "read" \in Faults
    /\ Exit("unread")
    /\ UNCHANGED files

\* Some lines of an Append are written and others are not.  Only the first
\* one of a run, userMsg with the first reply, has more than one.
BetweenLines ==
    /\ pc = "flush"
    /\ turn = 0
    /\ Len(pending) = 1 /\ Head(pending).kind = "reply"

\* Chat, or writing an event or a line, fails: Turn returns the error, and
\* what is pending is not written.
Fail ==
    /\ pc \in {"chat", "flush", "report"} \/ (pc = "tools" /\ todo = {})
    /\ BetweenLines => "split" \in Faults
    /\ Exit("error")
    /\ UNCHANGED files

\* The write of a line fails half-way: Turn returns that error.
FailInWrite ==
    /\ pc = "flush"
    /\ "torn" \in Faults
    /\ BetweenLines => "split" \in Faults
    /\ disk' \in TornPuts(disk, Head(pending))
    /\ Exit("error")
    /\ UNCHANGED <<backup, meta>>

\* SIGKILL, between two steps.
Kill ==
    /\ pc # "idle"
    /\ BetweenLines => "split" \in Faults
    /\ Exit("killed")
    /\ UNCHANGED files

\* SIGKILL inside the write of a line.
KillInWrite ==
    /\ "torn" \in Faults
    /\ BetweenLines => "split" \in Faults
    /\ \/ pc = "repair" /\ disk' \in TornPuts(disk, Closing(msgs))
       \/ pc = "flush" /\ disk' \in TornPuts(disk, Head(pending))
    /\ Exit("killed")
    /\ UNCHANGED <<backup, meta>>

Tick ==
    /\ pc # "idle"
    /\ elapsed < TimeBudget
    /\ elapsed' = elapsed + 1
    /\ UNCHANGED <<files, pc, input, msgs, pending, mem, noted, turn, wrapUp,
                   offered, todo, stop, history>>

-----------------------------------------------------------------------------
Starting ==
    \/ LoadHistory \/ PersistRepair \/ CheckContext \/ Summarize \/ BackUp
    \/ Copy \/ Rename \/ RenameFails \/ Reload \/ Unloadable \/ Begin

Turning ==
    \/ HitCap \/ WindDown \/ TakeTurn
    \/ \E calls \in Replies, size \in Sizes : Chat(calls, size)
    \/ Flush
    \/ \E id \in Ids : CallTool(id)
    \/ GiveResults

Ending == TruncateMeta \/ WriteMeta \/ Report

Process == Starting \/ Turning \/ Ending

Next ==
    \/ \E kind \in Inputs : Launch(kind)
    \/ Process
    \/ Fail \/ FailInWrite \/ Kill \/ KillInWrite \/ Tick

Spec == Init /\ [][Next]_vars

-----------------------------------------------------------------------------
(* What is checked.                                                        *)

PCs == {"idle", "load", "repair", "check", "summarize", "backup", "copy",
        "rename", "reload", "begin", "turn", "chat", "flush", "tools", "save",
        "meta", "report"}

WrapUps == {"none", "max_turns", "time_budget"}

FilesOK == disk \in File /\ backup \in File /\ meta \in Metas

MessagesOK ==
    /\ msgs \in Seq(Message)
    /\ pending \in Seq(Message)
    /\ todo \in SUBSET Ids

CountersOK ==
    /\ mem \in Metas
    /\ turn \in Nat /\ elapsed \in Nat
    /\ runs \in Nat /\ folds \in Nat

FlagsOK == noted \in BOOLEAN /\ offered \in BOOLEAN

LabelsOK ==
    /\ pc \in PCs
    /\ input \in {"request", "media"}
    /\ wrapUp \in WrapUps
    /\ stop \in WrapUps \cup {"end_turn"}
    /\ outcome \in WrapUps \cup {"end_turn", "unread", "error", "killed"}

\* Every variable has values of its kind.
TypeOK == FilesOK /\ MessagesOK /\ CountersOK /\ FlagsOK /\ LabelsOK

\* Whatever was killed when, a request never shows the provider a tool call
\* without its result or a result without its call: it would be refused, and
\* the session with it (repairDanglingToolUse, the flush order of Turn).  The
\* same of the request for a summary, which shows a part of the history.  It
\* needs that the repair is persisted (repair_not_saved) and that every call
\* has an id (unnamed_call).
SafeToSend ==
    /\ pc = "chat" => Replayable(msgs)
    /\ pc = "summarize" => \A cut \in CutIndex(msgs) : Replayable(Older(msgs, cut))

\* The file, whenever it loads, holds calls and results in pairs, with at most
\* the very last reply unanswered: the one shape the next run repairs.
FilePaired == Loadable(disk) => Paired(Loaded(disk))

\* While tools run, the reply that asks for them is the last line of the file
\* ("written before the tools run").
CallsOnRecord ==
    pc = "tools" =>
        /\ disk.lines # << >>
        /\ Final(disk.lines) = Final(msgs)
        /\ todo \subseteq Final(disk.lines).ids

AnsweredAt(h, i) == i < Len(h) /\ h[i + 1].kind = "reply"

\* A user message is never on record alone: a run that dies before the model
\* answers leaves no trace, and a retry does not duplicate the message.
RequestsAnswered ==
    pc # "flush" =>
        \A i \in 1 .. Len(disk.lines) :
            disk.lines[i].kind \in {"request", "media"} => AnsweredAt(disk.lines, i)

\* The last word of the model on record is a call of tools, not an answer.
Unfinished(h) ==
    \E i \in 1 .. Len(h) :
        /\ h[i].kind = "reply" /\ h[i].ids # {}
        /\ \A j \in i + 1 .. Len(h) : h[j].kind # "reply"

\* The first request of a run carries the resume note exactly when the record
\* shows unfinished work, also after a repair or a compaction.
ResumeAnnounced ==
    (pc = "chat" /\ turn = 0) => (noted <=> Unfinished(Loaded(disk)))

\* What a run is about to report is on record: its answer, given freely or
\* wound down, or the results after which the cap stopped it.  What the host
\* takes as done, and what the next run reads, is then an answer.
AnswerOnRecord ==
    LET h == Loaded(disk)
    IN  /\ pc = "report" => h # << >> /\ Final(h) = Final(msgs)
        /\ outcome \in {"end_turn", "time_budget"} => h # << >> /\ Final(h) = Reply({})

\* The hard stop at the cap is a last resort: unless the cap is tiny, the
\* model was told to conclude before, in a request that offered it no tools
\* ("Withdrawing the tools is what makes the wind-down reliable", loop.go:274).
\* A model that calls one all the same is offered them again for what is left.
WarnedBeforeCap ==
    /\ (pc = "save" /\ stop = "max_turns" /\ MaxTurns > minTurnsForWrapUp)
           => wrapUp # "none"
    /\ (pc = "chat" /\ Final(msgs) = Said("note")) => ~offered

\* When a compacted file takes the place of the session's, the copy holds all
\* that the session's file held.
FoldKeepsOriginal == [][folds' # folds => backup = disk /\ backup' = disk]_vars

\* The file is a Transcript: it grows by messages that may stand where they
\* are put, and shrinks only by a summary taking the place of its oldest part.
T == INSTANCE Transcript WITH log <- Loaded(disk)
TranscriptSpec == T!Spec

-----------------------------------------------------------------------------
(* What docs and comments say, and the runs refute.                        *)

\* A torn last line does not make the session unreadable ("Only a torn LAST
\* line is forgiven", store.go:84).
TornLineForgiven == Loadable(disk)
=============================================================================
