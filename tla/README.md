# A verification project for anyrun

anyrun is an agent runner: a host program starts one process per user message,
the process talks to a chat API, executes the tools the model asks for, writes
the conversation to a session file step by step, and ends with one result. The
host kills it (SIGKILL) when its own deadline expires, and starts it again later
on the same session. What is hard about the program is therefore not
concurrency inside a process (there is none: `loop.Turn` is one thread) but what
one process leaves behind for the next one: a file that may end anywhere, a
history that a provider must still accept, and work that must be neither lost
nor repeated.

This directory holds TLA+ modules of that behaviour, TLC configurations that
check it on small instances, and proofs of its main properties for every value
of the constants.

To repeat everything, in this directory:

    tlc -workers 2 -config turn_record.cfg MCTurn     # any run of the table below
    tlapm AgentTurnProofs.tla                         # any of the proof modules

## 1. The system

### Components

| Component | Source | State | Operations | Correct when |
| --- | --- | --- | --- | --- |
| agent loop | `internal/loop/loop.go` | history in memory, pending messages, turn number, clock, wind-down reason | `Turn`: load, repair, note, compaction, then per turn cap / wind-down / Chat / flush / tools / flush, then metadata and result | every request is one a provider accepts; calls are recorded before they run; a user message is recorded only with its answer; unfinished work is announced to the model; the run ends |
| session store | `internal/session/store.go` | `<id>.jsonl` | `Load` (forgives a torn last line), `Append` (one write per message) | what was written is what is read; a torn line costs that line only |
| session metadata | `internal/session/meta.go` | `<id>.meta.json`: context tokens, compaction count | `LoadMeta`, `SaveMeta` (truncate, write) | losing it costs a compaction, never a conversation |
| compaction | `internal/compact/compact.go` | temporary file, `<id>.jsonl.pre-compact` | `CutIndex`, `Summarize`, `Rewrite` (temporary file, copy, rename) | no call is cut from its result; the file is the old one or the new one; the original is kept |
| envelope | `internal/envelope/envelope.go` | none | decode of one message, content blocks kept verbatim | a stored message is the message received |
| MCP pool | `internal/mcpclient/pool.go`, `config.go` | clients, definitions, routes by full name | `Start`, `startWithClients`, `Call`, `Close` | a route leads to a live server that listed the tool; failed servers are closed; a run that was promised tools is not toolless |
| narrowing and dispatch | `cmd/anyrun/main.go` | the exposed set | `selectBuiltins`, `filterTools`, `dispatch` | what is hidden is never executed; what is offered is answered |
| built-in tools | `internal/builtin/builtin.go` | the files of the project | read (paged), edit (one snippet), write, list, bash | an edit hits the one place meant; a file is never a mixture; pages cover it; a command does not hold the run for ever |
| command line, run | `cmd/anyrun/main.go` | where the run is, exit status | `parseArgs`, set-up, `loop.Turn`, `ResultError`, deferred `Close` | every process ends; status and result event tell the same story |
| event writer | `internal/emit/emit.go` | stdout, the encoder's error | one line per event | the result line is the last one; what was shown is what is on record |
| provider, OpenAI adapter | `internal/provider/` | none | `Chat`: messages to the wire form, stop reasons and usage back | the wire form keeps the pairing of calls and results; a reply that was cut off is not reported as finished; the context is never counted too small |
| release workflow | `.github/workflows/release.yml` | none | build automation | not run-time behaviour |

### Interactions

* The **host** starts `anyrun` with a message on stdin and may kill it at any
  moment. A message whose run timed out is sent again, identical.
* `main.run` builds the tool set (built-ins, then MCP tools, then the filters)
  and calls **Turn**, which owns the rest of the run. Tools are called through
  `dispatch`, one after the other.
* Turn reads the **session file** once (again after a compaction) and from then
  on works with its copy in memory; the file is appended to at three places:
  the repair, the flush after a reply (with the user message on the first turn)
  and the flush after the results.
* The **metadata** file carries one number from the end of a run to the
  compaction check of the next.
* Notes (resume, wind-down) exist in memory only.

### What is hard here

* A kill between any two effects, and inside the write of a line; a write that
  fails; then another run on what is left, and another.
* The view in memory and the file are updated separately and disagree for
  stretches of a run: after a failed repair, after a note, between flushes.
* The check for unfinished work and the check for a dangling call look at the
  *last* message only. They are right as long as no other step puts something
  behind the message they look for.
* Compaction rewrites the history while its cut must respect the pairs, at
  sizes where a quarter is one message.
* Events and records alternate: a reply is shown before it is written, an answer
  is written before it is reported. Either may fail, or be the last thing a
  killed process did.
* The provider's stop reason and its tool calls may disagree, and one history
  message becomes several wire messages.
* `bash` starts processes that its timeout does not reach, and the writing tools
  truncate before they write.
* Two budgets (turns and time) and a note given once decide when the tools are
  withdrawn and what the run reports.
* MCP servers fail one by one, at start, at initialization, or at listing, in
  the order in which a map is ranged over.

The hazards, each at its line and with the properties that cover it, are listed
in `PROJECT.json`.

## 2. The modules

| Module | What it is | Extends |
| --- | --- | --- |
| `Envelope` | messages as kind and call ids; `repairDanglingToolUse`, `historyWasCutShort` as operators; which histories a provider accepts | |
| `SessionFile` | the JSONL file with torn lines: `Load`, `Append` | `Envelope` |
| `Compaction` | `CutIndex` and what `Rewrite` puts in place of a history | `Envelope` |
| `Transcript` | **abstract specification**: what a session promises, without files, processes or kills | `Compaction` |
| `AgentTurn` | **the core**: runs on one session, with kills and failures | `Compaction`, `SessionFile`; instantiates `Transcript` |
| `OpenAIRequest` | the wire messages the adapter makes of a history; which of them a provider accepts | `Envelope` |
| `Requests` | the transcripts anyrun writes and the first request a run makes of one, translated | `Transcript`, `OpenAIRequest` |
| `OpenAIResponse` | stop reason, calls and token counts read off an answer | `Envelope` |
| `RunLifecycle` | **the process**: `AgentTurn` from start to exit status, with every event and a stdout that may fail | `AgentTurn`, `OpenAIResponse` |
| `ToolSupply` | MCP start-up, narrowing, dispatch, closing | |
| `TextFile` | edits and pages of a text, as operators | |
| `BuiltinTools` | `edit_file`, `write_file`, `bash` on one file, with the processes a command leaves behind | `TextFile` |
| `MCTurn`, `MCLife`, `MCTranscript`, `MCTools`, `MCBuiltin` | values of the constants for TLC | the modules they are named for; `MCTranscript`: `Requests` |
| `RecordLemmas` | lemmas on histories and files | `Compaction`, `SessionFile` |
| `Induction` | induction over numbers, from a position back, and over sequences, stated of a set | |
| `AgentTurnProofs` | theorems about `AgentTurn`: types, pairing, copy, cap, and that it implements `Transcript` | `AgentTurn`, `RecordLemmas` |
| `RecordProofs` | theorems about what `AgentTurn` puts on record and when | `AgentTurnProofs` |
| `RunLifecycleProofs` | `RunLifecycle` implements `AgentTurn`; theorems about it and `OpenAIResponse` | `RunLifecycle`, `RecordProofs` |
| `TranscriptProofs` | theorems about `Transcript` and `Requests` | `Requests`, `RecordLemmas`, `Induction` |
| `ToolSupplyProofs`, `BuiltinProofs` | theorems about `ToolSupply` and `BuiltinTools` | the module; `BuiltinProofs` also `Induction` |

### Messages (`Envelope`)

A message keeps what the code tells messages apart by: role and type of the
first block (`kind`), and the ids of its `tool_use` or `tool_result` blocks. The
ids of a reply are a set: two calls with the same id count as one. The empty id
is the value `NoId`, which is one of `Ids` where a provider may leave ids out:
the loop executes and records such a call, and the repair skips it (loop.go:119).
`Paired` and `Replayable` are the one thing stated rather than translated: what
the comments of the code say a provider rejects. They speak of every call, those
without an id included.

### The file (`SessionFile`)

A file is a sequence of lines and a flag `open` (no newline at the end). A line
is a message or `Junk`. Appending to an open file joins the last line and the
new one into one undecodable line (`Put`), because `O_APPEND` continues where
the torn write stopped. A kill inside a write, or a write that fails half-way,
leaves a fragment, or the whole message without its newline (`TornPuts`).
`Loadable` is the rule of `Load`.

### One run (`AgentTurn`)

`pc` names the place in `Turn`; each action is the stretch between two effects
another run could see, or an answer from outside:

| Places | Code | Actions |
| --- | --- | --- |
| `load`, `repair`, `check` | loop.go:177-211 | `LoadHistory`, `Unloadable`, `PersistRepair`, `CheckContext` |
| `summarize` ... `reload` | loop.go:204-221, compact.go:57-144 | `Summarize`, `BackUp`, `Copy`, `Rename`, `RenameFails`, `Reload` |
| `begin` | loop.go:225-259 | `Begin` |
| `turn`, `chat` | loop.go:261-304 | `HitCap`, `WindDown`, `TakeTurn`, `Chat` |
| `flush`, `tools` | loop.go:244-254 and 300-343, store.go:97-120 | `Flush` (one line per step), `CallTool`, `GiveResults` |
| `save`, `meta`, `report` | loop.go:346-365, meta.go:46-59 | `TruncateMeta`, `WriteMeta`, `Report` |
| anywhere | loop.go:280-308, store.go:110-118, the host, the clock | `Fail`, `FailInWrite`; `Launch`, `Kill`, `KillInWrite`, `Tick` |

`Exit` forgets every variable that is memory; `disk`, `backup` and `meta` stay.
`folds` counts renames and exists only so that properties can speak of them.
Which failures may happen is the constant `Faults`, so that a run or a theorem
can say under which of them something holds:

| Fault | What it adds |
| --- | --- |
| (always) | a kill between two steps; `Chat`, an event or a write failing; a reply that calls tools it was not offered; summaries failing |
| `read` | opening or reading the session file fails though its content is sound |
| `split` | a kill or an error between the two lines of the first append |
| `torn` | a kill inside the write of one line, or a write that fails half-way |
| `repair` | persisting the repair fails (the code logs it and goes on) |
| `rewrite` | a step of `compact.Rewrite` fails |
| `meta` | writing the metadata fails (logged) |

### The process (`RunLifecycle`)

`stage` says where `main.run` is: `arguments`, `setup`, `turn`, `leave`. In
`turn`, every step is a step of `AgentTurn` together with the event the code
writes between the same two effects:

| Actions | Code | Event |
| --- | --- | --- |
| `Start`, `RefuseArguments`, `ParseArgs` | main.go:55-105, 317-322 | none: there is no writer yet |
| `SetUpFails` | main.go:107-184, 310-315 | error, best effort |
| `Enter` | main.go:188-189 | init, best effort |
| `AnnounceCompaction`, `MarkBoundary` | loop.go:203-221 | compact_start, compact_boundary, best effort |
| `Answer` | loop.go:280-304 | the reply; the run fails if it cannot be written |
| `ShowResults` | loop.go:333-340 | the results; likewise |
| `Finish` | loop.go:355-365 | success; likewise |
| `FailTurn`, `FailUnheard` (loading, `Chat`, a line, an event, a line written in part) | main.go:189-191 | error, best effort |
| `Leave`, `Die` | main.go:317-322, the host | none |

`Work` is every other step of the turn. An event is one write; the JSON encoder
keeps its first error, so after `Lost` nothing more is written (`broken`). A
closed pipe is not this case: it kills a Go process (SIGPIPE on stdout), which
is `Die`. `Answer` takes the reply from a set of provider responses and hands
`AgentTurn` its calls and its context size, computed as the adapter does.

### The adapter (`OpenAIRequest`, `OpenAIResponse`)

A wire message is its role and the ids it carries. `WireAccepted` is stated, not
translated: every `tool_call`, also one without an id, needs a `tool` message
before anything else comes, and every `tool` message a call. A response is its
`finish_reason`, the ids of the calls that decode, whether there was one that
does not (`undecoded`), and four token counts. `StopReason`, `InputTokens` and
`ContextTokens` are the arithmetic of `parseResponse` and of `loop.go`.

### Files and commands (`TextFile`, `BuiltinTools`)

`Found` is what `strings.Count` counts and `strings.Replace` replaces: places
that do not overlap, from the left. `Lines`, `Page` and `Joined` are the split,
the slice and the join of `read_file`. `BuiltinTools` runs one call at a time on
one file: a writing call opens (and so truncates) the file and then writes all
of it or a part; `bash` ends when its shell has exited **and** nobody holds its
output. Processes that a command left behind may write the file at any time; a
kill ends the process group, in the middle of a write too.

### Tools (`ToolSupply`)

Servers are tried in any order, may fail to connect, to initialize or to list;
each lists any subset of its tools. Names are values with a function `FullName`
for `mcp__<server>__<tool>`; that two servers' names could coincide is a matter
of that function. `Call` may be made with **any** name, offered or not.

### Slips

A definition introduced by "A slip" is not part of the system. It is the
definition after it with a plausible mistake (a dropped check, a swapped order,
an off-by-one). Substituting it must make the property it belongs to fail; this
is how each property was tested for being able to fail at all. The pairs are in
`PROJECT.json` under `mutants`.

## 3. What is checked

All runs are of small instances; the numbers are the bounds.

| Run | Instance | Checked |
| --- | --- | --- |
| `turn_record` | a new session and five histories of four to seven messages (one without a place to cut, one that is repaired first), 3 runs, 2 turns each, replies with 0, 1 or 2 calls, every call with an id, context below or above the threshold; every append whole; kills and failures between any other two steps, in reading the file, in writing the metadata and in every step of a compaction | `TypeOK`, `SafeToSend`, `CallsOnRecord`, `RequestsAnswered`, `ResumeAnnounced`, `FoldKeepsOriginal`, refinement of `Transcript` |
| `turn_torn` | new session, 3 runs of 2 turns, replies with 0 or 1 call, torn lines, split appends, compaction and a time budget of 3 units | `SafeToSend`, `FilePaired`, `CallsOnRecord` |
| `lifecycle` | a history that is repaired and then cut; 2 processes; cap of 6 turns, time budget of 3 units; six provider answers; every fault but `meta`; stdout may fail; fair process | `LifeTypeOK`, `ResultIsLast`, `StatusTold`, `EndTurnIsWhole`, `StreamOnRecord`, `WarnedBeforeCap`, `AnswerOnRecord`, `MetaHeals`, `EveryStartEnds` |
| `transcript` | every history of up to 6 messages that can be recorded, folded anywhere, every call with an id | `LogPaired`, `RepairAccepted`, `WireAgrees`, `CutKeepsTail`, `CutShortens` |
| `tools` | 2 servers of 2 tools, one full name in common, 96 narrowings, any order and combination of failures, any call | `TypeOK`, `RoutesLive`, `RanAsAllowed`, `OffersAnswered`, `OffersReachOwner`, `NoneLeftOpen` |
| `builtin` | every file of up to 3 characters out of two letters and the newline, grown by edits to 4; six snippets; overwrites, commands, two kinds of processes left behind; failing writes and kills; fair tool and clock | `TypeOK`, `EditReplaces`, `PagesCover`, `NoMixture`, `CallEnds` |

What they show, in the words of the code:

* **`SafeToSend`**: whatever was killed when, no request shows the provider a
  `tool_use` without its `tool_result` or the reverse. The request for a summary
  is included.
* **`FilePaired`**: nor does the file, up to a call at its very end.
* **`CallsOnRecord`**: "written before the tools run".
* **`RequestsAnswered`**: a user message is never on record alone.
* **`ResumeAnnounced`**: the first request of a run carries the resume note
  exactly when the last reply on record is a call of tools. The property looks
  through the whole record, the code at its last message; that they agree after
  repairs, compactions and kills is the content.
* **`AnswerOnRecord`**: what a run is about to report is the last message on
  record: its answer, given freely or wound down, or the results after which the
  cap stopped it; and after `end_turn` or `time_budget` the record ends with an
  answer.
* **`TranscriptSpec`**: the file grows only by messages that may stand where
  they are put and shrinks only by a summary taking the place of its oldest part.
* **`FoldKeepsOriginal`**: at the rename the copy holds all of the old file.
* **`MetaHeals`**: whatever kills and torn metadata came before, a run that ends
  well leaves the size of its own last context to the next run's check.
* **`WarnedBeforeCap`**: a run stopped by a cap of more than five turns had been
  told to conclude, in a request that offered no tools.
* **`EveryStartEnds`**: no failure, of a file or of stdout, makes a process go
  round for ever: it ends, unless it waits for another program for ever.
* **`ResultIsLast`**, **`StatusTold`**: one result event, nothing after it, and
  an exit status that agrees with it, unless stdout is broken.
* **`EndTurnIsWhole`**: what the host reads as `end_turn` is a reply that the
  model itself ended, with no call that decodes, and the record ends with it.
* **`StreamOnRecord`**: the replies and results the host was shown are, in order
  and at the end of the file, what the next run reads; a process that ends in
  the middle of writing a step may be one step behind, never more.
* **`CutKeepsTail`**, **`CutShortens`**: `CutIndex` on *every* valid history of
  the bounded length, not only those the loop produces.
* **`RepairAccepted`**: the repair, the note, the user message and the adapter
  together: the first request on every history is one a provider accepts, if
  every call in it has an id.
* **`WireAgrees`**: the adapter neither breaks nor mends pairing: a stretch of a
  history is accepted on the wire exactly when the loop's own rule
  (`Replayable`) lets it be sent. This ties the one stated rule of `Envelope` to
  the wire format.
* **`RoutesLive`**: `Pool.Call` takes the client of a route without looking.
* **`RanAsAllowed`**: what executes was found and is not hidden, whatever name
  is called.
* **`OffersAnswered`**, **`OffersReachOwner`**, **`NoneLeftOpen`**: no offered
  tool is "unknown", a call executes on a server that listed a tool under that
  name (the only one, unless two servers come to the same full name), and no
  started server outlives the run.
* **`EditReplaces`**: the text an edit writes differs from the file exactly at
  places where the snippet stood, which do not overlap, and none is left that
  could have been replaced as well; without `all` there is one.
* **`NoMixture`**: a file that only the call writes holds the new text when the
  call says ok, and otherwise the old text or a beginning of the new one.
* **`PagesCover`**: reading page by page until "past the end" yields the file.
* **`CallEnds`**: a call returns, unless a process that a command left behind
  holds its output.

### Why the bounds are enough

* *Runs.* What one run can leave behind, a second meets, and a third meets what
  the second made of it. Three runs are needed for a repair whose own record is
  interrupted; nothing is carried over but the three files.
* *Turns.* Two turns give a first flush (two lines), a later one (one line) and
  a continuation. Six is the smallest cap for which the wind-down is armed
  (`minTurnsForWrapUp` is 5), and three units of 90 s the smallest budget
  (`minBudgetForWrapUp` is 3 minutes, two units, and the test is strict).
* *Calls.* One and two, so that a result message with part of the calls is
  possible. In `unnamed_call`, the empty id alone and beside another.
* *Histories for compaction.* A history is cut from four messages on. The size
  that triggers a cut is reported by the run before, so the five histories,
  of four to seven messages, are cut after they have grown by what that run
  left on record, whole or interrupted; the run after it can cut again.
* *Answers.* Six: a whole one, one cut off by its length, calls announced as
  such and calls that are not, and a call that does not decode under each of the
  two; cached counts in either place, so that both branches of each choice are
  taken.
* *Processes.* Two: a process meets what another left; what a third adds is in
  `turn_record`.
* *Transcripts.* Six messages contain the sizes at which a quarter rounds to one
  and to two, and two folds in a row.
* *Servers.* Two are needed for "one fails, the other stays" and for a name in
  common, and two tools of a server for a route to be able to name the wrong one.
* *Texts.* Four characters hold a snippet of two twice, side by side or
  overlapping, and lines that are empty at the beginning, in the middle and at
  the end; page sizes go from one line to more than there are. An edit that
  would make the text longer than `MaxText` is not taken.

Deadlock is not checked: the system may stop when the host starts no more runs,
a run of the pool is over after `Close`, and a transcript at its bound may have
nothing to fold. In `builtin` there is always a next call.

### Fairness

`EveryStartEnds` is checked under `WF_lifeVars(Running /\ ~Waiting)`: a process
takes its next step unless it waits for other programs and has set itself no
limit. It so waits in the set-up (for the end of stdin, for MCP servers to come
up, pool.go:48-93), in a tool call (an MCP call has no deadline, pool.go:135;
`bash` waits for whoever holds its output, builtin.go:277, which `bash_holds_on`
shows) and in the deferred `Close` of the servers (pool.go:156). There nothing
is assumed, and the property excepts a process that stays there for ever. What
is assumed is that the provider answers or the HTTP client gives up after ten
minutes (openai.go:170), and that the host reads what is written. Weak fairness
does not make `Start`, `Die` or `Elapse` happen. The run sets `MaxTurns`; with
the default of 0 and no time budget a model that keeps calling tools keeps the
run going, by design.

`CallEnds` is checked under `WF_vars(Working)` and `WF_vars(Deadline)`: the tool
goes on where it can, the clock passes the deadline and the shell is then
killed. Nothing is assumed of commands and of what they leave behind; a command
that never ends is ended by the deadline.

## 4. Where code and documentation disagree

Six runs each refute one sentence of the repository's comments or README by a
trace of the model (`findings` in `PROJECT.json` quotes them):

| Run | What happens |
| --- | --- |
| `torn_line` | A run is killed inside a write. The next run forgives the torn line, appends its first message *behind it on the same line* and closes that with a newline. From then on every `Load` fails with "corrupt line". |
| `resume_unannounced` | A kill between the two lines of the first append leaves a user message behind unfinished work. The last message is then text, and the next run puts no resume note. |
| `repair_not_saved` | Persisting the repair fails and the run goes on, appending behind the dangling call. The next run sees no dangling end and sends a history with an unanswered call in its middle. |
| `unnamed_call` | A reply has a call without an id. The run is killed before the results, the repair looks at calls with an id only (loop.go:119), and the next request carries the call without its answer. |
| `toolless` | A server connects and does not initialize or list its tools, and no other connects or lists: those that did are skipped, and the run goes on without tools and without an error. |
| `bash_holds_on` | A command leaves a process behind that holds its output. The timeout kills `bash` and nothing else, and the call waits on; once `bash` has exited, the timeout does nothing at all. |

Noticed while reading, without a run of their own:

* loop.go:99-100 says the inserted result "is not persisted"; loop.go:189
  persists it.
* README.md says "the oldest quarter is summarised"; `CutIndex(history, 0.25)`
  keeps about the newest quarter and summarises the rest (compact.go:45,
  loop.go:204).
* README.md says a failure to start a configured MCP server is fatal; the pool
  skips a server and goes on with the others (pool.go:37-41).
* The compaction count is added to what the last run left and is lost when a run
  is killed before its end (loop.go:220), while the plan of 09-11 says it is
  overwritten and heals. Nothing in the program reads it. (The other number of
  the metadata does heal: `MetaHeals`.)
* Errors of the command line end the program without the result event the other
  failures write (main.go:102-105); the design document says of exit codes
  "non-zero on fatal error, with a `result` event".
* The tools are withdrawn for the one request that carries the wind-down note.
  If the model calls a tool there nevertheless, the next request offers them
  again (loop.go:269); README.md says they are withdrawn, the comment at
  loop.go:54-57 leaves room for a last round.
* `strings.Count` counts occurrences that do not overlap: a snippet that overlaps
  itself (`aa` in `aaa`) occurs twice, is counted once, and the edit takes the
  first place instead of refusing (builtin.go:185; the comment at :176-177 speaks
  of refusing an ambiguous snippet).
* provider.go:44 calls the stop reason normalized; reasons the adapter does not
  know pass through as they are.
* A tool call that does not decode is skipped. If it was the only one, the run
  ends with a success whose stop reason is `tool_use` under the reason
  `tool_calls`, and `end_turn` under `stop` or none, though it did ask for a
  tool. Arguments that do not decode are replaced by `{}` for the tool, and
  replayed raw to the provider.
* Paging is not limited by `maxRead` (builtin.go:23): one page may be the file.
* A failed `os.WriteFile` leaves a part of the new text; the comment at
  builtin_test.go:49-50, "a failed edit must leave the file untouched", is
  tested for an edit that was refused.
* A command that ended in time is reported as timed out when its output was held
  past the deadline (builtin.go:283).
* `--resume` with a session that does not exist starts a new one.

## 5. What is proved

Every invariant and every action property that a run checks is stated by a
theorem as well; what is left to the runs alone is liveness. The theorems hold
for every set of ids, every set of initial histories that are paired, any number
of runs and turns, texts and files of any length, and any combination of faults
but those a theorem excludes. Assumptions on the constants:

| Assumption | Says |
| --- | --- |
| `TurnAssumption` | constants are of their kinds, the histories a session starts with are paired |
| `HistoriesAssumption`, `ProducedAssumption` | the same of `Transcript`; its histories are of messages anyrun writes |
| `LifecycleAssumption` | the provider's answers are of the kinds `AgentTurn` allows |
| `ToolAssumption` | full names keep the tools of one server apart and are not names of built-ins, which is what the prefix is for; servers may share names |
| `CharsAssumption`, `BuiltinAssumption` | the newline is a character; snippets, contents and what others write are texts; "no file" is not a text |

| Theorem | Module | Excludes | States |
| --- | --- | --- | --- |
| `TypeCorrect` | `AgentTurnProofs` | | `[]TypeOK` |
| `RequestsAreSafe` | `AgentTurnProofs` | `repair`; calls without an id | `[]SafeToSend` |
| `FileStaysPaired` | `AgentTurnProofs` | `repair`; calls without an id | `[]FilePaired` |
| `FoldsKeepOriginal` | `AgentTurnProofs` | | `FoldKeepsOriginal` |
| `CapComesAfterWarning` | `AgentTurnProofs` | | `[]WarnedBeforeCap` |
| `FileImplementsTranscript` | `AgentTurnProofs` | `repair`, `torn`; calls without an id | `TranscriptSpec` |
| `CallsAreOnRecord` | `RecordProofs` | | `[]CallsOnRecord` |
| `AnswersAreOnRecord` | `RecordProofs` | | `[]AnswerOnRecord` |
| `RequestsAreAnswered` | `RecordProofs` | `torn`, `split`; histories with an unanswered request | `[]RequestsAnswered` |
| `WorkIsAnnounced` | `RecordProofs` | `torn`, `split`, `repair`; calls without an id; histories that hide unfinished work | `[]ResumeAnnounced` |
| `ProcessRunsTurns` | `RunLifecycleProofs` | | `LifeSpec => Spec`: the process implements the turn |
| `ProcessRequestsAreSafe` | `RunLifecycleProofs` | `repair`; calls without an id | `LifeSpec => []SafeToSend` |
| `LifeTypeCorrect` | `RunLifecycleProofs` | | `[]LifeTypeOK` |
| `ResultEndsStream` | `RunLifecycleProofs` | | `[]ResultIsLast` |
| `StatusAgrees` | `RunLifecycleProofs` | | `[]StatusTold` |
| `StreamIsOnRecord` | `RunLifecycleProofs` | | `[]StreamOnRecord` |
| `EndTurnsAreWhole` | `RunLifecycleProofs` | | `[]EndTurnIsWhole` |
| `SizesAreKept` | `RunLifecycleProofs` | `meta` | `[]MetaHeals` |
| `ContextCoversAll` | `RunLifecycleProofs` | | the context kept for the next run is at least prompt plus completion |
| `LogStaysPaired` | `TranscriptProofs` | | `[]LogPaired` |
| `CutsKeepTails` | `TranscriptProofs` | | `[]CutKeepsTail` |
| `CutsShorten` | `TranscriptProofs` | | `[]CutShortens` |
| `WiresAgree` | `TranscriptProofs` | infinitely many ids | `[]WireAgrees` |
| `RepairsAreAccepted` | `TranscriptProofs` | infinitely many ids; calls without an id | `[]RepairAccepted` |
| `SupplyTypeCorrect` | `ToolSupplyProofs` | | `[]TypeOK` |
| `RoutesStayLive` | `ToolSupplyProofs` | | `[]RoutesLive` |
| `RunsAsAllowed` | `ToolSupplyProofs` | | `[]RanAsAllowed` |
| `OffersAreAnswered` | `ToolSupplyProofs` | | `[]OffersAnswered` |
| `OffersGoToOwner` | `ToolSupplyProofs` | | `[]OffersReachOwner` |
| `NoServerLeftOpen` | `ToolSupplyProofs` | | `[]NoneLeftOpen` |
| `BuiltinTypeCorrect` | `BuiltinProofs` | | `[]TypeOK` |
| `EditsReplace` | `BuiltinProofs` | | `[]EditReplaces` |
| `FilesAreNotMixed` | `BuiltinProofs` | | `NoMixture` |
| `PagesCoverTheFile` | `BuiltinProofs` | | `[]PagesCover` |

The exclusions are the findings. With `repair`, `repair_not_saved` refutes
`SafeToSend`. With `torn`, a line that a run forgives takes its message with it,
and the file does not grow by one message but loses one; if the lost line was an
answer, its request is left alone. With `split`, a kill between the two lines of
the first append leaves a request alone, and `resume_unannounced` refutes
`ResumeAnnounced`. With calls without an id, `unnamed_call` refutes `SafeToSend`:
`repairDanglingToolUse` leaves such a call open, and where it is the only one
leaves no trace that the check for the note would see. With `meta`, the metadata
of the run is not what is in the file. Finitely
many ids are what replies of finite length come to; the translation of results
lists them, and an infinite set has no list.

### How

**Types.** `TypeOK` alone is not inductive: `Final(msgs)`, `Head(pending)` and
`stop` have values only at certain places. `Stage` adds what is non-empty where.

**Pairing.** `FilePaired` is not inductive either: whether the next line fits
the file depends on what the process has in memory and has not written. The
invariant `Sound` says it place by place, in three parts:

* `Seen`: the view in memory is paired, and can be sent at the places on the way
  to a request;
* `Unwritten`: what is pending is the user message, the user message and the
  reply, the reply, or the results, according to the place;
* `Written`: the file and the view agree where they should (between load and
  begin), the file ends in no unanswered call when a user message or a reply is
  about to be written, and in the call itself while the tools run.

A file with a torn line needs care: nothing may be concluded about what is
appended to it, because it will be joined to the fragment. `Written` says of
a file that is not `Clean` only that it cannot be loaded once the append is
done, and that is enough: a session that cannot be loaded sends nothing.
The lemmas about `Paired`, `Put`, `TornPuts`, `Folded` and `Older` are in
`RecordLemmas`, stated once.

**Refinement.** With neither `torn` nor `repair`, the file stays clean
(`WholeInduction`), so `Loaded(disk)` is `disk.lines`. `Flush` and
`PersistRepair` map to `Record` (the pairing invariant gives its guard),
`Rename` to `Fold`, everything else to a stutter.

**Wind-down.** The cap is out of reach of a run without a note: at the turn
where `turn >= MaxTurns - 2` first holds a note is given, and it is never taken
back (`Warned`). A note is the last message of the request it comes with and of no
other (`Withheld`).

**Calls and answers.** `Sound` is of no use where the repair may fail, and what
is on record *now* does not need it. `Queued` speaks of the messages a run has
yet to write, and of the file only once the run has put a whole line to it and
so closed it: from then on every line stands on its own, whatever the run found.
From the write of the last line (the answer's, or that of the results at the cap)
to the report the file ends in it (`LastRecorded`), and from an answer on to the
next run (`Concluded`). All of it holds with every fault.

**Metadata.** What the process has in memory is, from the first answer on, the
size of the last context (`Sized`), and the write at the end puts it into the
file whatever was there; no later step of the process writes metadata.

**Requests.** A request stands alone at the end of the file only between the two
lines of the first append (`Answering`), and without `split` no run ends there. A
compaction does not leave one alone, because it keeps a tail whole and what
follows a request in the tail follows it in the file.

**Unfinished work.** The property looks through the record for its last reply,
the code at the last message. `Announcing` says that the two agree of the file
(`Resumable`), except between the two lines: results stand behind the calls they
answer, and nothing else is put behind either. That a decision, once made from
the history in memory, is still right at the first request needs that the
compaction in between changes neither.

**Process.** `LifeStep` shows that every step of the process is one of the turn
or leaves it alone, so every theorem about `AgentTurn` carries over.
`ResultIsLast` needs that there is no result as long as the process may still
write one, which is a matter of the stage (`Telling`); what the status says of
the stream is stated from the event on, not from the exit.

**Stream and record.** `Following` relates three things the code updates one
after the other: the steps on the stream, the last message in memory and the end
of the file. Before the first answer nothing was shown; while a line is being
written the file ends in all steps but the last; afterwards in all of them. That
no older line is taken for a shown step is `Queued` again. What `StepsOf`
computes of a longer stream is an induction over it.

**End of turn.** `Heard` connects the provider's answer to the message in memory
while its line is written, and to "no call that decodes" from the moment the loop is left;
`Concluded` says that the message is the last on record, and `Telling` that the
result is the last event.

**Cuts.** What is kept begins at a user's text, before which every call is
answered, and it begins in the last quarter, by the arithmetic of `TailStart`.

**Wire.** The translation of a history and one message more is the old one and
the translation of the message behind it (`TranslationGrows`, from what
`FlattenSeq` and `SetToSeq` give). What a provider accepted stays accepted when
something is put behind it (`AcceptedStays`), so one induction over the history
shows that the translation of a paired one is accepted but for the calls of a
last reply (`Held`). Conversely, in a stretch of a paired history only two things
can be wrong: it begins with results, and then its translation begins with a
tool message; or it ends with calls, and then nothing answers them.

**Tools.** A route is added only for a server that has just listed, and such
a server is not tried again, so it is never skipped afterwards; `Reached` is
empty outside `exposed`, and `exposed` are names of definitions the filters left.
Every definition is handled or routed (`Offered`), and every route is to a
server and a tool that were listed under that name (`RoutesListed`), which is all
`OffersGoToOwner` needs: a later server may take a name over, but only by listing
it.

**Edits.** `Found` runs through the text from its end, so what it finds is shown
backwards, from every position on: places of the snippet, apart from each other,
with none left between them (`FoundFacts`). `Replaced` is compared with the
replacement of the places one by one, from the right (`OneByOneIsReplaced`), each
of which leaves what stands before it (`StretchStays`) and moves what stands
behind it (`Seam`). The rest is what a call keeps between its steps (`EditInv`):
`base` is what the file was, `text` what `ApplyEdit` made of it.

**Pages.** `Lines` and `Joined` are inverse (`JoinedSplit`), joining distributes
over putting rows of lines behind each other (`JoinedConcat`), and the page
numbers up to "past the end" meet without gap (`PageNumbers`).

**Induction.** The library's induction theorems take a predicate as a parameter,
which the provers cannot instantiate. `Induction` states them of a *set*
(`SetInduction`, `BackwardInduction`, `SeqInduction`), from the library's theorem
that the order of the numbers is well-founded. A proof about a recursive function
first shows with it that there is a function as the definition describes (the
definition is a `CHOOSE`), then what that function is.

### Only model-checked

`EveryStartEnds` and `CallEnds` are liveness under fairness, which the prover
does not handle. Of the five properties that the six runs of section 4
refute, three are false in general and no theorem states them; `SafeToSend` and
`ResumeAnnounced` are proved with what refutes them excluded.

## 6. What is not modelled

* **Texts, counts in events, ids of sessions, permissions**: data that no
  property speaks of.
* **A part of a copy** of the session file is taken for no copy. The property
  about copies speaks of the moment of the rename only, where it is whole.
* **The 64 MB limit of a line** (store.go:78): such a message can be written and
  not loaded again. Sizes are abstracted.
* **Two processes on one session**: the host runs one at a time, nothing
  enforces it.
* **Which flag or variable is wrong**, and the numbers `compactionConfig` makes
  of the environment: the set-up as a whole fails or does not.
* **HTTP** (requests, headers, retries the code does not make, bodies): I/O. An
  answer comes or `Chat` fails.
* **Names, arguments and raw objects of tool calls**: they are carried along.
* **Path resolution, `list_dir`, the text `bash` returns and its truncation**:
  they change nothing, and no property speaks of them.
* **The protocol between the pool and a server**: `mcp-go` is a library; a call
  returns or does not.
* **Release workflow**: build automation.

## 7. Plan

Done, in this order: the record (`Envelope`, `SessionFile`, `AgentTurn`),
compaction, the abstract transcript and the refinement, the tools, the proofs of
the pairing, the copy, the wind-down and the refinement; the process around the
turn with its events and status, the adapter in both directions, the built-in
tools on a file and the shell, and the theorems about answers, the process, cuts
and offers; then the theorems about the request on the wire and its repairs, the
announced unfinished work, the requests and their answers, the stream and the
end of a turn, edits, mixtures and pages.

To come, most important first:

1. The theorems of section 5 that exclude a fault, without the exclusion: what is
   left of `RequestsAnswered` with torn lines and split appends, and which
   weaker promise a file with a torn line still implements.
2. Two processes on one session: which of the properties above fail, and what
   is left of them.
