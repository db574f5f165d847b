---------------------------- MODULE RecordProofs ----------------------------
(***************************************************************************)
(* Theorems about what AgentTurn puts on record and when: the calls before *)
(* they run, the answer before it is reported, a user's message only with  *)
(* its answer, unfinished work so that the next run sees it.               *)
(***************************************************************************)
EXTENDS AgentTurnProofs

(***************************************************************************)
(* What is to be written.  Unlike Sound this holds whatever goes wrong: it *)
(* speaks of the messages that a run has yet to write, and of the file     *)
(* only once the run has written a whole line to it.                       *)
(***************************************************************************)

Early == {"idle", "load", "repair", "check", "summarize", "backup", "copy", "rename",
          "reload", "begin"}

QueueInTurn ==
    pc \in {"turn", "chat"} =>
        /\ pending = IF turn = 0 THEN << Said(input) >> ELSE << >>
        /\ turn > 0 => ~disk.open

QueueInFlush ==
    pc = "flush" =>
        \/ /\ Final(msgs).kind = "reply" /\ todo = Final(msgs).ids
           /\ \/ pending = << Final(msgs) >> /\ ~disk.open
              \/ pending = << Said(input), Final(msgs) >> /\ turn = 0
        \/ /\ Final(msgs).kind = "result"
           /\ pending = << Final(msgs) >> /\ ~disk.open

QueueInTools ==
    pc = "tools" =>
        /\ Final(msgs).kind = "reply" /\ todo \subseteq Final(msgs).ids
        /\ disk.lines # << >> /\ Final(disk.lines) = Final(msgs) /\ ~disk.open

Queued ==
    /\ pc \in Early => turn = 0
    /\ QueueInTurn /\ QueueInFlush /\ QueueInTools

\* The last message of a history that has just got one more.
LEMMA FinalOfAppend ==
    ASSUME NEW h \in Seq(Line), NEW m \in Line
    PROVE  Append(h, m) # << >> /\ Final(Append(h, m)) = m
  BY DEF Final

\* A line that is written whole closes the file, and is its last one if the
\* file was closed before.
LEMMA PutCloses ==
    ASSUME NEW f \in File, NEW m \in Message
    PROVE  /\ ~Put(f, m).open
           /\ ~f.open => /\ Put(f, m).lines = Append(f.lines, m)
                         /\ Put(f, m).lines # << >> /\ Final(Put(f, m).lines) = m
  <1>1. f.lines \in Seq(Line) /\ m \in Line
    BY DEF File, Line
  <1> QED
    BY <1>1, FinalOfAppend DEF Put, Closed

\* Which of the four ways a flush goes.
LEMMA FlushForms ==
    ASSUME TypeOK, Stage, Queued, Flush
    PROVE  /\ pc = "flush" /\ disk \in File /\ Head(pending) \in Message
           /\ disk' = Put(disk, Head(pending)) /\ ~disk'.open
           /\ msgs' = msgs /\ todo' = todo /\ wrapUp' = wrapUp /\ input' = input
           /\ noted' = noted /\ outcome' = outcome
           /\ \/ /\ pending = << Said(input), Final(msgs) >> /\ Head(pending) = Said(input)
                 /\ Final(msgs).kind = "reply" /\ todo = Final(msgs).ids
                 /\ pending' = << Final(msgs) >>
                 /\ turn = 0 /\ turn' = turn /\ pc' = "flush" /\ stop' = stop
              \/ /\ pending = << Final(msgs) >> /\ Head(pending) = Final(msgs)
                 /\ Final(msgs).kind = "reply" /\ todo = Final(msgs).ids
                 /\ disk'.lines = Append(disk.lines, Final(msgs))
                 /\ ~disk.open /\ disk'.lines # << >> /\ Final(disk'.lines) = Final(msgs)
                 /\ turn' = turn /\ pending' = << >>
                 /\ \/ todo = {} /\ pc' = "save"
                       /\ stop' = IF wrapUp # "none" THEN wrapUp ELSE "end_turn"
                    \/ todo # {} /\ pc' = "tools" /\ stop' = stop
              \/ /\ pending = << Final(msgs) >> /\ Head(pending) = Final(msgs)
                 /\ Final(msgs).kind = "result"
                 /\ disk'.lines = Append(disk.lines, Final(msgs)) /\ ~disk.open
                 /\ turn' = turn + 1 /\ pending' = << >> /\ pc' = "turn" /\ stop' = stop
  <1> DEFINE r == Final(msgs)
  <1>1. /\ pc = "flush" /\ disk' = Put(disk, Head(pending)) /\ pending' = Tail(pending)
        /\ msgs' = msgs /\ todo' = todo /\ wrapUp' = wrapUp /\ input' = input
        /\ noted' = noted /\ outcome' = outcome
    BY DEF Flush, WriteLine, history
  <1>2. disk \in File /\ pending \in Seq(Message) /\ pending # << >> /\ msgs \in Seq(Message)
        /\ msgs # << >>
    BY <1>1 DEF TypeOK, FilesOK, MessagesOK, Stage
  <1>3. Head(pending) \in Message /\ r \in Message
    BY <1>2 DEF Final
  <1>4. /\ ~disk'.open
        /\ ~disk.open => /\ disk'.lines = Append(disk.lines, Head(pending))
                         /\ disk'.lines # << >> /\ Final(disk'.lines) = Head(pending)
    BY <1>1, <1>2, <1>3, PutCloses
  <1>5. CASE /\ pending = << Said(input), r >> /\ turn = 0
             /\ r.kind = "reply" /\ todo = r.ids
    <2>1. Head(pending) = Said(input) /\ Tail(pending) = << r >> /\ Len(pending) = 2
      BY <1>5
    <2>2. turn' = turn /\ pc' = "flush" /\ stop' = stop
      BY <1>1, <2>1 DEF Flush
    <2> QED
      BY <1>1, <1>2, <1>3, <1>4, <1>5, <2>1, <2>2
  <1>6. CASE pending = << r >> /\ ~disk.open /\ r.kind = "reply" /\ todo = r.ids
    <2>1. Head(pending) = r /\ Tail(pending) = << >> /\ Len(pending) = 1
      BY <1>6
    <2>2. /\ turn' = turn
          /\ \/ todo = {} /\ pc' = "save" /\ stop' = IF wrapUp # "none" THEN wrapUp ELSE "end_turn"
             \/ todo # {} /\ pc' = "tools" /\ stop' = stop
      BY <1>6, <2>1 DEF Flush
    <2> QED
      BY <1>1, <1>2, <1>3, <1>4, <1>6, <2>1, <2>2
  <1>7. CASE pending = << r >> /\ ~disk.open /\ r.kind = "result"
    <2>1. Head(pending) = r /\ Tail(pending) = << >> /\ Len(pending) = 1
      BY <1>7
    <2>2. turn' = turn + 1 /\ pc' = "turn" /\ stop' = stop
      BY <1>7, <2>1 DEF Flush
    <2> QED
      BY <1>1, <1>2, <1>3, <1>4, <1>7, <2>1, <2>2
  <1> QED
    BY <1>1, <1>5, <1>6, <1>7 DEF Queued, QueueInFlush

LEMMA NextQueued == TypeOK /\ Stage /\ Queued /\ [Next]_vars => Queued'
  <1> SUFFICES ASSUME TypeOK, Stage, Queued, [Next]_vars PROVE Queued'
    OBVIOUS
  <1> USE DEF Early
  <1>0. turn \in Nat /\ msgs \in Seq(Message) /\ msgs \in Seq(Line) /\ pending \in Seq(Message)
        /\ input \in Kinds
    BY MessagesAreLines DEF TypeOK, CountersOK, MessagesOK, LabelsOK, Kinds
  <1>1. CASE Starting
    <2>1. CASE Begin
      <3>1. pc = "begin" /\ pc' = "turn" /\ turn' = turn /\ input' = input
            /\ pending' = << Said(input) >>
        BY <2>1 DEF Begin
      <3> QED
        BY <3>1 DEF Queued, QueueInTurn, QueueInFlush, QueueInTools
    <2>2. CASE Unloadable
      BY <2>2 DEF Unloadable, Exit, Queued, QueueInTurn, QueueInFlush, QueueInTools
    <2>3. CASE ~Begin /\ ~Unloadable
      <3>1. pc \in Early /\ pc' \in Early /\ turn' = turn
        BY <1>1, <2>3 DEF Starting, LoadHistory, PersistRepair, CheckContext, Summarize, BackUp,
           Copy, Rename, RenameFails, Reload, memory
      <3> QED
        BY <3>1 DEF Queued, QueueInTurn, QueueInFlush, QueueInTools
    <2> QED
      BY <2>1, <2>2, <2>3
  <1>2. CASE HitCap
    BY <1>2 DEF HitCap, Queued, QueueInTurn, QueueInFlush, QueueInTools
  <1>3. CASE WindDown \/ TakeTurn
    <2>1. /\ pc = "turn" /\ pc' = "chat" /\ turn' = turn /\ input' = input
          /\ pending' = pending /\ disk' = disk
      BY <1>3 DEF WindDown, TakeTurn, files
    <2> QED
      BY <2>1 DEF Queued, QueueInTurn, QueueInFlush, QueueInTools
  <1>4. ASSUME NEW calls \in Replies, NEW size \in Sizes, Chat(calls, size) PROVE Queued'
    <2> DEFINE r == Reply(calls)
    <2>1. /\ pc = "chat" /\ pc' = "flush" /\ disk' = disk /\ input' = input /\ turn' = turn
          /\ msgs' = Append(msgs, r) /\ pending' = Append(pending, r) /\ todo' = calls
      BY <1>4 DEF Chat, files
    <2>2. calls \in SUBSET Ids /\ r.kind = "reply" /\ r.ids = calls
      BY TurnAssumption DEF Reply
    <2>3. r \in Message /\ Said(input) \in Message
      BY <1>0, <2>2, MessageTypes
    <2> HIDE DEF r
    <2>4. Final(msgs') = r
      BY <1>0, <2>1, <2>3, FinalOfAppend DEF Line
    <2>5. CASE turn = 0
      <3>1. pending' = << Said(input), r >>
        BY <2>1, <2>3, <2>5, AppendToOne DEF Queued, QueueInTurn
      <3> QED
        BY <2>1, <2>2, <2>4, <2>5, <3>1 DEF Queued, QueueInTurn, QueueInFlush, QueueInTools
    <2>6. CASE turn # 0
      <3>1. turn > 0
        BY <1>0, <2>6
      <3>2. pending = << >> /\ ~disk.open
        BY <2>1, <2>6, <3>1 DEF Queued, QueueInTurn
      <3>3. Append(<< >>, r) = << r >>
        OBVIOUS
      <3> QED
        BY <2>1, <2>2, <2>4, <3>2, <3>3 DEF Queued, QueueInTurn, QueueInFlush, QueueInTools
    <2> QED
      BY <2>5, <2>6
  <1>5. CASE Flush
    <2>1. /\ pc' = "flush" => QueueInFlush'
          /\ pc' = "turn" => QueueInTurn'
          /\ pc' = "tools" => QueueInTools'
          /\ pc' \in {"flush", "turn", "tools", "save"}
      BY <1>0, <1>5, FlushForms DEF QueueInTurn, QueueInFlush, QueueInTools
    <2> QED
      BY <2>1 DEF Queued, QueueInTurn, QueueInFlush, QueueInTools
  <1>6. ASSUME NEW id \in Ids, CallTool(id) PROVE Queued'
    <2>1. /\ pc = "tools" /\ pc' = "tools" /\ disk' = disk /\ msgs' = msgs
          /\ todo' \subseteq todo
      BY <1>6 DEF CallTool, files
    <2> QED
      BY <2>1 DEF Queued, QueueInTurn, QueueInFlush, QueueInTools
  <1>7. CASE GiveResults
    <2> DEFINE r == Results(Final(msgs).ids)
    <2>1. /\ pc = "tools" /\ pc' = "flush" /\ disk' = disk
          /\ msgs' = Append(msgs, r) /\ pending' = << r >>
      BY <1>7 DEF GiveResults, files
    <2>2. Final(msgs) \in Line
      BY <1>0, <2>1 DEF Stage, Final
    <2>3. r \in Line /\ r.kind = "result"
      BY <2>2, MessageTypes DEF Line, Results
    <2> HIDE DEF r
    <2>4. Final(msgs') = r
      BY <1>0, <2>1, <2>3, FinalOfAppend
    <2> QED
      BY <2>1, <2>3, <2>4 DEF Queued, QueueInTurn, QueueInFlush, QueueInTools
  <1>8. CASE Ending
    BY <1>8 DEF Ending, TruncateMeta, WriteMeta, Report, Exit, Queued, QueueInTurn,
       QueueInFlush, QueueInTools
  <1>9. CASE (\E kind \in Inputs : Launch(kind)) \/ Fail \/ FailInWrite \/ Kill \/ KillInWrite
    BY <1>9 DEF Launch, Fail, FailInWrite, Kill, KillInWrite, Exit, Queued, QueueInTurn, QueueInFlush,
       QueueInTools
  <1>10. CASE Tick \/ UNCHANGED vars
    BY <1>10 DEF Tick, vars, files, memory, Queued, QueueInTurn, QueueInFlush, QueueInTools
  <1> QED
    BY <1>1, <1>2, <1>3, <1>4, <1>5, <1>6, <1>7, <1>8, <1>9, <1>10
       DEF Next, Process, Turning

LEMMA Queueing == Spec => [](TypeOK /\ Stage /\ Queued)
  <1>1. Init => TypeOK /\ Stage /\ Queued
    BY InitTypeOK DEF Init, Stage, Queued, QueueInTurn, QueueInFlush, QueueInTools
  <1>2. TypeOK /\ Stage /\ Queued /\ [Next]_vars => (TypeOK /\ Stage /\ Queued)'
    BY NextTypeOK, NextQueued
  <1> QED
    BY <1>1, <1>2, PTL DEF Spec

\* No tool runs that the file does not know of: the reply that asks for it
\* was written before (the flush that precedes the calls in Turn), whatever
\* else was torn, lost or killed.
THEOREM CallsAreOnRecord == Spec => []CallsOnRecord
  <1>1. Queued => CallsOnRecord
    BY DEF Queued, QueueInTools, CallsOnRecord
  <1> QED
    BY <1>1, Queueing, PTL

(***************************************************************************)
(* The answer.  It is on record from the write of its line to the next     *)
(* run; that the line is put on a line of its own, behind no fragment, is  *)
(* part of Queued.                                                         *)
(***************************************************************************)

\* The last message shown to the provider, or got from it, is the last on record.
LastRecorded == Loaded(disk) # << >> /\ Final(Loaded(disk)) = Final(msgs)

Answered(f) == Loaded(f) # << >> /\ Final(Loaded(f)) = Reply({})

Closings == {"save", "meta", "report"}

Concluded ==
    /\ pc # "idle" => outcome = "none"
    /\ pc \in Closings => stop \in WrapUps \cup {"end_turn"} /\ (stop # "max_turns" => Answered(disk))
    /\ pc \in Closings \/ (pc = "turn" /\ turn > 0) => LastRecorded
    /\ outcome \in {"end_turn", "time_budget"} => Answered(disk)

\* A message put on a file without a fragment is the last that Load returns.
LEMMA PutIsLast ==
    ASSUME NEW f \in File, ~f.open, NEW m \in Message
    PROVE  Loaded(Put(f, m)) # << >> /\ Final(Loaded(Put(f, m))) = m
  <1>1. Put(f, m).lines = Append(f.lines, m) /\ f.lines \in Seq(Line) /\ m \in Line
    BY DEF Put, Closed, File, Line
  <1>2. /\ Len(Append(f.lines, m)) = Len(f.lines) + 1
        /\ Append(f.lines, m)[Len(f.lines) + 1] = m
        /\ Append(f.lines, m) # << >>
    BY <1>1
  <1>3. Loaded(Put(f, m)) = Append(f.lines, m)
    BY <1>1, <1>2, NoMessageIsJunk DEF Loaded
  <1> QED
    BY <1>2, <1>3 DEF Final

LEMMA FlushConcludes ==
    ASSUME TypeOK, Stage, Queued, Concluded, Flush
    PROVE  Concluded'
  <1>0. /\ turn \in Nat /\ wrapUp \in WrapUps /\ disk \in File
    BY DEF TypeOK, CountersOK, LabelsOK, FilesOK
  <1>1. outcome = "none" /\ outcome' = outcome
    BY FlushForms DEF Concluded
  <1>2. /\ disk' = Put(disk, Head(pending)) /\ Head(pending) \in Message
        /\ msgs' = msgs
    BY FlushForms
  <1>3. Head(pending) = Final(msgs) /\ ~disk.open => LastRecorded'
    BY <1>0, <1>2, PutIsLast DEF LastRecorded
  <1>4. CASE pc' = "save"
    <2>1. /\ Head(pending) = Final(msgs) /\ Final(msgs).kind = "reply" /\ Final(msgs).ids = {}
          /\ ~disk.open
          /\ stop' = IF wrapUp # "none" THEN wrapUp ELSE "end_turn"
      BY <1>4, FlushForms
    <2>2. Head(pending) = Reply({})
      BY <1>2, <2>1 DEF Message, Reply
    <2>3. Answered(disk') /\ LastRecorded'
      BY <1>0, <1>2, <1>3, <2>1, <2>2, PutIsLast DEF Answered
    <2>4. stop' \in WrapUps \cup {"end_turn"}
      BY <1>0, <2>1
    <2> QED
      BY <1>1, <1>4, <2>3, <2>4 DEF Concluded
  <1>5. CASE pc' = "turn"
    <2>1. Head(pending) = Final(msgs) /\ ~disk.open
      BY <1>5, FlushForms
    <2> QED
      BY <1>1, <1>3, <1>5, <2>1 DEF Concluded, Closings
  <1>6. CASE pc' \in {"flush", "tools"}
    BY <1>1, <1>6 DEF Concluded, Closings
  <1> QED
    BY <1>4, <1>5, <1>6, FlushForms

LEMMA NextConcluded == TypeOK /\ Stage /\ Queued /\ Concluded /\ [Next]_vars => Concluded'
  <1> SUFFICES ASSUME TypeOK, Stage, Queued, Concluded, [Next]_vars PROVE Concluded'
    OBVIOUS
  <1> USE DEF Concluded, Closings, LastRecorded
  <1>1. CASE Starting
    <2>1. turn = 0 \/ pc \notin Early
      BY DEF Queued
    <2>2. CASE Begin
      BY <2>1, <2>2 DEF Begin, Early, history
    <2> QED
      BY <1>1, <2>2 DEF Starting, LoadHistory, PersistRepair, CheckContext, Summarize, BackUp,
         Copy, Rename, RenameFails, Reload, Unloadable, Exit, history
  <1>2. CASE Flush
    BY <1>2, FlushConcludes
  <1>3. CASE HitCap
    <2>1. turn > 0
      BY <1>3, TurnAssumption DEF HitCap, AtCap, TypeOK, CountersOK
    <2> QED
      BY <1>3, <2>1 DEF HitCap, history, files, WrapUps
  <1>4. CASE \/ WindDown \/ TakeTurn \/ GiveResults \/ \E id \in Ids : CallTool(id)
             \/ \E calls \in Replies, size \in Sizes : Chat(calls, size)
    BY <1>4 DEF WindDown, TakeTurn, GiveResults, CallTool, Chat, history
  <1>5. CASE TruncateMeta \/ WriteMeta
    BY <1>5 DEF TruncateMeta, WriteMeta, memory, history
  <1>6. CASE Report
    BY <1>6 DEF Report, Exit, files, WrapUps
  <1>7. CASE (\E kind \in Inputs : Launch(kind)) \/ Fail \/ FailInWrite \/ Kill \/ KillInWrite
    BY <1>7 DEF Launch, Fail, FailInWrite, Kill, KillInWrite, Exit
  <1>8. CASE Tick \/ UNCHANGED vars
    BY <1>8 DEF Tick, vars, files, memory, history
  <1> QED
    BY <1>1, <1>2, <1>3, <1>4, <1>5, <1>6, <1>7, <1>8 DEF Next, Process, Turning, Ending

LEMMA Concluding == Spec => [](TypeOK /\ Stage /\ Queued /\ Concluded)
  <1>1. Init => Concluded
    BY DEF Init, Concluded, Closings
  <1>2. Spec => [](TypeOK /\ Stage /\ Queued)
    BY Queueing
  <1> QED
    BY <1>1, <1>2, NextConcluded, PTL DEF Spec

\* What the host takes as done is on record: when a run reports, the last
\* message it had is the last that Load would return, the results of a run
\* stopped at the cap included, and an answer stays the last message until the
\* next run; whatever was killed or torn before (the last flush of Turn comes
\* before SaveMeta and the result event).
THEOREM AnswersAreOnRecord == Spec => []AnswerOnRecord
  <1>1. Concluded => AnswerOnRecord
    BY DEF Concluded, Closings, AnswerOnRecord, Answered, LastRecorded
  <1> QED
    BY <1>1, Concluding, PTL

(***************************************************************************)
(* Requests and their answers.  A user's message may stand alone only at   *)
(* the end of the file and only between the two lines of the first append, *)
(* where (without "split") a run neither ends nor is killed.               *)
(***************************************************************************)

Asks(m) == m.kind \in {"request", "media"}

AllAnswered(h) == \A i \in 1 .. Len(h) : Asks(h[i]) => AnsweredAt(h, i)

Answering ==
    /\ \A i \in 1 .. Len(disk.lines) :
         Asks(disk.lines[i]) =>
            AnsweredAt(disk.lines, i) \/ (BetweenLines /\ i = Len(disk.lines))
    /\ pc \in Preparing \cup {"repair"} => AllAnswered(msgs)

\* A reply answers whatever it stands behind.
LEMMA ReplyAnswers ==
    ASSUME NEW h \in Seq(Line), NEW m \in Line, m.kind = "reply",
           \A i \in 1 .. Len(h) : Asks(h[i]) => AnsweredAt(h, i) \/ i = Len(h)
    PROVE  AllAnswered(Append(h, m))
  <1> DEFINE g == Append(h, m)
  <1>1. /\ Len(g) = Len(h) + 1 /\ g[Len(h) + 1] = m
        /\ \A i \in 1 .. Len(h) : g[i] = h[i]
    OBVIOUS
  <1>2. ASSUME NEW i \in 1 .. Len(g), Asks(g[i]) PROVE AnsweredAt(g, i)
    <2>1. i \in 1 .. Len(h) /\ g[i] = h[i]
      BY <1>1, <1>2 DEF Asks
    <2>2. CASE i = Len(h)
      BY <1>1, <2>2 DEF AnsweredAt
    <2>3. CASE i # Len(h)
      <3>1. AnsweredAt(h, i)
        BY <1>2, <2>1, <2>3
      <3> QED
        BY <1>1, <2>1, <3>1 DEF AnsweredAt
    <2> QED
      BY <2>2, <2>3
  <1> QED
    BY <1>2 DEF AllAnswered

\* Other messages leave what is answered answered; only the new one may not be.
LEMMA AppendLeavesAnswered ==
    ASSUME NEW h \in Seq(Line), NEW m \in Line, AllAnswered(h)
    PROVE  /\ \A i \in 1 .. Len(Append(h, m)) :
                Asks(Append(h, m)[i]) => AnsweredAt(Append(h, m), i) \/ i = Len(Append(h, m))
           /\ ~Asks(m) => AllAnswered(Append(h, m))
  <1> DEFINE g == Append(h, m)
  <1>1. /\ Len(g) = Len(h) + 1 /\ g[Len(h) + 1] = m
        /\ \A i \in 1 .. Len(h) : g[i] = h[i]
    OBVIOUS
  <1>2. ASSUME NEW i \in 1 .. Len(h), Asks(g[i]) PROVE AnsweredAt(g, i)
    <2>1. AnsweredAt(h, i)
      BY <1>1, <1>2 DEF AllAnswered
    <2> QED
      BY <1>1, <2>1 DEF AnsweredAt
  <1> QED
    BY <1>1, <1>2 DEF AllAnswered

\* A compaction parts no message of the user from its answer.
LEMMA FoldedAnswered ==
    ASSUME NEW h \in Seq(Message), NEW cut \in 1 .. Len(h) - 1, AllAnswered(h)
    PROVE  AllAnswered(Folded(h, cut))
  <1> DEFINE g == Folded(h, cut)
             n == Len(h) - cut + 1
  <1>1. /\ Len(g) = n /\ g[1] = Said("summary")
        /\ \A i \in 2 .. n : g[i] = h[i + cut - 1]
    BY DEF Folded
  <1>2. ASSUME NEW i \in 1 .. n, Asks(g[i]) PROVE AnsweredAt(g, i)
    <2>1. i # 1
      BY <1>1, <1>2 DEF Asks, Said
    <2>2. g[i] = h[i + cut - 1] /\ i + cut - 1 \in 1 .. Len(h)
      BY <1>1, <2>1
    <2>3. i + cut - 1 < Len(h) /\ h[i + cut - 1 + 1].kind = "reply"
      BY <1>2, <2>2 DEF AllAnswered, AnsweredAt
    <2>4. i + 1 \in 2 .. n /\ (i + 1) + cut - 1 = i + cut - 1 + 1
      BY <2>3
    <2>5. g[i + 1] = h[i + cut - 1 + 1]
      BY <1>1, <2>4
    <2> QED
      BY <1>1, <2>3, <2>4, <2>5 DEF AnsweredAt
  <1> QED
    BY <1>1, <1>2 DEF AllAnswered

LEMMA AnsweringMeansAll ==
    ASSUME Answering, ~BetweenLines
    PROVE  AllAnswered(disk.lines)
  BY DEF Answering, AllAnswered

LEMMA NextAnswering ==
    ASSUME {"torn", "split"} \cap Faults = {}, TypeOK, Stage, Queued, Whole, Answering, [Next]_vars
    PROVE  Answering'
  <1>0. /\ disk \in File /\ disk.lines \in Seq(Line) /\ Clean(disk) /\ ~disk.open
        /\ msgs \in Seq(Message) /\ msgs \in Seq(Line)
        /\ "torn" \notin Faults /\ "split" \notin Faults
    BY MessagesAreLines DEF TypeOK, FilesOK, MessagesOK, File, Whole, Clean
  <1>1. CASE PersistRepair
    <2>1. Closing(msgs) \in Message /\ Closing(msgs) \in Line /\ ~Asks(Closing(msgs))
      BY <1>0, <1>1, MessageTypes DEF PersistRepair, Stage, Line, Closing, Results, Asks
    <2>2. pc = "repair" /\ pc' = "check" /\ msgs' = Append(msgs, Closing(msgs))
          /\ (disk' = disk \/ disk' = Put(disk, Closing(msgs)))
      BY <1>0, <1>1 DEF PersistRepair
    <2>3. AllAnswered(disk.lines) /\ AllAnswered(msgs)
      BY <2>2, AnsweringMeansAll DEF BetweenLines, Answering
    <2>4. AllAnswered(msgs') /\ AllAnswered(Append(disk.lines, Closing(msgs)))
      BY <1>0, <2>1, <2>2, <2>3, AppendLeavesAnswered
    <2>5. disk'.lines = disk.lines \/ disk'.lines = Append(disk.lines, Closing(msgs))
      BY <1>0, <2>1, <2>2, PutCloses
    <2> QED
      BY <2>3, <2>4, <2>5 DEF Answering, AllAnswered
  <1>2. CASE LoadHistory
    <2>1. msgs' = disk.lines /\ disk' = disk /\ pc = "load"
      BY <1>0, <1>2, CleanLoaded DEF LoadHistory, files
    <2>2. AllAnswered(disk.lines)
      BY <2>1, AnsweringMeansAll DEF BetweenLines
    <2> QED
      BY <2>1, <2>2 DEF Answering, AllAnswered
  <1>3. CASE CheckContext \/ Summarize \/ BackUp \/ Copy \/ RenameFails
    <2>1. disk' = disk /\ msgs' = msgs /\ pc \in Preparing
      BY <1>3 DEF CheckContext, Summarize, BackUp, Copy, RenameFails, files, memory, Preparing
    <2>2. pc # "flush"
      BY <2>1 DEF Preparing
    <2> QED
      BY <2>1, <2>2 DEF Answering, BetweenLines
  <1>4. CASE Rename
    <2>1. PICK cut \in CutIndex(msgs) : disk' = FileOf(Folded(msgs, cut))
      BY <1>4 DEF Rename
    <2>2. pc = "rename" /\ pc' = "reload"
      BY <1>4 DEF Rename
    <2>3. AllAnswered(Folded(msgs, cut))
      BY <1>0, <2>2, FoldedType, FoldedAnswered DEF Answering, Preparing
    <2> QED
      BY <2>1, <2>2, <2>3 DEF Answering, AllAnswered, FileOf, Preparing
  <1>5. CASE Reload
    <2>1. msgs' = disk.lines /\ disk' = disk /\ pc = "reload"
      BY <1>0, <1>5, CleanLoaded DEF Reload, files
    <2>2. AllAnswered(disk.lines)
      BY <2>1, AnsweringMeansAll DEF BetweenLines
    <2> QED
      BY <2>1, <2>2 DEF Answering, AllAnswered
  <1>6. CASE Flush
    <2>1. pc = "flush" /\ disk' = Put(disk, Head(pending)) /\ Head(pending) \in Message
      BY <1>6, FlushForms
    <2>2. disk'.lines = Append(disk.lines, Head(pending)) /\ Head(pending) \in Line
      BY <1>0, <2>1, PutCloses DEF Line
    <2>3. CASE pending = << Said(input), Final(msgs) >>
      <3>1. /\ pc' = "flush" /\ turn' = 0 /\ pending' = << Final(msgs) >> /\ msgs' = msgs
            /\ Final(msgs).kind = "reply"
        <4>1. << Said(input), Final(msgs) >> # << Final(msgs) >>
          OBVIOUS
        <4> QED
          BY <1>6, <2>3, <4>1, FlushForms
      <3>2. BetweenLines' /\ ~BetweenLines
        BY <2>3, <3>1 DEF BetweenLines
      <3>3. AllAnswered(disk.lines)
        BY <3>2, AnsweringMeansAll
      <3>4. pc' \notin Preparing \cup {"repair"}
        BY <3>1 DEF Preparing
      <3> QED
        BY <1>0, <2>2, <3>2, <3>3, <3>4, AppendLeavesAnswered DEF Answering
    <2>4. CASE pending # << Said(input), Final(msgs) >> /\ Final(msgs).kind = "reply"
      <3>1. Head(pending).kind = "reply" /\ pc' \notin Preparing \cup {"repair"}
        BY <1>6, <2>4, FlushForms DEF Preparing
      <3>2. AllAnswered(disk'.lines)
        BY <1>0, <2>2, <3>1, ReplyAnswers DEF Answering
      <3> QED
        BY <3>1, <3>2 DEF Answering, AllAnswered
    <2>5. CASE pending # << Said(input), Final(msgs) >> /\ Final(msgs).kind # "reply"
      <3>1. /\ Head(pending) = Final(msgs) /\ Final(msgs).kind = "result" /\ pc' = "turn"
            /\ pending = << Final(msgs) >>
        BY <1>6, <2>5, FlushForms
      <3>2. ~BetweenLines
        BY <3>1 DEF BetweenLines
      <3>3. AllAnswered(disk'.lines)
        BY <1>0, <2>2, <3>1, <3>2, AnsweringMeansAll, AppendLeavesAnswered DEF Asks
      <3> QED
        BY <3>1, <3>3 DEF Answering, AllAnswered, Preparing
    <2> QED
      BY <2>3, <2>4, <2>5
  <1>7. CASE Tick \/ UNCHANGED vars
    BY <1>7 DEF Tick, vars, files, memory, Answering, BetweenLines
  <1>8. CASE (\E kind \in Inputs : Launch(kind)) \/ Begin \/ HitCap \/ WindDown \/ TakeTurn
             \/ GiveResults \/ (\E id \in Ids : CallTool(id)) \/ Ending
             \/ (\E calls \in Replies, size \in Sizes : Chat(calls, size))
    <2>1. disk' = disk /\ pc # "flush" /\ pc' \notin Preparing \cup {"repair"}
      BY <1>8 DEF Launch, Begin, HitCap, WindDown, TakeTurn, GiveResults, CallTool, Ending,
         TruncateMeta, WriteMeta, Report, Exit, Chat, files, Preparing
    <2> QED
      BY <2>1 DEF Answering, BetweenLines
  <1>9. CASE Unloadable \/ Fail \/ FailInWrite \/ Kill \/ KillInWrite
    <2>1. disk' = disk /\ ~BetweenLines /\ pc' = "idle"
      BY <1>0, <1>9 DEF Unloadable, Fail, FailInWrite, Kill, KillInWrite, Exit, files, BetweenLines
    <2> QED
      BY <2>1 DEF Answering, Preparing
  <1> QED
    BY <1>1, <1>2, <1>3, <1>4, <1>5, <1>6, <1>7, <1>8, <1>9
       DEF Next, Process, Starting, Turning

LEMMA InitWhole == Init => Whole
  <1> SUFFICES ASSUME Init PROVE Whole
    OBVIOUS
  <1>1. PICK h \in Histories : disk = FileOf(h)
    BY DEF Init
  <1> QED
    BY <1>1, TurnAssumption, FileOfClean DEF Whole

\* A message of the user is never on record without its answer: a run that
\* dies before the model answers leaves no trace of it, and the retry does not
\* repeat it.  This is so because both are written by one Append, after Chat
\* (the first flush of Turn); a kill inside that Append is excluded.
THEOREM RequestsAreAnswered ==
    ASSUME {"torn", "split"} \cap Faults = {},
           \A h \in Histories : AllAnswered(h)
    PROVE  Spec => []RequestsAnswered
  <1>1. Init => Whole /\ Answering
    <2> SUFFICES ASSUME Init PROVE Answering
      BY InitWhole
    <2>1. PICK h \in Histories : disk = FileOf(h)
      BY DEF Init
    <2> QED
      BY <2>1 DEF Init, Answering, AllAnswered, FileOf, Preparing
  <1>2. TypeOK /\ Stage /\ Queued /\ Whole /\ Answering /\ [Next]_vars => (Whole /\ Answering)'
    BY WholeInduction, NextAnswering
  <1>3. Answering => RequestsAnswered
    BY AnsweringMeansAll DEF RequestsAnswered, BetweenLines, AllAnswered, Asks
  <1>4. Spec => [](TypeOK /\ Stage /\ Queued)
    BY Queueing
  <1> QED
    BY <1>1, <1>2, <1>3, <1>4, PTL DEF Spec

(***************************************************************************)
(* Unfinished work.  The code looks at the last message only; the property *)
(* is about the last reply.  The two agree as long as nothing is put       *)
(* behind results and unanswered calls but what belongs there.             *)
(***************************************************************************)

Resumable(h) == Unfinished(h) <=> (Dangling(h) \/ CutShort(h))

Announcing ==
    /\ ~BetweenLines => Resumable(disk.lines)
    /\ pc \in {"idle", "load", "repair"} => ~noted
    /\ pc \in Preparing \cup {"reload"} /\ noted => CutShort(disk.lines)
    /\ pc \in {"turn", "chat"} /\ turn = 0 => (noted <=> Unfinished(disk.lines))
    /\ pc = "flush" /\ Final(msgs).kind = "reply" =>
         (Final(msgs).ids = {} \/ Named(Final(msgs)) # {})
    /\ pc = "flush" /\ Final(msgs).kind = "result" => Unfinished(disk.lines)
    /\ pc = "tools" => Named(Final(msgs)) # {}

\* A reply decides whether work is unfinished; nothing else changes it.
LEMMA UnfinishedAppend ==
    ASSUME NEW h \in Seq(Line), NEW m \in Line
    PROVE  Unfinished(Append(h, m)) <=> IF m.kind = "reply" THEN m.ids # {} ELSE Unfinished(h)
  <1> DEFINE g == Append(h, m)
  <1>1. /\ Len(g) = Len(h) + 1 /\ g[Len(h) + 1] = m
        /\ \A i \in 1 .. Len(h) : g[i] = h[i]
    OBVIOUS
  <1> HIDE DEF g
  <1>2. CASE m.kind = "reply"
    <2>1. Unfinished(g) => m.ids # {}
      <3> SUFFICES ASSUME NEW i \in 1 .. Len(g), g[i].ids # {},
                          \A j \in i + 1 .. Len(g) : g[j].kind # "reply"
                   PROVE  m.ids # {}
        BY DEF Unfinished
      <3>1. Len(h) + 1 \notin i + 1 .. Len(g)
        BY <1>1, <1>2
      <3>2. i = Len(h) + 1
        BY <1>1, <3>1
      <3> QED
        BY <1>1, <3>2
    <2>2. m.ids # {} => Unfinished(g)
      <3>1. Len(g) \in 1 .. Len(g) /\ g[Len(g)] = m /\ Len(g) + 1 .. Len(g) = {}
        BY <1>1
      <3> QED
        BY <1>2, <3>1 DEF Unfinished
    <2> QED
      BY <1>2, <2>1, <2>2 DEF g
  <1>3. CASE m.kind # "reply"
    <2>1. ASSUME Unfinished(h) PROVE Unfinished(g)
      <3>1. PICK i \in 1 .. Len(h) : h[i].kind = "reply" /\ h[i].ids # {}
                                     /\ \A j \in i + 1 .. Len(h) : h[j].kind # "reply"
        BY <2>1 DEF Unfinished
      <3>2. \A j \in i + 1 .. Len(g) : g[j].kind # "reply"
        BY <1>1, <1>3, <3>1
      <3> QED
        BY <1>1, <3>1, <3>2 DEF Unfinished
    <2>2. ASSUME Unfinished(g) PROVE Unfinished(h)
      <3>1. PICK i \in 1 .. Len(g) : g[i].kind = "reply" /\ g[i].ids # {}
                                     /\ \A j \in i + 1 .. Len(g) : g[j].kind # "reply"
        BY <2>2 DEF Unfinished
      <3>2. i \in 1 .. Len(h)
        BY <1>1, <1>3, <3>1
      <3>3. \A j \in i + 1 .. Len(h) : h[j].kind # "reply"
        BY <1>1, <3>1, <3>2
      <3> QED
        BY <1>1, <3>1, <3>2, <3>3 DEF Unfinished
    <2> QED
      BY <1>3, <2>1, <2>2 DEF g
  <1> QED
    BY <1>2, <1>3

\* What is kept of a history that a run was cut off in still shows it.
LEMMA FoldedResumable ==
    ASSUME NEW h \in Seq(Message), NEW cut \in 1 .. Len(h) - 1, h[cut + 1].kind \in UserText,
           Replayable(h), Resumable(h)
    PROVE  /\ Resumable(Folded(h, cut))
           /\ CutShort(h) => CutShort(Folded(h, cut))
  <1> DEFINE g == Folded(h, cut)
             n == Len(h) - cut + 1
  <1>1. /\ Len(g) = n /\ g[1] = Said("summary") /\ n \in Nat /\ n > 1
        /\ \A i \in 2 .. n : g[i] = h[i + cut - 1]
    BY DEF Folded
  <1>2. g # << >> /\ Final(g) = Final(h) /\ h # << >>
    BY <1>1 DEF Final
  <1>3. g[1].kind # "reply"
    BY <1>1 DEF Said
  <1> HIDE DEF g
  <1>4. (CutShort(g) <=> CutShort(h)) /\ ~Dangling(h) /\ ~Dangling(g)
    BY <1>2 DEF CutShort, Dangling, Named, Replayable, Unanswered, Calls
  <1>5. ASSUME CutShort(h) PROVE Unfinished(g)
    <2>1. PICK i \in 1 .. Len(h) : h[i].kind = "reply" /\ h[i].ids # {}
                                   /\ \A j \in i + 1 .. Len(h) : h[j].kind # "reply"
      BY <1>5 DEF Resumable, Unfinished
    <2>2. Len(h) > 1 /\ h[Len(h)].kind = "result"
      BY <1>5 DEF CutShort, Final
    <2>3. MayFollow(h[Len(h) - 1], h[Len(h) - 1 + 1]) /\ Len(h) - 1 + 1 = Len(h)
      BY <2>2 DEF Replayable, Paired
    <2>4. h[Len(h) - 1].kind = "reply"
      BY <2>2, <2>3 DEF MayFollow, Answers
    <2>5. i = Len(h) - 1
      <3>1. Len(h) - 1 \notin i + 1 .. Len(h)
        BY <2>1, <2>4
      <3>2. i # Len(h)
        BY <2>1, <2>2
      <3> QED
        BY <2>2, <3>1, <3>2
    <2>6. cut + 1 # Len(h) /\ cut + 1 # Len(h) - 1
      BY <2>2, <2>4 DEF UserText
    <2>7. n - 1 \in 2 .. n /\ n \in 2 .. n /\ n - 1 + cut - 1 = Len(h) - 1
      BY <2>6
    <2>8. g[n - 1] = h[Len(h) - 1] /\ g[n] = h[Len(h)]
      BY <1>1, <2>7
    <2>9. n - 1 \in 1 .. Len(g) /\ \A j \in n - 1 + 1 .. Len(g) : j = n
      BY <1>1
    <2> QED
      BY <2>1, <2>2, <2>5, <2>8, <2>9 DEF Unfinished
  <1>6. ASSUME Unfinished(g) PROVE Unfinished(h)
    <2>1. PICK i \in 1 .. Len(g) : g[i].kind = "reply" /\ g[i].ids # {}
                                   /\ \A j \in i + 1 .. Len(g) : g[j].kind # "reply"
      BY <1>6 DEF Unfinished
    <2>2. i \in 2 .. n /\ i + cut - 1 \in 1 .. Len(h)
      BY <1>1, <1>3, <2>1
    <2>3. g[i] = h[i + cut - 1]
      BY <1>1, <2>2
    <2>4. ASSUME NEW j \in i + cut - 1 + 1 .. Len(h) PROVE h[j].kind # "reply"
      <3>1. j - cut + 1 \in i + 1 .. Len(g) /\ j - cut + 1 \in 2 .. n
            /\ (j - cut + 1) + cut - 1 = j
        BY <1>1, <2>2
      <3> QED
        BY <1>1, <2>1, <3>1
    <2> QED
      BY <2>1, <2>2, <2>3, <2>4 DEF Unfinished
  <1>7. Unfinished(g) <=> CutShort(g)
    BY <1>4, <1>5, <1>6 DEF Resumable
  <1> QED
    BY <1>4, <1>7 DEF Resumable, g

LEMMA StartingAnnouncing ==
    ASSUME {"torn", "repair"} \cap Faults = {},
           TypeOK, Stage, Sound, Queued, Whole, Announcing, Starting
    PROVE  Announcing'
  <1> DEFINE D == disk.lines
  <1>0. /\ disk \in File /\ D \in Seq(Line) /\ Clean(disk) /\ ~disk.open
        /\ msgs \in Seq(Message) /\ msgs \in Seq(Line) /\ "repair" \notin Faults
    BY MessagesAreLines DEF TypeOK, FilesOK, MessagesOK, File, Whole, Clean
  <1>1. pc # "flush"
    BY DEF Starting, LoadHistory, PersistRepair, CheckContext, Summarize, BackUp, Copy,
       Rename, RenameFails, Reload, Unloadable, Begin
  <1>2. Resumable(D)
    BY <1>1 DEF Announcing, BetweenLines
  <1>3. CASE LoadHistory
    <2>1. disk' = disk /\ pc = "load" /\ pc' \in {"repair", "check"} /\ noted' = noted
      BY <1>3 DEF LoadHistory, files
    <2> QED
      BY <1>2, <2>1 DEF Announcing, Preparing
  <1>4. CASE PersistRepair
    <2>1. /\ pc = "repair" /\ pc' = "check" /\ noted' /\ disk' = Put(disk, Closing(msgs))
      BY <1>0, <1>4 DEF PersistRepair
    <2>2. Dangling(msgs) /\ msgs = D
      BY <1>0, <2>1 DEF Stage, Sound, Written
    <2>3. Closing(msgs) \in Message /\ Closing(msgs) \in Line /\ Closing(msgs).kind = "result"
      BY <1>0, <2>2, MessageTypes DEF Line, Closing, Results
    <2>4. disk'.lines = Append(D, Closing(msgs)) /\ Final(disk'.lines) = Closing(msgs)
          /\ disk'.lines # << >>
      BY <1>0, <2>1, <2>3, PutCloses
    <2>5. CutShort(disk'.lines) /\ Unfinished(disk'.lines)
      BY <1>0, <1>2, <2>2, <2>3, <2>4, UnfinishedAppend DEF Resumable, CutShort
    <2> QED
      BY <2>1, <2>5 DEF Announcing, Resumable, Preparing
  <1>5. CASE CheckContext \/ Summarize \/ BackUp \/ Copy \/ RenameFails
    <2>1. /\ disk' = disk /\ noted' = noted /\ pc \in Preparing /\ pc' \in Preparing
      BY <1>5 DEF CheckContext, Summarize, BackUp, Copy, RenameFails, files, memory, Preparing
    <2> QED
      BY <1>2, <2>1 DEF Announcing, Preparing
  <1>6. CASE Rename
    <2>1. PICK cut \in CutIndex(msgs) : disk' = FileOf(Folded(msgs, cut))
      BY <1>6 DEF Rename
    <2>2. pc = "rename" /\ pc' = "reload" /\ noted' = noted
      BY <1>6 DEF Rename, memory
    <2>3. msgs = D /\ Replayable(msgs)
      BY <1>0, <2>2 DEF Sound, Seen, Written, Preparing
    <2>4. Resumable(disk'.lines) /\ (CutShort(D) => CutShort(disk'.lines))
      BY <1>0, <1>2, <2>1, <2>3, FoldedType, FoldedResumable DEF FileOf
    <2> QED
      BY <2>2, <2>4 DEF Announcing, Preparing
  <1>7. CASE Reload
    <2>1. disk' = disk /\ noted' = noted /\ pc = "reload" /\ pc' = "begin"
      BY <1>7 DEF Reload, files
    <2> QED
      BY <1>2, <2>1 DEF Announcing, Preparing
  <1>8. CASE Unloadable
    <2>1. disk' = disk /\ pc' = "idle" /\ noted' = FALSE
      BY <1>8 DEF Unloadable, Exit, files
    <2> QED
      BY <1>2, <2>1 DEF Announcing, Preparing
  <1>9. CASE Begin
    <2>1. /\ pc = "begin" /\ pc' = "turn" /\ disk' = disk
          /\ noted' = (noted \/ CutShort(msgs))
      BY <1>9 DEF Begin, files
    <2>2. msgs = D /\ ~Dangling(D)
      BY <1>0, <2>1 DEF Sound, Seen, Written, Preparing, Replayable, Unanswered, Calls,
           Dangling, Named
    <2>3. noted' <=> Unfinished(D)
      BY <1>2, <2>1, <2>2 DEF Announcing, Resumable, Preparing
    <2> QED
      BY <1>2, <2>1, <2>3 DEF Announcing, Preparing
  <1> QED
    BY <1>3, <1>4, <1>5, <1>6, <1>7, <1>8, <1>9 DEF Starting

LEMMA TurningAnnouncing ==
    ASSUME NoId \notin Ids, TypeOK, Stage, Queued, Whole, Announcing, Turning
    PROVE  Announcing'
  <1> DEFINE D == disk.lines
  <1>0. /\ disk \in File /\ D \in Seq(Line) /\ ~disk.open /\ turn \in Nat
        /\ msgs \in Seq(Message) /\ msgs \in Seq(Line)
    BY MessagesAreLines DEF TypeOK, FilesOK, MessagesOK, CountersOK, File, Whole, Clean
  <1>1. CASE HitCap \/ WindDown \/ TakeTurn
    <2>1. /\ pc = "turn" /\ disk' = disk /\ turn' = turn /\ noted' = noted
          /\ pc' \in {"save", "chat"}
      BY <1>1 DEF HitCap, WindDown, TakeTurn, files
    <2> QED
      BY <2>1 DEF Announcing, BetweenLines, Preparing
  <1>2. ASSUME NEW calls \in Replies, NEW size \in Sizes, Chat(calls, size) PROVE Announcing'
    <2> DEFINE r == Reply(calls)
    <2>1. /\ pc = "chat" /\ pc' = "flush" /\ disk' = disk /\ msgs' = Append(msgs, r)
      BY <1>2 DEF Chat, files
    <2>2. calls \in SUBSET Ids /\ r.kind = "reply" /\ r.ids = calls
      BY TurnAssumption DEF Reply
    <2>3. r \in Line
      BY <2>2, MessageTypes DEF Line
    <2> HIDE DEF r
    <2>4. Final(msgs') = r
      BY <1>0, <2>1, <2>3, FinalOfAppend
    <2>5. r.ids = {} \/ Named(r) # {}
      BY <2>2 DEF Named
    <2> QED
      BY <2>1, <2>2, <2>4, <2>5 DEF Announcing, BetweenLines, Preparing
  <1>3. CASE Flush
    <2>0. /\ pc = "flush" /\ Head(pending) \in Message /\ msgs' = msgs
          /\ disk'.lines = Append(D, Head(pending)) /\ Final(disk'.lines) = Head(pending)
          /\ disk'.lines # << >> /\ Head(pending) \in Line
      <3>1. /\ pc = "flush" /\ Head(pending) \in Message /\ msgs' = msgs
            /\ disk' = Put(disk, Head(pending))
        BY <1>3, FlushForms
      <3> QED
        BY <1>0, <3>1, PutCloses DEF Line
    <2>1. CASE pending' = << Final(msgs) >>
      <3>1. turn' = 0 /\ pc' = "flush" /\ Final(msgs).kind = "reply"
        BY <1>3, <2>1, FlushForms
      <3>2. BetweenLines'
        BY <2>0, <2>1, <3>1 DEF BetweenLines
      <3> QED
        BY <2>0, <3>1, <3>2 DEF Announcing, Preparing
    <2>2. CASE pending' # << Final(msgs) >> /\ Final(msgs).kind = "reply"
      <3>1. Head(pending) = Final(msgs) /\ todo = Final(msgs).ids
            /\ ((todo = {} /\ pc' = "save") \/ (todo # {} /\ pc' = "tools"))
        BY <1>3, <2>2, FlushForms
      <3>2. Unfinished(disk'.lines) <=> Final(msgs).ids # {}
        BY <1>0, <2>0, <2>2, <3>1, UnfinishedAppend
      <3>3. Final(msgs).ids = {} \/ Named(Final(msgs)) # {}
        BY <2>0, <2>2 DEF Announcing
      <3>4. Dangling(disk'.lines) <=> Named(Final(msgs)) # {}
        BY <2>0, <2>2, <3>1 DEF Dangling
      <3>5. ~CutShort(disk'.lines)
        BY <2>0, <2>2, <3>1 DEF CutShort
      <3>6. Final(msgs).ids = {} => Named(Final(msgs)) = {}
        BY DEF Named
      <3>7. Resumable(disk'.lines)
        BY <3>2, <3>3, <3>4, <3>5, <3>6 DEF Resumable
      <3> QED
        BY <2>0, <3>1, <3>3, <3>7 DEF Announcing, Preparing
    <2>3. CASE pending' # << Final(msgs) >> /\ Final(msgs).kind # "reply"
      <3>1. /\ Head(pending) = Final(msgs) /\ Final(msgs).kind = "result" /\ pc' = "turn"
            /\ turn' = turn + 1
        BY <1>3, <2>3, FlushForms
      <3>2. Unfinished(disk'.lines)
        BY <1>0, <2>0, <3>1, UnfinishedAppend DEF Announcing
      <3>3. Resumable(disk'.lines)
        BY <2>0, <3>1, <3>2 DEF Resumable, CutShort
      <3> QED
        BY <1>0, <3>1, <3>3 DEF Announcing, Preparing
    <2> QED
      BY <2>1, <2>2, <2>3
  <1>4. ASSUME NEW id \in Ids, CallTool(id) PROVE Announcing'
    BY <1>4 DEF CallTool, files, Announcing, BetweenLines, Preparing
  <1>5. CASE GiveResults
    <2>1. /\ pc = "tools" /\ pc' = "flush" /\ disk' = disk /\ turn' = turn
          /\ msgs' = Append(msgs, Results(Final(msgs).ids))
          /\ pending' = << Results(Final(msgs).ids) >>
      BY <1>5 DEF GiveResults, files
    <2>2. Final(msgs) \in Line /\ Results(Final(msgs).ids).kind = "result"
      BY <1>0, <2>1 DEF Stage, Final, Results
    <2>3. Results(Final(msgs).ids) \in Line
      BY <2>2, MessageTypes DEF Line
    <2>4. Final(msgs').kind = "result"
      BY <1>0, <2>1, <2>2, <2>3, FinalOfAppend
    <2>5. Resumable(D) /\ Final(D) = Final(msgs) /\ D # << >> /\ Named(Final(msgs)) # {}
          /\ Final(msgs).kind = "reply"
      BY <2>1 DEF Announcing, BetweenLines, Queued, QueueInTools
    <2>6. Unfinished(D)
      BY <2>5 DEF Resumable, Dangling
    <2> QED
      BY <2>1, <2>4, <2>5, <2>6 DEF Announcing, Preparing
  <1> QED
    BY <1>1, <1>2, <1>3, <1>4, <1>5 DEF Turning

LEMMA NextAnnouncing ==
    ASSUME {"torn", "split", "repair"} \cap Faults = {}, NoId \notin Ids,
           TypeOK, Stage, Sound, Queued, Whole, Announcing, [Next]_vars
    PROVE  Announcing'
  <1>0. "torn" \notin Faults /\ "split" \notin Faults
    OBVIOUS
  <1>1. CASE Starting
    BY <1>1, StartingAnnouncing
  <1>2. CASE Turning
    BY <1>2, TurningAnnouncing
  <1>3. CASE TruncateMeta \/ WriteMeta
    <2>1. disk' = disk /\ pc \in {"save", "meta"} /\ pc' \in {"meta", "report"}
      BY <1>3 DEF TruncateMeta, WriteMeta
    <2> QED
      BY <2>1 DEF Announcing, BetweenLines, Preparing
  <1>4. CASE Report \/ Fail \/ FailInWrite \/ Kill \/ KillInWrite
    <2>1. disk' = disk /\ ~BetweenLines /\ pc' = "idle" /\ noted' = FALSE
      BY <1>0, <1>4 DEF Report, Fail, FailInWrite, Kill, KillInWrite, Exit, files, BetweenLines
    <2> QED
      BY <2>1 DEF Announcing, Preparing
  <1>5. CASE \E kind \in Inputs : Launch(kind)
    <2>1. disk' = disk /\ pc = "idle" /\ pc' = "load" /\ noted' = noted
      BY <1>5 DEF Launch, files
    <2> QED
      BY <2>1 DEF Announcing, BetweenLines, Preparing
  <1>6. CASE Tick \/ UNCHANGED vars
    BY <1>6 DEF Tick, vars, files, memory, Announcing, BetweenLines
  <1> QED
    BY <1>1, <1>2, <1>3, <1>4, <1>5, <1>6 DEF Next, Process, Ending

\* The first request of a run carries the resume note exactly when the record
\* shows unfinished work, however often the session was killed, resumed and
\* compacted (historyWasCutShort and the repair in Turn, the tail of CutIndex).
\* Excluded are what lets a message stand behind the unfinished work (a kill
\* inside the first append, a repair that was not saved) and calls without an
\* id, which the repair does not look at.
THEOREM WorkIsAnnounced ==
    ASSUME {"torn", "split", "repair"} \cap Faults = {}, NoId \notin Ids,
           \A h \in Histories : Resumable(h)
    PROVE  Spec => []ResumeAnnounced
  <1>1. Init => Whole /\ Announcing
    <2> SUFFICES ASSUME Init PROVE Announcing
      BY InitWhole
    <2>1. PICK h \in Histories : disk = FileOf(h)
      BY DEF Init
    <2>2. disk.lines = h /\ Resumable(h) /\ pc = "idle" /\ ~noted
      BY <2>1 DEF FileOf, Init
    <2> QED
      BY <2>2 DEF Announcing, Preparing
  <1>2. TypeOK /\ Stage /\ Sound /\ Queued /\ Whole /\ Announcing /\ [Next]_vars =>
          (Whole /\ Announcing)'
    BY WholeInduction, NextAnnouncing
  <1>3. TypeOK /\ Whole /\ Announcing => ResumeAnnounced
    BY CleanLoaded DEF TypeOK, FilesOK, Whole, Announcing, ResumeAnnounced
  <1>4. Spec => [](TypeOK /\ Stage /\ Queued)
    BY Queueing
  <1>5. Spec => [](TypeOK /\ Stage /\ Sound)
    BY Soundness
  <1> QED
    BY <1>1, <1>2, <1>3, <1>4, <1>5, PTL DEF Spec
=============================================================================
