-------------------------- MODULE AgentTurnProofs --------------------------
(***************************************************************************)
(* Theorems about AgentTurn, for every value of its constants: the types   *)
(* of its variables, that no request ever shows the provider half of a     *)
(* tool call and its result, and that the session file is a Transcript.    *)
(***************************************************************************)
EXTENDS AgentTurn, RecordLemmas

(***************************************************************************)
(* Types.                                                                  *)
(***************************************************************************)

LEMMA NoMetaType == NoMeta \in Metas
  BY DEF NoMeta, Metas

LEMMA InitTypeOK == Init => TypeOK
  <1> SUFFICES ASSUME Init PROVE TypeOK
    OBVIOUS
  <1>1. FilesOK
    <2>1. PICK h \in Histories : disk = FileOf(h)
      BY DEF Init
    <2>2. h \in Seq(Line)
      BY TurnAssumption DEF Line
    <2> QED
      BY <2>1, <2>2, EmptyTypes, NoMetaType DEF Init, FilesOK
  <1>2. MessagesOK
    BY EmptyTypes, NoMetaType DEF Init, MessagesOK
  <1>3. CountersOK
    BY EmptyTypes, NoMetaType DEF Init, CountersOK
  <1>4. FlagsOK
    BY DEF Init, FlagsOK
  <1>5. LabelsOK
    BY DEF Init, LabelsOK, PCs, WrapUps
  <1> QED
    BY <1>1, <1>2, <1>3, <1>4, <1>5 DEF TypeOK

\* Both updates of the metadata, and the reasons to wind down.
LEMMA MetaTypes ==
    ASSUME NEW m \in Metas
    PROVE  /\ \A n \in Nat : [m EXCEPT !.tokens = n] \in Metas
           /\ [m EXCEPT !.count = @ + 1] \in Metas
  BY DEF Metas

LEMMA ReasonType == wrapUpReason \in WrapUps
  BY DEF wrapUpReason, WrapUps

\* What a step may rely on where it takes a message apart.
Stage ==
    /\ pc = "repair" => Dangling(msgs)
    /\ pc = "flush" => pending # << >> /\ msgs # << >>
    /\ pc = "tools" => msgs # << >>

\* The end of a process, however it comes about.
LEMMA ExitTypes ==
    ASSUME TypeOK, NEW how \in WrapUps \cup {"end_turn", "unread", "error", "killed"}, Exit(how)
    PROVE  MessagesOK' /\ CountersOK' /\ FlagsOK' /\ LabelsOK'
  <1>1. MessagesOK'
    BY EmptyTypes, NoMetaType DEF Exit, MessagesOK
  <1>2. CountersOK'
    BY EmptyTypes, NoMetaType DEF TypeOK, Exit, CountersOK
  <1>3. FlagsOK'
    BY DEF Exit, FlagsOK
  <1>4. LabelsOK'
    BY DEF Exit, LabelsOK, PCs, WrapUps
  <1> QED
    BY <1>1, <1>2, <1>3, <1>4

LEMMA NextTypeOK == TypeOK /\ Stage /\ [Next]_vars => TypeOK' /\ Stage'
  <1> SUFFICES ASSUME TypeOK, Stage, [Next]_vars PROVE TypeOK' /\ Stage'
    OBVIOUS
  <1> USE DEF TypeOK, Stage
  <1>1. ASSUME NEW kind \in Inputs, Launch(kind) PROVE TypeOK' /\ Stage'
    <2>1. kind \in {"request", "media"}
      BY TurnAssumption
    <2> QED
      BY <1>1, <2>1 DEF Launch, files, FilesOK, MessagesOK, CountersOK, FlagsOK, LabelsOK,
         PCs, WrapUps
  <1>2. CASE LoadHistory
    BY <1>2, LoadedType DEF LoadHistory, files, history, FilesOK, MessagesOK, CountersOK,
       FlagsOK, LabelsOK, PCs, WrapUps
  <1>3. CASE PersistRepair
    <2>1. Closing(msgs) \in Message /\ Closing(msgs) \in Line
      BY <1>3, MessageTypes, MessagesAreLines DEF PersistRepair, MessagesOK, Line
    <2>2. FilesOK'
      BY <1>3, <2>1, FileTypes DEF PersistRepair, FilesOK
    <2>3. MessagesOK'
      BY <1>3, <2>1 DEF PersistRepair, MessagesOK
    <2> QED
      BY <1>3, <2>2, <2>3 DEF PersistRepair, history, CountersOK, FlagsOK, LabelsOK,
         PCs, WrapUps
  <1>4. CASE CheckContext \/ Summarize
    BY <1>4 DEF CheckContext, Summarize, files, memory, history, FilesOK, MessagesOK,
       CountersOK, FlagsOK, LabelsOK, PCs, WrapUps
  <1>5. CASE BackUp \/ Copy
    BY <1>5, EmptyTypes, NoMetaType DEF BackUp, Copy, memory, history, FilesOK, MessagesOK,
       CountersOK, FlagsOK, LabelsOK, PCs, WrapUps
  <1>6. CASE Rename \/ RenameFails
    <2>1. \A cut \in CutIndex(msgs) : FileOf(Folded(msgs, cut)) \in File
      BY FoldedType, EmptyTypes, MessagesAreLines DEF MessagesOK
    <2> QED
      BY <1>6, <2>1 DEF Rename, RenameFails, files, memory, history, FilesOK, MessagesOK,
         CountersOK, FlagsOK, LabelsOK, PCs, WrapUps
  <1>7. CASE Reload
    <2>1. FilesOK' /\ MessagesOK'
      BY <1>7, LoadedType DEF Reload, files, FilesOK, MessagesOK
    <2>2. CountersOK'
      BY <1>7, MetaTypes DEF Reload, history, CountersOK
    <2> QED
      BY <1>7, <2>1, <2>2 DEF Reload, history, FlagsOK, LabelsOK, PCs, WrapUps
  <1>8. CASE Begin
    BY <1>8, MessageTypes DEF Begin, files, history, FilesOK, MessagesOK, CountersOK,
       FlagsOK, LabelsOK, PCs, WrapUps, Kinds, Line
  <1>9. CASE HitCap \/ WindDown \/ TakeTurn
    <2>1. Said("note") \in Message
      BY MessageTypes DEF Kinds
    <2>2. MessagesOK'
      BY <1>9, <2>1 DEF HitCap, WindDown, TakeTurn, MessagesOK
    <2>3. LabelsOK'
      BY <1>9, ReasonType DEF HitCap, WindDown, TakeTurn, history, LabelsOK, PCs, WrapUps
    <2> QED
      BY <1>9, <2>2, <2>3 DEF HitCap, WindDown, TakeTurn, files, history, FilesOK,
         CountersOK, FlagsOK
  <1>10. ASSUME NEW calls \in Replies, NEW size \in Sizes, Chat(calls, size)
         PROVE  TypeOK' /\ Stage'
    <2>1. calls \in SUBSET Ids /\ size \in Nat
      BY TurnAssumption
    <2>2. Reply(calls) \in Message
      BY <2>1, MessageTypes
    <2>3. MessagesOK' /\ Stage'
      BY <1>10, <2>1, <2>2 DEF Chat, MessagesOK
    <2>4. CountersOK'
      BY <1>10, <2>1, MetaTypes DEF Chat, history, CountersOK
    <2> QED
      BY <1>10, <2>3, <2>4 DEF Chat, files, history, FilesOK, FlagsOK, LabelsOK, PCs, WrapUps
  <1>11. CASE Flush
    <2>1. Head(pending) \in Message /\ Tail(pending) \in Seq(Message)
      BY <1>11 DEF Flush, WriteLine, MessagesOK
    <2>2. FilesOK'
      BY <1>11, <2>1, FileTypes DEF Flush, WriteLine, FilesOK
    <2>3. MessagesOK'
      BY <1>11, <2>1 DEF Flush, WriteLine, MessagesOK
    <2>4. Stage'
      <3>1. Len(pending) > 1 => Len(Tail(pending)) > 0
        BY <2>1, HeadTailProperties DEF MessagesOK
      <3> QED
        BY <1>11, <2>1, <3>1 DEF Flush, WriteLine
    <2>5. CountersOK'
      BY <1>11 DEF Flush, WriteLine, history, CountersOK
    <2>6. FlagsOK'
      BY <1>11 DEF Flush, WriteLine, FlagsOK
    <2>7. LabelsOK'
      BY <1>11 DEF Flush, WriteLine, history, LabelsOK, PCs, WrapUps
    <2> QED
      BY <2>2, <2>3, <2>4, <2>5, <2>6, <2>7
  <1>12. ASSUME NEW id \in Ids, CallTool(id) PROVE TypeOK' /\ Stage'
    BY <1>12 DEF CallTool, files, history, FilesOK, MessagesOK,
       CountersOK, FlagsOK, LabelsOK, PCs, WrapUps
  <1>13. CASE GiveResults
    <2>1. Final(msgs) \in Line
      BY <1>13, MessagesAreLines DEF GiveResults, MessagesOK, Final
    <2>2. Results(Final(msgs).ids) \in Message
      BY <2>1, MessageTypes
    <2>3. MessagesOK' /\ Stage'
      BY <1>13, <2>2 DEF GiveResults, MessagesOK
    <2> QED
      BY <1>13, <2>3 DEF GiveResults, files, history, FilesOK, CountersOK, FlagsOK,
         LabelsOK, PCs, WrapUps
  <1>14. CASE TruncateMeta \/ WriteMeta
    BY <1>14, EmptyTypes, NoMetaType DEF TruncateMeta, WriteMeta, memory, history, FilesOK, MessagesOK,
       CountersOK, FlagsOK, LabelsOK, PCs, WrapUps
  <1>15. CASE Report \/ Unloadable \/ Fail \/ Kill
    <2>1. stop \in WrapUps \cup {"end_turn", "unread", "error", "killed"}
      BY DEF LabelsOK
    <2>2. \E how \in WrapUps \cup {"end_turn", "unread", "error", "killed"} : Exit(how)
      BY <1>15, <2>1 DEF Report, Unloadable, Fail, Kill
    <2>3. FilesOK'
      BY <1>15 DEF Report, Unloadable, Fail, Kill, files, FilesOK
    <2>4. Stage'
      BY <2>2 DEF Exit
    <2> QED
      BY <2>2, <2>3, <2>4, ExitTypes
  <1>16. CASE KillInWrite \/ FailInWrite
    <2>1. pc = "repair" => Closing(msgs) \in Message
      BY MessageTypes, MessagesAreLines DEF MessagesOK
    <2>2. pc = "flush" => Head(pending) \in Message
      BY DEF MessagesOK
    <2>3. FilesOK'
      BY <1>16, <2>1, <2>2, FileTypes DEF KillInWrite, FailInWrite, FilesOK
    <2>4. Stage'
      BY <1>16 DEF KillInWrite, FailInWrite, Exit
    <2> QED
      BY <1>16, <2>3, <2>4, ExitTypes DEF KillInWrite, FailInWrite
  <1>17. CASE Tick
    BY <1>17 DEF Tick, files, history, FilesOK, MessagesOK,
       CountersOK, FlagsOK, LabelsOK, PCs, WrapUps
  <1>18. CASE UNCHANGED vars
    BY <1>18 DEF vars, files, memory, history, FilesOK, MessagesOK,
       CountersOK, FlagsOK, LabelsOK
  <1> QED
    BY <1>1, <1>2, <1>3, <1>4, <1>5, <1>6, <1>7, <1>8, <1>9, <1>10, <1>11, <1>12, <1>13,
       <1>14, <1>15, <1>16, <1>17, <1>18
       DEF Next, Process, Starting, Turning, Ending

\* Every variable keeps values of its kind, whatever fails and whenever.
THEOREM TypeCorrect == Spec => []TypeOK
  <1>1. Init => TypeOK /\ Stage
    BY InitTypeOK DEF Init, Stage
  <1>2. TypeOK /\ Stage /\ [Next]_vars => (TypeOK /\ Stage)'
    BY NextTypeOK
  <1> QED
    BY <1>1, <1>2, PTL DEF Spec

(***************************************************************************)
(* Calls and their results.                                                *)
(*                                                                         *)
(* FilePaired alone is not inductive: whether the next line fits the file  *)
(* depends on what the process has in memory.  The invariant says, place   *)
(* by place, what the view in memory, the messages not yet written and the *)
(* file have to do with each other; of a file that is not clean (a line    *)
(* was torn) it says that the next line will make it unloadable, so that   *)
(* nothing need be said of what fits it.                                   *)
(***************************************************************************)

\* Where the view in memory is what the file holds.
Preparing == {"check", "summarize", "backup", "copy", "rename", "begin"}

Seen ==
    /\ pc = "repair" => Paired(msgs)
    /\ pc \in Preparing \cup {"turn", "chat"} => Replayable(msgs)
    /\ pc \in {"flush", "tools"} => Paired(msgs)
    /\ pc = "tools" => Final(msgs).kind = "reply"

Unwritten ==
    /\ pc \in {"turn", "chat"} => pending \in { << >>, << Said(input) >> }
    /\ pc = "flush" =>
         \/ /\ Final(msgs).kind = "reply"
            /\ pending \in { << Final(msgs) >>, << Said(input), Final(msgs) >> }
            /\ todo = Final(msgs).ids
         \/ /\ Final(msgs).kind = "result"
            /\ pending = << Final(msgs) >>
            /\ Replayable(msgs)
    /\ pc = "tools" => todo \subseteq Final(msgs).ids

Written ==
    /\ PairedIfLoadable(disk)
    /\ pc \in Preparing \cup {"repair"} => (Clean(disk) => disk.lines = msgs)
    /\ pc = "reload" => (Clean(disk) /\ Replayable(disk.lines))
    /\ pc \in {"turn", "chat"} => (Clean(disk) => ~Unanswered(disk.lines))
    /\ pc \in {"turn", "chat"} /\ pending = << >> => ~disk.open
    /\ pc = "flush" /\ Len(pending) = 1 => ~disk.open
    /\ pc = "flush" /\ Final(msgs).kind = "reply" => (Clean(disk) => ~Unanswered(disk.lines))
    /\ pc = "flush" /\ Final(msgs).kind = "result" => Fits(disk, Final(msgs))
    /\ pc = "tools" =>
         disk.lines # << >> /\ Final(disk.lines) = Final(msgs) /\ ~disk.open

Sound == Seen /\ Unwritten /\ Written

\* Without a process, only the file matters.
LEMMA ExitSound ==
    ASSUME NEW how, Exit(how), PairedIfLoadable(disk)'
    PROVE  Sound'
  BY DEF Exit, Sound, Seen, Unwritten, Written, Preparing

LEMMA InitSound == Init => Sound
  <1> SUFFICES ASSUME Init PROVE Sound
    OBVIOUS
  <1>1. PICK h \in Histories : disk = FileOf(h)
    BY DEF Init
  <1>2. h \in Seq(Message) /\ Paired(h)
    BY TurnAssumption
  <1>3. PairedIfLoadable(disk)
    BY <1>1, <1>2, FileOfClean DEF PairedIfLoadable
  <1> QED
    BY <1>3 DEF Init, Sound, Seen, Unwritten, Written, Preparing

LEMMA StartingSound ==
    ASSUME TypeOK, Stage, Sound, Starting, "repair" \notin Faults, NoId \notin Ids
    PROVE  Sound'
  <1> DEFINE L == Loaded(disk)
  <1>0. disk \in File /\ msgs \in Seq(Message) /\ msgs \in Seq(Line)
    BY MessagesAreLines DEF TypeOK, FilesOK, MessagesOK
  <1>1. CASE LoadHistory
    <2>1. L \in Seq(Line) /\ Paired(L)
      BY <1>0, <1>1, FileTypes DEF LoadHistory, Sound, Written, PairedIfLoadable
    <2>2. Clean(disk) => disk.lines = L
      BY <1>0, CleanLoaded
    <2>3. disk' = disk /\ msgs' = L /\ (IF Dangling(L) THEN pc' = "repair" ELSE pc' = "check")
      BY <1>1 DEF LoadHistory, files
    <2> HIDE DEF L
    <2>4. Seen'
      BY <2>1, <2>3, DanglingIsUnanswered DEF Seen, Preparing, Replayable
    <2>5. Written'
      BY <2>2, <2>3 DEF Sound, Written, Preparing
    <2> QED
      BY <2>3, <2>4, <2>5 DEF Sound, Unwritten
  <1>2. CASE PersistRepair
    <2>1. /\ Paired(msgs) /\ Dangling(msgs)
          /\ Clean(disk) => disk.lines = msgs
      BY <1>2 DEF PersistRepair, Sound, Seen, Written, Stage
    <2>2. /\ Closing(msgs) \in Message
          /\ MayFollow(Final(msgs), Closing(msgs))
          /\ Replayable(Append(msgs, Closing(msgs)))
      BY <1>0, <2>1, ClosingCloses
    <2>3. disk' = Put(disk, Closing(msgs)) /\ msgs' = Append(msgs, Closing(msgs)) /\ pc' = "check"
      BY <1>2 DEF PersistRepair
    <2>4. Fits(disk, Closing(msgs))
      BY <2>1, <2>2 DEF Fits, Dangling
    <2>5. PairedIfLoadable(disk')
      BY <1>0, <2>2, <2>3, <2>4, PutPaired DEF Sound, Written
    <2>6. Clean(disk') => disk'.lines = msgs'
      BY <1>0, <2>1, <2>2, <2>3, PutClean
    <2> QED
      BY <2>2, <2>3, <2>5, <2>6 DEF Sound, Seen, Unwritten, Written, Preparing
  <1>3. CASE CheckContext \/ Summarize \/ BackUp \/ Copy \/ RenameFails
    <2>1. disk' = disk /\ msgs' = msgs /\ pc \in Preparing
      BY <1>3 DEF CheckContext, Summarize, BackUp, Copy, RenameFails, files, memory, Preparing
    <2>2. pc' \in Preparing
      BY <1>3 DEF CheckContext, Summarize, BackUp, Copy, RenameFails, Preparing
    <2> QED
      BY <2>1, <2>2 DEF Sound, Seen, Unwritten, Written, Preparing
  <1>4. CASE Rename
    <2>1. PICK cut \in CutIndex(msgs) : disk' = FileOf(Folded(msgs, cut))
      BY <1>4 DEF Rename
    <2>2. /\ cut \in 1 .. Len(msgs) - 1 /\ msgs[cut + 1].kind \in UserText
          /\ Replayable(msgs)
      BY <1>0, <1>4, FoldedType DEF Rename, Sound, Seen, Preparing
    <2>3. Replayable(Folded(msgs, cut))
      BY <1>0, <2>2, FoldedReplayable
    <2>4. Clean(disk') /\ Loaded(disk') = Folded(msgs, cut) /\ disk'.lines = Folded(msgs, cut)
      BY <1>0, <2>1, FoldedType, FileOfClean DEF FileOf
    <2>5. pc' = "reload"
      BY <1>4 DEF Rename
    <2> QED
      BY <2>3, <2>4, <2>5 DEF Sound, Seen, Unwritten, Written, Preparing, PairedIfLoadable,
         Replayable
  <1>5. CASE Reload
    <2>1. msgs' = disk.lines /\ disk' = disk /\ pc' = "begin" /\ Replayable(disk.lines)
      BY <1>0, <1>5, CleanLoaded DEF Reload, files, Sound, Written
    <2> QED
      BY <2>1 DEF Sound, Seen, Unwritten, Written, Preparing
  <1>6. CASE Unloadable
    BY <1>6, ExitSound DEF Unloadable, files, Sound, Written
  <1>7. CASE Begin
    <2>1. Replayable(msgs) /\ input \in Kinds \ {"reply", "result"}
      BY <1>7 DEF Begin, Sound, Seen, Preparing, TypeOK, LabelsOK, Kinds
    <2>2. "note" \in Kinds \ {"reply", "result"}
      BY DEF Kinds
    <2>3. Said("note") \in Line /\ Replayable(Append(msgs, Said("note")))
      BY <1>0, <2>1, <2>2, SaidKeepsReplayable
    <2>4. PICK h \in Seq(Line) : Replayable(h) /\ msgs' = Append(h, Said(input))
      <3>1. CASE noted'
        <4>1. msgs' = Append(Append(msgs, Said("note")), Said(input))
          BY <1>7, <3>1 DEF Begin
        <4>2. Append(msgs, Said("note")) \in Seq(Line)
          BY <1>0, <2>3
        <4> QED
          BY <2>3, <4>1, <4>2
      <3>2. CASE ~noted'
        BY <1>0, <1>7, <2>1, <3>2 DEF Begin
      <3> QED
        BY <3>1, <3>2
    <2>5. Said(input) \in Line /\ Replayable(Append(h, Said(input)))
      BY <2>1, <2>4, SaidKeepsReplayable
    <2>6. Replayable(msgs')
      BY <2>4, <2>5
    <2>7. pc' = "turn" /\ pending' = << Said(input') >> /\ disk' = disk
      BY <1>7 DEF Begin, files
    <2>8. Clean(disk) => ~Unanswered(disk.lines)
      BY <1>7, <2>1 DEF Begin, Sound, Written, Preparing, Replayable
    <2> QED
      BY <2>6, <2>7, <2>8 DEF Sound, Seen, Unwritten, Written, Preparing
  <1> QED
    BY <1>1, <1>2, <1>3, <1>4, <1>5, <1>6, <1>7 DEF Starting

LEMMA AppendToOne ==
    ASSUME NEW a \in Message, NEW b \in Message
    PROVE  Append(<< a >>, b) = << a, b >>
  <1>1. << a >> \in Seq(Message) /\ Len(<< a >>) = 1
    OBVIOUS
  <1>2. /\ Append(<< a >>, b) \in Seq(Message) /\ Len(Append(<< a >>, b)) = 2
        /\ Append(<< a >>, b)[1] = a /\ Append(<< a >>, b)[2] = b
    BY <1>1
  <1>3. /\ << a, b >> \in Seq(Message) /\ Len(<< a, b >>) = 2
        /\ << a, b >>[1] = a /\ << a, b >>[2] = b
    OBVIOUS
  <1>4. \A i \in 1 .. 2 : Append(<< a >>, b)[i] = << a, b >>[i]
    BY <1>2, <1>3
  <1> QED
    BY <1>2, <1>3, <1>4, SeqEqual

\* The next message to be written fits the file.
LEMMA HeadFits ==
    ASSUME TypeOK, Stage, Sound, pc = "flush"
    PROVE  Fits(disk, Head(pending))
  <1> DEFINE r == Final(msgs)
  <1>0. disk \in File /\ disk.lines \in Seq(Line)
    BY DEF TypeOK, FilesOK, File
  <1>1. CASE r.kind = "reply" /\ pending \in { << r >>, << Said(input), r >> }
    <2>1. Head(pending).kind # "result"
      <3>1. Said(input).kind = input /\ input # "result"
        BY DEF Said, TypeOK, LabelsOK
      <3> QED
        BY <1>1, <3>1
    <2>2. Clean(disk) => ~Unanswered(disk.lines)
      BY <1>1 DEF Sound, Written
    <2> QED
      BY <1>0, <2>1, <2>2, PlainMayFollow DEF Fits
  <1>2. CASE r.kind = "result" /\ pending = << r >>
    BY <1>2 DEF Sound, Written
  <1> QED
    BY <1>1, <1>2 DEF Sound, Unwritten

LEMMA TurningSound ==
    ASSUME TypeOK, Stage, Sound, Turning
    PROVE  Sound'
  <1>0. /\ disk \in File /\ msgs \in Seq(Line) /\ pending \in Seq(Message)
        /\ input \in Kinds \ {"reply", "result"}
    BY MessagesAreLines DEF TypeOK, FilesOK, MessagesOK, LabelsOK, Kinds
  <1>1. CASE HitCap
    BY <1>1 DEF HitCap, files, Sound, Seen, Unwritten, Written, Preparing
  <1>2. CASE WindDown
    <2>1. "note" \in Kinds \ {"reply", "result"}
      BY DEF Kinds
    <2>2. Replayable(Append(msgs, Said("note")))
      BY <1>0, <1>2, <2>1, SaidKeepsReplayable DEF WindDown, Sound, Seen
    <2>3. /\ disk' = disk /\ msgs' = Append(msgs, Said("note")) /\ pending' = pending
          /\ input' = input /\ pc = "turn" /\ pc' = "chat"
      BY <1>2 DEF WindDown, files
    <2> QED
      BY <2>2, <2>3 DEF Sound, Seen, Unwritten, Written, Preparing
  <1>3. CASE TakeTurn
    BY <1>3 DEF TakeTurn, files, Sound, Seen, Unwritten, Written, Preparing
  <1>4. ASSUME NEW calls \in Replies, NEW size \in Sizes, Chat(calls, size) PROVE Sound'
    <2> DEFINE r == Reply(calls)
    <2>1. calls \in SUBSET Ids /\ r.kind = "reply" /\ r.ids = calls
      BY TurnAssumption DEF Reply
    <2>10. r \in Message /\ Said(input) \in Message
      BY <1>0, <2>1, MessageTypes
    <2>2. /\ pc = "chat" /\ pc' = "flush" /\ disk' = disk /\ input' = input
          /\ msgs' = Append(msgs, r) /\ pending' = Append(pending, r) /\ todo' = calls
      BY <1>4 DEF Chat, files
    <2>3. Paired(msgs') /\ Final(msgs') = r
      BY <1>0, <2>1, <2>2, ReplyKeepsPaired DEF Sound, Seen
    <2> HIDE DEF r
    <2>4. pending \in { << >>, << Said(input) >> }
      BY <2>2 DEF Sound, Unwritten
    <2>5. pending' \in { << r >>, << Said(input), r >> }
      <3>1. Append(<< >>, r) = << r >>
        OBVIOUS
      <3>2. Append(<< Said(input) >>, r) = << Said(input), r >>
        BY <2>10, AppendToOne
      <3> QED
        BY <2>2, <2>4, <3>1, <3>2
    <2>6. Len(pending') = 1 => pending = << >>
      BY <2>2, <2>4
    <2>7. Seen'
      BY <2>2, <2>3 DEF Seen, Preparing
    <2>8. Unwritten'
      BY <2>1, <2>2, <2>3, <2>5 DEF Unwritten
    <2>9. Written'
      BY <2>1, <2>2, <2>3, <2>6 DEF Sound, Written, Preparing
    <2> QED
      BY <2>7, <2>8, <2>9 DEF Sound
  <1>5. CASE Flush
    <2> DEFINE m == Head(pending)
               r == Final(msgs)
    <2>1. /\ pc = "flush" /\ disk' = Put(disk, m) /\ pending' = Tail(pending)
          /\ msgs' = msgs /\ input' = input /\ todo' = todo
      BY <1>5 DEF Flush, WriteLine
    <2>2. m \in Message /\ m \in Line
      BY <1>0, <2>1, MessageTypes DEF Stage, Line
    <2>3. disk.lines \in Seq(Line)
      BY <1>0 DEF File
    <2>4. /\ Clean(disk') <=> Clean(disk)
          /\ Clean(disk) => disk'.lines = Append(disk.lines, m)
          /\ ~disk'.open
      BY <1>0, <2>1, <2>2, PutClean
    <2>5. ~disk.open => disk'.lines = Append(disk.lines, m)
      BY <2>1 DEF Put, Closed
    <2>6. disk'.lines = Append(disk.lines, m) =>
            disk'.lines # << >> /\ Final(disk'.lines) = m
      BY <2>2, <2>3 DEF Final
    <2>7. CASE r.kind = "reply" /\ pending = << Said(input), r >>
      <3>1. m = Said(input) /\ pending' = << r >> /\ Len(pending) = 2 /\ m.kind # "reply" /\ m.kind # "result"
        BY <1>0, <2>1, <2>7 DEF Said
      <3>2. Fits(disk, m)
        BY <2>1, HeadFits
      <3>3. PairedIfLoadable(disk')
        BY <1>0, <2>1, <2>2, <3>2, PutPaired DEF Sound, Written
      <3>4. Clean(disk') => ~Unanswered(disk'.lines)
        BY <2>4, <2>6, <3>1 DEF Unanswered, Calls
      <3>5. pc' = "flush"
        BY <1>5, <2>1, <3>1 DEF Flush
      <3> QED
        BY <2>1, <2>4, <2>7, <3>1, <3>3, <3>4, <3>5 DEF Sound, Seen, Unwritten, Written, Preparing
    <2>8. CASE r.kind = "reply" /\ pending = << r >>
      <3>1. m = r /\ Len(pending) = 1 /\ ~disk.open /\ todo = r.ids
        BY <2>1, <2>8 DEF Sound, Written, Unwritten
      <3>2. Fits(disk, m)
        BY <2>1, HeadFits
      <3>3. PairedIfLoadable(disk')
        BY <1>0, <2>1, <2>2, <3>2, PutPaired DEF Sound, Written
      <3>4. disk'.lines # << >> /\ Final(disk'.lines) = r
        BY <2>5, <2>6, <3>1
      <3>5. pc' \in {"save", "tools"}
        BY <1>5, <2>8, <3>1 DEF Flush
      <3> QED
        BY <2>1, <2>4, <2>8, <3>1, <3>3, <3>4, <3>5 DEF Sound, Seen, Unwritten, Written, Preparing
    <2>9. CASE r.kind = "result" /\ pending = << r >> /\ Replayable(msgs)
      <3>1. m = r /\ Len(pending) = 1 /\ pending' = << >>
        BY <2>1, <2>9
      <3>2. Fits(disk, m)
        BY <2>1, HeadFits
      <3>3. PairedIfLoadable(disk')
        BY <1>0, <2>1, <2>2, <3>2, PutPaired DEF Sound, Written
      <3>4. Clean(disk') => ~Unanswered(disk'.lines)
        BY <2>4, <2>6, <2>9, <3>1 DEF Unanswered, Calls
      <3>5. pc' = "turn"
        BY <1>5, <2>9, <3>1 DEF Flush
      <3> QED
        BY <2>1, <2>4, <2>9, <3>1, <3>3, <3>4, <3>5 DEF Sound, Seen, Unwritten, Written, Preparing
    <2> QED
      BY <2>1, <2>7, <2>8, <2>9 DEF Sound, Unwritten
  <1>6. ASSUME NEW id \in Ids, CallTool(id) PROVE Sound'
    <2>1. /\ pc = "tools" /\ pc' = "tools" /\ disk' = disk /\ msgs' = msgs
          /\ todo' \subseteq todo
      BY <1>6 DEF CallTool, files
    <2> QED
      BY <2>1 DEF Sound, Seen, Unwritten, Written, Preparing
  <1>7. CASE GiveResults
    <2> DEFINE r == Results(Final(msgs).ids)
    <2>1. /\ pc = "tools" /\ pc' = "flush" /\ disk' = disk
          /\ msgs' = Append(msgs, r) /\ pending' = << r >>
      BY <1>7 DEF GiveResults, files
    <2>2. Paired(msgs) /\ Final(msgs).kind = "reply" /\ msgs # << >>
      BY <2>1 DEF Sound, Seen, Stage
    <2>3. MayFollow(Final(msgs), r) /\ Replayable(msgs')
      BY <1>0, <2>1, <2>2, ResultsClose
    <2>4. Final(msgs) \in Line
      BY <1>0, <2>2 DEF Final
    <2>5. r \in Line /\ r.kind = "result"
      BY <2>4, MessageTypes DEF Line, Results
    <2> HIDE DEF r
    <2>6. Final(msgs') = r
      BY <1>0, <2>1, <2>5 DEF Final
    <2>7. disk.lines # << >> /\ Final(disk.lines) = Final(msgs) /\ ~(disk.lines = << >>)
      BY <2>1 DEF Sound, Written
    <2>8. Fits(disk', Final(msgs'))
      BY <2>1, <2>3, <2>6, <2>7 DEF Fits
    <2>9. Seen' /\ Unwritten'
      BY <2>1, <2>3, <2>5, <2>6 DEF Seen, Unwritten, Preparing, Replayable
    <2>10. ~disk.open
      BY <2>1 DEF Sound, Written
    <2>11. Written'
      BY <2>1, <2>10, <2>5, <2>6, <2>8 DEF Sound, Written, Preparing
    <2> QED
      BY <2>9, <2>11 DEF Sound
  <1> QED
    BY <1>1, <1>2, <1>3, <1>4, <1>5, <1>6, <1>7 DEF Turning

LEMMA EndingSound ==
    ASSUME TypeOK, Stage, Sound, Ending
    PROVE  Sound'
  <1>1. CASE TruncateMeta \/ WriteMeta
    <2>1. /\ disk' = disk /\ pc' \in {"meta", "report"}
      BY <1>1 DEF TruncateMeta, WriteMeta
    <2> QED
      BY <2>1 DEF Sound, Seen, Unwritten, Written, Preparing
  <1>2. CASE Report
    BY <1>2, ExitSound DEF Report, files, Sound, Written
  <1> QED
    BY <1>1, <1>2 DEF Ending

\* The host: it starts a process, kills it, and lets time pass.
LEMMA HostSound ==
    ASSUME NoId \notin Ids, TypeOK, Stage, Sound,
           (\E kind \in Inputs : Launch(kind))
             \/ Fail \/ FailInWrite \/ Kill \/ KillInWrite \/ Tick
    PROVE  Sound'
  <1>0. disk \in File /\ msgs \in Seq(Line) /\ pending \in Seq(Message)
    BY MessagesAreLines DEF TypeOK, FilesOK, MessagesOK
  <1>1. ASSUME NEW kind \in Inputs, Launch(kind) PROVE Sound'
    <2>1. disk' = disk /\ pc' = "load"
      BY <1>1 DEF Launch, files
    <2> QED
      BY <2>1 DEF Sound, Seen, Unwritten, Written, Preparing
  <1>2. CASE Fail \/ Kill
    BY <1>2, ExitSound DEF Fail, Kill, files, Sound, Written
  <1>3. CASE KillInWrite \/ FailInWrite
    <2>1. CASE pc = "repair" /\ disk' \in TornPuts(disk, Closing(msgs))
      <3>1. /\ Paired(msgs) /\ Dangling(msgs)
            /\ Clean(disk) => disk.lines = msgs
            /\ PairedIfLoadable(disk)
        BY <2>1 DEF Sound, Seen, Written, Stage
      <3>2. Closing(msgs) \in Message /\ MayFollow(Final(msgs), Closing(msgs))
        BY <1>0, <3>1, ClosingCloses
      <3>3. Fits(disk, Closing(msgs))
        BY <3>1, <3>2 DEF Fits, Dangling
      <3>4. PairedIfLoadable(disk')
        BY <1>0, <2>1, <3>1, <3>2, <3>3, TornPaired
      <3> QED
        BY <1>3, <3>4, ExitSound DEF KillInWrite, FailInWrite
    <2>2. CASE pc = "flush" /\ disk' \in TornPuts(disk, Head(pending))
      <3>1. pending # << >> /\ Head(pending) \in Message /\ PairedIfLoadable(disk)
        BY <1>0, <2>2 DEF Stage, Sound, Written
      <3>2. Fits(disk, Head(pending))
        BY <1>0, <2>2, HeadFits
      <3>3. PairedIfLoadable(disk')
        BY <1>0, <2>2, <3>1, <3>2, TornPaired
      <3> QED
        BY <1>3, <3>3, ExitSound DEF KillInWrite, FailInWrite
    <2> QED
      BY <1>3, <2>1, <2>2 DEF KillInWrite, FailInWrite
  <1>4. CASE Tick
    BY <1>4 DEF Tick, files, Sound, Seen, Unwritten, Written, Preparing
  <1> QED
    BY <1>1, <1>2, <1>3, <1>4

LEMMA NextSound ==
    ASSUME "repair" \notin Faults, NoId \notin Ids, TypeOK, Stage, Sound, [Next]_vars
    PROVE  Sound'
  <1>1. CASE UNCHANGED vars
    BY <1>1 DEF vars, files, memory, Sound, Seen, Unwritten, Written, Preparing
  <1> QED
    BY <1>1, StartingSound, TurningSound, EndingSound, HostSound DEF Next, Process

(***************************************************************************)
(* The theorems.  Persisting the repair is assumed to succeed, and every   *)
(* call to have an id: without either they are false, as two runs show.    *)
(***************************************************************************)

LEMMA Soundness ==
    ASSUME "repair" \notin Faults, NoId \notin Ids
    PROVE  Spec => [](TypeOK /\ Stage /\ Sound)
  <1>1. Init => TypeOK /\ Stage /\ Sound
    BY InitTypeOK, InitSound DEF Init, Stage
  <1>2. TypeOK /\ Stage /\ Sound /\ [Next]_vars => (TypeOK /\ Stage /\ Sound)'
    BY NextTypeOK, NextSound
  <1> QED
    BY <1>1, <1>2, PTL DEF Spec

\* Whatever a provider that gives every call an id replies, and however often
\* the runs were killed, failed or tore a line: no request shows the provider
\* half of a call and its result (repairDanglingToolUse and the order of the
\* flushes in Turn).
THEOREM RequestsAreSafe ==
    ASSUME "repair" \notin Faults, NoId \notin Ids
    PROVE  Spec => []SafeToSend
  <1>1. TypeOK /\ Sound => SafeToSend
    <2> SUFFICES ASSUME TypeOK, Sound PROVE SafeToSend
      OBVIOUS
    <2>1. pc = "chat" => Replayable(msgs)
      BY DEF Sound, Seen
    <2>2. ASSUME pc = "summarize", NEW cut \in CutIndex(msgs) PROVE Replayable(Older(msgs, cut))
      <3>1. msgs \in Seq(Message) /\ msgs \in Seq(Line) /\ Paired(msgs)
        BY <2>2, MessagesAreLines DEF TypeOK, MessagesOK, Sound, Seen, Preparing, Replayable
      <3> QED
        BY <3>1, FoldedType, OlderReplayable
    <2> QED
      BY <2>1, <2>2 DEF SafeToSend
  <1> QED
    BY <1>1, Soundness, PTL

\* The same of the file, which is what the next run starts from.
THEOREM FileStaysPaired ==
    ASSUME "repair" \notin Faults, NoId \notin Ids
    PROVE  Spec => []FilePaired
  <1>1. Sound => FilePaired
    BY DEF Sound, Written, PairedIfLoadable, FilePaired
  <1> QED
    BY <1>1, Soundness, PTL

(***************************************************************************)
(* The copy of a compaction.                                               *)
(***************************************************************************)

Copied == pc = "rename" => backup = disk

\* A compacted file takes the place of the session's only when the copy holds
\* all of it (the order of copyFile and Rename in compact.Rewrite).
THEOREM FoldsKeepOriginal == Spec => FoldKeepsOriginal
  <1>1. Init => Copied
    BY DEF Init, Copied
  <1>2. Copied /\ [Next]_vars => Copied'
    <2> SUFFICES ASSUME Copied, [Next]_vars, pc' = "rename" PROVE backup' = disk'
      BY DEF Copied
    <2>1. CASE UNCHANGED vars
      BY <2>1 DEF vars, files, Copied
    <2>2. CASE Starting
      BY <2>2 DEF Starting, LoadHistory, PersistRepair, CheckContext, Summarize, BackUp, Copy,
         Rename, RenameFails, Reload, Unloadable, Begin, Exit
    <2>3. CASE Turning
      <3>1. CASE Flush
        BY <3>1 DEF Flush, WriteLine, Copied
      <3> QED
        BY <2>3, <3>1 DEF Turning, HitCap, WindDown, TakeTurn, Chat, CallTool, GiveResults
    <2>4. CASE Ending \/ (\E kind \in Inputs : Launch(kind))
               \/ Fail \/ FailInWrite \/ Kill \/ KillInWrite
      BY <2>4 DEF Ending, TruncateMeta, WriteMeta, Report, Launch,
         Fail, FailInWrite, Kill, KillInWrite, Exit
    <2>5. CASE Tick
      BY <2>5 DEF Tick, files, Copied
    <2> QED
      BY <2>1, <2>2, <2>3, <2>4, <2>5 DEF Next, Process
  <1>3. Copied /\ [Next]_vars => [folds' # folds => backup = disk /\ backup' = disk]_vars
    <2> SUFFICES ASSUME Copied, Next, folds' # folds PROVE backup = disk /\ backup' = disk
      OBVIOUS
    <2>1. Rename
      BY DEF Next, Process, Starting, Turning, Ending, Launch, LoadHistory, PersistRepair,
         CheckContext, Summarize, BackUp, Copy, RenameFails, Reload, Unloadable, Begin,
         HitCap, WindDown, TakeTurn, Chat, Flush, WriteLine, CallTool, GiveResults,
         TruncateMeta, WriteMeta, Report, Fail, FailInWrite, Kill, KillInWrite, Tick, Exit,
         files, history
    <2> QED
      BY <2>1 DEF Rename, Copied
  <1> QED
    BY <1>1, <1>2, <1>3, PTL DEF Spec, FoldKeepsOriginal

(***************************************************************************)
(* The wind-down.  The cap is out of reach of a run that has not been told *)
(* to conclude: the note comes with the first of the last two turns.       *)
(***************************************************************************)

InTurn == {"chat", "flush", "tools"}

Warned ==
    /\ pc \in {"idle", "load", "repair", "check", "summarize", "backup", "copy", "rename",
               "reload", "begin"} => turn = 0
    /\ (pc = "turn" /\ turn >= MaxTurns - 1) => wrapUp # "none"
    /\ (pc \in InTurn /\ turn >= MaxTurns - 2) => wrapUp # "none"
    /\ (pc = "save" /\ stop = "max_turns") => wrapUp # "none"

\* The note is the last message of one request only, the one it comes with.
Withheld ==
    /\ pc \in {"turn", "flush"} => Final(msgs).kind # "note"
    /\ (pc = "chat" /\ Final(msgs) = Said("note")) => ~offered

LEMMA NextWithheld == TypeOK /\ Withheld /\ [Next]_vars => Withheld'
  <1> SUFFICES ASSUME TypeOK, Withheld, [Next]_vars PROVE Withheld'
    OBVIOUS
  <1> USE DEF Withheld
  <1>0. msgs \in Seq(Message) /\ input \in {"request", "media"}
    BY DEF TypeOK, MessagesOK, LabelsOK
  <1>1. CASE Begin
    <2>1. PICK h \in {msgs, Append(msgs, Said("note"))} : msgs' = Append(h, Said(input))
      BY <1>1 DEF Begin
    <2>2. h \in Seq(Message) /\ Said(input) \in Message
      BY <1>0, <2>1, MessageTypes DEF Kinds
    <2>3. Final(msgs') = Said(input)
      BY <2>1, <2>2 DEF Final
    <2> QED
      BY <1>0, <1>1, <2>3 DEF Begin, Said
  <1>2. CASE WindDown
    BY <1>2 DEF WindDown
  <1>3. CASE TakeTurn
    <2>1. pc = "turn" /\ pc' = "chat" /\ msgs' = msgs
      BY <1>3 DEF TakeTurn
    <2> QED
      BY <2>1 DEF Said
  <1>4. CASE (\E calls \in Replies, size \in Sizes : Chat(calls, size)) \/ GiveResults
    <2>1. PICK m \in {Reply(calls) : calls \in Replies} \cup {Results(Final(msgs).ids)} :
            msgs' = Append(msgs, m) /\ pc' = "flush"
      BY <1>4 DEF Chat, GiveResults
    <2>2. Final(msgs') = m
      BY <1>0, <2>1 DEF Final
    <2> QED
      BY <2>1, <2>2 DEF Reply, Results
  <1>5. CASE Flush
    BY <1>5 DEF Flush, WriteLine
  <1>6. CASE Tick \/ UNCHANGED vars
    BY <1>6 DEF Tick, vars, memory
  <1>7. CASE Starting /\ ~Begin
    BY <1>7 DEF Starting, LoadHistory, PersistRepair, CheckContext, Summarize, BackUp,
       Copy, Rename, RenameFails, Reload, Unloadable, Exit
  <1>8. CASE HitCap \/ (\E id \in Ids : CallTool(id))
    BY <1>8 DEF HitCap, CallTool
  <1>9. CASE Ending \/ (\E kind \in Inputs : Launch(kind))
             \/ Fail \/ FailInWrite \/ Kill \/ KillInWrite
    BY <1>9 DEF Ending, TruncateMeta, WriteMeta, Report, Launch,
       Fail, FailInWrite, Kill, KillInWrite, Exit
  <1> QED
    BY <1>1, <1>2, <1>3, <1>4, <1>5, <1>6, <1>7, <1>8, <1>9 DEF Next, Process, Turning

\* A run whose cap is more than tiny is never stopped by it without a word
\* before, and the request that has that word offers no tools (wrapUpReason
\* and the two branches at the head of the loop).
THEOREM CapComesAfterWarning == Spec => []WarnedBeforeCap
  <1> DEFINE Inv == MaxTurns > minTurnsForWrapUp => Warned
  <1>1. Init => Inv
    BY DEF Init, Warned, InTurn
  <1>2. TypeOK /\ Inv /\ [Next]_vars => Inv'
    <2> SUFFICES ASSUME TypeOK, MaxTurns > 5, Warned, [Next]_vars PROVE Warned'
      BY DEF minTurnsForWrapUp
    <2> USE DEF Warned, InTurn
    <2>0. MaxTurns \in Nat /\ turn \in Nat
      BY TurnAssumption DEF TypeOK, CountersOK
    <2>1. CASE Starting
      BY <2>0, <2>1 DEF Starting, LoadHistory, PersistRepair, CheckContext, Summarize, BackUp,
         Copy, Rename, RenameFails, Reload, Unloadable, Begin, Exit, memory
    <2>2. CASE HitCap
      <3>1. pc = "turn" /\ turn >= MaxTurns
        BY <2>2 DEF HitCap, AtCap
      <3>2. wrapUp # "none"
        BY <2>0, <3>1
      <3> QED
        BY <2>2, <3>2 DEF HitCap
    <2>3. CASE WindDown
      <3>1. pc' = "chat" /\ wrapUp' # "none"
        BY <2>3 DEF WindDown
      <3> QED
        BY <3>1
    <2>4. CASE TakeTurn
      <3>1. /\ pc' = "chat" /\ turn' = turn /\ wrapUp' = wrapUp
            /\ wrapUpReason = "none" \/ wrapUp # "none"
        BY <2>4 DEF TakeTurn
      <3>2. turn >= MaxTurns - 2 => wrapUpReason # "none"
        BY <2>0 DEF wrapUpReason, minTurnsForWrapUp, wrapUpTurns
      <3> QED
        BY <3>1, <3>2
    <2>5. CASE (\E calls \in Replies, size \in Sizes : Chat(calls, size))
               \/ (\E id \in Ids : CallTool(id)) \/ GiveResults
      <3>1. /\ pc \in InTurn /\ pc' \in InTurn /\ turn' = turn /\ wrapUp' = wrapUp
        BY <2>5 DEF Chat, CallTool, GiveResults
      <3> QED
        BY <3>1
    <2>6. CASE Flush
      <3>1. pc = "flush" /\ wrapUp' = wrapUp
        BY <2>6 DEF Flush, WriteLine
      <3>2. \/ pc' \in InTurn /\ turn' = turn
            \/ pc' = "save" /\ stop' = IF wrapUp # "none" THEN wrapUp ELSE "end_turn"
            \/ pc' = "turn" /\ turn' = turn + 1
        BY <2>6 DEF Flush, WriteLine
      <3> QED
        BY <2>0, <3>1, <3>2
    <2>7. CASE Ending
      BY <2>7 DEF Ending, TruncateMeta, WriteMeta, Report, Exit, memory
    <2>8. CASE (\E kind \in Inputs : Launch(kind))
               \/ Fail \/ FailInWrite \/ Kill \/ KillInWrite
      <3>1. CASE \E kind \in Inputs : Launch(kind)
        <4>1. pc = "idle" /\ pc' = "load" /\ turn' = turn
          BY <3>1 DEF Launch
        <4> QED
          BY <4>1
      <3>2. CASE Fail \/ FailInWrite \/ Kill \/ KillInWrite
        BY <3>2 DEF Fail, FailInWrite, Kill, KillInWrite, Exit
      <3> QED
        BY <2>8, <3>1, <3>2
    <2>9. CASE Tick \/ UNCHANGED vars
      BY <2>9 DEF Tick, vars, memory
    <2> QED
      BY <2>1, <2>2, <2>3, <2>4, <2>5, <2>6, <2>7, <2>8, <2>9 DEF Next, Process, Turning
  <1>3. Inv /\ Withheld => WarnedBeforeCap
    BY DEF Warned, Withheld, WarnedBeforeCap
  <1>4. Init => Withheld
    BY DEF Init, Withheld
  <1> QED
    BY <1>1, <1>2, <1>3, <1>4, NextWithheld, TypeCorrect, PTL DEF Spec

(***************************************************************************)
(* The session file implements Transcript, as long as no line is torn, the *)
(* repair of a dangling call can be persisted and every call has an id.    *)
(* (Without the first, what a line holds may be lost; without the others,  *)
(* a message may follow that the provider does not accept there.)          *)
(***************************************************************************)

Whole == Clean(disk)

LEMMA WholeInduction ==
    ASSUME "torn" \notin Faults, TypeOK, Stage, Whole, [Next]_vars
    PROVE  Whole'
  <1>0. disk \in File /\ msgs \in Seq(Message) /\ msgs \in Seq(Line) /\ pending \in Seq(Message)
    BY MessagesAreLines DEF TypeOK, FilesOK, MessagesOK
  <1>1. CASE PersistRepair
    <2>1. Closing(msgs) \in Message
      BY <1>0, <1>1, MessageTypes DEF PersistRepair, Stage
    <2>2. disk' = disk \/ disk' = Put(disk, Closing(msgs))
      BY <1>1 DEF PersistRepair
    <2> QED
      BY <1>0, <2>1, <2>2, PutClean DEF Whole
  <1>2. CASE Rename
    <2>1. PICK cut \in CutIndex(msgs) : disk' = FileOf(Folded(msgs, cut))
      BY <1>2 DEF Rename
    <2> QED
      BY <1>0, <2>1, FoldedType, FileOfClean DEF Whole
  <1>3. CASE Flush
    <2>1. disk' = Put(disk, Head(pending)) /\ pc = "flush"
      BY <1>3 DEF Flush, WriteLine
    <2>2. Head(pending) \in Message
      BY <1>0, <2>1 DEF Stage
    <2> QED
      BY <1>0, <2>1, <2>2, PutClean DEF Whole
  <1>4. ASSUME ~PersistRepair, ~Rename, ~Flush PROVE disk' = disk
    BY <1>4 DEF Next, Process, Starting, Turning, Ending, Launch, LoadHistory,
       CheckContext, Summarize, BackUp, Copy, RenameFails, Reload, Unloadable, Begin,
       HitCap, WindDown, TakeTurn, Chat, CallTool, GiveResults,
       TruncateMeta, WriteMeta, Report, Fail, FailInWrite, Kill, KillInWrite, Tick, files, vars
  <1> QED
    BY <1>1, <1>2, <1>3, <1>4 DEF Whole

\* The operators of the instance are those of this module.
LEMMA SameOperators ==
    /\ T!Message = Message
    /\ \A h : T!Final(h) = Final(h) /\ T!Unanswered(h) = Unanswered(h)
    /\ \A a, m : T!MayFollow(a, m) = MayFollow(a, m)
    /\ \A h, cut : T!Folded(h, cut) = Folded(h, cut)
    /\ T!UserText = UserText
  <1>1. T!Message = Message
    BY DEF T!Message, Message, T!Kinds, Kinds
  <1>2. \A h : T!Final(h) = Final(h) /\ T!Unanswered(h) = Unanswered(h)
    BY DEF T!Final, Final, T!Unanswered, Unanswered, T!Calls, Calls
  <1>3. \A a, m : T!MayFollow(a, m) = MayFollow(a, m)
    BY DEF T!MayFollow, MayFollow, T!Answers, Answers, T!Calls, Calls
  <1>4. \A h, cut : T!Folded(h, cut) = Folded(h, cut)
    BY DEF T!Folded, Folded, T!Said, Said
  <1>5. T!UserText = UserText
    BY DEF T!UserText, UserText
  <1> QED
    BY <1>1, <1>2, <1>3, <1>4, <1>5

\* Writing a message that fits is a step of the transcript.
LEMMA PutRecords ==
    ASSUME TypeOK, Whole, NEW m \in Message, Fits(disk, m), disk' = Put(disk, m)
    PROVE  T!Record(m)
  <1>1. disk \in File /\ Clean(disk)
    BY DEF TypeOK, FilesOK, Whole
  <1>2. disk'.lines = Append(disk.lines, m) /\ Clean(disk') /\ disk' \in File
    BY <1>1, PutClean, FileTypes
  <1>3. Loaded(disk) = disk.lines /\ Loaded(disk)' = disk'.lines
    BY <1>1, <1>2, CleanLoaded
  <1>4. IF disk.lines = << >> THEN m.kind # "result" ELSE MayFollow(Final(disk.lines), m)
    BY <1>1 DEF Fits
  <1> QED
    BY <1>2, <1>3, <1>4, SameOperators DEF T!Record

LEMMA StepSimulation ==
    ASSUME "torn" \notin Faults, "repair" \notin Faults, NoId \notin Ids,
           TypeOK, Stage, Sound, Whole, [Next]_vars
    PROVE  [T!Next]_(Loaded(disk))
  <1>0. disk \in File /\ msgs \in Seq(Message) /\ msgs \in Seq(Line) /\ pending \in Seq(Message)
    BY MessagesAreLines DEF TypeOK, FilesOK, MessagesOK
  <1>1. CASE PersistRepair
    <2>1. /\ Paired(msgs) /\ Dangling(msgs)
          /\ Clean(disk) => disk.lines = msgs
      BY <1>1 DEF PersistRepair, Sound, Seen, Written, Stage
    <2>2. Closing(msgs) \in Message /\ MayFollow(Final(msgs), Closing(msgs))
      BY <1>0, <2>1, ClosingCloses
    <2>3. Fits(disk, Closing(msgs))
      BY <2>1, <2>2 DEF Fits, Dangling
    <2>4. disk' = Put(disk, Closing(msgs))
      BY <1>1 DEF PersistRepair
    <2>5. T!Record(Closing(msgs))
      BY <2>2, <2>3, <2>4, PutRecords
    <2> QED
      BY <2>2, <2>5, SameOperators DEF T!Next
  <1>2. CASE Rename
    <2>1. PICK cut \in CutIndex(msgs) : disk' = FileOf(Folded(msgs, cut))
      BY <1>2 DEF Rename
    <2>2. disk.lines = msgs /\ Replayable(msgs)
      BY <1>2 DEF Rename, Whole, Sound, Seen, Written, Preparing
    <2>3. /\ cut \in 1 .. Len(msgs) - 1 /\ msgs[cut + 1].kind \in UserText
          /\ Folded(msgs, cut) \in Seq(Message)
      BY <1>0, FoldedType
    <2>4. Loaded(disk) = msgs /\ Loaded(disk)' = Folded(msgs, cut)
      BY <1>0, <2>1, <2>2, <2>3, CleanLoaded, FileOfClean DEF Whole
    <2>5. T!Fold(cut)
      BY <2>2, <2>3, <2>4, SameOperators DEF T!Fold, Replayable
    <2> QED
      BY <2>3, <2>4, <2>5 DEF T!Next
  <1>3. CASE Flush
    <2>1. disk' = Put(disk, Head(pending)) /\ pc = "flush"
      BY <1>3 DEF Flush, WriteLine
    <2>2. Head(pending) \in Message
      BY <1>0, <2>1 DEF Stage
    <2>3. Fits(disk, Head(pending))
      BY <2>1, HeadFits
    <2>4. T!Record(Head(pending))
      BY <2>1, <2>2, <2>3, PutRecords
    <2> QED
      BY <2>2, <2>4, SameOperators DEF T!Next
  <1>4. ASSUME ~PersistRepair, ~Rename, ~Flush PROVE disk' = disk
    BY <1>4 DEF Next, Process, Starting, Turning, Ending, Launch, LoadHistory,
       CheckContext, Summarize, BackUp, Copy, RenameFails, Reload, Unloadable, Begin,
       HitCap, WindDown, TakeTurn, Chat, CallTool, GiveResults,
       TruncateMeta, WriteMeta, Report, Fail, FailInWrite, Kill, KillInWrite, Tick, files, vars
  <1> QED
    BY <1>1, <1>2, <1>3, <1>4

\* Whoever resumes a session finds a transcript: whatever was killed when, the
\* file grew by messages that may stand where they are, and was shortened only
\* by summaries (Append, repairDanglingToolUse, Rewrite and the order of the
\* effects of Turn).
THEOREM FileImplementsTranscript ==
    ASSUME "torn" \notin Faults, "repair" \notin Faults, NoId \notin Ids
    PROVE  Spec => TranscriptSpec
  <1>1. Init => T!Init /\ Whole
    <2> SUFFICES ASSUME Init PROVE T!Init /\ Whole
      OBVIOUS
    <2>1. PICK h \in Histories : disk = FileOf(h)
      BY DEF Init
    <2>2. h \in Seq(Message)
      BY TurnAssumption
    <2> QED
      BY <2>1, <2>2, FileOfClean DEF T!Init, Whole
  <1>2. TypeOK /\ Stage /\ Sound /\ Whole /\ [Next]_vars => Whole' /\ [T!Next]_(Loaded(disk))
    BY WholeInduction, StepSimulation
  <1>3. Spec => [](TypeOK /\ Stage /\ Sound)
    BY Soundness
  <1> QED
    BY <1>1, <1>2, <1>3, PTL DEF Spec, TranscriptSpec, T!Spec
=============================================================================
