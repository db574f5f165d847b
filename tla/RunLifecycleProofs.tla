------------------------- MODULE RunLifecycleProofs -------------------------
(***************************************************************************)
(* Theorems about RunLifecycle, for every value of its constants: with its *)
(* events around it the process does nothing to the session that AgentTurn *)
(* does not do, so that what is proved of AgentTurn holds of it as well;   *)
(* and what the host reads on stdout agrees with the status it is left     *)
(* with.                                                                   *)
(***************************************************************************)
EXTENDS RunLifecycle, RecordProofs, Induction

(***************************************************************************)
(* The turn in its process.                                                *)
(***************************************************************************)

\* Every step of the process is one of the turn, or leaves it alone.
LEMMA LifeStep == [LifeNext]_lifeVars => [Next]_vars
  <1> SUFFICES ASSUME [LifeNext]_lifeVars PROVE [Next]_vars
    OBVIOUS
  <1> USE DEF Next, Process, Starting, Turning, Ending
  <1>1. CASE Start \/ RefuseArguments \/ ParseArgs \/ SetUpFails \/ Leave
    BY <1>1 DEF Start, RefuseArguments, ParseArgs, SetUpFails, Leave
  <1>2. ASSUME NEW kind \in Inputs, Enter(kind) PROVE [Next]_vars
    BY <1>2 DEF Enter
  <1>3. CASE Work
    BY <1>3 DEF Work, Unseen
  <1>4. CASE AnnounceCompaction \/ MarkBoundary \/ ShowResults \/ Finish
    BY <1>4 DEF AnnounceCompaction, MarkBoundary, ShowResults, Finish
  <1>5. ASSUME NEW r \in Responses, Answer(r) PROVE [Next]_vars
    BY <1>5, LifecycleAssumption DEF Answer
  <1>6. CASE FailTurn \/ FailUnheard \/ Die \/ Elapse
    BY <1>6 DEF FailTurn, FailUnheard, Die, Elapse
  <1>7. CASE UNCHANGED lifeVars
    BY <1>7 DEF lifeVars
  <1> QED
    BY <1>1, <1>2, <1>3, <1>4, <1>5, <1>6, <1>7 DEF LifeNext, Running

\* The process implements the turn: whatever it shows the host, and however
\* that fails, it changes the session only as Turn and its callees do.
THEOREM ProcessRunsTurns == LifeSpec => Spec
  <1>1. LifeInit => Init
    BY DEF LifeInit
  <1> QED
    BY <1>1, LifeStep, PTL DEF LifeSpec, Spec

\* And so what is proved of the turn holds in the process: for one, that no
\* request shows the provider half of a call and its result, if every call
\* has an id.
THEOREM ProcessRequestsAreSafe ==
    ASSUME "repair" \notin Faults, NoId \notin Ids
    PROVE  LifeSpec => []SafeToSend
  BY ProcessRunsTurns, RequestsAreSafe, PTL

(***************************************************************************)
(* Types.                                                                  *)
(***************************************************************************)

\* The events there are.
LEMMA EventForms ==
    /\ \A t \in EventTypes : Plain(t) \in Event
    /\ \A S \in SUBSET Ids : AssistantTurn(S) \in Event /\ ToolResults(S) \in Event
    /\ \A s \in {"none"} \cup StopReasons \cup WrapUps : Result(s) \in Event
    /\ ResultError \in Event
  BY DEF Event, EventTypes, Plain, AssistantTurn, ToolResults, Result, ResultError

\* The stop reason that a result reports is one of the known ones.
LEMMA ReportedStopType ==
    ASSUME TypeOK, last \in Response
    PROVE  ReportedStop \in {"none"} \cup StopReasons \cup WrapUps
  <1>1. StopReason(last) \in StopReasons
    BY DEF Response, StopReason, normalizeStop, StopReasons, FinishReasons
  <1>2. stop \in WrapUps \cup {"end_turn"}
    BY DEF TypeOK, LabelsOK
  <1> QED
    BY <1>1, <1>2 DEF ReportedStop, StopReasons

\* A write keeps the stream a sequence of events, whatever comes of it.
LEMMA WriteTypes ==
    ASSUME stream \in Seq(Event), broken \in BOOLEAN, NEW e \in Event,
           Tried(e) \/ Emitted(e) \/ Lost
    PROVE  stream' \in Seq(Event) /\ broken' \in BOOLEAN
  <1>1. CASE Emitted(e)
    <2>1. stream' = Append(stream, e) /\ broken' = broken
      BY <1>1 DEF Emitted
    <2> QED
      BY <2>1
  <1>2. CASE Lost
    <2>1. stream' = stream /\ broken' = TRUE
      BY <1>2 DEF Lost
    <2> QED
      BY <2>1
  <1> QED
    BY <1>1, <1>2 DEF Tried

\* A turn that has begun goes on as long as it neither reports nor ends.
LEMMA TurnGoesOn ==
    ASSUME TypeOK, pc # "idle",
           \/ Unseen \/ CheckContext \/ Reload \/ GiveResults \/ Tick
           \/ \E calls \in Replies, size \in Sizes : Chat(calls, size)
    PROVE  pc' # "idle"
  BY DEF Unseen, LoadHistory, PersistRepair, CheckContext, Summarize, BackUp, Copy, Rename,
     RenameFails, Reload, Begin, HitCap, WindDown, TakeTurn, Chat, Flush, WriteLine, CallTool,
     GiveResults, TruncateMeta, WriteMeta, Tick

LifeTyped == LifeTypeOK /\ Stage

LEMMA LifeNextTyped == LifeTyped /\ [LifeNext]_lifeVars => LifeTyped'
  <1> SUFFICES ASSUME LifeTyped, [LifeNext]_lifeVars PROVE LifeTyped'
    OBVIOUS
  <1> DEFINE SeenOK == /\ stage \in Stages /\ stream \in Seq(Event) /\ broken \in BOOLEAN
                      /\ last \in Response /\ status \in Statuses
             InStage == (stage = "turn") <=> (pc # "idle")
  <1>0. TypeOK /\ Stage /\ SeenOK /\ InStage
    BY DEF LifeTyped, LifeTypeOK
  <1>1. TypeOK' /\ Stage'
    BY <1>0, LifeStep, NextTypeOK
  <1> SUFFICES SeenOK' /\ InStage'
    BY <1>1 DEF LifeTyped, LifeTypeOK
  <1> USE DEF Stages, Statuses
  <1>2. CASE Start
    <2>1. << >> \in Seq(Event) /\ NoResponse \in Response
      BY DEF NoResponse, Response, FinishReasons
    <2> QED
      BY <1>0, <1>2, <2>1 DEF Start, vars
  <1>3. CASE RefuseArguments \/ ParseArgs \/ Leave
    BY <1>0, <1>3 DEF RefuseArguments, ParseArgs, Leave, vars
  <1>4. CASE SetUpFails
    BY <1>0, <1>4, EventForms, WriteTypes DEF SetUpFails, vars
  <1>5. ASSUME NEW kind \in Inputs, Enter(kind) PROVE SeenOK' /\ InStage'
    <2>1. Plain("init") \in Event
      BY EventForms DEF EventTypes
    <2> QED
      BY <1>0, <1>5, <2>1, WriteTypes DEF Enter, Launch
  <1>6. CASE Work \/ Elapse
    <2>1. pc # "idle" /\ pc' # "idle"
      BY <1>0, <1>6, TurnGoesOn DEF Work, Elapse
    <2> QED
      BY <1>0, <1>6, <2>1 DEF Work, Elapse, seen
  <1>7. CASE AnnounceCompaction \/ MarkBoundary \/ ShowResults
    <2>1. pc # "idle" /\ pc' # "idle" /\ stage' = "turn"
      BY <1>0, <1>7, TurnGoesOn DEF AnnounceCompaction, MarkBoundary, ShowResults
    <2>2. Plain("compact_start") \in Event /\ Plain("compact_boundary") \in Event
      BY EventForms DEF EventTypes
    <2>3. CASE ShowResults
      <3>1. Final(msgs) \in Message
        BY <1>0, <2>3 DEF ShowResults, GiveResults, Stage, TypeOK, MessagesOK, Final
      <3>2. ToolResults(Final(msgs).ids) \in Event
        BY <3>1, EventForms DEF Message
      <3> QED
        BY <1>0, <2>1, <2>3, <3>2, WriteTypes DEF ShowResults
    <2>4. CASE AnnounceCompaction \/ MarkBoundary
      BY <1>0, <2>1, <2>2, <2>4, WriteTypes DEF AnnounceCompaction, MarkBoundary
    <2> QED
      BY <1>7, <2>3, <2>4
  <1>8. ASSUME NEW r \in Responses, Answer(r) PROVE SeenOK' /\ InStage'
    <2>1. r \in Response /\ r.calls \in Replies /\ ContextTokens(r) \in Sizes
      BY LifecycleAssumption
    <2>2. AssistantTurn(r.calls) \in Event
      BY <2>1, EventForms DEF Response
    <2>3. pc # "idle" /\ pc' # "idle"
      BY <1>0, <1>8, <2>1, TurnGoesOn DEF Answer
    <2> QED
      BY <1>0, <1>8, <2>1, <2>2, <2>3, WriteTypes DEF Answer
  <1>9. CASE Finish
    <2>1. Result(ReportedStop) \in Event
      BY <1>0, ReportedStopType, EventForms
    <2> QED
      BY <1>0, <1>9, <2>1, WriteTypes DEF Finish, Report, Exit
  <1>10. CASE FailTurn \/ FailUnheard
    <2>1. pc' = "idle" /\ stage' = "leave" /\ status' = "failed" /\ last' = last
      BY <1>10 DEF FailTurn, FailUnheard, Unloadable, Fail, FailInWrite, Exit
    <2>2. stream' \in Seq(Event) /\ broken' \in BOOLEAN
      BY <1>0, <1>10, EventForms, WriteTypes DEF FailTurn, FailUnheard
    <2> QED
      BY <1>0, <2>1, <2>2
  <1>11. CASE Die
    <2>1. pc' = "idle"
      BY <1>0, <1>11 DEF Die, Kill, KillInWrite, Exit, vars
    <2> QED
      BY <1>0, <1>11, <2>1 DEF Die
  <1>12. CASE UNCHANGED lifeVars
    BY <1>0, <1>12 DEF lifeVars, vars, seen
  <1> QED
    BY <1>2, <1>3, <1>4, <1>5, <1>6, <1>7, <1>8, <1>9, <1>10, <1>11, <1>12 DEF LifeNext, Running

LEMMA LifeInitTyped == LifeInit => LifeTyped
  <1> SUFFICES ASSUME LifeInit PROVE LifeTyped
    OBVIOUS
  <1>1. TypeOK /\ Stage
    BY InitTypeOK DEF LifeInit, Init, Stage
  <1>2. << >> \in Seq(Event) /\ NoResponse \in Response
    BY DEF NoResponse, Response, FinishReasons
  <1> QED
    BY <1>1, <1>2 DEF LifeInit, Init, LifeTyped, LifeTypeOK, Stages, Statuses

\* Every variable keeps values of its kind, and the process is in its turn
\* exactly as long as there is one.
THEOREM LifeTypeCorrect == LifeSpec => []LifeTypeOK
  <1>1. LifeTyped => LifeTypeOK
    BY DEF LifeTyped
  <1> QED
    BY <1>1, LifeInitTyped, LifeNextTyped, PTL DEF LifeSpec

(***************************************************************************)
(* What the host reads.                                                    *)
(*                                                                         *)
(* Neither property is inductive: that a result is the last event needs    *)
(* that there is none as long as the process may still write one, which is *)
(* a matter of the stage; and what the status says of the stream must hold *)
(* from the event on, not from the exit.                                   *)
(***************************************************************************)

Unfinal == \A i \in 1 .. Len(stream) : ~IsResult(stream[i])

Telling ==
    /\ stage = "arguments" => stream = << >>
    /\ stage \in {"arguments", "setup", "turn"} => (status = "none" /\ Unfinal)
    /\ stage = "leave" => status \in {"ok", "failed"}
    /\ status = "usage" => (stage = "none" /\ stream = << >>)
    /\ status = "ok" => EndsWith("success")
    /\ status = "failed" => (broken \/ EndsWith("error"))
    /\ EndsWith("success") => status \in {"ok", "killed"}
    /\ ResultIsLast

\* An event behind others that are no results.
LEMMA EventIsLast ==
    ASSUME stream \in Seq(Event), Unfinal, NEW e \in Event, Emitted(e)
    PROVE  /\ ResultIsLast' /\ broken' = broken
           /\ ~IsResult(e) => Unfinal'
           /\ \A t : EndsWith(t)' <=> e.type = t
  <1>1. stream' = Append(stream, e) /\ broken' = broken
    BY DEF Emitted
  <1>2. /\ Len(stream') = Len(stream) + 1 /\ Len(stream) \in Nat
        /\ \A i \in 1 .. Len(stream) : stream'[i] = stream[i]
        /\ stream'[Len(stream) + 1] = e
    BY <1>1
  <1>3. ASSUME NEW i \in 1 .. Len(stream'), i # Len(stream') PROVE ~IsResult(stream'[i])
    BY <1>2, <1>3 DEF Unfinal
  <1>4. ResultIsLast'
    BY <1>3 DEF ResultIsLast
  <1>5. ~IsResult(e) => Unfinal'
    BY <1>2, <1>3 DEF Unfinal
  <1>6. stream' # << >> /\ Final(stream') = e
    BY <1>1, <1>2 DEF Final
  <1> QED
    BY <1>1, <1>4, <1>5, <1>6 DEF EndsWith

\* A run without a result does not end with one.
LEMMA NoEnd ==
    ASSUME stream \in Seq(Event), Unfinal
    PROVE  ~EndsWith("success") /\ ~EndsWith("error") /\ ResultIsLast
  BY DEF Unfinal, EndsWith, IsResult, Final, ResultIsLast

\* A step within the turn that shows an event, or fails to.
LEMMA ShownInTurn ==
    ASSUME LifeTyped, Telling, stage \in {"setup", "turn"}, stage' = "turn", status' = status,
           NEW e \in Event, ~IsResult(e), Tried(e) \/ UNCHANGED <<stream, broken>>
    PROVE  Telling'
  <1>1. stream \in Seq(Event) /\ Unfinal /\ status = "none"
    BY DEF LifeTyped, LifeTypeOK, Telling
  <1>2. CASE Emitted(e)
    <2>1. Unfinal' /\ ResultIsLast' /\ ~EndsWith("success")'
      BY <1>1, <1>2, EventIsLast DEF IsResult
    <2> QED
      BY <1>1, <2>1 DEF Telling
  <1>3. CASE stream' = stream
    <2>1. Unfinal' /\ ResultIsLast' /\ ~EndsWith("success")'
      BY <1>1, <1>3, NoEnd DEF Unfinal, ResultIsLast, EndsWith
    <2> QED
      BY <1>1, <2>1 DEF Telling
  <1> QED
    BY <1>2, <1>3 DEF Tried, Lost

\* The end of the set-up or of the turn, for the worse.
LEMMA ToldOfFailure ==
    ASSUME LifeTyped, Telling, stage \in {"setup", "turn"}, stage' = "leave",
           status' = "failed", Tried(ResultError)
    PROVE  Telling'
  <1>1. stream \in Seq(Event) /\ Unfinal
    BY DEF LifeTyped, LifeTypeOK, Telling
  <1>2. ResultError \in Event /\ ResultError.type = "error"
    BY EventForms DEF ResultError, Plain
  <1>3. CASE Emitted(ResultError)
    <2>1. ResultIsLast' /\ EndsWith("error")' /\ ~EndsWith("success")'
      BY <1>1, <1>2, <1>3, EventIsLast
    <2> QED
      BY <2>1 DEF Telling
  <1>4. CASE Lost
    <2>1. stream' = stream /\ broken'
      BY <1>4 DEF Lost
    <2>2. ResultIsLast' /\ ~EndsWith("success")'
      BY <1>1, <2>1, NoEnd DEF ResultIsLast, EndsWith
    <2> QED
      BY <2>1, <2>2 DEF Telling
  <1> QED
    BY <1>3, <1>4 DEF Tried

LEMMA NextTelling == LifeTyped /\ Telling /\ [LifeNext]_lifeVars => Telling'
  <1> SUFFICES ASSUME LifeTyped, Telling, [LifeNext]_lifeVars PROVE Telling'
    OBVIOUS
  <1>0. TypeOK /\ Stage /\ stream \in Seq(Event) /\ last \in Response
    BY DEF LifeTyped, LifeTypeOK
  <1>1. CASE Start
    BY <1>1 DEF Start, Telling, Unfinal, EndsWith, ResultIsLast
  <1>2. CASE RefuseArguments \/ ParseArgs
    BY <1>2 DEF RefuseArguments, ParseArgs, Telling, Unfinal, EndsWith, ResultIsLast
  <1>3. CASE SetUpFails
    BY <1>3, ToldOfFailure DEF SetUpFails
  <1>4. ASSUME NEW kind \in Inputs, Enter(kind) PROVE Telling'
    <2>1. Plain("init") \in Event /\ ~IsResult(Plain("init"))
      BY EventForms DEF EventTypes, IsResult, Plain
    <2> QED
      BY <1>4, <2>1, ShownInTurn DEF Enter
  <1>5. CASE Leave
    BY <1>5 DEF Leave, Telling, Unfinal, EndsWith, ResultIsLast
  <1>6. CASE Work \/ Elapse \/ UNCHANGED lifeVars
    <2>1. UNCHANGED seen
      BY <1>6 DEF Work, Elapse, lifeVars
    <2> QED
      BY <2>1 DEF seen, Telling, Unfinal, EndsWith, ResultIsLast
  <1>7. CASE AnnounceCompaction \/ MarkBoundary
    <2> DEFINE start == Plain("compact_start")
               boundary == Plain("compact_boundary")
    <2>1. /\ start \in Event /\ ~IsResult(start)
          /\ boundary \in Event /\ ~IsResult(boundary)
      BY EventForms DEF EventTypes, IsResult, Plain
    <2>2. /\ stage = "turn" /\ stage' = "turn" /\ status' = status
          /\ Tried(start) \/ Tried(boundary) \/ UNCHANGED <<stream, broken>>
      BY <1>7 DEF AnnounceCompaction, MarkBoundary
    <2> HIDE DEF start, boundary
    <2> QED
      BY <2>1, <2>2, ShownInTurn
  <1>8. ASSUME NEW r \in Responses, Answer(r) PROVE Telling'
    <2>1. AssistantTurn(r.calls) \in Event /\ ~IsResult(AssistantTurn(r.calls))
      BY LifecycleAssumption, EventForms DEF Response, IsResult, AssistantTurn
    <2> QED
      BY <1>8, <2>1, ShownInTurn DEF Answer, Tried
  <1>9. CASE ShowResults
    <2>1. Final(msgs) \in Message
      BY <1>0, <1>9 DEF ShowResults, GiveResults, Stage, TypeOK, MessagesOK, Final
    <2>2. ToolResults(Final(msgs).ids) \in Event /\ ~IsResult(ToolResults(Final(msgs).ids))
      BY <2>1, EventForms DEF Message, IsResult, ToolResults
    <2> QED
      BY <1>9, <2>2, ShownInTurn DEF ShowResults, Tried
  <1>10. CASE Finish
    <2>1. Result(ReportedStop) \in Event /\ Result(ReportedStop).type = "success"
      BY <1>0, ReportedStopType, EventForms DEF Result
    <2>2. Unfinal
      BY <1>10 DEF Finish, Telling
    <2>3. ResultIsLast' /\ EndsWith("success")'
      BY <1>0, <1>10, <2>1, <2>2, EventIsLast DEF Finish
    <2> QED
      BY <1>10, <2>3 DEF Finish, Telling
  <1>11. CASE FailTurn
    BY <1>11, ToldOfFailure DEF FailTurn
  <1>12. CASE FailUnheard
    BY <1>12, ToldOfFailure DEF FailUnheard, Tried
  <1>13. CASE Die
    <2>1. stream' = stream /\ status' = "killed" /\ stage' = "none"
      BY <1>13 DEF Die
    <2> QED
      BY <2>1 DEF Telling, EndsWith, ResultIsLast
  <1> QED
    BY <1>1, <1>2, <1>3, <1>4, <1>5, <1>6, <1>7, <1>8, <1>9, <1>10, <1>11, <1>12, <1>13
       DEF LifeNext, Running

LEMMA Tells == LifeSpec => [](LifeTyped /\ Telling)
  <1>1. LifeInit => LifeTyped /\ Telling
    BY LifeInitTyped DEF LifeInit, Telling, Unfinal, EndsWith, ResultIsLast
  <1>2. LifeTyped /\ Telling /\ [LifeNext]_lifeVars => (LifeTyped /\ Telling)'
    BY LifeNextTyped, NextTelling
  <1> QED
    BY <1>1, <1>2, PTL DEF LifeSpec

\* A process writes at most one result, and nothing after it: the host may
\* take that line for the end of the run (Turn's last emit, runTurn's
\* ResultError, and main, which writes only to stderr).
THEOREM ResultEndsStream == LifeSpec => []ResultIsLast
  <1>1. Telling => ResultIsLast
    BY DEF Telling
  <1> QED
    BY <1>1, Tells, PTL

\* The exit status and the result tell the same story, as far as stdout can
\* be written to and there is something to write with (runTurn, and main's
\* failure of the set-up).
THEOREM StatusAgrees == LifeSpec => []StatusTold
  <1>1. Telling => StatusTold
    BY DEF Telling, StatusTold
  <1> QED
    BY <1>1, Tells, PTL

(***************************************************************************)
(* The steps of a stream.  StepsOf is a recursive function: that there is  *)
(* one as its definition describes it, and what it is for a stream with    *)
(* one event more, is shown by induction over the number of events.        *)
(***************************************************************************)

\* One event of a run, seen from the messages shown before it.
StepBy(shown, e) ==
    IF e.type = "assistant" THEN Append(shown, Reply(e.ids))
    ELSE IF e.type = "results" THEN Append(shown, Results(e.ids))
    ELSE shown

StepsUpTo(events, f, m) ==
    f = [n \in 0 .. m |-> IF n = 0 THEN << >> ELSE StepBy(f[n - 1], events[n])]

\* There is a function as the definition of StepsOf describes it.
LEMMA StepsExist == ASSUME NEW events PROVE \A m \in Nat : \E f : StepsUpTo(events, f, m)
  <1> DEFINE S == { m \in Nat : \E f : StepsUpTo(events, f, m) }
  <1>1. 0 \in S
    <2>1. StepsUpTo(events, [n \in 0 .. 0 |-> << >>], 0)
      BY DEF StepsUpTo
    <2> QED
      BY <2>1
  <1>2. ASSUME NEW m \in Nat, m \in S PROVE m + 1 \in S
    <2>1. PICK f : StepsUpTo(events, f, m)
      BY <1>2
    <2> DEFINE g == [n \in 0 .. m + 1 |-> IF n = 0 THEN << >> ELSE StepBy(f[n - 1], events[n])]
    <2>2. ASSUME NEW n \in 0 .. m PROVE g[n] = f[n]
      BY <2>1 DEF StepsUpTo
    <2>3. ASSUME NEW n \in 0 .. m + 1, n # 0 PROVE StepBy(f[n - 1], events[n]) = StepBy(g[n - 1], events[n])
      <3>1. n - 1 \in 0 .. m
        BY <2>3
      <3> QED
        BY <2>2, <3>1
    <2>4. g = [n \in 0 .. m + 1 |-> IF n = 0 THEN << >> ELSE StepBy(g[n - 1], events[n])]
      <3> HIDE DEF g
      <3>1. g = [n \in 0 .. m + 1 |-> IF n = 0 THEN << >> ELSE StepBy(f[n - 1], events[n])]
         BY DEF g
      <3> QED BY <2>3, <3>1
    <2>5. StepsUpTo(events, g, m + 1)
      BY <2>4 DEF StepsUpTo
    <2> HIDE DEF g
    <2> QED
      BY <2>5
  <1>3. Nat \subseteq S
    <2> HIDE DEF S
    <2> QED
      BY <1>1, <1>2, SetInduction
  <1> QED
    BY <1>3

LEMMA StepsDef ==
   ASSUME NEW events \in Seq(Event)
   PROVE  \E f : StepsUpTo(events, f, Len(events)) /\ StepsOf(events) = f[Len(events)]
  <1> DEFINE f == CHOOSE f : StepsUpTo(events, f, Len(events))
  <1>1. StepsUpTo(events, f, Len(events))
    BY StepsExist
  <1>2. StepsOf(events) = f[Len(events)]
    BY DEF StepsOf, StepsUpTo, StepBy
  <1> QED
    BY <1>1, <1>2

\* Functions that count the same events alike agree on them.
LEMMA StepsAgree ==
    ASSUME NEW s, NEW t, NEW f, NEW g, NEW m \in Nat, NEW k \in Nat, m <= k,
           StepsUpTo(s, f, m), StepsUpTo(t, g, k),
           \A n \in 1 .. m : s[n] = t[n]
    PROVE  \A n \in 0 .. m : f[n] = g[n]
  <1> DEFINE S == { n \in Nat : n <= m => f[n] = g[n] }
  <1>1. 0 \in S
    <2>1. f[0] = << >> /\ g[0] = << >>
      BY DEF StepsUpTo
    <2> QED
      BY <2>1
  <1>2. ASSUME NEW n \in Nat, n \in S PROVE n + 1 \in S
    <2>1. CASE n + 1 <= m
      <3>1. n + 1 \in 0 .. m /\ n + 1 \in 0 .. k /\ n + 1 # 0 /\ (n + 1) - 1 = n /\ n <= m
        BY <2>1
      <3>2. f[n + 1] = StepBy(f[(n + 1) - 1], s[n + 1]) /\ g[n + 1] = StepBy(g[(n + 1) - 1], t[n + 1])
        BY <3>1 DEF StepsUpTo
      <3>3. f[n] = g[n] /\ s[n + 1] = t[n + 1]
        BY <1>2, <2>1, <3>1
      <3>4. f[n + 1] = g[n + 1]
        BY <3>1, <3>2, <3>3
      <3> QED
        BY <3>4
    <2> QED
      BY <2>1
  <1>3. Nat \subseteq S
    <2> HIDE DEF S
    <2> QED
      BY <1>1, <1>2, SetInduction
  <1> QED
    BY <1>3

\* One event more is one step more, or none.
LEMMA StepsAppend ==
    ASSUME NEW s \in Seq(Event), NEW e \in Event
    PROVE  StepsOf(Append(s, e)) = StepBy(StepsOf(s), e)
  <1> DEFINE t == Append(s, e)
  <1>1. t \in Seq(Event) /\ Len(s) \in Nat /\ Len(t) = Len(s) + 1 /\ t[Len(s) + 1] = e
        /\ \A n \in 1 .. Len(s) : s[n] = t[n]
    OBVIOUS
  <1>2. PICK f : StepsUpTo(s, f, Len(s)) /\ StepsOf(s) = f[Len(s)]
    BY StepsDef
  <1>3. PICK g : StepsUpTo(t, g, Len(s) + 1) /\ StepsOf(t) = g[Len(s) + 1]
    BY <1>1, StepsDef
  <1> HIDE DEF t
  <1>4. f[Len(s)] = g[Len(s)]
    BY <1>1, <1>2, <1>3, StepsAgree
  <1>5. g[Len(s) + 1] = StepBy(g[(Len(s) + 1) - 1], t[Len(s) + 1])
    BY <1>1, <1>3 DEF StepsUpTo
  <1> QED
    BY <1>1, <1>2, <1>3, <1>4, <1>5 DEF t

\* Nothing shown, no step.
LEMMA StepsEmpty == StepsOf(<< >>) = << >>
  <1>1. << >> \in Seq(Event) /\ Len(<< >>) = 0
    OBVIOUS
  <1>2. PICK f : StepsUpTo(<< >>, f, 0) /\ StepsOf(<< >>) = f[0]
    BY <1>1, StepsDef
  <1> QED
    BY <1>2 DEF StepsUpTo

\* The steps of a stream are messages.
LEMMA StepsType == \A s \in Seq(Event) : StepsOf(s) \in Seq(Message)
  <1> DEFINE S == { n \in Nat : \A s \in Seq(Event) : Len(s) = n => StepsOf(s) \in Seq(Message) }
  <1>1. 0 \in S
    <2>1. \A s \in Seq(Event) : Len(s) = 0 => s = << >>
      OBVIOUS
    <2>2. << >> \in Seq(Message)
      OBVIOUS
    <2> QED
      BY <2>1, <2>2, StepsEmpty
  <1>2. ASSUME NEW n \in Nat, n \in S PROVE n + 1 \in S
    <2> SUFFICES ASSUME NEW s \in Seq(Event), Len(s) = n + 1 PROVE StepsOf(s) \in Seq(Message)
      OBVIOUS
    <2> DEFINE r == SubSeq(s, 1, n)
    <2>1. r \in Seq(Event) /\ Len(r) = n /\ s[n + 1] \in Event /\ s = Append(r, s[n + 1])
      OBVIOUS
    <2> HIDE DEF r
    <2>2. StepsOf(r) \in Seq(Message)
      BY <1>2, <2>1
    <2>3. StepsOf(s) = StepBy(StepsOf(r), s[n + 1])
      BY <2>1, StepsAppend
    <2>4. Reply(s[n + 1].ids) \in Message /\ Results(s[n + 1].ids) \in Message
      BY <2>1, MessageTypes DEF Event
    <2> QED
      BY <2>2, <2>3, <2>4 DEF StepBy
  <1>3. Nat \subseteq S
    <2> HIDE DEF S
    <2> QED
      BY <1>1, <1>2, SetInduction
  <1> QED
    BY <1>3

(***************************************************************************)
(* The stream and the record.  A step is shown before it is written, so    *)
(* that the file is behind by one step exactly while that is pending       *)
(* (Following); which message is pending when is Queued, of AgentTurn.     *)
(***************************************************************************)

\* History h ends with the messages of s, behind a user message.
EndsIn(h, s) ==
    /\ Len(h) > Len(s)
    /\ h[Len(h) - Len(s)].kind \in Inputs
    /\ \A i \in 1 .. Len(s) : h[Len(h) - Len(s) + i] = s[i]

ButLast(s) == SubSeq(s, 1, Len(s) - 1)

LEMMA ButLastProperties ==
    ASSUME NEW s \in Seq(Message), s # << >>
    PROVE  /\ Len(s) \in Nat \ {0}
           /\ ButLast(s) \in Seq(Message) /\ Len(ButLast(s)) = Len(s) - 1
           /\ Final(s) \in Message
           /\ Append(ButLast(s), Final(s)) = s
           /\ \A m \in Message : ButLast(Append(s, m)) = s
  <1>1. PICK n \in Nat : n = Len(s) - 1
    OBVIOUS
  <1>2. /\ SubSeq(s, 1, n) \in Seq(Message) /\ Len(SubSeq(s, 1, n)) = n
        /\ \A i \in 1 .. n : SubSeq(s, 1, n)[i] = s[i]
    BY <1>1
  <1>3. Final(s) \in Message
    BY DEF Final
  <1>4. Append(SubSeq(s, 1, n), Final(s)) = s
    <2> DEFINE t == Append(SubSeq(s, 1, n), Final(s))
    <2>1. /\ t \in Seq(Message) /\ Len(t) = n + 1 /\ t[n + 1] = Final(s)
          /\ \A i \in 1 .. n : t[i] = s[i]
      BY <1>2, <1>3, AppendProperties
    <2> HIDE DEF t
    <2>2. \A i \in 1 .. Len(t) : t[i] = s[i]
      BY <1>1, <2>1 DEF Final
    <2> QED
      BY <1>1, <2>1, <2>2, SeqEqual DEF t
  <1>5. ASSUME NEW m \in Message PROVE ButLast(Append(s, m)) = s
    <2>1. Len(Append(s, m)) - 1 = Len(s)
      OBVIOUS
    <2>2. SubSeq(Append(s, m), 1, Len(s)) = s
      OBVIOUS
    <2> QED
      BY <2>1, <2>2 DEF ButLast
  <1> QED
    BY <1>1, <1>2, <1>3, <1>4, <1>5 DEF ButLast

\* What a file is worth that may not load.
Holds(f, s) == Loadable(f) => EndsIn(Loaded(f), s)

LEMMA EndsInAppend ==
    ASSUME NEW h \in Seq(Line), NEW s \in Seq(Message), EndsIn(h, s), NEW m \in Message
    PROVE  EndsIn(Append(h, m), Append(s, m))
  <1> DEFINE g == Append(h, m)
             t == Append(s, m)
  <1>1. m \in Line
    BY DEF Line
  <1>2. /\ Len(g) = Len(h) + 1 /\ Len(h) \in Nat /\ g[Len(h) + 1] = m
        /\ \A i \in 1 .. Len(h) : g[i] = h[i]
    BY <1>1
  <1>3. /\ Len(t) = Len(s) + 1 /\ Len(s) \in Nat /\ t[Len(s) + 1] = m
        /\ \A i \in 1 .. Len(s) : t[i] = s[i]
    OBVIOUS
  <1> HIDE DEF g, t
  <1>4. Len(g) > Len(t) /\ Len(g) - Len(t) = Len(h) - Len(s) /\ Len(h) - Len(s) \in 1 .. Len(h)
    BY <1>2, <1>3 DEF EndsIn
  <1>5. g[Len(g) - Len(t)].kind \in Inputs
    BY <1>2, <1>4 DEF EndsIn
  <1>6. ASSUME NEW i \in 1 .. Len(t) PROVE g[Len(g) - Len(t) + i] = t[i]
    <2>1. CASE i = Len(s) + 1
      BY <1>2, <1>3, <1>4, <2>1
    <2>2. CASE i \in 1 .. Len(s)
      <3>1. Len(h) - Len(s) + i \in 1 .. Len(h)
        BY <1>2, <1>3, <1>4, <2>2
      <3>2. h[Len(h) - Len(s) + i] = s[i]
        BY <2>2 DEF EndsIn
      <3> QED
        BY <1>2, <1>3, <1>4, <2>2, <3>1, <3>2
    <2> QED
      BY <1>3, <2>1, <2>2
  <1> QED
    BY <1>4, <1>5, <1>6 DEF EndsIn, g, t

\* A line written whole behind others records one step more.
LEMMA PutHolds ==
    ASSUME NEW f \in File, NEW s \in Seq(Message), NEW m \in Message, ~f.open, Holds(f, s)
    PROVE  Holds(Put(f, m), Append(s, m))
  <1> SUFFICES ASSUME Loadable(Put(f, m)) PROVE EndsIn(Loaded(Put(f, m)), Append(s, m))
    BY DEF Holds
  <1>1. Clean(f) /\ Clean(Put(f, m)) /\ Put(f, m).lines = Append(f.lines, m) /\ Put(f, m) \in File
    BY PutClean, FileTypes
  <1>2. Loaded(f) = f.lines /\ Loaded(Put(f, m)) = Append(f.lines, m)
    BY <1>1, CleanLoaded
  <1>3. EndsIn(f.lines, s) /\ f.lines \in Seq(Line)
    BY <1>1, <1>2 DEF Holds, Clean, File
  <1> QED
    BY <1>2, <1>3, EndsInAppend

\* A user message that is put on any file is the beginning of a record.
LEMMA PutOpens ==
    ASSUME NEW f \in File, NEW m \in Message, m.kind \in Inputs
    PROVE  Holds(Put(f, m), << >>)
  <1> SUFFICES ASSUME Loadable(Put(f, m)) PROVE EndsIn(Loaded(Put(f, m)), << >>)
    BY DEF Holds
  <1>1. Clean(f) /\ Clean(Put(f, m)) /\ Put(f, m).lines = Append(f.lines, m) /\ Put(f, m) \in File
    BY PutClean, FileTypes
  <1>2. Loaded(Put(f, m)) = Append(f.lines, m) /\ f.lines \in Seq(Line) /\ m \in Line
    BY <1>1, CleanLoaded DEF File, Line
  <1>3. /\ Len(Append(f.lines, m)) = Len(f.lines) + 1 /\ Len(f.lines) \in Nat
        /\ Append(f.lines, m)[Len(f.lines) + 1] = m
    BY <1>2
  <1> QED
    BY <1>2, <1>3 DEF EndsIn

\* A torn line is one that was not written, or one that was.
LEMMA TornHolds ==
    ASSUME NEW f \in File, NEW s \in Seq(Message), NEW m \in Message, ~f.open, Holds(f, s),
           NEW g \in TornPuts(f, m)
    PROVE  Holds(g, s) \/ Holds(g, Append(s, m))
  <1> SUFFICES ASSUME Loadable(g) PROVE EndsIn(Loaded(g), s) \/ EndsIn(Loaded(g), Append(s, m))
    BY DEF Holds
  <1> DEFINE h == f.lines
  <1>1. h \in Seq(Line) /\ Closed(f) = h /\ m \in Line /\ Junk \in Line /\ m # Junk
    BY NoMessageIsJunk DEF Closed, File, Line
  <1>2. \/ g = [lines |-> Append(h, Junk), open |-> TRUE]
        \/ g = [lines |-> Append(h, m), open |-> TRUE]
    BY <1>1 DEF TornPuts
  <1>3. PICK x \in {Junk, m} : g.lines = Append(h, x)
    BY <1>2
  <1> HIDE DEF h
  <1>4. /\ Len(g.lines) = Len(h) + 1 /\ g.lines[Len(h) + 1] = x /\ Len(h) \in Nat
        /\ \A i \in 1 .. Len(h) : g.lines[i] = h[i] /\ i # Len(g.lines)
    BY <1>1, <1>3
  <1>5. Clean(f)
    <2>1. \A i \in 1 .. Len(h) : h[i] # Junk
      BY <1>4 DEF Loadable
    <2> QED
      BY <2>1 DEF Clean, Loadable, h
  <1>6. EndsIn(h, s)
    BY <1>5, CleanLoaded DEF Clean, Holds, h
  <1>7. CASE x = m
    <2>1. Loaded(g) = Append(h, m)
      BY <1>1, <1>3, <1>4, <1>7 DEF Loaded
    <2> QED
      BY <1>1, <1>6, <2>1, EndsInAppend
  <1>8. CASE x = Junk
    <2>1. g.lines # << >> /\ SubSeq(g.lines, 1, Len(g.lines) - 1) = h
      BY <1>1, <1>3, <1>4
    <2>2. Loaded(g) = h
      BY <1>4, <1>8, <2>1 DEF Loaded
    <2> QED
      BY <1>6, <2>2
  <1> QED
    BY <1>7, <1>8

\* What OnRecord says of the session's file, of any.
RecordedIn(f, s, n) ==
    n > 0 =>
        /\ Len(Loaded(f)) > n
        /\ Loaded(f)[Len(Loaded(f)) - n].kind \in Inputs
        /\ SubSeq(Loaded(f), Len(Loaded(f)) - n + 1, Len(Loaded(f))) = SubSeq(s, 1, n)

\* The two ways in which a record keeps up with what was shown.
LEMMA HeldIsRecorded ==
    ASSUME NEW f \in File, NEW s \in Seq(Message), s # << >>, Loadable(f)
    PROVE  /\ Holds(f, s) => RecordedIn(f, s, Len(s))
           /\ Holds(f, ButLast(s)) => RecordedIn(f, s, Len(s) - 1)
  <1> DEFINE h == Loaded(f)
  <1>1. h \in Seq(Line)
    BY FileTypes
  <1>2. ASSUME NEW t \in Seq(Message), EndsIn(h, t)
        PROVE  SubSeq(h, Len(h) - Len(t) + 1, Len(h)) = t
    <2> DEFINE g == SubSeq(h, Len(h) - Len(t) + 1, Len(h))
    <2>1. Len(h) \in Nat /\ Len(t) \in Nat /\ Len(h) > Len(t)
      BY <1>1, <1>2 DEF EndsIn
    <2>2. /\ g \in Seq(Line) /\ Len(g) = Len(t)
          /\ \A i \in 1 .. Len(t) : g[i] = h[Len(h) - Len(t) + 1 + i - 1]
      BY <1>1, <2>1
    <2>3. \A i \in 1 .. Len(t) : g[i] = t[i]
      BY <1>2, <2>1, <2>2 DEF EndsIn
    <2>4. t \in Seq(Line)
      BY MessagesAreLines
    <2> HIDE DEF g
    <2> QED
      BY <2>2, <2>3, <2>4, SeqEqual DEF g
  <1>3. /\ Len(s) \in Nat /\ Len(s) > 0
        /\ ButLast(s) \in Seq(Message) /\ Len(ButLast(s)) = Len(s) - 1
        /\ SubSeq(s, 1, Len(s)) = s
    BY ButLastProperties, SubSeqFull
  <1>4. Holds(f, s) => RecordedIn(f, s, Len(s))
    BY <1>2, <1>3 DEF Holds, EndsIn, RecordedIn
  <1>5. Holds(f, ButLast(s)) => RecordedIn(f, s, Len(s) - 1)
    <2>1. ButLast(s) = SubSeq(s, 1, Len(s) - 1)
      BY DEF ButLast
    <2> QED
      BY <1>2, <1>3, <2>1 DEF Holds, EndsIn, RecordedIn
  <1> QED
    BY <1>4, <1>5

Opening == pc \in Early \ {"idle"} \/ (pc \in {"turn", "chat"} /\ turn = 0)

Keeping == pc \in {"tools"} \cup Closings \/ (pc \in {"turn", "chat"} /\ turn > 0)

Following ==
    /\ stage \in {"arguments", "setup"} => Steps = << >>
    /\ pc # "idle" => input \in Inputs
    /\ Opening => Steps = << >>
    /\ Keeping => Steps # << >> /\ Holds(disk, Steps)
    /\ pc = "flush" =>
          /\ Steps # << >> /\ Final(Steps) = Final(msgs)
          /\ Len(pending) = 2 => Len(Steps) = 1
          /\ Len(pending) = 1 => Holds(disk, ButLast(Steps))
    /\ pc = "idle" => StreamOnRecord

\* What an event adds to the steps.
LEMMA StepsShown ==
    ASSUME stream \in Seq(Event), NEW e \in Event
    PROVE  /\ Emitted(e) => Steps' = StepBy(Steps, e)
           /\ Lost \/ UNCHANGED stream => Steps' = Steps
           /\ Tried(e) /\ e.type \notin {"assistant", "results"} => Steps' = Steps
  <1>1. Emitted(e) => Steps' = StepBy(Steps, e)
    BY StepsAppend DEF Emitted, Steps
  <1>2. Lost \/ UNCHANGED stream => Steps' = Steps
    BY DEF Lost, Steps
  <1>3. e.type \notin {"assistant", "results"} => StepBy(Steps, e) = Steps
    BY DEF StepBy
  <1> QED
    BY <1>1, <1>2, <1>3 DEF Tried

\* Within the turn the record keeps up with what was shown.
LEMMA TurnOnRecord ==
    ASSUME TypeOK, Steps \in Seq(Message), Queued, Following, pc # "idle", Loadable(disk)
    PROVE  \/ RecordedIn(disk, Steps, Len(Steps))
           \/ Steps # << >> /\ pc = "flush" /\ RecordedIn(disk, Steps, Len(Steps) - 1)
  <1>0. disk \in File /\ pc \in PCs /\ turn \in Nat
    BY DEF TypeOK, FilesOK, LabelsOK, CountersOK
  <1>1. CASE Opening
    <2>1. Steps = << >> /\ Len(<< >>) = 0
      BY <1>1 DEF Following
    <2> QED
      BY <2>1 DEF RecordedIn
  <1>2. CASE Keeping
    BY <1>0, <1>2, HeldIsRecorded DEF Following
  <1>3. CASE pc = "flush"
    <2>1. Steps # << >>
      BY <1>3 DEF Following
    <2>2. CASE Len(pending) = 2
      <3>1. Len(Steps) - 1 = 0
        BY <1>3, <2>2 DEF Following
      <3>2. RecordedIn(disk, Steps, 0)
        BY DEF RecordedIn
      <3> QED
        BY <1>3, <2>1, <3>1, <3>2
    <2>3. CASE Len(pending) = 1
      <3>1. Holds(disk, ButLast(Steps))
        BY <1>3, <2>3 DEF Following
      <3> QED
        BY <1>0, <1>3, <2>1, <3>1, HeldIsRecorded
    <2>4. Len(pending) \in {1, 2}
      BY <1>3 DEF Queued, QueueInFlush
    <2> QED
      BY <2>2, <2>3, <2>4
  <1>4. pc \in (Early \ {"idle"}) \cup {"turn", "chat", "flush", "tools"} \cup Closings
    BY <1>0 DEF PCs, Early, Closings
  <1> QED
    BY <1>0, <1>1, <1>2, <1>3, <1>4 DEF Opening, Keeping

\* A turn that ends while nothing is being written leaves the record as it is.
LEMMA EndsOnRecord ==
    ASSUME TypeOK, Steps \in Seq(Message), Queued, Following, pc # "idle",
           disk' = disk, Steps' = Steps, pc = "flush" => status' \in {"failed", "killed"}
    PROVE  StreamOnRecord'
  BY TurnOnRecord DEF StreamOnRecord, OnRecord, RecordedIn

\* A kill inside the write of a line leaves the step it is about, or not.
LEMMA TornOnRecord ==
    ASSUME TypeOK, Steps \in Seq(Message), Stage, Queued, Following,
           KillInWrite \/ FailInWrite,
           Steps' = Steps, status' \in {"failed", "killed"}
    PROVE  StreamOnRecord'
  <1> SUFFICES ASSUME Loadable(disk')
               PROVE  \/ RecordedIn(disk', Steps, Len(Steps))
                      \/ Steps # << >> /\ RecordedIn(disk', Steps, Len(Steps) - 1)
    BY DEF StreamOnRecord, OnRecord, RecordedIn
  <1>0. disk \in File /\ pending \in Seq(Message)
    BY DEF TypeOK, FilesOK, MessagesOK
  <1>1. CASE pc = "repair"
    <2>1. Steps = << >> /\ Len(<< >>) = 0
      BY <1>1 DEF Following, Opening, Early
    <2> QED
      BY <2>1 DEF RecordedIn
  <1>2. CASE pc = "flush"
    <2>1. Steps # << >> /\ Final(Steps) = Final(msgs) /\ disk' \in TornPuts(disk, Head(pending))
      BY <1>2 DEF Following, KillInWrite, FailInWrite
    <2>2. CASE Len(pending) = 2
      <3>1. Len(Steps) - 1 = 0
        BY <1>2, <2>2 DEF Following
      <3>2. RecordedIn(disk', Steps, 0)
        BY DEF RecordedIn
      <3> QED
        BY <2>1, <3>1, <3>2
    <2>3. CASE pending = << Final(msgs) >> /\ ~disk.open
      <3>1. Holds(disk, ButLast(Steps)) /\ Head(pending) = Final(Steps)
        BY <1>2, <2>1, <2>3 DEF Following
      <3>2. /\ ButLast(Steps) \in Seq(Message) /\ Final(Steps) \in Message
            /\ Append(ButLast(Steps), Final(Steps)) = Steps
        BY <2>1, ButLastProperties
      <3>3. Holds(disk', ButLast(Steps)) \/ Holds(disk', Steps)
        BY <1>0, <2>1, <2>3, <3>1, <3>2, TornHolds
      <3>4. disk' \in File
        BY <1>0, <2>1, <3>1, <3>2, FileTypes
      <3> QED
        BY <2>1, <3>3, <3>4, HeldIsRecorded
    <2> QED
      BY <1>2, <2>2, <2>3 DEF Queued, QueueInFlush
  <1> QED
    BY <1>1, <1>2 DEF KillInWrite, FailInWrite

\* A step within the turn that neither shows a step nor writes a line.
LEMMA KeepsFollowing ==
    ASSUME TypeOK, Queued, Following, stage = "turn", stage' = "turn", pc # "idle",
           Steps' = Steps, input' = input,
           \/ LoadHistory \/ PersistRepair \/ CheckContext \/ Summarize \/ BackUp \/ Copy
              \/ Rename \/ RenameFails \/ Reload \/ Begin
           \/ HitCap \/ WindDown \/ TakeTurn \/ TruncateMeta \/ WriteMeta \/ Tick
           \/ \E id \in Ids : CallTool(id)
    PROVE  Following'
  <1>1. turn \in Nat /\ MaxTurns \in Nat
    BY TurnAssumption DEF TypeOK, CountersOK
  <1>2. ASSUME pc \in Early \ {"idle"}, turn' = turn,
               pc' \in Early \ {"idle"} \/ pc' = "turn"
        PROVE  Following'
    <2>1. turn' = 0 /\ Steps' = << >> /\ input' \in Inputs
      BY <1>2 DEF Queued, Following, Opening
    <2> QED
      BY <1>2, <2>1 DEF Following, Opening, Keeping, Early, Closings
  <1>3. ASSUME pc \in {"turn", "chat"}, turn' = turn, disk' = disk, pc' \in {"turn", "chat"}
        PROVE  Following'
    BY <1>3 DEF Following, Opening, Keeping, Early, Closings
  <1>4. ASSUME pc \in {"tools"} \cup Closings, disk' = disk, pc' \in {"tools"} \cup Closings
        PROVE  Following'
    BY <1>4 DEF Following, Opening, Keeping, Early, Closings
  <1>5. CASE LoadHistory \/ PersistRepair \/ CheckContext \/ Summarize \/ BackUp \/ Copy
              \/ Rename \/ RenameFails \/ Reload \/ Begin
    <2>1. /\ pc \in Early \ {"idle"} /\ turn' = turn
          /\ pc' \in Early \ {"idle"} \/ pc' = "turn"
      BY <1>5 DEF LoadHistory, PersistRepair, CheckContext, Summarize, BackUp, Copy, Rename,
         RenameFails, Reload, Begin, memory, Early
    <2> QED
      BY <1>2, <2>1
  <1>6. CASE HitCap
    <2>1. pc = "turn" /\ turn > 0 /\ pc' = "save" /\ disk' = disk
      BY <1>1, <1>6 DEF HitCap, AtCap, files
    <2> QED
      BY <2>1 DEF Following, Opening, Keeping, Early, Closings
  <1>7. CASE WindDown \/ TakeTurn
    <2>1. pc = "turn" /\ pc' = "chat" /\ turn' = turn /\ disk' = disk
      BY <1>7 DEF WindDown, TakeTurn, files
    <2> QED
      BY <1>3, <2>1
  <1>8. CASE TruncateMeta \/ WriteMeta \/ \E id \in Ids : CallTool(id)
    BY <1>4, <1>8 DEF TruncateMeta, WriteMeta, CallTool, files, Closings
  <1>9. CASE Tick
    BY <1>9 DEF Tick, files, Following, Opening, Keeping
  <1> QED
    BY <1>5, <1>6, <1>7, <1>8, <1>9

\* A step that is shown is the next to be written.
LEMMA ShowsFollowing ==
    ASSUME TypeOK, Steps \in Seq(Message), Queued, Queued', Following, stage = "turn",
           stage' = "turn", pc \in {"chat", "tools"}, pc' = "flush", disk' = disk,
           input' = input, NEW m \in Message, Steps' = Append(Steps, m), Final(msgs') = m,
           IF pc = "chat" THEN pending' = Append(pending, m) ELSE pending' = << m >>
    PROVE  Following'
  <1> SUFFICES /\ Steps' # << >> /\ Final(Steps') = Final(msgs')
               /\ Len(pending') = 2 => Len(Steps') = 1
               /\ Len(pending') = 1 => Holds(disk, ButLast(Steps'))
    BY DEF Following, Opening, Keeping, Early, Closings
  <1>0. turn \in Nat
    BY DEF TypeOK, CountersOK
  <1>1. Steps' # << >> /\ Final(Steps') = m /\ Len(Steps') = Len(Steps) + 1
    BY AppendProperties DEF Final
  <1>2. CASE pc = "chat" /\ turn = 0
    <2>1. Steps = << >> /\ pending = << Said(input) >>
      BY <1>2 DEF Following, Opening, Queued, QueueInTurn
    <2>2. Len(Steps') = 1 /\ Len(pending') = 2
      BY <1>1, <1>2, <2>1
    <2> QED
      BY <1>1, <2>2
  <1>3. CASE ~(pc = "chat" /\ turn = 0)
    <2>1. Keeping
      BY <1>0, <1>3 DEF Keeping
    <2>2. Steps # << >> /\ Holds(disk, Steps) /\ ButLast(Steps') = Steps
      BY <2>1, ButLastProperties DEF Following
    <2>3. Len(pending') = 1
      <3>1. CASE pc = "chat"
        <4>1. pending = << >>
          BY <1>0, <1>3, <3>1 DEF Queued, QueueInTurn
        <4>2. Append(<< >>, m) = << m >>
          OBVIOUS
        <4> QED
          BY <3>1, <4>1, <4>2
      <3>2. CASE pc = "tools"
        BY <3>2
      <3> QED
        BY <3>1, <3>2
    <2> QED
      BY <1>1, <2>2, <2>3
  <1> QED
    BY <1>2, <1>3

\* A line that is written is the step that was shown.
LEMMA FlushFollows ==
    ASSUME TypeOK, Steps \in Seq(Message), Stage, Queued, Following, Flush, stage = "turn",
           stage' = "turn", Steps' = Steps
    PROVE  Following'
  <1>0. /\ disk \in File /\ turn \in Nat /\ input \in Inputs /\ input' = input
        /\ disk' = Put(disk, Head(pending)) /\ Steps # << >> /\ Final(Steps) = Final(msgs) /\ msgs' = msgs
    BY FlushForms DEF TypeOK, FilesOK, CountersOK, Following
  <1> DEFINE user == /\ pending = << Said(input), Final(msgs) >> /\ Head(pending) = Said(input)
                     /\ pending' = << Final(msgs) >> /\ pc' = "flush"
             step == /\ pending = << Final(msgs) >> /\ Head(pending) = Final(msgs) /\ ~disk.open
                     /\ (pc' \in {"save", "tools"} \/ (pc' = "turn" /\ turn' = turn + 1))
  <1>1. CASE user
    <2>1. Said(input).kind = input /\ Said(input) \in Message
      BY <1>0, TurnAssumption, MessageTypes DEF Said, Kinds
    <2>2. Holds(disk', << >>)
      BY <1>0, <1>1, <2>1, PutOpens
    <2>3. ButLast(Steps) = << >>
      <3>1. Len(Steps) = 1
        BY <1>1, FlushForms DEF Following
      <3> QED
        BY <3>1, SubSeqEmpty DEF ButLast
    <2> QED
      BY <1>0, <1>1, <2>2, <2>3 DEF Following, Opening, Keeping, Early, Closings
  <1>2. CASE step
    <2>1. Holds(disk, ButLast(Steps))
      BY <1>2, FlushForms DEF Following
    <2>2. /\ ButLast(Steps) \in Seq(Message) /\ Final(Steps) \in Message
          /\ Append(ButLast(Steps), Final(Steps)) = Steps
      BY <1>0, ButLastProperties
    <2>3. Holds(disk', Steps)
      BY <1>0, <1>2, <2>1, <2>2, PutHolds
    <2> QED
      BY <1>0, <1>2, <2>3 DEF Following, Opening, Keeping, Early, Closings
  <1>3. user \/ step
    BY FlushForms
  <1> QED
    BY <1>1, <1>2, <1>3

\* No step shown is none to record.
LEMMA NothingShown == Steps' = << >> => StreamOnRecord'
  <1>1. Len(<< >>) = 0
    OBVIOUS
  <1> QED
    BY <1>1 DEF StreamOnRecord, OnRecord

LEMMA NextFollowing ==
    LifeTyped /\ Queued /\ Queued' /\ Following /\ [LifeNext]_lifeVars => Following'
  <1> SUFFICES ASSUME LifeTyped, Queued, Queued', Following, [LifeNext]_lifeVars
               PROVE  Following'
    OBVIOUS
  <1>0. /\ TypeOK /\ Stage /\ stream \in Seq(Event) /\ Steps \in Seq(Message)
        /\ (stage = "turn") <=> (pc # "idle")
    BY StepsType DEF LifeTyped, LifeTypeOK, Steps
  <1>1. ASSUME pc' = "idle", StreamOnRecord',
               stage' \in {"arguments", "setup"} => Steps' = << >>
        PROVE  Following'
    BY <1>1 DEF Following, Opening, Keeping, Early, Closings
  <1>2. CASE Start
    <2>1. Steps' = << >> /\ pc' = "idle"
      BY <1>0, <1>2, StepsEmpty DEF Start, vars, Steps
    <2> QED
      BY <1>1, <2>1, NothingShown
  <1>3. CASE RefuseArguments \/ ParseArgs \/ SetUpFails
    <2>1. ResultError \in Event /\ ResultError.type \notin {"assistant", "results"}
      BY EventForms DEF ResultError, Plain
    <2>2. Steps' = << >> /\ pc' = "idle"
      BY <1>0, <1>3, <2>1, StepsShown DEF RefuseArguments, ParseArgs, SetUpFails, vars, Following
    <2> QED
      BY <1>1, <2>2, NothingShown
  <1>4. ASSUME NEW kind \in Inputs, Enter(kind) PROVE Following'
    <2>1. Plain("init") \in Event /\ Plain("init").type \notin {"assistant", "results"}
      BY EventForms DEF Plain, EventTypes
    <2>2. Steps' = << >>
      BY <1>0, <1>4, <2>1, StepsShown DEF Enter, Following
    <2>3. pc' = "load" /\ input' = kind /\ stage' = "turn"
      BY <1>4 DEF Enter, Launch
    <2> QED
      BY <2>2, <2>3 DEF Following, Opening, Keeping, Early, Closings
  <1>5. ASSUME stage # "turn", Leave \/ Die PROVE Following'
    <2>1. /\ pc' = "idle" /\ pc = "idle" /\ disk' = disk /\ stream' = stream /\ stage' = "none"
          /\ status' \in {status, "killed"}
      BY <1>0, <1>5 DEF Leave, Die, vars, files
    <2>2. Steps' = Steps /\ StreamOnRecord
      BY <1>0, <2>1 DEF Steps, Following
    <2>3. StreamOnRecord'
      BY <2>1, <2>2 DEF StreamOnRecord, OnRecord
    <2> QED
      BY <1>1, <2>1, <2>3
  <1>6. CASE Work \/ Elapse
    <2>1. stage = "turn" /\ stage' = "turn" /\ Steps' = Steps /\ pc # "idle" /\ stream' = stream
      BY <1>0, <1>6 DEF Work, Elapse, seen, Steps
    <2>2. CASE Flush
      BY <1>0, <2>1, <2>2, FlushFollows
    <2>3. CASE ~Flush
      <3>1. \/ LoadHistory \/ PersistRepair \/ Summarize \/ BackUp \/ Copy
               \/ Rename \/ RenameFails \/ Begin
            \/ HitCap \/ WindDown \/ TakeTurn \/ TruncateMeta \/ WriteMeta \/ Tick
            \/ \E id \in Ids : CallTool(id)
        BY <1>6, <2>3 DEF Work, Elapse, Unseen
      <3>2. input' = input
        BY <3>1 DEF LoadHistory, PersistRepair, Summarize, BackUp, Copy, Rename, RenameFails, Begin,
           HitCap, WindDown, TakeTurn, TruncateMeta, WriteMeta, Tick, CallTool, memory
      <3> QED
        BY <1>0, <2>1, <3>1, <3>2, KeepsFollowing
    <2> QED
      BY <2>2, <2>3
  <1>7. CASE AnnounceCompaction \/ MarkBoundary
    <2>1. /\ Plain("compact_start") \in Event /\ Plain("compact_boundary") \in Event
          /\ Plain("compact_start").type \notin {"assistant", "results"}
          /\ Plain("compact_boundary").type \notin {"assistant", "results"}
      BY EventForms DEF EventTypes, Plain
    <2>2. Steps' = Steps
      BY <1>0, <1>7, <2>1, StepsShown DEF AnnounceCompaction, MarkBoundary
    <2>3. stage = "turn" /\ stage' = "turn" /\ pc # "idle" /\ (CheckContext \/ Reload)
      BY <1>0, <1>7 DEF AnnounceCompaction, MarkBoundary
    <2>4. input' = input
      BY <2>3 DEF CheckContext, Reload, memory
    <2> QED
      BY <1>0, <2>2, <2>3, <2>4, KeepsFollowing
  <1>8. ASSUME NEW r \in Responses, Answer(r) PROVE Following'
    <2> DEFINE m == Reply(r.calls)
               e == AssistantTurn(r.calls)
    <2>1. r.calls \in SUBSET Ids
      BY LifecycleAssumption DEF Response
    <2>2. m \in Message /\ m \in Line /\ e \in Event /\ StepBy(Steps, e) = Append(Steps, m)
      BY <2>1, MessageTypes, EventForms DEF StepBy, AssistantTurn, Line
    <2>3. /\ pc = "chat" /\ pc' = "flush" /\ disk' = disk /\ input' = input
          /\ pending' = Append(pending, m) /\ msgs' = Append(msgs, m)
          /\ stage = "turn" /\ stage' = "turn" /\ Emitted(e)
      BY <1>8 DEF Answer, Chat, files
    <2> HIDE DEF m, e
    <2>4. Steps' = Append(Steps, m)
      BY <1>0, <2>2, <2>3, StepsShown
    <2>5. Final(msgs') = m
      BY <1>0, <2>2, <2>3, FinalOfAppend, MessagesAreLines DEF TypeOK, MessagesOK
    <2> QED
      BY <1>0, <2>2, <2>3, <2>4, <2>5, ShowsFollowing
  <1>9. CASE ShowResults
    <2> DEFINE m == Results(Final(msgs).ids)
               e == ToolResults(Final(msgs).ids)
    <2>1. Final(msgs).ids \in SUBSET Ids
      <3>1. Final(msgs) \in Message
        BY <1>0, <1>9 DEF ShowResults, GiveResults, Stage, TypeOK, MessagesOK, Final
      <3> QED
        BY <3>1 DEF Message
    <2>2. m \in Message /\ m \in Line /\ e \in Event /\ StepBy(Steps, e) = Append(Steps, m)
      BY <2>1, MessageTypes, EventForms DEF StepBy, ToolResults, Line
    <2>3. /\ pc = "tools" /\ pc' = "flush" /\ disk' = disk /\ input' = input
          /\ pending' = << m >> /\ msgs' = Append(msgs, m)
          /\ stage = "turn" /\ stage' = "turn" /\ Emitted(e)
      BY <1>9 DEF ShowResults, GiveResults, files
    <2> HIDE DEF m, e
    <2>4. Steps' = Append(Steps, m)
      BY <1>0, <2>2, <2>3, StepsShown
    <2>5. Final(msgs') = m
      BY <1>0, <2>2, <2>3, FinalOfAppend, MessagesAreLines DEF TypeOK, MessagesOK
    <2> QED
      BY <1>0, <2>2, <2>3, <2>4, <2>5, ShowsFollowing
  <1>10. CASE Finish
    <2>1. Result(ReportedStop) \in Event /\ Result(ReportedStop).type = "success"
      BY <1>0, ReportedStopType, EventForms DEF Result, LifeTyped, LifeTypeOK
    <2>2. Steps' = Steps
      BY <1>0, <1>10, <2>1, StepsShown DEF Finish, Tried
    <2>3. pc = "report" /\ pc' = "idle" /\ disk' = disk /\ stage' = "leave"
      BY <1>10 DEF Finish, Report, Exit, files
    <2>4. StreamOnRecord'
      BY <1>0, <2>2, <2>3, EndsOnRecord
    <2> QED
      BY <1>1, <2>3, <2>4
  <1>11. CASE FailTurn \/ FailUnheard
    <2>1. ResultError \in Event /\ ResultError.type \notin {"assistant", "results"}
      BY EventForms DEF ResultError, Plain
    <2>2. Steps' = Steps
      BY <1>0, <1>11, <2>1, StepsShown DEF FailTurn, FailUnheard
    <2>3. /\ pc # "idle" /\ pc' = "idle" /\ stage' = "leave" /\ status' = "failed"
          /\ disk' = disk \/ FailInWrite
      BY <1>0, <1>11 DEF FailTurn, FailUnheard, Unloadable, Fail, FailInWrite, Exit, files
    <2>4. StreamOnRecord'
      BY <1>0, <2>2, <2>3, EndsOnRecord, TornOnRecord
    <2> QED
      BY <1>1, <2>3, <2>4
  <1>12. ASSUME stage = "turn", Die PROVE Following'
    <2>1. /\ pc # "idle" /\ pc' = "idle" /\ stream' = stream /\ stage' = "none"
          /\ status' = "killed" /\ (Kill \/ KillInWrite)
      BY <1>0, <1>12 DEF Die, Kill, KillInWrite, Exit
    <2>2. Steps' = Steps
      BY <2>1 DEF Steps
    <2>3. CASE Kill
      <3>1. disk' = disk
        BY <2>3 DEF Kill, files
      <3>2. StreamOnRecord'
        BY <1>0, <2>1, <2>2, <3>1, EndsOnRecord
      <3> QED
        BY <1>1, <2>1, <3>2
    <2>4. CASE KillInWrite
      <3>1. StreamOnRecord'
        BY <1>0, <2>1, <2>2, <2>4, TornOnRecord
      <3> QED
        BY <1>1, <2>1, <3>1
    <2> QED
      BY <2>1, <2>3, <2>4
  <1>13. CASE UNCHANGED lifeVars
    BY <1>13 DEF lifeVars, vars, files, memory, seen, Following, Opening, Keeping, StreamOnRecord,
       OnRecord, Steps
  <1>14. CASE Leave
    BY <1>5, <1>14 DEF Leave
  <1> QED
    BY <1>2, <1>3, <1>4, <1>5, <1>6, <1>7, <1>8, <1>9, <1>10, <1>11, <1>12, <1>13, <1>14
       DEF LifeNext, Running

LEMMA Follows == LifeSpec => [](LifeTyped /\ Queued /\ Following)
  <1>1. LifeInit => Following
    <2> SUFFICES ASSUME LifeInit PROVE Following
      OBVIOUS
    <2>1. Steps = << >> /\ pc = "idle" /\ Len(<< >>) = 0
      BY StepsEmpty DEF LifeInit, Init, Steps
    <2> QED
      BY <2>1 DEF Following, Opening, Keeping, Early, Closings, StreamOnRecord, OnRecord
  <1>2. LifeSpec => [](LifeTyped /\ Telling)
    BY Tells
  <1>3. LifeSpec => [](TypeOK /\ Stage /\ Queued)
    BY ProcessRunsTurns, Queueing, PTL
  <1> QED
    BY <1>1, <1>2, <1>3, NextFollowing, PTL DEF LifeSpec

\* What the host was shown of a run is on record, step by step, and nothing
\* else behind the user message, whatever is torn, lost or killed: all of it
\* when tools run or the run reports, all but the last step when the process
\* ends in the middle of writing one (EmitAssistantTurn and EmitToolResults
\* come before the flush of what they show).
THEOREM StreamIsOnRecord == LifeSpec => []StreamOnRecord
  <1>1. ASSUME LifeTyped, Queued, Following PROVE StreamOnRecord
    <2>1. CASE pc = "idle"
      BY <1>1, <2>1 DEF Following
    <2>2. CASE pc # "idle"
      <3>1. TypeOK /\ Steps \in Seq(Message)
        BY <1>1, StepsType DEF LifeTyped, LifeTypeOK, Steps
      <3> QED
        BY <1>1, <2>2, <3>1, TurnOnRecord DEF StreamOnRecord, OnRecord, RecordedIn
    <2> QED
      BY <2>1, <2>2
  <1> QED
    BY <1>1, Follows, PTL

(***************************************************************************)
(* What "end_turn" tells the host.  That the last answer had no calls is   *)
(* known from the write of its line on, which ends the loop; why the model *)
(* stopped is read off the answer when the result is written.              *)
(***************************************************************************)

Heard ==
    /\ pc = "flush" /\ Final(msgs).kind = "reply" => last.calls = Final(msgs).ids
    /\ pc \in Closings /\ stop = "end_turn" => last.calls = {}
    /\ EndTurnIsWhole

\* Only two of the provider's words, and no call, make an "end_turn".
LEMMA EndTurnMeans ==
    ASSUME last \in Response, StopReason(last) = "end_turn"
    PROVE  last.finish \in {"stop", ""}
  BY DEF StopReason, normalizeStop, Response, FinishReasons

\* In the turn the run has no result, so that there is nothing to be whole.
LEMMA NotYetWhole ==
    ASSUME LifeTyped, Telling, stage = "turn"
    PROVE  EndTurnIsWhole /\ (stream' = stream => EndTurnIsWhole')
  <1>1. ~EndsWith("success")
    BY NoEnd DEF LifeTyped, LifeTypeOK, Telling
  <1> QED
    BY <1>1 DEF EndTurnIsWhole, EndsWith

LEMMA FinishIsWhole ==
    ASSUME LifeTyped, Telling, Concluded, Heard, Finish
    PROVE  EndTurnIsWhole'
  <1> DEFINE e == Result(ReportedStop)
  <1>0. /\ TypeOK /\ stream \in Seq(Event) /\ last \in Response /\ Unfinal
        /\ pc = "report" /\ disk' = disk /\ last' = last /\ Emitted(e)
    BY DEF LifeTyped, LifeTypeOK, Telling, Finish, Report, files
  <1>1. e \in Event /\ e.stop = ReportedStop
    BY <1>0, ReportedStopType, EventForms DEF Result
  <1> HIDE DEF e
  <1>2. Final(stream') = e
    BY <1>0, <1>1 DEF Emitted, Final
  <1>3. CASE ReportedStop = "end_turn"
    <2>1. stop = "end_turn" /\ StopReason(last) = "end_turn"
      BY <1>3 DEF ReportedStop
    <2>2. last.calls = {} /\ Answered(disk)
      BY <1>0, <2>1 DEF Heard, Concluded, Closings
    <2> QED
      BY <1>0, <2>1, <2>2, EndTurnMeans DEF EndTurnIsWhole, Answered
  <1>4. CASE ReportedStop # "end_turn"
    BY <1>1, <1>2, <1>4 DEF EndTurnIsWhole
  <1> QED
    BY <1>3, <1>4

LEMMA NextHeard ==
    /\ LifeTyped /\ LifeTyped' /\ Queued /\ Concluded
    /\ Telling /\ Telling' /\ Heard /\ [LifeNext]_lifeVars
    => Heard'
  <1> SUFFICES ASSUME LifeTyped, LifeTyped', Queued, Concluded, Telling, Telling', Heard,
                      [LifeNext]_lifeVars
               PROVE  Heard'
    OBVIOUS
  <1>0. TypeOK /\ Stage /\ ((stage = "turn") <=> (pc # "idle"))
    BY DEF LifeTyped, LifeTypeOK
  <1>1. ASSUME stage' = "turn" PROVE EndTurnIsWhole'
    <2>1. ~EndsWith("success")'
      BY <1>1 DEF Telling, LifeTyped, LifeTypeOK, Unfinal, EndsWith, IsResult, Final
    <2> QED
      BY <2>1 DEF EndTurnIsWhole
  <1>2. ASSUME pc' = "idle", ~EndsWith("success")' PROVE Heard'
    BY <1>2 DEF Heard, Closings, EndTurnIsWhole
  <1>3. ASSUME stage # "turn", pc' = "idle", disk' = disk, last' = last, stream' = stream
        PROVE  Heard'
    BY <1>3 DEF Heard, Closings, EndTurnIsWhole, EndsWith
  <1> USE DEF Closings
  <1>4. CASE Start \/ RefuseArguments \/ ParseArgs \/ SetUpFails
    <2>1. pc' = "idle" /\ status' \in {"none", "usage", "failed"}
      BY <1>0, <1>4 DEF Start, RefuseArguments, ParseArgs, SetUpFails, vars, Telling
    <2>2. ~EndsWith("success")'
      BY <2>1 DEF Telling
    <2> QED
      BY <1>2, <2>1, <2>2
  <1>5. ASSUME NEW kind \in Inputs, Enter(kind) PROVE Heard'
    BY <1>1, <1>5 DEF Enter, Launch, Heard
  <1>6. ASSUME stage # "turn", Leave \/ Die PROVE Heard'
    BY <1>0, <1>3, <1>6 DEF Leave, Die, vars, files
  <1>7. CASE Work \/ Elapse
    <2>1. stage' = "turn" /\ last' = last
      BY <1>7 DEF Work, Elapse, seen
    <2>2. CASE Flush
      <3>1. \/ pc' = "flush" /\ msgs' = msgs
            \/ pc' = "save" /\ Final(msgs).kind = "reply" /\ todo = Final(msgs).ids /\ todo = {}
            \/ pc' \in {"tools", "turn"}
        BY <1>0, <2>2, FlushForms
      <3>2. pc = "flush"
        BY <2>2 DEF Flush, WriteLine
      <3> QED
        BY <1>1, <2>1, <3>1, <3>2 DEF Heard
    <2>3. CASE HitCap
      BY <1>1, <2>1, <2>3 DEF HitCap, Heard
    <2>4. CASE TruncateMeta \/ WriteMeta
      BY <1>1, <2>1, <2>4 DEF TruncateMeta, WriteMeta, memory, Heard
    <2>5. CASE Tick
      BY <1>1, <2>1, <2>5 DEF Tick, Heard
    <2>6. ASSUME ~Flush, ~HitCap, ~TruncateMeta, ~WriteMeta, ~Tick
          PROVE  pc' \notin {"flush"} \cup Closings
      BY <1>7, <2>6 DEF Work, Elapse, Unseen, LoadHistory, PersistRepair, Summarize, BackUp, Copy,
         Rename, RenameFails, Begin, WindDown, TakeTurn, CallTool
    <2> QED
      BY <1>1, <2>1, <2>2, <2>3, <2>4, <2>5, <2>6 DEF Heard
  <1>8. CASE AnnounceCompaction \/ MarkBoundary
    <2>1. stage' = "turn" /\ pc' \in {"summarize", "begin"}
      BY <1>8 DEF AnnounceCompaction, MarkBoundary, CheckContext, Reload
    <2> QED
      BY <1>1, <2>1 DEF Heard
  <1>9. ASSUME NEW r \in Responses, Answer(r) PROVE Heard'
    <2>1. /\ stage' = "turn" /\ pc' = "flush" /\ last' = r
          /\ msgs' = Append(msgs, Reply(r.calls)) /\ msgs \in Seq(Line)
      BY <1>0, <1>9, MessagesAreLines DEF Answer, Chat, TypeOK, MessagesOK
    <2>2. Reply(r.calls) \in Line /\ Reply(r.calls).ids = r.calls
      BY LifecycleAssumption, MessageTypes DEF Response, Reply, Line
    <2>3. Final(msgs') = Reply(r.calls)
      BY <2>1, <2>2, FinalOfAppend
    <2> QED
      BY <1>1, <2>1, <2>2, <2>3 DEF Heard
  <1>10. CASE ShowResults
    <2>1. /\ stage' = "turn" /\ pc' = "flush" /\ msgs \in Seq(Line) /\ msgs # << >>
          /\ msgs' = Append(msgs, Results(Final(msgs).ids))
      BY <1>0, <1>10, MessagesAreLines DEF ShowResults, GiveResults, TypeOK, MessagesOK, Stage
    <2>2. Results(Final(msgs).ids) \in Line /\ Results(Final(msgs).ids).kind = "result"
      <3>1. Final(msgs) \in Line
        BY <2>1 DEF Final
      <3> QED
        BY <3>1, MessageTypes DEF Results, Line
    <2>3. Final(msgs') = Results(Final(msgs).ids)
      BY <2>1, <2>2, FinalOfAppend
    <2> QED
      BY <1>1, <2>1, <2>2, <2>3 DEF Heard
  <1>11. CASE Finish
    <2>1. EndTurnIsWhole'
      BY <1>11, FinishIsWhole
    <2> QED
      BY <1>11, <2>1 DEF Finish, Report, Exit, Heard
  <1>12. CASE FailTurn \/ FailUnheard
    <2>1. pc' = "idle" /\ status' = "failed"
      BY <1>12 DEF FailTurn, FailUnheard, Unloadable, Fail, FailInWrite, Exit
    <2>2. ~EndsWith("success")'
      BY <2>1 DEF Telling
    <2> QED
      BY <1>2, <2>1, <2>2
  <1>13. ASSUME stage = "turn", Die PROVE Heard'
    <2>1. pc' = "idle" /\ stream' = stream
      BY <1>13 DEF Die, Kill, KillInWrite, Exit
    <2> QED
      BY <1>13, <2>1, NotYetWhole DEF Heard
  <1>14. CASE UNCHANGED lifeVars
    BY <1>14 DEF lifeVars, vars, files, memory, seen, Heard, EndTurnIsWhole, EndsWith
  <1>15. CASE Leave
    BY <1>6, <1>15 DEF Leave
  <1> QED
    BY <1>4, <1>5, <1>6, <1>7, <1>8, <1>9, <1>10, <1>11, <1>12, <1>13, <1>14, <1>15
       DEF LifeNext, Running

\* What the host reads as "end_turn" is a reply that the model ended itself,
\* with no call that decodes, and that is the last message on record; a reply
\* cut off by its length or by a filter, or one that asks for a tool that can
\* be called, is reported as something else (parseResponse of the adapter, and
\* the stop reasons of Turn).  A call that does not decode is skipped before
\* all this, and may be all that the reply had.
THEOREM EndTurnsAreWhole == LifeSpec => []EndTurnIsWhole
  <1>1. LifeInit => Heard
    BY DEF LifeInit, Init, Heard, Closings, EndTurnIsWhole, EndsWith
  <1>2. LifeSpec => [](LifeTyped /\ Telling)
    BY Tells
  <1>3. LifeSpec => [](TypeOK /\ Stage /\ Queued /\ Concluded)
    BY ProcessRunsTurns, Concluding, PTL
  <1>4. Heard => EndTurnIsWhole
    BY DEF Heard
  <1> QED
    BY <1>1, <1>2, <1>3, <1>4, NextHeard, PTL DEF LifeSpec

(***************************************************************************)
(* The size of the context.                                                *)
(***************************************************************************)

\* The metadata in memory holds the size that the last answer reported, from
\* that answer on, and so does the file once it is written.
Sized ==
    /\ pc \in {"flush", "tools"} \cup Closings \/ (pc = "turn" /\ turn > 0) =>
         mem.tokens = ContextTokens(last)
    /\ pc = "report" => meta = mem
    /\ MetaHeals

LEMMA NextSized ==
    ASSUME "meta" \notin Faults, LifeTyped, Queued, Sized, [LifeNext]_lifeVars
    PROVE  Sized'
  <1>0. /\ TypeOK /\ ((stage = "turn") <=> (pc # "idle")) /\ mem \in Metas /\ turn \in Nat
    BY DEF LifeTyped, LifeTypeOK, TypeOK, CountersOK
  <1> USE DEF Closings
  <1>1. ASSUME pc' = "idle", stage' # "leave" \/ status' # "ok" PROVE Sized'
    BY <1>1 DEF Sized, MetaHeals
  <1>2. CASE Start \/ RefuseArguments \/ ParseArgs \/ SetUpFails \/ Leave
    BY <1>0, <1>1, <1>2 DEF Start, RefuseArguments, ParseArgs, SetUpFails, Leave, vars
  <1>3. ASSUME NEW kind \in Inputs, Enter(kind) PROVE Sized'
    BY <1>3 DEF Enter, Launch, Sized, MetaHeals
  <1>4. CASE Work \/ Elapse
    <2>1. stage = "turn" /\ stage' = "turn" /\ last' = last
      BY <1>4 DEF Work, Elapse, seen
    <2>2. CASE Flush
      <3>1. pc = "flush" /\ mem' = mem /\ pc' \in {"flush", "save", "tools", "turn"}
        BY <2>2 DEF Flush, WriteLine
      <3> QED
        BY <2>1, <3>1 DEF Sized, MetaHeals
    <2>3. CASE HitCap
      <3>1. turn > 0
        BY <1>0, <2>3, TurnAssumption DEF HitCap, AtCap
      <3> QED
        BY <2>1, <2>3, <3>1 DEF HitCap, Sized, MetaHeals
    <2>4. CASE TruncateMeta \/ WriteMeta
      BY <2>1, <2>4 DEF TruncateMeta, WriteMeta, memory, Sized, MetaHeals
    <2>5. CASE Tick
      BY <2>1, <2>5 DEF Tick, files, Sized, MetaHeals
    <2>6. CASE \E id \in Ids : CallTool(id)
      BY <2>1, <2>6 DEF CallTool, Sized, MetaHeals
    <2>7. CASE Begin
      <3>1. turn' = 0 /\ pc' = "turn"
        BY <2>7 DEF Begin, Queued, Early
      <3> QED
        BY <2>1, <3>1 DEF Sized, MetaHeals
    <2>8. ASSUME ~Flush, ~HitCap, ~TruncateMeta, ~WriteMeta, ~Tick, ~Begin,
                 ~ \E id \in Ids : CallTool(id)
          PROVE  pc' \notin {"flush", "tools", "turn"} \cup Closings
      BY <1>4, <2>8 DEF Work, Elapse, Unseen, LoadHistory, PersistRepair, Summarize, BackUp, Copy,
         Rename, RenameFails, WindDown, TakeTurn
    <2> QED
      BY <2>1, <2>2, <2>3, <2>4, <2>5, <2>6, <2>7, <2>8 DEF Sized, MetaHeals
  <1>5. CASE AnnounceCompaction \/ MarkBoundary
    BY <1>5 DEF AnnounceCompaction, MarkBoundary, CheckContext, Reload, Sized, MetaHeals
  <1>6. ASSUME NEW r \in Responses, Answer(r) PROVE Sized'
    <2>1. /\ stage' = "turn" /\ pc' = "flush" /\ last' = r
          /\ mem' = [mem EXCEPT !.tokens = ContextTokens(r)]
      BY <1>6 DEF Answer, Chat
    <2>2. mem'.tokens = ContextTokens(r)
      BY <1>0, <2>1 DEF Metas
    <2> QED
      BY <2>1, <2>2 DEF Sized, MetaHeals
  <1>7. CASE ShowResults
    BY <1>7 DEF ShowResults, GiveResults, Sized, MetaHeals
  <1>8. CASE Finish
    BY <1>8 DEF Finish, Report, Exit, files, Sized, MetaHeals
  <1>9. CASE FailTurn \/ FailUnheard
    BY <1>1, <1>9 DEF FailTurn, FailUnheard, Unloadable, Fail, FailInWrite, Exit
  <1>10. CASE Die
    BY <1>0, <1>1, <1>10 DEF Die, Kill, KillInWrite, Exit, vars
  <1>11. CASE UNCHANGED lifeVars
    BY <1>11 DEF lifeVars, vars, files, memory, seen, Sized, MetaHeals
  <1> QED
    BY <1>2, <1>3, <1>4, <1>5, <1>6, <1>7, <1>8, <1>9, <1>10, <1>11 DEF LifeNext, Running

\* A run that ends well leaves to the next one's check the size of its own last
\* context, whatever kills and torn metadata came before it, as long as the
\* metadata can be written at all (ContextTokens in Turn, SaveMeta).
THEOREM SizesAreKept ==
    ASSUME "meta" \notin Faults
    PROVE  LifeSpec => []MetaHeals
  <1>1. LifeInit => Sized
    BY DEF LifeInit, Init, Sized, MetaHeals, Closings
  <1>2. LifeTyped /\ Queued /\ Sized /\ [LifeNext]_lifeVars => Sized'
    BY NextSized
  <1>3. LifeSpec => [](LifeTyped /\ Telling)
    BY Tells
  <1>4. LifeSpec => [](TypeOK /\ Stage /\ Queued)
    BY ProcessRunsTurns, Queueing, PTL
  <1>5. Sized => MetaHeals
    BY DEF Sized
  <1> QED
    BY <1>1, <1>2, <1>3, <1>4, <1>5, PTL DEF LifeSpec

\* Whatever the provider says of its cache, the size kept for the next run's
\* compaction check is never below what the provider counted, and is that
\* sum unless more is cached than was sent (the clamp of parseResponse).
THEOREM ContextCoversAll ==
    ASSUME NEW r \in Response
    PROVE  /\ ContextTokens(r) \in Nat
           /\ ContextTokens(r) >= r.prompt + r.completion
           /\ CacheRead(r) <= r.prompt => ContextTokens(r) = r.prompt + r.completion
  <1>1. /\ r.prompt \in Nat /\ r.completion \in Nat /\ r.hit \in Nat /\ r.details \in Nat
    BY DEF Response
  <1> QED
    BY <1>1 DEF ContextTokens, InputTokens, CacheRead
=============================================================================
