---------------------------- MODULE RecordLemmas ----------------------------
(***************************************************************************)
(* Facts about messages, histories, files and compaction that the theorems *)
(* about runs rest on: what the operators return, and that the record      *)
(* stays paired under everything that is done to it.                       *)
(***************************************************************************)
EXTENDS Compaction, SessionFile, SequenceTheorems, TLAPS

(***************************************************************************)
(* Types.                                                                  *)
(***************************************************************************)

\* What the operators on messages and files return has the expected type.
LEMMA MessageTypes ==
    /\ \A k \in Kinds : Said(k) \in Message
    /\ \A S \in SUBSET Ids : Reply(S) \in Message /\ Results(S) \in Message
    /\ \A h \in Seq(Line) : Dangling(h) => Closing(h) \in Message
    /\ \A m \in Line : m = [kind |-> m.kind, ids |-> m.ids] /\ m.ids \in SUBSET Ids
  <1>1. \A m \in Line : m = [kind |-> m.kind, ids |-> m.ids] /\ m.ids \in SUBSET Ids
    BY DEF Line, Message, Junk
  <1>2. ASSUME NEW h \in Seq(Line), Dangling(h)
        PROVE  Closing(h) \in Message
    <2>1. Final(h) \in Line
      BY <1>2 DEF Dangling, Final
    <2> QED
      BY <2>1, <1>1 DEF Closing, Results, Named, Message, Kinds
  <1> QED
    BY <1>1, <1>2 DEF Message, Said, Reply, Results, Kinds

\* Closing a file's last line or not, appending to it, reading it: files stay files.
LEMMA FileTypes ==
    ASSUME NEW f \in File
    PROVE  /\ Closed(f) \in Seq(Line)
           /\ Loaded(f) \in Seq(Line)
           /\ \A m \in Message : Put(f, m) \in File
           /\ \A m \in Message : TornPuts(f, m) \subseteq File
  <1> USE DEF File
  <1>1. Message \subseteq Line /\ Junk \in Line
    BY DEF Line
  <1>2. \A s \in Seq(Line) : SubSeq(s, 1, Len(s) - 1) \in Seq(Line)
    OBVIOUS
  <1>3. Closed(f) \in Seq(Line)
    BY <1>2 DEF Closed
  <1>4. Loaded(f) \in Seq(Line)
    BY <1>2 DEF Loaded
  <1>5. \A m \in Line : Append(Closed(f), m) \in Seq(Line)
    BY <1>3
  <1> QED
    BY <1>1, <1>3, <1>4, <1>5 DEF Put, TornPuts

\* A compacted history is one of messages.
LEMMA FoldedType ==
    ASSUME NEW h \in Seq(Message), NEW cut \in CutIndex(h)
    PROVE  /\ cut \in 1 .. Len(h) - 1
           /\ h[cut + 1].kind \in UserText
           /\ Folded(h, cut) \in Seq(Message)
  <1>1. cut \in 1 .. Len(h) - 1 /\ h[cut + 1].kind \in UserText
    BY DEF CutIndex, Cuttable, TailStart
  <1>2. SubSeq(h, cut + 1, Len(h)) \in Seq(Message)
    BY <1>1
  <1>3. << Said("summary") >> \in Seq(Message)
    BY DEF Said, Message, Kinds
  <1> QED
    BY <1>1, <1>2, <1>3 DEF Folded

LEMMA MessagesAreLines == Seq(Message) \subseteq Seq(Line)
  BY DEF Line

\* What loads is a history of messages.
LEMMA LoadedType ==
    ASSUME NEW f \in File, Loadable(f)
    PROVE  Loaded(f) \in Seq(Message)
  <1>1. f.lines \in Seq(Line)
    BY DEF File
  <1>2. \A i \in 1 .. Len(f.lines) : f.lines[i] # Junk => f.lines[i] \in Message
    BY <1>1 DEF Line
  <1>3. \A i \in 1 .. Len(f.lines) - 1 : f.lines[i] \in Message
    BY <1>1, <1>2 DEF Loadable
  <1>4. CASE f.lines # << >> /\ f.lines[Len(f.lines)] = Junk
    <2>1. SubSeq(f.lines, 1, Len(f.lines) - 1) \in Seq(Message)
      BY <1>1, <1>3, SubSeqProperties
    <2> QED
      BY <1>4, <2>1 DEF Loaded
  <1>5. CASE f.lines = << >>
    BY <1>5 DEF Loaded
  <1>6. CASE f.lines # << >> /\ f.lines[Len(f.lines)] # Junk
    <2>1. \A i \in 1 .. Len(f.lines) : f.lines[i] \in Message
      BY <1>1, <1>2, <1>3, <1>6
    <2>2. f.lines \in Seq(Message)
      BY <1>1, <2>1
    <2> QED
      BY <1>6, <2>2 DEF Loaded
  <1> QED
    BY <1>4, <1>5, <1>6

LEMMA EmptyTypes ==
    /\ << >> \in Seq(Line) /\ << >> \in Seq(Message)
    /\ EmptyFile \in File
    /\ \A h \in Seq(Line) : FileOf(h) \in File
  <1>1. << >> \in Seq(Line) /\ << >> \in Seq(Message)
    OBVIOUS
  <1> QED
    BY <1>1 DEF EmptyFile, File, FileOf

(***************************************************************************)
(* Pairing of histories.                                                   *)
(***************************************************************************)

\* A message may be put where the one before it allows it.
LEMMA PairedAppend ==
    ASSUME NEW h \in Seq(Line), NEW m \in Line, Paired(h),
           h = << >> => m.kind # "result",
           h # << >> => MayFollow(Final(h), m)
    PROVE  Paired(Append(h, m)) /\ Final(Append(h, m)) = m
  <1> DEFINE g == Append(h, m)
  <1>1. /\ g \in Seq(Line) /\ Len(g) = Len(h) + 1 /\ g[Len(g)] = m
        /\ \A i \in 1 .. Len(h) : g[i] = h[i]
    OBVIOUS
  <1>2. g[1].kind # "result"
    <2>1. CASE h = << >>
      BY <1>1, <2>1
    <2>2. CASE h # << >>
      BY <1>1, <2>2 DEF Paired
    <2> QED
      BY <2>1, <2>2
  <1>3. ASSUME NEW i \in 1 .. Len(g) - 1
        PROVE  MayFollow(g[i], g[i + 1])
    <2>1. CASE i = Len(h)
      BY <1>1, <2>1 DEF Final
    <2>2. CASE i < Len(h)
      <3>1. g[i] = h[i] /\ g[i + 1] = h[i + 1] /\ i \in 1 .. Len(h) - 1
        BY <1>1, <2>2
      <3> QED
        BY <3>1 DEF Paired
    <2> QED
      BY <1>1, <2>1, <2>2
  <1> QED
    BY <1>1, <1>2, <1>3 DEF Paired, Final

\* The last message of a paired history may stand behind the others.
LEMMA PairedParts ==
    ASSUME NEW h \in Seq(Line), NEW m \in Line, Paired(Append(h, m))
    PROVE  /\ Paired(h)
           /\ h = << >> => m.kind # "result"
           /\ h # << >> => MayFollow(Final(h), m)
  <1>1. PICK n \in Nat : n = Len(h)
    OBVIOUS
  <1> DEFINE g == Append(h, m)
  <1>2. /\ Len(g) = n + 1 /\ g[n + 1] = m /\ g # << >>
        /\ \A i \in 1 .. n : g[i] = h[i]
    BY <1>1, AppendProperties
  <1>3. g[1].kind # "result" /\ \A i \in 1 .. n : MayFollow(g[i], g[i + 1])
    BY <1>2 DEF Paired
  <1> HIDE DEF g
  <1>4. \A i \in 1 .. n - 1 : MayFollow(h[i], h[i + 1])
    <2> SUFFICES ASSUME NEW i \in 1 .. n - 1 PROVE MayFollow(h[i], h[i + 1])
      OBVIOUS
    <2>1. i \in 1 .. n /\ i + 1 \in 1 .. n
      OBVIOUS
    <2>2. MayFollow(g[i], g[i + 1]) /\ g[i] = h[i] /\ g[i + 1] = h[i + 1]
      BY <1>2, <1>3, <2>1
    <2> QED
      BY <2>2
  <1>5. CASE h = << >>
    <2>1. n = 0
      BY <1>1, <1>5
    <2> QED
      BY <1>1, <1>2, <1>3, <1>5, <2>1 DEF Paired
  <1>6. CASE h # << >>
    <2>1. n > 0
      BY <1>1, <1>6, EmptySeq
    <2>2. g[1] = h[1] /\ g[n] = Final(h) /\ MayFollow(g[n], g[n + 1])
      BY <1>1, <1>2, <1>3, <2>1 DEF Final
    <2>3. Paired(h)
      BY <1>1, <1>3, <1>4, <2>2 DEF Paired
    <2> QED
      BY <1>2, <1>6, <2>2, <2>3
  <1> QED
    BY <1>5, <1>6

\* What is neither a result nor behind an unanswered call may always be put.
LEMMA PlainMayFollow ==
    ASSUME NEW h \in Seq(Line), h # << >>, ~Unanswered(h), NEW m, m.kind # "result"
    PROVE  MayFollow(Final(h), m)
  BY DEF Unanswered, MayFollow

\* The repair finds every history that needs it, if every call has an id.
LEMMA DanglingIsUnanswered ==
    ASSUME NoId \notin Ids, NEW h \in Seq(Line)
    PROVE  /\ Dangling(h) <=> Unanswered(h)
           /\ h # << >> => Named(Final(h)) = Final(h).ids
  <1>1. h # << >> => Final(h) \in Line
    BY DEF Final
  <1>2. h # << >> => Named(Final(h)) = Final(h).ids
    BY <1>1, MessageTypes DEF Named
  <1> QED
    BY <1>2 DEF Dangling, Unanswered, Calls

\* The synthetic result closes the history it is made for, if every call has an
\* id: the repair leaves the others out.
LEMMA ClosingCloses ==
    ASSUME NoId \notin Ids, NEW h \in Seq(Line), Paired(h), Dangling(h)
    PROVE  /\ MayFollow(Final(h), Closing(h))
           /\ Closing(h) \in Message
           /\ Replayable(Append(h, Closing(h)))
  <1>1. Closing(h) \in Message /\ Closing(h) \in Line
    BY MessageTypes DEF Line
  <1>2. MayFollow(Final(h), Closing(h))
    BY DanglingIsUnanswered DEF Dangling, MayFollow, Answers, Closing, Results
  <1>3. Paired(Append(h, Closing(h))) /\ Final(Append(h, Closing(h))) = Closing(h)
    BY <1>1, <1>2, PairedAppend DEF Dangling
  <1> QED
    BY <1>1, <1>2, <1>3 DEF Replayable, Unanswered, Calls, Closing, Results

\* The results of a reply, all of them, close it as well.
LEMMA ResultsClose ==
    ASSUME NEW h \in Seq(Line), Paired(h), h # << >>, Final(h).kind = "reply"
    PROVE  /\ MayFollow(Final(h), Results(Final(h).ids))
           /\ Replayable(Append(h, Results(Final(h).ids)))
  <1>1. Final(h) \in Line
    BY DEF Final
  <1>2. Results(Final(h).ids) \in Line
    BY <1>1, MessageTypes DEF Line
  <1>3. MayFollow(Final(h), Results(Final(h).ids))
    BY DEF MayFollow, Answers, Results
  <1>4. /\ Paired(Append(h, Results(Final(h).ids)))
        /\ Final(Append(h, Results(Final(h).ids))) = Results(Final(h).ids)
    BY <1>2, <1>3, PairedAppend
  <1> QED
    BY <1>3, <1>4 DEF Replayable, Unanswered, Calls, Results

\* A user's message or a note may be shown after any history that is closed.
LEMMA SaidKeepsReplayable ==
    ASSUME NEW h \in Seq(Line), Replayable(h), NEW k \in Kinds \ {"reply", "result"}
    PROVE  Said(k) \in Line /\ Replayable(Append(h, Said(k)))
  <1>1. Said(k) \in Line /\ Said(k).kind = k
    BY MessageTypes DEF Line, Said
  <1>2. Paired(Append(h, Said(k))) /\ Final(Append(h, Said(k))) = Said(k)
    BY <1>1, PairedAppend, PlainMayFollow DEF Replayable
  <1> QED
    BY <1>1, <1>2 DEF Replayable, Unanswered, Calls

\* A reply may be put after any history that is closed.
LEMMA ReplyKeepsPaired ==
    ASSUME NEW h \in Seq(Line), Replayable(h), NEW S \in SUBSET Ids
    PROVE  Paired(Append(h, Reply(S))) /\ Final(Append(h, Reply(S))) = Reply(S)
  <1>1. Reply(S) \in Line /\ Reply(S).kind = "reply"
    BY MessageTypes DEF Line, Reply
  <1> QED
    BY <1>1, PairedAppend, PlainMayFollow DEF Replayable

\* Dropping the last message leaves the rest paired.
LEMMA PairedFront ==
    ASSUME NEW h \in Seq(Line), Paired(h), h # << >>
    PROVE  Paired(SubSeq(h, 1, Len(h) - 1))
  <1> DEFINE g == SubSeq(h, 1, Len(h) - 1)
  <1>1. Len(g) = Len(h) - 1 /\ \A i \in 1 .. Len(g) : g[i] = h[i]
    <2>1. PICK n \in Nat : n = Len(h) /\ n > 0
      OBVIOUS
    <2>2. /\ Len(g) = IF 1 <= n - 1 THEN n - 1 - 1 + 1 ELSE 0
          /\ \A i \in 1 .. n - 1 - 1 + 1 : g[i] = h[1 + i - 1]
      <3>1. \A i \in 1 .. n - 1 : h[i] \in Line
        BY <2>1
      <3> QED
        BY <2>1, <3>1, SubSeqProperties
    <2> HIDE DEF g
    <2>3. Len(g) = n - 1
      BY <2>1, <2>2
    <2>4. ASSUME NEW i \in 1 .. Len(g) PROVE g[i] = h[i]
      <3>1. i \in 1 .. n - 1 - 1 + 1 /\ 1 + i - 1 = i
        BY <2>1, <2>3
      <3> QED
        BY <2>2, <3>1
    <2> QED
      BY <2>1, <2>3, <2>4
  <1>2. ASSUME g # << >> PROVE g[1].kind # "result"
    BY <1>1, <1>2 DEF Paired
  <1>3. ASSUME NEW i \in 1 .. Len(g) - 1
        PROVE  MayFollow(g[i], g[i + 1])
    BY <1>1 DEF Paired
  <1> QED
    BY <1>2, <1>3 DEF Paired

\* Compaction never parts a call from its results: the summary is a user's
\* message, and so is the one the kept tail begins with.
LEMMA FoldedReplayable ==
    ASSUME NEW h \in Seq(Line), Replayable(h), NEW cut \in 1 .. Len(h) - 1,
           h[cut + 1].kind \in UserText
    PROVE  Replayable(Folded(h, cut))
  <1> DEFINE g == Folded(h, cut)
             n == Len(h) - cut + 1
  <1>1. /\ Len(g) = n /\ g[1] = Said("summary")
        /\ \A i \in 2 .. n : g[i] = h[i + cut - 1]
    BY DEF Folded
  <1>2. g[1].kind = "summary"
    BY <1>1 DEF Said
  <1>3. ASSUME NEW i \in 1 .. n - 1
        PROVE  MayFollow(g[i], g[i + 1])
    <2>1. CASE i = 1
      <3>1. g[2] = h[2 + cut - 1] /\ 2 + cut - 1 = cut + 1
        BY <1>1
      <3> QED
        BY <1>2, <2>1, <3>1 DEF MayFollow, Calls, UserText
    <2>2. CASE i > 1
      <3>1. g[i] = h[i + cut - 1]
        BY <1>1, <2>2
      <3>2. i + 1 \in 2 .. n /\ (i + 1) + cut - 1 = (i + cut - 1) + 1
        BY <2>2
      <3>3. g[i + 1] = h[(i + cut - 1) + 1]
        BY <1>1, <3>2
      <3>4. i + cut - 1 \in 1 .. Len(h) - 1
        BY <2>2
      <3> QED
        BY <3>1, <3>3, <3>4 DEF Replayable, Paired
    <2> QED
      BY <2>1, <2>2
  <1>4. Paired(g)
    BY <1>1, <1>2, <1>3 DEF Paired
  <1>5. Final(g) = Final(h)
    BY <1>1 DEF Final
  <1> QED
    BY <1>1, <1>4, <1>5 DEF Replayable, Unanswered

\* So is the part before a user message, which a summary is asked of.
LEMMA OlderReplayable ==
    ASSUME NEW h \in Seq(Line), Paired(h), NEW cut \in 1 .. Len(h) - 1,
           h[cut + 1].kind \in UserText
    PROVE  Replayable(Older(h, cut))
  <1> DEFINE g == Older(h, cut)
  <1>1. cut \in Nat /\ Len(g) = cut /\ \A i \in 1 .. cut : g[i] = h[i]
    BY DEF Older
  <1>2. g # << >> /\ g[1] = h[1] /\ h # << >>
    BY <1>1
  <1> HIDE DEF g
  <1>3. \A i \in 1 .. cut - 1 : MayFollow(g[i], g[i + 1])
    BY <1>1 DEF Paired
  <1>4. Paired(g)
    BY <1>1, <1>2, <1>3 DEF Paired
  <1>5. MayFollow(h[cut], h[cut + 1]) /\ h[cut + 1].kind # "result"
    BY DEF Paired, UserText
  <1>6. Final(g) = h[cut]
    BY <1>1 DEF Final
  <1>7. ~Unanswered(g)
    BY <1>5, <1>6 DEF Unanswered, MayFollow, Answers
  <1> QED
    BY <1>4, <1>7 DEF Replayable, g

(***************************************************************************)
(* Pairing of files.                                                       *)
(***************************************************************************)

\* The file loads and ends in a newline: the next line stands on its own.
Clean(f) == Loadable(f) /\ ~f.open

\* What holds of a file whenever it loads.
PairedIfLoadable(f) == Loadable(f) => Paired(Loaded(f))

\* Message m may be appended to file f, should f be clean.
Fits(f, m) ==
    Clean(f) => /\ f.lines = << >> => m.kind # "result"
                /\ f.lines # << >> => MayFollow(Final(f.lines), m)

LEMMA NoMessageIsJunk == \A m \in Message : m # Junk
  BY DEF Message, Junk, Kinds

\* A clean file is read as it stands.
LEMMA CleanLoaded ==
    ASSUME NEW f \in File, Clean(f)
    PROVE  /\ Loaded(f) = f.lines
           /\ \A i \in 1 .. Len(f.lines) : f.lines[i] # Junk
  <1>1. \A i \in 1 .. Len(f.lines) : f.lines[i] # Junk
    BY DEF Clean, Loadable
  <1>2. f.lines # << >> => f.lines[Len(f.lines)] # Junk
    BY <1>1 DEF File
  <1> QED
    BY <1>1, <1>2 DEF Loaded

\* A file that holds a history and nothing else is clean.
LEMMA FileOfClean ==
    ASSUME NEW h \in Seq(Message)
    PROVE  Clean(FileOf(h)) /\ Loaded(FileOf(h)) = h
  <1>1. \A i \in 1 .. Len(h) : h[i] # Junk
    BY NoMessageIsJunk
  <1>2. Clean(FileOf(h)) /\ FileOf(h) \in File /\ FileOf(h).lines = h
    BY <1>1 DEF Clean, FileOf, Loadable, File, Line
  <1> QED
    BY <1>2, CleanLoaded

\* A line put on a clean file is read back behind the others; put on a file
\* that is not clean, it leaves one that does not load, and so not clean.
LEMMA PutClean ==
    ASSUME NEW f \in File, NEW m \in Message
    PROVE  /\ Loadable(Put(f, m)) <=> Clean(f)
           /\ Clean(Put(f, m)) <=> Clean(f)
           /\ Clean(f) => Put(f, m).lines = Append(f.lines, m)
           /\ Put(f, m).open = FALSE
  <1> DEFINE g == Put(f, m)
  <1>1. CASE f.open
    <2>1. g.lines = Append(Closed(f), Junk) /\ g.open = FALSE
      BY <1>1 DEF Put
    <2>2. Closed(f) \in Seq(Line)
      BY FileTypes
    <2>3. Len(g.lines) \in 1 .. Len(g.lines) /\ g.lines[Len(g.lines)] = Junk
      BY <2>1, <2>2
    <2>4. ~Loadable(g)
      BY <2>1, <2>3 DEF Loadable
    <2> QED
      BY <1>1, <2>1, <2>4 DEF Clean
  <1>2. CASE ~f.open
    <2>1. g.lines = Append(f.lines, m) /\ g.open = FALSE
      BY <1>2 DEF Put, Closed
    <2>2. f.lines \in Seq(Line)
      BY DEF File
    <2>3. /\ Len(g.lines) = Len(f.lines) + 1 /\ g.lines[Len(g.lines)] = m
          /\ \A i \in 1 .. Len(f.lines) : g.lines[i] = f.lines[i]
      BY <2>1, <2>2
    <2>4. Loadable(g) <=> Loadable(f)
      BY <1>2, <2>1, <2>2, <2>3, NoMessageIsJunk DEF Loadable
    <2> QED
      BY <1>2, <2>1, <2>4 DEF Clean
  <1> QED
    BY <1>1, <1>2

LEMMA PutPaired ==
    ASSUME NEW f \in File, NEW m \in Message, PairedIfLoadable(f), Fits(f, m)
    PROVE  PairedIfLoadable(Put(f, m))
  <1> SUFFICES ASSUME Clean(f) PROVE Paired(Loaded(Put(f, m)))
    BY PutClean DEF PairedIfLoadable
  <1>1. Loaded(f) = f.lines /\ Paired(f.lines) /\ f.lines \in Seq(Line) /\ m \in Line
    BY CleanLoaded DEF Clean, PairedIfLoadable, File, Line
  <1>2. Paired(Append(f.lines, m))
    BY <1>1, PairedAppend DEF Fits
  <1>3. Put(f, m) \in File /\ Clean(Put(f, m)) /\ Put(f, m).lines = Append(f.lines, m)
    BY PutClean, FileTypes
  <1> QED
    BY <1>2, <1>3, CleanLoaded

\* A kill inside a write does not break a pair: what is still read is what was
\* read before, perhaps without its last message, or with the new one.
LEMMA TornPaired ==
    ASSUME NEW f \in File, NEW m \in Message, PairedIfLoadable(f), Fits(f, m),
           NEW g \in TornPuts(f, m)
    PROVE  PairedIfLoadable(g)
  <1> SUFFICES ASSUME Loadable(g) PROVE Paired(Loaded(g))
    BY DEF PairedIfLoadable
  <1>1. Closed(f) \in Seq(Line)
    BY FileTypes
  <1>2. CASE g = [lines |-> Append(Closed(f), Junk), open |-> TRUE]
    <2>1. g.lines = Append(Closed(f), Junk)
      BY <1>2
    <2>2. /\ Len(g.lines) = Len(Closed(f)) + 1 /\ g.lines[Len(g.lines)] = Junk
          /\ \A i \in 1 .. Len(Closed(f)) : g.lines[i] = Closed(f)[i]
      BY <1>1, <2>1
    <2>3. Loaded(g) = Closed(f)
      <3>1. SubSeq(g.lines, 1, Len(g.lines) - 1) = Closed(f)
        BY <1>1, <2>1, <2>2
      <3>2. g.lines # << >>
        <4>1. Len(g.lines) # 0
          BY <1>1, <2>2
        <4> QED
          BY <4>1
      <3>3. g.lines[Len(g.lines)] = Junk
        BY <2>2
      <3> QED
        BY <3>1, <3>2, <3>3 DEF Loaded
    <2>4. \A i \in 1 .. Len(Closed(f)) : Closed(f)[i] # Junk
      BY <1>1, <2>2 DEF Loadable
    <2>5. CASE f.open
      <3>1. CASE f.lines = << >>
        BY <2>3, <2>5, <3>1 DEF Closed, Paired
      <3>2. CASE f.lines # << >>
        <4>1. f.lines \in Seq(Line) /\ Closed(f) = SubSeq(f.lines, 1, Len(f.lines) - 1)
          BY <2>5 DEF File, Closed
        <4>2. Loadable(f)
          BY <2>4, <2>5, <4>1 DEF Loadable
        <4>3. Paired(Loaded(f))
          BY <4>2 DEF PairedIfLoadable
        <4> QED
          BY <2>3, <3>2, <4>1, <4>3, PairedFront DEF Loaded
      <3> QED
        BY <3>1, <3>2
    <2>6. CASE ~f.open
      <3>1. Closed(f) = f.lines
        BY <2>6 DEF Closed
      <3>2. Clean(f)
        BY <2>4, <2>6, <3>1 DEF Clean, Loadable
      <3> QED
        BY <2>3, <3>1, <3>2, CleanLoaded DEF PairedIfLoadable, Clean
    <2> QED
      BY <2>5, <2>6
  <1>3. CASE f.open
    BY <1>2, <1>3 DEF TornPuts
  <1>4. CASE ~f.open /\ g = [lines |-> Append(f.lines, m), open |-> TRUE]
    <2>1. Put(f, m) = [lines |-> Append(f.lines, m), open |-> FALSE]
      BY <1>4 DEF Put, Closed
    <2>2. f.lines \in Seq(Line) /\ m \in Line
      BY DEF File, Line
    <2>3. /\ Len(g.lines) = Len(f.lines) + 1 /\ g.lines[Len(g.lines)] = m
          /\ \A i \in 1 .. Len(f.lines) : g.lines[i] = f.lines[i]
      BY <1>4, <2>2
    <2>4. Clean(f)
      BY <1>4, <2>2, <2>3, NoMessageIsJunk DEF Clean, Loadable
    <2>5. Loaded(g) = g.lines
      BY <2>3, NoMessageIsJunk DEF Loaded
    <2>6. Paired(Append(f.lines, m))
      BY <2>2, <2>4, CleanLoaded, PairedAppend DEF Fits, PairedIfLoadable, Clean
    <2> QED
      BY <1>4, <2>5, <2>6
  <1> QED
    BY <1>2, <1>3, <1>4 DEF TornPuts, Closed
=============================================================================
