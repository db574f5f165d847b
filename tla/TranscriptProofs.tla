-------------------------- MODULE TranscriptProofs --------------------------
(***************************************************************************)
(* What holds of every transcript, of any length and with any call ids,    *)
(* wherever it is cut, and of the requests that are made of one once the   *)
(* OpenAI adapter has translated them.                                     *)
(***************************************************************************)
EXTENDS Requests, RecordLemmas, Induction, FiniteSetTheorems

\* A fold leaves a paired transcript.
LEMMA FoldPaired ==
    ASSUME TypeOK, LogPaired, NEW cut \in 1 .. Len(log) - 1, Fold(cut)
    PROVE  log' \in Seq(Message) /\ Paired(log')
  <1>1. log \in Seq(Line) /\ Replayable(log) /\ log[cut + 1].kind \in UserText
    BY MessagesAreLines DEF TypeOK, LogPaired, Fold, Replayable
  <1>2. Paired(Folded(log, cut))
    BY <1>1, FoldedReplayable DEF Replayable
  <1>3. Said("summary") \in Message
    BY MessageTypes DEF Kinds
  <1>4. SubSeq(log, cut + 1, Len(log)) \in Seq(Message)
    BY DEF TypeOK
  <1>5. Folded(log, cut) \in Seq(Message)
    BY <1>3, <1>4 DEF Folded
  <1> QED
    BY <1>2, <1>5 DEF Fold

\* Calls and results stay together for ever, whatever is recorded and whenever
\* the oldest part is replaced by a summary.
THEOREM LogStaysPaired == Spec => [](TypeOK /\ LogPaired)
  <1>1. Init => TypeOK /\ LogPaired
    BY HistoriesAssumption DEF Init, TypeOK, LogPaired
  <1>2. TypeOK /\ LogPaired /\ [Next]_log => (TypeOK /\ LogPaired)'
    <2> SUFFICES ASSUME TypeOK, LogPaired, [Next]_log PROVE TypeOK' /\ LogPaired'
      OBVIOUS
    <2>1. ASSUME NEW m \in Message, Record(m) PROVE TypeOK' /\ LogPaired'
      <3>1. log \in Seq(Line) /\ m \in Line
        BY MessagesAreLines DEF TypeOK, Line
      <3>2. Paired(Append(log, m))
        BY <2>1, <3>1, PairedAppend DEF Record, LogPaired
      <3> QED
        BY <2>1, <3>2 DEF Record, TypeOK, LogPaired
    <2>2. ASSUME NEW cut \in 1 .. Len(log) - 1, Fold(cut) PROVE TypeOK' /\ LogPaired'
      BY <2>2, FoldPaired DEF TypeOK, LogPaired
    <2>3. CASE UNCHANGED log
      BY <2>3 DEF TypeOK, LogPaired
    <2> QED
      BY <2>1, <2>2, <2>3 DEF Next
  <1> QED
    BY <1>1, <1>2, PTL DEF Spec

\* Where a cut may be: in the last quarter, rounded up.
LEMMA CutPlace ==
    ASSUME NEW h \in Seq(Message), NEW cut \in CutIndex(h)
    PROVE  Len(h) >= 4 /\ 4 * (Len(h) - cut) < Len(h) + 4
  <1>1. Len(h) \in Nat /\ Len(h) >= 4 /\ cut \in TailStart(Len(h)) .. Len(h) - 1
    BY DEF CutIndex, Cuttable
  <1>2. 4 * ((3 * Len(h)) \div 4) > 3 * Len(h) - 4
    BY <1>1
  <1> QED
    BY <1>1, <1>2 DEF TailStart

\* Wherever a compaction cuts a transcript, what it keeps and what it sums up
\* may both be sent, and it keeps no more than its quarter (CutIndex, Rewrite).
THEOREM CutsKeepTails == Spec => []CutKeepsTail
  <1>1. TypeOK /\ LogPaired => CutKeepsTail
    <2> SUFFICES ASSUME TypeOK, LogPaired, NEW cut \in CutIndex(log)
                 PROVE  /\ ~Unanswered(log) => Replayable(Folded(log, cut))
                        /\ Replayable(Older(log, cut))
                        /\ 4 * (Len(log) - cut) < Len(log) + 4
      BY DEF CutKeepsTail
    <2>1. log \in Seq(Message) /\ log \in Seq(Line) /\ Paired(log)
      BY MessagesAreLines DEF TypeOK, LogPaired
    <2>2. cut \in 1 .. Len(log) - 1 /\ log[cut + 1].kind \in UserText
      BY <2>1, FoldedType
    <2> QED
      BY <2>1, <2>2, CutPlace, FoldedReplayable, OlderReplayable DEF Replayable
  <1> QED
    BY <1>1, LogStaysPaired, PTL

\* Every compaction makes the history shorter.
THEOREM CutsShorten == Spec => []CutShortens
  <1>1. TypeOK => CutShortens
    <2> SUFFICES ASSUME TypeOK, NEW cut \in CutIndex(log) PROVE Len(Folded(log, cut)) < Len(log)
      BY DEF CutShortens
    <2>1. log \in Seq(Message) /\ cut \in 1 .. Len(log) - 1
      BY FoldedType DEF TypeOK
    <2>2. cut >= 2
      BY <2>1, CutPlace
    <2>3. /\ SubSeq(log, cut + 1, Len(log)) \in Seq(Message)
          /\ Len(SubSeq(log, cut + 1, Len(log))) = Len(log) - cut
      BY <2>1
    <2>4. << Said("summary") >> \in Seq(Message) /\ Len(<< Said("summary") >>) = 1
      BY MessageTypes DEF Kinds
    <2>5. Len(Folded(log, cut)) = 1 + (Len(log) - cut)
      BY <2>3, <2>4 DEF Folded
    <2> QED
      BY <2>1, <2>2, <2>5
  <1> QED
    BY <1>1, LogStaysPaired, PTL

(***************************************************************************)
(* The adapter: what the folds that the translation is written with give.  *)
(***************************************************************************)

WireMessage == [role : {"system", "user", "assistant", "tool"}, ids : SUBSET Ids]

Wires == Seq(WireMessage)

\* A finite set as a sequence: its elements and no others.
LEMMA SetToSeqFacts ==
    ASSUME NEW S, IsFiniteSet(S)
    PROVE  /\ SetToSeq(S) \in Seq(S)
           /\ \A x \in S : \E i \in 1 .. Len(SetToSeq(S)) : SetToSeq(S)[i] = x
  <1>1. PICK n \in Nat : n = Cardinality(S) /\ ExistsBijection(1 .. n, S)
    BY FS_CardinalityType
  <1>2. PICK f : f \in Injection(1 .. n, S)
    BY <1>1 DEF ExistsBijection, Bijection
  <1>3. \E g \in [1 .. Cardinality(S) -> S] : IsInjective(g)
    BY <1>1, <1>2 DEF Injection
  <1> DEFINE q == SetToSeq(S)
  <1>4. q \in [1 .. Cardinality(S) -> S] /\ IsInjective(q)
    BY <1>3 DEF SetToSeq
  <1> HIDE DEF q
  <1>5. q \in Injection(1 .. n, S)
    BY <1>1, <1>4 DEF Injection
  <1>6. IsFiniteSet(1 .. n) /\ Cardinality(1 .. n) = n
    BY FS_Interval
  <1>7. q \in Surjection(1 .. n, S)
    BY <1>1, <1>5, <1>6, FS_Injection
  <1>8. q \in Seq(S) /\ Len(q) = n
    BY <1>1, <1>4
  <1>9. \A x \in S : \E i \in 1 .. n : q[i] = x
    BY <1>7 DEF Surjection
  <1> QED
    BY <1>8, <1>9 DEF q

\* f is what the definition of FlattenSeq describes, up to position m.
FlatAt(seqs, f, i) == IF i = 1 THEN seqs[i] ELSE f[i - 1] \o seqs[i]

IsFlat(seqs, f, m) == f = [i \in 1 .. m |-> FlatAt(seqs, f, i)]

\* There is one.
LEMMA FlatExists ==
    ASSUME NEW seqs, NEW m \in Nat
    PROVE  \E f : IsFlat(seqs, f, m)
  <1> DEFINE S == { k \in Nat : \E f : IsFlat(seqs, f, k) }
  <1>1. 0 \in S
    <2>1. IsFlat(seqs, [i \in 1 .. 0 |-> << >>], 0)
      BY DEF IsFlat, FlatAt
    <2> QED
      BY <2>1
  <1>2. ASSUME NEW f, NEW g, NEW k \in Nat, \A i \in 1 .. k : f[i] = g[i]
        PROVE  \A i \in 1 .. k + 1 : FlatAt(seqs, f, i) = FlatAt(seqs, g, i)
    <2> SUFFICES ASSUME NEW i \in 1 .. k + 1, i # 1
                 PROVE  FlatAt(seqs, f, i) = FlatAt(seqs, g, i)
      BY DEF FlatAt
    <2>1. i - 1 \in 1 .. k
      OBVIOUS
    <2>2. f[i - 1] = g[i - 1]
      BY <1>2, <2>1
    <2> QED
      BY <2>2 DEF FlatAt
  <1>3. ASSUME NEW k \in Nat, k \in S PROVE k + 1 \in S
    <2>1. PICK f : IsFlat(seqs, f, k)
      BY <1>3
    <2> DEFINE g == [i \in 1 .. k + 1 |-> FlatAt(seqs, f, i)]
    <2>2. \A i \in 1 .. k : g[i] = f[i]
      BY <2>1 DEF IsFlat
    <2>3. \A i \in 1 .. k + 1 : FlatAt(seqs, f, i) = FlatAt(seqs, g, i)
      <3> HIDE DEF g
      <3> QED
        BY <1>2, <2>2
    <2>4. IsFlat(seqs, g, k + 1)
      BY <2>3 DEF IsFlat
    <2> QED
      BY <2>4
  <1> HIDE DEF S
  <1>4. m \in S
    BY <1>1, <1>3, SetInduction
  <1> QED
    BY <1>4 DEF S

\* One sequence more is put behind the others.
LEMMA FlattenFacts ==
    /\ FlattenSeq(<< >>) = << >>
    /\ \A x : FlattenSeq(<< x >>) = x
    /\ \A seqs \in Seq(Wires), x \in Wires :
         seqs # << >> => FlattenSeq(Append(seqs, x)) = FlattenSeq(seqs) \o x
  <1>1. ASSUME NEW seqs, NEW m \in Nat, Len(seqs) = m, m # 0
        PROVE  \E f : IsFlat(seqs, f, m) /\ FlattenSeq(seqs) = f[m]
    <2> DEFINE f == CHOOSE f : IsFlat(seqs, f, m)
    <2>1. FlattenSeq(seqs) = f[m]
      BY <1>1 DEF FlattenSeq, IsFlat, FlatAt
    <2>2. IsFlat(seqs, f, m)
      BY FlatExists
    <2> HIDE DEF f
    <2> QED
      BY <2>1, <2>2
  <1>2. FlattenSeq(<< >>) = << >>
    BY DEF FlattenSeq
  <1>3. ASSUME NEW x PROVE FlattenSeq(<< x >>) = x
    <2> DEFINE one == << x >>
    <2>1. Len(one) = 1 /\ one[1] = x
      OBVIOUS
    <2> HIDE DEF one
    <2>2. PICK m \in Nat : m = 1 /\ m = Len(one) /\ m # 0
      BY <2>1
    <2>3. PICK f : IsFlat(one, f, m) /\ FlattenSeq(one) = f[m]
      BY <1>1, <2>2
    <2>4. f[m] = FlatAt(one, f, m)
      BY <2>2, <2>3 DEF IsFlat
    <2> QED
      BY <2>1, <2>2, <2>3, <2>4 DEF FlatAt, one
  <1>4. ASSUME NEW seqs \in Seq(Wires), NEW x \in Wires, seqs # << >>
        PROVE  FlattenSeq(Append(seqs, x)) = FlattenSeq(seqs) \o x
    <2>1. PICK m \in Nat : m = Len(seqs) /\ m >= 1
      BY <1>4, EmptySeq
    <2>2. PICK more : more = Append(seqs, x)
      OBVIOUS
    <2>3. /\ Len(more) = m + 1 /\ more[m + 1] = x
          /\ \A i \in 1 .. m : more[i] = seqs[i]
      BY <2>1, <2>2, AppendProperties
    <2>4. PICK f : IsFlat(seqs, f, m) /\ FlattenSeq(seqs) = f[m]
      BY <1>1, <2>1
    <2>5. PICK g : IsFlat(more, g, m + 1) /\ FlattenSeq(more) = g[m + 1]
      BY <1>1, <2>1, <2>3
    <2>6. \A i \in 1 .. m : f[i] = FlatAt(seqs, f, i)
      BY <2>4 DEF IsFlat
    <2>7. \A i \in 1 .. m + 1 : g[i] = FlatAt(more, g, i)
      BY <2>5 DEF IsFlat
    <2> DEFINE S == { i \in Nat : i \in 1 .. m => f[i] = g[i] }
    <2>8. 0 \in S
      OBVIOUS
    <2>9. ASSUME NEW i \in Nat, i \in S PROVE i + 1 \in S
      <3> SUFFICES ASSUME i + 1 <= m PROVE f[i + 1] = g[i + 1]
        OBVIOUS
      <3>1. PICK j : j = i + 1 /\ j \in 1 .. m /\ j - 1 = i /\ j \in 1 .. m + 1
        OBVIOUS
      <3>2. j # 1 => f[j - 1] = g[j - 1]
        BY <2>9, <3>1
      <3>3. f[j] = FlatAt(seqs, f, j) /\ g[j] = FlatAt(more, g, j)
        BY <2>6, <2>7, <3>1
      <3>4. seqs[j] = more[j]
        BY <2>3, <3>1
      <3>5. FlatAt(seqs, f, j) = FlatAt(more, g, j)
        BY <3>2, <3>4 DEF FlatAt
      <3> QED
        BY <3>1, <3>3, <3>5
    <2> HIDE DEF S
    <2>10. f[m] = g[m]
      <3>1. m \in S
        BY <2>8, <2>9, SetInduction
      <3> QED
        BY <2>1, <3>1 DEF S
    <2>11. g[m + 1] = g[m] \o x
      <3>1. PICK j : j = m + 1 /\ j \in 1 .. m + 1 /\ j # 1 /\ j - 1 = m
        BY <2>1
      <3>2. g[j] = g[j - 1] \o more[j]
        BY <2>7, <3>1 DEF FlatAt
      <3> QED
        BY <2>3, <3>1, <3>2
    <2> QED
      BY <2>2, <2>4, <2>5, <2>10, <2>11
  <1> QED
    BY <1>2, <1>3, <1>4

\* What is flattened is a sequence of wire messages.
LEMMA FlattenType == \A seqs \in Seq(Wires) : FlattenSeq(seqs) \in Wires
  <1> DEFINE S == { seqs \in Seq(Wires) : FlattenSeq(seqs) \in Wires }
  <1>1. << >> \in S
    <2>1. << >> \in Seq(Wires) /\ << >> \in Wires
      BY DEF Wires
    <2> QED
      BY <2>1, FlattenFacts
  <1>2. ASSUME NEW seqs \in Seq(Wires), NEW x \in Wires, seqs \in S
        PROVE  Append(seqs, x) \in S
    <2>1. Append(seqs, x) \in Seq(Wires)
      BY AppendProperties
    <2>2. CASE seqs = << >>
      <3>1. Append(seqs, x) = << x >>
        BY <2>2
      <3> QED
        BY <2>1, <3>1, FlattenFacts
    <2>3. CASE seqs # << >>
      <3>1. FlattenSeq(Append(seqs, x)) = FlattenSeq(seqs) \o x
        BY <2>3, FlattenFacts
      <3>2. FlattenSeq(seqs) \o x \in Wires
        BY <1>2, ConcatProperties DEF Wires
      <3> QED
        BY <2>1, <3>1, <3>2
    <2> QED
      BY <2>2, <2>3
  <1> HIDE DEF S
  <1>3. Seq(Wires) \subseteq S
    BY <1>1, <1>2, SeqInduction
  <1> QED
    BY <1>3 DEF S

\* Whatever may be in a history, written or only shown: results are of calls.
Sendable == { m \in Message : m.kind = "result" => m.ids # {} }

\* A run of tool messages that carry S, one id each.
ToolsOf(b, S) ==
    /\ \A i \in 1 .. Len(b) : \E id \in S : b[i] = Wire("tool", {id})
    /\ \A id \in S : \E i \in 1 .. Len(b) : b[i] = Wire("tool", {id})

\* Wire messages are of their kind.
LEMMA WireTypes ==
    /\ \A S \in SUBSET Ids : /\ Wire("assistant", S) \in WireMessage
                             /\ Wire("tool", S) \in WireMessage
    /\ Wire("user", {}) \in WireMessage /\ Wire("system", {}) \in WireMessage
    /\ \A role, S : Wire(role, S).role = role /\ Wire(role, S).ids = S
  BY DEF Wire, WireMessage

\* The translation of one message: one wire message, or one for each result.
LEMMA TranslatedFacts ==
    ASSUME IsFiniteSet(Ids), NEW m \in Sendable
    PROVE  /\ Translated(m) \in Wires /\ Translated(m) # << >>
           /\ m.kind = "reply" => Translated(m) = << Wire("assistant", m.ids) >>
           /\ m.kind = "result" => ToolsOf(Translated(m), m.ids)
           /\ m.kind \notin {"reply", "result"} => Translated(m) = << Wire("user", {}) >>
  <1>1. m.kind \in Kinds /\ m.ids \subseteq Ids
    BY DEF Sendable, Message
  <1>2. CASE m.kind = "reply"
    <2>1. Translated(m) = << Wire("assistant", m.ids) >>
      BY <1>2 DEF Translated
    <2>2. Wire("assistant", m.ids) \in WireMessage
      BY <1>1, WireTypes
    <2>3. << Wire("assistant", m.ids) >> \in Wires
      BY <2>2 DEF Wires
    <2> QED
      BY <1>2, <2>1, <2>3
  <1>3. CASE m.kind = "result"
    <2> DEFINE T == { Wire("tool", {id}) : id \in m.ids }
               f == [id \in m.ids |-> Wire("tool", {id})]
               b == Translated(m)
    <2>1. b = SetToSeq(T)
      BY <1>3 DEF Translated
    <2>2. f \in Surjection(m.ids, T)
      BY DEF Surjection
    <2>3. IsFiniteSet(m.ids)
      BY <1>1, FS_Subset
    <2>4. IsFiniteSet(T)
      <3> HIDE DEF T, f
      <3> QED
        BY <2>2, <2>3, FS_Surjection
    <2>5. b \in Seq(T) /\ \A x \in T : \E i \in 1 .. Len(b) : b[i] = x
      <3> HIDE DEF T
      <3> QED
        BY <2>1, <2>4, SetToSeqFacts
    <2> HIDE DEF b
    <2>6. T \subseteq WireMessage
      BY <1>1, WireTypes
    <2>7. b \in Wires
      <3> HIDE DEF T
      <3> QED
        BY <2>5, <2>6, SeqMonotonic DEF Wires
    <2>8. \A i \in 1 .. Len(b) : b[i] \in T
      <3> HIDE DEF T
      <3> QED
        BY <2>5, ElementOfSeq
    <2>9. ToolsOf(b, m.ids)
      BY <2>5, <2>8 DEF ToolsOf
    <2>10. b # << >>
      <3>1. PICK id : id \in m.ids
        BY <1>3 DEF Sendable
      <3>2. PICK i : i \in 1 .. Len(b)
        BY <2>9, <3>1 DEF ToolsOf
      <3> QED
        BY <3>2, EmptySeq
    <2> QED
      BY <1>3, <2>7, <2>9, <2>10 DEF b
  <1>4. CASE m.kind \notin {"reply", "result"}
    <2>1. Translated(m) = << Wire("user", {}) >>
      BY <1>4 DEF Translated
    <2>2. << Wire("user", {}) >> \in Wires
      BY WireTypes DEF Wires
    <2> QED
      BY <1>4, <2>1, <2>2
  <1> QED
    BY <1>2, <1>3, <1>4

\* One message more, its translation more.
LEMMA TranslationGrows ==
    ASSUME IsFiniteSet(Ids), NEW p \in BOOLEAN, NEW h \in Seq(Sendable), NEW m \in Sendable
    PROVE  /\ toOpenAI(p, h) \in Wires
           /\ toOpenAI(p, << >>) = IF p THEN << Wire("system", {}) >> ELSE << >>
           /\ toOpenAI(p, Append(h, m)) = toOpenAI(p, h) \o Translated(m)
  <1> DEFINE row(g) == [i \in 1 .. Len(g) |-> Translated(g[i])]
             lead == IF p THEN << Wire("system", {}) >> ELSE << >>
             b == Translated(m)
  <1>1. \A g : toOpenAI(p, g) = lead \o FlattenSeq(row(g))
    BY DEF toOpenAI
  <1>2. ASSUME NEW g \in Seq(Sendable) PROVE row(g) \in Seq(Wires) /\ Len(row(g)) = Len(g)
    <2>1. \A i \in 1 .. Len(g) : Translated(g[i]) \in Wires
      BY TranslatedFacts
    <2> QED
      BY <2>1
  <1>3. lead \in Wires
    BY WireTypes DEF Wires
  <1>4. b \in Wires
    BY TranslatedFacts
  <1>5. PICK n \in Nat : n = Len(h)
    OBVIOUS
  <1>6. row(Append(h, m)) = Append(row(h), b)
    <2>1. /\ Append(h, m) \in Seq(Sendable) /\ Len(Append(h, m)) = n + 1
          /\ Append(h, m)[n + 1] = m /\ \A i \in 1 .. n : Append(h, m)[i] = h[i]
      BY <1>5, AppendProperties
    <2>2. row(Append(h, m)) \in Seq(Wires) /\ Len(row(Append(h, m))) = n + 1
      BY <1>2, <2>1
    <2>3. row(h) \in Seq(Wires) /\ Len(row(h)) = n
      BY <1>2, <1>5
    <2>4. /\ \A i \in 1 .. n : row(h)[i] = Translated(h[i])
          /\ \A i \in 1 .. n + 1 : row(Append(h, m))[i] = Translated(Append(h, m)[i])
      BY <1>5, <2>1
    <2> HIDE DEF row, b
    <2>5. /\ Append(row(h), b) \in Seq(Wires) /\ Len(Append(row(h), b)) = n + 1
          /\ Append(row(h), b)[n + 1] = b
          /\ \A i \in 1 .. n : Append(row(h), b)[i] = row(h)[i]
      BY <1>4, <2>3, AppendProperties
    <2>6. \A i \in 1 .. n + 1 : row(Append(h, m))[i] = Append(row(h), b)[i]
      <3> SUFFICES ASSUME NEW i \in 1 .. n + 1 PROVE row(Append(h, m))[i] = Append(row(h), b)[i]
        OBVIOUS
      <3>1. CASE i \in 1 .. n
        <4>1. Append(h, m)[i] = h[i] /\ Append(row(h), b)[i] = row(h)[i]
          BY <2>1, <2>5, <3>1
        <4>2. row(h)[i] = Translated(h[i])
          BY <2>4, <3>1
        <4>3. row(Append(h, m))[i] = Translated(Append(h, m)[i])
          BY <2>4
        <4> QED
          BY <4>1, <4>2, <4>3, Zenon
      <3>2. CASE i = n + 1
        <4>1. Append(h, m)[i] = m /\ Append(row(h), b)[i] = b
          BY <2>1, <2>5, <3>2
        <4>2. row(Append(h, m))[i] = Translated(Append(h, m)[i])
          BY <2>4
        <4>3. b = Translated(m)
          BY DEF b
        <4> QED
          BY <4>1, <4>2, <4>3, Zenon
      <3>3. i \in 1 .. n \/ i = n + 1
        OBVIOUS
      <3> QED
        BY <3>1, <3>2, <3>3, Zenon
    <2> QED
      BY <2>2, <2>5, <2>6, SeqEqual
  <1>7. FlattenSeq(row(Append(h, m))) = FlattenSeq(row(h)) \o b
    <2>1. row(h) \in Seq(Wires)
      BY <1>2
    <2> HIDE DEF row, b
    <2>2. CASE row(h) = << >>
      <3>1. Append(row(h), b) = << b >> /\ << >> \o b = b
        BY <1>4, <2>2, ConcatEmptySeq DEF Wires
      <3> QED
        BY <1>6, <2>2, <3>1, FlattenFacts
    <2>3. CASE row(h) # << >>
      BY <1>4, <1>6, <2>1, <2>3, FlattenFacts
    <2> QED
      BY <2>2, <2>3
  <1>8. FlattenSeq(row(h)) \in Wires
    BY <1>2, FlattenType
  <1>9. toOpenAI(p, << >>) = lead
    <2>1. row(<< >>) = << >>
      OBVIOUS
    <2> HIDE DEF row, lead
    <2>2. lead \o << >> = lead
      BY <1>3, ConcatEmptySeq DEF Wires
    <2> QED
      BY <1>1, <2>1, <2>2, FlattenFacts
  <1> HIDE DEF row, b
  <1>10. /\ lead \o FlattenSeq(row(h)) \in Wires
        /\ lead \o (FlattenSeq(row(h)) \o b) = (lead \o FlattenSeq(row(h))) \o b
    <2> HIDE DEF lead
    <2>1. PICK f \in Wires : f = FlattenSeq(row(h))
      BY <1>8
    <2>2. lead \o f \in Wires
      BY <1>3, ConcatProperties DEF Wires
    <2>3. /\ lead \in Seq(WireMessage) /\ f \in Seq(WireMessage)
          /\ b \in Seq(WireMessage)
      BY <1>3, <1>4 DEF Wires
    <2>4. PICK l, c \in Seq(WireMessage) : l = lead /\ c = b
      BY <2>3, Zenon
    <2>5. (l \o f) \o c = l \o (f \o c)
      BY <2>3, ConcatAssociative
    <2> QED
      BY <2>1, <2>2, <2>4, <2>5, Zenon
  <1> QED
    BY <1>1, <1>7, <1>9, <1>10 DEF b

\* A translation is a sequence of wire messages; that of no message is the system
\* prompt or nothing.
LEMMA TranslationTypes ==
    ASSUME IsFiniteSet(Ids), NEW p \in BOOLEAN, NEW h \in Seq(Sendable)
    PROVE  /\ toOpenAI(p, h) \in Wires
           /\ toOpenAI(p, << >>) = IF p THEN << Wire("system", {}) >> ELSE << >>
  <1>1. PICK m \in Sendable : m = Said("request")
    BY DEF Sendable, Said, Message, Kinds
  <1> QED
    BY TranslationGrows

(***************************************************************************)
(* What a provider accepts, position by position.                          *)
(***************************************************************************)

Followed(w, i) ==
    w[i].role = "assistant" => w[i].ids \subseteq AnsweredAfter(w, i)

Belongs(w, j) ==
    w[j].role = "tool" =>
        \E i \in 1 .. j - 1 :
            w[i].role = "assistant" /\ w[j].ids \subseteq w[i].ids /\ ToolsOnly(w, i, j)

\* What is put behind leaves accepted what was.
LEMMA AcceptedStays ==
    ASSUME NEW w \in Wires, NEW b \in Wires, NEW i \in 1 .. Len(w)
    PROVE  /\ Followed(w, i) => Followed(w \o b, i)
           /\ Belongs(w, i) => Belongs(w \o b, i)
  <1> DEFINE g == w \o b
  <1>1. PICK n \in Nat, k \in Nat : n = Len(w) /\ k = Len(b)
    BY DEF Wires
  <1>2. g \in Wires /\ Len(g) = n + k /\ \A j \in 1 .. n : g[j] = w[j]
    BY <1>1, ConcatProperties DEF Wires
  <1> HIDE DEF g
  <1>3. \A a, j \in 1 .. n : ToolsOnly(w, a, j) => ToolsOnly(g, a, j)
    <2> SUFFICES ASSUME NEW a \in 1 .. n, NEW j \in 1 .. n, ToolsOnly(w, a, j),
                        NEW q \in a + 1 .. j
                 PROVE  g[q].role = "tool"
      BY DEF ToolsOnly
    <2>1. q \in 1 .. n
      OBVIOUS
    <2> QED
      BY <1>2, <2>1 DEF ToolsOnly
  <1>4. AnsweredAfter(w, i) \subseteq AnsweredAfter(g, i)
    <2> SUFFICES ASSUME NEW id, NEW j \in i + 1 .. n, ToolsOnly(w, i, j), id \in w[j].ids
                 PROVE  \E q \in i + 1 .. Len(g) : ToolsOnly(g, i, q) /\ id \in g[q].ids
      BY <1>1 DEF AnsweredAfter
    <2>1. j \in 1 .. n /\ j \in i + 1 .. Len(g)
      BY <1>1, <1>2
    <2>2. ToolsOnly(g, i, j) /\ g[j] = w[j]
      BY <1>1, <1>2, <1>3, <2>1
    <2> QED
      BY <2>1, <2>2
  <1>5. g[i] = w[i]
    BY <1>1, <1>2
  <1>6. Followed(w, i) => Followed(g, i)
    BY <1>4, <1>5 DEF Followed
  <1>7. ASSUME Belongs(w, i) PROVE Belongs(g, i)
    <2> SUFFICES ASSUME w[i].role = "tool"
                 PROVE  \E a \in 1 .. i - 1 : g[a].role = "assistant"
                            /\ g[i].ids \subseteq g[a].ids /\ ToolsOnly(g, a, i)
      BY <1>5 DEF Belongs
    <2>1. PICK a \in 1 .. i - 1 : w[a].role = "assistant" /\ w[i].ids \subseteq w[a].ids
                                    /\ ToolsOnly(w, a, i)
      BY <1>7 DEF Belongs
    <2>2. a \in 1 .. n /\ i \in 1 .. n
      BY <1>1
    <2>3. g[a] = w[a] /\ ToolsOnly(g, a, i)
      BY <1>2, <1>3, <2>1, <2>2
    <2> QED
      BY <1>5, <2>1, <2>3
  <1> QED
    BY <1>6, <1>7 DEF g

\* What holds of a paired history's translation.  The calls of a last reply
\* are not answered yet.
Held(h, w) ==
    /\ \A j \in 1 .. Len(w) : Belongs(w, j)
    /\ \A i \in 1 .. Len(w) :
         (i < Len(w) \/ h = << >> \/ Final(h).kind # "reply") => Followed(w, i)
    /\ h # << >> /\ Final(h).kind = "reply" =>
         w # << >> /\ w[Len(w)] = Wire("assistant", Final(h).ids)

\* A message that may stand behind the last one keeps the translation so.
LEMMA HeldPlain ==
    ASSUME NEW h \in Seq(Sendable), NEW m \in Sendable, NEW w \in Wires, Held(h, w),
           h # << >> => MayFollow(Final(h), m), m.kind # "result",
           IsFiniteSet(Ids)
    PROVE  Held(Append(h, m), w \o Translated(m))
  <1> DEFINE g == w \o Translated(m)
  <1>1. PICK x \in WireMessage :
            /\ Translated(m) = << x >>
            /\ m.kind = "reply" => x = Wire("assistant", m.ids)
            /\ m.kind # "reply" => x.role = "user"
    <2>1. m.ids \in SUBSET Ids
      BY DEF Sendable, Message
    <2>2. CASE m.kind = "reply"
      BY <2>1, <2>2, TranslatedFacts, WireTypes
    <2>3. CASE m.kind # "reply"
      BY <2>3, TranslatedFacts, WireTypes
    <2> QED
      BY <2>2, <2>3
  <1>2. PICK n \in Nat : n = Len(w)
    BY DEF Wires
  <1>3. /\ g \in Wires /\ Len(g) = n + 1 /\ g[n + 1] = x
        /\ \A i \in 1 .. n : g[i] = w[i]
    <2>1. g = Append(w, x)
      BY <1>1, AppendIsConcat DEF Wires
    <2> QED
      BY <1>2, <2>1, AppendProperties DEF Wires
  <1>4. x.role # "tool"
    BY <1>1, WireTypes
  <1>5. << x >> \in Wires
    BY DEF Wires
  <1>6. \A i \in 1 .. n : /\ Followed(w, i) => Followed(g, i)
                          /\ Belongs(w, i) => Belongs(g, i)
    BY <1>1, <1>2, <1>5, AcceptedStays
  <1> HIDE DEF g
  <1>7. \A j \in 1 .. n + 1 : Belongs(g, j)
    <2> SUFFICES ASSUME NEW j \in 1 .. n + 1 PROVE Belongs(g, j)
      OBVIOUS
    <2>1. CASE j \in 1 .. n
      BY <1>2, <1>6, <2>1 DEF Held
    <2>2. CASE j = n + 1
      BY <1>3, <1>4, <2>2 DEF Belongs
    <2> QED
      BY <2>1, <2>2
  <1>8. ASSUME NEW i \in 1 .. n PROVE Followed(g, i)
    <2>1. CASE i < n \/ h = << >> \/ Final(h).kind # "reply"
      BY <1>2, <1>6, <2>1 DEF Held
    <2>2. CASE i = n /\ h # << >> /\ Final(h).kind = "reply"
      <3>1. Final(h).ids = {}
        BY <2>2 DEF MayFollow, Answers, Calls
      <3>2. g[i] = Wire("assistant", Final(h).ids)
        BY <1>2, <1>3, <2>2 DEF Held
      <3>3. g[i].ids = {}
        BY <3>1, <3>2, WireTypes
      <3> QED
        BY <3>3 DEF Followed
    <2>3. i < n \/ i = n
      OBVIOUS
    <2> QED
      BY <2>1, <2>2, <2>3
  <1>9. Append(h, m) # << >> /\ Final(Append(h, m)) = m
    BY AppendProperties DEF Final
  <1>10. m.kind # "reply" => Followed(g, n + 1)
    BY <1>1, <1>3 DEF Followed
  <1>11. ASSUME NEW i \in 1 .. n + 1, i < n + 1 \/ m.kind # "reply" PROVE Followed(g, i)
    <2>1. i \in 1 .. n \/ i = n + 1
      OBVIOUS
    <2> QED
      BY <1>8, <1>10, <1>11, <2>1
  <1>12. m.kind = "reply" => g # << >> /\ g[n + 1] = Wire("assistant", m.ids)
    BY <1>1, <1>3
  <1>13. Held(Append(h, m), g)
    BY <1>3, <1>7, <1>9, <1>11, <1>12 DEF Held
  <1> QED
    BY <1>13 DEF g

\* So do the results of the calls in the last one: each call gets its answer right
\* behind the wire message that has the calls.
LEMMA HeldResult ==
    ASSUME NEW h \in Seq(Sendable), NEW m \in Sendable, NEW w \in Wires, Held(h, w),
           h # << >>, MayFollow(Final(h), m), m.kind = "result",
           IsFiniteSet(Ids)
    PROVE  Held(Append(h, m), w \o Translated(m))
  <1> DEFINE b == Translated(m)
             g == w \o b
             a == Final(h)
  <1>1. a.kind = "reply" /\ m.ids = a.ids
    BY DEF MayFollow, Answers
  <1>2. b \in Wires /\ b # << >> /\ ToolsOf(b, m.ids)
    BY TranslatedFacts
  <1> HIDE DEF b, a
  <1>3. PICK n \in Nat, k \in Nat : n = Len(w) /\ k = Len(b)
    BY <1>2 DEF Wires
  <1>4. n > 0 /\ w[n] = Wire("assistant", a.ids)
    <2>1. w # << >> /\ w[n] = Wire("assistant", a.ids)
      BY <1>1, <1>3 DEF Held, a
    <2> QED
      BY <1>3, <2>1, EmptySeq DEF Wires
  <1>5. /\ g \in Wires /\ Len(g) = n + k
        /\ \A i \in 1 .. n : g[i] = w[i]
        /\ \A i \in 1 .. k : g[n + i] = b[i]
    <2>1. \A i \in 1 .. n + k : g[i] = IF i <= n THEN w[i] ELSE b[i - n]
      BY <1>2, <1>3, ConcatProperties DEF Wires
    <2>2. g \in Wires /\ Len(g) = n + k
      BY <1>2, <1>3, ConcatProperties DEF Wires
    <2> HIDE DEF g
    <2>3. \A i \in 1 .. n : g[i] = w[i]
      BY <1>3, <2>1
    <2>4. ASSUME NEW i \in 1 .. k PROVE g[n + i] = b[i]
      <3>1. PICK j : j = n + i /\ j \in 1 .. n + k /\ ~(j <= n) /\ j - n = i
        BY <1>3
      <3> QED
        BY <2>1, <3>1
    <2> QED
      BY <2>2, <2>3, <2>4
  <1>6. \A i \in 1 .. n : /\ Followed(w, i) => Followed(g, i)
                          /\ Belongs(w, i) => Belongs(g, i)
    BY <1>2, <1>3, AcceptedStays
  <1> HIDE DEF g
  <1>7. ASSUME NEW j \in n + 1 .. n + k
        PROVE  \E id \in m.ids : g[j] = Wire("tool", {id})
    <2>1. PICK i \in 1 .. k : j = n + i
      <3>1. j - n \in 1 .. k /\ j = n + (j - n)
        BY <1>3
      <3> QED
        BY <3>1
    <2>2. g[j] = b[i]
      BY <1>5, <2>1
    <2> QED
      BY <1>2, <1>3, <2>2 DEF ToolsOf
  <1>8. \A j \in n + 1 .. n + k : g[j].role = "tool" /\ g[j].ids \subseteq m.ids
    <2> SUFFICES ASSUME NEW j \in n + 1 .. n + k
                 PROVE  g[j].role = "tool" /\ g[j].ids \subseteq m.ids
      OBVIOUS
    <2>1. PICK id \in m.ids : g[j] = Wire("tool", {id})
      BY <1>7
    <2> QED
      BY <2>1, WireTypes
  <1>9. \A j \in n + 1 .. n + k : ToolsOnly(g, n, j)
    BY <1>3, <1>8 DEF ToolsOnly
  <1>10. g[n] = Wire("assistant", a.ids)
    BY <1>3, <1>4, <1>5
  <1>11. \A j \in 1 .. n + k : Belongs(g, j)
    <2> SUFFICES ASSUME NEW j \in 1 .. n + k PROVE Belongs(g, j)
      OBVIOUS
    <2>1. CASE j \in 1 .. n
      BY <1>3, <1>6, <2>1 DEF Held
    <2>2. CASE j \in n + 1 .. n + k
      <3>1. n \in 1 .. j - 1
        BY <1>4, <2>2
      <3>2. g[n].role = "assistant" /\ g[n].ids = a.ids
        BY <1>10, WireTypes
      <3>3. g[j].ids \subseteq a.ids /\ ToolsOnly(g, n, j)
        BY <1>1, <1>8, <1>9, <2>2
      <3> QED
        BY <3>1, <3>2, <3>3 DEF Belongs
    <2>3. j \in 1 .. n \/ j \in n + 1 .. n + k
      OBVIOUS
    <2> QED
      BY <2>1, <2>2, <2>3
  <1>12. Followed(g, n)
    <2> SUFFICES ASSUME NEW id \in a.ids PROVE id \in AnsweredAfter(g, n)
      BY <1>10, WireTypes DEF Followed
    <2>1. PICK i \in 1 .. k : b[i] = Wire("tool", {id})
      BY <1>1, <1>2, <1>3 DEF ToolsOf
    <2>2. PICK j : j = n + i /\ j \in n + 1 .. n + k
      BY <1>3
    <2>3. id \in g[j].ids
      BY <1>5, <2>1, <2>2, WireTypes
    <2>4. j \in n + 1 .. Len(g) /\ ToolsOnly(g, n, j)
      BY <1>5, <1>9, <2>2
    <2> QED
      BY <2>3, <2>4 DEF AnsweredAfter
  <1>13. \A i \in 1 .. n + k : Followed(g, i)
    <2> SUFFICES ASSUME NEW i \in 1 .. n + k PROVE Followed(g, i)
      OBVIOUS
    <2>1. CASE i \in 1 .. n /\ i < n
      BY <1>3, <1>6, <2>1 DEF Held
    <2>2. CASE i = n
      BY <1>12, <2>2
    <2>3. CASE i \in n + 1 .. n + k
      BY <1>8, <2>3 DEF Followed
    <2>4. (i \in 1 .. n /\ i < n) \/ i = n \/ i \in n + 1 .. n + k
      OBVIOUS
    <2> QED
      BY <2>1, <2>2, <2>3, <2>4
  <1>14. Append(h, m) # << >> /\ Final(Append(h, m)) = m
    BY AppendProperties DEF Final
  <1>15. Held(Append(h, m), g)
    BY <1>5, <1>11, <1>13, <1>14 DEF Held
  <1> QED
    BY <1>15 DEF g, b

\* What may be in a history is a message.
LEMMA SendableTypes == Sendable \subseteq Line /\ Seq(Sendable) \subseteq Seq(Line)
  BY DEF Sendable, Line

\* Every paired history's translation is so.
LEMMA PairedHeld ==
    ASSUME IsFiniteSet(Ids), NEW p \in BOOLEAN, NEW h \in Seq(Sendable), Paired(h)
    PROVE  Held(h, toOpenAI(p, h))
  <1> DEFINE S == { g \in Seq(Sendable) : Paired(g) => Held(g, toOpenAI(p, g)) }
  <1>1. << >> \in S
    <2>1. << >> \in Seq(Sendable)
      OBVIOUS
    <2> DEFINE w == toOpenAI(p, << >>)
    <2>2. w = IF p THEN << Wire("system", {}) >> ELSE << >>
      BY TranslationTypes
    <2> HIDE DEF w
    <2>3. \A i \in 1 .. Len(w) : w[i].role = "system"
      <3>1. CASE p
        <4>1. Len(w) = 1 /\ w[1] = Wire("system", {})
          BY <2>2, <3>1
        <4> QED
          BY <4>1, WireTypes
      <3>2. CASE ~p
        BY <2>2, <3>2
      <3> QED
        BY <3>1, <3>2
    <2>4. Held(<< >>, w)
      BY <2>3 DEF Held, Followed, Belongs
    <2> QED
      BY <2>1, <2>4 DEF w
  <1>2. ASSUME NEW g \in Seq(Sendable), NEW m \in Sendable, g \in S PROVE Append(g, m) \in S
    <2>1. Append(g, m) \in Seq(Sendable)
      BY AppendProperties
    <2> SUFFICES ASSUME Paired(Append(g, m))
                 PROVE  Held(Append(g, m), toOpenAI(p, Append(g, m)))
      BY <2>1
    <2>2. g \in Seq(Line) /\ m \in Line
      BY SendableTypes
    <2>3. /\ Paired(g)
          /\ g = << >> => m.kind # "result"
          /\ g # << >> => MayFollow(Final(g), m)
      BY <2>2, PairedParts
    <2>4. Held(g, toOpenAI(p, g)) /\ toOpenAI(p, g) \in Wires
      BY <1>2, <2>3, TranslationGrows
    <2>5. Held(Append(g, m), toOpenAI(p, g) \o Translated(m))
      <3>1. CASE m.kind = "result"
        BY <2>3, <2>4, <3>1, HeldResult
      <3>2. CASE m.kind # "result"
        BY <2>3, <2>4, <3>2, HeldPlain
      <3> QED
        BY <3>1, <3>2
    <2>6. toOpenAI(p, Append(g, m)) = toOpenAI(p, g) \o Translated(m)
      BY TranslationGrows
    <2> QED
      BY <2>5, <2>6
  <1> HIDE DEF S
  <1>3. Seq(Sendable) \subseteq S
    BY <1>1, <1>2, SeqInduction
  <1> QED
    BY <1>3 DEF S

\* To be accepted is to be accepted at every position.
LEMMA AcceptedMeans ==
    ASSUME NEW w
    PROVE  WireAccepted(w) <=> \A i \in 1 .. Len(w) : Followed(w, i) /\ Belongs(w, i)
  BY DEF WireAccepted, Followed, Belongs

\* What the loop's rule lets be sent is accepted.
LEMMA ReplayableAccepted ==
    ASSUME IsFiniteSet(Ids), NEW p \in BOOLEAN, NEW h \in Seq(Sendable), Replayable(h)
    PROVE  WireAccepted(toOpenAI(p, h))
  <1> DEFINE w == toOpenAI(p, h)
  <1>1. Held(h, w) /\ w \in Wires
    BY PairedHeld, TranslationTypes DEF Replayable
  <1> HIDE DEF w
  <1>2. ASSUME NEW i \in 1 .. Len(w) PROVE Followed(w, i)
    <2>1. CASE i < Len(w) \/ h = << >> \/ Final(h).kind # "reply"
      BY <1>1, <2>1 DEF Held
    <2>2. CASE i = Len(w) /\ h # << >> /\ Final(h).kind = "reply"
      <3>1. Final(h).ids = {}
        BY <2>2 DEF Replayable, Unanswered, Calls
      <3>2. w[i] = Wire("assistant", Final(h).ids)
        BY <1>1, <2>2 DEF Held
      <3>3. w[i].ids = {}
        BY <3>1, <3>2, WireTypes
      <3> QED
        BY <3>3 DEF Followed
    <2>3. i < Len(w) \/ i = Len(w)
      BY <1>1 DEF Wires
    <2> QED
      BY <2>1, <2>2, <2>3
  <1>3. WireAccepted(w)
    BY <1>1, <1>2, AcceptedMeans DEF Held
  <1> QED
    BY <1>3 DEF w

\* Results without their calls are not.
LEMMA ResultsFirst ==
    ASSUME IsFiniteSet(Ids), NEW h \in Seq(Sendable), h # << >>, h[1].kind = "result"
    PROVE  ~WireAccepted(toOpenAI(FALSE, h))
  <1> DEFINE Leads(g) == toOpenAI(FALSE, g) # << >> /\ toOpenAI(FALSE, g)[1].role = "tool"
             S == { g \in Seq(Sendable) : g # << >> /\ g[1].kind = "result" => Leads(g) }
  <1>1. << >> \in S
    OBVIOUS
  <1>2. ASSUME NEW g \in Seq(Sendable), NEW m \in Sendable, g \in S PROVE Append(g, m) \in S
    <2>1. Append(g, m) \in Seq(Sendable)
      BY AppendProperties
    <2> SUFFICES ASSUME Append(g, m)[1].kind = "result" PROVE Leads(Append(g, m))
      BY <2>1
    <2> DEFINE v == toOpenAI(FALSE, g)
               b == Translated(m)
    <2>2. /\ v \in Wires /\ b \in Wires /\ b # << >>
          /\ toOpenAI(FALSE, Append(g, m)) = v \o b
          /\ m.kind = "result" => ToolsOf(b, m.ids)
          /\ toOpenAI(FALSE, << >>) = << >>
      BY TranslationGrows, TranslatedFacts, TranslationTypes
    <2>3. v \o b # << >> /\ Len(v \o b) = Len(v) + Len(b)
      <3> HIDE DEF v, b
      <3> QED
        BY <2>2, ConcatEqualIffEmpty, ConcatProperties DEF Wires
    <2>4. CASE g = << >>
      <3>1. m.kind = "result" /\ v = << >>
        <4>1. Append(g, m)[1] = m
          BY <2>4
        <4> QED
          BY <2>2, <2>4, <4>1
      <3> HIDE DEF v, b
      <3>2. v \o b = b /\ 1 \in 1 .. Len(b)
        BY <2>2, <3>1, ConcatEmptySeq, EmptySeq DEF Wires
      <3>3. PICK id \in m.ids : b[1] = Wire("tool", {id})
        BY <2>2, <3>1, <3>2 DEF ToolsOf
      <3>4. (v \o b)[1].role = "tool"
        BY <3>2, <3>3, WireTypes
      <3> QED
        BY <2>2, <2>3, <3>4
    <2>5. CASE g # << >>
      <3>1. g[1].kind = "result"
        BY <2>5
      <3>2. v # << >> /\ v[1].role = "tool"
        BY <1>2, <2>5, <3>1
      <3> HIDE DEF v, b
      <3>3. (v \o b)[1] = v[1]
        BY <2>2, <3>2, ConcatProperties, EmptySeq DEF Wires
      <3> QED
        BY <2>2, <2>3, <3>2, <3>3
    <2> QED
      BY <2>4, <2>5
  <1> HIDE DEF S
  <1>3. h \in S
    BY <1>1, <1>2, SeqInduction
  <1>4. Leads(h)
    BY <1>3 DEF S
  <1> DEFINE w == toOpenAI(FALSE, h)
  <1>5. w \in Wires /\ w # << >> /\ w[1].role = "tool"
    BY <1>4, TranslationTypes
  <1> HIDE DEF w
  <1>6. 1 \in 1 .. Len(w)
    BY <1>5, EmptySeq DEF Wires
  <1>7. ~Belongs(w, 1)
    BY <1>5 DEF Belongs
  <1>8. ~WireAccepted(w)
    BY <1>6, <1>7, AcceptedMeans
  <1> QED
    BY <1>8 DEF w

\* Calls without their results are not.
LEMMA CallsLast ==
    ASSUME IsFiniteSet(Ids), NEW h \in Seq(Sendable), Unanswered(h)
    PROVE  ~WireAccepted(toOpenAI(FALSE, h))
  <1>1. h # << >> /\ Final(h).kind = "reply" /\ Final(h).ids # {}
    BY DEF Unanswered, Calls
  <1>2. PICK g \in Seq(Sendable), m \in Sendable : h = Append(g, m)
    BY <1>1, SequenceEmptyOrAppend
  <1>3. Final(h) = m
    BY <1>2, AppendProperties DEF Final
  <1> DEFINE v == toOpenAI(FALSE, g)
             w == toOpenAI(FALSE, h)
             x == Wire("assistant", m.ids)
  <1>4. w = v \o << x >> /\ v \in Wires /\ x \in WireMessage
    <2>1. m.ids \in SUBSET Ids
      BY DEF Sendable, Message
    <2> QED
      BY <1>1, <1>2, <1>3, <2>1, TranslationGrows, TranslatedFacts, WireTypes
  <1>5. x.role = "assistant" /\ x.ids # {}
    BY <1>1, <1>3, WireTypes
  <1> HIDE DEF v, w, x
  <1>6. PICK n \in Nat : n = Len(w) /\ n \in 1 .. n /\ w[n] = x
    <2>1. w = Append(v, x)
      BY <1>4, AppendIsConcat DEF Wires
    <2>2. Len(w) = Len(v) + 1 /\ w[Len(v) + 1] = x /\ Len(v) \in Nat
      BY <1>4, <2>1, AppendProperties DEF Wires
    <2> QED
      BY <2>2
  <1>7. AnsweredAfter(w, n) = {}
    BY <1>6 DEF AnsweredAfter
  <1>8. ~Followed(w, n)
    BY <1>5, <1>6, <1>7 DEF Followed
  <1>9. ~WireAccepted(w)
    BY <1>6, <1>8, AcceptedMeans
  <1> QED
    BY <1>9 DEF w

\* What anyrun produces, and the note, may be in a history.
LEMMA ProducedSendable ==
    /\ Produced \subseteq Sendable /\ Said("summary") \in Produced
    /\ \A k \in {"request", "media", "note"} : Said(k) \in Sendable
  <1>1. \A k \in Kinds \ {"reply", "result"} : Said(k) \in Sendable
    BY DEF Sendable, Said, Message, Kinds
  <1>2. \A S \in SUBSET Ids : Reply(S) \in Sendable
    BY DEF Sendable, Reply, Message, Kinds
  <1>3. \A S \in (SUBSET Ids) \ {{}} : Results(S) \in Sendable
    BY DEF Sendable, Results, Message, Kinds
  <1>4. "summary" \in Kinds \ {"reply", "result", "note"}
        /\ {"request", "media", "note"} \subseteq Kinds \ {"reply", "result"}
    BY DEF Kinds
  <1>5. Produced \subseteq Sendable
    BY <1>1, <1>2, <1>3 DEF Produced
  <1>6. Said("summary") \in Produced
    BY <1>4 DEF Produced
  <1> QED
    BY <1>1, <1>4, <1>5, <1>6

\* What anyrun writes is a transcript of what it produces.
LEMMA WrittenIsTranscript == WrittenSpec => [](TypeOK /\ LogPaired /\ log \in Seq(Produced))
  <1>1. Init => log \in Seq(Produced)
    BY ProducedAssumption DEF Init
  <1>2. log \in Seq(Produced) /\ [WrittenNext]_log => (log \in Seq(Produced))'
    <2> SUFFICES ASSUME log \in Seq(Produced), [WrittenNext]_log PROVE log' \in Seq(Produced)
      OBVIOUS
    <2>1. ASSUME NEW m \in Produced, Record(m) PROVE log' \in Seq(Produced)
      BY <2>1, AppendProperties DEF Record
    <2>2. ASSUME NEW cut \in 1 .. Len(log) - 1, Fold(cut) PROVE log' \in Seq(Produced)
      <3>1. SubSeq(log, cut + 1, Len(log)) \in Seq(Produced)
        OBVIOUS
      <3>2. << Said("summary") >> \in Seq(Produced)
        BY ProducedSendable
      <3>3. log' = << Said("summary") >> \o SubSeq(log, cut + 1, Len(log))
        BY <2>2 DEF Fold, Folded
      <3> QED
        BY <3>1, <3>2, <3>3, ConcatProperties
    <2>3. CASE UNCHANGED log
      BY <2>3
    <2> QED
      BY <2>1, <2>2, <2>3 DEF WrittenNext
  <1>3. WrittenNext => Next
    BY ProducedSendable DEF WrittenNext, Next, Sendable
  <1> QED
    BY <1>1, <1>2, <1>3, LogStaysPaired, PTL DEF WrittenSpec, Spec

\* So may what is written of it.
LEMMA ProducedTypes == Seq(Produced) \subseteq Seq(Sendable)
  BY ProducedSendable

\* The translation neither breaks nor mends the pairing: of any stretch of any
\* history the provider accepts it exactly when the loop's rule lets it be sent
\* (toOpenAI, repairDanglingToolUse).
THEOREM WiresAgree ==
    ASSUME IsFiniteSet(Ids)
    PROVE  WrittenSpec => []WireAgrees
  <1>1. ASSUME log \in Seq(Sendable), Paired(log) PROVE WireAgrees
    <2> SUFFICES ASSUME NEW i \in 1 .. Len(log), NEW j \in i .. Len(log)
                 PROVE  WireAccepted(toOpenAI(FALSE, SubSeq(log, i, j)))
                            <=> Replayable(SubSeq(log, i, j))
      BY DEF WireAgrees
    <2> DEFINE part == SubSeq(log, i, j)
    <2>1. /\ part \in Seq(Sendable) /\ Len(part) = j - i + 1
          /\ \A k \in 1 .. j - i + 1 : part[k] = log[i + k - 1]
      <3>1. \A k \in i .. j : log[k] \in Sendable
        BY <1>1
      <3> QED
        BY <3>1, SubSeqProperties
    <2> HIDE DEF part
    <2>2. \A k \in 1 .. Len(part) - 1 : MayFollow(part[k], part[k + 1])
      <3> SUFFICES ASSUME NEW k \in 1 .. Len(part) - 1 PROVE MayFollow(part[k], part[k + 1])
        OBVIOUS
      <3>1. PICK q \in 1 .. Len(log) - 1 : q = i + k - 1
        BY <1>1, <2>1
      <3>2. part[k] = log[q]
        BY <2>1, <3>1
      <3>3. part[k + 1] = log[q + 1]
        <4>1. k + 1 \in 1 .. j - i + 1 /\ i + (k + 1) - 1 = q + 1
          BY <2>1, <3>1
        <4> QED
          BY <2>1, <4>1
      <3> QED
        BY <1>1, <3>2, <3>3 DEF Paired
    <2>3. part # << >>
      <3>1. Len(part) # 0
        BY <2>1
      <3> QED
        BY <3>1, EmptySeq
    <2>4. ASSUME WireAccepted(toOpenAI(FALSE, part)) PROVE Replayable(part)
      <3>1. part[1].kind # "result"
        BY <2>1, <2>3, <2>4, ResultsFirst
      <3>2. ~Unanswered(part)
        BY <2>1, <2>4, CallsLast
      <3> QED
        BY <2>2, <3>1, <3>2 DEF Replayable, Paired
    <2>5. ASSUME Replayable(part) PROVE WireAccepted(toOpenAI(FALSE, part))
      BY <2>1, <2>5, ReplayableAccepted
    <2> QED
      BY <2>4, <2>5 DEF part
  <1>2. TypeOK /\ LogPaired /\ log \in Seq(Produced) => WireAgrees
    BY <1>1, ProducedTypes DEF LogPaired
  <1> QED
    BY <1>2, WrittenIsTranscript, PTL

\* What a run sends first of a history that it resumes may be sent, if every
\* call has an id.
LEMMA OpenedReplayable ==
    ASSUME NoId \notin Ids, NEW h \in Seq(Sendable), Paired(h), NEW input \in {"request", "media"}
    PROVE  Opened(h, input) \in Seq(Sendable) /\ Replayable(Opened(h, input))
  <1> DEFINE closed == IF Dangling(h) THEN Append(h, Closing(h)) ELSE h
             opened == IF CutShort(closed) THEN Append(closed, Said("note")) ELSE closed
  <1>1. closed \in Seq(Sendable) /\ Replayable(closed)
    <2>1. CASE Dangling(h)
      <3>1. Closing(h) \in Message /\ Replayable(Append(h, Closing(h)))
        BY <2>1, SendableTypes, ClosingCloses
      <3>2. Closing(h) \in Sendable
        BY <2>1, <3>1 DEF Sendable, Closing, Results, Dangling
      <3>3. Append(h, Closing(h)) \in Seq(Sendable)
        BY <3>2, AppendProperties
      <3> QED
        BY <2>1, <3>1, <3>3
    <2>2. CASE ~Dangling(h)
      BY <2>2, SendableTypes, DanglingIsUnanswered DEF Replayable
    <2> QED
      BY <2>1, <2>2
  <1>2. /\ \A k \in {"request", "media", "note"} : Said(k) \in Sendable
        /\ {"request", "media", "note"} \subseteq Kinds \ {"reply", "result"}
    BY ProducedSendable DEF Kinds
  <1> HIDE DEF closed
  <1>3. opened \in Seq(Sendable) /\ Replayable(opened)
    <2>1. CASE CutShort(closed)
      <3>1. Append(closed, Said("note")) \in Seq(Sendable)
        BY <1>1, <1>2, AppendProperties
      <3>2. Replayable(Append(closed, Said("note")))
        BY <1>1, <1>2, SendableTypes, SaidKeepsReplayable
      <3> QED
        BY <2>1, <3>1, <3>2
    <2>2. CASE ~CutShort(closed)
      BY <1>1, <2>2
    <2> QED
      BY <2>1, <2>2
  <1> HIDE DEF opened
  <1>4. Append(opened, Said(input)) \in Seq(Sendable)
    BY <1>2, <1>3, AppendProperties
  <1>5. Replayable(Append(opened, Said(input)))
    BY <1>2, <1>3, SendableTypes, SaidKeepsReplayable
  <1>6. Opened(h, input) = Append(opened, Said(input))
    BY DEF Opened, opened, closed
  <1> QED
    BY <1>4, <1>5, <1>6

\* However a history was cut off, if every call in it has an id, the first
\* request on it is accepted once it is translated: every tool call gets its
\* tool message (repairDanglingToolUse, the resume note of Turn, toOpenAI).
\* The repair leaves a call with an empty id unanswered: unnamed_call.
THEOREM RepairsAreAccepted ==
    ASSUME IsFiniteSet(Ids), NoId \notin Ids
    PROVE  WrittenSpec => []RepairAccepted
  <1>1. LogPaired /\ log \in Seq(Produced) => RepairAccepted
    BY ProducedTypes, OpenedReplayable, ReplayableAccepted DEF LogPaired, RepairAccepted
  <1> QED
    BY <1>1, WrittenIsTranscript, PTL
=============================================================================
