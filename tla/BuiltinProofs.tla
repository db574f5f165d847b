---------------------------- MODULE BuiltinProofs ----------------------------
(***************************************************************************)
(* Theorems about BuiltinTools for texts of any length over any alphabet:  *)
(* the types of its variables, what edit_file makes of a text, what a file *)
(* holds when a call has returned, and that the pages of a file are the    *)
(* file.  The operators of TextFile are recursive functions; what they     *)
(* compute is shown by induction over positions.                           *)
(***************************************************************************)
EXTENDS BuiltinTools, Induction, SequenceTheorems, FiniteSetTheorems

\* Every variable keeps values of its kind; nothing is left of a call that
\* returned; and what holds bash's output lives no longer than bash's call.
THEOREM BuiltinTypeCorrect == Spec => []TypeOK
  <1>1. Init => TypeOK
    BY DEF Init, TypeOK
  <1>2. TypeOK /\ [Next]_vars => TypeOK'
    <2> SUFFICES ASSUME TypeOK, [Next]_vars PROVE TypeOK'
      OBVIOUS
    <2> USE DEF TypeOK
    <2>1. CASE Calling
      <3>1. ASSUME NEW old \in Snippets, NEW new \in Snippets, NEW all \in BOOLEAN,
                   RefuseEdit(old, new, all) \/ EditFile(old, new, all)
            PROVE  TypeOK'
        <4>1. CASE RefuseEdit(old, new, all)
          BY <4>1 DEF RefuseEdit, fileVars, shellVars
        <4>2. CASE EditFile(old, new, all)
          <5>1. pc = "idle" /\ pc' = "open" /\ UNCHANGED <<touched, answer, shellVars>>
            BY <4>2 DEF EditFile
          <5> QED
            BY <5>1 DEF shellVars
        <4> QED
          BY <3>1, <4>1, <4>2
      <3>2. ASSUME NEW content \in Contents, WriteFile(content) PROVE TypeOK'
        BY <3>2 DEF WriteFile, shellVars
      <3>3. CASE StartShell
        BY <3>3 DEF StartShell, fileVars
      <3> QED
        BY <2>1, <3>1, <3>2, <3>3 DEF Calling
    <2>2. CASE Open \/ Write
      <3>1. \/ \E how \in {"ok", "error"} : Return(how)
            \/ pc' = "write" /\ UNCHANGED <<fileVars, answer>>
        BY <2>2 DEF Open, Write
      <3>2. pc \in {"open", "write"} /\ UNCHANGED <<shell, children, expired>>
        BY <2>2 DEF Open, Write, shellVars
      <3>3. CASE pc' = "write" /\ UNCHANGED <<fileVars, answer>>
        BY <3>2, <3>3 DEF fileVars
      <3>4. ASSUME NEW how \in {"ok", "error"}, Return(how) PROVE TypeOK'
        BY <3>2, <3>4 DEF Return
      <3> QED
        BY <3>1, <3>3, <3>4
    <2>3. CASE AnswerBash
      BY <2>3 DEF AnswerBash, Return
    <2>4. CASE Deadline \/ ShellExits
      BY <2>4 DEF Deadline, Expire, KillShell, ShellExits, fileVars
    <2>5. CASE WriteFromOutside
      BY <2>5 DEF WriteFromOutside, shellVars
    <2>6. CASE Kill
      BY <2>6 DEF Kill, Return
    <2>7. ASSUME NEW kind \in {"holding", "detached"}, Spawn(kind) \/ ChildEnds(kind)
          PROVE  TypeOK'
      <3>1. UNCHANGED <<pc, asked, text, touched, answer, shell, expired>>
        BY <2>7 DEF Spawn, ChildEnds, fileVars
      <3>2. CASE Spawn(kind)
        BY <3>1, <3>2 DEF Spawn
      <3>3. CASE ChildEnds(kind)
        BY <3>1, <3>3 DEF ChildEnds
      <3> QED
        BY <2>7, <3>2, <3>3
    <2>8. CASE UNCHANGED vars
      BY <2>8 DEF vars, fileVars, shellVars
    <2> QED
      BY <2>1, <2>2, <2>3, <2>4, <2>5, <2>6, <2>7, <2>8 DEF Next, Working
  <1> QED
    BY <1>1, <1>2, PTL DEF Spec

(***************************************************************************)
(* The places an edit replaces.                                            *)
(***************************************************************************)

\* f is what the definition of Found describes, from position lo on.
FoundAt(s, t, f, i) ==
    IF i > Len(s) THEN {}
    ELSE IF OccursAt(s, t, i) THEN {i} \cup f[i + Len(t)]
    ELSE f[i + 1]

IsFound(s, t, f, lo) == f = [i \in lo .. Len(s) + 1 |-> FoundAt(s, t, f, i)]

\* A snippet that stands somewhere ends within the text.
LEMMA OccursWithin ==
    ASSUME NEW s \in Texts, NEW t \in Texts, t # << >>
    PROVE  /\ Len(s) \in Nat /\ Len(t) \in Nat /\ Len(t) >= 1
           /\ \A i \in 1 .. Len(s) + 1 : OccursAt(s, t, i) =>
                i \in 1 .. Len(s) /\ i + Len(t) \in i + 1 .. Len(s) + 1
           /\ \A i \in 1 .. Len(s) : i + 1 \in i + 1 .. Len(s) + 1
           /\ Occurrences(s, t) \subseteq 1 .. Len(s)
  <1>1. Len(s) \in Nat /\ Len(t) \in Nat /\ Len(t) >= 1
    BY EmptySeq DEF Texts
  <1>2. PICK n \in Nat, l \in Nat : n = Len(s) /\ l = Len(t) /\ l >= 1
    BY <1>1
  <1>3. ASSUME NEW i \in 1 .. n + 1, OccursAt(s, t, i)
        PROVE  i \in 1 .. n /\ i + l \in i + 1 .. n + 1
    <2>1. i + l - 1 <= n
      BY <1>2, <1>3 DEF OccursAt
    <2> QED
      BY <1>2, <2>1
  <1> QED
    BY <1>2, <1>3 DEF Occurrences

\* There is one.
LEMMA FoundExists ==
    ASSUME NEW s \in Texts, NEW t \in Texts, t # << >>
    PROVE  \E f : IsFound(s, t, f, 1)
  <1> DEFINE S == { i \in 1 .. Len(s) + 1 : \E f : IsFound(s, t, f, i) }
  <1>1. PICK n \in Nat : n = Len(s)
    BY OccursWithin
  <1>2. ASSUME NEW f, NEW g, NEW i \in 1 .. n + 1, \A j \in i + 1 .. n + 1 : f[j] = g[j]
        PROVE  FoundAt(s, t, f, i) = FoundAt(s, t, g, i)
    <2>1. CASE i > n
      BY <1>1, <2>1 DEF FoundAt
    <2>2. CASE i <= n /\ OccursAt(s, t, i)
      <3>1. i + Len(t) \in i + 1 .. n + 1
        BY <1>1, <2>2, OccursWithin
      <3>2. f[i + Len(t)] = g[i + Len(t)]
        BY <1>2, <3>1
      <3> QED
        BY <1>1, <2>2, <3>2 DEF FoundAt
    <2>3. CASE i <= n /\ ~OccursAt(s, t, i)
      <3>1. i + 1 \in i + 1 .. n + 1
        BY <2>3
      <3>2. f[i + 1] = g[i + 1]
        BY <1>2, <3>1
      <3> QED
        BY <1>1, <2>3, <3>2 DEF FoundAt
    <2> QED
      BY <2>1, <2>2, <2>3
  <1>3. n + 1 \in S
    <2>1. IsFound(s, t, [i \in n + 1 .. n + 1 |-> {}], n + 1)
      BY <1>1 DEF IsFound, FoundAt
    <2> QED
      BY <1>1, <2>1
  <1>4. ASSUME NEW i \in 1 .. n, i + 1 .. n + 1 \subseteq S PROVE i \in S
    <2>1. i + 1 \in i + 1 .. n + 1
      OBVIOUS
    <2>2. PICK f : IsFound(s, t, f, i + 1)
      BY <1>4, <2>1
    <2> DEFINE g == [j \in i .. n + 1 |-> FoundAt(s, t, f, j)]
    <2>3. ASSUME NEW j \in i + 1 .. n + 1 PROVE g[j] = f[j]
      BY <1>1, <2>2 DEF IsFound
    <2>4. ASSUME NEW j \in i .. n + 1 PROVE FoundAt(s, t, f, j) = FoundAt(s, t, g, j)
      <3> HIDE DEF g
      <3> QED
        BY <1>2, <2>3
    <2>5. g = [j \in i .. n + 1 |-> FoundAt(s, t, g, j)]
      BY <2>4
    <2>6. IsFound(s, t, g, i)
      BY <1>1, <2>5 DEF IsFound
    <2> QED
      BY <1>1, <2>6
  <1> HIDE DEF S
  <1>5. 1 \in S
    BY <1>3, <1>4, BackwardInduction
  <1> QED
    BY <1>5 DEF S

\* What Found is: places where the snippet stands, no two of which overlap,
\* and none that could be added.
LEMMA FoundFacts ==
    ASSUME NEW s \in Texts, NEW t \in Texts, t # << >>
    PROVE  /\ Found(s, t) \subseteq Occurrences(s, t)
           /\ \A i, j \in Found(s, t) : i # j => ~Overlap(i, j, t)
           /\ \A i \in Occurrences(s, t) : \E j \in Found(s, t) : Overlap(i, j, t)
  <1> DEFINE f == CHOOSE f : IsFound(s, t, f, 1)
  <1>1. PICK n \in Nat, l \in Nat : n = Len(s) /\ l = Len(t) /\ l >= 1
    BY OccursWithin
  <1>2. Found(s, t) = f[1]
    BY DEF Found, IsFound, FoundAt
  <1>3. IsFound(s, t, f, 1)
    BY FoundExists
  <1> HIDE DEF f
  <1>4. /\ f[n + 1] = {}
        /\ \A i \in 1 .. n : OccursAt(s, t, i) => f[i] = {i} \cup f[i + l]
        /\ \A i \in 1 .. n : ~OccursAt(s, t, i) => f[i] = f[i + 1]
    <2>1. \A i \in 1 .. n + 1 : f[i] = FoundAt(s, t, f, i)
      BY <1>1, <1>3 DEF IsFound
    <2>2. FoundAt(s, t, f, n + 1) = {} /\ n + 1 \in 1 .. n + 1
      BY <1>1 DEF FoundAt
    <2>3. ASSUME NEW i \in 1 .. n
          PROVE  /\ i \in 1 .. n + 1
                 /\ OccursAt(s, t, i) => FoundAt(s, t, f, i) = {i} \cup f[i + l]
                 /\ ~OccursAt(s, t, i) => FoundAt(s, t, f, i) = f[i + 1]
      BY <1>1 DEF FoundAt
    <2> QED
      BY <2>1, <2>2, <2>3
  <1>5. PICK O : O = Occurrences(s, t) /\ O = { i \in 1 .. n : OccursAt(s, t, i) }
    BY <1>1 DEF Occurrences
  <1> DEFINE S == { i \in 1 .. n + 1 :
                      /\ \A k \in f[i] : k \in O /\ k >= i
                      /\ \A j, k \in f[i] : j # k => ~(j < k + l /\ k < j + l)
                      /\ \A k \in O : k >= i => \E j \in f[i] : k < j + l /\ j < k + l }
  <1>6. n + 1 \in S
    <2>1. f[n + 1] = {}
      BY <1>4
    <2>2. \A k \in O : ~(k >= n + 1)
      BY <1>5
    <2> QED
      BY <2>1, <2>2
  <1>7. ASSUME NEW i \in 1 .. n, i + 1 .. n + 1 \subseteq S PROVE i \in S
    <2>1. CASE OccursAt(s, t, i)
      <3>1. i + l \in i + 1 .. n + 1
        BY <1>1, <2>1, OccursWithin
      <3>2. f[i] = {i} \cup f[i + l]
        BY <1>4, <2>1
      <3>3. /\ \A k \in f[i + l] : k \in O /\ k >= i + l
            /\ \A j, k \in f[i + l] : j # k => ~(j < k + l /\ k < j + l)
            /\ \A k \in O : k >= i + l => \E j \in f[i + l] : k < j + l /\ j < k + l
        BY <1>7, <3>1
      <3>4. i \in O /\ O \subseteq 1 .. n
        BY <1>5, <2>1
      <3>5. \A k \in f[i] : k = i \/ k \in f[i + l]
        BY <3>2
      <3>6. \A k \in f[i + l] : k \in O /\ k \in 1 .. n /\ k >= i + l /\ k >= i
        <4> SUFFICES ASSUME NEW k \in f[i + l]
                     PROVE  k \in O /\ k \in 1 .. n /\ k >= i + l /\ k >= i
          OBVIOUS
        <4>1. k \in O /\ k >= i + l
          BY <3>3
        <4>2. k \in 1 .. n
          BY <3>4, <4>1
        <4> QED
          BY <1>1, <4>1, <4>2
      <3>7. \A j, k \in f[i] : j # k => ~(j < k + l /\ k < j + l)
        <4> SUFFICES ASSUME NEW j \in f[i], NEW k \in f[i], j # k
                     PROVE  ~(j < k + l /\ k < j + l)
          OBVIOUS
        <4>1. CASE j = i
          BY <1>1, <3>5, <3>6, <4>1
        <4>2. CASE k = i
          BY <1>1, <3>5, <3>6, <4>2
        <4>3. CASE j \in f[i + l] /\ k \in f[i + l]
          BY <3>3, <4>3
        <4> QED
          BY <3>5, <4>1, <4>2, <4>3
      <3>8. \A k \in f[i] : k \in O /\ k >= i
        BY <3>4, <3>5, <3>6
      <3>9. ASSUME NEW k \in O, k >= i PROVE \E j \in f[i] : k < j + l /\ j < k + l
        <4>1. CASE k < i + l
          <5>1. i \in f[i] /\ i < k + l
            BY <1>1, <3>2, <3>4, <3>9
          <5> QED
            BY <4>1, <5>1
        <4>2. CASE k >= i + l
          BY <3>2, <3>3, <4>2
        <4> QED
          BY <1>1, <3>4, <4>1, <4>2
      <3> QED
        BY <3>7, <3>8, <3>9
    <2>2. CASE ~OccursAt(s, t, i)
      <3>1. f[i] = f[i + 1] /\ i + 1 \in i + 1 .. n + 1
        BY <1>4, <2>2
      <3>2. \A k \in O : k \in 1 .. n /\ (k >= i => k >= i + 1)
        BY <1>5, <2>2
      <3>3. i + 1 \in S
        BY <1>7, <3>1
      <3> QED
        BY <3>1, <3>2, <3>3
    <2> QED
      BY <2>1, <2>2
  <1> HIDE DEF S
  <1>8. 1 \in S
    BY <1>6, <1>7, BackwardInduction
  <1> QED
    BY <1>1, <1>2, <1>5, <1>8 DEF S, Overlap

\* Texts put together are texts.
LEMMA TextFacts ==
    /\ << >> \in Texts
    /\ \A c \in Chars : << c >> \in Texts
    /\ \A p, q \in Texts : p \o q \in Texts
    /\ \A p \in Texts : << >> \o p = p /\ p \o << >> = p
    /\ \A p, q, r \in Texts : (p \o q) \o r = p \o (q \o r)
  <1>1. \A p, q \in Texts : p \o q \in Texts
    BY ConcatProperties DEF Texts
  <1>2. \A p, q, r \in Texts : (p \o q) \o r = p \o (q \o r)
    BY ConcatAssociative DEF Texts
  <1>3. << >> \in Texts /\ \A p \in Texts : << >> \o p = p /\ p \o << >> = p
    BY ConcatEmptySeq DEF Texts
  <1>4. \A c \in Chars : << c >> \in Texts
    BY DEF Texts
  <1> QED
    BY <1>1, <1>2, <1>3, <1>4

\* A stretch of a text is a text.
LEMMA StretchFacts ==
    ASSUME NEW s \in Texts, NEW i \in 1 .. Len(s) + 1, NEW j \in i - 1 .. Len(s)
    PROVE  /\ SubSeq(s, i, j) \in Texts
           /\ Len(SubSeq(s, i, j)) = j - i + 1
           /\ \A k \in 1 .. j - i + 1 : SubSeq(s, i, j)[k] = s[i + k - 1]
  <1>1. PICK n \in Nat : n = Len(s)
    BY LenProperties DEF Texts
  <1>2. \A k \in i .. j : s[k] \in Chars
    BY <1>1, ElementOfSeq DEF Texts
  <1>3. /\ SubSeq(s, i, j) \in Seq(Chars)
        /\ Len(SubSeq(s, i, j)) = IF i <= j THEN j - i + 1 ELSE 0
        /\ \A k \in 1 .. j - i + 1 : SubSeq(s, i, j)[k] = s[i + k - 1]
    BY <1>1, <1>2, SubSeqProperties
  <1> QED
    BY <1>1, <1>3 DEF Texts

(***************************************************************************)
(* The text an edit makes.                                                 *)
(***************************************************************************)

\* f is what the definition of Replaced describes, from position lo on.
ReplacedAt(s, old, new, at, f, i) ==
    IF i > Len(s) THEN << >>
    ELSE IF i \in at THEN new \o f[i + Len(old)]
    ELSE << s[i] >> \o f[i + 1]

IsReplaced(s, old, new, at, f, lo) ==
    f = [i \in lo .. Len(s) + 1 |-> ReplacedAt(s, old, new, at, f, i)]

\* The places in at are changed, the characters elsewhere stay.
Builds(s, old, new, at, f) ==
    /\ f[Len(s) + 1] = << >>
    /\ \A i \in 1 .. Len(s) : i \in at => f[i] = new \o f[i + Len(old)]
    /\ \A i \in 1 .. Len(s) : i \notin at => f[i] = << s[i] >> \o f[i + 1]
    /\ \A i \in 1 .. Len(s) + 1 : f[i] \in Texts

\* There is such a function.
LEMMA ReplacedExists ==
    ASSUME NEW s \in Texts, NEW old \in Texts, old # << >>, NEW new,
           NEW at \in SUBSET Occurrences(s, old)
    PROVE  \E f : IsReplaced(s, old, new, at, f, 1)
  <1> DEFINE S == { i \in 1 .. Len(s) + 1 : \E f : IsReplaced(s, old, new, at, f, i) }
             At(f, i) == ReplacedAt(s, old, new, at, f, i)
  <1>1. PICK n \in Nat : n = Len(s)
    BY OccursWithin
  <1>2. ASSUME NEW f, NEW g, NEW i \in 1 .. n + 1, \A j \in i + 1 .. n + 1 : f[j] = g[j]
        PROVE  At(f, i) = At(g, i)
    <2>1. CASE i > n
      BY <1>1, <2>1 DEF ReplacedAt
    <2>2. CASE i <= n /\ i \in at
      <3>1. i + Len(old) \in i + 1 .. n + 1
        BY <1>1, <2>2, OccursWithin DEF Occurrences
      <3>2. f[i + Len(old)] = g[i + Len(old)]
        BY <1>2, <3>1
      <3> QED
        BY <1>1, <2>2, <3>2 DEF ReplacedAt
    <2>3. CASE i <= n /\ i \notin at
      <3>1. i + 1 \in i + 1 .. n + 1
        BY <2>3
      <3>2. f[i + 1] = g[i + 1]
        BY <1>2, <3>1
      <3> QED
        BY <1>1, <2>3, <3>2 DEF ReplacedAt
    <2> QED
      BY <2>1, <2>2, <2>3
  <1>3. n + 1 \in S
    <2>1. IsReplaced(s, old, new, at, [i \in n + 1 .. n + 1 |-> << >>], n + 1)
      BY <1>1 DEF IsReplaced, ReplacedAt
    <2> QED
      BY <1>1, <2>1
  <1>4. ASSUME NEW i \in 1 .. n, i + 1 .. n + 1 \subseteq S PROVE i \in S
    <2>1. i + 1 \in i + 1 .. n + 1
      OBVIOUS
    <2>2. PICK f : IsReplaced(s, old, new, at, f, i + 1)
      BY <1>4, <2>1
    <2> DEFINE g == [j \in i .. n + 1 |-> At(f, j)]
    <2>3. ASSUME NEW j \in i + 1 .. n + 1 PROVE g[j] = f[j]
      BY <1>1, <2>2 DEF IsReplaced
    <2>4. ASSUME NEW j \in i .. n + 1 PROVE At(f, j) = At(g, j)
      <3> HIDE DEF g, At
      <3> QED
        BY <1>2, <2>3
    <2>5. g = [j \in i .. n + 1 |-> At(g, j)]
      <3> HIDE DEF At
      <3> QED
        BY <2>4
    <2>6. IsReplaced(s, old, new, at, g, i)
      BY <1>1, <2>5 DEF IsReplaced
    <2> QED
      BY <1>1, <2>6
  <1> HIDE DEF S
  <1>5. 1 \in S
    BY <1>3, <1>4, BackwardInduction
  <1> QED
    BY <1>5 DEF S

\* Replaced is what it says, and a text.
LEMMA ReplacedFacts ==
    ASSUME NEW s \in Texts, NEW old \in Texts, old # << >>, NEW new \in Texts,
           NEW at \in SUBSET Occurrences(s, old)
    PROVE  \E f : Builds(s, old, new, at, f) /\ f[1] = Replaced(s, old, new, at)
  <1> DEFINE f == CHOOSE f : IsReplaced(s, old, new, at, f, 1)
  <1>1. PICK n \in Nat, l \in Nat : n = Len(s) /\ l = Len(old) /\ l >= 1
    BY OccursWithin
  <1>2. Replaced(s, old, new, at) = f[1]
    BY DEF Replaced, IsReplaced, ReplacedAt
  <1>3. IsReplaced(s, old, new, at, f, 1)
    BY ReplacedExists
  <1> HIDE DEF f
  <1>4. \A i \in 1 .. n + 1 : f[i] = ReplacedAt(s, old, new, at, f, i)
    BY <1>1, <1>3 DEF IsReplaced
  <1>5. f[n + 1] = << >>
    <2>1. ReplacedAt(s, old, new, at, f, n + 1) = << >> /\ n + 1 \in 1 .. n + 1
      BY <1>1 DEF ReplacedAt
    <2> QED
      BY <1>4, <2>1
  <1>6. ASSUME NEW i \in 1 .. n
        PROVE  /\ i \in at => f[i] = new \o f[i + l]
               /\ i \notin at => f[i] = << s[i] >> \o f[i + 1]
    <2>1. f[i] = ReplacedAt(s, old, new, at, f, i)
      BY <1>4
    <2> QED
      BY <1>1, <2>1 DEF ReplacedAt
  <1> DEFINE S == { i \in 1 .. n + 1 : f[i] \in Texts }
  <1>7. n + 1 \in S
    <2>1. f[n + 1] \in Texts
      BY <1>5, TextFacts
    <2> QED
      BY <2>1
  <1>8. ASSUME NEW i \in 1 .. n, i + 1 .. n + 1 \subseteq S PROVE i \in S
    <2>1. CASE i \in at
      <3>1. i + l \in i + 1 .. n + 1
        BY <1>1, <2>1, OccursWithin DEF Occurrences
      <3>2. f[i + l] \in Texts
        BY <1>8, <3>1
      <3>3. f[i] \in Texts
        <4>1. f[i] = new \o f[i + l]
          BY <1>6, <2>1
        <4>2. new \o f[i + l] \in Texts
          BY <3>2, TextFacts, Zenon
        <4> QED
          BY <4>1, <4>2
      <3> QED
        BY <3>3
    <2>2. CASE i \notin at
      <3>1. i + 1 \in i + 1 .. n + 1
        OBVIOUS
      <3>2. f[i + 1] \in Texts
        BY <1>8, <3>1
      <3>3. s[i] \in Chars
        BY <1>1, ElementOfSeq DEF Texts
      <3>4. f[i] \in Texts
        <4>1. f[i] = << s[i] >> \o f[i + 1]
          BY <1>6, <2>2
        <4>2. << s[i] >> \in Texts
          BY <3>3, TextFacts
        <4>3. << s[i] >> \o f[i + 1] \in Texts
          BY <3>2, <4>2, TextFacts, Zenon
        <4> QED
          BY <4>1, <4>3
      <3> QED
        BY <3>4
    <2> QED
      BY <2>1, <2>2
  <1> HIDE DEF S
  <1>9. 1 .. n + 1 \subseteq S
    BY <1>7, <1>8, BackwardInduction
  <1>10. Builds(s, old, new, at, f)
    BY <1>1, <1>5, <1>6, <1>9 DEF S, Builds
  <1> QED
    BY <1>2, <1>10

\* A stretch without a place in it stays as it is.
Unmoved(s, at, f) ==
    \A j \in 1 .. Len(s) + 1 : \A i \in 1 .. j :
      (\A k \in i .. j - 1 : k \notin at) => f[i] = SubSeq(s, i, j - 1) \o f[j]

LEMMA StretchStays ==
    ASSUME NEW s \in Texts, NEW old, NEW new, NEW at, NEW f,
           Builds(s, old, new, at, f)
    PROVE  Unmoved(s, at, f)
  <1> SUFFICES ASSUME NEW j \in 1 .. Len(s) + 1, NEW i \in 1 .. j,
                      \A k \in i .. j - 1 : k \notin at
               PROVE  f[i] = SubSeq(s, i, j - 1) \o f[j]
    BY DEF Unmoved
  <1>1. PICK n \in Nat : n = Len(s)
    BY LenProperties DEF Texts
  <1> DEFINE Stays(h) == f[h] = SubSeq(s, h, j - 1) \o f[j]
             S == { h \in 1 .. n + 1 : h \in i .. j => Stays(h) }
  <1>2. f[j] \in Texts
    BY DEF Builds
  <1>3. Stays(j)
    <2>1. SubSeq(s, j, j - 1) = << >>
      BY SubSeqEmpty, <1>1
    <2>2. << >> \o f[j] = f[j]
      BY <1>2, TextFacts, Zenon
    <2> QED
      BY <2>1, <2>2
  <1>4. ASSUME NEW h \in 1 .. n, h \in i .. j, h # j, Stays(h + 1) PROVE Stays(h)
    <2>1. h \in i .. j - 1 /\ j - 1 \in h .. n
      BY <1>1, <1>4
    <2>2. f[h] = << s[h] >> \o f[h + 1]
      BY <1>1, <2>1 DEF Builds
    <2>3. SubSeq(s, h, j - 1) = << s[h] >> \o SubSeq(s, h + 1, j - 1)
      BY <1>1, <2>1, SubSeqRecursiveFirst DEF Texts
    <2>4. s[h] \in Chars
      BY <1>1, ElementOfSeq DEF Texts
    <2>5. << s[h] >> \in Texts /\ SubSeq(s, h + 1, j - 1) \in Texts
      <3>1. h + 1 \in 1 .. Len(s) + 1 /\ j - 1 \in (h + 1) - 1 .. Len(s)
        BY <1>1, <2>1
      <3>2. SubSeq(s, h + 1, j - 1) \in Texts
        BY <3>1, StretchFacts
      <3> QED
        BY <2>4, <3>2, TextFacts
    <2>6. (<< s[h] >> \o SubSeq(s, h + 1, j - 1)) \o f[j]
            = << s[h] >> \o (SubSeq(s, h + 1, j - 1) \o f[j])
      BY <1>2, <2>5, TextFacts, Zenon
    <2> QED
      BY <1>4, <2>2, <2>3, <2>6, Zenon
  <1> HIDE DEF Stays
  <1>5. n + 1 \in S
    <2>1. n + 1 \in i .. j => n + 1 = j
      BY <1>1
    <2> QED
      BY <1>3, <2>1
  <1>6. ASSUME NEW h \in 1 .. n, h + 1 .. n + 1 \subseteq S PROVE h \in S
    <2> SUFFICES ASSUME h \in i .. j, h # j PROVE Stays(h)
      BY <1>3
    <2>1. h + 1 \in h + 1 .. n + 1 /\ h + 1 \in i .. j
      BY <1>1
    <2> QED
      BY <1>4, <1>6, <2>1
  <1> HIDE DEF S
  <1>7. 1 .. n + 1 \subseteq S
    BY <1>5, <1>6, BackwardInduction
  <1>8. i \in 1 .. n + 1 /\ i \in i .. j
    BY <1>1
  <1> QED
    BY <1>7, <1>8 DEF S, Stays

\* What is made of the rest of a text depends on the places in it.
SameFrom(s, at, bt, f, g) ==
    \A j \in 1 .. Len(s) + 1 :
      (\A k \in j .. Len(s) : k \in at <=> k \in bt) => f[j] = g[j]

LEMMA SameFromHere ==
    ASSUME NEW s \in Texts, NEW old \in Texts, old # << >>, NEW new,
           NEW at \in SUBSET Occurrences(s, old), NEW bt, NEW f, NEW g,
           Builds(s, old, new, at, f), Builds(s, old, new, bt, g)
    PROVE  SameFrom(s, at, bt, f, g)
  <1> SUFFICES ASSUME NEW j \in 1 .. Len(s) + 1, \A k \in j .. Len(s) : k \in at <=> k \in bt
               PROVE  f[j] = g[j]
    BY DEF SameFrom
  <1>1. PICK n \in Nat, l \in Nat : n = Len(s) /\ l = Len(old) /\ l >= 1
    BY OccursWithin
  <1> DEFINE S == { i \in 1 .. n + 1 : i >= j => f[i] = g[i] }
  <1>2. n + 1 \in S
    BY <1>1 DEF Builds
  <1>3. ASSUME NEW i \in 1 .. n, i + 1 .. n + 1 \subseteq S PROVE i \in S
    <2> SUFFICES ASSUME i >= j PROVE f[i] = g[i]
      OBVIOUS
    <2>1. i \in 1 .. Len(s) /\ (i \in at <=> i \in bt)
      BY <1>1
    <2>2. CASE i \in at
      <3>1. i + l \in i + 1 .. n + 1 /\ i + l >= j
        BY <1>1, <2>2, OccursWithin DEF Occurrences
      <3>2. f[i + l] = g[i + l]
        BY <1>3, <3>1
      <3> QED
        BY <1>1, <2>1, <2>2, <3>2 DEF Builds
    <2>3. CASE i \notin at
      <3>1. i + 1 \in i + 1 .. n + 1 /\ i + 1 >= j
        OBVIOUS
      <3>2. f[i + 1] = g[i + 1]
        BY <1>3, <3>1
      <3> QED
        BY <1>1, <2>1, <2>3, <3>2 DEF Builds
    <2> QED
      BY <2>2, <2>3
  <1> HIDE DEF S
  <1>4. 1 .. n + 1 \subseteq S
    BY <1>2, <1>3, BackwardInduction
  <1> QED
    BY <1>1, <1>4 DEF S

\* Two texts put together are told apart at the seam.
LEMMA Seam ==
    ASSUME NEW p \in Texts, NEW q \in Texts
    PROVE  /\ Len(p \o q) = Len(p) + Len(q)
           /\ SubSeq(p \o q, 1, Len(p)) = p
           /\ SubSeq(p \o q, Len(p) + 1, Len(p) + Len(q)) = q
  <1>1. PICK m \in Nat, n \in Nat : m = Len(p) /\ n = Len(q)
    BY LenProperties DEF Texts
  <1> DEFINE r == p \o q
  <1>2. r \in Texts
    BY TextFacts, Zenon
  <1>3. Len(r) = m + n /\ \A i \in 1 .. m + n : r[i] = IF i <= m THEN p[i] ELSE q[i - m]
    BY <1>1, ConcatProperties DEF Texts
  <1> HIDE DEF r
  <1>4. /\ SubSeq(r, 1, m) \in Texts /\ Len(SubSeq(r, 1, m)) = m
        /\ \A i \in 1 .. m : SubSeq(r, 1, m)[i] = p[i]
    <2>1. 1 \in 1 .. Len(r) + 1 /\ m \in 1 - 1 .. Len(r) /\ m - 1 + 1 = m
      BY <1>3
    <2>2. /\ SubSeq(r, 1, m) \in Texts /\ Len(SubSeq(r, 1, m)) = m
          /\ \A i \in 1 .. m : SubSeq(r, 1, m)[i] = r[1 + i - 1]
      BY <1>2, <2>1, StretchFacts
    <2>3. \A i \in 1 .. m : 1 + i - 1 = i /\ i \in 1 .. m + n /\ i <= m
      OBVIOUS
    <2> QED
      BY <1>3, <2>2, <2>3
  <1>5. /\ SubSeq(r, m + 1, m + n) \in Texts /\ Len(SubSeq(r, m + 1, m + n)) = n
        /\ \A i \in 1 .. n : SubSeq(r, m + 1, m + n)[i] = q[i]
    <2>1. m + 1 \in 1 .. Len(r) + 1 /\ m + n \in (m + 1) - 1 .. Len(r) /\ (m + n) - (m + 1) + 1 = n
      BY <1>3
    <2>2. /\ SubSeq(r, m + 1, m + n) \in Texts /\ Len(SubSeq(r, m + 1, m + n)) = n
          /\ \A i \in 1 .. n : SubSeq(r, m + 1, m + n)[i] = r[m + 1 + i - 1]
      BY <1>2, <2>1, StretchFacts
    <2>3. \A i \in 1 .. n : /\ m + 1 + i - 1 = m + i /\ m + i \in 1 .. m + n
                            /\ ~(m + i <= m) /\ (m + i) - m = i
      OBVIOUS
    <2> QED
      BY <1>3, <2>2, <2>3
  <1>6. SubSeq(r, 1, m) = p
    BY <1>1, <1>4, SeqEqual DEF Texts
  <1>7. SubSeq(r, m + 1, m + n) = q
    BY <1>1, <1>5, SeqEqual DEF Texts
  <1> QED
    BY <1>1, <1>3, <1>6, <1>7 DEF r

\* A set of positions that is not empty has a first one.
LEMMA FirstExists ==
    ASSUME NEW S \in SUBSET Nat, S # {}
    PROVE  \E i \in S : \A k \in S : i <= k
  <1>1. PICK i \in S : \A k \in S : ~(<<k, i>> \in Less)
    BY LessIsWellFounded, WFMin
  <1>2. \A k \in S : i <= k
    <2> SUFFICES ASSUME NEW k \in S, ~(i <= k) PROVE FALSE
      OBVIOUS
    <2>1. i \in Nat /\ k \in Nat /\ k < i
      OBVIOUS
    <2> QED
      BY <1>1, <2>1 DEF Less
  <1> QED
    BY <1>2

\* Places that do not overlap.
Apart(at, t) == \A i, j \in at : i # j => ~Overlap(i, j, t)

\* The text with new in the place of old at position i.
Changed(t, old, new, i) ==
    SubSeq(t, 1, i - 1) \o new \o SubSeq(t, i + Len(old), Len(t))

\* To change all places is to change the first one in the text in which all
\* others are changed: they lie behind it.
LEMMA FirstReplaced ==
    ASSUME NEW s \in Texts, NEW old \in Texts, old # << >>, NEW new \in Texts,
           NEW at \in SUBSET Occurrences(s, old), Apart(at, old),
           NEW i \in at, \A k \in at : i <= k
    PROVE  Replaced(s, old, new, at) = Changed(Replaced(s, old, new, at \ {i}), old, new, i)
  <1> DEFINE rest == Replaced(s, old, new, at \ {i})
  <1>1. PICK n \in Nat, l \in Nat : n = Len(s) /\ l = Len(old) /\ l >= 1
    BY OccursWithin
  <1>2. at \subseteq 1 .. n
    BY <1>1, OccursWithin
  <1>3. i \in 1 .. n /\ i + l \in i + 1 .. n + 1
    BY <1>1, <1>2, OccursWithin DEF Occurrences
  <1>4. \A k \in at \ {i} : k >= i + l
    <2> SUFFICES ASSUME NEW k \in at \ {i} PROVE k >= i + l
      OBVIOUS
    <2>1. ~(i < k + l /\ k < i + l) /\ i <= k
      BY <1>1 DEF Apart, Overlap
    <2> QED
      BY <1>2, <1>3, <2>1
  <1>5. at \ {i} \in SUBSET Occurrences(s, old)
    OBVIOUS
  <1>6. PICK f : Builds(s, old, new, at, f) /\ f[1] = Replaced(s, old, new, at)
    BY ReplacedFacts
  <1>7. PICK g : Builds(s, old, new, at \ {i}, g) /\ g[1] = rest
    BY <1>5, ReplacedFacts
  <1>8. Unmoved(s, at, f) /\ Unmoved(s, at \ {i}, g)
    BY <1>6, <1>7, StretchStays, Zenon
  <1>9. PICK j : j = i + l /\ j \in i + 1 .. n + 1 /\ j \in 1 .. Len(s) + 1
    BY <1>1, <1>3
  <1>10. PICK p, m, q : p = SubSeq(s, 1, i - 1) /\ m = SubSeq(s, i, j - 1) /\ q = f[j]
    OBVIOUS
  <1>11. p \in Texts /\ Len(p) = i - 1 /\ m \in Texts /\ Len(m) = l
    <2>1. /\ 1 \in 1 .. Len(s) + 1 /\ i - 1 \in 1 - 1 .. Len(s) /\ (i - 1) - 1 + 1 = i - 1
          /\ i \in 1 .. Len(s) + 1 /\ j - 1 \in i - 1 .. Len(s) /\ (j - 1) - i + 1 = l
      BY <1>1, <1>3, <1>9
    <2> QED
      BY <1>10, <2>1, StretchFacts
  <1>12. q \in Texts
    BY <1>6, <1>9, <1>10 DEF Builds
  <1>13. f[1] = p \o (new \o q)
    <2>1. \A k \in 1 .. i - 1 : k \notin at
      BY <1>2, <1>3
    <2>2. f[1] = p \o f[i]
      <3>1. i \in 1 .. Len(s) + 1 /\ 1 \in 1 .. i
        BY <1>1, <1>3
      <3>2. f[1] = SubSeq(s, 1, i - 1) \o f[i]
        BY <1>8, <2>1, <3>1, Zenon DEF Unmoved
      <3> QED
        BY <1>10, <3>2
    <2>3. f[i] = new \o q
      BY <1>1, <1>3, <1>6, <1>9, <1>10 DEF Builds
    <2> QED
      BY <2>2, <2>3
  <1>14. g[j] = q
    <2>1. \A k \in j .. Len(s) : k \in at <=> k \in at \ {i}
      BY <1>1, <1>3, <1>9
    <2>2. SameFrom(s, at, at \ {i}, f, g)
      BY <1>6, <1>7, SameFromHere, Zenon
    <2>3. f[j] = g[j]
      BY <1>9, <2>1, <2>2, Zenon DEF SameFrom
    <2> QED
      BY <1>10, <2>3
  <1>15. rest = (p \o m) \o q /\ Len(p \o m) = j - 1
    <2>1. \A k \in 1 .. j - 1 : k \notin at \ {i}
      BY <1>1, <1>2, <1>3, <1>4, <1>9
    <2>2. g[1] = SubSeq(s, 1, j - 1) \o g[j]
      <3>1. 1 \in 1 .. j
        BY <1>3, <1>9
      <3> QED
        BY <1>8, <1>9, <2>1, <3>1, Zenon DEF Unmoved
    <2>3. SubSeq(s, 1, j - 1) = p \o m
      <3>1. /\ 1 \in 1 .. Len(s) + 1 /\ i - 1 \in 1 - 1 .. Len(s)
            /\ j - 1 \in i - 1 .. Len(s) /\ (i - 1) + 1 = i
        BY <1>1, <1>3, <1>9
      <3>2. SubSeq(s, 1, i - 1) \o SubSeq(s, (i - 1) + 1, j - 1) = SubSeq(s, 1, j - 1)
        BY <3>1, ConcatAdjacentSubSeq DEF Texts
      <3> QED
        BY <1>10, <3>1, <3>2
    <2>4. Len(p \o m) = j - 1
      <3>1. Len(p \o m) = Len(p) + Len(m)
        BY <1>11, Seam, Zenon
      <3> QED
        BY <1>1, <1>3, <1>9, <1>11, <3>1
    <2> QED
      BY <1>7, <1>14, <2>2, <2>3, <2>4
  <1>16. p \o m \in Texts /\ m \o q \in Texts /\ (p \o m) \o q = p \o (m \o q)
    BY <1>11, <1>12, TextFacts, Zenon
  <1>17. SubSeq(rest, 1, i - 1) = p
    <2>1. SubSeq(p \o (m \o q), 1, Len(p)) = p
      BY <1>11, <1>16, Seam, Zenon
    <2> QED
      BY <1>11, <1>15, <1>16, <2>1
  <1>18. SubSeq(rest, j, Len(rest)) = q
    <2>1. (j - 1) + 1 = j
      BY <1>9
    <2>2. /\ SubSeq((p \o m) \o q, Len(p \o m) + 1, Len(p \o m) + Len(q)) = q
          /\ Len((p \o m) \o q) = Len(p \o m) + Len(q)
      BY <1>12, <1>16, Seam, Zenon
    <2> QED
      BY <1>15, <2>1, <2>2
  <1>19. p \o (new \o q) = (p \o new) \o q
    BY <1>11, <1>12, TextFacts, Zenon
  <1> QED
    BY <1>1, <1>6, <1>9, <1>13, <1>17, <1>18, <1>19 DEF Changed

\* An edit changes the places one by one.
LEMMA OneByOneIsReplaced ==
    ASSUME NEW s \in Texts, NEW old \in Texts, old # << >>, NEW new \in Texts,
           NEW at \in SUBSET Occurrences(s, old), Apart(at, old)
    PROVE  OneByOne(s, old, new, at) = Replaced(s, old, new, at)
  <1> DEFINE i(S) == CHOOSE k \in S : \A m \in S : k <= m
             By(h, S) == IF S = {} THEN s ELSE Changed(h[S \ {i(S)}], old, new, i(S))
             R == [S \in SUBSET at |-> Replaced(s, old, new, S)]
             done == CHOOSE done : done = [S \in SUBSET at |-> By(done, S)]
  <1>1. PICK n \in Nat : n = Len(s)
    BY OccursWithin
  <1>2. at \subseteq 1 .. n /\ at \subseteq Nat
    BY <1>1, OccursWithin
  <1>3. ASSUME NEW S \in SUBSET at, S # {}
        PROVE  i(S) \in S /\ \A m \in S : i(S) <= m
    BY <1>2, <1>3, FirstExists
  <1>4. OneByOne(s, old, new, at) = done[at]
    BY DEF OneByOne, Changed
  <1> HIDE DEF i
  <1>5. ASSUME NEW S \in SUBSET at PROVE R[S] = By(R, S)
    <2>1. CASE S = {}
      <3>1. PICK f : Builds(s, old, new, S, f) /\ f[1] = Replaced(s, old, new, S)
        BY ReplacedFacts
      <3>2. PICK j : j = n + 1 /\ j \in 1 .. Len(s) + 1 /\ 1 \in 1 .. j
        BY <1>1
      <3>3. f[1] = SubSeq(s, 1, j - 1) \o f[j]
        <4>1. \A k \in 1 .. j - 1 : k \notin S
          BY <2>1
        <4>2. Unmoved(s, S, f)
          BY <3>1, StretchStays, Zenon
        <4> QED
          BY <3>2, <4>1, <4>2, Zenon DEF Unmoved
      <3>4. f[j] = << >> /\ SubSeq(s, 1, j - 1) = s
        <4>1. j - 1 = n /\ SubSeq(s, 1, n) = s
          BY <1>1, <3>2, SubSeqFull DEF Texts
        <4>2. f[j] = << >>
          BY <1>1, <3>1, <3>2 DEF Builds
        <4> QED
          BY <4>1, <4>2
      <3>5. s \o << >> = s
        BY TextFacts, Zenon
      <3> QED
        BY <2>1, <3>1, <3>3, <3>4, <3>5
    <2>2. CASE S # {}
      <3>1. /\ i(S) \in S /\ \A m \in S : i(S) <= m
            /\ S \in SUBSET Occurrences(s, old) /\ Apart(S, old)
        BY <1>3, <2>2 DEF Apart
      <3>2. Replaced(s, old, new, S) = Changed(Replaced(s, old, new, S \ {i(S)}), old, new, i(S))
        <4>1. PICK k : k = i(S)
          OBVIOUS
        <4>2. Replaced(s, old, new, S) = Changed(Replaced(s, old, new, S \ {k}), old, new, k)
          BY <3>1, <4>1, FirstReplaced
        <4> QED
          BY <4>1, <4>2
      <3>3. R[S \ {i(S)}] = Replaced(s, old, new, S \ {i(S)})
        OBVIOUS
      <3> QED
        BY <2>2, <3>2, <3>3
    <2> QED
      BY <2>1, <2>2
  <1>6. R = [S \in SUBSET at |-> By(R, S)]
    <2> HIDE DEF By
    <2> QED
      BY <1>5
  <1>7. done = [S \in SUBSET at |-> By(done, S)]
    <2> HIDE DEF By, R
    <2> QED
      BY <1>6
  <1> HIDE DEF done, R
  <1> DEFINE P == { k \in 1 .. n + 1 : \A S \in SUBSET at : S \subseteq k .. n => done[S] = R[S] }
  <1>8. n + 1 \in P
    <2> SUFFICES ASSUME NEW S \in SUBSET at, S \subseteq n + 1 .. n PROVE done[S] = R[S]
      OBVIOUS
    <2>1. S = {}
      BY <1>2
    <2>2. R[S] = s /\ done[S] = s
      BY <1>5, <1>7, <2>1
    <2> QED
      BY <2>2
  <1>9. ASSUME NEW k \in 1 .. n, k + 1 .. n + 1 \subseteq P PROVE k \in P
    <2> SUFFICES ASSUME NEW S \in SUBSET at, S \subseteq k .. n PROVE done[S] = R[S]
      OBVIOUS
    <2>1. CASE S = {}
      BY <1>5, <1>7, <2>1
    <2>2. CASE S # {}
      <3>1. i(S) \in S /\ \A m \in S : i(S) <= m
        BY <1>3, <2>2
      <3>2. S \ {i(S)} \subseteq k + 1 .. n
        <4> SUFFICES ASSUME NEW m \in S, m # i(S) PROVE m \in k + 1 .. n
          OBVIOUS
        <4>1. m \in k .. n /\ i(S) \in k .. n /\ i(S) <= m
          BY <3>1
        <4> QED
          BY <4>1
      <3>3. k + 1 \in P
        <4>1. k + 1 \in k + 1 .. n + 1
          OBVIOUS
        <4> HIDE DEF P
        <4> QED
          BY <1>9, <4>1
      <3>4. done[S \ {i(S)}] = R[S \ {i(S)}]
        BY <3>2, <3>3
      <3>5. done[S] = Changed(done[S \ {i(S)}], old, new, i(S))
        BY <1>7, <2>2
      <3>6. R[S] = Changed(R[S \ {i(S)}], old, new, i(S))
        BY <1>5, <2>2
      <3> QED
        BY <3>4, <3>5, <3>6
    <2> QED
      BY <2>1, <2>2
  <1> HIDE DEF P
  <1>10. 1 .. n + 1 \subseteq P
    BY <1>8, <1>9, BackwardInduction
  <1>11. done[at] = R[at]
    <2>1. 1 \in P
      BY <1>10
    <2> QED
      BY <1>2, <2>1 DEF P
  <1> QED
    BY <1>4, <1>11 DEF R

\* An edit that is not refused makes a text, and replaces the snippet in places
\* that do not overlap and leave no room for another.
LEMMA ApplyEditFacts ==
    ASSUME NEW s \in Texts, NEW old \in Texts, NEW new \in Texts, NEW all \in BOOLEAN,
           ~Refused(s, old, new, all)
    PROVE  /\ ApplyEdit(s, old, new, all) \in Texts
           /\ \E at \in SUBSET Occurrences(s, old) :
                /\ at # {}
                /\ \A i, j \in at : i # j => ~Overlap(i, j, old)
                /\ \A i \in Occurrences(s, old) : \E j \in at : Overlap(i, j, old)
                /\ all \/ Cardinality(at) = 1
                /\ ApplyEdit(s, old, new, all) = OneByOne(s, old, new, at)
  <1>1. /\ old # << >> /\ Found(s, old) # {}
        /\ all \/ First(Found(s, old)) = Found(s, old)
    BY DEF Refused
  <1>2. PICK at : at = Found(s, old)
    OBVIOUS
  <1>3. /\ at \in SUBSET Occurrences(s, old)
        /\ \A i, j \in at : i # j => ~Overlap(i, j, old)
        /\ \A i \in Occurrences(s, old) : \E j \in at : Overlap(i, j, old)
    BY <1>1, <1>2, FoundFacts, Zenon
  <1>4. ApplyEdit(s, old, new, all) = Replaced(s, old, new, at)
    BY <1>1, <1>2 DEF ApplyEdit
  <1>5. OneByOne(s, old, new, at) = Replaced(s, old, new, at)
    <2>1. Apart(at, old)
      BY <1>3 DEF Apart
    <2> QED
      BY <1>1, <1>3, <2>1, OneByOneIsReplaced, Zenon
  <1>6. Replaced(s, old, new, at) \in Texts
    <2>1. PICK f : Builds(s, old, new, at, f) /\ f[1] = Replaced(s, old, new, at)
      BY <1>1, <1>3, ReplacedFacts
    <2>2. 1 \in 1 .. Len(s) + 1
      BY <1>1, OccursWithin
    <2> QED
      BY <2>1, <2>2 DEF Builds
  <1>7. all \/ Cardinality(at) = 1
    <2> SUFFICES ASSUME ~all PROVE Cardinality(at) = 1
      OBVIOUS
    <2>1. \A i, j \in at : i <= j
      BY <1>1, <1>2 DEF First
    <2>2. at \subseteq Nat
      BY <1>1, <1>3, OccursWithin
    <2>3. PICK i : i \in at
      BY <1>1, <1>2
    <2>4. \A j \in at : j = i
      BY <2>1, <2>2, <2>3
    <2>5. at = {i}
      BY <2>3, <2>4
    <2> QED
      BY <2>5, FS_Singleton
  <1>8. at # {}
    BY <1>1, <1>2
  <1> QED
    BY <1>3, <1>4, <1>5, <1>6, <1>7, <1>8

(***************************************************************************)
(* edit_file and write_file.                                               *)
(***************************************************************************)

\* What the file holds and what a call has in hand are texts.
TextsTyped ==
    /\ file \in Texts \cup {Absent}
    /\ base \in Texts \cup {Absent}
    /\ text \in Texts

\* What is to be written is the edit that was asked for.
Edited ==
    asked # NoEdit =>
        \E old, new \in Texts, all \in BOOLEAN :
            /\ asked = [old |-> old, new |-> new, all |-> all]
            /\ base \in Texts
            /\ ~Refused(base, old, new, all)
            /\ text = ApplyEdit(base, old, new, all)

\* A file that nobody else writes is as the call found it until it is opened,
\* and empty from then on.
Untouched ==
    /\ (pc = "open" /\ ~touched) => file = base
    /\ (pc = "write" /\ ~touched) => file = << >>

EditInv == TextsTyped /\ Edited /\ Untouched

\* What writing part of a text leaves is a text.
LEMMA OverType ==
    ASSUME TextsTyped, NEW n \in 0 .. Len(text)
    PROVE  /\ Over(n) \in Texts
           /\ file = << >> => Over(n) = SubSeq(text, 1, n)
  <1>1. SubSeq(text, 1, n) \in Texts
    <2>1. text \in Texts /\ Len(text) \in Nat
      BY LenProperties DEF TextsTyped, Texts
    <2>2. 1 \in 1 .. Len(text) + 1 /\ n \in 1 - 1 .. Len(text)
      BY <2>1
    <2> QED
      BY <2>1, <2>2, StretchFacts
  <1>2. CASE file = Absent \/ Len(file) < n
    <2>1. Over(n) = SubSeq(text, 1, n) \o << >>
      BY <1>2 DEF Over
    <2> QED
      BY <1>1, <2>1, TextFacts, Zenon
  <1>3. CASE ~(file = Absent \/ Len(file) < n)
    <2>1. file \in Texts
      BY <1>3 DEF TextsTyped
    <2>2. n + 1 \in 1 .. Len(file) + 1 /\ Len(file) \in (n + 1) - 1 .. Len(file)
      BY <1>3, <2>1, LenProperties DEF Texts
    <2>3. PICK t : t = SubSeq(file, n + 1, Len(file)) /\ t \in Texts
      BY <2>1, <2>2, StretchFacts
    <2>4. Over(n) = SubSeq(text, 1, n) \o t
      BY <1>3, <2>3 DEF Over
    <2>5. file = << >> => t = << >>
      <3> SUFFICES ASSUME file = << >> PROVE t = << >>
        OBVIOUS
      <3>1. Len(file) = 0
        OBVIOUS
      <3> QED
        BY <2>2, <2>3, <3>1, SubSeqEmpty
    <2>6. SubSeq(text, 1, n) \o t \in Texts /\ SubSeq(text, 1, n) \o << >> = SubSeq(text, 1, n)
      BY <1>1, <2>3, TextFacts, Zenon
    <2> QED
      BY <2>4, <2>5, <2>6
  <1> QED
    BY <1>2, <1>3

LEMMA EditInvHolds == Spec => []EditInv
  <1>1. Init => EditInv
    <2> SUFFICES ASSUME Init PROVE EditInv
      OBVIOUS
    <2>1. file \in Texts \cup {Absent} /\ base = Absent /\ text = << >> /\ pc = "idle"
      BY BuiltinAssumption DEF Init
    <2>2. asked = NoEdit
      BY DEF Init
    <2>3. TextsTyped
      BY <2>1, TextFacts DEF TextsTyped
    <2> QED
      BY <2>1, <2>2, <2>3 DEF EditInv, Edited, Untouched
  <1>2. TypeOK /\ EditInv /\ [Next]_vars => EditInv'
    <2> SUFFICES ASSUME TypeOK, EditInv, [Next]_vars PROVE EditInv'
      OBVIOUS
    <2>1. ASSUME NEW how, Return(how), file' \in Texts \cup {Absent} PROVE EditInv'
      <3>1. /\ asked' = NoEdit /\ base' = Absent /\ text' = << >> /\ pc' = "idle"
        BY <2>1 DEF Return
      <3> QED
        BY <2>1, <3>1, TextFacts DEF EditInv, TextsTyped, Edited, Untouched, NoEdit
    <2>2. ASSUME UNCHANGED <<file, asked, base, text>>,
                 (pc' = pc /\ touched' = touched) \/ pc' = "bash"
          PROVE  EditInv'
      BY <2>2 DEF EditInv, TextsTyped, Edited, Untouched, NoEdit
    <2>3. ASSUME NEW n \in 0 .. Len(text), file' = Over(n)
          PROVE  file' \in Texts \cup {Absent}
      BY <2>3, OverType DEF EditInv
    <2>4. CASE Calling
      <3>1. ASSUME NEW old \in Snippets, NEW new \in Snippets, NEW all \in BOOLEAN,
                   RefuseEdit(old, new, all)
            PROVE  EditInv'
        BY <2>2, <3>1 DEF RefuseEdit, fileVars
      <3>2. ASSUME NEW old \in Snippets, NEW new \in Snippets, NEW all \in BOOLEAN,
                   EditFile(old, new, all)
            PROVE  EditInv'
        <4>1. /\ Editable(old, new, all)
              /\ asked' = [old |-> old, new |-> new, all |-> all]
              /\ base' = file /\ text' = ApplyEdit(file, old, new, all)
              /\ pc' = "open" /\ file' = file
          BY <3>2 DEF EditFile
        <4>2. old \in Texts /\ new \in Texts
          BY BuiltinAssumption
        <4>3. file \in Texts /\ ~Refused(file, old, new, all)
          BY <4>1 DEF Editable, EditInv, TextsTyped
        <4>4. text' \in Texts
          BY <4>1, <4>2, <4>3, ApplyEditFacts
        <4>5. Edited'
          <5>1. /\ asked' = [old |-> old, new |-> new, all |-> all] /\ base' \in Texts
                /\ ~Refused(base', old, new, all) /\ text' = ApplyEdit(base', old, new, all)
            BY <4>1, <4>3
          <5> QED
            BY <4>2, <5>1 DEF Edited
        <4> QED
          BY <4>1, <4>3, <4>4, <4>5 DEF EditInv, TextsTyped, Untouched
      <3>3. ASSUME NEW content \in Contents, WriteFile(content) PROVE EditInv'
        <4>1. /\ base' = file /\ text' = content /\ pc' = "open" /\ UNCHANGED <<file, asked>>
              /\ pc = "idle"
          BY <3>3 DEF WriteFile
        <4>2. content \in Texts
          BY BuiltinAssumption
        <4>3. asked' = NoEdit
          BY <4>1 DEF TypeOK
        <4> QED
          BY <4>1, <4>2, <4>3 DEF EditInv, TextsTyped, Edited, Untouched, NoEdit
      <3>4. CASE StartShell
        BY <2>2, <3>4 DEF StartShell, fileVars
      <3> QED
        BY <2>4, <3>1, <3>2, <3>3, <3>4 DEF Calling
    <2>5. CASE Open
      <3>1. CASE file' = << >> /\ pc' = "write" /\ UNCHANGED <<fileVars, answer>>
        BY <3>1, TextFacts DEF fileVars, EditInv, TextsTyped, Edited, Untouched, NoEdit
      <3>2. CASE Return("error") /\ UNCHANGED file
        <4>1. file' \in Texts \cup {Absent}
          BY <3>2 DEF EditInv, TextsTyped
        <4> QED
          BY <2>1, <3>2, <4>1
      <3> QED
        BY <2>5, <3>1, <3>2 DEF Open
    <2>6. CASE Write
      <3>1. Len(text) \in 0 .. Len(text)
        BY LenProperties DEF EditInv, TextsTyped, Texts
      <3>2. \E n \in 0 .. Len(text), how \in {"ok", "error"} : file' = Over(n) /\ Return(how)
        BY <2>6, <3>1 DEF Write
      <3> QED
        BY <2>1, <2>3, <3>2
    <2>7. CASE AnswerBash
      <3>1. file' \in Texts \cup {Absent} /\ \E how : Return(how)
        BY <2>7 DEF AnswerBash, EditInv, TextsTyped
      <3> QED
        BY <2>1, <3>1
    <2>8. CASE Deadline \/ ShellExits
      BY <2>2, <2>8 DEF Deadline, Expire, KillShell, ShellExits, fileVars
    <2>9. CASE WriteFromOutside
      <3>1. /\ file' \in Others /\ touched' = (pc \in {"open", "write"})
            /\ UNCHANGED <<pc, asked, base, text>>
        BY <2>9 DEF WriteFromOutside
      <3>2. file' \in Texts
        BY <3>1, BuiltinAssumption
      <3> QED
        BY <3>1, <3>2 DEF EditInv, TextsTyped, Edited, Untouched, NoEdit
    <2>10. CASE Kill
      <3>1. file' \in Texts \cup {Absent}
        BY <2>3, <2>10 DEF Kill, EditInv, TextsTyped
      <3>2. Return("none")
        BY <2>10 DEF Kill
      <3> QED
        BY <2>1, <3>1, <3>2
    <2>11. ASSUME NEW kind \in {"holding", "detached"}, Spawn(kind) \/ ChildEnds(kind)
           PROVE  EditInv'
      BY <2>2, <2>11 DEF Spawn, ChildEnds, fileVars
    <2>12. CASE UNCHANGED vars
      BY <2>2, <2>12 DEF vars, fileVars
    <2> QED
      BY <2>4, <2>5, <2>6, <2>7, <2>8, <2>9, <2>10, <2>11, <2>12 DEF Next, Working
  <1> QED
    BY <1>1, <1>2, BuiltinTypeCorrect, PTL DEF Spec

\* An edit replaces the snippet in places that do not overlap and leave no room
\* for another, without `all' in one, and leaves the rest of the text.
THEOREM EditsReplace == Spec => []EditReplaces
  <1>1. EditInv => EditReplaces
    <2> SUFFICES ASSUME EditInv, asked # NoEdit
                 PROVE  \E at \in SUBSET Occurrences(base, asked.old) :
                          /\ at # {}
                          /\ \A i, j \in at : i # j => ~Overlap(i, j, asked.old)
                          /\ \A i \in Occurrences(base, asked.old) :
                               \E j \in at : Overlap(i, j, asked.old)
                          /\ asked.all \/ Cardinality(at) = 1
                          /\ text = OneByOne(base, asked.old, asked.new, at)
      BY DEF EditReplaces
    <2>1. PICK old \in Texts, new \in Texts, all \in BOOLEAN :
            /\ asked = [old |-> old, new |-> new, all |-> all]
            /\ base \in Texts
            /\ ~Refused(base, old, new, all)
            /\ text = ApplyEdit(base, old, new, all)
      BY DEF EditInv, Edited
    <2>2. asked.old = old /\ asked.new = new /\ asked.all = all
      BY <2>1
    <2> QED
      BY <2>1, <2>2, ApplyEditFacts
  <1> QED
    BY <1>1, EditInvHolds, PTL

\* A file that only one call writes holds what it was to hold when the call
\* says ok; else it is the old one, or a beginning of the new: also when the
\* run is killed in the middle of the write.
THEOREM FilesAreNotMixed == Spec => NoMixture
  <1>1. EditInv /\ [Next]_vars =>
          [(pc \in {"open", "write"} /\ pc' = "idle" /\ ~touched) =>
             IF answer' = "ok" THEN file' = text
             ELSE file' \in {base} \cup Beginnings(text)]_vars
    <2> SUFFICES ASSUME EditInv, Next, pc \in {"open", "write"}, pc' = "idle", ~touched
                 PROVE  IF answer' = "ok" THEN file' = text
                        ELSE file' \in {base} \cup Beginnings(text)
      OBVIOUS
    <2>1. Len(text) \in Nat /\ SubSeq(text, 1, Len(text)) = text
      BY LenProperties, SubSeqFull DEF EditInv, TextsTyped, Texts
    <2>2. \A n \in 0 .. Len(text) : SubSeq(text, 1, n) \in Beginnings(text)
      BY DEF Beginnings
    <2>3. CASE pc = "open" /\ UNCHANGED file /\ answer' # "ok"
      BY <2>3 DEF EditInv, Untouched
    <2>4. CASE pc = "write" /\ UNCHANGED file /\ answer' # "ok"
      <3>1. file' = << >>
        BY <2>4 DEF EditInv, Untouched
      <3>2. SubSeq(text, 1, 0) = << >> /\ 0 \in 0 .. Len(text)
        BY <2>1, SubSeqEmpty
      <3>3. file' \in Beginnings(text)
        <4>1. SubSeq(text, 1, 0) \in Beginnings(text)
          BY <2>2, <3>2
        <4> QED
          BY <3>1, <3>2, <4>1
      <3> QED
        BY <2>4, <3>3
    <2>5. ASSUME pc = "write", NEW n \in 0 .. Len(text), file' = Over(n),
                 answer' = "ok" => n = Len(text)
          PROVE  IF answer' = "ok" THEN file' = text
                 ELSE file' \in {base} \cup Beginnings(text)
      <3>1. file' = SubSeq(text, 1, n)
        BY <2>5, OverType DEF EditInv, Untouched
      <3> QED
        BY <2>1, <2>2, <2>5, <3>1
    <2>6. CASE Open
      <3>1. pc = "open" /\ UNCHANGED file /\ answer' # "ok"
        BY <2>6 DEF Open, Return
      <3> QED
        BY <2>3, <3>1
    <2>7. CASE Write
      <3>1. pc = "write" /\ \E n \in 0 .. Len(text) :
                               file' = Over(n) /\ (answer' = "ok" => n = Len(text))
        <4>1. CASE file' = Over(Len(text)) /\ Return("ok")
          <5>1. Len(text) \in 0 .. Len(text)
            BY <2>1
          <5>2. pc = "write"
            BY <2>7 DEF Write
          <5> QED
            BY <4>1, <5>1, <5>2
        <4>2. CASE \E n \in 0 .. Len(text) : file' = Over(n) /\ Return("error")
          <5>1. answer' # "ok"
            BY <4>2 DEF Return
          <5> QED
            BY <2>7, <4>2, <5>1 DEF Write
        <4> QED
          BY <2>7, <4>1, <4>2 DEF Write
      <3> QED
        BY <2>5, <3>1
    <2>8. CASE Kill
      <3>1. answer' # "ok"
        BY <2>8 DEF Kill, Return
      <3> QED
        BY <2>3, <2>4, <2>5, <2>8, <3>1 DEF Kill
    <2>9. ~Calling /\ ~AnswerBash
      BY DEF Calling, RefuseEdit, EditFile, WriteFile, StartShell, AnswerBash
    <2>10. ~Deadline /\ ~ShellExits /\ ~WriteFromOutside
      BY DEF Deadline, Expire, KillShell, ShellExits, WriteFromOutside
    <2>11. ~\E kind \in {"holding", "detached"} : Spawn(kind) \/ ChildEnds(kind)
      BY DEF Spawn, ChildEnds
    <2> QED
      BY <2>6, <2>7, <2>8, <2>9, <2>10, <2>11 DEF Next, Working
  <1> QED
    BY <1>1, EditInvHolds, PTL DEF Spec, NoMixture

(***************************************************************************)
(* Reading.                                                                *)
(***************************************************************************)

\* f is what the definition of Joined describes, up to position m.
JoinedAt(lines, f, i) ==
    IF i = 0 THEN << >>
    ELSE IF i = 1 THEN lines[1]
    ELSE f[i - 1] \o << NL >> \o lines[i]

IsJoined(lines, f, m) == f = [i \in 0 .. m |-> JoinedAt(lines, f, i)]

\* There is one.
LEMMA JoinedExists ==
    ASSUME NEW lines, NEW m \in Nat
    PROVE  \E f : IsJoined(lines, f, m)
  <1> DEFINE S == { k \in Nat : \E f : IsJoined(lines, f, k) }
  <1>1. 0 \in S
    <2>1. IsJoined(lines, [i \in 0 .. 0 |-> << >>], 0)
      BY DEF IsJoined, JoinedAt
    <2> QED
      BY <2>1
  <1>2. ASSUME NEW f, NEW g, NEW k \in Nat, \A i \in 0 .. k : f[i] = g[i]
        PROVE  \A i \in 0 .. k + 1 : JoinedAt(lines, f, i) = JoinedAt(lines, g, i)
    <2> SUFFICES ASSUME NEW i \in 0 .. k + 1
                 PROVE  JoinedAt(lines, f, i) = JoinedAt(lines, g, i)
      OBVIOUS
    <2>1. CASE i \in {0, 1}
      BY <2>1 DEF JoinedAt
    <2>2. CASE i \notin {0, 1}
      <3>1. i - 1 \in 0 .. k
        BY <2>2
      <3>2. f[i - 1] = g[i - 1]
        BY <1>2, <3>1
      <3> QED
        BY <2>2, <3>2 DEF JoinedAt
    <2> QED
      BY <2>1, <2>2
  <1>3. ASSUME NEW k \in Nat, k \in S PROVE k + 1 \in S
    <2>1. PICK f : IsJoined(lines, f, k)
      BY <1>3
    <2> DEFINE g == [i \in 0 .. k + 1 |-> JoinedAt(lines, f, i)]
    <2>2. \A i \in 0 .. k : g[i] = f[i]
      BY <2>1 DEF IsJoined
    <2>3. \A i \in 0 .. k + 1 : JoinedAt(lines, f, i) = JoinedAt(lines, g, i)
      <3> HIDE DEF g
      <3> QED
        BY <1>2, <2>2
    <2>4. IsJoined(lines, g, k + 1)
      BY <2>3 DEF IsJoined
    <2> QED
      BY <2>4
  <1> HIDE DEF S
  <1>4. m \in S
    BY <1>1, <1>3, SetInduction
  <1> QED
    BY <1>4 DEF S

\* One line more, one newline more.
LEMMA JoinedFacts ==
    /\ Joined(<< >>) = << >>
    /\ \A x : Joined(<< x >>) = x
    /\ \A lines \in Seq(Texts), x \in Texts :
         lines # << >> => Joined(Append(lines, x)) = Joined(lines) \o << NL >> \o x
  <1>1. ASSUME NEW lines, NEW m \in Nat, Len(lines) = m
        PROVE  \E f : IsJoined(lines, f, m) /\ Joined(lines) = f[m]
    <2> DEFINE f == CHOOSE f : IsJoined(lines, f, m)
    <2>1. Joined(lines) = f[m]
      BY <1>1 DEF Joined, IsJoined, JoinedAt
    <2>2. IsJoined(lines, f, m)
      BY JoinedExists
    <2> HIDE DEF f
    <2> QED
      BY <2>1, <2>2
  <1>2. Joined(<< >>) = << >>
    <2>1. PICK f : IsJoined(<< >>, f, 0) /\ Joined(<< >>) = f[0]
      BY <1>1
    <2> QED
      BY <2>1 DEF IsJoined, JoinedAt
  <1>3. ASSUME NEW x PROVE Joined(<< x >>) = x
    <2>1. PICK f : IsJoined(<< x >>, f, 1) /\ Joined(<< x >>) = f[1]
      BY <1>1
    <2>2. f[1] = JoinedAt(<< x >>, f, 1)
      BY <2>1 DEF IsJoined
    <2> QED
      BY <2>1, <2>2 DEF JoinedAt
  <1>4. ASSUME NEW lines \in Seq(Texts), NEW x \in Texts, lines # << >>
        PROVE  Joined(Append(lines, x)) = Joined(lines) \o << NL >> \o x
    <2>1. PICK m \in Nat : m = Len(lines) /\ m >= 1
      BY <1>4, EmptySeq
    <2>2. PICK more : more = Append(lines, x)
      OBVIOUS
    <2>3. /\ Len(more) = m + 1 /\ more[m + 1] = x
          /\ \A i \in 1 .. m : more[i] = lines[i]
      BY <2>1, <2>2, AppendProperties
    <2>4. PICK f : IsJoined(lines, f, m) /\ Joined(lines) = f[m]
      BY <1>1, <2>1
    <2>5. PICK g : IsJoined(more, g, m + 1) /\ Joined(more) = g[m + 1]
      BY <1>1, <2>1, <2>3
    <2>6. \A i \in 0 .. m : f[i] = JoinedAt(lines, f, i)
      BY <2>4 DEF IsJoined
    <2>7. \A i \in 0 .. m + 1 : g[i] = JoinedAt(more, g, i)
      BY <2>5 DEF IsJoined
    <2> DEFINE S == { i \in Nat : i <= m => f[i] = g[i] }
    <2>8. 0 \in S
      BY <2>1, <2>6, <2>7 DEF JoinedAt
    <2>9. ASSUME NEW i \in Nat, i \in S PROVE i + 1 \in S
      <3> SUFFICES ASSUME i + 1 <= m PROVE f[i + 1] = g[i + 1]
        OBVIOUS
      <3>1. PICK j : j = i + 1 /\ j \in 1 .. m /\ j - 1 = i /\ j \in 0 .. m /\ j \in 0 .. m + 1
        OBVIOUS
      <3>2. f[i] = g[i]
        BY <2>9
      <3>3. f[j] = JoinedAt(lines, f, j) /\ g[j] = JoinedAt(more, g, j)
        BY <2>6, <2>7, <3>1
      <3>4. JoinedAt(lines, f, j) = JoinedAt(more, g, j)
        <4>1. lines[j] = more[j] /\ (j = 1 => lines[1] = more[1])
          BY <2>3, <3>1
        <4> QED
          BY <3>1, <3>2, <4>1 DEF JoinedAt
      <3> QED
        BY <3>1, <3>3, <3>4
    <2> HIDE DEF S
    <2>10. f[m] = g[m]
      <3>1. m \in S
        BY <2>8, <2>9, SetInduction
      <3> QED
        BY <3>1 DEF S
    <2>11. g[m + 1] = g[m] \o << NL >> \o x
      <3>1. PICK j : j = m + 1 /\ j \in 0 .. m + 1 /\ j # 0 /\ j # 1 /\ j - 1 = m
        BY <2>1
      <3>2. g[j] = g[j - 1] \o << NL >> \o more[j]
        BY <2>7, <3>1 DEF JoinedAt
      <3> QED
        BY <2>3, <3>1, <3>2
    <2> QED
      BY <2>2, <2>4, <2>5, <2>10, <2>11
  <1> QED
    BY <1>2, <1>3, <1>4

\* Rows of texts, put together.
LEMMA RowFacts ==
    /\ << >> \in Seq(Texts)
    /\ \A x \in Texts : << x >> \in Seq(Texts) /\ << x >> # << >>
    /\ \A x \in Texts : Append(<< >>, x) = << x >>
    /\ \A a, b \in Seq(Texts) : a \o b \in Seq(Texts)
    /\ \A a, b \in Seq(Texts) : a # << >> => a \o b # << >>
    /\ \A a \in Seq(Texts), x \in Texts : a \o << x >> = Append(a, x)
    /\ \A a, b \in Seq(Texts), x \in Texts : a \o Append(b, x) = Append(a \o b, x)
  <1>1. << >> \in Seq(Texts) /\ \A a, b \in Seq(Texts) : a \o b \in Seq(Texts)
    BY ConcatProperties
  <1>2. \A x \in Texts : << x >> \in Seq(Texts) /\ << x >> # << >> /\ Append(<< >>, x) = << x >>
    OBVIOUS
  <1>3. ASSUME NEW a \in Seq(Texts), NEW b \in Seq(Texts), a # << >> PROVE a \o b # << >>
    BY <1>3, ConcatEqualIffEmpty
  <1>4. ASSUME NEW a \in Seq(Texts), NEW x \in Texts PROVE a \o << x >> = Append(a, x)
    BY AppendIsConcat
  <1>5. ASSUME NEW a \in Seq(Texts), NEW b \in Seq(Texts), NEW x \in Texts
        PROVE  a \o Append(b, x) = Append(a \o b, x)
    <2>1. Append(b, x) = b \o << x >> /\ Append(a \o b, x) = (a \o b) \o << x >>
      BY <1>1, AppendIsConcat
    <2>2. (a \o b) \o << x >> = a \o (b \o << x >>)
      BY <1>2, ConcatAssociative
    <2> QED
      BY <2>1, <2>2
  <1> QED
    BY <1>1, <1>2, <1>3, <1>4, <1>5

\* Lines joined are a text.
LEMMA JoinedType == \A a \in Seq(Texts) : Joined(a) \in Texts
  <1> DEFINE S == { n \in Nat : \A a \in Seq(Texts) : Len(a) = n => Joined(a) \in Texts }
  <1>1. 0 \in S
    <2> SUFFICES ASSUME NEW a \in Seq(Texts), Len(a) = 0 PROVE Joined(a) \in Texts
      OBVIOUS
    <2>1. a = << >>
      OBVIOUS
    <2> QED
      BY <2>1, JoinedFacts, TextFacts
  <1>2. ASSUME NEW n \in Nat, n \in S PROVE n + 1 \in S
    <2> SUFFICES ASSUME NEW a \in Seq(Texts), Len(a) = n + 1 PROVE Joined(a) \in Texts
      OBVIOUS
    <2>1. a # << >>
      BY EmptySeq
    <2>2. PICK b \in Seq(Texts), x \in Texts : a = Append(b, x)
      BY <2>1, SequenceEmptyOrAppend
    <2>3. CASE b = << >>
      <3>1. a = << x >>
        BY <2>2, <2>3, RowFacts
      <3> QED
        BY <3>1, JoinedFacts
    <2>4. CASE b # << >>
      <3>1. Len(b) = n
        BY <2>2, AppendProperties
      <3>2. Joined(b) \in Texts
        BY <1>2, <3>1
      <3>3. Joined(a) = Joined(b) \o << NL >> \o x
        BY <2>2, <2>4, JoinedFacts
      <3>4. << NL >> \in Texts
        BY CharsAssumption, TextFacts
      <3>5. Joined(b) \o << NL >> \in Texts
        BY <3>2, <3>4, TextFacts, Zenon
      <3>6. Joined(b) \o << NL >> \o x \in Texts
        BY <3>5, TextFacts, Zenon
      <3> QED
        BY <3>3, <3>6
    <2> QED
      BY <2>3, <2>4
  <1> HIDE DEF S
  <1>3. Nat \subseteq S
    BY <1>1, <1>2, SetInduction
  <1>4. ASSUME NEW a \in Seq(Texts) PROVE Joined(a) \in Texts
    <2>1. Len(a) \in S
      BY <1>3, LenProperties
    <2> QED
      BY <2>1 DEF S
  <1> QED
    BY <1>4

\* The newline goes between.
LEMMA JoinedConcat ==
    ASSUME NEW a \in Seq(Texts), a # << >>
    PROVE  \A b \in Seq(Texts) :
             b # << >> => Joined(a \o b) = Joined(a) \o << NL >> \o Joined(b)
  <1> DEFINE Ok(b) == b # << >> => Joined(a \o b) = Joined(a) \o << NL >> \o Joined(b)
             S == { n \in Nat : \A b \in Seq(Texts) : Len(b) = n => Ok(b) }
  <1>1. << NL >> \in Texts /\ Joined(a) \in Texts /\ Joined(a) \o << NL >> \in Texts
    <2>1. << NL >> \in Texts
      BY CharsAssumption, TextFacts
    <2>2. Joined(a) \in Texts
      BY JoinedType
    <2>3. Joined(a) \o << NL >> \in Texts
      BY <2>1, <2>2, TextFacts, Zenon
    <2> QED
      BY <2>1, <2>2, <2>3
  <1>2. ASSUME NEW c \in Seq(Texts), NEW x \in Texts, Ok(c) PROVE Ok(Append(c, x))
    <2>1. CASE c = << >>
      <3>1. Append(c, x) = << x >> /\ Joined(<< x >>) = x
        BY <2>1, JoinedFacts, RowFacts
      <3>2. a \o << x >> = Append(a, x)
        BY RowFacts
      <3>3. Joined(Append(a, x)) = Joined(a) \o << NL >> \o x
        BY JoinedFacts
      <3> QED
        BY <3>1, <3>2, <3>3
    <2>2. CASE c # << >>
      <3>1. a \o Append(c, x) = Append(a \o c, x)
        BY RowFacts
      <3>2. a \o c \in Seq(Texts) /\ a \o c # << >>
        BY RowFacts, Zenon
      <3>3. Joined(Append(a \o c, x)) = Joined(a \o c) \o << NL >> \o x
        BY <3>2, JoinedFacts, Zenon
      <3>4. PICK A, C, N : A = Joined(a) \o << NL >> /\ C = Joined(c) /\ N = << NL >>
        OBVIOUS
      <3>5. A \in Texts /\ C \in Texts /\ N \in Texts /\ C \o N \in Texts
        <4>1. A \in Texts /\ C \in Texts /\ N \in Texts
          BY <1>1, <3>4, JoinedType
        <4> QED
          BY <4>1, TextFacts, Zenon
      <3>6. Joined(a \o c) = A \o C
        BY <1>2, <2>2, <3>4
      <3>7. ((A \o C) \o N) \o x = A \o ((C \o N) \o x)
        <4>1. (A \o C) \o N = A \o (C \o N)
          BY <3>5, TextFacts, Zenon
        <4>2. (A \o (C \o N)) \o x = A \o ((C \o N) \o x)
          BY <3>5, TextFacts, Zenon
        <4> QED
          BY <4>1, <4>2
      <3>8. Joined(Append(c, x)) = (C \o N) \o x
        BY <2>2, <3>4, JoinedFacts
      <3> QED
        BY <3>1, <3>3, <3>4, <3>6, <3>7, <3>8
    <2> QED
      BY <2>1, <2>2
  <1> HIDE DEF Ok
  <1>3. 0 \in S
    <2> SUFFICES ASSUME NEW b \in Seq(Texts), Len(b) = 0 PROVE Ok(b)
      OBVIOUS
    <2>1. b = << >>
      OBVIOUS
    <2> QED
      BY <2>1 DEF Ok
  <1>4. ASSUME NEW n \in Nat, n \in S PROVE n + 1 \in S
    <2> SUFFICES ASSUME NEW b \in Seq(Texts), Len(b) = n + 1 PROVE Ok(b)
      OBVIOUS
    <2>1. b # << >>
      BY EmptySeq
    <2>2. PICK c \in Seq(Texts), x \in Texts : b = Append(c, x)
      BY <2>1, SequenceEmptyOrAppend
    <2>3. Len(c) = n
      BY <2>2, AppendProperties
    <2> QED
      BY <1>2, <1>4, <2>2, <2>3
  <1> HIDE DEF S
  <1>5. Nat \subseteq S
    BY <1>3, <1>4, SetInduction
  <1>6. ASSUME NEW b \in Seq(Texts) PROVE Ok(b)
    <2>1. Len(b) \in S
      BY <1>5, LenProperties
    <2> QED
      BY <2>1 DEF S
  <1> QED
    BY <1>6 DEF Ok

\* f is what the definition of Lines describes, from position lo on.
LinesAt(s, f, i) ==
    IF i > Len(s) THEN << << >> >>
    ELSE IF s[i] = NL THEN << << >> >> \o f[i + 1]
    ELSE << << s[i] >> \o Head(f[i + 1]) >> \o Tail(f[i + 1])

IsLines(s, f, lo) == f = [i \in lo .. Len(s) + 1 |-> LinesAt(s, f, i)]

\* There is one.
LEMMA LinesExist ==
    ASSUME NEW s \in Texts
    PROVE  \E f : IsLines(s, f, 1)
  <1> DEFINE S == { i \in 1 .. Len(s) + 1 : \E f : IsLines(s, f, i) }
  <1>1. PICK n \in Nat : n = Len(s)
    BY LenProperties DEF Texts
  <1>2. ASSUME NEW f, NEW g, NEW i \in 1 .. n + 1, \A j \in i + 1 .. n + 1 : f[j] = g[j]
        PROVE  LinesAt(s, f, i) = LinesAt(s, g, i)
    <2>1. CASE i > n
      BY <1>1, <2>1 DEF LinesAt
    <2>2. CASE i <= n
      <3>1. i + 1 \in i + 1 .. n + 1
        BY <2>2
      <3>2. f[i + 1] = g[i + 1]
        BY <1>2, <3>1
      <3> QED
        BY <1>1, <2>2, <3>2 DEF LinesAt
    <2> QED
      BY <2>1, <2>2
  <1>3. n + 1 \in S
    <2>1. IsLines(s, [i \in n + 1 .. n + 1 |-> << << >> >>], n + 1)
      BY <1>1 DEF IsLines, LinesAt
    <2> QED
      BY <1>1, <2>1
  <1>4. ASSUME NEW i \in 1 .. n, i + 1 .. n + 1 \subseteq S PROVE i \in S
    <2>1. i + 1 \in i + 1 .. n + 1
      OBVIOUS
    <2>2. PICK f : IsLines(s, f, i + 1)
      BY <1>4, <2>1
    <2> DEFINE g == [j \in i .. n + 1 |-> LinesAt(s, f, j)]
    <2>3. ASSUME NEW j \in i + 1 .. n + 1 PROVE g[j] = f[j]
      BY <1>1, <2>2 DEF IsLines
    <2>4. ASSUME NEW j \in i .. n + 1 PROVE LinesAt(s, f, j) = LinesAt(s, g, j)
      <3> HIDE DEF g
      <3> QED
        BY <1>2, <2>3
    <2>5. g = [j \in i .. n + 1 |-> LinesAt(s, g, j)]
      BY <2>4
    <2>6. IsLines(s, g, i)
      BY <1>1, <2>5 DEF IsLines
    <2> QED
      BY <1>1, <2>6
  <1> HIDE DEF S
  <1>5. 1 \in S
    BY <1>3, <1>4, BackwardInduction
  <1> QED
    BY <1>5 DEF S

\* A row of texts is its first and the rest; a first one that is longer makes
\* the whole longer.
LEMMA HeadLonger ==
    ASSUME NEW row \in Seq(Texts), row # << >>, NEW c \in Texts
    PROVE  LET longer == << c \o Head(row) >> \o Tail(row)
           IN  /\ longer \in Seq(Texts) /\ longer # << >>
               /\ Joined(longer) = c \o Joined(row)
  <1>1. PICK h, t : h = Head(row) /\ t = Tail(row)
    OBVIOUS
  <1>2. h \in Texts /\ t \in Seq(Texts)
    BY <1>1, HeadTailProperties
  <1>3. c \o h \in Texts
    BY <1>2, TextFacts, Zenon
  <1>4. row = << h >> \o t
    <2>1. Len(row) \in Nat \ {0}
      BY EmptySeq
    <2>2. SubSeq(row, 1, Len(row)) = row /\ Tail(row) = SubSeq(row, 2, Len(row))
      BY SubSeqFull, TailIsSubSeq
    <2>3. SubSeq(row, 1, Len(row)) = << row[1] >> \o SubSeq(row, 1 + 1, Len(row))
      <3>1. 1 \in 1 .. Len(row) /\ Len(row) \in 1 .. Len(row)
        BY <2>1
      <3> QED
        BY <3>1, SubSeqRecursiveFirst
    <2>4. Head(row) = row[1]
      OBVIOUS
    <2> QED
      BY <1>1, <2>2, <2>3, <2>4
  <1>5. << c \o h >> \in Seq(Texts) /\ << c \o h >> # << >>
        /\ << h >> \in Seq(Texts) /\ << h >> # << >>
        /\ Joined(<< c \o h >>) = c \o h /\ Joined(<< h >>) = h
    BY <1>2, <1>3, RowFacts, JoinedFacts, Zenon
  <1>6. << c \o h >> \o t \in Seq(Texts) /\ << c \o h >> \o t # << >>
    BY <1>2, <1>5, RowFacts, Zenon
  <1>7. Joined(<< c \o h >> \o t) = c \o Joined(row)
    <2>1. CASE t = << >>
      <3>1. << c \o h >> \o << >> = << c \o h >> /\ << h >> \o << >> = << h >>
        BY <1>5, ConcatEmptySeq
      <3> QED
        BY <1>4, <1>5, <2>1, <3>1
    <2>2. CASE t # << >>
      <3>1. PICK J, N : J = Joined(t) /\ N = << NL >>
        OBVIOUS
      <3>2. J \in Texts /\ N \in Texts
        BY <1>2, <3>1, JoinedType, TextFacts, CharsAssumption
      <3>3. Joined(<< c \o h >> \o t) = Joined(<< c \o h >>) \o N \o J
        BY <1>2, <1>5, <2>2, <3>1, JoinedConcat, Zenon
      <3>4. Joined(<< h >> \o t) = Joined(<< h >>) \o N \o J
        BY <1>2, <1>5, <2>2, <3>1, JoinedConcat, Zenon
      <3>5. ((c \o h) \o N) \o J = c \o ((h \o N) \o J)
        <4>1. (c \o h) \o N = c \o (h \o N) /\ h \o N \in Texts
          BY <1>2, <3>2, TextFacts, Zenon
        <4>2. (c \o (h \o N)) \o J = c \o ((h \o N) \o J)
          BY <3>2, <4>1, TextFacts, Zenon
        <4> QED
          BY <4>1, <4>2
      <3> QED
        BY <1>4, <1>5, <3>3, <3>4, <3>5
    <2> QED
      BY <2>1, <2>2
  <1> QED
    BY <1>1, <1>6, <1>7

\* A text is its lines, joined.
LEMMA LinesFacts ==
    ASSUME NEW s \in Texts
    PROVE  Lines(s) \in Seq(Texts) /\ Lines(s) # << >> /\ Joined(Lines(s)) = s
  <1> DEFINE f == CHOOSE f : IsLines(s, f, 1)
  <1>1. PICK n \in Nat : n = Len(s)
    BY LenProperties DEF Texts
  <1>2. Lines(s) = f[1]
    BY DEF Lines, IsLines, LinesAt
  <1>3. IsLines(s, f, 1)
    BY LinesExist
  <1> HIDE DEF f
  <1>4. \A i \in 1 .. n + 1 : f[i] = LinesAt(s, f, i)
    BY <1>1, <1>3 DEF IsLines
  <1> DEFINE Ok(i, row) == row \in Seq(Texts) /\ row # << >> /\ Joined(row) = SubSeq(s, i, n)
             S == { i \in 1 .. n + 1 : Ok(i, f[i]) }
  <1>5. Ok(n + 1, f[n + 1])
    <2>1. LinesAt(s, f, n + 1) = << << >> >> /\ n + 1 \in 1 .. n + 1
      BY <1>1 DEF LinesAt
    <2>2. f[n + 1] = << << >> >>
      BY <1>4, <2>1
    <2>3. SubSeq(s, n + 1, n) = << >>
      BY SubSeqEmpty
    <2>4. << << >> >> \in Seq(Texts) /\ << << >> >> # << >> /\ Joined(<< << >> >>) = << >>
      BY TextFacts, RowFacts, JoinedFacts
    <2> QED
      BY <2>2, <2>3, <2>4
  <1>6. ASSUME NEW i \in 1 .. n, Ok(i + 1, f[i + 1]) PROVE Ok(i, f[i])
    <2>1. PICK row, c : row = f[i + 1] /\ c = << s[i] >>
      OBVIOUS
    <2>2. row \in Seq(Texts) /\ row # << >> /\ Joined(row) = SubSeq(s, i + 1, n)
      BY <1>6, <2>1
    <2>3. c \in Texts
      <3>1. s[i] \in Chars
        BY <1>1, ElementOfSeq DEF Texts
      <3> QED
        BY <2>1, <3>1, TextFacts
    <2>4. SubSeq(s, i, n) = c \o SubSeq(s, i + 1, n)
      BY <1>1, <2>1, SubSeqRecursiveFirst DEF Texts
    <2>5. f[i] = IF s[i] = NL THEN << << >> >> \o row
                 ELSE << c \o Head(row) >> \o Tail(row)
      <3>1. f[i] = LinesAt(s, f, i) /\ ~(i > Len(s))
        BY <1>1, <1>4
      <3> QED
        BY <2>1, <3>1 DEF LinesAt
    <2>6. CASE s[i] = NL
      <3>1. PICK e : e = << << >> >>
        OBVIOUS
      <3>2. e \in Seq(Texts) /\ e # << >> /\ Joined(e) = << >>
        BY <3>1, TextFacts, RowFacts, JoinedFacts
      <3>3. e \o row \in Seq(Texts) /\ e \o row # << >>
        BY <2>2, <3>2, RowFacts, Zenon
      <3>4. Joined(e \o row) = << >> \o << NL >> \o Joined(row)
        BY <2>2, <3>2, JoinedConcat
      <3>5. << >> \o << NL >> = c
        BY <2>1, <2>3, <2>6, TextFacts
      <3> QED
        BY <2>2, <2>4, <2>5, <2>6, <3>1, <3>3, <3>4, <3>5
    <2>7. CASE s[i] # NL
      BY <2>2, <2>3, <2>4, <2>5, <2>7, HeadLonger
    <2> QED
      BY <2>6, <2>7
  <1> HIDE DEF Ok
  <1>7. n + 1 \in S
    BY <1>5
  <1>8. ASSUME NEW i \in 1 .. n, i + 1 .. n + 1 \subseteq S PROVE i \in S
    <2>1. i + 1 \in i + 1 .. n + 1
      OBVIOUS
    <2> QED
      BY <1>6, <1>8, <2>1
  <1> HIDE DEF S
  <1>9. 1 \in S
    BY <1>7, <1>8, BackwardInduction
  <1>10. Ok(1, f[1])
    BY <1>9 DEF S
  <1>11. SubSeq(s, 1, n) = s
    BY <1>1, SubSeqFull DEF Texts
  <1> QED
    BY <1>2, <1>10, <1>11 DEF Ok

\* The lines up to one, and those behind it.
LEMMA JoinedSplit ==
    ASSUME NEW row \in Seq(Texts), NEW a \in 1 .. Len(row), NEW b \in a + 1 .. Len(row)
    PROVE  Joined(SubSeq(row, 1, b))
             = Joined(SubSeq(row, 1, a)) \o << NL >> \o Joined(SubSeq(row, a + 1, b))
  <1>1. PICK m \in Nat : m = Len(row)
    BY LenProperties
  <1>2. \A i \in 1 .. m : row[i] \in Texts
    BY <1>1, ElementOfSeq
  <1>3. PICK p, q : p = SubSeq(row, 1, a) /\ q = SubSeq(row, a + 1, b)
    OBVIOUS
  <1>4. p \in Seq(Texts) /\ p # << >>
    <2>1. \A i \in 1 .. a : row[i] \in Texts
      BY <1>1, <1>2
    <2>2. SubSeq(row, 1, a) \in Seq(Texts) /\ Len(SubSeq(row, 1, a)) = IF 1 <= a THEN a - 1 + 1 ELSE 0
      BY <1>1, <2>1, SubSeqProperties
    <2>3. Len(p) # 0
      BY <1>1, <1>3, <2>2
    <2> QED
      BY <1>3, <2>2, <2>3, EmptySeq
  <1>5. q \in Seq(Texts) /\ q # << >>
    <2>1. \A i \in a + 1 .. b : row[i] \in Texts
      BY <1>1, <1>2
    <2>2. /\ SubSeq(row, a + 1, b) \in Seq(Texts)
          /\ Len(SubSeq(row, a + 1, b)) = IF a + 1 <= b THEN b - (a + 1) + 1 ELSE 0
      BY <1>1, <2>1, SubSeqProperties
    <2>3. Len(q) # 0
      BY <1>1, <1>3, <2>2
    <2> QED
      BY <1>3, <2>2, <2>3, EmptySeq
  <1>6. SubSeq(row, 1, b) = p \o q
    <2>1. 1 \in 1 .. Len(row) + 1 /\ a \in 1 - 1 .. Len(row) /\ b \in a .. Len(row)
      BY <1>1
    <2> QED
      BY <1>3, <2>1, ConcatAdjacentSubSeq
  <1>7. Joined(p \o q) = Joined(p) \o << NL >> \o Joined(q)
    BY <1>4, <1>5, JoinedConcat, Zenon
  <1> QED
    BY <1>3, <1>6, <1>7

\* Pages of limit lines: so many are full, and they begin within the file.
LEMMA PageNumbers ==
    ASSUME NEW n \in Nat, NEW limit \in Nat, limit >= 1, NEW d, d = n \div limit
    PROVE  /\ d \in Nat /\ d * limit \in Nat /\ d * limit <= n /\ n < (d + 1) * limit
           /\ (d + 1) * limit = d * limit + limit
           /\ \A k \in 1 .. d : /\ (k - 1) * limit \in Nat
                                /\ (k - 1) * limit + limit = k * limit
                                /\ k * limit \in limit .. n
  <1>1. d \in Nat /\ d * limit <= n /\ n < (d + 1) * limit
    BY Z3
  <1>2. (d + 1) * limit = d * limit + limit /\ d * limit \in Nat
    BY <1>1
  <1>3. ASSUME NEW k \in 1 .. d
        PROVE  /\ (k - 1) * limit \in Nat
               /\ (k - 1) * limit + limit = k * limit
               /\ k * limit \in limit .. n
    <2>1. k * limit <= d * limit /\ limit <= k * limit /\ k * limit \in Nat
      BY <1>1
    <2>2. (k - 1) * limit + limit = k * limit /\ (k - 1) * limit \in Nat
      BY <1>1
    <2> QED
      BY <1>1, <1>2, <2>1, <2>2
  <1> QED
    BY <1>1, <1>2, <1>3

\* The pages of a file, one after the other, are the file.
LEMMA PagesFacts ==
    ASSUME NEW s \in Texts, NEW limit \in Nat, limit >= 1
    PROVE  LET count == Len(Lines(s)) \div limit + 1
               offset(k) == (k - 1) * limit + 1
           IN  /\ \A k \in 1 .. count : ~PastEnd(s, offset(k))
               /\ PastEnd(s, offset(count + 1))
               /\ Joined([k \in 1 .. count |-> Page(s, offset(k), limit)])
                    \in {s, Append(s, NL)}
  <1>1. PICK row, n : row = Lines(s) /\ n = Len(row)
    OBVIOUS
  <1>2. row \in Seq(Texts) /\ row # << >> /\ Joined(row) = s /\ n \in Nat /\ n >= 1
    <2>1. row \in Seq(Texts) /\ row # << >> /\ Joined(row) = s
      BY <1>1, LinesFacts
    <2> QED
      BY <1>1, <2>1, EmptySeq
  <1>3. PICK d : d = n \div limit
    OBVIOUS
  <1> DEFINE from(k) == (k - 1) * limit
             page(k) == Page(s, from(k) + 1, limit)
             pages == [k \in 1 .. d + 1 |-> page(k)]
  <1>4. /\ d \in Nat /\ d * limit \in Nat /\ d * limit <= n /\ n < (d + 1) * limit
        /\ (d + 1) * limit = d * limit + limit
        /\ \A k \in 1 .. d : /\ from(k) \in Nat
                             /\ from(k) + limit = k * limit
                             /\ k * limit \in limit .. n
    BY <1>2, <1>3, PageNumbers
  <1>5. /\ (d + 1) - 1 = d /\ (d + 1 + 1) - 1 = d + 1
        /\ from(d + 1) = d * limit /\ from(d + 1 + 1) = (d + 1) * limit
    BY <1>4
  <1>6. ASSUME NEW k \in 1 .. d + 2
        PROVE  from(k) \in Nat /\ PageStart(from(k) + 1) = from(k)
    <2>1. from(k) \in Nat
      <3>1. k \in 1 .. d \/ k = d + 1 \/ k = d + 1 + 1
        BY <1>4
      <3>2. (d + 1) * limit \in Nat
        BY <1>4
      <3> QED
        BY <1>4, <1>5, <3>1, <3>2
    <2> HIDE DEF from
    <2> QED
      BY <2>1 DEF PageStart
  <1> HIDE DEF from
  <1>7. \A k \in 1 .. d + 1 : ~PastEnd(s, from(k) + 1)
    <2> SUFFICES ASSUME NEW k \in 1 .. d + 1 PROVE from(k) <= n
      BY <1>1, <1>2, <1>4, <1>6 DEF PastEnd
    <2>1. CASE k \in 1 .. d
      <3>1. from(k) \in Nat /\ from(k) + limit <= n
        BY <1>2, <1>4, <2>1
      <3> QED
        BY <1>2, <3>1
    <2>2. CASE k = d + 1
      BY <1>4, <1>5, <2>2
    <2> QED
      BY <1>4, <2>1, <2>2
  <1>8. PastEnd(s, from(d + 1 + 1) + 1)
    <2>1. d + 1 + 1 \in 1 .. d + 2
      BY <1>4
    <2>2. PageStart(from(d + 1 + 1) + 1) = from(d + 1 + 1)
      BY <1>6, <2>1
    <2> QED
      BY <1>1, <1>4, <1>5, <2>2 DEF PastEnd
  <1>9. ASSUME NEW k \in 1 .. d
        PROVE  page(k) = Joined(SubSeq(row, from(k) + 1, k * limit))
    <2>1. PageStart(from(k) + 1) = from(k) /\ from(k) \in Nat
      BY <1>4, <1>6
    <2>2. from(k) + limit = k * limit /\ k * limit \in limit .. n
      BY <1>4
    <2>3. (IF limit > 0 /\ from(k) + limit < n THEN from(k) + limit ELSE n) = k * limit
      BY <1>2, <2>2
    <2> QED
      BY <1>1, <2>1, <2>3 DEF Page
  <1>10. page(d + 1) = Joined(SubSeq(row, d * limit + 1, n))
    <2>1. PageStart(from(d + 1) + 1) = d * limit
      BY <1>4, <1>5, <1>6
    <2>2. ~(d * limit + limit < n)
      BY <1>2, <1>4
    <2> QED
      BY <1>1, <2>1, <2>2 DEF Page
  <1>11. ASSUME NEW k \in 1 .. d + 1 PROVE page(k) \in Texts
    <2>1. \A i \in 1 .. n : row[i] \in Texts
      BY <1>1, <1>2, ElementOfSeq
    <2>2. ASSUME NEW a \in Nat, NEW b \in Int, b <= n
          PROVE  Joined(SubSeq(row, a + 1, b)) \in Texts
      <3>1. \A i \in a + 1 .. b : row[i] \in Texts
        BY <1>2, <2>1, <2>2
      <3>2. SubSeq(row, a + 1, b) \in Seq(Texts)
        BY <3>1, SubSeqProperties
      <3> QED
        BY <3>2, JoinedType
    <2>3. CASE k \in 1 .. d
      <3>1. from(k) \in Nat /\ k * limit \in Int /\ k * limit <= n
        BY <1>2, <1>4, <2>3
      <3>2. Joined(SubSeq(row, from(k) + 1, k * limit)) \in Texts
        BY <2>2, <3>1
      <3> HIDE DEF page
      <3> QED
        BY <1>9, <2>3, <3>2
    <2>4. CASE k = d + 1
      <3>1. Joined(SubSeq(row, d * limit + 1, n)) \in Texts
        BY <1>2, <1>4, <2>2
      <3> HIDE DEF page
      <3> QED
        BY <1>10, <2>4, <3>1
    <2> QED
      BY <1>4, <2>3, <2>4
  <1> HIDE DEF page
  <1>12. /\ pages \in Seq(Texts) /\ Len(pages) = d + 1
         /\ \A k \in 1 .. d + 1 : pages[k] = page(k)
    BY <1>4, <1>11
  <1> HIDE DEF pages
  <1> DEFINE S == { k \in Nat : k \in 1 .. d =>
                      Joined(SubSeq(pages, 1, k)) = Joined(SubSeq(row, 1, k * limit)) }
  <1>13. ASSUME NEW k \in 1 .. d
         PROVE  Joined(SubSeq(pages, 1, k + 1))
                  = Joined(SubSeq(pages, 1, k)) \o << NL >> \o page(k + 1)
    <2>1. PICK m : m = k + 1 /\ m \in k + 1 .. Len(pages) /\ k \in 1 .. Len(pages)
      BY <1>4, <1>12
    <2>2. Joined(SubSeq(pages, 1, m))
            = Joined(SubSeq(pages, 1, k)) \o << NL >> \o Joined(SubSeq(pages, k + 1, m))
      BY <1>12, <2>1, JoinedSplit
    <2>3. SubSeq(pages, m, m) = << page(m) >>
      <3>1. m \in Int /\ pages[m] \in Texts /\ pages[m] = page(m)
        BY <1>4, <1>11, <1>12, <2>1
      <3>2. SubSeq(pages, m, m) = << pages[m] >> \o SubSeq(pages, m + 1, m)
        BY <1>12, <2>1, <3>1, SubSeqRecursiveFirst
      <3>3. SubSeq(pages, m + 1, m) = << >>
        BY <3>1, SubSeqEmpty
      <3>4. << pages[m] >> \o << >> = << pages[m] >>
        BY <3>1, RowFacts, ConcatEmptySeq
      <3> QED
        BY <3>1, <3>2, <3>3, <3>4
    <2>4. Joined(<< page(m) >>) = page(m)
      BY JoinedFacts
    <2> QED
      BY <2>1, <2>2, <2>3, <2>4
  <1>14. SubSeq(pages, 1, 1) = << page(1) >>
    <2>1. 1 \in 1 .. Len(pages) /\ pages[1] = page(1) /\ pages[1] \in Texts
      BY <1>4, <1>11, <1>12
    <2>2. SubSeq(pages, 1, 1) = << pages[1] >> \o SubSeq(pages, 1 + 1, 1)
      BY <1>12, <2>1, SubSeqRecursiveFirst
    <2>3. SubSeq(pages, 1 + 1, 1) = << >>
      BY SubSeqEmpty
    <2>4. << pages[1] >> \o << >> = << pages[1] >>
      BY <2>1, RowFacts, ConcatEmptySeq
    <2> QED
      BY <2>1, <2>2, <2>3, <2>4
  <1>15. ASSUME NEW k \in Nat, k \in S PROVE k + 1 \in S
    <2> SUFFICES ASSUME k + 1 \in 1 .. d
                 PROVE  Joined(SubSeq(pages, 1, k + 1)) = Joined(SubSeq(row, 1, (k + 1) * limit))
      OBVIOUS
    <2>1. PICK m : m = k + 1 /\ m \in 1 .. d
      OBVIOUS
    <2>2. page(m) = Joined(SubSeq(row, from(m) + 1, m * limit))
      BY <1>9, <2>1
    <2>3. from(m) = k * limit
      BY <2>1 DEF from
    <2>4. CASE k = 0
      <3>1. from(m) + 1 = 1 /\ m = 1
        BY <2>1, <2>3, <2>4
      <3>2. Joined(SubSeq(pages, 1, 1)) = page(1)
        BY <1>14, JoinedFacts
      <3> QED
        BY <2>1, <2>2, <3>1, <3>2
    <2>5. CASE k # 0
      <3>1. k \in 1 .. d
        BY <1>4, <2>1, <2>5
      <3>2. Joined(SubSeq(pages, 1, k)) = Joined(SubSeq(row, 1, k * limit))
        BY <1>15, <3>1
      <3>3. Joined(SubSeq(pages, 1, m)) = Joined(SubSeq(pages, 1, k)) \o << NL >> \o page(m)
        BY <1>13, <2>1, <3>1
      <3>4. PICK a, b : a = k * limit /\ b = m * limit
        OBVIOUS
      <3>5. a \in 1 .. Len(row) /\ b \in a + 1 .. Len(row)
        <4>1. a \in limit .. n /\ b \in limit .. n /\ a + limit = b
          BY <1>4, <2>1, <2>3, <3>1, <3>4
        <4> QED
          BY <1>1, <1>2, <4>1
      <3>6. Joined(SubSeq(row, 1, b))
              = Joined(SubSeq(row, 1, a)) \o << NL >> \o Joined(SubSeq(row, a + 1, b))
        BY <1>2, <3>5, JoinedSplit
      <3> QED
        BY <2>1, <2>2, <2>3, <3>2, <3>3, <3>4, <3>6
    <2> QED
      BY <2>4, <2>5
  <1>16. 0 \in S
    OBVIOUS
  <1> HIDE DEF S
  <1>17. Joined(SubSeq(pages, 1, d + 1)) \in {s, Append(s, NL)}
    <2>1. SubSeq(row, 1, n) = row
      BY <1>1, <1>2, SubSeqFull
    <2>2. CASE d = 0
      <3>1. d * limit + 1 = 1 /\ d + 1 = 1
        BY <2>2
      <3>2. page(1) = s
        BY <1>2, <1>10, <2>1, <3>1
      <3>3. Joined(<< page(1) >>) = page(1)
        BY JoinedFacts
      <3> QED
        BY <1>14, <3>1, <3>2, <3>3
    <2>3. CASE d # 0
      <3>1. d \in 1 .. d
        BY <1>4, <2>3
      <3>2. Joined(SubSeq(pages, 1, d)) = Joined(SubSeq(row, 1, d * limit))
        <4>1. d \in S
          BY <1>4, <1>15, <1>16, SetInduction
        <4> QED
          BY <3>1, <4>1 DEF S
      <3>3. Joined(SubSeq(pages, 1, d + 1)) = Joined(SubSeq(row, 1, d * limit)) \o << NL >> \o page(d + 1)
        BY <1>13, <3>1, <3>2
      <3>4. PICK a : a = d * limit /\ a \in 1 .. n
        BY <1>2, <1>4, <3>1
      <3>5. CASE a = n
        <4>1. SubSeq(row, a + 1, n) = << >>
          BY <1>2, <3>5, SubSeqEmpty
        <4>2. page(d + 1) = << >>
          BY <1>10, <3>4, <4>1, JoinedFacts
        <4>3. Joined(SubSeq(row, 1, d * limit)) = s
          BY <1>2, <2>1, <3>4, <3>5
        <4>4. s \o << NL >> = Append(s, NL)
          BY CharsAssumption, AppendIsConcat DEF Texts
        <4>5. (s \o << NL >>) \o << >> = s \o << NL >>
          <5>1. << NL >> \in Texts
            BY CharsAssumption, TextFacts
          <5>2. s \o << NL >> \in Texts
            BY <5>1, TextFacts, Zenon
          <5> QED
            BY <5>2, TextFacts, Zenon
        <4> QED
          BY <3>3, <4>2, <4>3, <4>4, <4>5
      <3>6. CASE a < n
        <4>1. a \in 1 .. Len(row) /\ n \in a + 1 .. Len(row)
          BY <1>1, <1>2, <3>4, <3>6
        <4>2. Joined(SubSeq(row, 1, n))
                = Joined(SubSeq(row, 1, a)) \o << NL >> \o Joined(SubSeq(row, a + 1, n))
          BY <1>2, <4>1, JoinedSplit
        <4>3. Joined(SubSeq(pages, 1, d + 1)) = s
          BY <1>2, <1>10, <2>1, <3>3, <3>4, <4>2
        <4> QED
          BY <4>3
      <3> QED
        BY <1>2, <3>4, <3>5, <3>6
    <2> QED
      BY <2>2, <2>3
  <1>18. SubSeq(pages, 1, d + 1) = pages
    BY <1>12, SubSeqFull
  <1>19. Joined(pages) \in {s, Append(s, NL)}
    BY <1>17, <1>18
  <1> QED
    BY <1>1, <1>3, <1>7, <1>8, <1>19 DEF from, page, pages

\* Read page by page, a file comes out whole, with a newline more at most.
THEOREM PagesCoverTheFile == Spec => []PagesCover
  <1>1. EditInv => PagesCover
    <2> SUFFICES ASSUME EditInv, file # Absent, NEW limit \in 1 .. Len(file) + 1
                 PROVE  LET count == Len(Lines(file)) \div limit + 1
                            offset(k) == (k - 1) * limit + 1
                        IN  /\ \A k \in 1 .. count : ~PastEnd(file, offset(k))
                            /\ PastEnd(file, offset(count + 1))
                            /\ Joined([k \in 1 .. count |-> Page(file, offset(k), limit)])
                                 \in {file, Append(file, NL)}
      BY DEF PagesCover
    <2>1. file \in Texts
      BY DEF EditInv, TextsTyped
    <2>2. limit \in Nat /\ limit >= 1
      BY <2>1, LenProperties DEF Texts
    <2> QED
      BY <2>1, <2>2, PagesFacts
  <1> QED
    BY <1>1, EditInvHolds, PTL
=============================================================================
