---------------------------- MODULE BuiltinTools ----------------------------
(***************************************************************************)
(* The built-in tools that change things (internal/builtin): edit_file and *)
(* write_file on one file, and bash.  One call at a time, as Turn makes    *)
(* them; beside it the processes that a shell command started, which may   *)
(* outlive it and write the file as well, and the host's kill.             *)
(*                                                                         *)
(* A step is what lies between two effects on the file or on a process.    *)
(* Left out: paths and permissions, exit codes, the text bash returns, and *)
(* read_file and list_dir, which change nothing (for what read_file        *)
(* returns, see TextFile).                                                 *)
(***************************************************************************)
EXTENDS TextFile, FiniteSets

CONSTANTS
    Absent,    \* there is no file
    Contents,  \* what the file may hold at first, or be overwritten with
    Snippets,  \* what an edit may look for, or put there
    Others,    \* what another process may write to the file
    MaxText    \* bound: no edit makes the file longer than this

ASSUME BuiltinAssumption ==
    /\ Contents \cup Snippets \cup Others \subseteq Texts
    /\ Absent \notin Texts

VARIABLES
    file,      \* the text of the file, or Absent
    pc,        \* where the call is; "idle": there is none
    asked,     \* the arguments of edit_file
    base,      \* the file when the call began
    text,      \* what is to be written
    touched,   \* another process wrote the file during the call
    answer,    \* what the last call returned
    shell,     \* the process bash of a call
    children,  \* processes it left: "holding" its output, or "detached"
    expired    \* the deadline of bash has passed

fileVars == <<asked, base, text, touched>>
shellVars == <<shell, children, expired>>
vars == <<file, pc, fileVars, answer, shellVars>>

NoEdit == [old |-> << >>, new |-> << >>, all |-> FALSE]

Init ==
    /\ file \in Contents \cup {Absent}
    /\ pc = "idle" /\ answer = "none"
    /\ asked = NoEdit /\ base = Absent /\ text = << >> /\ touched = FALSE
    /\ shell = "none" /\ children = {} /\ expired = FALSE

\* The call returns.
Return(how) ==
    /\ pc' = "idle"
    /\ answer' = how
    /\ asked' = NoEdit /\ base' = Absent /\ text' = << >> /\ touched' = FALSE

-----------------------------------------------------------------------------
(* edit_file and write_file.                                               *)

Editable(old, new, all) == file # Absent /\ ~Refused(file, old, new, all)

\* The file is missing, or ApplyEdit finds something wrong.
RefuseEdit(old, new, all) ==
    /\ pc = "idle"
    /\ ~Editable(old, new, all)
    /\ answer' = "error"
    /\ UNCHANGED <<file, pc, fileVars, shellVars>>

EditFile(old, new, all) ==
    /\ pc = "idle"
    /\ Editable(old, new, all)
    /\ Len(ApplyEdit(file, old, new, all)) <= MaxText
    /\ asked' = [old |-> old, new |-> new, all |-> all]
    /\ base' = file
    /\ text' = ApplyEdit(file, old, new, all)
    /\ pc' = "open"
    /\ UNCHANGED <<file, touched, answer, shellVars>>

WriteFile(content) ==
    /\ pc = "idle"
    /\ base' = file
    /\ text' = content
    /\ pc' = "open"
    /\ UNCHANGED <<file, asked, touched, answer, shellVars>>

\* A slip (see AgentTurn): the file is opened as it is.
OpenAsIs ==
    /\ pc = "open"
    /\ \/ file' = (IF file = Absent THEN << >> ELSE file) /\ pc' = "write"
          /\ UNCHANGED <<fileVars, answer>>
       \/ Return("error") /\ UNCHANGED file
    /\ UNCHANGED shellVars

\* os.WriteFile truncates the file, or makes it.
Open ==
    /\ pc = "open"
    /\ \/ file' = << >> /\ pc' = "write" /\ UNCHANGED <<fileVars, answer>>
       \/ Return("error") /\ UNCHANGED file
    /\ UNCHANGED shellVars

\* The file when the first n characters of the text are written over it.
Over(n) ==
    SubSeq(text, 1, n) \o
        (IF file = Absent \/ Len(file) < n THEN << >> ELSE SubSeq(file, n + 1, Len(file)))

\* All is written, or the write stops with an error (a full disk).
Write ==
    /\ pc = "write"
    /\ \/ file' = Over(Len(text)) /\ Return("ok")
       \/ \E n \in 0 .. Len(text) : file' = Over(n) /\ Return("error")
    /\ UNCHANGED shellVars

-----------------------------------------------------------------------------
(* bash.                                                                   *)

StartShell ==
    /\ pc = "idle"
    /\ pc' = "bash"
    /\ shell' = "running"
    /\ UNCHANGED <<file, fileVars, answer, children, expired>>

\* The command starts something in the background, and gives it its output
\* or redirects that.
Spawn(kind) ==
    /\ shell = "running"
    /\ children' = children \cup {kind}
    /\ UNCHANGED <<file, pc, fileVars, answer, shell, expired>>

ShellExits ==
    /\ shell = "running"
    /\ shell' = "exited"
    /\ UNCHANGED <<file, pc, fileVars, answer, children, expired>>

Expire ==
    /\ pc = "bash"
    /\ ~expired
    /\ expired' = TRUE
    /\ UNCHANGED <<file, pc, fileVars, answer, shell, children>>

\* A slip: the deadline is noticed when the command has ended.
KillShellLate ==
    /\ expired /\ shell = "exited"
    /\ UNCHANGED vars

\* CommandContext kills bash, and none of what it started.
KillShell ==
    /\ expired
    /\ shell = "running"
    /\ shell' = "exited"
    /\ UNCHANGED <<file, pc, fileVars, answer, children, expired>>

\* A slip: the call returns at the deadline, and bash goes on.
AnswerBashEarly ==
    /\ pc = "bash"
    /\ expired
    /\ Return("timeout")
    /\ UNCHANGED <<file, shellVars>>

\* CombinedOutput waits for the process and then for the end of its output,
\* which is open as long as anyone holds it.
AnswerBash ==
    /\ pc = "bash"
    /\ shell = "exited"
    /\ "holding" \notin children
    /\ \E how \in {"ok", "error"} : Return(IF expired THEN "timeout" ELSE how)
    /\ shell' = "none" /\ expired' = FALSE
    /\ UNCHANGED <<file, children>>

-----------------------------------------------------------------------------
(* Others.                                                                 *)

ChildEnds(kind) ==
    /\ kind \in children
    /\ children' = children \ {kind}
    /\ UNCHANGED <<file, pc, fileVars, answer, shell, expired>>

\* A command, or what it left behind, writes the file.
WriteFromOutside ==
    /\ shell = "running" \/ children # {}
    /\ file' \in Others
    /\ touched' = (pc \in {"open", "write"})
    /\ UNCHANGED <<pc, asked, base, text, answer, shellVars>>

\* SIGKILL of the process group: a write may be done in part.
Kill ==
    /\ pc # "idle"
    /\ \/ UNCHANGED file
       \/ pc = "write" /\ \E n \in 0 .. Len(text) : file' = Over(n)
    /\ Return("none")
    /\ shell' = "none" /\ children' = {} /\ expired' = FALSE

-----------------------------------------------------------------------------
Calling ==
    \/ \E old, new \in Snippets, all \in BOOLEAN :
          RefuseEdit(old, new, all) \/ EditFile(old, new, all)
    \/ \E content \in Contents : WriteFile(content)
    \/ StartShell

Working == Open \/ Write \/ AnswerBash

Deadline == Expire \/ KillShell

Next ==
    \/ Calling \/ Working \/ Deadline
    \/ ShellExits \/ WriteFromOutside \/ Kill
    \/ \E kind \in {"holding", "detached"} : Spawn(kind) \/ ChildEnds(kind)

Spec == Init /\ [][Next]_vars

\* anyrun goes on with a call where it can, and the clock with the deadline;
\* commands and what they leave behind may run for ever.
FairSpec == Spec /\ WF_vars(Working) /\ WF_vars(Deadline)

-----------------------------------------------------------------------------
(* What is checked.                                                        *)

\* Where the tool may be, and that nothing is left of a call that returned.
TypeOK ==
    /\ pc \in {"idle", "open", "write", "bash"}
    /\ answer \in {"none", "ok", "error", "timeout"}
    /\ shell \in {"none", "running", "exited"}
    /\ children \subseteq {"holding", "detached"}
    /\ touched \in BOOLEAN /\ expired \in BOOLEAN
    /\ (pc = "bash") <=> (shell # "none")
    /\ pc # "bash" => ~expired /\ "holding" \notin children
    /\ pc = "idle" => asked = NoEdit /\ text = << >> /\ ~touched

\* All places where t stands in s, those that overlap included.
Occurrences(s, t) == { i \in 1 .. Len(s) : OccursAt(s, t, i) }

Overlap(i, j, t) == i < j + Len(t) /\ j < i + Len(t)

\* s with the places in at changed one by one, from the last to the first.
OneByOne(s, old, new, at) ==
    LET done[S \in SUBSET at] ==
            IF S = {} THEN s
            ELSE LET i == CHOOSE k \in S : \A m \in S : k <= m
                     rest == done[S \ {i}]
                 IN  SubSeq(rest, 1, i - 1) \o new
                        \o SubSeq(rest, i + Len(old), Len(rest))
    IN  done[at]

\* An edit replaces the snippet in places that do not overlap and leaves no
\* place that it could have replaced as well; without `all' it is one place.
\* The rest of the text is as it was (ApplyEdit: "it refuses a snippet that is
\* missing or ambiguous rather than picking an occurrence for the model").
EditReplaces ==
    asked # NoEdit =>
        \E at \in SUBSET Occurrences(base, asked.old) :
            /\ at # {}
            /\ \A i, j \in at : i # j => ~Overlap(i, j, asked.old)
            /\ \A i \in Occurrences(base, asked.old) :
                 \E j \in at : Overlap(i, j, asked.old)
            /\ asked.all \/ Cardinality(at) = 1
            /\ text = OneByOne(base, asked.old, asked.new, at)

Beginnings(s) == { SubSeq(s, 1, n) : n \in 0 .. Len(s) }

\* A file that only one call writes holds what it was to hold when the call
\* says ok, and never a mixture: it is the old one, or a beginning of the new.
NoMixture ==
    [][(pc \in {"open", "write"} /\ pc' = "idle" /\ ~touched) =>
          IF answer' = "ok" THEN file' = text
          ELSE file' \in {base} \cup Beginnings(text)]_vars

\* The pages of a file, read one after the other until read_file says that the
\* offset is past the end, are the file; when the last one is full there is one
\* more, empty, which no reader can tell from an empty line.
PagesCover ==
    file # Absent =>
        \A limit \in 1 .. Len(file) + 1 :
            LET count == Len(Lines(file)) \div limit + 1
                offset(k) == (k - 1) * limit + 1
            IN  /\ \A k \in 1 .. count : ~PastEnd(file, offset(k))
                /\ PastEnd(file, offset(count + 1))
                /\ Joined([k \in 1 .. count |-> Page(file, offset(k), limit)])
                     \in {file, Append(file, NL)}

\* A call comes to an end, unless a process that a command left behind holds
\* its output: that is what bash's timeout is good for.
CallEnds == (pc # "idle") ~> (pc = "idle" \/ "holding" \in children)

-----------------------------------------------------------------------------
(* What docs say, and a run refutes.                                      *)

\* bash returns, at its deadline at the latest ("timeout", bash).
BashReturns == (pc = "bash") ~> (pc # "bash")
=============================================================================
