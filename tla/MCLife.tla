------------------------------- MODULE MCLife -------------------------------
(* Values of RunLifecycle's constants for model checking. *)
EXTENDS RunLifecycle

CONSTANTS c1, c2

Gives(finish, calls, undecoded, prompt, hit, details) ==
    [finish |-> finish, calls |-> calls, undecoded |-> undecoded,
     prompt |-> prompt, completion |-> 1, hit |-> hit, details |-> details]

\* An answer, one cut off by its length (with most of it cached), calls under
\* their own reason and under another, and a call that does not decode under
\* each of them.
Answers6 ==
    { Gives("stop", {}, FALSE, 0, 0, 0), Gives("length", {}, FALSE, 2, 2, 0),
      Gives("tool_calls", {c1}, FALSE, 0, 0, 0), Gives("", {c1}, FALSE, 2, 0, 1),
      Gives("tool_calls", {}, TRUE, 0, 0, 0), Gives("stop", {}, TRUE, 0, 0, 0) }

OneCall == { {}, {c1} }

\* A history that a run repairs and the next one can cut.
CutOff ==
    { << Said("request"), Reply({}), Said("request"), Reply({c1}) >> }
=============================================================================
