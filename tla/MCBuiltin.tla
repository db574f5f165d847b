------------------------------ MODULE MCBuiltin ------------------------------
(* Values of BuiltinTools' constants for model checking. *)
EXTENDS BuiltinTools

CONSTANTS a, b

Upto(n) == UNION { [1 .. m -> {a, b, NL}] : m \in 0 .. n }

\* The functions of an empty domain are the empty sequence.
SomeContents == Upto(3)

SomeSnippets == { << >>, << a >>, << b >>, << NL >>, << a, a >>, << a, b >> }

SomeOthers == { << b, b >> }
=============================================================================
