------------------------------- MODULE MCTools -------------------------------
(* Values of ToolSupply's constants for model checking. *)
EXTENDS ToolSupply, TLC

CONSTANTS s1, s2, t1, t2, n11, n12, n22

\* The two servers come to one full name with a tool each (server "a" with tool
\* "b__c" and server "a__b" with tool "c"), and have one of their own each.
OneShared == (s1 :> (t1 :> n11 @@ t2 :> n12)) @@ (s2 :> (t1 :> n12 @@ t2 :> n22))

\* No flag, "", and a list, against patterns that match some of each kind.
Flagged ==
    [allowBash : BOOLEAN,
     tools : { Builtins, {}, {"read_file", "bash"} },
     disallowed : SUBSET {"bash", "edit_file", n11, n12}]
=============================================================================
