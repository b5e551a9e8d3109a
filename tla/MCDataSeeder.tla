---------------------------- MODULE MCDataSeeder ----------------------------
(* Values of the constants of DataSeeder for TLC. *)
EXTENDS DataSeeder, TLC

CONSTANTS c1, c2, c3, x1, x2, other

(* Two scripts of the default database, the second by a target that is not *)
(* configured, one of each extra database, and an object.                  *)
Mixed == [found |-> TRUE, scripts |-> <<Default, x1, other, x2>>, objects |-> 1]

(* Two scripts of one extra database, and nothing else. *)
ExtraOnly == [found |-> TRUE, scripts |-> <<x1, x1>>, objects |-> 0]

Missing == [found |-> FALSE, scripts |-> <<>>, objects |-> 0]

MCRecipeOf == (c1 :> Mixed) @@ (c2 :> ExtraOnly) @@ (c3 :> Missing)

=============================================================================
