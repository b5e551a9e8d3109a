--------------------------- MODULE MCDocumentJob ----------------------------
(* Instances of DocumentJob for TLC. *)
EXTENDS DocumentJob, TLC

(* The server marks some limits with a sign. *)
SignedLimit == -3

Symmetry == Permutations(Workers) \cup Permutations(Documents)

=============================================================================
