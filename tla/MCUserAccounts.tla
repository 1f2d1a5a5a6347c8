--------------------------- MODULE MCUserAccounts ---------------------------
(* An instance of UserAccounts for TLC: two new names and a mailbox that can *)
(* be spelled in two ways, next to those of the seeded account.              *)
EXTENDS UserAccounts, TLC

CONSTANTS ann, bob

MCNormalize == [s \in Spellings |-> IF s = "Ann@x" THEN "ann@x" ELSE s]
Interchangeable == Permutations(Requests) \cup Permutations({ann, bob})
=============================================================================
