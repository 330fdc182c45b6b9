--------------------------- MODULE MCProposalStore ---------------------------
(* Model values for ProposalStore; the sections are interchangeable.       *)
EXTENDS ProposalStore, TLC

CONSTANTS t1, t2, boot, s1, s2

Symmetry == Permutations({t1, t2}) \cup Permutations({s1, s2})
=============================================================================
