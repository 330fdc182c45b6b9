---------------------------- MODULE MCDocSession ----------------------------
(* Instances of DocSession for TLC: the cfg files give Sockets the model     *)
(* values k1 and k2, which nothing in the specification tells apart.         *)
EXTENDS DocSession, TLC

CONSTANTS k1, k2

Symmetry == Permutations(Sockets)
=============================================================================
