----------------------------- MODULE MCAppSocket -----------------------------
(* Instances of AppSocket for TLC: doc1 is the document the pages open.     *)
EXTENDS AppSocket

CONSTANT doc1
==============================================================================
