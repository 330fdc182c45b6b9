----------------------------- MODULE MCEditorTab -----------------------------
(* Model values for EditorTab; the tabs are interchangeable.               *)
EXTENDS EditorTab

CONSTANTS a, b

Symmetry == Permutations({a, b})
=============================================================================
