----------------------------- MODULE MCGitBackup -----------------------------
(* Model values for GitBackup: an old host and its replacement.            *)
EXTENDS GitBackup

CONSTANTS old, new
=============================================================================
