----------------------------- MODULE MCCheckRec -----------------------------
(* Instances of CheckRec for TLC: the hashes are those of MCUpdater.        *)
EXTENDS CheckRec, MCUpdater
=============================================================================
