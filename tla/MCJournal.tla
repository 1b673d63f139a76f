----------------------------- MODULE MCJournal -----------------------------
(* Two processes that compete for one directory, for TLC.                  *)
EXTENDS Journal, TLC

Symmetry == Permutations(Process)
=============================================================================
