----------------------------- MODULE MCIngest ------------------------------
(***************************************************************************)
(* A provider with a few keys and a few requests per gateway for TLC.      *)
(* Keys and tokens are interchangeable.                                    *)
(***************************************************************************)
EXTENDS Ingest, TLC

Symmetry == Permutations(Key) \cup Permutations(Token)
=============================================================================
