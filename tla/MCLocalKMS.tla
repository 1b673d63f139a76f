----------------------------- MODULE MCLocalKMS -----------------------------
(***************************************************************************)
(* A small inventory and two concurrent requests for TLC.  Keys and        *)
(* requests are interchangeable.                                           *)
(***************************************************************************)
EXTENDS LocalKMS, TLC

Symmetry == Permutations(Caller) \cup Permutations(Key)
=============================================================================
