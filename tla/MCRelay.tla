------------------------------ MODULE MCRelay ------------------------------
(***************************************************************************)
(* Small relay networks for TLC.  The nodes between the source and the     *)
(* target are parallel one-hop relays: none gives the direct link, one     *)
(* the chain, two the diamond of the multipath tests.                      *)
(***************************************************************************)
EXTENDS RelayNetwork, TLC

Middle == Node \ {Source, Target}

ParallelRoute ==
    [n \in Node |-> IF n = Source THEN (IF Middle = {} THEN {Target} ELSE Middle)
                    ELSE IF n = Target THEN {} ELSE {Target}]

RoomForAll == [n \in Node |-> Cardinality(Key)]
FullTarget == [n \in Node |-> IF n = Target THEN 1 ELSE Cardinality(Key)]

Relays == Permutations(Middle)

Everywhere == Node \X Key
AtSource == {Source} \X Key
OneKeyAtSource == {<<Source, CHOOSE k \in Key : TRUE>>}
Nowhere == {}
=============================================================================
