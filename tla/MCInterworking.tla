---------------------------- MODULE MCInterworking ----------------------------
(***************************************************************************)
(* A node between the peer "up" and two next hops, with an SAE of its own: *)
(* two associations of the same remote master, one of which ends here.     *)
(***************************************************************************)
EXTENDS Interworking

CONSTANTS up, d1, d2

Pairs == {[master |-> "remote", slave |-> "here"], [master |-> "remote", slave |-> "beyond"],
          [master |-> "source", slave |-> "beyond"]}
LocalHere == {"here", "source"}
RouteBeyond == [x \in {"beyond"} |-> <<d1, d2>>]
OnlyUp == {up}
Alike == Permutations(Key \ MaySettle) \cup Permutations(Content)
AllFromUp == {up} \X {[master |-> "remote", slave |-> "beyond"]}
=============================================================================
