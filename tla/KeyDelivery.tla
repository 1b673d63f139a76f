---------------------------- MODULE KeyDelivery ----------------------------
(***************************************************************************)
(* What the two applications of one association are promised, whether one  *)
(* gateway serves them or a network lies between them: each key has a copy *)
(* for the master and a copy for the slave, each copy is handed out at     *)
(* most once and is final once handed out or discarded, and the master is  *)
(* never offered a key whose slave copy is not in place (or was, and has   *)
(* been used or discarded since).                                          *)
(***************************************************************************)
CONSTANT Key

VARIABLES
    master,     \* master[k]: the copy held for the master application
    slave       \* slave[k]: the copy held for the slave application

MasterState == {"none", "stored", "offered", "given", "dead"}
SlaveState  == {"none", "offered", "given", "dead"}

TypeOK ==
    /\ master \in [Key -> MasterState]
    /\ slave \in [Key -> SlaveState]

Init ==
    /\ master = [k \in Key |-> "none"]
    /\ slave = [k \in Key |-> "none"]

(* The copies of the keys B move from one of the states "from" to "to".    *)
Move(copy, B, from, to) ==
    /\ B # {}
    /\ \A k \in B : copy[k] \in from
    /\ copy' = [k \in Key |-> IF k \in B THEN to ELSE copy[k]]

Store(k)    == Move(master, {k}, {"none"}, "stored") /\ UNCHANGED slave
Arrive(k)   == master[k] # "none" /\ Move(slave, {k}, {"none"}, "offered") /\ UNCHANGED master
Offer(k)    == slave[k] # "none" /\ Move(master, {k}, {"stored"}, "offered") /\ UNCHANGED slave

(* Where both applications are served by one gateway, both copies appear   *)
(* at once.                                                                *)
Provision(k) ==
    /\ Move(master, {k}, {"none"}, "offered")
    /\ Move(slave, {k}, {"none"}, "offered")

GiveMaster(B) == Move(master, B, {"offered"}, "given") /\ UNCHANGED slave
GiveSlave(B)  == Move(slave, B, {"offered"}, "given") /\ UNCHANGED master

(* Copies are discarded, of either side or of both.  A slave copy may be   *)
(* discarded before it ever arrives, once the key exists.                  *)
Discard ==
    /\ \/ UNCHANGED master
       \/ /\ master' \in [Key -> MasterState]
          /\ \A k \in Key : master'[k] # master[k] =>
                 master[k] \in {"stored", "offered"} /\ master'[k] = "dead"
    /\ \/ UNCHANGED slave
       \/ /\ slave' \in [Key -> SlaveState]
          /\ \A k \in Key : slave'[k] # slave[k] =>
                 slave[k] \in {"none", "offered"} /\ slave'[k] = "dead" /\ master[k] # "none"

Next ==
    \/ Discard
    \/ \E k \in Key : Store(k) \/ Arrive(k) \/ Offer(k) \/ Provision(k)
    \/ \E B \in SUBSET Key : GiveMaster(B) \/ GiveSlave(B)

Spec == Init /\ [][Next]_<<master, slave>>
=============================================================================
