----------------------------- MODULE AtomicSave -----------------------------
(***************************************************************************)
(* What the owners of a journal, the relay engine and the ingest           *)
(* repository, take for granted about their state: one process at a time   *)
(* acts on it, and only on a state that was kept; a save that was          *)
(* interrupted by anything at all has happened or has not, which nobody    *)
(* acts on before it is settled.  States are numbered in the order they    *)
(* are made, 0 is none.                                                    *)
(***************************************************************************)
EXTENDS Naturals

CONSTANT Process

VARIABLES
    server,    \* the process that acts on the state, with the state it holds; {} if none does
    kept,      \* the state acted on last
    tried      \* the state of a save whose outcome is open, kept if there is none

Init == server = {} /\ kept = 0 /\ tried = 0

(* A save begins, of the first state or of the one after the last. *)
Try == server' = {} /\ tried' = kept + 1 /\ UNCHANGED kept

(* The save succeeds, or a process takes over and finds it done or undone: *)
(* from now on it is.                                                      *)
Serve(p) ==
    /\ server = {}
    /\ kept' \in {kept, tried} \ {0}
    /\ tried' = kept'
    /\ server' = {<<p, kept'>>}

(* The process is gone or refuses service, or what it tried is lost. *)
Leave == server' = {} /\ tried' \in {kept, tried} /\ UNCHANGED kept

Next == Try \/ Leave \/ \E p \in Process : Serve(p)

Spec == Init /\ [][Next]_<<server, kept, tried>>
=============================================================================
