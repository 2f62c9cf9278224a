-------------------------- MODULE ProcessSnapshot ---------------------------
(***************************************************************************)
(* What parsepslist promises: the cached list is emptied and then filled,  *)
(* in one go, with the snapshot of the target as it is at that moment.     *)
(* Between two loads the target may change; the list does not follow.      *)
(***************************************************************************)
EXTENDS ActiveProcesses

CONSTANT Targets  \* the states the target can be in

VARIABLES target, list, loading

vars == <<target, list, loading>>

Init == target \in Targets /\ list = <<>> /\ loading = FALSE

(* The old list goes first, whatever comes of the walk. *)
Clear == ~loading /\ list' = <<>> /\ loading' = target.resolved /\ UNCHANGED target

Fill == loading /\ list' = Snapshot(target) /\ loading' = FALSE /\ UNCHANGED target

Change == ~loading /\ target' \in Targets /\ UNCHANGED <<list, loading>>

Next == Clear \/ Fill \/ Change

Spec == Init /\ [][Next]_vars
=============================================================================
