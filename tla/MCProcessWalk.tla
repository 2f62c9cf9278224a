--------------------------- MODULE MCProcessWalk ----------------------------
(***************************************************************************)
(* ProcessWalk on every list of up to MaxProcesses processes, each with a  *)
(* PID or the links unreadable, with a zero, another and an unreadable word *)
(* in front of the head, and on targets with no symbol or an unreadable     *)
(* head.                                                                    *)
(***************************************************************************)
EXTENDS ProcessWalk

CONSTANT MaxProcesses  \* bound: the longest list

MCEProcess == {[pid |-> 4, links |-> TRUE], [pid |-> 4, links |-> FALSE],
               [pid |-> Fault, links |-> TRUE]}

MCLists == UNION {[1..n -> MCEProcess] : n \in 0..MaxProcesses}

MCTargets ==
  [resolved : {TRUE}, head : {TRUE}, procs : MCLists, before : {0, 7, Fault}]
  \cup {[resolved |-> r, head |-> FALSE, before |-> 0,
         procs |-> <<[pid |-> 4, links |-> TRUE]>>] : r \in BOOLEAN}
=============================================================================
