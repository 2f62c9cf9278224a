---------------------------- MODULE MCThreadWalk ----------------------------
(***************************************************************************)
(* ThreadWalk on two processes with up to MaxThreads threads each.  In     *)
(* each thread at most one thing is out of the ordinary: it has exited,    *)
(* its start address is zero, its link or some of its fields cannot be     *)
(* read.  In each process the head, the count or both cannot be read, or   *)
(* the count comes with a neighbour that is not zero.                      *)
(***************************************************************************)
EXTENDS ThreadWalk

CONSTANT MaxThreads  \* bound: the threads of a process

Plain == [active |-> TRUE, started |-> TRUE, fields |-> Column, link |-> TRUE]

(* An ETHREAD may lie across two pages, its link on the second. *)
MCThread == {Plain, [Plain EXCEPT !.active = FALSE], [Plain EXCEPT !.started = FALSE],
  [Plain EXCEPT !.fields = {}], [Plain EXCEPT !.fields = {"StartAddress", "ThreadId"}],
  [Plain EXCEPT !.link = FALSE], [Plain EXCEPT !.link = FALSE, !.fields = {"Times"}]}

MCThreads == UNION {[1..n -> MCThread] : n \in 0..MaxThreads}

MCProcess ==
  {[head |-> h, count |-> c, wide |-> w, threads |-> ts] :
     <<h, c, w>> \in {<<TRUE, TRUE, FALSE>>, <<FALSE, TRUE, FALSE>>, <<TRUE, FALSE, FALSE>>,
                      <<FALSE, FALSE, FALSE>>, <<TRUE, TRUE, TRUE>>},
     ts \in MCThreads}

MCTargets == [1..2 -> MCProcess]
=============================================================================
