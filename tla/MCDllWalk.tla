----------------------------- MODULE MCDllWalk ------------------------------
(***************************************************************************)
(* DllWalk on two processes with up to MaxModules modules.  In a process   *)
(* at most one thing is out of the ordinary: one of its modules, its PEB,  *)
(* its loader data, its protection, or the switch to it; or it is on its   *)
(* way out, with and without something behind the loader data.             *)
(***************************************************************************)
EXTENDS DllWalk

CONSTANT MaxModules  \* bound: the modules of a process

Plain == [link |-> TRUE, size |-> TRUE, data |-> Column]

PlainLists == {[k \in 1..n |-> Plain] : n \in 0..MaxModules}

(* The page of an entry is missing; or it lies across two, its link and    *)
(* base on the first, and one of them is.                                  *)
Odd == {[link |-> FALSE, size |-> FALSE, data |-> {}],
        [link |-> FALSE, size |-> TRUE,  data |-> Column \ {"ImageBase"}],
        [link |-> TRUE,  size |-> TRUE,  data |-> {"ImageBase"}],
        [link |-> TRUE,  size |-> FALSE, data |-> {"ImageBase"}]}

OddLists == UNION {{[ms EXCEPT ![k] = odd] : k \in DOMAIN ms, odd \in Odd} : ms \in PlainLists}

Ordinary(ms) ==
  [peb |-> 1, level |-> FALSE, switches |-> TRUE, ldr |-> 1, head |-> TRUE,
   shutdown |-> FALSE, behind |-> TRUE, modules |-> ms]

MCProcess ==
  {Ordinary(ms) : ms \in OddLists} \cup
  UNION {LET q == Ordinary(ms) IN
         {q, [q EXCEPT !.peb = 0], [q EXCEPT !.peb = Fault],
          [q EXCEPT !.ldr = 0], [q EXCEPT !.ldr = Fault],
          [q EXCEPT !.level = TRUE], [q EXCEPT !.level = Fault],
          [q EXCEPT !.switches = FALSE], [q EXCEPT !.head = FALSE],
          [q EXCEPT !.shutdown = TRUE], [q EXCEPT !.shutdown = TRUE, !.behind = FALSE]} :
         ms \in PlainLists}

MCTargets == [1..2 -> MCProcess]
=============================================================================
