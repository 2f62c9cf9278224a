-------------------------- MODULE ActiveProcesses ---------------------------
(***************************************************************************)
(* The kernel's list of active processes, as parsepslist can see it, and   *)
(* what the extension can hope to take from it.                            *)
(*                                                                         *)
(* A target is a record                                                    *)
(*   resolved   the symbol nt!PsActiveProcessHead resolves                 *)
(*   head       the list head itself can be read                           *)
(*   procs      the EPROCESS blocks in list order                          *)
(*   before     the word that stands in front of the list head, where      *)
(*              UniqueProcessId would be if the head were in an EPROCESS   *)
(* and an EPROCESS is a record of its PID and of whether its               *)
(* ActiveProcessLinks can be read.                                         *)
(***************************************************************************)
EXTENDS DbgEng, Integers, Sequences

EProcess == [pid : (Nat \ {0}) \cup {Fault}, links : BOOLEAN]

Target == [resolved : BOOLEAN, head : BOOLEAN, procs : Seq(EProcess),
           before : Nat \cup {Fault}]

(* EPROCESS blocks are disjoint: the i-th of the list is at Base(i).  What *)
(* precedes PsActiveProcessHead takes the place after the last of them.    *)
Base(i) == 4096 * i

(* The walk gets past an entry when it can read its PID and its links. *)
Walkable(p) == p.pid # Fault /\ p.links

(* How many entries the walk gets past. *)
Reach(procs) ==
  CHOOSE n \in 0..Len(procs) :
    /\ \A i \in 1..n : Walkable(procs[i])
    /\ n < Len(procs) => ~Walkable(procs[n + 1])

(* The best parsepslist can do: the processes in list order, up to the     *)
(* first one it cannot get past.                                           *)
Snapshot(t) ==
  IF t.resolved /\ t.head
  THEN [i \in 1..Reach(t.procs) |-> [Eprocess |-> Base(i), PID |-> t.procs[i].pid]]
  ELSE <<>>
=============================================================================
