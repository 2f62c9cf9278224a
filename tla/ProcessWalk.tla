---------------------------- MODULE ProcessWalk -----------------------------
(***************************************************************************)
(* parsepslist (modules/pslist.h), one iteration of its loop per step: the *)
(* walk along ActiveProcessLinks that fills the global processList.        *)
(*                                                                         *)
(* The loop holds EPROCESS addresses in `current` and compares them with   *)
(* the address of the list head, which is the address of a LIST_ENTRY.     *)
(* The two never coincide (HeadNeverMet below): the walk runs on into the  *)
(* memory in front of the head, takes it for an EPROCESS, and stops if the *)
(* word it reads there as a PID is zero.  If it is not, the walk enters    *)
(* that memory into the list as a process and goes round again.            *)
(***************************************************************************)
EXTENDS ActiveProcesses

CONSTANTS
  Targets,      \* the states the target can be in when a command starts
  LinksOffset,  \* EProcessFieldOffset("ActiveProcessLinks"), from the symbols
  MaxWalks,     \* bound: how many times parsepslist is called
  MaxRows       \* bound: the rows of a walk that does not end

(* The build the extension is made for: the offset of its symbols is 0x448. *)
ASSUME WalkAssumption ==
  /\ Targets \subseteq Target /\ LinksOffset = 1096
  /\ MaxWalks \in Nat /\ MaxRows \in Nat

(* The offset subtracted from NextProcess, 0x448. *)
HardLinksOffset == 1096

VARIABLES
  target,
  processList,  \* the global vector
  current,      \* the loop variable: an address
  walks,        \* calls of parsepslist so far
  pc            \* "idle", "walk": in the loop, "done" / "failed": it returned

vars == <<target, processList, current, walks, pc>>

N == Len(target.procs)

LinkOf(i) == Base(i) + LinksOffset

process_head == LinkOf(N + 1)

(* The contents of the memory at an address taken for an EPROCESS. *)
EntryAt(a) ==
  IF \E i \in 1..(N + 1) : a = Base(i)
  THEN LET i == CHOOSE i \in 1..(N + 1) : a = Base(i)
       IN IF i = N + 1
          THEN [pid |-> target.before, flink |-> LinkOf(1)]
          ELSE [pid |-> target.procs[i].pid,
                flink |-> IF target.procs[i].links THEN LinkOf(i + 1) ELSE Fault]
  ELSE [pid |-> Fault, flink |-> Fault]

(* InitProcessInformation and the reads of one iteration.  A fresh record  *)
(* of zeros receives them, so a failed read leaves a zero.  `allocated`    *)
(* tells whether VirtualAlloc had a details block to give; if it had none, *)
(* pDetails is NULL.                                                       *)
ProcessInformation(allocated) ==
  [Eprocess    |-> current,
   PID         |-> ReadVirtual(EntryAt(current).pid, 0),
   NextProcess |-> ReadVirtual(EntryAt(current).flink, 0),
   pDetails    |-> allocated]

(* Mutants: the loop relies on meeting the head, or does not look at what  *)
(* it read as the next link.                                               *)
StopsAtHeadOnly(info) ==
  info.NextProcess - HardLinksOffset = process_head \/ info.NextProcess = 0

StopsAtZeroPid(info) == info.PID = 0

(* Mutant: a process without a details block ends the walk. *)
StopsWithoutBlock(info) == info.NextProcess = 0 \/ info.PID = 0 \/ ~info.pDetails

(* The condition of the loop and the one that breaks out of it. *)
Stops(info) ==
  \/ current = process_head
  \/ info.NextProcess - HardLinksOffset = process_head
  \/ info.NextProcess = 0
  \/ info.PID = 0

-----------------------------------------------------------------------------

Init ==
  /\ target \in Targets
  /\ processList = <<>> /\ current = 0 /\ walks = 0
  /\ pc = "idle"

(* Entry of parsepslist, down to the loop. *)
Begin ==
  /\ pc # "walk" /\ walks < MaxWalks
  /\ walks' = walks + 1
  /\ processList' = <<>>
  /\ IF target.resolved
     THEN /\ current' = (IF target.head THEN LinkOf(1) ELSE 0) - LinksOffset
          /\ pc' = "walk"
     ELSE pc' = "failed" /\ UNCHANGED current
  /\ UNCHANGED target

(* Mutant: an entry that cannot be read is tried again. *)
VisitRetrying ==
  /\ pc = "walk" /\ Len(processList) < MaxRows
  /\ \E allocated \in BOOLEAN :
       LET info == ProcessInformation(allocated) IN
       IF info.PID = 0
       THEN UNCHANGED vars
       ELSE /\ current' = info.NextProcess - HardLinksOffset
            /\ processList' = Append(processList, info)
            /\ UNCHANGED <<target, walks, pc>>

(* One iteration.  The entry is kept whether there was a block for it or   *)
(* not.                                                                    *)
Visit ==
  /\ pc = "walk" /\ Len(processList) < MaxRows
  /\ \E allocated \in BOOLEAN :
       LET info == ProcessInformation(allocated) IN
       /\ current' = info.NextProcess - HardLinksOffset
       /\ \/ /\ Stops(info)
             /\ pc' = "done" /\ UNCHANGED processList
          \/ /\ ~Stops(info)
             /\ processList' = Append(processList, info)
             /\ UNCHANGED pc
  /\ UNCHANGED <<target, walks>>

(* The target only runs between two commands. *)
TargetRuns == pc # "walk" /\ target' \in Targets
              /\ UNCHANGED <<processList, current, walks, pc>>

(* Where the model leaves a walk that does not end. *)
OutOfRows == pc = "walk" /\ Len(processList) = MaxRows /\ UNCHANGED vars

Next == Begin \/ Visit \/ TargetRuns \/ OutOfRows

Spec == Init /\ [][Next]_vars

(* The engine runs a command to its end; nothing makes it start one. *)
FairSpec == Spec /\ WF_vars(Visit)

-----------------------------------------------------------------------------

Row == [Eprocess : Int, PID : Nat \ {0}, NextProcess : Nat,
        pDetails : BOOLEAN]

TypeOK ==
  /\ target \in Targets
  /\ processList \in Seq(Row)
  /\ current \in Int /\ walks \in 0..MaxWalks
  /\ pc \in {"idle", "walk", "done", "failed"}

(* The loop's own condition, current != process_head, never becomes false: *)
(* only the PID and NextProcess tests end the walk (pslist.h:153, 170).    *)
HeadNeverMet == current # process_head

(* While it walks, the vector follows the active list in its order: no     *)
(* process is skipped or taken twice, and nothing but a process gets in -  *)
(* unless a word that is not zero stands in front of the head: then the    *)
(* memory there is listed behind the last process, as one more with that   *)
(* word for its PID, and the list over again, row by row                   *)
(* (pslist.h:153-176).                                                     *)
ListIsPrefix ==
  pc = "walk" =>
    \A i \in 1..Len(processList) :
      LET row == processList[i] IN
      \/ i <= N /\ row.Eprocess = Base(i) /\ row.PID = target.procs[i].pid
      \/ i = N + 1 /\ row.Eprocess = Base(i) /\ row.PID = target.before
      \/ i > N + 1 /\ row.Eprocess = processList[i - (N + 1)].Eprocess
                   /\ row.PID = processList[i - (N + 1)].PID

(* The rows as the abstract specification sees them. *)
Rows == [i \in 1..Len(processList) |->
           [Eprocess |-> processList[i].Eprocess, PID |-> processList[i].PID]]

(* A walk that returns has loaded all the processes it could reach, no     *)
(* fewer and no more (pslist.h:153-184).                                   *)
WalkYieldsSnapshot ==
  [][pc = "walk" /\ pc' = "done" => Rows' = Snapshot(target)]_vars

(* The whole walk is the one atomic load of ProcessSnapshot: a caller of   *)
(* parsepslist sees the list of before, an empty list or the snapshot.     *)
Abstract ==
  INSTANCE ProcessSnapshot WITH
    list    <- IF pc = "walk" THEN <<>> ELSE Rows,
    loading <- pc = "walk"

ImplementsSnapshot == Abstract!Spec

(* Nothing the walk meets reads as zero. *)
NoZeroAhead ==
  /\ target.head /\ target.before \notin {0, Fault}
  /\ \A i \in 1..N : Walkable(target.procs[i])

(* A walk that has started returns, if anything on its way cannot be read  *)
(* or the word in front of the head is zero: parsepslist has no limit on   *)
(* its loop, and nothing else ends it (pslist.h:153, 170).                 *)
WalkReturns == pc = "walk" /\ ~NoZeroAhead ~> pc # "walk"

(* If there is no zero ahead it does not return, however long it goes on:  *)
(* the loop's own condition does not see that it came round                *)
(* (pslist.h:153, 170).                                                    *)
ReturnsOnlyAtZero == [][pc = "walk" /\ pc' # "walk" => ~NoZeroAhead]_vars
=============================================================================
