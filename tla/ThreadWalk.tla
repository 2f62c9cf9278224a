----------------------------- MODULE ThreadWalk -----------------------------
(***************************************************************************)
(* The loops of !threads (modules/threads.h): for every process, its       *)
(* thread list, as many entries as ActiveThreads counts.                   *)
(*                                                                         *)
(* The variables the reads go to are declared once, before both loops, and *)
(* a read that fails leaves in them what an earlier entry or an earlier    *)
(* process put there.  A list entry is named <<p, k>>, thread k of process *)
(* p; <<p, 0>> is the list head in the EPROCESS of p.                      *)
(***************************************************************************)
EXTENDS DbgEng, Sequences, FiniteSets

CONSTANT Targets  \* the threads of the cached processes, in every way to consider

Column == {"Times", "StartAddress", "ThreadId"}

(* active   the thread runs; one that has exited may still be in the list  *)
(* started  its StartAddress is not zero                                   *)
(* fields   what of it can be read                                         *)
(* link     its ThreadListEntry can be read                                *)
Thread == [active : BOOLEAN, started : BOOLEAN, fields : SUBSET Column, link : BOOLEAN]

(* head, count   the list head, the field ActiveThreads can be read        *)
(* wide          the four bytes behind ActiveThreads, read with it, are    *)
(*               not zero                                                  *)
Process == [head : BOOLEAN, count : BOOLEAN, wide : BOOLEAN, threads : Seq(Thread)]

ASSUME ThreadAssumption == Targets \subseteq Seq(Process)

VARIABLES
  procs,          \* the cached processes
  p,              \* the process the outer loop is at
  i,              \* the counter of the inner loop
  Flink,          \* the entry to visit next
  ActiveThreads,
  fields,         \* the thread each column was read from
  rows,           \* the lines printed
  pc              \* "process", "thread": the loops, "done"

vars == <<procs, p, i, Flink, ActiveThreads, fields, rows, pc>>

Nowhere == <<0, 0>>  \* no entry: zero, by chance, or an HRESULT taken for an address

(* What the memory around a list head would be as an ETHREAD. *)
NoThread == [active |-> FALSE, started |-> TRUE, fields |-> Column, link |-> TRUE]

ThreadAt(e) == IF e[2] = 0 THEN NoThread ELSE procs[e[1]].threads[e[2]]

(* The entry behind the k-th of process q, or the head. *)
Entry(q, k) == <<q, IF k <= Len(procs[q].threads) THEN k ELSE 0>>

Actives(q) == Cardinality({k \in DOMAIN procs[q].threads : procs[q].threads[k].active})

(* Mutant: the count goes through a signed 32-bit number. *)
SignedCountCell(q) ==
  IF ~procs[q].count THEN Fault
  ELSE Actives(q) - (IF procs[q].wide THEN 2 ^ 20 ELSE 0)

(* Eight bytes are read for a field of four. *)
CountCell(q) ==
  IF ~procs[q].count THEN Fault
  ELSE Actives(q) + (IF procs[q].wide THEN 2 ^ 20 ELSE 0)

(* Mutant: every address but zero passes for an ETHREAD. *)
AnyAddress(e) == e # Nowhere

(* isValidAddress of the ETHREAD around an entry: the low four bits tell a *)
(* thread from the list head, an error code and zero.                      *)
isValidAddress(e) == e[2] # 0

-----------------------------------------------------------------------------

Init ==
  /\ procs \in Targets
  /\ p = 1 /\ i = 0 /\ Flink = Nowhere /\ ActiveThreads = 0
  /\ fields = [f \in Column |-> Nowhere] /\ rows = <<>>
  /\ pc = "process"

(* Mutant: the walk goes on from where it is when it is inside a list. *)
Resumed == IF procs[p].head /\ ~isValidAddress(Flink) THEN Entry(p, 1) ELSE Flink

FirstEntry == IF procs[p].head THEN Entry(p, 1) ELSE Flink

(* The head of the outer loop. *)
Enter ==
  /\ pc = "process" /\ p <= Len(procs)
  /\ Flink' = FirstEntry
  /\ ActiveThreads' = ReadVirtual(CountCell(p), ActiveThreads)
  /\ i' = 0 /\ pc' = "thread"
  /\ UNCHANGED <<procs, p, fields, rows>>

Finish == pc = "process" /\ p > Len(procs) /\ pc' = "done"
          /\ UNCHANGED <<procs, p, i, Flink, ActiveThreads, fields, rows>>

(* Mutant: no way out but the count. *)
OverByCount == i >= ActiveThreads

(* The inner loop ends by its count, or at an address that is no ETHREAD.  *)
Over == i >= ActiveThreads \/ ~isValidAddress(Flink)

Leave ==
  /\ pc = "thread" /\ Over
  /\ p' = p + 1 /\ pc' = "process"
  /\ UNCHANGED <<procs, i, Flink, ActiveThreads, fields, rows>>

(* Mutant: both reads of the link advance. *)
SkippingNext == Entry(Flink[1], Flink[2] + 2)

(* NextEthread receives the HRESULT of a first read of the link and then   *)
(* the link, so a link that cannot be read leads nowhere.                  *)
NextEthread == IF ThreadAt(Flink).link THEN Entry(Flink[1], Flink[2] + 1) ELSE Nowhere

(* Mutant: the link is followed first. *)
FieldsOfNext ==
  [f \in Column |-> IF f \in ThreadAt(NextEthread).fields THEN NextEthread ELSE fields[f]]

FieldsRead == [f \in Column |-> IF f \in ThreadAt(Flink).fields THEN Flink ELSE fields[f]]

(* isValidStartAddress. *)
Started(e) == e # Nowhere /\ ThreadAt(e).started

(* An entry: its fields, a line unless StartAddress is zero, and the link. *)
Visit ==
  /\ pc = "thread" /\ i < ActiveThreads /\ isValidAddress(Flink)
  /\ fields' = FieldsRead
  /\ rows' = IF Started(fields'["StartAddress"])
             THEN Append(rows, [process |-> p, thread |-> Flink, fields |-> fields']) ELSE rows
  /\ Flink' = NextEthread
  /\ i' = i + 1
  /\ UNCHANGED <<procs, p, ActiveThreads, pc>>

Ended == pc = "done" /\ UNCHANGED vars

Next == Enter \/ Finish \/ Leave \/ Visit \/ Ended

Spec == Init /\ [][Next]_vars

(* The engine runs a command to its end. *)
FairSpec == Spec /\ WF_vars(Next)

-----------------------------------------------------------------------------

Entries ==
  {Nowhere} \cup UNION {{<<q, k>> : k \in 0..Len(procs[q].threads)} : q \in DOMAIN procs}

TypeOK ==
  /\ procs \in Targets
  /\ p \in 1..(Len(procs) + 1) /\ i \in Nat /\ ActiveThreads \in Nat
  /\ Flink \in Entries /\ fields \in [Column -> Entries]
  /\ pc \in {"process", "thread", "done"}

(* A thread is listed under a process it does not belong to only when the  *)
(* list head of that process cannot be read: Flink then still points into  *)
(* the list of an earlier one (threads.h:49-56, 74).                       *)
ForeignOnlyBehindUnreadableHead ==
  \A n \in DOMAIN rows :
    rows[n].thread[1] # rows[n].process =>
      rows[n].thread[1] < rows[n].process /\ ~procs[rows[n].process].head

(* Under one process no thread is listed twice and the order is that of    *)
(* the list, also when the count that bounds the loop is far too large     *)
(* (threads.h:76, 84-91).                                                  *)
InListOrder ==
  \A m, n \in DOMAIN rows :
    m < n /\ rows[m].process = rows[n].process =>
      /\ rows[m].thread[1] = rows[n].thread[1]
      /\ rows[m].thread[2] < rows[n].thread[2]

(* A line mixes two threads only if a field of the one it names cannot be  *)
(* read, and then with one that was passed before, or, but for the start   *)
(* address, with none (threads.h:53-56, 93-108).                           *)
LineIsOneThread ==
  \A n \in DOMAIN rows, f \in Column :
    LET e == rows[n].thread  from == rows[n].fields[f] IN
    from # e =>
      /\ f \notin ThreadAt(e).fields
      /\ from = Nowhere => f # "StartAddress"
      /\ from[1] < e[1] \/ (from[1] = e[1] /\ from[2] < e[2])

(* A list of which all can be read; some of its threads may have exited.   *)
Readable(q) ==
  /\ procs[q].head /\ procs[q].count
  /\ \A k \in DOMAIN procs[q].threads :
       procs[q].threads[k].fields = Column /\ procs[q].threads[k].link

Listed(q, k) == \E n \in DOMAIN rows : rows[n].process = q /\ rows[n].thread = <<q, k>>

(* Of a list that can be read as many entries are looked at as threads     *)
(* run, from the front and exited threads included: behind an exited       *)
(* thread a running one is missing at the end, unless what lies behind the *)
(* count makes it larger (threads.h:76, 84-109).                           *)
ShowsAsManyAsRun ==
  pc = "done" =>
    \A q \in DOMAIN procs : Readable(q) =>
      \A k \in DOMAIN procs[q].threads :
        LET t == procs[q].threads[k] IN
        /\ k <= Actives(q) /\ t.started => Listed(q, k)
        /\ Listed(q, k) => t.started /\ (k <= Actives(q) \/ procs[q].wide)

(* The command returns, whatever the count says (threads.h:84).            *)
WalkReturns == <>(pc = "done")
=============================================================================
