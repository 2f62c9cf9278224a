-------------------------- MODULE ThreadWalkProofs --------------------------
(***************************************************************************)
(* ThreadWalk proved for any number of processes with thread lists of any  *)
(* length, whatever of them can be read.                                   *)
(***************************************************************************)
EXTENDS ThreadWalk, FiniteSetTheorems, TLAPS

(* The entry d lies before e: in the list of an earlier process, or earlier *)
(* in the same list.  Nowhere lies before every entry that is a thread.     *)
Before(d, e) == d[1] < e[1] \/ (d[1] = e[1] /\ d[2] < e[2])

Line == [process : DOMAIN procs, thread : Entries, fields : [Column -> Entries]]

(* No line is of a process the outer loop has not come to, and no entry of *)
(* one has been read.                                                      *)
Reached(e) == e[1] <= p /\ (pc # "thread" => e[1] < p)

Progress ==
  /\ rows \in Seq(Line)
  /\ pc = "thread" => p \in DOMAIN procs
  /\ Reached(Flink) /\ \A f \in Column : Reached(fields[f])
  /\ \A n \in DOMAIN rows : Reached(<<rows[n].process, 0>>)

(* What the loops carry from line to line: Flink is ahead of every field   *)
(* read so far and of the lines of this process, and in the list of this   *)
(* process if its head could be read.                                      *)
Position ==
  Flink[2] # 0 =>
    /\ \A f \in Column : Before(fields[f], Flink)
    /\ pc = "thread" =>
         /\ procs[p].head => Flink[1] = p
         /\ \A n \in DOMAIN rows : rows[n].process = p =>
              rows[n].thread[1] = Flink[1] /\ rows[n].thread[2] < Flink[2]

(* Where all can be read the loop is at entry i + 1 of the list, and of the *)
(* entries before it those with a start address were listed.               *)
ListedTo(q, last) ==
  \A k \in DOMAIN procs[q].threads : Listed(q, k) <=> k <= last /\ procs[q].threads[k].started

Shown(q, k) ==
  /\ k <= Actives(q) /\ procs[q].threads[k].started => Listed(q, k)
  /\ Listed(q, k) => procs[q].threads[k].started /\ (k <= Actives(q) \/ procs[q].wide)

Complete ==
  /\ \A q \in DOMAIN procs : Readable(q) /\ q < p => \A k \in DOMAIN procs[q].threads : Shown(q, k)
  /\ pc = "thread" /\ Readable(p) =>
       /\ i <= Len(procs[p].threads) /\ Flink = Entry(p, i + 1)
       /\ Actives(p) <= ActiveThreads /\ i <= ActiveThreads
       /\ ~procs[p].wide => ActiveThreads = Actives(p)
       /\ ListedTo(p, i)
  /\ pc = "done" => p = Len(procs) + 1

IInv ==
  /\ TypeOK /\ Progress /\ Position /\ Complete
  /\ ForeignOnlyBehindUnreadableHead /\ InListOrder /\ LineIsOneThread

-----------------------------------------------------------------------------
(* The processes, the list entries and the count.                           *)

LEMMA ProcessType ==
  ASSUME TypeOK, NEW q \in DOMAIN procs
  PROVE  /\ Len(procs) \in Nat /\ q \in 1..Len(procs)
         /\ procs[q] \in Process
         /\ procs[q].threads \in Seq(Thread)
         /\ Len(procs[q].threads) \in Nat
         /\ DOMAIN procs[q].threads = 1..Len(procs[q].threads)
<1>1. procs \in Seq(Process) BY ThreadAssumption DEF TypeOK
<1>2. procs[q] \in Process BY <1>1
<1>3. procs[q].threads \in Seq(Thread) BY <1>2 DEF Process
<1>. QED BY <1>1, <1>2, <1>3

(* An entry is Nowhere, a list head or a thread.                            *)
LEMMA EntryParts ==
  ASSUME TypeOK, NEW e \in Entries
  PROVE  /\ e[1] \in Nat /\ e[2] \in Nat
         /\ e[2] = 0 /\ e[1] = 0 => e = Nowhere
         /\ e # Nowhere => e[1] \in DOMAIN procs
         /\ e[2] # 0 => /\ e = <<e[1], e[2]>>
                        /\ e[1] \in DOMAIN procs
                        /\ e[2] \in DOMAIN procs[e[1]].threads
<1>1. CASE e = Nowhere BY <1>1 DEF Nowhere
<1>2. CASE e # Nowhere
  <2>1. PICK q \in DOMAIN procs : e \in {<<q, k>> : k \in 0..Len(procs[q].threads)}
    BY <1>2 DEF Entries
  <2>2. PICK k \in 0..Len(procs[q].threads) : e = <<q, k>>
    BY <2>1
  <2>. QED BY <2>2, ProcessType
<1>. QED BY <1>1, <1>2

LEMMA EntryIsEntry ==
  ASSUME TypeOK, NEW q \in DOMAIN procs, NEW k \in Nat \ {0}
  PROVE  /\ Entry(q, k) \in Entries
         /\ Entry(q, k)[1] = q
         /\ Entry(q, k)[2] \in {0, k}
<1>1. Len(procs[q].threads) \in Nat BY ProcessType
<1>. DEFINE l == IF k <= Len(procs[q].threads) THEN k ELSE 0
<1>2. l \in 0..Len(procs[q].threads) /\ Entry(q, k) = <<q, l>>
  BY <1>1 DEF Entry
<1>3. Entry(q, k) \in {<<q, j>> : j \in 0..Len(procs[q].threads)} BY <1>2
<1>. QED BY <1>2, <1>3 DEF Entries

LEMMA NowhereIsEntry == Nowhere \in Entries BY DEF Entries

(* ActiveThreads counts the threads in the list that run.                   *)
LEMMA CountOfActives ==
  ASSUME TypeOK, NEW q \in DOMAIN procs
  PROVE  /\ Actives(q) \in Nat
         /\ CountCell(q) = Fault \/ CountCell(q) \in Nat
         /\ procs[q].count => /\ CountCell(q) # Fault /\ Actives(q) <= CountCell(q)
                              /\ ~procs[q].wide => CountCell(q) = Actives(q)
<1>. DEFINE actives == {k \in DOMAIN procs[q].threads : procs[q].threads[k].active}
<1>1. Len(procs[q].threads) \in Nat /\ DOMAIN procs[q].threads = 1..Len(procs[q].threads)
  BY ProcessType
<1>2. IsFiniteSet(1..Len(procs[q].threads))
  BY <1>1, FS_Interval, 1 \in Int, Len(procs[q].threads) \in Int
<1>3. Cardinality(actives) \in Nat
  BY <1>1, <1>2, FS_Subset, FS_CardinalityType
<1>4. Actives(q) = Cardinality(actives) BY DEF Actives
<1>5. 2 ^ 20 \in Nat
  <2>1. 2 ^ 20 = 1048576 BY SMT
  <2>. QED BY <2>1
<1>. HIDE DEF actives
<1>6. Actives(q) \in Nat BY <1>3, <1>4
<1>. QED BY <1>5, <1>6, FaultAssumption DEF CountCell

(* A line names a process, and an entry for itself and for every column.    *)
LEMMA LineParts ==
  ASSUME TypeOK, Progress, NEW n \in DOMAIN rows
  PROVE  /\ rows[n] \in Line
         /\ rows[n].process \in DOMAIN procs /\ rows[n].process \in Nat
         /\ rows[n].thread \in Entries
         /\ rows[n].thread[1] \in Nat /\ rows[n].thread[2] \in Nat
         /\ rows[n].process <= p /\ (pc # "thread" => rows[n].process < p)
<1>1. rows[n] \in Line BY DEF Progress
<1>2. rows[n].process \in DOMAIN procs /\ rows[n].thread \in Entries BY <1>1 DEF Line
<1>3. rows[n].process \in Nat BY <1>2, ProcessType
<1>4. rows[n].thread[1] \in Nat /\ rows[n].thread[2] \in Nat BY <1>2, EntryParts
<1>5. Reached(<<rows[n].process, 0>>) BY DEF Progress
<1>. QED BY <1>1, <1>2, <1>3, <1>4, <1>5 DEF Reached

-----------------------------------------------------------------------------
(* IInv is inductive.                                                       *)

LEMMA InitIInv == Init => IInv
<1>. SUFFICES ASSUME Init PROVE IInv OBVIOUS
<1>1. Len(procs) \in Nat /\ procs \in Targets /\ procs \in Seq(Process)
  BY ThreadAssumption DEF Init
<1>2. Nowhere \in Entries /\ Nowhere[1] = 0 /\ Nowhere[2] = 0
  BY NowhereIsEntry DEF Nowhere
<1>3. fields = [f \in Column |-> Nowhere] /\ Flink = Nowhere BY DEF Init
<1>4. TypeOK BY <1>1, <1>2, <1>3 DEF Init, TypeOK
<1>5. rows = <<>> /\ DOMAIN rows = {} /\ p = 1 /\ pc = "process" BY DEF Init
<1>6. Progress
  <2>1. rows \in Seq(Line) BY <1>5
  <2>. QED BY <1>2, <1>3, <1>5, <2>1 DEF Progress, Reached
<1>7. Position BY <1>2, <1>3 DEF Position
<1>8. Complete BY <1>1, <1>5 DEF Complete
<1>. QED
  BY <1>4, <1>5, <1>6, <1>7, <1>8
  DEF IInv, ForeignOnlyBehindUnreadableHead, InListOrder, LineIsOneThread

LEMMA ColumnsOfEntry ==
  ASSUME TypeOK, NEW f \in Column
  PROVE  fields[f] \in Entries /\ fields[f][1] \in Nat /\ fields[f][2] \in Nat
BY EntryParts DEF TypeOK

(* Lines that are there stay, and with them all that is said of them.       *)
LEMMA LinesKept ==
  ASSUME IInv, UNCHANGED <<procs, rows>>
  PROVE  /\ Entries' = Entries /\ Line' = Line
         /\ (rows \in Seq(Line))'
         /\ ForeignOnlyBehindUnreadableHead' /\ InListOrder' /\ LineIsOneThread'
         /\ \A q, k : Shown(q, k)' = Shown(q, k) /\ ListedTo(q, k)' = ListedTo(q, k)
         /\ \A q : Readable(q)' = Readable(q) /\ Actives(q)' = Actives(q)
<1>1. Entries' = Entries BY DEF Entries
<1>2. Line' = Line BY <1>1 DEF Line
<1>3. (rows \in Seq(Line))' BY <1>2 DEF IInv, Progress
<1>4. ForeignOnlyBehindUnreadableHead' BY DEF IInv, ForeignOnlyBehindUnreadableHead
<1>5. InListOrder' BY DEF IInv, InListOrder
<1>6. LineIsOneThread' BY DEF IInv, LineIsOneThread, ThreadAt
<1>7. \A q, k : Shown(q, k)' = Shown(q, k) /\ ListedTo(q, k)' = ListedTo(q, k)
  <2>1. \A q, k : Listed(q, k)' = Listed(q, k) BY DEF Listed
  <2>. QED BY <2>1 DEF Shown, ListedTo, Actives
<1>8. \A q : Readable(q)' = Readable(q) /\ Actives(q)' = Actives(q) BY DEF Readable, Actives
<1>. QED BY <1>1, <1>2, <1>3, <1>4, <1>5, <1>6, <1>7, <1>8

(* A process is begun: no line is of it yet.                                *)
LEMMA EnterIInv == IInv /\ Enter => IInv'
<1>. SUFFICES ASSUME IInv, Enter PROVE IInv' OBVIOUS
<1>1. /\ TypeOK /\ Progress /\ Position /\ Complete
      /\ p \in 1..(Len(procs) + 1) /\ p <= Len(procs) /\ pc = "process"
      /\ procs \in Seq(Process) /\ p \in Nat
  BY ThreadAssumption DEF IInv, TypeOK, Enter
<1>2. p \in DOMAIN procs /\ Len(procs) \in Nat BY <1>1
<1>3. UNCHANGED <<procs, p, fields, rows>> /\ i' = 0 /\ pc' = "thread" BY DEF Enter
<1>4. /\ Flink' \in Entries
      /\ procs[p].head => Flink' = Entry(p, 1) /\ Flink'[1] = p
      /\ ~procs[p].head => Flink' = Flink
  BY <1>1, <1>2, EntryIsEntry DEF Enter, FirstEntry, TypeOK
<1>5. /\ ActiveThreads' \in Nat /\ Actives(p) \in Nat
      /\ Readable(p) => /\ Actives(p) <= ActiveThreads'
                        /\ ~procs[p].wide => ActiveThreads' = Actives(p)
  BY <1>1, <1>2, CountOfActives DEF Enter, ReadVirtual, TypeOK, Readable
<1>6. TypeOK'
  BY <1>1, <1>3, <1>4, <1>5, LinesKept DEF TypeOK
<1>7. Flink[1] < p /\ \A f \in Column : fields[f][1] < p
  BY <1>1 DEF Progress, Reached
<1>8. \A n \in DOMAIN rows : rows[n].process < p
  BY <1>1 DEF Progress, Reached
<1>9. Progress'
  <2>1. Flink'[1] <= p
    BY <1>1, <1>4, <1>7, EntryParts DEF TypeOK
  <2>2. \A f \in Column : fields[f][1] <= p
    BY <1>1, <1>7, ColumnsOfEntry
  <2>3. \A n \in DOMAIN rows : rows[n].process <= p
    BY <1>1 DEF Progress, Reached
  <2>. QED BY <1>2, <1>3, <2>1, <2>2, <2>3, LinesKept DEF Progress, Reached
<1>10. Position'
  <2>. SUFFICES ASSUME Flink'[2] # 0
                PROVE  /\ \A f \in Column : Before(fields[f], Flink')
                       /\ procs[p].head => Flink'[1] = p
                       /\ \A n \in DOMAIN rows : rows[n].process # p
    BY <1>3 DEF Position
  <2>1. \A n \in DOMAIN rows : rows[n].process \in Nat BY <1>1, LineParts
  <2>2. \A n \in DOMAIN rows : rows[n].process # p BY <1>1, <1>8, <2>1
  <2>3. \A f \in Column : Before(fields[f], Flink')
    BY <1>1, <1>4, <1>7 DEF Position, Before
  <2>. QED BY <1>4, <2>2, <2>3
<1>11. Complete'
  <2>1. \A q \in DOMAIN procs : Readable(q) /\ q < p => \A k \in DOMAIN procs[q].threads : Shown(q, k)
    BY <1>1 DEF Complete
  <2>2. ASSUME Readable(p)
        PROVE  /\ 0 <= Len(procs[p].threads) /\ Flink' = Entry(p, 0 + 1)
               /\ Actives(p) <= ActiveThreads' /\ 0 <= ActiveThreads'
               /\ ~procs[p].wide => ActiveThreads' = Actives(p)
    BY <1>1, <1>2, <1>4, <1>5, <2>2, ProcessType DEF Readable
  <2>3. pc' # "done" BY <1>3
  <2>4. ListedTo(p, 0)
    <3>1. ASSUME NEW k \in DOMAIN procs[p].threads PROVE ~Listed(p, k) /\ ~(k <= 0)
      <4>1. k \in 1..Len(procs[p].threads) BY <1>1, <1>2, <3>1, ProcessType
      <4>2. \A n \in DOMAIN rows : rows[n].process # p BY <1>1, <1>2, <1>8, LineParts
      <4>. QED BY <4>1, <4>2 DEF Listed
    <3>. QED BY <3>1 DEF ListedTo
  <2>5. Entry(p, 0 + 1)' = Entry(p, 0 + 1) BY <1>3 DEF Entry
  <2>. QED BY <1>3, <2>1, <2>2, <2>3, <2>4, <2>5, LinesKept DEF Complete
<1>. QED BY <1>3, <1>6, <1>9, <1>10, <1>11, LinesKept DEF IInv

LEMMA FinishIInv == IInv /\ Finish => IInv'
<1>. SUFFICES ASSUME IInv, Finish PROVE IInv' OBVIOUS
<1>1. /\ UNCHANGED <<procs, p, i, Flink, ActiveThreads, fields, rows>>
      /\ pc = "process" /\ pc' = "done" /\ p > Len(procs)
      /\ p \in 1..(Len(procs) + 1) /\ procs \in Seq(Process)
  BY ThreadAssumption DEF IInv, TypeOK, Finish
<1>2. TypeOK' BY <1>1, LinesKept DEF IInv, TypeOK
<1>3. Progress' BY <1>1, LinesKept DEF IInv, Progress, Reached
<1>4. Position' BY <1>1 DEF IInv, Position
<1>5. p = Len(procs) + 1 BY <1>1
<1>6. Complete' BY <1>1, <1>5, LinesKept DEF IInv, Complete
<1>. QED BY <1>1, <1>2, <1>3, <1>4, <1>6, LinesKept DEF IInv

(* A process is left: where all can be read, as many of its entries were    *)
(* looked at as the count says, or all of them.                             *)
LEMMA LeaveIInv == IInv /\ Leave => IInv'
<1>. SUFFICES ASSUME IInv, Leave PROVE IInv' OBVIOUS
<1>1. /\ TypeOK /\ Progress /\ Position /\ Complete
      /\ UNCHANGED <<procs, i, Flink, ActiveThreads, fields, rows>>
      /\ pc = "thread" /\ pc' = "process" /\ p' = p + 1 /\ Over
  BY DEF IInv, Leave
<1>2. p \in DOMAIN procs /\ p \in Nat /\ p \in 1..Len(procs) /\ Len(procs) \in Nat
  BY <1>1, ProcessType DEF Progress
<1>3. TypeOK' BY <1>1, <1>2, LinesKept DEF TypeOK
<1>4. Progress'
  <2>1. Flink[1] \in Nat /\ Flink[1] <= p
    BY <1>1, EntryParts DEF Progress, Reached, TypeOK
  <2>2. \A f \in Column : fields[f][1] \in Nat /\ fields[f][1] <= p
    BY <1>1, ColumnsOfEntry DEF Progress, Reached
  <2>3. \A n \in DOMAIN rows : rows[n].process \in Nat /\ rows[n].process <= p
    BY <1>1, LineParts
  <2>. QED BY <1>1, <1>2, <2>1, <2>2, <2>3, LinesKept DEF Progress, Reached
<1>5. Position' BY <1>1 DEF Position
<1>6. Complete'
  <2>. SUFFICES ASSUME NEW q \in DOMAIN procs, Readable(q), q < p + 1,
                       NEW k \in DOMAIN procs[q].threads
                PROVE  Shown(q, k)
    BY <1>1, LinesKept DEF Complete
  <2>1. q \in Nat BY <1>2
  <2>2. CASE q < p BY <1>1, <2>2 DEF Complete
  <2>3. CASE q = p
    <3>1. /\ i <= Len(procs[p].threads) /\ Flink = Entry(p, i + 1)
          /\ Actives(p) <= ActiveThreads /\ i <= ActiveThreads
          /\ ~procs[p].wide => ActiveThreads = Actives(p)
          /\ ListedTo(p, i)
      BY <1>1, <2>3 DEF Complete
    <3>2. /\ Len(procs[p].threads) \in Nat /\ i \in Nat /\ ActiveThreads \in Nat
          /\ DOMAIN procs[p].threads = 1..Len(procs[p].threads)
          /\ k \in Nat /\ k <= Len(procs[p].threads) /\ Actives(p) \in Nat
      BY <1>1, <1>2, <2>3, ProcessType, CountOfActives DEF TypeOK
    <3>3. i >= ActiveThreads \/ i >= Len(procs[p].threads)
      <4>1. CASE Flink[2] = 0 BY <3>1, <3>2, <4>1 DEF Entry
      <4>. QED BY <1>1, <4>1 DEF Over, isValidAddress
    <3>4. Listed(p, k) <=> k <= i /\ procs[p].threads[k].started
      BY <2>3, <3>1 DEF ListedTo
    <3>5. k <= Actives(p) => k <= i BY <3>1, <3>2, <3>3
    <3>6. k <= i => k <= Actives(p) \/ procs[p].wide BY <3>1, <3>2
    <3>. QED BY <2>3, <3>4, <3>5, <3>6 DEF Shown
  <2>. QED BY <1>2, <2>1, <2>2, <2>3
<1>. QED BY <1>1, <1>3, <1>4, <1>5, <1>6, LinesKept DEF IInv

(* A thread is visited: what its line says follows from where Flink is.     *)
LEMMA VisitIInv == IInv /\ Visit => IInv'
<1>. SUFFICES ASSUME IInv, Visit PROVE IInv' OBVIOUS
<1>. DEFINE line == [process |-> p, thread |-> Flink, fields |-> fields']
<1>1. /\ TypeOK /\ Progress /\ Position /\ Complete
      /\ ForeignOnlyBehindUnreadableHead /\ InListOrder /\ LineIsOneThread
      /\ UNCHANGED <<procs, p, ActiveThreads, pc>>
      /\ pc = "thread" /\ i < ActiveThreads /\ Flink[2] # 0 /\ i' = i + 1
      /\ fields' = FieldsRead /\ Flink' = NextEthread
  BY DEF IInv, Visit, isValidAddress
<1>2. /\ p \in DOMAIN procs /\ p \in Nat /\ i \in Nat /\ ActiveThreads \in Nat
      /\ Len(procs) \in Nat /\ rows \in Seq(Line)
  BY <1>1, ProcessType DEF Progress, TypeOK
<1>3. /\ Flink \in Entries /\ Flink = <<Flink[1], Flink[2]>>
      /\ Flink[1] \in DOMAIN procs /\ Flink[2] \in DOMAIN procs[Flink[1]].threads
      /\ Flink[1] \in Nat /\ Flink[2] \in Nat \ {0} /\ Flink[1] <= p
      /\ procs[p].head => Flink[1] = p
  BY <1>1, EntryParts DEF TypeOK, Position, Progress, Reached
<1>4. /\ Entries' = Entries /\ Line' = Line /\ \A e : ThreadAt(e)' = ThreadAt(e)
      /\ \A q : Readable(q)' = Readable(q) /\ Actives(q)' = Actives(q)
  BY <1>1 DEF Entries, Line, ThreadAt, Readable, Actives
<1>5. \A f \in Column :
        /\ fields'[f] = IF f \in ThreadAt(Flink).fields THEN Flink ELSE fields[f]
        /\ fields'[f] \in Entries /\ fields[f][1] \in Nat /\ fields[f][2] \in Nat
        /\ Before(fields[f], Flink)
  BY <1>1, <1>3, ColumnsOfEntry DEF FieldsRead, Position
<1>6. fields' \in [Column -> Entries] BY <1>1, <1>5 DEF FieldsRead
<1>7. line \in Line BY <1>2, <1>3, <1>6 DEF Line
<1>8. \/ rows' = Append(rows, line) /\ fields'["StartAddress"] # Nowhere
      \/ rows' = rows
  BY DEF Visit, Started
<1>9. /\ rows' \in Seq(Line) /\ DOMAIN rows \subseteq DOMAIN rows'
      /\ \A n \in DOMAIN rows : rows'[n] = rows[n]
      /\ \A n \in DOMAIN rows' \ DOMAIN rows :
           rows'[n] = line /\ n = Len(rows) + 1 /\ fields'["StartAddress"] # Nowhere
      /\ DOMAIN rows = 1..Len(rows) /\ Len(rows) \in Nat
      /\ DOMAIN rows' \subseteq 1..(Len(rows) + 1)
  <2>1. CASE rows' = rows BY <1>2, <2>1
  <2>2. CASE rows' = Append(rows, line) /\ fields'["StartAddress"] # Nowhere
    <3>. HIDE DEF line
    <3>. QED BY <1>2, <1>7, <2>2
  <2>. QED BY <1>8, <2>1, <2>2
<1>10. /\ Flink' \in Entries /\ Flink'[1] \in Nat /\ Flink'[2] \in Nat /\ Flink'[1] <= p
       /\ Flink'[2] # 0 => Flink'[1] = Flink[1] /\ Flink'[2] = Flink[2] + 1
  <2>1. CASE Flink' = Nowhere BY <1>2, <2>1, NowhereIsEntry DEF Nowhere
  <2>2. CASE Flink' = Entry(Flink[1], Flink[2] + 1)
    <3>. DEFINE e == Entry(Flink[1], Flink[2] + 1)
    <3>1. Flink[2] + 1 \in Nat \ {0} BY <1>3
    <3>2. e \in Entries /\ e[1] = Flink[1] /\ e[2] \in {0, Flink[2] + 1}
      BY <1>1, <1>3, <3>1, EntryIsEntry
    <3>. HIDE DEF e
    <3>. QED BY <1>3, <2>2, <3>2 DEF e
  <2>. QED BY <1>1, <2>1, <2>2 DEF NextEthread
<1>11. TypeOK' BY <1>1, <1>2, <1>4, <1>6, <1>10 DEF TypeOK
<1>12. Progress'
  <2>1. \A n \in DOMAIN rows' : rows'[n].process <= p
    BY <1>1, <1>2, <1>9, LineParts
  <2>2. \A f \in Column : fields'[f][1] <= p
    BY <1>1, <1>3, <1>5 DEF Progress, Reached
  <2>. QED BY <1>1, <1>2, <1>4, <1>9, <1>10, <2>1, <2>2 DEF Progress, Reached
<1>13. Position'
  <2>. SUFFICES ASSUME Flink'[2] # 0
                PROVE  /\ \A f \in Column : Before(fields'[f], Flink')
                       /\ procs[p].head => Flink'[1] = p
                       /\ \A n \in DOMAIN rows' : rows'[n].process = p =>
                            rows'[n].thread[1] = Flink'[1] /\ rows'[n].thread[2] < Flink'[2]
    BY <1>1 DEF Position, Before
  <2>1. \A f \in Column : Before(fields'[f], Flink')
    BY <1>3, <1>5, <1>10 DEF Before
  <2>2. ASSUME NEW n \in DOMAIN rows', rows'[n].process = p
        PROVE  rows'[n].thread[1] = Flink'[1] /\ rows'[n].thread[2] < Flink'[2]
    <3>1. CASE n \in DOMAIN rows
      <4>1. rows'[n] = rows[n] BY <1>9, <3>1
      <4>2. rows[n].thread[2] \in Nat BY <1>1, <3>1, LineParts
      <4>3. rows[n].thread[1] = Flink[1] /\ rows[n].thread[2] < Flink[2]
        BY <1>1, <2>2, <3>1, <4>1 DEF Position
      <4>. QED BY <1>3, <1>10, <4>1, <4>2, <4>3
    <3>2. CASE n \notin DOMAIN rows BY <1>3, <1>9, <1>10, <3>2
    <3>. QED BY <3>1, <3>2
  <2>. QED BY <1>3, <1>10, <2>1, <2>2
<1>14. Complete'
  <2>. DEFINE Then(q, k) == \E n \in DOMAIN rows' : rows'[n].process = q /\ rows'[n].thread = <<q, k>>
  <2>2. ASSUME NEW q, q # p \/ rows' = rows, NEW k PROVE Then(q, k) <=> Listed(q, k)
    <3>1. CASE rows' = rows BY <3>1 DEF Listed
    <3>2. CASE q # p
      <4>1. \A n \in DOMAIN rows' \ DOMAIN rows : rows'[n].process # q BY <1>9, <3>2
      <4>. QED BY <1>9, <4>1 DEF Listed
    <3>. QED BY <2>2, <3>1, <3>2
  <2>3. ASSUME NEW q \in DOMAIN procs, Readable(q), q < p, NEW k \in DOMAIN procs[q].threads
        PROVE  Shown(q, k)'
    <3>1. Shown(q, k) BY <1>1, <2>3 DEF Complete
    <3>2. q # p BY <1>2, <2>3
    <3>3. Then(q, k) <=> Listed(q, k) BY <2>2, <3>2
    <3>. QED BY <1>1, <1>4, <3>1, <3>3 DEF Shown, Listed
  <2>4. ASSUME Readable(p)
        PROVE  /\ i + 1 <= Len(procs[p].threads) /\ Flink' = Entry(p, (i + 1) + 1)
               /\ Actives(p) <= ActiveThreads /\ i + 1 <= ActiveThreads
               /\ ~procs[p].wide => ActiveThreads = Actives(p)
               /\ \A k \in DOMAIN procs[p].threads :
                    Then(p, k) <=> k <= i + 1 /\ procs[p].threads[k].started
    <3>1. /\ i <= Len(procs[p].threads) /\ Flink = Entry(p, i + 1)
          /\ Actives(p) <= ActiveThreads
          /\ ~procs[p].wide => ActiveThreads = Actives(p)
          /\ ListedTo(p, i)
      BY <1>1, <2>4 DEF Complete
    <3>2. Flink = <<p, i + 1>> /\ i + 1 <= Len(procs[p].threads)
      BY <1>1, <3>1 DEF Entry
    <3>3. i + 1 \in DOMAIN procs[p].threads BY <1>3, <3>2
    <3>4. ThreadAt(Flink) = procs[p].threads[i + 1] BY <1>1, <3>2 DEF ThreadAt
    <3>5. ThreadAt(Flink).link /\ ThreadAt(Flink).fields = Column
      BY <2>4, <3>3, <3>4 DEF Readable
    <3>6. Flink' = Entry(p, (i + 1) + 1) BY <1>1, <3>2, <3>5 DEF NextEthread
    <3>7. ASSUME NEW k \in DOMAIN procs[p].threads
          PROVE  Then(p, k) <=> k <= i + 1 /\ procs[p].threads[k].started
      <4>1. Listed(p, k) <=> k <= i /\ procs[p].threads[k].started
        BY <3>1, <3>7 DEF ListedTo
      <4>2. k \in Nat BY <1>1, <1>2, <3>7, ProcessType
      <4>3. fields'["StartAddress"] = Flink BY <1>5, <3>5 DEF Column
      <4>4. Flink # Nowhere BY <1>1 DEF Nowhere
      <4>5. Started(fields'["StartAddress"]) <=> procs[p].threads[i + 1].started
        BY <3>4, <4>3, <4>4 DEF Started
      <4>6. CASE ~procs[p].threads[i + 1].started
        <5>1. rows' = rows BY <4>5, <4>6 DEF Visit
        <5>2. Then(p, k) <=> Listed(p, k) BY <2>2, <5>1
        <5>. QED BY <1>2, <4>1, <4>2, <4>6, <5>2
      <4>7. CASE procs[p].threads[i + 1].started
        <5>1. rows' = Append(rows, line) BY <4>5, <4>7 DEF Visit
        <5>. HIDE DEF line
        <5>2. /\ DOMAIN rows' = DOMAIN rows \cup {Len(rows) + 1}
              /\ rows'[Len(rows) + 1] = line
          BY <1>2, <1>7, <5>1
        <5>3. line.process = p /\ line.thread = <<p, i + 1>> BY <3>2 DEF line
        <5>4. Then(p, k) <=> Listed(p, k) \/ k = i + 1
          BY <1>9, <5>2, <5>3 DEF Listed
        <5>. QED BY <1>2, <4>1, <4>2, <4>7, <5>4
      <4>. QED BY <4>6, <4>7
    <3>. HIDE DEF Then
    <3>8. \A k \in DOMAIN procs[p].threads :
            Then(p, k) <=> k <= i + 1 /\ procs[p].threads[k].started
      BY <3>7
    <3>9. i + 1 <= ActiveThreads BY <1>1, <1>2
    <3>. QED BY <3>1, <3>2, <3>6, <3>8, <3>9
  <2>5. \A q, k : Entry(q, k)' = Entry(q, k) BY <1>1 DEF Entry
  <2>6. Readable(p)' => Readable(p) BY <1>1 DEF Readable
  <2>7. Readable(p) => ListedTo(p, i)'
    <3>. HIDE DEF Then
    <3>. SUFFICES ASSUME Readable(p)
                  PROVE  \A k \in DOMAIN procs[p].threads :
                           Then(p, k) <=> k <= i + 1 /\ procs[p].threads[k].started
      BY <1>1 DEF ListedTo, Listed, Then
    <3>. QED BY <2>4
  <2>8. Actives(p)' = Actives(p) BY <1>1 DEF Actives
  <2>. HIDE DEF Then
  <2>. QED BY <1>1, <1>4, <2>3, <2>4, <2>5, <2>6, <2>7, <2>8 DEF Complete
<1>15. ForeignOnlyBehindUnreadableHead'
  <2>. SUFFICES ASSUME NEW n \in DOMAIN rows', rows'[n].thread[1] # rows'[n].process
                PROVE  /\ rows'[n].thread[1] < rows'[n].process
                       /\ ~procs[rows'[n].process].head
    BY <1>1 DEF ForeignOnlyBehindUnreadableHead
  <2>1. CASE n \in DOMAIN rows BY <1>1, <1>9, <2>1 DEF ForeignOnlyBehindUnreadableHead
  <2>2. CASE n \notin DOMAIN rows
    <3>1. rows'[n] = line BY <1>9, <2>2
    <3>. QED BY <1>2, <1>3, <3>1
  <2>. QED BY <2>1, <2>2
<1>16. InListOrder'
  <2>. SUFFICES ASSUME NEW m \in DOMAIN rows', NEW n \in DOMAIN rows',
                       m < n, rows'[m].process = rows'[n].process
                PROVE  /\ rows'[m].thread[1] = rows'[n].thread[1]
                       /\ rows'[m].thread[2] < rows'[n].thread[2]
    BY DEF InListOrder
  <2>1. CASE n \in DOMAIN rows
    <3>1. m \in DOMAIN rows BY <1>9, <2>1
    <3>. QED BY <1>1, <1>9, <2>1, <3>1 DEF InListOrder
  <2>2. CASE n \notin DOMAIN rows
    <3>1. rows'[n] = line /\ n = Len(rows) + 1 BY <1>9, <2>2
    <3>2. m \in DOMAIN rows BY <1>9, <3>1
    <3>3. rows'[m] = rows[m] /\ rows[m].process = p BY <1>9, <3>1, <3>2
    <3>. QED BY <1>1, <3>1, <3>2, <3>3 DEF Position
  <2>. QED BY <2>1, <2>2
<1>17. LineIsOneThread'
  <2>. SUFFICES ASSUME NEW n \in DOMAIN rows', NEW f \in Column,
                       rows'[n].fields[f] # rows'[n].thread
                PROVE  /\ f \notin ThreadAt(rows'[n].thread).fields
                       /\ rows'[n].fields[f] = Nowhere => f # "StartAddress"
                       /\ Before(rows'[n].fields[f], rows'[n].thread)
    BY <1>4 DEF LineIsOneThread, Before
  <2>1. CASE n \in DOMAIN rows BY <1>1, <1>9, <2>1 DEF LineIsOneThread, Before
  <2>2. CASE n \notin DOMAIN rows
    <3>1. rows'[n] = line /\ fields'["StartAddress"] # Nowhere BY <1>9, <2>2
    <3>. QED BY <1>5, <3>1
  <2>. QED BY <2>1, <2>2
<1>. QED BY <1>11, <1>12, <1>13, <1>14, <1>15, <1>16, <1>17 DEF IInv

LEMMA NextIInv == IInv /\ [Next]_vars => IInv'
<1>. SUFFICES ASSUME IInv, [Next]_vars PROVE IInv' OBVIOUS
<1>1. CASE Enter BY <1>1, EnterIInv
<1>2. CASE Finish BY <1>2, FinishIInv
<1>3. CASE Leave BY <1>3, LeaveIInv
<1>4. CASE Visit BY <1>4, VisitIInv
<1>5. CASE UNCHANGED vars
  <2>1. UNCHANGED <<procs, p, i, Flink, ActiveThreads, fields, rows, pc>> BY <1>5 DEF vars
  <2>2. TypeOK' BY <2>1, LinesKept DEF IInv, TypeOK
  <2>3. Progress' BY <2>1, LinesKept DEF IInv, Progress, Reached
  <2>4. Position' BY <2>1 DEF IInv, Position
  <2>5. \A q, k : Entry(q, k)' = Entry(q, k) BY <2>1 DEF Entry
  <2>6. Complete' BY <2>1, <2>5, LinesKept DEF IInv, Complete
  <2>. QED BY <2>1, <2>2, <2>3, <2>4, <2>6, LinesKept DEF IInv
<1>. QED BY <1>1, <1>2, <1>3, <1>4, <1>5 DEF Next, Ended

LEMMA Invariant == Spec => []IInv
BY InitIInv, NextIInv, PTL DEF Spec

-----------------------------------------------------------------------------

(* The counters stay natural numbers, the indices inside the lists, and     *)
(* everything Flink and the columns are taken from is an entry of a list    *)
(* that was walked.                                                         *)
THEOREM TypeCorrect == Spec => []TypeOK
<1>1. IInv => TypeOK BY DEF IInv
<1>. QED BY <1>1, Invariant, PTL

(* A thread is listed under a process it is not of only behind a list head  *)
(* that cannot be read, and comes from a process before (threads.h:49-56).  *)
THEOREM ForeignThreadsExplained == Spec => []ForeignOnlyBehindUnreadableHead
<1>1. IInv => ForeignOnlyBehindUnreadableHead BY DEF IInv
<1>. QED BY <1>1, Invariant, PTL

(* Under one process no thread is listed twice, in whatever state the list  *)
(* and the count are (threads.h:76, 84-91).                                 *)
THEOREM ThreadsInListOrder == Spec => []InListOrder
<1>1. IInv => InListOrder BY DEF IInv
<1>. QED BY <1>1, Invariant, PTL

(* A column shows another thread than its line only where it cannot be      *)
(* read, and then one that was passed before (threads.h:53-56, 93-108).     *)
THEOREM ColumnsOfThreadPassed == Spec => []LineIsOneThread
<1>1. IInv => LineIsOneThread BY DEF IInv
<1>. QED BY <1>1, Invariant, PTL

(* Of a readable list as many entries as threads run are shown, counted     *)
(* from the front, exited threads among them (threads.h:76, 84-109).        *)
THEOREM ReadableListsShown == Spec => []ShowsAsManyAsRun
<1>1. IInv => ShowsAsManyAsRun
  <2>. SUFFICES ASSUME IInv, pc = "done", NEW q \in DOMAIN procs, Readable(q),
                       NEW k \in DOMAIN procs[q].threads
                PROVE  Shown(q, k)
    BY DEF ShowsAsManyAsRun, Shown
  <2>1. q \in 1..Len(procs) /\ Len(procs) \in Nat BY ProcessType DEF IInv
  <2>2. p = Len(procs) + 1 BY DEF IInv, Complete
  <2>3. q < p BY <2>1, <2>2
  <2>. QED BY <2>3 DEF IInv, Complete
<1>. QED BY <1>1, Invariant, PTL
=============================================================================
