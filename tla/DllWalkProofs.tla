--------------------------- MODULE DllWalkProofs ----------------------------
(***************************************************************************)
(* DllWalk proved for any number of processes with module lists of any     *)
(* length, whatever of them can be read, and any number of lines.          *)
(***************************************************************************)
EXTENDS DllWalk, TLAPS

Line == [process : 1..Len(procs), module : Entries, columns : [Column -> Entries]]

ListLength(c) == Len(procs[c].modules)

(* No line is of a process the outer loop has not come to.  Inside the walk *)
(* of a process its own list is mapped if the switch succeeded.             *)
Progress ==
  /\ \A n \in DOMAIN rows : rows[n].process <= p /\ (pc # "module" => rows[n].process < p)
  /\ pc = "module" => p <= Len(procs) /\ (procs[p].switches => context = p)
  /\ pc = "done" => p = Len(procs) + 1

Walking == pc = "module" /\ Flink # NoEntry

(* The walk is at the entry the last line is of, or else the first.         *)
Position ==
  Walking =>
    IF Len(rows) > 0 /\ rows[Len(rows)].process = p
    THEN rows[Len(rows)].module = <<context, Flink>>
    ELSE Flink = Entry(context, 0)

(* What the locals hold of another process than the one walked: a name, and *)
(* only as long as none could be read.                                      *)
Carried ==
  Walking =>
    \A f \in Column : columns[f][1] \notin {0, context} =>
      f = "DllName" /\ \A j \in 2..Flink : f \notin procs[context].modules[j].data

(* In the first round the list is shown up to where the walk is, all of it  *)
(* reached; a walk that has gone around has shown all of it.                *)
FirstRound(q, at) ==
  /\ at > 0 /\ Reached(q, at)
  /\ \A k \in 2..ListLength(q) : Shows(q, k) <=> k <= at

AllShown(q) == \A k \in 2..ListLength(q) : Shows(q, k) /\ Reached(q, k)

Complete ==
  /\ \A q \in DOMAIN procs : Open(q) /\ q < p => ShownWhileReadable(q)
  /\ pc = "module" /\ Open(p) =>
       /\ FALSE \in isPPL(p) /\ Flink # NoEntry
       /\ FirstRound(p, Flink) \/ AllShown(p)

IInv ==
  /\ TypeOK /\ Progress /\ Position /\ Carried /\ Complete
  /\ OwnModulesWhereSwitched /\ FollowsListFromSecond /\ ColumnsFromBefore

-----------------------------------------------------------------------------
(* The processes and the entries of their lists                             *)

LEMMA ProcessType ==
  ASSUME TypeOK, NEW q \in DOMAIN procs
  PROVE  /\ Len(procs) \in Nat /\ q \in 1..Len(procs) /\ DOMAIN procs = 1..Len(procs)
         /\ procs[q] \in Process
         /\ ListLength(q) \in Nat /\ DOMAIN procs[q].modules = 1..ListLength(q)
         /\ \A k \in 1..ListLength(q) : procs[q].modules[k] \in Module
<1>1. procs \in Seq(Process) BY DllAssumption DEF TypeOK
<1>2. procs[q] \in Process BY <1>1
<1>3. procs[q].modules \in Seq(Module) BY <1>2 DEF Process
<1>. QED BY <1>1, <1>2, <1>3 DEF ListLength

LEMMA IsEntry ==
  ASSUME TypeOK, NEW c \in DOMAIN procs, NEW k \in 0..ListLength(c)
  PROVE  <<c, k>> \in Entries
<1>1. <<c, k>> \in {c} \X (0..Len(procs[c].modules)) BY DEF ListLength
<1>. QED BY <1>1 DEF Entries

LEMMA EntryParts ==
  ASSUME TypeOK, NEW e \in Entries
  PROVE  \/ e = Nowhere /\ e[1] = 0 /\ e[2] = NoEntry
         \/ e[1] \in DOMAIN procs /\ e[2] \in 0..ListLength(e[1]) /\ e = <<e[1], e[2]>>
<1>1. CASE e = Nowhere BY <1>1 DEF Nowhere
<1>2. CASE e # Nowhere
  <2>1. PICK c \in DOMAIN procs : e \in {c} \X (0..Len(procs[c].modules)) BY <1>2 DEF Entries
  <2>. QED BY <2>1 DEF ListLength
<1>. QED BY <1>1, <1>2

(* The list goes around.                                                    *)
LEMMA Successor ==
  ASSUME TypeOK, NEW c \in DOMAIN procs, NEW k \in 0..ListLength(c)
  PROVE  /\ Entry(c, k) \in 0..ListLength(c) /\ Entry(c, k) \in Nat /\ Entry(c, k) # NoEntry
         /\ Entry(c, k) = k + 1 \/ (Entry(c, k) = 0 /\ k = ListLength(c))
BY ProcessType DEF Entry, ListLength, NoEntry

(* The next position of the walk.                                           *)
LEMMA AdvanceParts ==
  ASSUME TypeOK, Walking
  PROVE  /\ context \in DOMAIN procs /\ context # 0 /\ Flink \in 0..ListLength(context)
         /\ Advance \in 0..ListLength(context)
         /\ Advance # Flink => Advance = Entry(context, Flink)
         /\ Flink # 0 => Advance = IF procs[context].modules[Flink].link
                                   THEN Entry(context, Flink) ELSE Flink
<1>1. <<context, Flink>> \in Entries /\ Flink # NoEntry BY DEF Walking, TypeOK
<1>2. <<context, Flink>>[1] = context /\ <<context, Flink>>[2] = Flink OBVIOUS
<1>3. context \in DOMAIN procs /\ Flink \in 0..ListLength(context)
  BY <1>1, <1>2, EntryParts
<1>4. Entry(context, Flink) \in 0..ListLength(context) /\ Entry(context, Flink) # Fault
  BY <1>3, Successor, FaultAssumption
<1>5. Advance \in {Flink, Entry(context, Flink)}
  BY <1>4 DEF Advance, ReadVirtual, LinkCell
<1>6. Flink # 0 => Advance = IF procs[context].modules[Flink].link
                             THEN Entry(context, Flink) ELSE Flink
  BY <1>4 DEF Advance, ReadVirtual, LinkCell
<1>7. context # 0 BY <1>3, ProcessType
<1>. QED BY <1>3, <1>4, <1>5, <1>6, <1>7

LEMMA ReachedBefore ==
  ASSUME NEW q, NEW k \in Nat, NEW j \in Nat, j <= k, Reached(q, k)
  PROVE  Reached(q, j)
BY DEF Reached

LEMMA ColumnsType ==
  ASSUME TypeOK, NEW c \in DOMAIN procs, NEW k \in 0..ListLength(c)
  PROVE  /\ Columns(c, k) \in [Column -> Entries]
         /\ \A f \in Column :
              Columns(c, k)[f] = IF k = 0 \/ f \in procs[c].modules[k].data THEN <<c, k>>
                                 ELSE IF f \in Kept THEN columns[f] ELSE Nowhere
<1>1. <<c, k>> \in Entries /\ Nowhere \in Entries BY IsEntry DEF Entries
<1>2. \A f \in Column : columns[f] \in Entries BY DEF TypeOK
<1>3. \A f \in Column :
        Columns(c, k)[f] = IF k = 0 \/ f \in procs[c].modules[k].data THEN <<c, k>>
                           ELSE IF f \in Kept THEN columns[f] ELSE Nowhere
  BY DEF Columns
<1>4. Columns(c, k) = [f \in Column |-> Columns(c, k)[f]] BY DEF Columns
<1>. QED BY <1>1, <1>2, <1>3, <1>4

LEMMA LineParts ==
  ASSUME TypeOK, NEW n \in DOMAIN rows
  PROVE  /\ rows[n] \in Line /\ rows[n].process \in DOMAIN procs /\ rows[n].process \in Nat
         /\ rows \in Seq(Line) /\ Len(rows) \in Nat /\ DOMAIN rows = 1..Len(rows)
<1>1. rows \in Seq(Line) BY DEF TypeOK, Line
<1>2. rows[n] \in Line /\ DOMAIN rows = 1..Len(rows) /\ Len(rows) \in Nat BY <1>1
<1>3. procs \in Seq(Process) BY DllAssumption DEF TypeOK
<1>. QED BY <1>1, <1>2, <1>3 DEF Line

-----------------------------------------------------------------------------
(* IInv is inductive.                                                       *)

LEMMA InitIInv == Init => IInv
<1>. SUFFICES ASSUME Init PROVE IInv OBVIOUS
<1>1. procs \in Targets /\ procs \in Seq(Process) /\ Len(procs) \in Nat BY DllAssumption DEF Init
<1>2. Nowhere \in Entries BY DEF Entries
<1>3. rows = <<>> /\ DOMAIN rows = {} /\ Len(rows) = 0 /\ rows \in Seq(Line) /\ pc = "process" /\ p = 1
  BY DEF Init
<1>4. TypeOK BY <1>1, <1>2, <1>3 DEF Init, TypeOK, Line
<1>5. Progress /\ Position /\ Carried BY <1>3 DEF Progress, Position, Carried, Walking
<1>6. Complete BY <1>1, <1>3 DEF Complete
<1>. QED
  BY <1>3, <1>4, <1>5, <1>6
  DEF IInv, OwnModulesWhereSwitched, FollowsListFromSecond, ColumnsFromBefore

(* Lines that are there stay, and with them all that is said of them.       *)
LEMMA LinesKept ==
  ASSUME IInv, UNCHANGED <<procs, rows>>
  PROVE  /\ Entries' = Entries /\ Line' = Line /\ (rows \in Seq(Line))'
         /\ OwnModulesWhereSwitched' /\ FollowsListFromSecond' /\ ColumnsFromBefore'
         /\ \A q, k : FirstRound(q, k)' = FirstRound(q, k)
         /\ \A q : /\ Open(q)' = Open(q) /\ isPPL(q)' = isPPL(q)
                   /\ ShownWhileReadable(q)' = ShownWhileReadable(q)
                   /\ AllShown(q)' = AllShown(q)
         /\ \A q, k : Entry(q, k)' = Entry(q, k)
         /\ \A q : ListLength(q)' = ListLength(q)
<1>1. Entries' = Entries BY DEF Entries
<1>2. Line' = Line BY <1>1 DEF Line
<1>3. (rows \in Seq(Line))' BY <1>2 DEF IInv, TypeOK, Line
<1>4. OwnModulesWhereSwitched' BY DEF IInv, OwnModulesWhereSwitched
<1>5. \A q, k : Entry(q, k)' = Entry(q, k) BY DEF Entry
<1>6. FollowsListFromSecond' BY <1>5 DEF IInv, FollowsListFromSecond
<1>7. ColumnsFromBefore' BY DEF IInv, ColumnsFromBefore
<1>8. \A q, k : Shows(q, k)' = Shows(q, k) /\ Reached(q, k)' = Reached(q, k) BY DEF Shows, Reached
<1>9. \A q : Open(q)' = Open(q) /\ isPPL(q)' = isPPL(q) BY DEF Open, isPPL
<1>10. \A q : ListLength(q)' = ListLength(q) BY DEF ListLength
<1>11. \A q, k : FirstRound(q, k)' = FirstRound(q, k) BY <1>8, <1>10 DEF FirstRound
<1>12. \A q : /\ ShownWhileReadable(q)' = ShownWhileReadable(q)
              /\ AllShown(q)' = AllShown(q)
  BY <1>8, <1>9, <1>10 DEF ShownWhileReadable, AllShown
<1>. QED BY <1>1, <1>2, <1>3, <1>4, <1>5, <1>6, <1>7, <1>9, <1>10, <1>11, <1>12

(* The words of the loop stay what their types say.                         *)
LEMMA WordsType ==
  ASSUME TypeOK, p \in DOMAIN procs
  PROVE  /\ ReadVirtual(PebCell(p), Peb) \in {0} \cup DOMAIN procs
         /\ Switched \in {0} \cup DOMAIN procs
         /\ \A b : ReadVirtual(LdrCell(b, Switched), Ldr) \in {0, 1} \/ Switched = 0
BY ProcessType DEF TypeOK, ReadVirtual, PebCell, LdrCell, Switched, Process

(* The outer loop leaves a process without a PEB, or a protected one.       *)
LEMMA SkipIInv == ASSUME IInv, SkipWithoutPeb \/ SkipProtected PROVE IInv'
<1>1. /\ TypeOK /\ Progress /\ Complete
      /\ UNCHANGED <<procs, Ldr, Flink, columns, rows, pc>> /\ pc = "process" /\ p' = p + 1
      /\ p \in 1..(Len(procs) + 1) /\ p <= Len(procs)
      /\ Peb' = ReadVirtual(PebCell(p), Peb)
      /\ context' \in {context, Switched}
      /\ Peb' = 0 \/ TRUE \in isPPL(p)
  <2>1. TypeOK /\ Progress /\ Complete /\ p \in 1..(Len(procs) + 1) BY DEF IInv, TypeOK
  <2>2. CASE SkipWithoutPeb BY <2>1, <2>2 DEF SkipWithoutPeb
  <2>3. CASE SkipProtected BY <2>1, <2>3 DEF SkipProtected
  <2>. QED BY <2>2, <2>3
<1>2. Len(procs) \in Nat /\ p \in Nat /\ p \in DOMAIN procs /\ p \in 1..Len(procs)
  <2>1. procs \in Seq(Process) BY <1>1, DllAssumption DEF TypeOK
  <2>. QED BY <1>1, <2>1
<1>3. Open(p) => ShownWhileReadable(p)
  <2>1. p # Fault /\ p # 0 BY <1>2, FaultAssumption
  <2>2. Open(p) => Peb' # 0 BY <1>1, <2>1 DEF Open, PebCell, ReadVirtual
  <2>3. \A n \in DOMAIN rows : rows[n].process # p BY <1>1, <1>2, LineParts DEF Progress
  <2>. QED BY <1>1, <2>2, <2>3 DEF ShownWhileReadable
<1>4. TypeOK'
  <2>1. p' \in 1..(Len(procs) + 1) BY <1>1, <1>2
  <2>2. Peb' \in {0} \cup DOMAIN procs /\ context' \in {0} \cup DOMAIN procs
    BY <1>1, <1>2, WordsType DEF TypeOK
  <2>. QED BY <1>1, <2>1, <2>2, LinesKept DEF TypeOK, Line
<1>5. Progress'
  <2>1. \A n \in DOMAIN rows : rows[n].process <= p + 1 /\ rows[n].process < p + 1
    BY <1>1, LineParts DEF Progress
  <2>. QED BY <1>1, <2>1 DEF Progress
<1>6. Position' /\ Carried' BY <1>1 DEF Position, Carried, Walking
<1>7. Complete'
  <2>1. \A q \in DOMAIN procs : q < p + 1 => q = p \/ q < p BY <1>1, <1>2, ProcessType
  <2>. QED BY <1>1, <1>3, <2>1, LinesKept DEF Complete
<1>. QED BY <1>1, <1>4, <1>5, <1>6, <1>7, LinesKept DEF IInv

LEMMA FinishIInv == ASSUME IInv, Finish PROVE IInv'
<1>1. /\ TypeOK /\ Progress /\ Complete /\ UNCHANGED <<procs, p, context, Peb, Ldr, Flink, columns, rows>>
      /\ pc = "process" /\ pc' = "done" /\ p > Len(procs) /\ p \in 1..(Len(procs) + 1)
  BY DEF IInv, TypeOK, Finish
<1>2. p = Len(procs) + 1
  <2>1. procs \in Seq(Process) BY <1>1, DllAssumption DEF TypeOK
  <2>. QED BY <1>1, <2>1
<1>3. TypeOK' BY <1>1, LinesKept DEF TypeOK, Line
<1>4. Progress' BY <1>1, <1>2 DEF Progress
<1>5. Position' /\ Carried' BY <1>1 DEF Position, Carried, Walking
<1>6. Complete' BY <1>1, LinesKept DEF Complete
<1>. QED BY <1>1, <1>3, <1>4, <1>5, <1>6, LinesKept DEF IInv

(* A walk begins: at the first entry of a list, if there is one to be read, *)
(* with no line of this process yet, and with no column but a name.         *)
LEMMA EnterIInv == ASSUME IInv, Enter PROVE IInv'
<1>1. /\ TypeOK /\ Progress /\ Complete /\ p \in 1..(Len(procs) + 1)
      /\ UNCHANGED <<procs, p, rows>> /\ pc = "process" /\ pc' = "module" /\ p <= Len(procs)
      /\ Peb' = ReadVirtual(PebCell(p), Peb) /\ Peb' # 0 /\ FALSE \in isPPL(p) /\ context' = Switched
      /\ Ldr' = ReadVirtual(LdrCell(Peb', context'), Ldr)
      /\ Flink' = (IF Ldr' = 1 /\ context' # 0 /\ procs[context'].head THEN Entry(context', 0) ELSE NoEntry)
  BY DEF IInv, TypeOK, Enter
<1>2. Len(procs) \in Nat /\ p \in Nat /\ p \in DOMAIN procs /\ DOMAIN procs = 1..Len(procs)
  <2>1. procs \in Seq(Process) BY <1>1, DllAssumption DEF TypeOK
  <2>. QED BY <1>1, <2>1
<1>3. /\ Peb' \in {0} \cup DOMAIN procs /\ context' \in {0} \cup DOMAIN procs
      /\ procs[p].switches => context' = p
  BY <1>1, <1>2, WordsType DEF Switched
<1>4. PICK name \in {columns["DllName"], Nowhere} :
        columns' = [f \in Column |-> IF f = "DllName" THEN name ELSE Nowhere]
  BY DEF Enter
<1>5. Ldr' \in {0, 1}
  <2>1. LdrCell(Peb', context') \in {0, 1, Fault}
    <3>1. Peb' \in DOMAIN procs => procs[Peb'].ldr \in {0, 1, Fault} BY <1>1, ProcessType DEF Process
    <3>. QED BY <1>1, <1>3, <3>1 DEF LdrCell
  <2>. QED BY <1>1, <2>1 DEF TypeOK, ReadVirtual
<1>6. /\ Flink' # NoEntry => /\ context' \in DOMAIN procs /\ Flink' \in 0..ListLength(context')
                             /\ Flink' = Entry(context', 0) /\ Flink' < 2
  <2>1. ASSUME context' # 0
        PROVE  /\ context' \in DOMAIN procs /\ Entry(context', 0) \in 0..ListLength(context')
               /\ Entry(context', 0) < 2
    <3>1. context' \in DOMAIN procs /\ 0 \in 0..ListLength(context') BY <1>1, <1>3, <2>1, ProcessType
    <3>2. Entry(context', 0) \in 0..ListLength(context') BY <1>1, <3>1, Successor
    <3>3. Entry(context', 0) \in {0, 0 + 1} BY DEF Entry
    <3>. QED BY <3>1, <3>2, <3>3
  <2>. QED BY <1>1, <2>1
<1>7. columns' \in [Column -> Entries]
  <2>1. Nowhere \in Entries /\ name \in Entries
    BY <1>1 DEF TypeOK, Entries, Column
  <2>. QED BY <1>4, <2>1
<1>8. TypeOK'
  <2>1. Flink' # NoEntry => <<context', Flink'>> \in Entries BY <1>1, <1>6, IsEntry
  <2>. QED BY <1>1, <1>3, <1>5, <1>7, <2>1, LinesKept DEF TypeOK, Line
<1>9. \A n \in DOMAIN rows : rows[n].process \in Nat /\ rows[n].process < p
  BY <1>1, LineParts DEF Progress
<1>10. Progress' BY <1>1, <1>2, <1>3, <1>9 DEF Progress
<1>11. Position'
  <2>1. Len(rows) > 0 => rows[Len(rows)].process # p
    <3>1. Len(rows) \in Nat /\ DOMAIN rows = 1..Len(rows) BY <1>1 DEF TypeOK
    <3>. QED BY <1>2, <1>9, <3>1
  <2>2. Entry(context, 0)' = Entry(context', 0) BY <1>1 DEF Entry
  <2>. QED BY <1>1, <1>6, <2>1, <2>2 DEF Position, Walking
<1>12. Carried'
  <2>1. \A f \in Column : f # "DllName" => columns'[f] = Nowhere BY <1>4
  <2>2. \A f \in Column : columns'[f][1] # 0 => f = "DllName" BY <2>1 DEF Nowhere
  <2>3. Flink' # NoEntry => \A j \in 2..Flink' : FALSE BY <1>1, <1>3, <1>6, ProcessType
  <2>. QED BY <2>2, <2>3 DEF Carried, Walking
<1>13. Complete'
  <2>1. ASSUME Open(p) PROVE Flink' = Entry(p, 0) /\ Flink' # NoEntry
    <3>1. /\ procs[p].peb = 1 /\ procs[p].switches /\ procs[p].ldr = 1 /\ procs[p].head
      BY <2>1 DEF Open
    <3>2. p # Fault /\ p # 0 /\ 1 # Fault BY <1>2, FaultAssumption
    <3>3. context' = p /\ Peb' = p BY <1>1, <1>3, <3>1, <3>2 DEF PebCell, ReadVirtual
    <3>4. Ldr' = 1 BY <1>1, <3>1, <3>2, <3>3 DEF LdrCell, ReadVirtual
    <3>5. 0 \in 0..ListLength(p) BY <1>1, <1>2, ProcessType
    <3>. QED BY <1>1, <1>2, <3>1, <3>2, <3>3, <3>4, <3>5, Successor
  <2>2. ASSUME Open(p) PROVE FirstRound(p, Flink') \/ AllShown(p)
    <3>1. ListLength(p) \in Nat BY <1>1, <1>2, ProcessType
    <3>2. CASE ListLength(p) = 0 BY <3>2 DEF AllShown
    <3>3. CASE ListLength(p) # 0
      <4>1. Flink' = 1 BY <2>1, <2>2, <3>1, <3>3 DEF Entry, ListLength
      <4>2. \A k \in 2..ListLength(p) : ~Shows(p, k) /\ ~(k <= 1) BY <1>2, <1>9, <3>1 DEF Shows
      <4>3. Reached(p, 1) BY DEF Reached
      <4>. QED BY <4>1, <4>2, <4>3 DEF FirstRound
    <3>. QED BY <3>2, <3>3
  <2>3. \A q \in DOMAIN procs : Open(q) /\ q < p => ShownWhileReadable(q)
    BY <1>1 DEF Complete
  <2>. QED BY <1>1, <2>1, <2>2, <2>3, LinesKept DEF Complete
<1>. QED BY <1>1, <1>8, <1>10, <1>11, <1>12, <1>13, LinesKept DEF IInv

(* The walk goes on to the next entry.  What is then carried is of this     *)
(* entry, or carried before.                                                *)
LEMMA Onward ==
  ASSUME IInv, Walking, ~Stuck, columns' = Columns(context, Advance), NEW k, k = Advance
  PROVE  /\ context \in DOMAIN procs /\ context \in Nat \ {0} /\ k \in 0..ListLength(context) /\ k \in Nat
         /\ Flink \in Nat /\ k = Entry(context, Flink)
         /\ k = Flink + 1 \/ (k = 0 /\ Flink = ListLength(context))
         /\ columns' \in [Column -> Entries] /\ <<context, k>> \in Entries
         /\ \A f \in Column : columns'[f] # <<context, k>> =>
              /\ k > 0 /\ f \notin procs[context].modules[k].data
              /\ columns'[f] # Nowhere => f \in Kept /\ columns'[f] = columns[f]
              /\ columns'[f][1] \notin {0, context} =>
                   f = "DllName" /\ \A j \in 2..k : f \notin procs[context].modules[j].data
<1>1. TypeOK /\ Carried /\ Flink # NoEntry BY DEF IInv, Walking
<1>2. /\ context \in DOMAIN procs /\ context # 0 /\ Flink \in 0..ListLength(context)
      /\ k \in 0..ListLength(context) /\ k = Entry(context, Flink)
  BY <1>1, AdvanceParts DEF Stuck
<1>3. ListLength(context) \in Nat /\ context \in Nat BY <1>1, <1>2, ProcessType
<1>4. k = Flink + 1 \/ (k = 0 /\ Flink = ListLength(context)) BY <1>1, <1>2, Successor
<1>5. columns' \in [Column -> Entries] /\ <<context, k>> \in Entries BY <1>1, <1>2, ColumnsType, IsEntry
<1>6. ASSUME NEW f \in Column, columns'[f] # <<context, k>>
      PROVE  /\ k > 0 /\ f \notin procs[context].modules[k].data
             /\ columns'[f] # Nowhere => f \in Kept /\ columns'[f] = columns[f]
             /\ columns'[f][1] \notin {0, context} =>
                  f = "DllName" /\ \A j \in 2..k : f \notin procs[context].modules[j].data
  <2>1. columns'[f] = IF k = 0 \/ f \in procs[context].modules[k].data THEN <<context, k>>
                      ELSE IF f \in Kept THEN columns[f] ELSE Nowhere
    BY <1>1, <1>2, ColumnsType
  <2>2. k # 0 /\ f \notin procs[context].modules[k].data
        /\ (columns'[f] # Nowhere => f \in Kept /\ columns'[f] = columns[f])
    BY <1>6, <2>1
  <2>3. ASSUME columns'[f][1] \notin {0, context}, NEW j \in 2..k
        PROVE  f = "DllName" /\ f \notin procs[context].modules[j].data
    <3>1. columns[f][1] \notin {0, context}
      <4>1. Nowhere[1] = 0 BY DEF Nowhere
      <4>. QED BY <2>2, <2>3, <4>1
    <3>2. f = "DllName" /\ \A l \in 2..Flink : f \notin procs[context].modules[l].data
      BY <1>1, <3>1 DEF Carried
    <3>3. j = k \/ j \in 2..Flink BY <1>2, <1>3, <1>4, <2>2
    <3>. QED BY <2>2, <3>2, <3>3
  <2>4. columns'[f][1] \notin {0, context} => f = "DllName"
    <3>1. Nowhere[1] = 0 BY DEF Nowhere
    <3>. QED BY <1>1, <2>2, <3>1 DEF Carried
  <2>5. k > 0 BY <1>2, <1>3, <2>2
  <2>. QED BY <2>2, <2>3, <2>4, <2>5
<1>. QED BY <1>1, <1>2, <1>3, <1>4, <1>5, <1>6

(* A walk ends: at the first entry that cannot be reached, or around.       *)
LEMMA LeaveIInv == ASSUME IInv, Leave PROVE IInv'
<1>1. /\ TypeOK /\ Progress /\ Complete /\ p \in 1..(Len(procs) + 1)
      /\ UNCHANGED <<procs, context, Peb, Ldr, rows>> /\ pc = "module" /\ pc' = "process" /\ p' = p + 1
      /\ \/ Stuck /\ UNCHANGED <<Flink, columns>>
         \/ ~Stuck /\ Ends(Advance) /\ Flink' = Advance /\ columns' = Columns(context, Advance)
  BY DEF IInv, TypeOK, Leave
<1>2. Len(procs) \in Nat /\ p \in Nat /\ p \in DOMAIN procs
  <2>1. procs \in Seq(Process) BY <1>1, DllAssumption DEF TypeOK
  <2>2. p <= Len(procs) BY <1>1 DEF Progress
  <2>. QED BY <1>1, <2>1, <2>2
<1>3. PICK k : k = Advance OBVIOUS
<1>4. columns' \in [Column -> Entries]
  <2>1. CASE UNCHANGED columns BY <1>1, <2>1 DEF TypeOK
  <2>2. CASE ~Stuck /\ columns' = Columns(context, Advance)
    <3>1. Walking BY <1>1, <2>2 DEF Walking, Stuck
    <3>. QED BY <1>3, <2>2, <3>1, Onward
  <2>. QED BY <1>1, <2>1, <2>2
<1>5. TypeOK'
  <2>1. p' \in 1..(Len(procs) + 1) BY <1>1, <1>2
  <2>. QED BY <1>1, <1>4, <2>1, LinesKept DEF TypeOK, Line
<1>6. Progress'
  <2>1. \A n \in DOMAIN rows : rows[n].process <= p + 1 /\ rows[n].process < p + 1
    BY <1>1, <1>2, LineParts DEF Progress
  <2>. QED BY <1>1, <2>1 DEF Progress
<1>7. Position' /\ Carried' BY <1>1 DEF Position, Carried, Walking
<1>8. ASSUME Open(p), NEW j \in 2..ListLength(p) PROVE Shows(p, j) <=> Reached(p, j)
  <2>1. /\ Flink # NoEntry /\ context = p
        /\ FirstRound(p, Flink) \/ AllShown(p)
    BY <1>1, <1>8 DEF Complete, Progress, Open
  <2>2. Walking BY <1>1, <2>1 DEF Walking
  <2>3. /\ Flink \in 0..ListLength(p) /\ ListLength(p) \in Nat
        /\ Flink # 0 => k = IF procs[p].modules[Flink].link THEN Entry(p, Flink) ELSE Flink
    BY <1>1, <1>2, <1>3, <2>1, <2>2, AdvanceParts, ProcessType
  <2>4. CASE AllShown(p) BY <1>8, <2>4 DEF AllShown
  <2>5. CASE FirstRound(p, Flink)
    <3>1. Flink > 0 /\ Reached(p, Flink) /\ (Shows(p, j) <=> j <= Flink)
      BY <1>8, <2>5 DEF FirstRound
    <3>2. CASE j <= Flink
      <4>1. Reached(p, j) BY <2>3, <3>1, <3>2, ReachedBefore
      <4>. QED BY <3>1, <3>2, <4>1
    <3>3. CASE j > Flink
      <4>1. Entry(p, Flink) = Flink + 1 BY <2>3, <3>3 DEF Entry, ListLength
      <4>2. CASE k = Flink
        <5>1. ~procs[p].modules[Flink].link BY <2>3, <3>1, <4>1, <4>2
        <5>2. Flink \in 1..(j - 1) BY <2>3, <3>1, <3>3
        <5>. QED BY <3>1, <3>3, <5>1, <5>2 DEF Reached
      <4>3. CASE Ends(k) /\ k # Flink
        <5>1. k = Flink + 1 BY <2>3, <3>1, <4>1, <4>3
        <5>2. k # 0 /\ k \in 2..j BY <2>3, <3>1, <3>3, <5>1
        <5>3. ~procs[p].modules[k].size BY <2>1, <4>3, <5>2 DEF Ends, NoPath, SizeOfImage
        <5>4. ~(j <= Flink) BY <2>3, <3>3
        <5>. QED BY <3>1, <5>2, <5>3, <5>4 DEF Reached
      <4>4. k = Flink \/ Ends(k)
        <5>1. Stuck => k = Flink BY <1>3, <2>1 DEF Stuck
        <5>. QED BY <1>1, <1>3, <5>1
      <4>. QED BY <4>2, <4>3, <4>4
    <3>. QED BY <2>3, <3>2, <3>3
  <2>. QED BY <2>1, <2>4, <2>5
<1>9. Complete'
  <2>1. Open(p) => ShownWhileReadable(p)
    BY <1>1, <1>8 DEF ShownWhileReadable, Complete, ListLength
  <2>2. ASSUME NEW q \in DOMAIN procs, Open(q), q < p + 1 PROVE ShownWhileReadable(q)
    <3>1. q \in Nat BY <1>1, ProcessType
    <3>2. q = p \/ q < p BY <1>2, <2>2, <3>1
    <3>. QED BY <1>1, <2>1, <2>2, <3>2 DEF Complete
  <2>. QED BY <1>1, <2>2, LinesKept DEF Complete
<1>. QED BY <1>1, <1>5, <1>6, <1>7, <1>9, LinesKept DEF IInv

(* A line is printed.                                                       *)
LEMMA VisitIInv == ASSUME IInv, Visit PROVE IInv'
<1>. DEFINE line == [process |-> p, module |-> <<context, Advance>>, columns |-> columns']
<1>1. /\ TypeOK /\ Progress /\ Position /\ Carried /\ Complete
      /\ OwnModulesWhereSwitched /\ FollowsListFromSecond /\ ColumnsFromBefore
      /\ pc = "module" /\ ~Stuck /\ ~Ends(Advance)
      /\ Flink' = Advance /\ columns' = Columns(context, Advance)
      /\ rows' = Append(rows, line) /\ UNCHANGED <<procs, p, context, Peb, Ldr, pc>>
  BY DEF IInv, Visit
<1>2. Walking BY <1>1 DEF Walking, Stuck
<1>3. PICK k : k = Advance OBVIOUS
<1>4. /\ context \in DOMAIN procs /\ context \in Nat \ {0} /\ k \in 0..ListLength(context) /\ k \in Nat
      /\ Flink \in Nat /\ k = Entry(context, Flink)
      /\ k = Flink + 1 \/ (k = 0 /\ Flink = ListLength(context))
      /\ columns' \in [Column -> Entries] /\ <<context, k>> \in Entries
  BY <1>1, <1>2, <1>3, Onward
<1>5. \A f \in Column : columns'[f] # <<context, k>> =>
        /\ k > 0 /\ f \notin procs[context].modules[k].data
        /\ columns'[f] # Nowhere => f \in Kept /\ columns'[f] = columns[f]
        /\ columns'[f][1] \notin {0, context} =>
             f = "DllName" /\ \A j \in 2..k : f \notin procs[context].modules[j].data
  BY <1>1, <1>2, <1>3, Onward
<1>6. Len(procs) \in Nat /\ p \in 1..Len(procs) /\ p \in DOMAIN procs /\ p \in Nat
  <2>1. procs \in Seq(Process) BY <1>1, DllAssumption DEF TypeOK
  <2>2. p <= Len(procs) /\ p \in 1..(Len(procs) + 1) BY <1>1 DEF Progress, TypeOK
  <2>. QED BY <2>1, <2>2
<1>7. line \in Line BY <1>3, <1>4, <1>6 DEF Line
<1>8. /\ rows \in Seq(Line) /\ rows' \in Seq(Line) /\ Len(rows) \in Nat
      /\ DOMAIN rows = 1..Len(rows) /\ DOMAIN rows' = 1..(Len(rows) + 1) /\ Len(rows') = Len(rows) + 1
      /\ \A n \in DOMAIN rows : rows'[n] = rows[n]
      /\ rows'[Len(rows) + 1] = line
  <2>1. rows \in Seq(Line) BY <1>1 DEF TypeOK, Line
  <2>. HIDE DEF line
  <2>. QED BY <1>1, <1>7, <2>1
<1>9. \A n \in DOMAIN rows' : n \in DOMAIN rows \/ (n = Len(rows) + 1 /\ n \notin DOMAIN rows) BY <1>8
<1>10. /\ Entries' = Entries /\ Line' = Line /\ \A q, j : Entry(q, j)' = Entry(q, j)
       /\ \A q : Open(q)' = Open(q) /\ ListLength(q)' = ListLength(q) /\ isPPL(q)' = isPPL(q)
  BY <1>1 DEF Entries, Line, Entry, Open, ListLength, isPPL
<1>. HIDE DEF line
<1>11. /\ line.process = p /\ line.module = <<context, k>> /\ line.columns = columns'
       /\ line.module[1] = context /\ line.module[2] = k
  BY <1>3 DEF line
<1>12. TypeOK' BY <1>1, <1>3, <1>4, <1>8, <1>10 DEF TypeOK, Line
<1>13. Progress'
  <2>1. ASSUME NEW n \in DOMAIN rows' PROVE rows'[n].process <= p
    <3>1. CASE n \in DOMAIN rows BY <1>1, <1>8, <3>1 DEF Progress
    <3>2. CASE n = Len(rows) + 1 BY <1>6, <1>8, <1>11, <3>2
    <3>. QED BY <1>9, <3>1, <3>2
  <2>. QED BY <1>1, <2>1 DEF Progress
<1>14. Position'
  <2>1. Len(rows') > 0 /\ rows'[Len(rows')] = line BY <1>8
  <2>. QED BY <1>1, <1>3, <1>11, <2>1 DEF Position, Walking
<1>15. Carried'
  <2>1. ASSUME NEW f \in Column, columns'[f][1] \notin {0, context}
        PROVE  f = "DllName" /\ \A j \in 2..k : f \notin procs[context].modules[j].data
    <3>1. columns'[f] # <<context, k>> BY <2>1
    <3>. QED BY <1>5, <2>1, <3>1
  <2>. QED BY <1>1, <1>3, <2>1 DEF Carried
<1>. DEFINE Then(q, j) == \E n \in DOMAIN rows' : rows'[n].process = q /\ rows'[n].module[2] = j
<1>16. /\ \A q, j : q # p => (Then(q, j) <=> Shows(q, j))
       /\ \A q : q # p /\ (\A n \in DOMAIN rows : rows[n].process # q) =>
                  \A n \in DOMAIN rows' : rows'[n].process # q
       /\ \A j : Then(p, j) <=> Shows(p, j) \/ j = k
  <2>1. DOMAIN rows \subseteq DOMAIN rows' /\ Len(rows) + 1 \in DOMAIN rows' BY <1>8
  <2>. QED BY <1>8, <1>9, <1>11, <2>1 DEF Shows
<1>17. Complete'
  <2>1. ASSUME NEW q \in DOMAIN procs, Open(q), q < p PROVE ShownWhileReadable(q)'
    <3>1. ShownWhileReadable(q) /\ q # p BY <1>1, <1>6, <2>1 DEF Complete
    <3>2. CASE FALSE \in isPPL(q) /\ \A j \in 2..Len(procs[q].modules) : Shows(q, j) <=> Reached(q, j)
      <4>1. \A j \in 2..Len(procs[q].modules) : Then(q, j) <=> Reached(q, j) BY <1>16, <3>1, <3>2
      <4>. QED BY <1>1, <1>10, <3>2, <4>1 DEF ShownWhileReadable, Shows, Reached
    <3>3. CASE TRUE \in isPPL(q) /\ \A n \in DOMAIN rows : rows[n].process # q
      <4>1. \A n \in DOMAIN rows' : rows'[n].process # q BY <1>16, <3>1, <3>3
      <4>. QED BY <1>10, <3>3, <4>1 DEF ShownWhileReadable
    <3>. QED BY <3>1, <3>2, <3>3 DEF ShownWhileReadable
  <2>. DEFINE round == k > 0 /\ Reached(p, k) /\ \A j \in 2..ListLength(p) : Then(p, j) <=> j <= k
              all == \A j \in 2..ListLength(p) : Then(p, j) /\ Reached(p, j)
  <2>2. ASSUME Open(p) PROVE FALSE \in isPPL(p) /\ (round \/ all)
    <3>1. /\ context = p /\ ListLength(p) \in Nat /\ FALSE \in isPPL(p)
          /\ FirstRound(p, Flink) \/ AllShown(p)
      BY <1>1, <1>6, <2>2, ProcessType DEF Progress, Open, Complete
    <3>2. CASE AllShown(p) BY <1>16, <3>1, <3>2 DEF AllShown
    <3>3. CASE FirstRound(p, Flink)
      <4>1. /\ Flink > 0 /\ Reached(p, Flink)
            /\ \A j \in 2..ListLength(p) : Shows(p, j) <=> j <= Flink
        BY <3>3 DEF FirstRound
      <4>2. CASE k = 0
        <5>1. ASSUME NEW j \in 2..ListLength(p) PROVE Then(p, j) /\ Reached(p, j)
          <6>1. j \in Nat /\ j <= Flink BY <1>4, <3>1, <4>2, <5>1
          <6>2. Reached(p, j) BY <1>4, <4>1, <6>1, ReachedBefore
          <6>. QED BY <1>16, <4>1, <6>1, <6>2
        <5>. QED BY <3>1, <5>1
      <4>3. CASE k = Flink + 1
        <5>1. procs[p].modules[Flink].link
          <6>1. Flink # 0 /\ k # Flink BY <1>4, <4>1, <4>3
          <6>. QED BY <1>1, <1>2, <1>3, <3>1, <6>1, AdvanceParts
        <5>2. procs[p].modules[k].size
          <6>1. k # 0 BY <1>4, <4>3
          <6>. QED BY <1>1, <1>3, <3>1, <6>1 DEF Ends, SizeOfImage
        <5>3. Reached(p, k)
          <6>1. \A j \in 1..(k - 1) : j = Flink \/ j \in 1..(Flink - 1) BY <1>4, <4>3
          <6>2. \A j \in 2..k : j = k \/ j \in 2..Flink BY <1>4, <4>3
          <6>. QED BY <4>1, <5>1, <5>2, <6>1, <6>2 DEF Reached
        <5>4. \A j \in 2..ListLength(p) : j <= k <=> j <= Flink \/ j = k BY <1>4, <3>1, <4>3
        <5>5. \A j \in 2..ListLength(p) : Then(p, j) <=> j <= k BY <1>16, <4>1, <5>4
        <5>6. k > 0 BY <1>4, <4>3
        <5>. QED BY <3>1, <5>3, <5>5, <5>6
      <4>. QED BY <1>4, <3>1, <4>2, <4>3
    <3>. QED BY <3>1, <3>2, <3>3
  <2>3. k # NoEntry BY <1>4 DEF NoEntry
  <2>4. round => FirstRound(p, Flink)'
    BY <1>1, <1>3, <1>10 DEF FirstRound, Shows, Reached, ListLength
  <2>5. all => AllShown(p)'
    BY <1>1, <1>10 DEF AllShown, Shows, Reached, ListLength
  <2>6. Open(p)' => Open(p) BY <1>1 DEF Open
  <2>7. (FALSE \in isPPL(p))' <=> FALSE \in isPPL(p) BY <1>1 DEF isPPL
  <2>. HIDE DEF round, all
  <2>. QED BY <1>1, <1>3, <1>10, <2>1, <2>2, <2>3, <2>4, <2>5, <2>6, <2>7 DEF Complete
<1>. HIDE DEF Then
<1>18. OwnModulesWhereSwitched'
  <2>1. procs[p].switches => context = p BY <1>1 DEF Progress
  <2>2. ASSUME NEW n \in DOMAIN rows', rows'[n].module[1] # rows'[n].process
        PROVE  ~procs[rows'[n].process].switches
    <3>1. CASE n \in DOMAIN rows BY <1>1, <1>8, <2>2, <3>1 DEF OwnModulesWhereSwitched
    <3>2. CASE n = Len(rows) + 1 BY <1>8, <1>11, <2>1, <2>2, <3>2
    <3>. QED BY <1>9, <3>1, <3>2
  <2>. QED BY <1>1, <2>2 DEF OwnModulesWhereSwitched
<1>19. FollowsListFromSecond'
  <2>. DEFINE before(n) == IF n > 1 /\ rows'[n - 1].process = rows'[n].process
                           THEN rows'[n - 1].module[2] ELSE Entry(rows'[n].module[1], 0)
  <2>1. ASSUME NEW n \in DOMAIN rows' PROVE rows'[n].module[2] = Entry(rows'[n].module[1], before(n))
    <3>1. CASE n \in DOMAIN rows
      <4>1. rows'[n] = rows[n] /\ (n > 1 => rows'[n - 1] = rows[n - 1])
        <5>1. n > 1 => n - 1 \in DOMAIN rows BY <1>8, <3>1
        <5>. QED BY <1>8, <3>1, <5>1
      <4>. QED BY <1>1, <3>1, <4>1 DEF FollowsListFromSecond
    <3>2. CASE n = Len(rows) + 1
      <4>1. rows'[n] = line BY <1>8, <3>2
      <4>2. before(n) = Flink
        <5>1. n - 1 = Len(rows) /\ (n > 1 <=> Len(rows) > 0) BY <1>8, <3>2
        <5>2. Len(rows) > 0 => rows'[n - 1] = rows[Len(rows)] BY <1>8, <5>1
        <5>3. <<context, Flink>>[2] = Flink OBVIOUS
        <5>. QED BY <1>1, <1>2, <1>11, <4>1, <5>1, <5>2, <5>3 DEF Position
      <4>. QED BY <1>4, <1>11, <4>1, <4>2
    <3>. QED BY <1>9, <3>1, <3>2
  <2>. QED BY <1>10, <2>1 DEF FollowsListFromSecond
<1>20. ColumnsFromBefore'
  <2>. DEFINE Explained(row, f) ==
         LET c == row.module[1]  j == row.module[2]  from == row.columns[f] IN
         from # row.module =>
           /\ j > 0 /\ f \notin procs[c].modules[j].data
           /\ from # Nowhere => f \in {"DllName", "RefCnt"}
           /\ from[1] \notin {0, c} => f = "DllName" /\ \A l \in 2..j : f \notin procs[c].modules[l].data
  <2>1. \A n \in DOMAIN rows, f \in Column : Explained(rows[n], f) BY <1>1 DEF ColumnsFromBefore
  <2>2. \A f \in Column : Explained(line, f) BY <1>5, <1>11 DEF Kept
  <2>3. ASSUME NEW n \in DOMAIN rows', NEW f \in Column PROVE Explained(rows'[n], f)
    <3>. HIDE DEF Explained
    <3>1. CASE n \in DOMAIN rows BY <1>8, <2>1, <3>1
    <3>2. CASE n = Len(rows) + 1 BY <1>8, <2>2, <3>2
    <3>. QED BY <1>9, <3>1, <3>2
  <2>. QED BY <1>1, <2>3 DEF ColumnsFromBefore
<1>. QED BY <1>12, <1>13, <1>14, <1>15, <1>17, <1>18, <1>19, <1>20 DEF IInv

LEMMA NextIInv == IInv /\ [Next]_vars => IInv'
<1>. SUFFICES ASSUME IInv, [Next]_vars PROVE IInv' OBVIOUS
<1>1. CASE SkipWithoutPeb \/ SkipProtected BY <1>1, SkipIInv
<1>2. CASE Enter BY <1>2, EnterIInv
<1>3. CASE Finish BY <1>3, FinishIInv
<1>4. CASE Leave BY <1>4, LeaveIInv
<1>5. CASE Visit BY <1>5, VisitIInv
<1>6. CASE UNCHANGED vars
  <2>1. UNCHANGED <<procs, p, context, Peb, Ldr, Flink, columns, rows, pc>> BY <1>6 DEF vars
  <2>2. TypeOK' BY <2>1, LinesKept DEF IInv, TypeOK, Line
  <2>3. Progress' BY <2>1 DEF IInv, Progress
  <2>4. Position'
    <3>1. Entry(context, 0)' = Entry(context, 0) BY <2>1 DEF Entry
    <3>. QED BY <2>1, <3>1 DEF IInv, Position, Walking
  <2>5. Carried' BY <2>1 DEF IInv, Carried, Walking
  <2>6. Complete'
    <3>1. Open(p)' = Open(p) /\ isPPL(p)' = isPPL(p) BY <2>1 DEF Open, isPPL
    <3>2. FirstRound(p, Flink)' = FirstRound(p, Flink) /\ AllShown(p)' = AllShown(p)
      BY <2>1 DEF FirstRound, AllShown, Shows, Reached, ListLength
    <3>. QED BY <2>1, <3>1, <3>2, LinesKept DEF IInv, Complete
  <2>. QED BY <2>1, <2>2, <2>3, <2>4, <2>5, <2>6, LinesKept DEF IInv
<1>. QED BY <1>1, <1>2, <1>3, <1>4, <1>5, <1>6 DEF Next, Ended

LEMMA Invariant == Spec => []IInv
BY InitIInv, NextIInv, PTL DEF Spec

-----------------------------------------------------------------------------

(* The words of the loops are addresses of what was walked or zero, and     *)
(* every line is of a process and of an entry of a list                     *)
(* (dlllist.h:57-112, 127-184).                                             *)
THEOREM TypeCorrect == Spec => []TypeOK
<1>1. IInv => TypeOK BY DEF IInv
<1>. QED BY <1>1, Invariant, PTL

(* The modules under a process are its own unless the switch to it failed   *)
(* (dlllist.h:131-132, 146, 164, 174).                                      *)
THEOREM ModulesAreOwn == Spec => []OwnModulesWhereSwitched
<1>1. IInv => OwnModulesWhereSwitched BY DEF IInv
<1>. QED BY <1>1, Invariant, PTL

(* Under a process the lines follow the list from its second entry on, one  *)
(* by one and around (dlllist.h:65-71, 108).                                *)
THEOREM LinesFollowList == Spec => []FollowsListFromSecond
<1>1. IInv => FollowsListFromSecond BY DEF IInv
<1>. QED BY <1>1, Invariant, PTL

(* What a column shows of another module is a name or a count of one passed *)
(* before, and of another process only a name as long as none could be read *)
(* (dlllist.h:21-30, 41-47, 75-86, 104-107).                                *)
THEOREM ColumnsExplained == Spec => []ColumnsFromBefore
<1>1. IInv => ColumnsFromBefore BY DEF IInv
<1>. QED BY <1>1, Invariant, PTL

(* A list is shown from its second entry to the first that cannot be        *)
(* reached, whether or not there is one (dlllist.h:65-97, 166-173,          *)
(* processutils.h:56-67).                                                   *)
THEOREM ListsShown == Spec => []ShowsToFirstUnreadable
<1>1. IInv => ShowsToFirstUnreadable
  <2>. SUFFICES ASSUME IInv, pc = "done", NEW q \in DOMAIN procs, Open(q)
                PROVE  ShownWhileReadable(q)
    BY DEF ShowsToFirstUnreadable
  <2>1. q \in 1..Len(procs) /\ Len(procs) \in Nat BY ProcessType DEF IInv
  <2>2. p = Len(procs) + 1 BY DEF IInv, Progress
  <2>. QED BY <2>1, <2>2 DEF IInv, Complete
<1>. QED BY <1>1, Invariant, PTL
=============================================================================
