-------------------------- MODULE PsDetailsProofs ---------------------------
(***************************************************************************)
(* PsDetails proved for any number of rows and of calls, whatever can be   *)
(* read at each of them, and wherever the user leaves the context.         *)
(***************************************************************************)
EXTENDS PsDetails, WellFoundedInduction, TLAPS

N == Len(procs)

Past == [memory : [Procs -> Memories], context : {0} \cup Procs]

Shown == {Fields \ Quotas, KernelFields \ Quotas}

Line == [process : Procs, shown : Shown, row : Row, context : {0} \cup Procs]

(* The calls since the load that come to process q and can read a field of  *)
(* it; those of them that have; and what is shown for the latest of some.   *)
Reading(q, f) == {k \in (loads + 1)..calls : Reaches(k, q) /\ Readable(k, q, f)}

Able(q, f) ==
  {k \in (loads + 1)..calls : (k < calls \/ q < p) /\ Reaches(k, q) /\ Readable(k, q, f)}

Latest(q, S) == IF S = {} THEN Nothing ELSE <<q, Max(S)>>

(* The history is that of the calls.  While one runs, the memory is what it *)
(* found, and the context where its switches have left it.                  *)
History ==
  /\ past \in Seq(Past)
  /\ calls > 0 => past[calls].memory = memory
  /\ ~Idle => loads < calls /\ context = ContextAt(calls, p - 1)

(* Every field of a row, and not only one that is shown, is the latest that *)
(* was read.                                                                *)
Kept == \A q \in Procs : \A f \in DOMAIN details[q] : details[q][f] = Latest(q, Able(q, f))

(* The running call has not broken off.                                     *)
Progress == ~Idle => Len(lines) = p - 1 /\ \A r \in 1..(p - 1) : ~BreaksOff(calls, r)

(* A line was printed in the context that its process had been given.       *)
InContext ==
  loads < calls => \A n \in DOMAIN lines : lines[n].context = ContextAt(calls, lines[n].process)

IInv ==
  TypeOK /\ History /\ Kept /\ Progress /\ LatestReadShown /\ InContext /\ BreaksOffWithoutBlock

-----------------------------------------------------------------------------
(* Rows and numbers                                                         *)

LEMMA RowsType ==
  ASSUME TypeOK
  PROVE  /\ N \in Nat /\ Procs = 1..N /\ p \in 1..(N + 1) /\ p \in Nat
         /\ calls \in Nat /\ calls <= MaxCalls /\ MaxCalls \in Nat /\ loads \in Nat /\ loads <= calls
         /\ (Idle <=> p = N + 1) /\ (~Idle => p \in Procs)
         /\ \A q \in Procs : memory[q] \in Memories /\ details[q] \in Row
<1>1. procs \in Seq(BOOLEAN) BY PsDetailsAssumption DEF TypeOK
<1>2. N \in Nat /\ Procs = 1..N BY <1>1 DEF N, Procs
<1>3. MaxCalls \in Nat /\ calls \in 0..MaxCalls /\ loads \in 0..calls /\ p \in 1..(N + 1)
  BY PsDetailsAssumption DEF TypeOK, N
<1>4. \A q \in Procs : memory[q] \in Memories /\ details[q] \in Row BY DEF TypeOK
<1>5. p \in Nat /\ (Idle <=> p = N + 1) /\ (~Idle => p \in Procs) BY <1>2, <1>3 DEF Idle, N
<1>. QED BY <1>2, <1>3, <1>4, <1>5

LEMMA TheFields ==
  /\ Fields = KernelFields \cup UserFields /\ KernelFields \cap UserFields = {} /\ UserFields # {}
  /\ Fields # KernelFields
BY DEF Fields, KernelFields, UserFields

(* A row has a block for the fields of the parameters, or has not.          *)
LEMMA RowParts ==
  ASSUME NEW row \in Row
  PROVE  /\ DOMAIN row = Fields \/ DOMAIN row = KernelFields
         /\ KernelFields \subseteq DOMAIN row
         /\ (UserFields \subseteq DOMAIN row <=> DOMAIN row # KernelFields)
         /\ row = [f \in DOMAIN row |-> row[f]] /\ \A f \in DOMAIN row : row[f] \in Stamp
<1>1. row \in [Fields -> Stamp] \/ row \in [KernelFields -> Stamp] BY DEF Row
<1>2. CASE row \in [Fields -> Stamp] BY <1>2, TheFields
<1>3. CASE row \in [KernelFields -> Stamp] BY <1>3, TheFields
<1>. QED BY <1>1, <1>2, <1>3

LEMMA IsRow ==
  ASSUME NEW row, NEW S \in {Fields, KernelFields}, row = [f \in S |-> row[f]], \A f \in S : row[f] \in Stamp
  PROVE  row \in Row
<1>1. row \in [S -> Stamp] OBVIOUS
<1>. QED BY <1>1 DEF Row

LEMMA Largest ==
  ASSUME NEW S, NEW m \in S, \A k \in S : k \in Int /\ k <= m, m \in Int
  PROVE  Max(S) = m
<1>1. \A x \in S : x >= m => x = m OBVIOUS
<1>2. \A y \in S : m >= y OBVIOUS
<1>. QED BY <1>1, <1>2 DEF Max

(* Of some calls there is a latest.                                         *)
LEMMA LatestExists ==
  ASSUME NEW c \in Nat, NEW S, S # {}, \A k \in S : k \in Nat /\ k <= c
  PROVE  Max(S) \in S
<1>. DEFINE T == {j \in Nat : c - j \in S}
<1>1. T \subseteq Nat OBVIOUS
<1>2. T # {}
  <2>1. PICK k \in S : TRUE OBVIOUS
  <2>2. c - k \in Nat /\ c - (c - k) = k BY <2>1
  <2>. QED BY <2>1, <2>2
<1>3. IsWellFoundedOn(OpToRel(<, Nat), Nat) BY NatLessThanWellFounded
<1>. HIDE DEF T
<1>4. PICK x \in T : \A y \in T : ~(<<y, x>> \in OpToRel(<, Nat)) BY <1>1, <1>2, <1>3, WFMin
<1>5. \A y \in T : ~(y < x) BY <1>1, <1>4 DEF OpToRel
<1>6. x \in Nat /\ c - x \in S BY <1>4 DEF T
<1>7. ASSUME NEW k \in S PROVE k <= c - x
  <2>1. c - k \in Nat /\ c - (c - k) = k OBVIOUS
  <2>2. c - k \in T BY <2>1 DEF T
  <2>. QED BY <1>5, <1>6, <2>1, <2>2
<1>8. Max(S) = c - x BY <1>6, <1>7, Largest
<1>. QED BY <1>6, <1>8

-----------------------------------------------------------------------------
(* The history                                                              *)

(* The context at process q is q if the switch to it succeeded, and         *)
(* otherwise what it was before.                                            *)
LEMMA ContextStep ==
  ASSUME TypeOK, NEW k, NEW q \in 1..N
  PROVE  ContextAt(k, q) = IF past[k].memory[q].switches THEN q ELSE ContextAt(k, q - 1)
<1>. DEFINE S(j) == {r \in 1..j : past[k].memory[r].switches}
<1>1. q \in Nat \ {0} BY RowsType
<1>2. CASE past[k].memory[q].switches
  <2>1. q \in S(q) /\ \A j \in S(q) : j \in Int /\ j <= q BY <1>1, <1>2
  <2>. HIDE DEF S
  <2>2. Max(S(q)) = q BY <1>1, <2>1, Largest
  <2>3. ContextAt(k, q) = Max(S(q)) BY <2>1 DEF ContextAt, S
  <2>. QED BY <1>2, <2>2, <2>3
<1>3. CASE ~past[k].memory[q].switches
  <2>1. \A j : j \in 1..q <=> j \in 1..(q - 1) \/ j = q BY <1>1
  <2>2. S(q) = S(q - 1) BY <1>3, <2>1
  <2>3. \A j : ContextAt(k, j) = IF S(j) = {} THEN past[k].context ELSE Max(S(j)) BY DEF ContextAt
  <2>. HIDE DEF S
  <2>. QED BY <1>3, <2>2, <2>3
<1>. QED BY <1>2, <1>3

(* What was said of a call stays, unless the cache is loaded.               *)
LEMMA CallKept ==
  ASSUME TypeOK, UNCHANGED procs, NEW k, past'[k] = past[k],
         \A q \in Procs : DOMAIN details'[q] = DOMAIN details[q]
  PROVE  /\ \A q : ContextAt(k, q)' = ContextAt(k, q)
         /\ \A q, f : Readable(k, q, f)' = Readable(k, q, f)
         /\ \A q \in Procs : BreaksOff(k, q)' = BreaksOff(k, q)
         /\ \A q \in Procs : Reaches(k, q)' = Reaches(k, q)
<1>1. \A q : ContextAt(k, q)' = ContextAt(k, q) BY DEF ContextAt
<1>2. \A q : ReadablePeb(k, q)' = ReadablePeb(k, q) BY <1>1 DEF ReadablePeb
<1>3. \A q, f : Readable(k, q, f)' = Readable(k, q, f) BY <1>2 DEF Readable
<1>4. \A q \in Procs : BreaksOff(k, q)' = BreaksOff(k, q) BY <1>2 DEF BreaksOff
<1>5. ASSUME NEW q \in Procs PROVE Reaches(k, q)' = Reaches(k, q)
  <2>1. \A r \in 1..(q - 1) : r \in Procs BY RowsType
  <2>. QED BY <1>4, <2>1 DEF Reaches
<1>. QED BY <1>1, <1>3, <1>4, <1>5

-----------------------------------------------------------------------------
(* A row is reported                                                        *)

(* What a step of the loop reads of a field, and what it leaves.            *)
LEMMA ReportedRow ==
  ASSUME IInv, ~Idle, NEW reached, NEW shown, Report(reached, shown),
         \A f \in DOMAIN details[p] :
           (f \in reached /\ f \in memory[p].fields) <=> Readable(calls, p, f)
  PROVE  /\ DOMAIN details'[p] = DOMAIN details[p] /\ details'[p] \in Row
         /\ \A q \in Procs : q # p => details'[q] = details[q]
         /\ \A f \in DOMAIN details[p] :
              details'[p][f] = IF Readable(calls, p, f) THEN <<p, calls>> ELSE details[p][f]
<1>1. TypeOK /\ History BY DEF IInv
<1>2. p \in Procs /\ details[p] \in Row /\ memory[p] \in Memories /\ loads < calls
      /\ calls \in 1..MaxCalls /\ Procs = 1..N /\ N \in Nat
  BY <1>1, RowsType DEF History
<1>3. details \in [Procs -> Row] /\ details' = [details EXCEPT ![p] = ReadInto(@, reached)]
  BY <1>1 DEF TypeOK, Report
<1>4. details'[p] = ReadInto(details[p], reached) /\ \A q \in Procs : q # p => details'[q] = details[q]
  BY <1>2, <1>3
<1>5. "StartingX" \in memory[p].fields <=> "StartingY" \in memory[p].fields
  BY <1>2, PsDetailsAssumption
<1>6. <<p, calls>> # Fault /\ <<p, calls>> \in Stamp
  <2>1. <<p, calls>> \in Nat \X Nat BY <1>2
  <2>. QED BY <1>2, <2>1, PsDetailsAssumption DEF Stamp
<1>7. ASSUME NEW f \in DOMAIN details[p]
      PROVE  details'[p][f] = IF Readable(calls, p, f) THEN <<p, calls>> ELSE details[p][f]
  <2>. DEFINE g == IF f = "StartingY" THEN "StartingX" ELSE f
  <2>1. g \in memory[p].fields <=> f \in memory[p].fields BY <1>5
  <2>2. details'[p][f] = IF f \in reached THEN ReadVirtual(Cell(p, g), details[p][f]) ELSE details[p][f]
    BY <1>4 DEF ReadInto
  <2>3. Cell(p, g) = IF f \in memory[p].fields THEN <<p, calls>> ELSE Fault BY <2>1 DEF Cell
  <2>. QED BY <1>6, <2>2, <2>3 DEF ReadVirtual
<1>8. DOMAIN details'[p] = DOMAIN details[p] /\ details'[p] = [f \in DOMAIN details[p] |-> details'[p][f]]
  BY <1>4 DEF ReadInto
<1>9. details'[p] \in Row
  <2>1. DOMAIN details[p] \in {Fields, KernelFields} /\ \A f \in DOMAIN details[p] : details[p][f] \in Stamp
    BY <1>2, RowParts
  <2>2. \A f \in DOMAIN details[p] : details'[p][f] \in Stamp BY <1>6, <1>7, <2>1
  <2>. QED BY <1>8, <2>1, <2>2, IsRow
<1>. QED BY <1>4, <1>7, <1>8, <1>9

(* The row the loop is at is shown as the latest calls could read it, and   *)
(* the others stay as they are.                                             *)
LEMMA VisitKeeps ==
  ASSUME IInv, ~Idle, context' = Switched, NEW reached, NEW shown, Report(reached, shown),
         \A f \in DOMAIN details[p] :
           (f \in reached /\ f \in memory[p].fields) <=> Readable(calls, p, f),
         p' = IF BreaksOff(calls, p) THEN N + 1 ELSE p + 1
  PROVE  Kept'
<1>1. TypeOK /\ History /\ Kept /\ Progress BY DEF IInv
<1>2. p \in Procs /\ loads < calls /\ loads \in Nat /\ calls \in Nat /\ Procs = 1..N /\ N \in Nat
  BY <1>1, RowsType DEF History
<1>3. /\ DOMAIN details'[p] = DOMAIN details[p]
      /\ \A q \in Procs : q # p => details'[q] = details[q]
      /\ \A f \in DOMAIN details[p] :
           details'[p][f] = IF Readable(calls, p, f) THEN <<p, calls>> ELSE details[p][f]
  BY ReportedRow
<1>4. UNCHANGED <<procs, past, calls, loads>> BY DEF Report
<1>5. \A k : /\ \A q, f : Readable(k, q, f)' = Readable(k, q, f)
             /\ \A q \in Procs : Reaches(k, q)' = Reaches(k, q)
  <2>1. \A q \in Procs : DOMAIN details'[q] = DOMAIN details[q] BY <1>3
  <2>. QED BY <1>1, <1>4, <2>1, CallKept
<1>6. ASSUME NEW q \in Procs, NEW f
      PROVE  Able(q, f)' = {k \in (loads + 1)..calls :
                              (k < calls \/ q < p') /\ Reaches(k, q) /\ Readable(k, q, f)}
  <2>1. \A k : Readable(k, q, f)' = Readable(k, q, f) /\ Reaches(k, q)' = Reaches(k, q) BY <1>5
  <2>. QED BY <1>4, <2>1 DEF Able
<1>7. ASSUME NEW q \in Procs, q # p, NEW f PROVE Able(q, f)' = Able(q, f)
  <2>1. CASE q < p
    <3>1. q < p' BY <1>2, <2>1
    <3>. QED BY <1>6, <2>1, <3>1 DEF Able
  <2>2. CASE q > p /\ ~BreaksOff(calls, p)
    <3>1. ~(q < p') /\ ~(q < p) BY <1>2, <2>2
    <3>. QED BY <1>6, <3>1 DEF Able
  <2>3. CASE q > p /\ BreaksOff(calls, p)
    <3>1. ~(q < p) /\ p \in 1..(q - 1) BY <1>2, <2>3
    <3>2. ~Reaches(calls, q) BY <2>3, <3>1 DEF Reaches
    <3>3. \A k \in (loads + 1)..calls : ~(k < calls) => k = calls BY <1>2
    <3>. QED BY <1>6, <3>1, <3>2, <3>3 DEF Able
  <2>. QED BY <1>2, <1>7, <2>1, <2>2, <2>3
<1>8. ASSUME NEW q \in Procs, q = p, NEW f \in DOMAIN details[q]
      PROVE  details'[q][f] = Latest(q, Able(q, f)')
  <2>1. Reaches(calls, q) BY <1>1, <1>8 DEF Progress, Reaches
  <2>2. q < p' /\ ~(q < p) BY <1>2, <1>8
  <2>3. \A k \in (loads + 1)..calls : ~(k < calls) <=> k = calls BY <1>2
  <2>4. details[q][f] = Latest(q, Able(q, f)) BY <1>1, <1>2 DEF Kept
  <2>5. Able(q, f)' = {k \in (loads + 1)..calls :
                         (k < calls \/ q < p') /\ Reaches(k, q) /\ Readable(k, q, f)}
    BY <1>6
  <2>6. CASE Readable(calls, q, f)
    <3>1. calls \in Able(q, f)' BY <1>2, <2>1, <2>2, <2>5, <2>6
    <3>2. \A k \in Able(q, f)' : k \in Int /\ k <= calls BY <1>2, <2>5
    <3>3. Max(Able(q, f)') = calls BY <1>2, <3>1, <3>2, Largest
    <3>. QED BY <1>3, <1>8, <2>6, <3>1, <3>3 DEF Latest
  <2>7. CASE ~Readable(calls, q, f)
    <3>1. Able(q, f)' = Able(q, f) BY <2>2, <2>3, <2>5, <2>7 DEF Able
    <3>. QED BY <1>3, <1>8, <2>4, <2>7, <3>1
  <2>. QED BY <2>6, <2>7
<1>9. ASSUME NEW q \in Procs, NEW f \in DOMAIN details'[q]
      PROVE  details'[q][f] = Latest(q, Able(q, f)')
  <2>1. CASE q = p
    <3>1. f \in DOMAIN details[q] BY <1>3, <1>9, <2>1
    <3>. QED BY <1>8, <2>1, <3>1
  <2>2. CASE q # p
    <3>1. details'[q] = details[q] BY <1>3, <2>2
    <3>2. details[q][f] = Latest(q, Able(q, f)) BY <1>1, <1>9, <3>1 DEF Kept
    <3>. QED BY <1>7, <2>2, <3>1, <3>2
  <2>. QED BY <2>1, <2>2
<1>. QED BY <1>4, <1>9 DEF Kept, Latest, Procs

LEMMA VisitStep ==
  ASSUME IInv, ~Idle, context' = Switched, NEW reached,
         NEW shown \in {Fields, KernelFields}, shown \subseteq DOMAIN details[p], Report(reached, shown),
         \A f \in DOMAIN details[p] :
           (f \in reached /\ f \in memory[p].fields) <=> Readable(calls, p, f),
         p' = IF BreaksOff(calls, p) THEN N + 1 ELSE p + 1
  PROVE  IInv'
<1>1. TypeOK /\ History /\ Kept /\ Progress /\ LatestReadShown BY DEF IInv
<1>2. p \in Procs /\ p \in Nat /\ loads < calls /\ loads \in Nat /\ calls \in Nat /\ Procs = 1..N /\ N \in Nat
  BY <1>1, RowsType DEF History
<1>3. DOMAIN details'[p] = DOMAIN details[p] /\ details'[p] \in Row
      /\ \A q \in Procs : q # p => details'[q] = details[q]
  BY ReportedRow
<1>4. UNCHANGED <<procs, memory, past, calls, loads>> /\ UNCHANGED <<Procs, N>> BY DEF Report, Procs, N
<1>. DEFINE line == [process |-> p, shown |-> shown \ Quotas, row |-> details'[p], context |-> context']
<1>5. Len(lines) = p - 1 /\ lines' = Append(lines, line) /\ lines \in Seq(Line)
  BY <1>1 DEF Progress, Report, TypeOK, Line, Shown
<1>6. line \in Line
  <2>1. context' \in {0} \cup Procs BY <1>1, <1>2 DEF TypeOK, Switched
  <2>. QED BY <1>2, <1>3, <2>1 DEF Line, Shown
<1>7. lines' \in Seq(Line) /\ Len(lines') = p /\ lines'[p] = line
      /\ \A n \in DOMAIN lines' : n # p => n \in DOMAIN lines /\ lines'[n] = lines[n]
  <2>. HIDE DEF line
  <2>. QED BY <1>2, <1>5, <1>6
<1>8. \A k : /\ \A q : ContextAt(k, q)' = ContextAt(k, q)
             /\ \A q, f : Readable(k, q, f)' = Readable(k, q, f)
             /\ \A q \in Procs : Reaches(k, q)' = Reaches(k, q) /\ BreaksOff(k, q)' = BreaksOff(k, q)
  <2>1. \A q \in Procs : DOMAIN details'[q] = DOMAIN details[q] BY <1>3
  <2>. QED BY <1>1, <1>4, <2>1, CallKept
<1>9. p' \in (p + 1)..(N + 1) BY <1>2
<1>10. context' = ContextAt(calls, p)
  <2>1. context = ContextAt(calls, p - 1) /\ past[calls].memory = memory BY <1>1, <1>2 DEF History
  <2>. QED BY <1>1, <1>2, <2>1, ContextStep DEF Switched
<1>11. TypeOK'
  <2>1. procs' \in Targets /\ memory' \in [Procs' -> Memories] /\ calls' \in 0..MaxCalls
        /\ loads' \in 0..calls' /\ Len(past') = calls'
    BY <1>1, <1>4 DEF TypeOK
  <2>2. context' \in {0} \cup Procs BY <1>1, <1>2 DEF TypeOK, Switched
  <2>3. details' \in [Procs -> Row]
    <3>1. details \in [Procs -> Row] /\ DOMAIN details' = DOMAIN details BY <1>1 DEF TypeOK, Report
    <3>2. \A q \in Procs : details'[q] \in Row BY <1>3, <3>1
    <3>3. details' = [q \in Procs |-> details'[q]] BY <3>1 DEF Report
    <3>. QED BY <3>2, <3>3
  <2>4. Row' = Row /\ Line' = Line
    <3>1. Stamp' = Stamp BY <1>4 DEF Stamp
    <3>2. Row' = Row BY <3>1 DEF Row
    <3>. QED BY <1>4, <3>2 DEF Line
  <2>5. p' \in 1..(N + 1) BY <1>2, <1>9
  <2>. QED BY <1>4, <1>7, <2>1, <2>2, <2>3, <2>4, <2>5 DEF TypeOK, N, Line, Shown
<1>12. History'
  <2>1. past' \in Seq(Past') BY <1>1, <1>4 DEF History, Past
  <2>2. calls' > 0 => past'[calls'].memory = memory' BY <1>1, <1>4 DEF History
  <2>3. ASSUME ~Idle' PROVE loads' < calls' /\ \A r : r = p' - 1 => context' = ContextAt(calls, r)
    <3>1. p' = p + 1 BY <1>2, <1>4, <2>3 DEF Idle, N
    <3>. QED BY <1>2, <1>4, <1>10, <3>1
  <2>4. ~Idle' => \E r : r = p' - 1 /\ context' = ContextAt(calls, r)' /\ loads' < calls' BY <1>4, <1>8, <2>3
  <2>5. ~Idle' => loads' < calls' /\ context' = ContextAt(calls, p - 1)'
    BY <1>4, <2>4 DEF ContextAt
  <2>. QED BY <1>4, <2>1, <2>2, <2>5 DEF History, ContextAt
<1>13. Kept' BY VisitKeeps
<1>14. Progress'
  <2>1. ASSUME ~Idle' PROVE Len(lines') = p' - 1 /\ \A r \in 1..(p' - 1) : ~BreaksOff(calls, r)
    <3>1. p' = p + 1 /\ ~BreaksOff(calls, p) /\ \A r \in 1..p : r \in 1..(p - 1) \/ r = p
      BY <1>2, <1>4, <2>1 DEF Idle, N
    <3>2. \A r \in 1..(p - 1) : ~BreaksOff(calls, r) BY <1>1 DEF Progress
    <3>. QED BY <1>2, <1>7, <3>1, <3>2
  <2>2. \A r \in 1..(p' - 1) : r \in Procs BY <1>2, <1>9
  <2>3. ~Idle' => \A r \in 1..(p' - 1) : ~BreaksOff(calls, r)' BY <1>4, <1>8, <2>1, <2>2
  <2>. QED BY <1>4, <2>1, <2>3 DEF Progress, BreaksOff, ReadablePeb, ContextAt
<1>15. LatestReadShown'
  <2>1. ASSUME NEW q \in Procs, NEW f
        PROVE  Reading(q, f)' = Reading(q, f) /\ (q < p' => Able(q, f)' = Reading(q, f))
    <3>1. \A k : Readable(k, q, f)' = Readable(k, q, f) /\ Reaches(k, q)' = Reaches(k, q) BY <1>8
    <3>. QED BY <1>4, <3>1 DEF Reading, Able
  <2>2. ASSUME NEW n \in DOMAIN lines', NEW q, q = lines'[n].process, NEW f \in lines'[n].shown
        PROVE  lines'[n].row[f] = Latest(q, Reading(q, f)')
    <3>1. CASE n # p
      <4>1. n \in DOMAIN lines /\ lines'[n] = lines[n] BY <1>7, <3>1
      <4>2. q \in Procs
        <5>1. lines[n] \in Line BY <1>5, <4>1
        <5>. QED BY <2>2, <4>1, <5>1 DEF Line
      <4>3. lines[n].row[f] = Latest(q, Reading(q, f))
        BY <1>1, <1>2, <2>2, <4>1 DEF LatestReadShown, Latest, Reading
      <4>. QED BY <2>1, <4>1, <4>2, <4>3
    <3>2. CASE n = p
      <4>1. lines'[n] = line BY <1>7, <3>2
      <4>2. q = p /\ q \in Procs /\ q < p' /\ lines'[n].row = details'[q] /\ f \in DOMAIN details'[q]
        BY <1>2, <1>3, <1>9, <2>2, <4>1
      <4>3. details'[q][f] = Latest(q, Able(q, f)') BY <1>4, <1>13, <4>2 DEF Kept, Latest
      <4>. QED BY <2>1, <4>2, <4>3
    <3>. QED BY <3>1, <3>2
  <2>. QED BY <2>2 DEF LatestReadShown, Latest, Reading
<1>16. BreaksOffWithoutBlock'
  <2>. DEFINE stops == {q \in Procs : BreaksOff(calls, q)}
  <2>1. {q \in Procs : BreaksOff(calls, q)}' = stops BY <1>4, <1>8
  <2>2. \A r \in 1..(p - 1) : ~BreaksOff(calls, r) BY <1>1 DEF Progress
  <2>3. CASE BreaksOff(calls, p)
    <3>1. p \in stops /\ \A r \in stops : r >= p /\ r \in Int BY <1>2, <2>2, <2>3
    <3>. HIDE DEF stops
    <3>2. \A x \in stops : (\A y \in stops : x <= y) <=> x = p BY <1>2, <3>1
    <3>3. Min(stops) = p BY <3>1, <3>2 DEF Min
    <3>. QED BY <1>7, <2>1, <3>1, <3>3 DEF BreaksOffWithoutBlock
  <2>4. CASE ~BreaksOff(calls, p) /\ Idle'
    <3>1. p = N BY <1>2, <1>4, <2>4 DEF Idle, N
    <3>2. stops = {} BY <1>2, <2>2, <2>4, <3>1
    <3>. QED BY <1>4, <1>7, <2>1, <3>1, <3>2 DEF BreaksOffWithoutBlock, N
  <2>5. CASE ~Idle' BY <2>5 DEF BreaksOffWithoutBlock
  <2>. QED BY <2>3, <2>4, <2>5
<1>17. InContext'
  <2>1. ASSUME NEW n \in DOMAIN lines' PROVE lines'[n].context = ContextAt(calls, lines'[n].process)
    <3>1. CASE n # p
      <4>1. n \in DOMAIN lines /\ lines'[n] = lines[n] BY <1>7, <3>1
      <4>. QED BY <1>2, <4>1 DEF IInv, InContext
    <3>2. CASE n = p BY <1>7, <1>10, <3>2
    <3>. QED BY <3>1, <3>2
  <2>. QED BY <1>4, <1>8, <2>1 DEF InContext, ContextAt
<1>. QED BY <1>11, <1>12, <1>13, <1>14, <1>15, <1>16, <1>17 DEF IInv

-----------------------------------------------------------------------------
(* The steps                                                                *)

(* What the code sees of the process at the row is what the history says.   *)
LEMMA Seen ==
  ASSUME IInv, ~Idle, context' = Switched
  PROVE  /\ PebMapped(context') <=> ReadablePeb(calls, p)
         /\ NullParams(context') <=> ReadablePeb(calls, p) /\ ~memory[p].params
         /\ past[calls].memory = memory
         /\ BreaksOff(calls, p) <=> ~HasDetails /\ ~NullParams(context')
         /\ details[p] \in Row
<1>1. TypeOK /\ History BY DEF IInv
<1>2. p \in Procs /\ p \in 1..N /\ details[p] \in Row /\ calls > 0 BY <1>1, RowsType DEF History
<1>3. past[calls].memory = memory /\ context = ContextAt(calls, p - 1) BY <1>1, <1>2 DEF History
<1>4. context' = ContextAt(calls, p) BY <1>1, <1>2, <1>3, ContextStep DEF Switched
<1>5. PebMapped(context') <=> ReadablePeb(calls, p) BY <1>3, <1>4 DEF PebMapped, ReadablePeb
<1>6. NullParams(context') <=> ReadablePeb(calls, p) /\ ~memory[p].params BY <1>5 DEF NullParams
<1>7. HasDetails <=> DOMAIN details[p] # KernelFields BY <1>2, RowParts DEF HasDetails
<1>8. BreaksOff(calls, p) <=> ~HasDetails /\ ~NullParams(context') BY <1>3, <1>6, <1>7 DEF BreaksOff
<1>. QED BY <1>2, <1>3, <1>5, <1>6, <1>8

LEMMA VisitWithoutParamsIInv == ASSUME IInv, VisitWithoutParams PROVE IInv'
<1>1. ~Idle /\ context' = Switched /\ NullParams(context') /\ Report(KernelFields, KernelFields)
      /\ p' = p + 1
  BY DEF VisitWithoutParams
<1>2. ~BreaksOff(calls, p) /\ ReadablePeb(calls, p) /\ ~memory[p].params
      /\ past[calls].memory = memory /\ details[p] \in Row
  BY <1>1, Seen
<1>3. \A f \in DOMAIN details[p] :
        (f \in KernelFields /\ f \in memory[p].fields) <=> Readable(calls, p, f)
  BY <1>2, RowParts, TheFields DEF Readable
<1>4. KernelFields \subseteq DOMAIN details[p] BY <1>2, RowParts
<1>. QED BY <1>1, <1>2, <1>3, <1>4, VisitStep

LEMMA VisitWithoutDetailsIInv == ASSUME IInv, VisitWithoutDetails PROVE IInv'
<1>1. ~Idle /\ context' = Switched /\ ~NullParams(context') /\ ~HasDetails
      /\ Report(KernelFields, KernelFields) /\ p' = N + 1
  BY DEF VisitWithoutDetails, N
<1>2. BreaksOff(calls, p) /\ past[calls].memory = memory /\ details[p] \in Row BY <1>1, Seen
<1>3. DOMAIN details[p] = KernelFields BY <1>2 DEF BreaksOff
<1>4. \A f \in DOMAIN details[p] :
        (f \in KernelFields /\ f \in memory[p].fields) <=> Readable(calls, p, f)
  BY <1>2, <1>3, TheFields DEF Readable
<1>. QED BY <1>1, <1>2, <1>3, <1>4, VisitStep

LEMMA VisitIInv == ASSUME IInv, Visit PROVE IInv'
<1>. DEFINE reached == KernelFields \cup (IF PebMapped(context') THEN UserFields ELSE {})
<1>1. ~Idle /\ context' = Switched /\ ~NullParams(context') /\ HasDetails
      /\ Report(reached, Fields) /\ p' = p + 1
  BY DEF Visit
<1>2. ~BreaksOff(calls, p) /\ past[calls].memory = memory /\ details[p] \in Row
      /\ (PebMapped(context') <=> ReadablePeb(calls, p))
      /\ (ReadablePeb(calls, p) => memory[p].params)
  BY <1>1, Seen
<1>3. DOMAIN details[p] = Fields BY <1>1, <1>2, RowParts, TheFields DEF HasDetails
<1>4. \A f \in DOMAIN details[p] :
        (f \in reached /\ f \in memory[p].fields) <=> Readable(calls, p, f)
  BY <1>2, <1>3, TheFields DEF Readable
<1>. HIDE DEF reached
<1>. QED BY <1>1, <1>2, <1>3, <1>4, VisitStep

(* What a load leaves: every row is zero.                                   *)
LEMMA Loaded ==
  ASSUME NEW allocated \in SUBSET Procs, NEW q \in Procs
  PROVE  /\ InitProcessInformation(allocated)[q] \in Row
         /\ \A f \in DOMAIN InitProcessInformation(allocated)[q] :
              InitProcessInformation(allocated)[q][f] = Nothing
<1>. DEFINE S == IF q \in allocated THEN Fields ELSE KernelFields
<1>1. InitProcessInformation(allocated)[q] = [f \in S |-> Nothing] BY DEF InitProcessInformation
<1>2. [f \in S |-> Nothing] \in [S -> Stamp] BY DEF Stamp
<1>3. [f \in S |-> Nothing] \in Row BY <1>2 DEF Row
<1>. QED BY <1>1, <1>3

LEMMA InitIInv == Init => IInv
<1>. SUFFICES ASSUME Init PROVE IInv OBVIOUS
<1>1. procs \in Targets /\ procs \in Seq(BOOLEAN) /\ N \in Nat /\ Procs = 1..N
      /\ calls = 0 /\ loads = 0 /\ past = <<>> /\ lines = <<>> /\ context = 0 /\ p = N + 1
      /\ MaxCalls \in Nat
  BY PsDetailsAssumption DEF Init, N, Procs
<1>2. Idle BY <1>1 DEF Idle, N
<1>3. PICK allocated \in SUBSET Procs : details = InitProcessInformation(allocated) BY DEF Init
<1>4. details \in [Procs -> Row] /\ \A q \in Procs : \A f \in DOMAIN details[q] : details[q][f] = Nothing
  <2>1. details = [q \in Procs |-> details[q]] BY <1>3 DEF InitProcessInformation
  <2>. QED BY <1>3, <2>1, Loaded
<1>5. memory \in [Procs -> Memories]
  <2>1. (CHOOSE m \in Memories : TRUE) \in Memories BY PsDetailsAssumption
  <2>. QED BY <2>1 DEF Init
<1>6. TypeOK
  <2>1. p \in 1..(N + 1) /\ calls \in 0..MaxCalls /\ loads \in 0..calls BY <1>1
  <2>2. lines \in Seq(Line) BY <1>1
  <2>. QED BY <1>1, <1>4, <1>5, <2>1, <2>2 DEF TypeOK, N, Line, Shown
<1>7. History
  <2>1. past \in Seq(Past) BY <1>1
  <2>. QED BY <1>1, <1>2, <2>1 DEF History
<1>8. Kept
  <2>1. \A q, f : Able(q, f) = {} BY <1>1 DEF Able
  <2>. QED BY <1>4, <2>1 DEF Kept, Latest
<1>9. Progress BY <1>2 DEF Progress
<1>10. LatestReadShown BY <1>1 DEF LatestReadShown
<1>11. BreaksOffWithoutBlock BY <1>1 DEF BreaksOffWithoutBlock
<1>12. InContext BY <1>1 DEF InContext
<1>. QED BY <1>6, <1>7, <1>8, <1>9, <1>10, <1>11, <1>12 DEF IInv

LEMMA BeginIInv == ASSUME IInv, Begin PROVE IInv'
<1>1. TypeOK /\ History /\ Kept BY DEF IInv
<1>2. /\ Idle /\ calls < MaxCalls /\ p' = 1 /\ lines' = <<>> /\ calls' = calls + 1
      /\ UNCHANGED <<procs, details, loads>> /\ UNCHANGED <<Procs, N>>
      /\ memory' \in [Procs -> Memories] /\ context' \in {0} \cup Procs
  BY DEF Begin, Procs, N
<1>3. N \in Nat /\ Procs = 1..N /\ p = N + 1 /\ calls \in Nat /\ loads \in Nat /\ loads <= calls
      /\ MaxCalls \in Nat /\ calls' \in Nat
  BY <1>1, <1>2, RowsType
<1>. DEFINE found == [memory |-> memory', context |-> context']
<1>4. past' = Append(past, found) /\ found \in Past BY <1>2 DEF Begin, Past
<1>. HIDE DEF found
<1>5. past' \in Seq(Past) /\ Len(past') = calls' /\ past'[calls'] = found
      /\ \A k \in 1..calls : past'[k] = past[k]
  <2>1. Len(past) = calls /\ past \in Seq(Past) BY <1>1 DEF TypeOK, History
  <2>. QED BY <1>2, <1>3, <1>4, <2>1
<1>6. TypeOK'
  <2>1. p' \in 1..(N + 1) /\ calls' \in 0..MaxCalls /\ loads' \in 0..calls' BY <1>2, <1>3
  <2>2. Row' = Row BY <1>2 DEF Row, Stamp
  <2>3. lines' \in Seq(Line) BY <1>2
  <2>4. Line = [process : Procs', shown : Shown, row : Row', context : {0} \cup Procs'] BY <1>2, <2>2 DEF Line
  <2>. QED BY <1>1, <1>2, <1>5, <2>1, <2>2, <2>3, <2>4 DEF TypeOK, N, Shown
<1>7. History'
  <2>1. past'[calls'].memory = memory' /\ past'[calls'].context = context' BY <1>5 DEF found
  <2>2. loads' < calls' BY <1>2, <1>3
  <2>3. p' - 1 = 0 /\ 1..0 = {} BY <1>2
  <2>4. context' = ContextAt(calls, p - 1)'
    <3>1. {r \in 1..(p' - 1) : past'[calls'].memory[r].switches} = {} BY <2>3
    <3>. QED BY <2>1, <3>1 DEF ContextAt
  <2>. QED BY <1>2, <1>5, <2>1, <2>2, <2>4 DEF History, Past
<1>8. Kept'
  <2>1. ASSUME NEW q \in Procs, NEW f PROVE Able(q, f)' = Able(q, f)
    <3>1. \A k \in 1..calls : /\ Readable(k, q, f)' = Readable(k, q, f)
                              /\ Reaches(k, q)' = Reaches(k, q)
      BY <1>1, <1>2, <1>5, CallKept
    <3>2. q < p /\ ~(q < p') BY <1>2, <1>3
    <3>3. \A k : /\ k \in (loads + 1)..calls => k \in 1..calls /\ k \in (loads + 1)..calls' /\ k < calls'
                 /\ k \in (loads + 1)..calls' /\ k < calls' => k \in (loads + 1)..calls
      BY <1>2, <1>3
    <3>. QED BY <1>2, <3>1, <3>2, <3>3 DEF Able
  <2>. QED BY <1>1, <1>2, <2>1 DEF Kept, Latest
<1>9. Progress'
  <2>1. Len(lines') = p' - 1 /\ 1..(p' - 1) = {} BY <1>2
  <2>. QED BY <2>1 DEF Progress
<1>10. LatestReadShown' BY <1>2 DEF LatestReadShown
<1>11. BreaksOffWithoutBlock'
  <2>. DEFINE stops == {q \in Procs : BreaksOff(calls, q)}
  <2>1. Idle' => stops' = {} /\ N = 0 BY <1>2, <1>3 DEF Idle, N
  <2>. QED BY <1>2, <2>1 DEF BreaksOffWithoutBlock, N
<1>12. InContext' BY <1>2 DEF InContext
<1>. QED BY <1>6, <1>7, <1>8, <1>9, <1>10, <1>11, <1>12 DEF IInv

LEMMA PslistIInv == ASSUME IInv, Pslist PROVE IInv'
<1>1. TypeOK /\ History BY DEF IInv
<1>2. Idle /\ loads' = calls /\ UNCHANGED <<procs, memory, context, p, lines, calls, past>>
      /\ UNCHANGED <<Procs, N>>
  BY DEF Pslist, Procs, N
<1>3. Idle' /\ ~(loads' < calls') /\ calls \in Nat BY <1>1, <1>2, RowsType DEF Idle
<1>4. PICK allocated \in SUBSET Procs : details' = InitProcessInformation(allocated) BY DEF Pslist
<1>5. details' \in [Procs -> Row] /\ \A q \in Procs : \A f \in DOMAIN details'[q] : details'[q][f] = Nothing
  <2>1. details' = [q \in Procs |-> details'[q]] BY <1>4 DEF InitProcessInformation
  <2>. QED BY <1>4, <2>1, Loaded
<1>6. TypeOK'
  <2>1. Row' = Row BY <1>2 DEF Row, Stamp
  <2>2. loads' \in 0..calls' BY <1>2, <1>3
  <2>. QED BY <1>1, <1>2, <1>5, <2>1, <2>2 DEF TypeOK
<1>7. History' BY <1>1, <1>2, <1>3 DEF History, Past
<1>8. Kept'
  <2>1. \A q, f : Able(q, f)' = {} BY <1>2, <1>3 DEF Able
  <2>. QED BY <1>2, <1>5, <2>1 DEF Kept, Latest
<1>9. Progress' BY <1>3 DEF Progress
<1>10. LatestReadShown' BY <1>3 DEF LatestReadShown
<1>11. BreaksOffWithoutBlock' BY <1>3 DEF BreaksOffWithoutBlock
<1>12. InContext' BY <1>3 DEF InContext
<1>. QED BY <1>6, <1>7, <1>8, <1>9, <1>10, <1>11, <1>12 DEF IInv

LEMMA NextIInv == ASSUME IInv, [Next]_vars PROVE IInv'
<1>1. CASE Begin BY <1>1, BeginIInv
<1>2. CASE Visit BY <1>2, VisitIInv
<1>3. CASE VisitWithoutParams BY <1>3, VisitWithoutParamsIInv
<1>4. CASE VisitWithoutDetails BY <1>4, VisitWithoutDetailsIInv
<1>5. CASE Pslist BY <1>5, PslistIInv
<1>6. CASE UNCHANGED vars
  <2>1. UNCHANGED <<procs, memory, context, p, details, lines, calls, loads, past>>
        /\ UNCHANGED <<Procs, N, Idle, Row, Past>>
    BY <1>6 DEF vars, Procs, N, Idle, Row, Stamp, Past
  <2>2. UNCHANGED TypeOK BY <2>1 DEF TypeOK
  <2>3. \A k : /\ \A q : ContextAt(k, q)' = ContextAt(k, q)
               /\ \A q, f : Readable(k, q, f)' = Readable(k, q, f)
               /\ \A q : Reaches(k, q)' = Reaches(k, q) /\ BreaksOff(k, q)' = BreaksOff(k, q)
    BY <2>1 DEF ContextAt, Readable, ReadablePeb, Reaches, BreaksOff
  <2>4. UNCHANGED History BY <2>1 DEF History, ContextAt
  <2>5. \A q, f : Able(q, f)' = Able(q, f) /\ Reading(q, f)' = Reading(q, f)
    BY <2>1, <2>3 DEF Able, Reading
  <2>6. Kept' BY <2>1, <2>5 DEF IInv, Kept, Latest
  <2>7. UNCHANGED Progress BY <2>1 DEF Progress, BreaksOff, ReadablePeb, ContextAt
  <2>8. UNCHANGED LatestReadShown
    BY <2>1 DEF LatestReadShown, Reaches, BreaksOff, Readable, ReadablePeb, ContextAt
  <2>9. UNCHANGED BreaksOffWithoutBlock
    BY <2>1 DEF BreaksOffWithoutBlock, BreaksOff, ReadablePeb, ContextAt
  <2>10. UNCHANGED InContext BY <2>1 DEF InContext, ContextAt
  <2>. QED BY <2>2, <2>4, <2>6, <2>7, <2>8, <2>9, <2>10 DEF IInv
<1>. QED BY <1>1, <1>2, <1>3, <1>4, <1>5, <1>6 DEF Next

LEMMA Invariant == Spec => []IInv
BY InitIInv, NextIInv, PTL DEF Spec

-----------------------------------------------------------------------------

(* A row keeps its twelve fields, or six without a block, and the loop ends *)
(* behind the last row (utils.h:296-318, psdetails.h:132-157).              *)
THEOREM TypeCorrect == Spec => []TypeOK
<1>1. IInv => TypeOK BY DEF IInv
<1>. QED BY <1>1, Invariant, PTL

(* A word shown, be it a number or the address of a string, is the latest   *)
(* that a call since the load could read of the line's own process          *)
(* (psdetails.h:78-107, 145-157).                                           *)
THEOREM LatestShown == Spec => []LatestReadShown
<1>1. IInv => LatestReadShown BY DEF IInv
<1>. QED BY <1>1, Invariant, PTL

(* Only a failed switch has a string looked up in another process, and then *)
(* at an address that an earlier call read in the process's own context     *)
(* (pslist.h:16-21, psdetails.h:80-89, 111-113, 155-156).                   *)
THEOREM StringsExplained == Spec => []StringsOfOwnProcess
<1>1. ASSUME IInv PROVE StringsOfOwnProcess
  <2>1. TypeOK /\ LatestReadShown /\ InContext BY <1>1 DEF IInv
  <2>2. SUFFICES ASSUME NEW n \in DOMAIN lines, NEW f \in lines[n].shown \cap Strings,
                        NEW q, q = lines[n].process,
                        loads < calls, lines[n].row[f] # Nothing, lines[n].context # q
                 PROVE  /\ ~past[calls].memory[q].switches
                        /\ \E k \in (loads + 1)..(calls - 1) :
                             lines[n].row[f] = <<q, k>> /\ ContextAt(k, q) = q
    BY DEF StringsOfOwnProcess
  <2>3. calls \in Nat /\ loads \in Nat /\ Procs = 1..N BY <2>1, RowsType
  <2>4. lines \in Seq(Line) BY <2>1 DEF TypeOK, Line, Shown
  <2>5. q \in 1..N
    <3>1. lines[n] \in Line BY <2>2, <2>4
    <3>. QED BY <2>2, <2>3, <3>1 DEF Line
  <2>6. lines[n].context = ContextAt(calls, q) BY <2>1, <2>2 DEF InContext
  <2>7. ~past[calls].memory[q].switches BY <2>1, <2>2, <2>5, <2>6, ContextStep
  <2>8. lines[n].row[f] = IF Reading(q, f) = {} THEN Nothing ELSE <<q, Max(Reading(q, f))>>
    BY <2>1, <2>2 DEF LatestReadShown, Reading
  <2>9. Reading(q, f) # {} /\ \A k \in Reading(q, f) : k \in Nat /\ k <= calls BY <2>2, <2>3, <2>8 DEF Reading
  <2>10. PICK k \in Reading(q, f) : k = Max(Reading(q, f)) BY <2>3, <2>9, LatestExists
  <2>11. k \in (loads + 1)..calls /\ ContextAt(k, q) = q
    <3>1. f \in UserFields BY <2>2 DEF Strings, UserFields
    <3>. QED BY <2>10, <3>1 DEF Reading, Readable, ReadablePeb
  <2>12. k # calls BY <2>2, <2>6, <2>11
  <2>13. k \in (loads + 1)..(calls - 1) /\ lines[n].row[f] = <<q, k>> BY <2>3, <2>8, <2>9, <2>10, <2>11, <2>12
  <2>. QED BY <2>7, <2>11, <2>13
<1>. QED BY <1>1, Invariant, PTL

(* Only a row without a block ends a call early (utils.h:300-307,           *)
(* psdetails.h:80-88).                                                      *)
THEOREM BreakOffExplained == Spec => []BreaksOffWithoutBlock
<1>1. IInv => BreaksOffWithoutBlock BY DEF IInv
<1>. QED BY <1>1, Invariant, PTL
=============================================================================
