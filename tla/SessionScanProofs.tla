-------------------------- MODULE SessionScanProofs -------------------------
(***************************************************************************)
(* SessionScan proved for any number of processes and sessions, whatever   *)
(* of them can be read, and any number of calls: it keeps its types and    *)
(* implements SessionReport.                                               *)
(***************************************************************************)
EXTENDS SessionScan, SequenceTheorems, TLAPS

N == Len(target.procs)

(* Where the rows of the running call begin. *)
Offset == Len(SessionInfoList) - (p - 1)

(* What the locals hold before process p is visited, if the pointer began   *)
(* as stray: what the report has for the process before, and no field of    *)
(* the session pointed to could still be read into the record.              *)
Locals(stray) ==
  /\ p = 1 => Session = stray /\ s_info = InitSessionInfo
  /\ \A q \in 1..N : p = q + 1 =>
       /\ s_info = Report!Info(q, stray)
       /\ \A f \in Fields : Cell(target, Session, f) # Fault => s_info[f] = Session

RowOf(q, stray) == [call |-> calls, process |-> q, info |-> Report!Info(q, stray)]

(* The call that is running has added the rows of the processes before p.   *)
Partial ==
  Running =>
    \E stray \in AllSessions(target) :
      /\ Locals(stray)
      /\ \A q \in 1..(p - 1) : SessionInfoList[Offset + q] = RowOf(q, stray)

Counts ==
  /\ Running => calls >= 1 /\ p - 1 <= Len(SessionInfoList)
  /\ Len(SessionInfoList) + N + 1 - p <= calls * N

IInv == TypeOK /\ Counts /\ Partial

-----------------------------------------------------------------------------
(* The target and what is read of it                                        *)

LEMMA TargetType ==
  ASSUME TypeOK
  PROVE  /\ N \in Nat /\ DOMAIN target.procs = 1..N /\ target.procs \in Seq(Nat \cup {Fault})
         /\ AllSessions(target) \subseteq Nat /\ NoSession \in AllSessions(target)
         /\ \A q \in 1..N : target.procs[q] # Fault => target.procs[q] \in AllSessions(target)
<1>1. target \in Target /\ \A q \in DOMAIN target.procs : target.procs[q] \in {NoSession, Fault} \cup DOMAIN target.readable
  BY ScanAssumption DEF TypeOK
<1>2. target.procs \in Seq(Nat \cup {Fault}) /\ target.readable \in Seq(SUBSET Fields)
  BY <1>1 DEF Target
<1>3. N \in Nat /\ DOMAIN target.procs = 1..N BY <1>2 DEF N
<1>4. DOMAIN target.readable \subseteq Nat BY <1>2
<1>. QED BY <1>1, <1>2, <1>3, <1>4 DEF AllSessions, NoSession

(* A field that can be read is that of the session pointed to.              *)
LEMMA CellParts ==
  ASSUME NEW t, NEW s \in Nat, NEW f
  PROVE  /\ Cell(t, s, f) \in {s, Fault} /\ s # Fault
         /\ Cell(t, NoSession, f) = Fault
         /\ \A d : ReadVirtual(Cell(t, s, f), d) = IF Cell(t, s, f) # Fault THEN s ELSE d
<1>1. s # Fault BY FaultAssumption
<1>. QED BY <1>1 DEF Cell, ReadVirtual

LEMMA PointerParts ==
  ASSUME TypeOK, NEW stray \in AllSessions(target), NEW q \in 0..N, N > 0
  PROVE  /\ Report!Pointer(q, stray) \in AllSessions(target)
         /\ q > 0 => Report!Pointer(q, stray) = ReadVirtual(target.procs[q], NoSession)
         /\ q = 0 => Report!Pointer(q, stray) = IF target.procs[1] = Fault THEN stray ELSE NoSession
<1>1. 1 \in 1..N BY TargetType
<1>2. CASE q > 0
  <2>1. q \in 1..N BY <1>2, TargetType
  <2>2. Report!Pointer(q, stray) = ReadVirtual(target.procs[q], NoSession)
    BY <1>2 DEF Report!Pointer, Report!ReadVirtual, Report!NoSession, NoSession, ReadVirtual
  <2>. QED BY <1>2, <2>1, <2>2, TargetType DEF ReadVirtual
<1>3. CASE q = 0
  BY <1>1, <1>3, TargetType DEF Report!Pointer, Report!NoSession, NoSession
<1>. QED BY <1>2, <1>3, TargetType

(* The report is about the same memory.                                     *)
LEMMA SameMemory ==
  /\ Report!Fields = Fields /\ Report!NoSession = NoSession
  /\ \A t, s, f : Report!Cell(t, s, f) = Cell(t, s, f)
  /\ \A t : Report!AllSessions(t) = AllSessions(t)
BY DEF Report!Fields, Fields, Report!NoSession, NoSession, Report!Cell, Cell,
       Report!AllSessions, AllSessions

(* The record of a process and that of the one before.                      *)
LEMMA InfoStep ==
  ASSUME TypeOK, NEW stray \in AllSessions(target), NEW q \in 1..N, NEW f \in Fields
  PROVE  Report!Info(q, stray)[f] =
           IF Cell(target, Report!Pointer(q, stray), f) # Fault
           THEN Report!Pointer(q, stray) ELSE Report!Info(q - 1, stray)[f]
<1>. DEFINE able(k) == {n \in 0..k : Cell(target, Report!Pointer(n, stray), f) # Fault}
            value(S) == IF S = {} THEN NoSession ELSE Report!Pointer(Report!Max(S), stray)
<1>0. q \in Nat \ {0} /\ \A n \in 0..q : n \in Int /\ n <= q BY TargetType
<1>1. ASSUME NEW k PROVE Report!Info(k, stray)[f] = value(able(k))
  <2>. DEFINE S == {n \in 0..k : Report!Cell(target, Report!Pointer(n, stray), f) # Fault}
  <2>1. S = able(k) BY SameMemory
  <2>2. f \in Report!Fields BY SameMemory
  <2>3. Report!Info(k, stray)[f] =
          IF S = {} THEN Report!NoSession ELSE Report!Pointer(Report!Max(S), stray)
    BY <2>2 DEF Report!Info
  <2>. HIDE DEF S, able
  <2>. QED BY <2>1, <2>3, SameMemory
<1>2. CASE Cell(target, Report!Pointer(q, stray), f) # Fault
  <2>1. q \in able(q) /\ \A n \in able(q) : n \in Int /\ n <= q BY <1>0, <1>2
  <2>. HIDE DEF able
  <2>2. Report!Max(able(q)) = q BY <1>0, <2>1 DEF Report!Max
  <2>. QED BY <1>1, <1>2, <2>1, <2>2
<1>3. CASE Cell(target, Report!Pointer(q, stray), f) = Fault
  <2>1. \A n \in Int : n \in 0..q <=> n \in 0..(q - 1) \/ n = q BY <1>0
  <2>2. able(q) = able(q - 1) BY <1>0, <1>3, <2>1
  <2>. HIDE DEF able
  <2>. QED BY <1>1, <1>3, <2>2
<1>. QED BY <1>2, <1>3

(* Before the first process there is only the pointer that was not set.     *)
LEMMA InfoBegin ==
  ASSUME TypeOK, NEW stray \in AllSessions(target), NEW f \in Fields, N > 0
  PROVE  Report!Info(0, stray)[f] =
           IF target.procs[1] = Fault /\ Cell(target, stray, f) # Fault THEN stray ELSE NoSession
<1>. DEFINE S == {n \in 0..0 : Report!Cell(target, Report!Pointer(n, stray), f) # Fault}
<1>1. f \in Report!Fields BY SameMemory
<1>2. Report!Info(0, stray)[f] =
        IF S = {} THEN Report!NoSession ELSE Report!Pointer(Report!Max(S), stray)
  BY <1>1 DEF Report!Info
<1>3. Report!Pointer(0, stray) = IF target.procs[1] = Fault THEN stray ELSE NoSession
  <2>1. 0 \in 0..N BY TargetType
  <2>. QED BY <2>1, PointerParts
<1>4. Cell(target, NoSession, f) = Fault BY CellParts DEF NoSession
<1>5. CASE target.procs[1] = Fault /\ Cell(target, stray, f) # Fault
  <2>1. S = {0} BY <1>3, <1>5, SameMemory
  <2>. HIDE DEF S
  <2>2. Report!Max(S) = 0 BY <2>1 DEF Report!Max
  <2>. QED BY <1>2, <1>3, <1>5, <2>1, <2>2
<1>6. CASE ~(target.procs[1] = Fault /\ Cell(target, stray, f) # Fault)
  <2>1. S = {} BY <1>3, <1>4, <1>6, SameMemory
  <2>. HIDE DEF S
  <2>. QED BY <1>2, <1>6, <2>1, SameMemory
<1>. QED BY <1>5, <1>6

LEMMA InfoType ==
  ASSUME NEW stray, NEW q
  PROVE  Report!Info(q, stray) = [f \in Fields |-> Report!Info(q, stray)[f]]
BY SameMemory DEF Report!Info

LEMMA InfoKept ==
  ASSUME UNCHANGED target, NEW stray, NEW q
  PROVE  Report!Info(q, stray)' = Report!Info(q, stray)
BY DEF Report!Info, Report!Pointer

-----------------------------------------------------------------------------
(* IInv is inductive.                                                       *)

(* Visiting a process turns the locals into what the report has for it: a   *)
(* read that fails leaves them so.                                          *)
LEMMA VisitLocals ==
  ASSUME TypeOK, Visit, NEW stray \in AllSessions(target), Locals(stray)
  PROVE  /\ s_info' = Report!Info(p, stray)
         /\ \A f \in Fields : Cell(target, Session', f) # Fault => s_info'[f] = Session'
         /\ Session' \in AllSessions(target)
<1>. DEFINE P == Report!Pointer(p, stray)
<1>1. p \in 1..N /\ N \in Nat /\ N > 0 /\ p \in Nat BY TargetType DEF Visit, TypeOK, N
<1>2. P = ReadVirtual(target.procs[p], NoSession) BY <1>1, PointerParts
<1>. HIDE DEF P
<1>3. Session' = ReadVirtual(target.procs[p], Session)
      /\ s_info' = [f \in Fields |-> ReadVirtual(Cell(target, Session', f), s_info[f])]
  BY DEF Visit
<1>4. Session \in AllSessions(target) BY DEF TypeOK
<1>5. Session' \in AllSessions(target) /\ Session' \in Nat
  BY <1>1, <1>3, <1>4, TargetType DEF ReadVirtual
<1>6. \A f \in Fields : s_info'[f] = IF Cell(target, Session', f) # Fault THEN Session' ELSE s_info[f]
  BY <1>3, <1>5, CellParts
<1>7. ASSUME NEW f \in Fields PROVE s_info'[f] = Report!Info(p, stray)[f]
  <2>1. Report!Info(p, stray)[f] =
          IF Cell(target, P, f) # Fault THEN P ELSE Report!Info(p - 1, stray)[f]
    BY <1>1, InfoStep DEF P
  <2>2. p = 1 => /\ Session = stray /\ s_info[f] = NoSession
                 /\ Report!Info(p - 1, stray)[f] =
                      IF target.procs[1] = Fault /\ Cell(target, stray, f) # Fault THEN stray ELSE NoSession
    BY <1>1, InfoBegin DEF Locals, InitSessionInfo
  <2>3. p # 1 => /\ s_info[f] = Report!Info(p - 1, stray)[f]
                 /\ Cell(target, Session, f) # Fault => s_info[f] = Session
    <3>1. p # 1 => p - 1 \in 1..N /\ p = (p - 1) + 1 BY <1>1
    <3>. QED BY <3>1 DEF Locals
  <2>4. CASE target.procs[p] # Fault
    <3>1. P = target.procs[p] /\ Session' = P BY <1>2, <1>3, <2>4 DEF ReadVirtual
    <3>2. s_info[f] = Report!Info(p - 1, stray)[f] BY <2>2, <2>3, <2>4
    <3>. QED BY <1>6, <2>1, <3>1, <3>2
  <2>5. CASE target.procs[p] = Fault
    <3>1. P = NoSession /\ Session' = Session BY <1>2, <1>3, <2>5 DEF ReadVirtual
    <3>2. Cell(target, P, f) = Fault BY <3>1, CellParts DEF NoSession
    <3>. QED BY <1>6, <2>1, <2>2, <2>3, <2>5, <3>1, <3>2
  <2>. QED BY <2>4, <2>5
<1>8. s_info' = Report!Info(p, stray) BY <1>3, <1>7, InfoType
<1>. QED BY <1>5, <1>6, <1>8

LEMMA InitIInv == Init => IInv
<1>. SUFFICES ASSUME Init PROVE IInv OBVIOUS
<1>1. target.procs \in Seq(Nat \cup {Fault}) /\ N \in Nat
  BY ScanAssumption DEF Init, Target, N
<1>2. NoSession \in AllSessions(target) BY DEF AllSessions
<1>3. s_info \in [Fields -> AllSessions(target)] BY <1>2 DEF Init, InitSessionInfo
<1>4. 0 * N = 0 BY <1>1
<1>5. MaxCalls \in Nat BY ScanAssumption
<1>6. SessionInfoList = <<>> /\ SessionInfoList \in Seq(Row) /\ Len(SessionInfoList) = 0
      /\ calls = 0 /\ p = N + 1
  BY DEF Init, N
<1>7. TypeOK BY <1>1, <1>2, <1>3, <1>4, <1>5, <1>6 DEF Init, TypeOK, N
<1>8. ~Running BY <1>1, <1>6 DEF Running, N
<1>9. Counts BY <1>1, <1>4, <1>6, <1>8 DEF Counts
<1>10. Partial BY <1>8 DEF Partial
<1>. QED BY <1>7, <1>9, <1>10 DEF IInv

LEMMA BeginIInv == ASSUME IInv, Begin PROVE IInv'
<1>1. /\ UNCHANGED <<target, SessionInfoList>> /\ N' = N
      /\ Session' \in AllSessions(target) /\ s_info' = InitSessionInfo
      /\ p' = 1 /\ calls' = calls + 1 /\ calls < MaxCalls /\ p > N
  BY DEF Begin, N
<1>2. /\ TypeOK /\ Counts /\ N \in Nat /\ p \in 1..(N + 1) /\ calls \in 0..MaxCalls /\ MaxCalls \in Nat
      /\ SessionInfoList \in Seq(Row)
  BY TargetType, ScanAssumption DEF IInv, TypeOK, N
<1>3. Len(SessionInfoList) \in Nat BY <1>2
<1>4. p = N + 1 BY <1>1, <1>2
<1>5. calls * N \in Nat /\ (calls + 1) * N = calls * N + N BY <1>2
<1>6. Len(SessionInfoList) <= calls * N BY <1>2, <1>3, <1>4, <1>5 DEF Counts
<1>7. Counts' BY <1>1, <1>2, <1>3, <1>5, <1>6 DEF Counts
<1>8. s_info' \in [Fields -> AllSessions(target)] BY <1>1, <1>2, TargetType DEF InitSessionInfo
<1>9. TypeOK'
  <2>1. Len(SessionInfoList) <= calls' * N BY <1>1, <1>2, <1>3, <1>5, <1>6
  <2>2. target \in Targets BY <1>2 DEF TypeOK
  <2>3. calls' \in 0..MaxCalls /\ p' \in 1..(N + 1) BY <1>1, <1>2
  <2>4. AllSessions(target)' = AllSessions(target) BY <1>1 DEF AllSessions
  <2>5. Len(target.procs) = N BY DEF N
  <2>. QED BY <1>1, <1>2, <1>8, <2>1, <2>2, <2>3, <2>4, <2>5 DEF TypeOK
<1>10. Partial'
  <2>1. PICK stray \in AllSessions(target) : stray = Session' BY <1>1
  <2>2. Locals(stray)'
    <3>1. \A q \in 1..N' : p' # q + 1 BY <1>1, <1>2
    <3>. QED BY <1>1, <2>1, <3>1 DEF Locals
  <2>3. \A q \in 1..(p' - 1) : FALSE BY <1>1
  <2>4. stray \in AllSessions(target)' BY <1>1, <2>1 DEF AllSessions
  <2>. QED BY <2>2, <2>3, <2>4 DEF Partial
<1>. QED BY <1>7, <1>9, <1>10 DEF IInv

LEMMA VisitIInv == ASSUME IInv, Visit PROVE IInv'
<1>. DEFINE L == SessionInfoList  row == SessionInfoBuilder(s_info')
<1>1. TypeOK /\ Counts /\ Partial /\ Running BY DEF IInv, Visit, Running
<1>2. /\ N \in Nat /\ p \in 1..N /\ p \in Nat /\ calls \in 0..MaxCalls /\ MaxCalls \in Nat
      /\ L \in Seq(Row) /\ AllSessions(target) \subseteq Nat
  BY <1>1, TargetType, ScanAssumption DEF TypeOK, Running, N
<1>3. L' = Append(L, row) /\ p' = p + 1 /\ UNCHANGED <<target, calls>> /\ N' = N
  BY DEF Visit, N
<1>4. PICK stray \in AllSessions(target) :
        Locals(stray) /\ \A q \in 1..(p - 1) : L[Offset + q] = RowOf(q, stray)
  BY <1>1 DEF Partial
<1>5. /\ s_info' = Report!Info(p, stray) /\ Session' \in AllSessions(target)
      /\ \A f \in Fields : Cell(target, Session', f) # Fault => s_info'[f] = Session'
  BY <1>1, <1>4, VisitLocals
<1>6. row = RowOf(p, stray) BY <1>5 DEF SessionInfoBuilder, RowOf
<1>7. s_info' \in [Fields -> AllSessions(target)]
  <2>1. Session' \in Nat BY <1>2, <1>5
  <2>2. s_info' = [f \in Fields |-> ReadVirtual(Cell(target, Session', f), s_info[f])] BY DEF Visit
  <2>3. \A f \in Fields : s_info[f] \in AllSessions(target) BY <1>1 DEF TypeOK
  <2>4. \A f \in Fields : ReadVirtual(Cell(target, Session', f), s_info[f]) \in AllSessions(target)
    BY <1>5, <2>1, <2>3, CellParts
  <2>. QED BY <2>2, <2>4
<1>8. Len(L) \in Nat /\ Len(L') = Len(L) + 1 /\ L' \in Seq(Row)
  <2>1. row.info \in [Fields -> Nat] BY <1>2, <1>7 DEF SessionInfoBuilder
  <2>2. calls >= 1 BY <1>1 DEF Counts
  <2>3. row \in Row BY <1>2, <2>1, <2>2 DEF SessionInfoBuilder, Row
  <2>. HIDE DEF row
  <2>. QED BY <1>2, <1>3, <2>3
<1>9. /\ \A n \in 1..Len(L) : L'[n] = L[n]
      /\ L'[Len(L) + 1] = row
  <2>. HIDE DEF row
  <2>. QED BY <1>2, <1>3, <1>8
<1>10. Offset' = Offset /\ Offset \in Nat /\ Offset + p = Len(L) + 1
  BY <1>1, <1>2, <1>3, <1>8 DEF Offset, Counts
<1>. HIDE DEF row
<1>11. Counts' /\ Len(L') <= calls' * N'
  <2>1. calls * N \in Nat BY <1>2
  <2>2. Len(L) + N + 1 - p <= calls * N /\ calls >= 1 /\ p - 1 <= Len(L) BY <1>1 DEF Counts
  <2>. QED BY <1>2, <1>3, <1>8, <2>1, <2>2 DEF Counts
<1>12. AllSessions(target)' = AllSessions(target) BY <1>3 DEF AllSessions
<1>13. TypeOK'
  <2>1. target' \in Targets BY <1>1, <1>3 DEF TypeOK
  <2>2. calls' \in 0..MaxCalls /\ p' \in 1..(N' + 1) BY <1>2, <1>3
  <2>3. Len(target.procs)' = N' BY DEF N
  <2>. QED BY <1>3, <1>5, <1>7, <1>8, <1>11, <1>12, <2>1, <2>2, <2>3 DEF TypeOK
<1>14. \A q : RowOf(q, stray)' = RowOf(q, stray) BY <1>3, InfoKept DEF RowOf
<1>15. Locals(stray)'
  <2>1. p' # 1 /\ \A q \in 1..N' : p' = q + 1 => q = p BY <1>2, <1>3
  <2>2. \A q : Report!Info(q, stray)' = Report!Info(q, stray) BY <1>3, InfoKept
  <2>3. \A f : Cell(target, Session, f)' = Cell(target, Session', f) BY <1>3 DEF Cell
  <2>. QED BY <1>5, <2>1, <2>2, <2>3 DEF Locals
<1>16. ASSUME NEW q \in 1..(p' - 1) PROVE L'[Offset' + q] = RowOf(q, stray)
  <2>1. CASE q = p BY <1>6, <1>9, <1>10, <2>1
  <2>2. CASE q # p
    <3>1. q \in 1..(p - 1) BY <1>2, <1>3, <2>2
    <3>2. Offset + q \in 1..Len(L) BY <1>2, <1>10, <3>1
    <3>. QED BY <1>4, <1>9, <1>10, <3>1, <3>2
  <2>. QED BY <2>1, <2>2
<1>17. Partial'
  <2>1. \A q \in 1..(p - 1)' : (L[Offset + q] = RowOf(q, stray))'
    BY <1>14, <1>16
  <2>. QED BY <1>12, <1>15, <2>1 DEF Partial
<1>. QED BY <1>11, <1>13, <1>17 DEF IInv

LEMMA NextIInv == IInv /\ [Next]_vars => IInv'
<1>. SUFFICES ASSUME IInv, [Next]_vars PROVE IInv' OBVIOUS
<1>1. CASE Begin BY <1>1, BeginIInv
<1>2. CASE Visit BY <1>2, VisitIInv
<1>3. CASE UNCHANGED vars
  <2>1. N' = N /\ UNCHANGED <<target, p, Session, s_info, SessionInfoList, calls>>
    BY <1>3 DEF vars, N
  <2>2. AllSessions(target)' = AllSessions(target) BY <2>1 DEF AllSessions
  <2>3. TypeOK' BY <2>1, <2>2 DEF IInv, TypeOK
  <2>4. Counts' BY <2>1 DEF IInv, Counts, Running, N
  <2>5. \A s, q : Report!Info(q, s)' = Report!Info(q, s) BY <2>1, InfoKept
  <2>6. \A s : Locals(s)' <=> Locals(s)
    <3>1. \A f : Cell(target, Session, f)' = Cell(target, Session, f) BY <2>1 DEF Cell
    <3>. QED BY <2>1, <2>5, <3>1 DEF Locals
  <2>7. \A s, q : RowOf(q, s)' = RowOf(q, s) BY <2>1, <2>5 DEF RowOf
  <2>8. Offset' = Offset /\ Running' = Running BY <2>1 DEF Offset, Running
  <2>9. Partial' BY <2>1, <2>2, <2>6, <2>7, <2>8 DEF IInv, Partial
  <2>. QED BY <2>3, <2>4, <2>9 DEF IInv
<1>. QED BY <1>1, <1>2, <1>3 DEF Next

LEMMA Invariant == Spec => []IInv
BY InitIInv, NextIInv, PTL DEF Spec

(* The locals and the vector stay what their types say, and no call adds    *)
(* more rows than there are processes (sessions.h:116-152, 167-177).        *)
THEOREM TypeCorrect == Spec => []TypeOK
<1>1. IInv => TypeOK BY DEF IInv
<1>. QED BY <1>1, Invariant, PTL

-----------------------------------------------------------------------------
(* The refinement                                                           *)

(* The report and the number of its calls, as SessionScan has them.         *)
ReportRows ==
  IF Running THEN SubSeq(SessionInfoList, 1, Len(SessionInfoList) - (p - 1)) ELSE SessionInfoList

ReportCalls == IF Running THEN calls - 1 ELSE calls

LEMMA Prefixes ==
  ASSUME NEW S, NEW s \in Seq(S), NEW e \in S, NEW n \in 0..Len(s)
  PROVE  /\ SubSeq(s, 1, Len(s)) = s
         /\ SubSeq(Append(s, e), 1, n) = SubSeq(s, 1, n)
<1>1. SubSeq(s, 1, Len(s)) = s OBVIOUS
<1>2. SubSeq(Append(s, e), 1, n) = SubSeq(s, 1, n)
  <2>1. Len(SubSeq(s, 1, n)) = n /\ Len(SubSeq(Append(s, e), 1, n)) = n OBVIOUS
  <2>2. \A i \in 1..n : SubSeq(Append(s, e), 1, n)[i] = SubSeq(s, 1, n)[i] OBVIOUS
  <2>. QED BY <2>1, <2>2
<1>. QED BY <1>1, <1>2

LEMMA Concatenation ==
  ASSUME NEW S, NEW s \in Seq(S), NEW t \in Seq(S), NEW u \in Seq(S), Len(u) = Len(s) + Len(t),
         \A i \in 1..Len(s) : u[i] = s[i], \A i \in 1..Len(t) : u[Len(s) + i] = t[i]
  PROVE  u = s \o t
<1>1. Len(s) \in Nat /\ Len(t) \in Nat OBVIOUS
<1>2. /\ s \o t \in Seq(S) /\ Len(s \o t) = Len(u)
      /\ \A i \in 1..Len(u) : (s \o t)[i] = IF i <= Len(s) THEN s[i] ELSE t[i - Len(s)]
  BY ConcatProperties
<1>3. ASSUME NEW i \in 1..Len(u) PROVE u[i] = (s \o t)[i]
  <2>1. i <= Len(s) => i \in 1..Len(s) BY <1>1
  <2>2. i > Len(s) => i - Len(s) \in 1..Len(t) /\ Len(s) + (i - Len(s)) = i BY <1>1
  <2>3. i <= Len(s) \/ i > Len(s) BY <1>1
  <2>. QED BY <1>1, <1>2, <2>1, <2>2, <2>3
<1>. QED BY <1>2, <1>3, SeqEqual

(* The beginning of a call shows nothing, unless there is no process: then  *)
(* the call is over.                                                        *)
LEMMA BeginRefines == ASSUME IInv, Begin PROVE [Report!Call]_(Report!vars)
<1>1. /\ UNCHANGED <<target, SessionInfoList>> /\ N' = N /\ Session' \in AllSessions(target)
      /\ p' = 1 /\ calls' = calls + 1 /\ calls < MaxCalls /\ p > N
  BY DEF Begin, N
<1>2. TypeOK /\ N \in Nat /\ calls \in Nat /\ SessionInfoList \in Seq(Row) /\ p \in Int
  BY TargetType DEF IInv, TypeOK
<1>3. ReportRows = SessionInfoList /\ ReportCalls = calls
  BY <1>1, <1>2 DEF ReportRows, ReportCalls, Running, N
<1>4. CASE N > 0
  <2>1. Running' BY <1>1, <1>2, <1>4 DEF Running, N
  <2>2. ReportCalls' = calls BY <1>1, <1>2, <2>1 DEF ReportCalls
  <2>3. SubSeq(SessionInfoList, 1, Len(SessionInfoList) - 0) = SessionInfoList BY <1>2
  <2>4. ReportRows' = SessionInfoList BY <1>1, <2>1, <2>3 DEF ReportRows
  <2>. QED BY <1>1, <1>3, <2>2, <2>4 DEF Report!vars, ReportRows, ReportCalls
<1>5. CASE N = 0
  <2>1. ~Running' BY <1>1, <1>5 DEF Running, N
  <2>2. ReportRows' = SessionInfoList /\ ReportCalls' = calls + 1
    BY <1>1, <2>1 DEF ReportRows, ReportCalls
  <2>3. DOMAIN target.procs = 1..0 BY <1>2, <1>5, TargetType
  <2>4. PICK stray \in AllSessions(target) : stray = Session' BY <1>1
  <2>. DEFINE rows == [q \in DOMAIN target.procs |->
                         [call |-> ReportCalls', process |-> q, info |-> Report!Info(q, stray)]]
  <2>5. rows = <<>> BY <2>3
  <2>. HIDE DEF rows
  <2>6. ReportRows' = ReportRows \o rows BY <1>2, <1>3, <2>2, <2>5, ConcatEmptySeq
  <2>7. ReportCalls < MaxCalls /\ ReportCalls' = ReportCalls + 1 BY <1>1, <1>3, <2>2
  <2>8. stray \in Report!AllSessions(target) BY <2>4, SameMemory
  <2>. QED BY <1>1, <2>6, <2>7, <2>8 DEF Report!Call, ReportRows, ReportCalls, rows
<1>. QED BY <1>2, <1>4, <1>5

(* A visit shows nothing either, but for the last: it ends the call.        *)
LEMMA VisitRefines == ASSUME IInv, Visit PROVE [Report!Call]_(Report!vars)
<1>. DEFINE L == SessionInfoList
<1>1. TypeOK /\ Counts /\ Partial /\ Running /\ IInv' BY VisitIInv DEF IInv, Visit, Running
<1>2. /\ N \in Nat /\ p \in 1..N /\ p \in Nat /\ calls \in 0..MaxCalls /\ calls >= 1
      /\ MaxCalls \in Nat /\ L \in Seq(Row) /\ Len(L) \in Nat /\ p - 1 <= Len(L)
  BY <1>1, TargetType, ScanAssumption DEF TypeOK, Running, Counts, N
<1>3. L' = Append(L, SessionInfoBuilder(s_info')) /\ p' = p + 1 /\ UNCHANGED <<target, calls>> /\ N' = N
  BY DEF Visit, N
<1>4. L' \in Seq(Row) BY <1>1 DEF IInv, TypeOK
<1>5. /\ Len(L') = Len(L) + 1 /\ L'[Len(L) + 1] = SessionInfoBuilder(s_info')
      /\ \A n \in 1..Len(L) : L'[n] = L[n]
  BY <1>2, <1>3
<1>6. ReportRows = SubSeq(L, 1, Offset) /\ ReportCalls = calls - 1 /\ Offset \in 0..Len(L)
  BY <1>1, <1>2 DEF ReportRows, ReportCalls, Offset
<1>7. CASE p < N
  <2>1. Running' BY <1>2, <1>3, <1>7 DEF Running, N
  <2>2. ReportRows' = SubSeq(L', 1, Len(L') - (p' - 1)) /\ ReportCalls' = ReportCalls
    BY <1>3, <1>6, <2>1 DEF ReportRows, ReportCalls
  <2>3. Len(L') - (p' - 1) = Offset BY <1>2, <1>3, <1>5 DEF Offset
  <2>4. SubSeq(L', 1, Offset) = SubSeq(L, 1, Offset)
    <3>1. SessionInfoBuilder(s_info') \in Row
      <4>1. Len(L) + 1 \in 1..Len(L') BY <1>2, <1>5
      <4>. QED BY <1>4, <1>5, <4>1, ElementOfSeq
    <3>. QED BY <1>2, <1>3, <1>6, <3>1, Prefixes
  <2>. QED BY <1>3, <1>6, <2>2, <2>3, <2>4 DEF Report!vars, ReportRows, ReportCalls
<1>8. CASE p = N
  <2>1. ~Running' BY <1>2, <1>3, <1>8 DEF Running, N
  <2>2. ReportRows' = L' /\ ReportCalls' = calls BY <1>3, <2>1 DEF ReportRows, ReportCalls
  <2>3. PICK stray \in AllSessions(target) :
          Locals(stray) /\ \A q \in 1..(p - 1) : L[Offset + q] = RowOf(q, stray)
    BY <1>1 DEF Partial
  <2>4. SessionInfoBuilder(s_info') = RowOf(p, stray)
    BY <1>1, <2>3, VisitLocals DEF SessionInfoBuilder, RowOf
  <2>. DEFINE rows == [q \in DOMAIN target.procs |->
                         [call |-> ReportCalls', process |-> q, info |-> Report!Info(q, stray)]]
  <2>. DEFINE first == SubSeq(L, 1, Offset)
  <2>5. ReportRows' = ReportRows \o rows
    <3>1. DOMAIN target.procs = 1..N BY <1>1, TargetType
    <3>2. rows = [q \in 1..N |-> RowOf(q, stray)] BY <2>2, <3>1 DEF RowOf
    <3>3. ASSUME NEW q \in 1..N PROVE L'[Offset + q] = RowOf(q, stray)
      <4>1. CASE q = p
        <5>1. Offset + q = Len(L) + 1 BY <1>2, <4>1 DEF Offset
        <5>. QED BY <1>5, <2>4, <4>1, <5>1
      <4>2. CASE q # p
        <5>1. q \in 1..(p - 1) /\ Offset + q \in 1..Len(L) BY <1>2, <1>6, <1>8, <4>2 DEF Offset
        <5>. QED BY <1>5, <2>3, <5>1
      <4>. QED BY <4>1, <4>2
    <3>4. Len(L') = Offset + N /\ Offset \in Nat BY <1>2, <1>5, <1>8 DEF Offset
    <3>5. \A q \in 1..N : RowOf(q, stray) \in Row
      <4>1. \A q \in 1..N : Offset + q \in 1..Len(L') BY <1>2, <3>4
      <4>. QED BY <1>4, <3>3, <4>1, ElementOfSeq
    <3>6. rows \in Seq(Row) /\ Len(rows) = N /\ \A q \in 1..N : rows[q] = RowOf(q, stray)
      <4>. HIDE DEF rows
      <4>. QED BY <1>2, <3>2, <3>5
    <3>7. first \in Seq(Row) /\ Len(first) = Offset /\ \A n \in 1..Offset : first[n] = L[n]
      BY <1>2, <1>6
    <3>8. \A n \in 1..Offset : L'[n] = L[n] BY <1>2, <1>5, <1>6
    <3>. HIDE DEF rows, first
    <3>9. L' = first \o rows
      <4>1. Len(L') = Len(first) + Len(rows) BY <3>4, <3>6, <3>7
      <4>2. \A n \in 1..Len(first) : L'[n] = first[n] BY <3>7, <3>8
      <4>3. \A n \in 1..Len(rows) : L'[Len(first) + n] = rows[n] BY <3>3, <3>6, <3>7
      <4>. QED BY <1>4, <3>6, <3>7, <4>1, <4>2, <4>3, Concatenation
    <3>. QED BY <1>6, <2>2, <3>9 DEF first
  <2>6. ReportCalls < MaxCalls /\ ReportCalls' = ReportCalls + 1 BY <1>2, <1>6, <2>2
  <2>7. stray \in Report!AllSessions(target) BY <2>3, SameMemory
  <2>. QED BY <1>3, <2>5, <2>6, <2>7 DEF Report!Call, ReportRows, ReportCalls
<1>. QED BY <1>2, <1>7, <1>8

(* Every call of !sessions amounts to appending, in one go, a row for every *)
(* process, whose fields are those of the nearest process they could be     *)
(* read of; no row added before changes (sessions.h:116-152, 167-177).      *)
THEOREM ImplementsSessionReport == Spec => ImplementsReport
<1>1. Init => Report!Init
  <2>. SUFFICES ASSUME Init PROVE Report!Init OBVIOUS
  <2>1. ~Running
    <3>1. TypeOK BY InitIInv DEF IInv
    <3>2. N \in Nat /\ p = N + 1 BY <3>1, TargetType DEF Init, N
    <3>. QED BY <3>2 DEF Running, N
  <2>. QED BY <2>1 DEF Init, Report!Init
<1>2. IInv /\ [Next]_vars => [Report!Call]_(Report!vars)
  <2>1. ASSUME UNCHANGED vars PROVE UNCHANGED Report!vars
    BY <2>1 DEF vars, Report!vars, Running
  <2>. QED BY <2>1, BeginRefines, VisitRefines DEF Next
<1>. QED BY <1>1, <1>2, Invariant, PTL DEF Spec, ImplementsReport, Report!Spec
=============================================================================
