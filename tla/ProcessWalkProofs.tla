------------------------- MODULE ProcessWalkProofs --------------------------
(***************************************************************************)
(* ProcessWalk proved for every set of targets: active lists of any        *)
(* length, any entry of which may be unreadable, and any number of walks.  *)
(***************************************************************************)
EXTENDS ProcessWalk, TLAPS

(* The block a walk is at when it is to read the i-th entry of its list.    *)
At(i) == IF i <= Len(processList) THEN processList[i].Eprocess ELSE current

(* The word at the place of a PID in the j-th block.                        *)
PidOf(j) == IF j = N + 1 THEN target.before ELSE target.procs[j].pid

(* The block the link in the j-th leads to: from the last, which has the    *)
(* list head in it, to the first.                                           *)
Follower(j) == IF j = N + 1 THEN 1 ELSE j + 1

(* Whether the walk gets past the j-th block.                               *)
Passable(j) == IF j = N + 1 THEN target.before \notin {0, Fault} ELSE Walkable(target.procs[j])

(* Every entry of the list, and `current`, is where the link before it      *)
(* leads.                                                                   *)
OnRing ==
  /\ At(1) = Base(1)
  /\ \A i \in 1..Len(processList) : \E j \in 1..(N + 1) :
       /\ processList[i].Eprocess = Base(j) /\ processList[i].PID = PidOf(j)
       /\ Passable(j)
       /\ At(i + 1) = Base(Follower(j))

(* So the list counts the blocks up and then starts over.                   *)
CountsUp ==
  \A i \in 1..(Len(processList) + 1) :
    IF i <= N + 1 THEN At(i) = Base(i) ELSE At(i) = At(i - (N + 1))

(* Where the walk stands.  This is what ListIsPrefix lacks to be inductive. *)
Position ==
  pc = "walk" =>
    /\ target.resolved
    /\ \/ ~target.head /\ current = -LinksOffset /\ processList = <<>>
       \/ target.head /\ OnRing /\ CountsUp

(* The loop variable holds the start of a block, never that of a LIST_ENTRY, *)
(* also after the walk, when the target may grow around it.                  *)
Aligned == current = -LinksOffset \/ \E i \in Nat : current = Base(i)

IInv == TypeOK /\ Position /\ Aligned

-----------------------------------------------------------------------------
(* What stands in memory where the walk looks.                              *)

(* The i-th block holds the i-th process (EntryAt).                         *)
LEMMA EntryAtBlock ==
  ASSUME NEW i \in 1..(N + 1), N \in Nat
  PROVE  EntryAt(Base(i)) =
           IF i = N + 1
           THEN [pid |-> target.before, flink |-> LinkOf(1)]
           ELSE [pid |-> target.procs[i].pid,
                 flink |-> IF target.procs[i].links THEN LinkOf(i + 1) ELSE Fault]
<1>1. \A j \in 1..(N + 1) : Base(i) = Base(j) => j = i
  BY DEF Base
<1>2. (CHOOSE j \in 1..(N + 1) : Base(i) = Base(j)) = i
  BY <1>1
<1>. QED BY <1>2 DEF EntryAt

(* When the list head cannot be read the walk starts outside every block.   *)
LEMMA EntryBeforeBlocks ==
  ASSUME N \in Nat, LinksOffset = 1096
  PROVE  EntryAt(-LinksOffset) = [pid |-> Fault, flink |-> Fault]
<1>1. ~ \E i \in 1..(N + 1) : -LinksOffset = Base(i)
  BY DEF Base
<1>. QED BY <1>1 DEF EntryAt

(* Reach is the only length that satisfies its definition.                  *)
LEMMA ReachUnique ==
  ASSUME NEW procs, Len(procs) \in Nat, NEW n \in 0..Len(procs),
         \A i \in 1..n : Walkable(procs[i]),
         n < Len(procs) => ~Walkable(procs[n + 1])
  PROVE  Reach(procs) = n
<1>1. ASSUME NEW m \in 0..Len(procs),
             \A i \in 1..m : Walkable(procs[i]),
             m < Len(procs) => ~Walkable(procs[m + 1])
      PROVE  m = n
  <2>1. CASE m < n BY <2>1, <1>1
  <2>2. CASE n < m BY <2>2, <1>1
  <2>. QED BY <2>1, <2>2
<1>. QED BY <1>1 DEF Reach

(* Blocks do not share an address.                                          *)
LEMMA BaseInjective ==
  ASSUME NEW i \in Int, NEW j \in Int, Base(i) = Base(j)
  PROVE  i = j
BY DEF Base

(* Types of what the lemmas speak of.                                       *)
LEMMA Types ==
  ASSUME TypeOK
  PROVE  /\ target \in Target /\ N \in Nat /\ LinksOffset = 1096
         /\ Len(processList) \in Nat /\ processList \in Seq(Row)
         /\ \A j \in 1..N : target.procs[j] \in EProcess
BY WalkAssumption DEF TypeOK, Target, N

(* What one iteration reads at the j-th block, and when it ends the walk:   *)
(* exactly where it cannot get past, and never at the list head as such.    *)
LEMMA StopsCorrect ==
  ASSUME TypeOK, NEW j \in 1..(N + 1), current = Base(j), NEW allocated \in BOOLEAN
  PROVE  /\ Stops(ProcessInformation(allocated)) <=> ~Passable(j)
         /\ Passable(j) =>
              /\ ProcessInformation(allocated) =
                   [Eprocess    |-> Base(j),
                    PID         |-> PidOf(j),
                    NextProcess |-> LinkOf(Follower(j)),
                    pDetails    |-> allocated]
              /\ PidOf(j) \in Nat \ {0}
              /\ Follower(j) \in 1..(N + 1)
<1>. DEFINE info == ProcessInformation(allocated)
<1>1. /\ target \in Target /\ LinksOffset = 1096 /\ N \in Nat /\ j \in Nat \ {0}
      /\ j # N + 1 => target.procs[j] \in EProcess
  <2>1. N \in Nat BY Types
  <2>2. j # N + 1 => j \in 1..N BY <2>1
  <2>. QED BY <2>1, <2>2, Types
<1>2. Follower(j) \in 1..(N + 1)
  BY <1>1 DEF Follower
<1>3. LinkOf(Follower(j)) \in Nat \ {0}
  BY <1>1, <1>2 DEF LinkOf, Base
<1>4. EntryAt(current) =
        [pid |-> PidOf(j),
         flink |-> IF j = N + 1 \/ target.procs[j].links
                   THEN LinkOf(Follower(j)) ELSE Fault]
  BY <1>1, EntryAtBlock DEF PidOf, Follower
<1>5. /\ PidOf(j) \in Nat \cup {Fault}
      /\ j # N + 1 => PidOf(j) # 0
  BY <1>1, FaultAssumption DEF PidOf, Target, EProcess
<1>6. info = [Eprocess    |-> current,
              PID         |-> ReadVirtual(EntryAt(current).pid, 0),
              NextProcess |-> ReadVirtual(EntryAt(current).flink, 0),
              pDetails    |-> allocated]
  BY DEF ProcessInformation
<1>7. CASE ~Passable(j)
  <2>1. info.PID = 0 \/ info.NextProcess = 0
    <3>1. CASE j = N + 1
      BY <1>4, <1>6, <1>7, <3>1 DEF Passable, PidOf, ReadVirtual
    <3>2. CASE j # N + 1
      BY <1>1, <1>4, <1>6, <1>7, <3>2 DEF Passable, PidOf, Walkable, EProcess, ReadVirtual
    <3>. QED BY <3>1, <3>2
  <2>. QED BY <1>7, <2>1 DEF Stops
<1>8. CASE Passable(j)
  <2>1. PidOf(j) \in Nat \ {0} /\ PidOf(j) # Fault
    BY <1>5, <1>8, FaultAssumption DEF Passable, PidOf, Walkable
  <2>2. EntryAt(current).flink = LinkOf(Follower(j)) /\ LinkOf(Follower(j)) # Fault
    BY <1>3, <1>4, <1>8, FaultAssumption DEF Passable, Walkable
  <2>3. info = [Eprocess    |-> Base(j),
                PID         |-> PidOf(j),
                NextProcess |-> LinkOf(Follower(j)),
                pDetails    |-> allocated]
    BY <1>4, <1>6, <2>1, <2>2 DEF ReadVirtual
  <2>4. Base(j) # process_head /\ LinkOf(Follower(j)) - HardLinksOffset # process_head
    BY <1>1, <1>2 DEF Base, LinkOf, process_head, HardLinksOffset
  <2>5. ~Stops(info)
    BY <1>3, <2>1, <2>3, <2>4 DEF Stops
  <2>. QED BY <1>2, <1>8, <2>1, <2>3, <2>5
<1>. QED BY <1>7, <1>8

(* With an unreadable head the first iteration reads nothing and stops.     *)
LEMMA StopsAtOnce ==
  ASSUME IInv, pc = "walk", ~target.head, NEW allocated \in BOOLEAN
  PROVE  Stops(ProcessInformation(allocated))
<1>1. N \in Nat /\ LinksOffset = 1096 /\ current = -LinksOffset
  BY Types DEF IInv, Position
<1>2. EntryAt(current) = [pid |-> Fault, flink |-> Fault]
  BY <1>1, EntryBeforeBlocks
<1>. QED BY <1>2 DEF Stops, ProcessInformation, ReadVirtual

(* While it walks, `current` is a block.                                    *)
LEMMA CurrentIsBlock ==
  ASSUME IInv, pc = "walk", target.head
  PROVE  \E j \in 1..(N + 1) : current = Base(j)
<1>. DEFINE n == Len(processList)
<1>1. n \in Nat /\ N \in Nat /\ OnRing
  BY Types, WalkAssumption DEF IInv, Position, TypeOK
<1>2. current = At(n + 1)
  BY <1>1 DEF At
<1>3. CASE n = 0
  BY <1>1, <1>2, <1>3 DEF OnRing
<1>4. CASE n # 0
  <2>1. n \in 1..Len(processList) BY <1>1, <1>4
  <2>2. PICK j \in 1..(N + 1) : At(n + 1) = Base(Follower(j))
    BY <1>1, <2>1 DEF OnRing
  <2>3. Follower(j) \in 1..(N + 1) BY <1>1 DEF Follower
  <2>. QED BY <1>2, <2>2, <2>3
<1>. QED BY <1>3, <1>4

-----------------------------------------------------------------------------
(* The inductive invariant.                                                 *)

LEMMA InitIInv == Init => IInv
<1>. SUFFICES ASSUME Init PROVE IInv
  OBVIOUS
<1>1. target \in Targets /\ processList = <<>> /\ current = 0
      /\ walks = 0 /\ pc = "idle"
  BY DEF Init
<1>2. TypeOK BY <1>1, WalkAssumption DEF TypeOK
<1>3. Aligned
  <2>1. current = Base(0) BY <1>1 DEF Base
  <2>. QED BY <2>1 DEF Aligned
<1>4. Position BY <1>1 DEF Position
<1>. QED BY <1>2, <1>3, <1>4 DEF IInv

LEMMA BeginIInv == IInv /\ Begin => IInv'
<1>. SUFFICES ASSUME IInv, Begin PROVE IInv'
  OBVIOUS
<1>1. /\ TypeOK /\ LinksOffset = 1096 /\ MaxWalks \in Nat
      /\ processList' = <<>> /\ target' = target
      /\ walks' = walks + 1 /\ walks < MaxWalks
  BY WalkAssumption DEF IInv, Begin
<1>2. CASE target.resolved
  <2>1. pc' = "walk" /\ current' = (IF target.head THEN LinkOf(1) ELSE 0) - LinksOffset
    BY <1>2 DEF Begin
  <2>2. IF target.head THEN current' = Base(1) ELSE current' = -LinksOffset
    BY <1>1, <2>1 DEF LinkOf, Base
  <2>3. TypeOK' BY <1>1, <2>1, <2>2 DEF TypeOK, Base
  <2>4. Aligned'
    <3>1. CASE target.head BY <2>2, <3>1 DEF Aligned
    <3>2. CASE ~target.head BY <2>2, <3>2 DEF Aligned
    <3>. QED BY <3>1, <3>2
  <2>5. N' \in Nat /\ Len(processList') = 0
    BY <1>1, Types DEF N
  <2>6. target.head => OnRing' /\ CountsUp'
    <3>. SUFFICES ASSUME target.head PROVE OnRing' /\ CountsUp'
      OBVIOUS
    <3>1. OnRing' BY <2>2, <2>5 DEF OnRing, At
    <3>2. (\A i \in {1} : i <= N + 1 /\ At(i) = Base(i))'
      BY <2>2, <2>5 DEF At
    <3>3. 1..(Len(processList') + 1) = {1} BY <2>5
    <3>. QED BY <3>1, <3>2, <3>3 DEF CountsUp
  <2>7. Position' BY <1>1, <1>2, <2>1, <2>2, <2>6 DEF Position
  <2>. QED BY <2>3, <2>4, <2>7 DEF IInv
<1>3. CASE ~target.resolved
  <2>1. pc' = "failed" /\ current' = current
    BY <1>3 DEF Begin
  <2>. QED BY <1>1, <2>1 DEF IInv, TypeOK, Position, Aligned
<1>. QED BY <1>2, <1>3

(* An iteration either keeps the entry it visits or ends the walk.          *)
LEMMA VisitCases ==
  ASSUME Visit
  PROVE  /\ pc = "walk" /\ target' = target /\ walks' = walks
         /\ \E allocated \in BOOLEAN :
              LET info == ProcessInformation(allocated) IN
              /\ current' = info.NextProcess - HardLinksOffset
              /\ \/ Stops(info) /\ pc' = "done" /\ processList' = processList
                 \/ ~Stops(info) /\ pc' = "walk" /\ processList' = Append(processList, info)
BY DEF Visit

(* The iteration that keeps the entry it visits.                            *)
LEMMA VisitKeepsIInv ==
  ASSUME IInv, Visit, pc' # "done"
  PROVE  IInv' /\ pc' = "walk"
<1>. DEFINE n == Len(processList)
<1>1. PICK allocated \in BOOLEAN :
        LET info == ProcessInformation(allocated) IN
        /\ current' = info.NextProcess - HardLinksOffset
        /\ ~Stops(info) /\ pc' = "walk" /\ processList' = Append(processList, info)
  BY VisitCases
<1>. DEFINE info == ProcessInformation(allocated)
<1>2. /\ pc = "walk" /\ target' = target /\ walks' = walks /\ N' = N
      /\ TypeOK /\ N \in Nat /\ n \in Nat /\ LinksOffset = 1096
      /\ processList \in Seq(Row) /\ target.resolved
  BY VisitCases, Types DEF IInv, Position, N
<1>3. target.head
  BY <1>1, <1>2, StopsAtOnce
<1>4. OnRing /\ CountsUp
  BY <1>2, <1>3 DEF IInv, Position
<1>5. PICK j \in 1..(N + 1) : current = Base(j)
  BY <1>2, <1>3, CurrentIsBlock
<1>6. /\ Passable(j) /\ PidOf(j) \in Nat \ {0} /\ Follower(j) \in 1..(N + 1)
      /\ info = [Eprocess    |-> Base(j),
                 PID         |-> PidOf(j),
                 NextProcess |-> LinkOf(Follower(j)),
                 pDetails    |-> allocated]
  BY <1>1, <1>2, <1>5, StopsCorrect
<1>. HIDE DEF info
<1>7. current' = Base(Follower(j)) /\ current' \in Int /\ Base(j) \in Int
  BY <1>1, <1>2, <1>6 DEF info, LinkOf, Base, HardLinksOffset
<1>8. info \in Row
  BY <1>2, <1>6, <1>7 DEF Row, LinkOf, Base
<1>9. /\ Len(processList') = n + 1 /\ processList'[n + 1] = info
      /\ \A i \in 1..n : processList'[i] = processList[i]
      /\ processList' \in Seq(Row)
  BY <1>1, <1>2, <1>8 DEF info
<1>10. TypeOK'
  BY <1>1, <1>2, <1>7, <1>9 DEF TypeOK
<1>11. Aligned'
  <2>1. Follower(j) \in Nat BY <1>2, <1>6
  <2>. QED BY <1>7, <2>1 DEF Aligned
<1>. DEFINE atNext(i) == IF i <= n + 1 THEN processList'[i].Eprocess ELSE current'
<1>12. /\ \A i \in 1..(n + 1) : atNext(i) = At(i)
       /\ At(n + 1) = Base(j) /\ atNext(n + 2) = Base(Follower(j))
       /\ n + 1 \in 1..(n + 1) /\ 1 \in 1..(n + 1)
  <2>1. ASSUME NEW i \in 1..(n + 1) PROVE atNext(i) = At(i)
    <3>1. CASE i \in 1..n BY <1>2, <1>9, <3>1 DEF At
    <3>2. CASE i = n + 1 BY <1>2, <1>5, <1>6, <1>9, <3>2 DEF At
    <3>. QED BY <1>2, <3>1, <3>2
  <2>. QED BY <1>2, <1>5, <1>7, <1>9, <2>1 DEF At
<1>. HIDE DEF atNext
<1>13. /\ \A k \in 1..(N + 1) : PidOf(k)' = PidOf(k) /\ Passable(k)' = Passable(k)
                              /\ Follower(k)' = Follower(k)
  BY <1>2 DEF PidOf, Passable, Follower
<1>14. OnRing'
  <2>1. atNext(1) = Base(1) BY <1>2, <1>4, <1>12 DEF OnRing
  <2>2. ASSUME NEW i \in 1..(n + 1)
        PROVE  \E k \in 1..(N + 1) :
                 /\ processList'[i].Eprocess = Base(k) /\ processList'[i].PID = PidOf(k)
                 /\ Passable(k) /\ atNext(i + 1) = Base(Follower(k))
    <3>1. CASE i = n + 1
      <4>1. atNext(i + 1) = Base(Follower(j)) BY <1>2, <1>12, <3>1
      <4>. QED BY <1>6, <1>9, <3>1, <4>1
    <3>2. CASE i # n + 1
      <4>1. i \in 1..n /\ i + 1 \in 1..(n + 1) BY <1>2, <3>2
      <4>2. PICK k \in 1..(N + 1) :
              /\ processList[i].Eprocess = Base(k) /\ processList[i].PID = PidOf(k)
              /\ Passable(k) /\ At(i + 1) = Base(Follower(k))
        BY <1>4, <4>1 DEF OnRing
      <4>. QED BY <1>9, <1>12, <4>1, <4>2
    <3>. QED BY <3>1, <3>2
  <2>3. (At(1) = Base(1))' BY <1>2, <1>9, <2>1 DEF At, atNext
  <2>4. ASSUME NEW i \in 1..(n + 1) PROVE (At(i + 1))' = atNext(i + 1)
    BY <1>2, <1>9 DEF At, atNext
  <2>. QED BY <1>2, <1>9, <1>13, <2>2, <2>3, <2>4 DEF OnRing
<1>15. CountsUp'
  <2>1. ASSUME NEW i \in 1..(n + 2)
        PROVE  IF i <= N + 1 THEN atNext(i) = Base(i) ELSE atNext(i) = atNext(i - (N + 1))
    <3>1. CASE i \in 1..(n + 1)
      <4>1. i > N + 1 => i - (N + 1) \in 1..(n + 1) BY <1>2, <3>1
      <4>2. i \in 1..(Len(processList) + 1) /\ (~(i <= N + 1) => i > N + 1) BY <1>2, <3>1
      <4>. QED BY <1>4, <1>12, <3>1, <4>1, <4>2 DEF CountsUp
    <3>2. CASE i = n + 2 /\ n + 1 <= N + 1
      <4>1. j = n + 1
        <5>1. n + 1 \in 1..(Len(processList) + 1) BY <1>2
        <5>2. At(n + 1) = Base(n + 1) BY <1>4, <3>2, <5>1 DEF CountsUp
        <5>. QED BY <1>2, <1>12, <5>2, BaseInjective
      <4>2. atNext(1) = Base(1) BY <1>2, <1>4, <1>12 DEF OnRing
      <4>3. CASE n = N
        <5>1. i - (N + 1) = 1 /\ ~(i <= N + 1) BY <1>2, <3>2, <4>3
        <5>. QED BY <1>12, <3>2, <4>1, <4>2, <4>3, <5>1 DEF Follower
      <4>4. CASE n # N
        <5>1. j # N + 1 /\ i <= N + 1 /\ j + 1 = i BY <1>2, <3>2, <4>1, <4>4
        <5>. QED BY <1>12, <3>2, <5>1 DEF Follower
      <4>. QED BY <4>3, <4>4
    <3>3. CASE i = n + 2 /\ n + 1 > N + 1
      <4>. DEFINE m == n + 1 - (N + 1)
      <4>1. m \in 1..n /\ m + 1 = i - (N + 1) /\ m + 1 \in 1..(n + 1)
        BY <1>2, <3>3
      <4>2. At(n + 1) = At(m)
        <5>1. n + 1 \in 1..(Len(processList) + 1) BY <1>2
        <5>. QED BY <1>2, <1>4, <3>3, <5>1 DEF CountsUp
      <4>3. PICK k \in 1..(N + 1) :
              processList[m].Eprocess = Base(k) /\ At(m + 1) = Base(Follower(k))
        BY <1>4, <4>1 DEF OnRing
      <4>4. k = j
        <5>1. At(m) = Base(k) BY <4>1, <4>3 DEF At
        <5>. QED BY <1>2, <1>12, <4>2, <5>1, BaseInjective
      <4>5. atNext(m + 1) = Base(Follower(j)) BY <1>12, <4>1, <4>3, <4>4
      <4>. HIDE DEF m
      <4>. QED BY <1>2, <1>12, <3>3, <4>1, <4>5
    <3>. QED BY <1>2, <3>1, <3>2, <3>3
  <2>. QED BY <1>2, <1>9, <2>1 DEF CountsUp, At, atNext
<1>16. Position' BY <1>1, <1>2, <1>3, <1>14, <1>15 DEF Position
<1>. QED BY <1>1, <1>10, <1>11, <1>16 DEF IInv

(* The iteration that ends the walk.                                        *)
LEMMA VisitStopsIInv ==
  ASSUME IInv, Visit, pc' = "done"
  PROVE  IInv' /\ processList' = processList
<1>1. PICK allocated \in BOOLEAN :
        LET info == ProcessInformation(allocated) IN
        /\ current' = info.NextProcess - HardLinksOffset
        /\ Stops(info) /\ processList' = processList
  BY VisitCases
<1>2. LinksOffset = 1096 /\ N \in Nat /\ target' = target /\ walks' = walks /\ pc = "walk"
  BY VisitCases, Types DEF IInv
<1>. DEFINE next == ProcessInformation(allocated).NextProcess
<1>3. next = 0 \/ \E i \in Nat : next = LinkOf(i)
  <2>1. EntryAt(current).flink = Fault
        \/ \E i \in Nat : EntryAt(current).flink = LinkOf(i)
    <3>1. CASE current \in {Base(i) : i \in 1..(N + 1)}
      <4>1. PICK i \in 1..(N + 1) : current = Base(i)
        BY <3>1
      <4>2. i + 1 \in Nat /\ 1 \in Nat BY <1>2
      <4>. QED BY <1>2, <4>1, <4>2, EntryAtBlock
    <3>2. CASE current \notin {Base(i) : i \in 1..(N + 1)}
      BY <3>2 DEF EntryAt
    <3>. QED BY <3>1, <3>2
  <2>. QED BY <2>1 DEF ProcessInformation, ReadVirtual
<1>4. current' \in Int /\ Aligned'
  <2>1. CASE next = 0
    BY <1>1, <1>2, <2>1 DEF Aligned, HardLinksOffset
  <2>2. ASSUME NEW i \in Nat, next = LinkOf(i)
        PROVE  current' \in Int /\ Aligned'
    <3>1. current' = Base(i)
      BY <1>1, <1>2, <2>2 DEF LinkOf, Base, HardLinksOffset
    <3>2. current' \in Int BY <3>1 DEF Base
    <3>. QED BY <3>1, <3>2 DEF Aligned
  <2>. QED BY <1>3, <2>1, <2>2
<1>5. TypeOK' BY <1>1, <1>2, <1>4 DEF IInv, TypeOK
<1>6. Position' BY DEF Position
<1>. QED BY <1>1, <1>4, <1>5, <1>6 DEF IInv

LEMMA TargetRunsIInv == IInv /\ (TargetRuns \/ OutOfRows \/ UNCHANGED vars) => IInv'
<1>1. IInv /\ TargetRuns => IInv'
  BY DEF IInv, TargetRuns, TypeOK, Position, Aligned
<1>2. IInv /\ UNCHANGED vars => IInv'
  BY DEF IInv, vars, TypeOK, Position, Aligned, N, OnRing, CountsUp, At, PidOf, Passable, Follower
<1>. QED BY <1>1, <1>2 DEF OutOfRows

LEMMA NextIInv == IInv /\ [Next]_vars => IInv'
<1>1. IInv /\ Visit => IInv'
  BY VisitKeepsIInv, VisitStopsIInv
<1>. QED BY <1>1, BeginIInv, TargetRunsIInv DEF Next

(* IInv holds in every reachable state.                                     *)
THEOREM Invariant == Spec => []IInv
BY InitIInv, NextIInv, PTL DEF Spec

-----------------------------------------------------------------------------
(* The properties of ProcessWalk.                                           *)

(* Every variable keeps its type, whatever the targets.                     *)
THEOREM TypeCorrect == Spec => []TypeOK
<1>1. IInv => TypeOK BY DEF IInv
<1>. QED BY <1>1, Invariant, PTL

(* The loop of parsepslist never leaves through its own condition           *)
(* (pslist.h:153): the loop variable is the start of a block, the list head *)
(* a LIST_ENTRY inside the place of one.                                    *)
THEOREM HeadIsNeverMet == Spec => []HeadNeverMet
<1>1. ASSUME IInv PROVE HeadNeverMet
  <2>1. N \in Nat /\ LinksOffset = 1096
    BY <1>1, Types DEF IInv
  <2>2. current = -LinksOffset \/ \E i \in Nat : current = Base(i)
    BY <1>1 DEF IInv, Aligned
  <2>. QED BY <2>1, <2>2 DEF HeadNeverMet, process_head, LinkOf, Base
<1>. QED BY <1>1, Invariant, PTL

(* What the vector holds, row by row, in terms of the target.               *)
LEMMA RowsOfWalk ==
  ASSUME IInv, pc = "walk", NEW i \in 1..Len(processList)
  PROVE  /\ target.head
         /\ i <= N => /\ Walkable(target.procs[i])
                      /\ processList[i].Eprocess = Base(i)
                      /\ processList[i].PID = target.procs[i].pid
         /\ i = N + 1 => /\ target.before \notin {0, Fault}
                         /\ processList[i].Eprocess = Base(i)
                         /\ processList[i].PID = target.before
         /\ i > N + 1 => /\ i - (N + 1) \in 1..Len(processList)
                         /\ processList[i].Eprocess = processList[i - (N + 1)].Eprocess
                         /\ processList[i].PID = processList[i - (N + 1)].PID
<1>. DEFINE n == Len(processList)
<1>1. N \in Nat /\ n \in Nat /\ i \in 1..(n + 1) /\ processList \in Seq(Row)
  BY Types DEF IInv
<1>2. target.head /\ OnRing /\ CountsUp
  BY <1>1 DEF IInv, Position
<1>3. PICK j \in 1..(N + 1) : /\ processList[i].Eprocess = Base(j)
                              /\ processList[i].PID = PidOf(j) /\ Passable(j)
  BY <1>2 DEF OnRing
<1>4. At(i) = processList[i].Eprocess
  BY <1>1 DEF At
<1>5. CASE i <= N + 1
  <2>1. j = i BY <1>1, <1>2, <1>3, <1>4, <1>5, BaseInjective DEF CountsUp
  <2>. QED BY <1>1, <1>2, <1>3, <1>5, <2>1 DEF PidOf, Passable
<1>6. CASE i > N + 1
  <2>. DEFINE m == i - (N + 1)
  <2>1. m \in 1..n /\ At(m) = processList[m].Eprocess /\ ~(i <= N + 1)
    BY <1>1, <1>6 DEF At
  <2>2. At(i) = At(m) BY <1>1, <1>2, <1>6, <2>1 DEF CountsUp
  <2>. HIDE DEF m
  <2>3. PICK k \in 1..(N + 1) : processList[m].Eprocess = Base(k) /\ processList[m].PID = PidOf(k)
    BY <1>2, <2>1 DEF OnRing
  <2>4. k = j
    <3>1. Base(k) = Base(j) BY <1>3, <1>4, <2>1, <2>2, <2>3
    <3>. QED BY <1>1, <3>1, BaseInjective
  <2>. QED BY <1>1, <1>2, <1>3, <1>6, <2>1, <2>3, <2>4 DEF m
<1>. QED BY <1>1, <1>5, <1>6

(* While it walks, the list holds the active list from its first process    *)
(* on, each once and in order, and goes round it only over a word in front  *)
(* of the head that is not zero (pslist.h:153-176).                         *)
THEOREM PrefixAlways == Spec => []ListIsPrefix
<1>1. ASSUME IInv PROVE ListIsPrefix
  <2>1. N \in Nat BY <1>1, Types DEF IInv
  <2>. SUFFICES ASSUME pc = "walk", NEW i \in 1..Len(processList)
                PROVE  LET row == processList[i] IN
                       \/ i <= N /\ row.Eprocess = Base(i) /\ row.PID = target.procs[i].pid
                       \/ i = N + 1 /\ row.Eprocess = Base(i) /\ row.PID = target.before
                       \/ i > N + 1 /\ row.Eprocess = processList[i - (N + 1)].Eprocess
                                    /\ row.PID = processList[i - (N + 1)].PID
    BY DEF ListIsPrefix
  <2>. QED BY <1>1, <2>1, RowsOfWalk
<1>. QED BY <1>1, Invariant, PTL

(* Where the walk ends, it stands behind the last process, with a zero or   *)
(* nothing readable in front of the head, or before one it cannot pass.     *)
LEMMA WhereItEnds ==
  ASSUME IInv, Visit, pc' = "done", target.head
  PROVE  LET k == Len(processList) + 1 IN
         /\ k \in 1..(N + 1)
         /\ ~Passable(k)
<1>. DEFINE n == Len(processList)
<1>1. N \in Nat /\ n \in Nat /\ TypeOK /\ pc = "walk"
  BY Types, VisitCases DEF IInv
<1>2. OnRing /\ CountsUp BY <1>1 DEF IInv, Position
<1>3. PICK j \in 1..(N + 1) : current = Base(j)
  BY <1>1, CurrentIsBlock
<1>4. ~Passable(j)
  BY <1>1, <1>3, VisitCases, StopsCorrect
<1>5. At(n + 1) = Base(j) /\ n + 1 \in 1..(Len(processList) + 1)
  BY <1>1, <1>3 DEF At
<1>6. CASE n + 1 <= N + 1
  <2>1. j = n + 1 BY <1>1, <1>2, <1>5, <1>6, BaseInjective DEF CountsUp
  <2>. QED BY <1>1, <1>4, <1>6, <2>1
<1>7. CASE ~(n + 1 <= N + 1)
  <2>. DEFINE m == n + 1 - (N + 1)
  <2>1. m \in 1..n BY <1>1, <1>7
  <2>2. PICK k \in 1..(N + 1) : processList[m].Eprocess = Base(k) /\ Passable(k)
    BY <1>2, <2>1 DEF OnRing
  <2>3. At(n + 1) = At(m) /\ At(m) = processList[m].Eprocess
    BY <1>1, <1>2, <1>5, <1>7, <2>1 DEF CountsUp, At
  <2>4. k = j BY <1>1, <1>5, <2>2, <2>3, BaseInjective
  <2>. QED BY <1>4, <2>2, <2>4
<1>. QED BY <1>6, <1>7

(* With no zero ahead a walk does not return (pslist.h:153, 170).           *)
THEOREM NoReturnWithoutZero == Spec => ReturnsOnlyAtZero
<1>1. ASSUME IInv, [Next]_vars, pc = "walk", pc' # "walk" PROVE ~NoZeroAhead
  <2>1. Visit BY <1>1 DEF Next, Begin, TargetRuns, OutOfRows, vars
  <2>2. pc' = "done" BY <1>1, <2>1, VisitCases
  <2>3. CASE ~target.head BY <2>3 DEF NoZeroAhead
  <2>4. CASE target.head
    <3>1. PICK k \in 1..(N + 1) : ~Passable(k)
      BY <1>1, <2>1, <2>2, <2>4, WhereItEnds
    <3>2. N \in Nat BY <1>1, Types DEF IInv
    <3>. QED BY <3>1, <3>2 DEF Passable, NoZeroAhead
  <2>. QED BY <2>3, <2>4
<1>2. IInv /\ [Next]_vars => [pc = "walk" /\ pc' # "walk" => ~NoZeroAhead]_vars
  BY <1>1
<1>. QED BY <1>2, Invariant, PTL DEF Spec, ReturnsOnlyAtZero

(* When the walk ends, the rows are the snapshot of the target.             *)
LEMMA RowsAtEnd ==
  ASSUME IInv, Visit, pc' = "done"
  PROVE  Rows = Snapshot(target)
<1>. DEFINE n == Len(processList)
<1>1. /\ target.resolved /\ target \in Target /\ N \in Nat /\ LinksOffset = 1096
      /\ n \in Nat /\ pc = "walk"
  BY Types, VisitCases DEF IInv, Position
<1>2. CASE ~target.head
  <2>1. processList = <<>> BY <1>1, <1>2 DEF IInv, Position
  <2>. QED BY <1>2, <2>1 DEF Rows, Snapshot
<1>3. CASE target.head
  <2>1. n <= N /\ (n = N \/ ~Walkable(target.procs[n + 1]))
    BY <1>1, <1>3, WhereItEnds DEF Passable
  <2>2. \A i \in 1..n : /\ Walkable(target.procs[i])
                        /\ processList[i].Eprocess = Base(i)
                        /\ processList[i].PID = target.procs[i].pid
    <3>1. \A i \in 1..n : i <= N BY <1>1, <2>1
    <3>. QED BY <1>1, <3>1, RowsOfWalk
  <2>3. Reach(target.procs) = n
    <3>1. n \in 0..Len(target.procs) /\ Len(target.procs) \in Nat
      BY <1>1, <2>1 DEF N
    <3>2. n < Len(target.procs) => ~Walkable(target.procs[n + 1])
      BY <1>1, <2>1, <3>1 DEF N
    <3>. HIDE DEF n
    <3>. QED BY <2>2, <3>1, <3>2, ReachUnique
  <2>. QED BY <1>1, <1>3, <2>2, <2>3 DEF Rows, Snapshot
<1>. QED BY <1>2, <1>3

(* A step that ends the walk leaves the snapshot of the target in the list  *)
(* (pslist.h:153-184).                                                      *)
THEOREM YieldsSnapshot == Spec => WalkYieldsSnapshot
<1>1. ASSUME IInv, [Next]_vars, pc = "walk", pc' = "done"
      PROVE  Rows' = Snapshot(target)
  <2>1. Visit BY <1>1 DEF Next, Begin, TargetRuns, OutOfRows, vars
  <2>2. processList' = processList BY <1>1, <2>1, VisitStopsIInv
  <2>3. Rows' = Rows BY <2>2 DEF Rows
  <2>. QED BY <1>1, <2>1, <2>3, RowsAtEnd
<1>2. IInv /\ [Next]_vars => [pc = "walk" /\ pc' = "done" => Rows' = Snapshot(target)]_vars
  BY <1>1
<1>. QED BY <1>2, Invariant, PTL DEF Spec, WalkYieldsSnapshot

(* parsepslist implements the atomic load of ProcessSnapshot.               *)
THEOREM Refinement == Spec => ImplementsSnapshot
<1>1. Init => Abstract!Init
  BY DEF Init, Abstract!Init, Rows
<1>2. ASSUME IInv, [Next]_vars PROVE [Abstract!Next]_(Abstract!vars)
  <2>1. CASE Begin
    <3>1. pc # "walk" /\ processList' = <<>> /\ target' = target BY <2>1 DEF Begin
    <3>2. Rows' = <<>> BY <3>1 DEF Rows
    <3>3. (pc = "walk")' = target.resolved
      <4>1. target.resolved \in BOOLEAN
        BY <1>2, WalkAssumption DEF IInv, TypeOK, Target
      <4>. QED BY <2>1, <4>1 DEF Begin
    <3>. QED BY <3>1, <3>2, <3>3 DEF Abstract!Next, Abstract!Clear
  <2>2. CASE Visit /\ pc' # "done"
    <3>1. pc = "walk" /\ pc' = "walk" /\ target' = target
      BY <1>2, <2>2, VisitKeepsIInv, VisitCases
    <3>. QED BY <3>1 DEF Abstract!vars
  <2>3. CASE Visit /\ pc' = "done"
    <3>1. pc = "walk" /\ target' = target /\ processList' = processList
      BY <1>2, <2>3, VisitStopsIInv, VisitCases
    <3>2. Rows' = Rows BY <3>1 DEF Rows
    <3>3. Rows' = Snapshot(target) BY <1>2, <2>3, <3>2, RowsAtEnd
    <3>4. Abstract!Snapshot(target) = Snapshot(target)
      BY DEF Abstract!Snapshot, Abstract!Reach, Abstract!Walkable, Abstract!Base,
             Snapshot, Reach, Walkable, Base
    <3>. QED BY <2>3, <3>1, <3>3, <3>4 DEF Abstract!Next, Abstract!Fill
  <2>4. CASE TargetRuns
    <3>1. pc # "walk" /\ pc' = pc /\ processList' = processList /\ target' \in Targets
      BY <2>4 DEF TargetRuns
    <3>2. Rows' = Rows BY <3>1 DEF Rows
    <3>. QED BY <3>1, <3>2 DEF Abstract!Next, Abstract!Change
  <2>5. CASE UNCHANGED vars \/ OutOfRows
    <3>1. Rows' = Rows BY <2>5 DEF OutOfRows, vars, Rows
    <3>. QED BY <2>5, <3>1 DEF OutOfRows, vars, Abstract!vars
  <2>. QED BY <1>2, <2>1, <2>2, <2>3, <2>4, <2>5 DEF Next
<1>. QED BY <1>1, <1>2, Invariant, PTL DEF Spec, ImplementsSnapshot, Abstract!Spec
=============================================================================
