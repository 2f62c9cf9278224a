-------------------------- MODULE XDbgTraceProofs ---------------------------
(***************************************************************************)
(* XDbgTrace proved for every set of processes that may run, any number of *)
(* commands, and a target that runs in between or stands still.            *)
(***************************************************************************)
EXTENDS XDbgTrace, FiniteSetTheorems, WellFoundedInduction, TLAPS

(* What the kernel lists is what last used its memory. *)
ListedOwnTheirBlocks ==
  \A i \in DOMAIN kernel :
    kernel[i].Eprocess \in DOMAIN pool /\ pool[kernel[i].Eprocess] = kernel[i]

(* rows, made of the processes `of`, are their copies but for the token.   *)
(* The block of a row belongs to its process or to a later one, and a      *)
(* token that is not its process's means a later one has had the block.    *)
CacheOf(rows, of) ==
  /\ rows \in Seq(CachedRow) /\ of \in Seq(Processes) /\ Len(rows) = Len(of)
  /\ \A i \in DOMAIN rows :
       LET owner == pool[of[i].Eprocess] IN
       /\ [rows[i] EXCEPT !.Token = 0] = [of[i] EXCEPT !.Token = 0]
       /\ of[i].Eprocess \in DOMAIN pool
       /\ owner = of[i] \/ of[i].CreateTime < owner.CreateTime
       /\ rows[i].Token \in {0, of[i].Token} \/ of[i].CreateTime < owner.CreateTime

(* xDbg has the interface where the answers so far should have left it one. *)
HasInterface == dataspaces <=> InterfaceGiven

IInv ==
  /\ TypeOK /\ ListedOwnTheirBlocks /\ CacheOf(processList, loaded)
  /\ HasInterface /\ EnvarsNeedsInterface

-----------------------------------------------------------------------------
(* The n-th place of a set of places, and the rows at them.                *)

LEMMA NthPlace ==
  ASSUME NEW m \in Nat, NEW places \in SUBSET (1..m), NEW n \in 1..Cardinality(places)
  PROVE  \E i \in places : Cardinality({j \in places : j <= i}) = n
<1>. DEFINE Upto(k) == {j \in places : j <= k}
            C(k) == Cardinality(Upto(k))
<1>0. \A j \in places : j \in Int /\ 1 <= j /\ j <= m OBVIOUS
<1>1. IsFiniteSet(1..m) BY FS_Interval, 1 \in Int, m \in Int
<1>2. IsFiniteSet(places) /\ \A k : IsFiniteSet(Upto(k)) /\ C(k) \in Nat
  <2>1. \A k : Upto(k) \subseteq 1..m OBVIOUS
  <2>. QED BY <1>1, <2>1, FS_Subset, FS_CardinalityType
<1>3. C(0) = 0
  <2>1. \A j \in places : ~(j <= 0) BY <1>0
  <2>2. Upto(0) = {} BY <2>1
  <2>. QED BY <2>2, FS_EmptySet
<1>4. C(m) = Cardinality(places)
  <2>1. Upto(m) = places BY <1>0
  <2>. QED BY <2>1
<1>5. Cardinality(places) \in Nat BY <1>2, FS_CardinalityType
<1>6. ASSUME NEW k \in 1..m
      PROVE  /\ k \notin places => C(k) = C(k - 1)
             /\ k \in places => C(k) = C(k - 1) + 1
  <2>1. CASE k \notin places
    <3>1. \A j \in places : j <= k <=> j <= k - 1 BY <1>0, <2>1
    <3>2. Upto(k) = Upto(k - 1) BY <3>1
    <3>. QED BY <2>1, <3>2
  <2>2. CASE k \in places
    <3>1. \A j \in places : j <= k <=> j <= k - 1 \/ j = k BY <1>0, <2>2
    <3>2. k <= k /\ ~(k <= k - 1) OBVIOUS
    <3>3. Upto(k) = Upto(k - 1) \cup {k} /\ k \notin Upto(k - 1) BY <2>2, <3>1, <3>2
    <3>. HIDE DEF Upto
    <3>4. C(k) = C(k - 1) + 1 BY <1>2, <3>3, FS_AddElement
    <3>. QED BY <2>2, <3>4
  <2>. QED BY <2>1, <2>2
<1>. DEFINE Enough == {k \in Nat : k \in 1..m /\ n <= C(k)}
<1>. HIDE DEF C
<1>7. m \in Enough BY <1>3, <1>4, <1>5
<1>8. PICK k \in Enough : \A y \in Enough : ~(<<y, k>> \in OpToRel(<, Nat))
  BY <1>7, NatLessThanWellFounded, WFMin
<1>9. k \in 1..m /\ n <= C(k) /\ k - 1 \in Nat OBVIOUS
<1>10. C(k - 1) < n
  <2>1. CASE k = 1 BY <1>3, <2>1
  <2>2. CASE k # 1
    <3>1. k - 1 \in 1..m BY <1>9, <2>2
    <3>2. <<k - 1, k>> \in OpToRel(<, Nat) BY <1>9 DEF OpToRel
    <3>3. k - 1 \notin Enough BY <1>8, <3>2
    <3>4. ~(n <= C(k - 1)) BY <1>9, <3>1, <3>3
    <3>5. C(k - 1) \in Nat BY <1>2 DEF C
    <3>. QED BY <1>5, <3>4, <3>5
  <2>. QED BY <2>1, <2>2
<1>11. C(k) \in Nat /\ C(k - 1) \in Nat BY <1>2 DEF C
<1>12. k \in places /\ C(k) = n BY <1>6, <1>9, <1>10, <1>11
<1>. QED BY <1>12 DEF C

LEMMA RowsAtParts ==
  ASSUME NEW R, NEW rows \in Seq(R), NEW places \in SUBSET DOMAIN rows
  PROVE  /\ RowsAt(rows, places) \in Seq(R)
         /\ \A n \in DOMAIN RowsAt(rows, places) : \E i \in places : RowsAt(rows, places)[n] = rows[i]
<1>. DEFINE Nth(n) == CHOOSE i \in places : Cardinality({j \in places : j <= i}) = n
            c == Cardinality(places)
<1>1. Len(rows) \in Nat /\ places \in SUBSET (1..Len(rows)) OBVIOUS
<1>2. c \in Nat
  <2>1. IsFiniteSet(1..Len(rows)) BY <1>1, FS_Interval, 1 \in Int, Len(rows) \in Int
  <2>. QED BY <1>1, <2>1, FS_Subset, FS_CardinalityType
<1>3. \A n \in 1..c : Nth(n) \in places BY <1>1, NthPlace
<1>4. RowsAt(rows, places) = [n \in 1..c |-> rows[Nth(n)]] BY DEF RowsAt
<1>. HIDE DEF Nth, c
<1>5. \A n \in 1..c : rows[Nth(n)] \in R BY <1>1, <1>3
<1>. QED BY <1>2, <1>3, <1>4, <1>5

-----------------------------------------------------------------------------
(* Rows and processes                                                       *)

Row == [Eprocess : Nat, PID : Nat, ActiveThreads : Nat, VirtualSize : Nat,
        PeakVirtualSize : Nat, CreateTime : Nat, process_name : Nat,
        Peb : BOOLEAN, Protected : BOOLEAN, Token : Nat]

LEMMA RowType ==
  /\ Processes \subseteq Row
  /\ CachedRow \subseteq Row
  /\ \A p \in Processes : [p EXCEPT !.Token = 0] \in CachedRow
<1>1. \A p \in Processes : p \in Process BY SessionAssumption
<1>2. Processes \subseteq Row BY <1>1 DEF Process, Row
<1>3. ASSUME NEW r \in CachedRow PROVE r \in Row
  <2>1. PICK p \in Processes, t \in {0} \cup {q.Token : q \in Processes} : r = [p EXCEPT !.Token = t]
    BY DEF CachedRow
  <2>2. t \in Nat BY <1>2 DEF Row
  <2>. QED BY <1>2, <2>1, <2>2 DEF Row
<1>4. \A p \in Processes : [p EXCEPT !.Token = 0] \in CachedRow BY DEF CachedRow
<1>. QED BY <1>2, <1>3, <1>4

(* A row that equals a process but for the token has its other fields.      *)
LEMMA SameButToken ==
  ASSUME NEW r \in Row, NEW p \in Row, [r EXCEPT !.Token = 0] = [p EXCEPT !.Token = 0]
  PROVE  /\ r.Eprocess = p.Eprocess /\ r.PID = p.PID /\ r.CreateTime = p.CreateTime
         /\ r.ActiveThreads = p.ActiveThreads /\ r.VirtualSize = p.VirtualSize
         /\ r.PeakVirtualSize = p.PeakVirtualSize /\ r.process_name = p.process_name
<1>. DEFINE s == [r EXCEPT !.Token = 0]
            q == [p EXCEPT !.Token = 0]
<1>1. /\ s.Eprocess = r.Eprocess /\ s.PID = r.PID /\ s.CreateTime = r.CreateTime
      /\ s.ActiveThreads = r.ActiveThreads /\ s.VirtualSize = r.VirtualSize
      /\ s.PeakVirtualSize = r.PeakVirtualSize /\ s.process_name = r.process_name
  BY DEF Row
<1>2. /\ q.Eprocess = p.Eprocess /\ q.PID = p.PID /\ q.CreateTime = p.CreateTime
      /\ q.ActiveThreads = p.ActiveThreads /\ q.VirtualSize = p.VirtualSize
      /\ q.PeakVirtualSize = p.PeakVirtualSize /\ q.process_name = p.process_name
  BY DEF Row
<1>3. s = q OBVIOUS
<1>. HIDE DEF s, q
<1>. QED BY <1>1, <1>2, <1>3

(* The i-th row, the process it was made of and the one that has its block *)
(* now.                                                                     *)
LEMMA CacheParts ==
  ASSUME NEW rows, NEW of, CacheOf(rows, of), TypeOK
  PROVE  /\ DOMAIN rows = DOMAIN of /\ rows \in Seq(CachedRow) /\ of \in Seq(Processes)
         /\ \A i \in DOMAIN rows :
              /\ rows[i] \in CachedRow /\ rows[i] \in Row
              /\ of[i] \in Processes /\ of[i] \in Row
              /\ rows[i].Eprocess = of[i].Eprocess /\ rows[i].PID = of[i].PID
              /\ rows[i].Eprocess \in DOMAIN pool
              /\ pool[rows[i].Eprocess] \in Processes /\ pool[rows[i].Eprocess] \in Row
<1>1. DOMAIN rows = DOMAIN of /\ rows \in Seq(CachedRow) /\ of \in Seq(Processes)
  BY DEF CacheOf
<1>2. ASSUME NEW i \in DOMAIN rows
      PROVE  /\ rows[i] \in CachedRow /\ rows[i] \in Row
             /\ of[i] \in Processes /\ of[i] \in Row
             /\ [rows[i] EXCEPT !.Token = 0] = [of[i] EXCEPT !.Token = 0]
             /\ of[i].Eprocess \in DOMAIN pool
  <2>1. rows[i] \in CachedRow /\ of[i] \in Processes BY <1>1
  <2>. QED BY <2>1, RowType DEF CacheOf
<1>3. \A a \in DOMAIN pool : pool[a] \in Processes /\ pool[a] \in Row
  BY RowType DEF TypeOK
<1>4. ASSUME NEW i \in DOMAIN rows
      PROVE  rows[i].Eprocess = of[i].Eprocess /\ rows[i].PID = of[i].PID
  BY <1>2, SameButToken
<1>. QED BY <1>1, <1>2, <1>3, <1>4

(* What a load of n rows, or a command that loads them first if the cache   *)
(* is empty, has rows of.                                                   *)
ProcessesToLoad(n) == SubSeq(kernel, 1, n)

ProcessesToShow(n) == IF processList = <<>> THEN ProcessesToLoad(n) ELSE loaded

LEMMA ReachableType ==
  ASSUME TypeOK, NEW n \in Reachable
  PROVE  n \in Nat /\ n <= Len(kernel) /\ Len(kernel) \in Nat /\ kernel \in Seq(Processes)
<1>1. kernel \in Seq(Processes) /\ Len(kernel) \in Nat BY DEF TypeOK
<1>2. n \in 0..Len(kernel) BY <1>1 DEF Reachable
<1>. QED BY <1>1, <1>2

LEMMA LoadedRowsCache ==
  ASSUME TypeOK, ListedOwnTheirBlocks, NEW n \in Reachable
  PROVE  CacheOf(LoadedRows(n), ProcessesToLoad(n))
<1>. DEFINE rows == LoadedRows(n)
            of == ProcessesToLoad(n)
<1>1. n \in Nat /\ n <= Len(kernel) /\ Len(kernel) \in Nat /\ kernel \in Seq(Processes)
  BY ReachableType
<1>2. of \in Seq(Processes) /\ Len(of) = n /\ \A i \in 1..n : of[i] = kernel[i] /\ i \in DOMAIN kernel
  BY <1>1 DEF ProcessesToLoad
<1>3. \A i \in 1..n : kernel[i] \in Row /\ [kernel[i] EXCEPT !.Token = 0] \in CachedRow
  BY <1>1, RowType
<1>4. rows = [i \in 1..n |-> [kernel[i] EXCEPT !.Token = 0]] BY DEF LoadedRows
<1>. HIDE DEF rows, of
<1>5. rows \in Seq(CachedRow) /\ Len(rows) = n /\ DOMAIN rows = 1..n BY <1>1, <1>3, <1>4
<1>6. ASSUME NEW i \in 1..n
      PROVE  /\ [rows[i] EXCEPT !.Token = 0] = [of[i] EXCEPT !.Token = 0]
             /\ rows[i].Token = 0
             /\ of[i].Eprocess \in DOMAIN pool /\ pool[of[i].Eprocess] = of[i]
  <2>1. rows[i] = [kernel[i] EXCEPT !.Token = 0] BY <1>4
  <2>2. of[i] = kernel[i] /\ kernel[i] \in Row /\ i \in DOMAIN kernel BY <1>2, <1>3
  <2>. QED BY <2>1, <2>2 DEF Row, ListedOwnTheirBlocks
<1>7. CacheOf(rows, of) BY <1>2, <1>5, <1>6 DEF CacheOf
<1>. QED BY <1>7 DEF rows, of

LEMMA RowsToShowCache ==
  ASSUME IInv, NEW n \in Reachable
  PROVE  CacheOf(RowsToShow(n), ProcessesToShow(n))
BY LoadedRowsCache DEF IInv, RowsToShow, ProcessesToShow

LEMMA ShowingCache ==
  ASSUME IInv, LoadRequirements
  PROVE  CacheOf(processList', loaded')
<1>1. CASE processList = <<>>
  <2>1. PICK n \in Reachable : parsepslist(n) BY <1>1 DEF LoadRequirements
  <2>. QED BY <2>1, LoadedRowsCache DEF IInv, parsepslist, ProcessesToLoad
<1>2. CASE processList # <<>> BY <1>2 DEF IInv, LoadRequirements
<1>. QED BY <1>1, <1>2

-----------------------------------------------------------------------------
(* What is printed                                                          *)

LEMMA LinesParts ==
  ASSUME TypeOK, NEW rows, NEW of, CacheOf(rows, of)
  PROVE  /\ Lines(rows) \in Seq(TextLine)
         /\ \A n \in DOMAIN Lines(rows) : n \in DOMAIN rows /\ Lines(rows)[n] = Line(rows[n])
<1>1. Len(rows) \in Nat /\ DOMAIN rows = 1..Len(rows) BY CacheParts
<1>2. \A i \in DOMAIN rows : Line(rows[i]) \in TextLine BY CacheParts DEF Line, TextLine, Row
<1>3. Lines(rows) = [i \in 1..Len(rows) |-> Line(rows[i])] BY <1>1 DEF Lines
<1>. QED BY <1>1, <1>2, <1>3

LEMMA LinesAtParts ==
  ASSUME TypeOK, NEW rows, NEW of, CacheOf(rows, of), NEW places \in SUBSET DOMAIN rows
  PROVE  /\ Lines(RowsAt(rows, places)) \in Seq(TextLine)
         /\ \A n \in DOMAIN Lines(RowsAt(rows, places)) :
              \E i \in DOMAIN rows : Lines(RowsAt(rows, places))[n] = Line(rows[i])
<1>. DEFINE at == RowsAt(rows, places)
<1>1. rows \in Seq(CachedRow) BY CacheParts
<1>2. at \in Seq(CachedRow) /\ \A n \in DOMAIN at : \E i \in places : at[n] = rows[i]
  BY <1>1, RowsAtParts
<1>. HIDE DEF at
<1>3. Len(at) \in Nat /\ DOMAIN at = 1..Len(at) BY <1>2
<1>4. \A i \in DOMAIN rows : Line(rows[i]) \in TextLine BY CacheParts DEF Line, TextLine, Row
<1>5. Lines(at) = [n \in 1..Len(at) |-> Line(at[n])] BY <1>3 DEF Lines
<1>6. \A n \in 1..Len(at) : \E i \in DOMAIN rows : Line(at[n]) = Line(rows[i]) 
  BY <1>2, <1>3
<1>7. \A n \in 1..Len(at) : Line(at[n]) \in TextLine BY <1>4, <1>6
<1>8. Lines(at) \in Seq(TextLine) BY <1>3, <1>5, <1>7
<1>. QED BY <1>5, <1>6, <1>8 DEF at

(* A sort is a permutation of the rows, in the order of their keys.        *)
LEMMA SortingsParts ==
  ASSUME NEW R, NEW rows \in Seq(R), NEW opt \in Options, NEW s \in Sortings(opt, rows)
  PROVE  /\ s \in Seq(R) /\ Len(s) = Len(rows) /\ DOMAIN s = DOMAIN rows
         /\ \A i \in DOMAIN s : \E j \in DOMAIN rows : s[i] = rows[j]
         /\ \A j \in DOMAIN rows : \E i \in DOMAIN s : s[i] = rows[j]
<1>1. rows \in Seq(R) /\ Len(rows) \in Nat /\ DOMAIN rows = 1..Len(rows) OBVIOUS
<1>2. CASE opt = "" BY <1>1, <1>2 DEF Sortings
<1>3. CASE opt # ""
  <2>1. PICK pi \in Bijection(DOMAIN rows, DOMAIN rows) : s = [i \in DOMAIN rows |-> rows[pi[i]]]
    BY <1>3 DEF Sortings
  <2>3. pi \in [DOMAIN rows -> DOMAIN rows] /\ \A j \in DOMAIN rows : \E i \in DOMAIN rows : pi[i] = j
    BY <2>1 DEF Bijection, Injection, Surjection
  <2>4. \A i \in 1..Len(rows) : pi[i] \in 1..Len(rows) /\ rows[pi[i]] \in R BY <1>1, <2>3
  <2>5. s = [i \in 1..Len(rows) |-> rows[pi[i]]] BY <1>1, <2>1
  <2>6. s \in Seq(R) /\ Len(s) = Len(rows) /\ DOMAIN s = DOMAIN rows
    BY <1>1, <2>4, <2>5
  <2>7. \A i \in DOMAIN s : pi[i] \in DOMAIN rows /\ s[i] = rows[pi[i]] BY <1>1, <2>4, <2>5
  <2>8. \A j \in DOMAIN rows : \E i \in DOMAIN s : s[i] = rows[j]
    BY <2>3, <2>6, <2>7
  <2>. QED BY <2>6, <2>7, <2>8
<1>. QED BY <1>2, <1>3

LEMMA SortedByKey ==
  ASSUME NEW rows, NEW opt \in Options \ {""}, NEW s \in Sortings(opt, rows),
         NEW i \in DOMAIN rows, NEW j \in DOMAIN rows, i < j
  PROVE  Key(opt, s[i]) <= Key(opt, s[j])
<1>1. \A m, n \in DOMAIN rows : m < n => Key(opt, s[m]) <= Key(opt, s[n])
  BY DEF Sortings
<1>. QED BY Zenon, <1>1

LEMMA OwnerOfTokenParts ==
  ASSUME NEW r \in CachedRow
  PROVE  /\ OwnerOfToken(r) \in Nat
         /\ \A p \in Processes : r.Token = p.Token => OwnerOfToken(r) = p.PID
<1>1. r \in Row /\ \A p \in Processes : p \in Process /\ p \in Row
  BY RowType, SessionAssumption
<1>2. r.Token = 0 \/ \E p \in Processes : r.Token = p.Token
  <2>1. PICK p \in Processes, t \in {0} \cup {q.Token : q \in Processes} : r = [p EXCEPT !.Token = t]
    BY DEF CachedRow
  <2>2. r.Token = t BY <1>1, <2>1 DEF Row
  <2>. QED BY <2>2
<1>3. CASE r.Token = 0
  <2>1. \A p \in Processes : p.Token # 0 BY <1>1 DEF Process
  <2>. QED BY <1>1, <1>3, <2>1 DEF OwnerOfToken, Row
<1>4. CASE r.Token # 0
  <2>. DEFINE owner == CHOOSE p \in Processes : p.Token = r.Token
  <2>1. owner \in Processes /\ owner.Token = r.Token BY <1>2, <1>4
  <2>2. \A p \in Processes : r.Token = p.Token => p = owner BY <2>1, SessionAssumption
  <2>3. OwnerOfToken(r) = owner.PID BY <1>4 DEF OwnerOfToken
  <2>. HIDE DEF owner
  <2>. QED BY <1>1, <2>1, <2>2, <2>3 DEF Row
<1>. QED BY <1>3, <1>4

LEMMA TokenWritten ==
  ASSUME NEW r \in CachedRow, NEW q \in Processes
  PROVE  /\ [r EXCEPT !.Token = q.Token] \in CachedRow
         /\ [r EXCEPT !.Token = q.Token].Token = q.Token
         /\ [r EXCEPT !.Token = q.Token].PID = r.PID
         /\ [[r EXCEPT !.Token = q.Token] EXCEPT !.Token = 0] = [r EXCEPT !.Token = 0]
<1>1. r \in Row BY RowType
<1>2. PICK p \in Processes, t \in {0} \cup {n.Token : n \in Processes} : r = [p EXCEPT !.Token = t]
  BY DEF CachedRow
<1>3. p \in Row BY RowType
<1>4. [r EXCEPT !.Token = q.Token] = [p EXCEPT !.Token = q.Token]
  BY <1>2, <1>3 DEF Row
<1>5. [p EXCEPT !.Token = q.Token] \in CachedRow
  <2>. DEFINE tokens == {0} \cup {n.Token : n \in Processes}
  <2>1. CachedRow = {[n EXCEPT !.Token = u] : n \in Processes, u \in tokens} BY DEF CachedRow
  <2>2. q.Token \in tokens OBVIOUS
  <2>. HIDE DEF tokens
  <2>. QED BY <2>1, <2>2
<1>. QED BY <1>1, <1>4, <1>5 DEF Row

-----------------------------------------------------------------------------
(* IInv is inductive.                                                       *)

(* Steps that leave the interface alone, be it without the output of the    *)
(* last !envars or with the rows it was of.                                 *)
LEMMA InterfaceKept ==
  ASSUME IInv, UNCHANGED <<dataspaces, setups>>,
         output'.cmd # "envars" \/ UNCHANGED <<output, processList>>
  PROVE  setups' \in Seq(Apis) /\ HasInterface' /\ EnvarsNeedsInterface'
<1>1. setups \in Seq(Apis) BY DEF IInv, TypeOK
<1>2. UNCHANGED InterfaceGiven BY DEF InterfaceGiven
<1>3. HasInterface' BY <1>2 DEF IInv, HasInterface
<1>4. EnvarsNeedsInterface'
  <2>1. CASE output'.cmd # "envars" BY <2>1 DEF EnvarsNeedsInterface
  <2>2. CASE UNCHANGED <<output, processList>>
    <3>1. EnvarsNeedsInterface BY DEF IInv
    <3>. QED BY <1>2, <2>2, <3>1 DEF EnvarsNeedsInterface
  <2>. QED BY <2>1, <2>2
<1>. QED BY <1>1, <1>3, <1>4

LEMMA CommandIInv ==
  ASSUME IInv, Command, CacheOf(processList', loaded'), dataspaces' \in BOOLEAN,
         output'.status \in {"ok", "refused", "crash"}, output'.rows \in Seq(TextLine),
         SessionInfoList' \in Seq(TextLine),
         setups' \in Seq(Apis), HasInterface', EnvarsNeedsInterface'
  PROVE  IInv'
<1>1. UNCHANGED <<kernel, pool, resolved, initialized>> /\ commands' = commands + 1
      /\ commands < MaxCommands
  BY DEF Command, target
<1>2. CacheOf(processList, loaded)' BY <1>1 DEF CacheOf
<1>3. ListedOwnTheirBlocks' BY <1>1 DEF IInv, ListedOwnTheirBlocks
<1>4. processList' \in Seq(CachedRow) /\ loaded' \in Seq(Processes) BY DEF CacheOf
<1>5. commands' \in 0..MaxCommands BY <1>1, SessionAssumption DEF IInv, TypeOK
<1>6. TypeOK' BY <1>1, <1>4, <1>5 DEF IInv, TypeOK
<1>. QED BY <1>2, <1>3, <1>6 DEF IInv

LEMMA PslistIInv ==
  ASSUME IInv, NEW opt \in Options, Pslist(opt)
  PROVE  IInv'
<1>1. TypeOK /\ ListedOwnTheirBlocks /\ SessionInfoList \in Seq(TextLine) /\ dataspaces \in BOOLEAN
  BY DEF IInv, TypeOK
<1>2. PICK n \in Reachable :
        /\ \E s \in Sortings(opt, RowsToShow(n)) :
             Printed("pslist", opt, "ok",
                     [i \in DOMAIN s |-> [PID |-> s[i].PID, memory |-> s[i].PID]])
        /\ parsepslist(n)
  BY DEF Pslist
<1>3. CacheOf(processList', loaded') BY <1>1, <1>2, LoadedRowsCache DEF parsepslist, ProcessesToLoad
<1>4. RowsToShow(n) \in Seq(CachedRow) BY RowsToShowCache DEF CacheOf
<1>5. PICK s \in Sortings(opt, RowsToShow(n)) :
        Printed("pslist", opt, "ok",
                [i \in DOMAIN s |-> [PID |-> s[i].PID, memory |-> s[i].PID]])
  BY <1>2
<1>6. s \in Seq(CachedRow) BY <1>4, SortingsParts
<1>7. \A i \in DOMAIN s : s[i].PID \in Nat BY <1>6, RowType DEF Row
<1>8. [i \in DOMAIN s |-> [PID |-> s[i].PID, memory |-> s[i].PID]] \in Seq(TextLine)
  <2>1. DOMAIN s = 1..Len(s) /\ Len(s) \in Nat BY <1>6
  <2>2. \A i \in 1..Len(s) : [PID |-> s[i].PID, memory |-> s[i].PID] \in TextLine
    BY <1>7, <2>1 DEF TextLine
  <2>. QED BY <2>1, <2>2
<1>9. output'.status = "ok" /\ output'.rows \in Seq(TextLine) /\ output'.cmd = "pslist"
  BY <1>5, <1>8 DEF Printed
<1>10. setups' \in Seq(Apis) /\ HasInterface' /\ EnvarsNeedsInterface'
  BY <1>9, InterfaceKept DEF Pslist
<1>. QED BY <1>1, <1>3, <1>9, <1>10, CommandIInv DEF Pslist

LEMMA DlllistIInv ==
  ASSUME IInv, NEW api \in Apis, Dlllist(api)
  PROVE  IInv'
<1>1. TypeOK /\ SessionInfoList \in Seq(TextLine) /\ dataspaces \in BOOLEAN BY DEF IInv, TypeOK
<1>2. CacheOf(processList', loaded') BY ShowingCache DEF Dlllist
<1>3. output'.status \in {"ok", "refused", "crash"} /\ output'.rows \in Seq(TextLine)
  <2>1. CASE api = "ok"
    <3>1. PICK places \in SUBSET DOMAIN processList' :
            Printed("dlllist", api, "ok", Lines(RowsAt(processList', places)))
      BY <2>1 DEF Dlllist
    <3>. QED BY <1>1, <1>2, <3>1, LinesAtParts DEF Printed
  <2>2. CASE api # "ok"
    <3>1. Printed("dlllist", api, Rejected(api), <<>>) BY <2>2 DEF Dlllist
    <3>2. <<>> \in Seq(TextLine) OBVIOUS
    <3>. QED BY <3>1, <3>2 DEF Printed, Rejected
  <2>. QED BY <2>1, <2>2
<1>4. setups' \in Seq(Apis) /\ HasInterface' /\ EnvarsNeedsInterface'
  <2>1. output'.cmd = "dlllist" BY DEF Dlllist, Printed
  <2>. QED BY <2>1, InterfaceKept DEF Dlllist
<1>. QED BY <1>1, <1>2, <1>3, <1>4, CommandIInv DEF Dlllist

LEMMA ThreadsIInv == ASSUME IInv, Threads PROVE IInv'
<1>1. TypeOK /\ SessionInfoList \in Seq(TextLine) /\ dataspaces \in BOOLEAN BY DEF IInv, TypeOK
<1>2. CacheOf(processList', loaded') BY ShowingCache DEF Threads
<1>3. output'.status = "ok" /\ output'.rows \in Seq(TextLine) /\ output'.cmd = "threads"
  BY <1>1, <1>2, LinesParts DEF Threads, Printed
<1>4. setups' \in Seq(Apis) /\ HasInterface' /\ EnvarsNeedsInterface'
  BY <1>3, InterfaceKept DEF Threads
<1>. QED BY <1>1, <1>2, <1>3, <1>4, CommandIInv DEF Threads

LEMMA SessionsIInv == ASSUME IInv, Sessions PROVE IInv'
<1>1. TypeOK /\ SessionInfoList \in Seq(TextLine) /\ dataspaces \in BOOLEAN BY DEF IInv, TypeOK
<1>2. CacheOf(processList', loaded') BY ShowingCache DEF Sessions
<1>3. Lines(processList') \in Seq(TextLine) BY <1>1, <1>2, LinesParts
<1>4. SessionInfoList' \in Seq(TextLine) BY <1>1, <1>3 DEF Sessions
<1>5. output'.status = "ok" /\ output'.rows \in Seq(TextLine) /\ output'.cmd = "sessions"
  BY <1>4 DEF Sessions, Printed
<1>6. setups' \in Seq(Apis) /\ HasInterface' /\ EnvarsNeedsInterface'
  BY <1>5, InterfaceKept DEF Sessions
<1>. QED BY <1>1, <1>2, <1>4, <1>5, <1>6, CommandIInv DEF Sessions

(* The rows !envars goes to are there if some cached process has a PEB.     *)
LEMMA RowsWithPeb ==
  ASSUME NEW rows \in Seq(CachedRow)
  PROVE  RowsAt(rows, {i \in DOMAIN rows : rows[i].Peb}) # <<>> <=> \E i \in DOMAIN rows : rows[i].Peb
<1>. DEFINE places == {i \in DOMAIN rows : rows[i].Peb}
            at == RowsAt(rows, places)
            c == Cardinality(places)
<1>1. Len(rows) \in Nat /\ places \in SUBSET (1..Len(rows)) OBVIOUS
<1>2. IsFiniteSet(places)
  <2>1. IsFiniteSet(1..Len(rows)) BY <1>1, FS_Interval, 1 \in Int, Len(rows) \in Int
  <2>. QED BY <1>1, <2>1, FS_Subset
<1>3. c \in Nat /\ (c = 0 <=> places = {}) BY <1>2, FS_CardinalityType, FS_EmptySet
<1>4. at \in Seq(CachedRow) BY <1>1, RowsAtParts
<1>5. DOMAIN at = 1..c BY DEF RowsAt
<1>6. Len(at) = c BY <1>3, <1>4, <1>5
<1>. HIDE DEF at, c
<1>7. at # <<>> <=> c # 0 BY <1>3, <1>4, <1>6
<1>8. places # {} <=> \E i \in DOMAIN rows : rows[i].Peb OBVIOUS
<1>. QED BY <1>3, <1>7, <1>8 DEF at

(* What the answers have left xDbg with after one more.                     *)
LEMMA SetupStep ==
  ASSUME TypeOK, HasInterface, NEW api \in Apis,
         dataspaces' = Setup(api), setups' = Append(setups, api)
  PROVE  setups' \in Seq(Apis) /\ HasInterface' /\ setups'[Len(setups')] = api
<1>. DEFINE n == Len(setups)
<1>1. setups \in Seq(Apis) /\ n \in Nat /\ DOMAIN setups = 1..n BY DEF TypeOK
<1>2. /\ setups' \in Seq(Apis) /\ Len(setups') = n + 1 /\ DOMAIN setups' = 1..(n + 1)
      /\ setups'[n + 1] = api /\ \A k \in 1..n : setups'[k] = setups[k]
  BY <1>1
<1>. HIDE DEF n
<1>3. InterfaceGiven' <=> \E k \in 1..(n + 1) :
                            /\ setups'[k] = "ok"
                            /\ \A j \in 1..(n + 1) : j > k => setups'[j] # "noDataSpaces"
  BY <1>2 DEF InterfaceGiven
<1>4. InterfaceGiven <=> \E k \in 1..n :
                           /\ setups[k] = "ok"
                           /\ \A j \in 1..n : j > k => setups[j] # "noDataSpaces"
  BY <1>1 DEF InterfaceGiven
<1>5. CASE api = "ok"
  <2>1. \A j \in 1..(n + 1) : ~(j > n + 1) BY <1>1
  <2>2. InterfaceGiven' BY <1>1, <1>2, <1>3, <1>5, <2>1
  <2>. QED BY <1>2, <1>5, <2>2 DEF HasInterface, Setup
<1>6. CASE api = "noDataSpaces"
  <2>1. ASSUME NEW k \in 1..(n + 1), setups'[k] = "ok" PROVE n + 1 > k BY <1>1, <1>2, <1>6, <2>1
  <2>2. ~InterfaceGiven' BY <1>1, <1>2, <1>3, <1>6, <2>1
  <2>. QED BY <1>2, <1>6, <2>2 DEF HasInterface, Setup
<1>7. CASE api \in {"noControl", "noApis"}
  <2>1. InterfaceGiven => InterfaceGiven'
    <3>1. ASSUME NEW k \in 1..n, setups[k] = "ok", \A j \in 1..n : j > k => setups[j] # "noDataSpaces"
          PROVE  /\ k \in 1..(n + 1) /\ setups'[k] = "ok"
                 /\ \A j \in 1..(n + 1) : j > k => setups'[j] # "noDataSpaces"
      <4>1. \A j \in 1..(n + 1) : j \in 1..n \/ j = n + 1 BY <1>1
      <4>. QED BY <1>1, <1>2, <1>7, <3>1, <4>1
    <3>. QED BY <1>3, <1>4, <3>1
  <2>2. InterfaceGiven' => InterfaceGiven
    <3>1. ASSUME NEW k \in 1..(n + 1), setups'[k] = "ok",
                 \A j \in 1..(n + 1) : j > k => setups'[j] # "noDataSpaces"
          PROVE  /\ k \in 1..n /\ setups[k] = "ok"
                 /\ \A j \in 1..n : j > k => setups[j] # "noDataSpaces"
      <4>1. k \in 1..n BY <1>1, <1>2, <1>7, <3>1
      <4>2. \A j \in 1..n : j \in 1..(n + 1) BY <1>1
      <4>. QED BY <1>2, <3>1, <4>1, <4>2
    <3>. QED BY <1>3, <1>4, <3>1
  <2>3. dataspaces' = dataspaces BY <1>7 DEF Setup
  <2>. QED BY <1>2, <2>1, <2>2, <2>3 DEF HasInterface
<1>. QED BY <1>2, <1>5, <1>6, <1>7 DEF Apis

LEMMA EnvarsIInv ==
  ASSUME IInv, NEW api \in Apis, Envars(api)
  PROVE  IInv'
<1>1. TypeOK /\ SessionInfoList \in Seq(TextLine) /\ HasInterface /\ dataspaces \in BOOLEAN
  BY DEF IInv, TypeOK
<1>2. dataspaces' \in BOOLEAN BY <1>1 DEF Envars, Setup, Apis
<1>3. setups' \in Seq(Apis) /\ HasInterface' /\ setups'[Len(setups')] = api
  BY <1>1, SetupStep DEF Envars
<1>4. <<>> \in Seq(TextLine) OBVIOUS
<1>5. CASE api = "noControl"
  <2>1. Printed("envars", api, "crash", <<>>) /\ UNCHANGED <<processList, loaded>>
    BY <1>5 DEF Envars
  <2>2. CacheOf(processList', loaded') BY <2>1 DEF IInv
  <2>3. output'.status = "crash" /\ output'.rows \in Seq(TextLine) BY <1>4, <2>1 DEF Printed
  <2>4. EnvarsNeedsInterface' BY <1>3, <1>5, <2>3 DEF EnvarsNeedsInterface
  <2>. QED BY <1>1, <1>2, <1>3, <2>2, <2>3, <2>4, CommandIInv DEF Envars
<1>6. CASE api # "noControl"
  <2>. DEFINE rows == RowsAt(processList', {i \in DOMAIN processList' : processList'[i].Peb})
  <2>1. LoadRequirements
        /\ IF rows # <<>> /\ ~dataspaces'
           THEN Printed("envars", api, "crash", <<>>)
           ELSE Printed("envars", api, "ok", Lines(rows))
    BY <1>6 DEF Envars
  <2>2. CacheOf(processList', loaded') BY <2>1, ShowingCache
  <2>3. processList' \in Seq(CachedRow) BY <2>2 DEF CacheOf
  <2>4. Lines(rows) \in Seq(TextLine) BY <1>1, <2>2, LinesAtParts
  <2>5. rows # <<>> <=> \E i \in DOMAIN processList' : processList'[i].Peb BY <2>3, RowsWithPeb
  <2>. HIDE DEF rows
  <2>6. /\ output'.status \in {"ok", "crash"} /\ output'.rows \in Seq(TextLine)
        /\ (output'.status = "crash" <=> rows # <<>> /\ ~dataspaces')
    <3>1. CASE rows # <<>> /\ ~dataspaces'
      <4>1. Printed("envars", api, "crash", <<>>) BY <2>1, <3>1
      <4>2. output'.status = "crash" /\ output'.rows = <<>> BY <4>1 DEF Printed
      <4>. QED BY <1>4, <3>1, <4>2
    <3>2. CASE ~(rows # <<>> /\ ~dataspaces')
      <4>1. Printed("envars", api, "ok", Lines(rows)) BY <2>1, <3>2
      <4>2. output'.status = "ok" /\ output'.rows = Lines(rows) BY <4>1 DEF Printed
      <4>. QED BY <2>4, <3>2, <4>2
    <3>. QED BY <3>1, <3>2
  <2>7. EnvarsNeedsInterface' BY <1>3, <1>6, <2>5, <2>6 DEF EnvarsNeedsInterface, HasInterface
  <2>. QED BY <1>1, <1>2, <1>3, <2>2, <2>6, <2>7, CommandIInv DEF Envars
<1>. QED BY <1>5, <1>6

(* !psdetails writes tokens into the rows: a row's own, or one of the       *)
(* process that has its block now.                                          *)
LEMMA TokensReadCache ==
  ASSUME IInv, Psdetails
  PROVE  /\ CacheOf(processList', loaded')
         /\ \A i \in DOMAIN processList' :
              \/ processList'[i].Token = pool[loaded'[i].Eprocess].Token
              \/ ~Running(loaded'[i])
<1>2. PICK gone \in BOOLEAN, reached \in Reachable :
        /\ processList' = [i \in DOMAIN RowsToShow(reached) |->
             LET row == RowsToShow(reached)[i] IN
             IF gone /\ ~Running(row) THEN row ELSE [row EXCEPT !.Token = TokenAt(row)]]
        /\ loaded' = IF processList # <<>> THEN loaded ELSE SubSeq(kernel, 1, reached)
  BY DEF Psdetails
<1>. DEFINE rows == RowsToShow(reached)
            of == ProcessesToShow(reached)
<1>1. TypeOK /\ CacheOf(rows, of) BY RowsToShowCache DEF IInv
<1>3. loaded' = of BY <1>2 DEF ProcessesToShow, ProcessesToLoad
<1>. HIDE DEF rows, of
<1>4. Len(rows) \in Nat /\ DOMAIN rows = 1..Len(rows) /\ Len(rows) = Len(of)
      /\ of \in Seq(Processes)
  BY <1>1 DEF CacheOf
<1>5. ASSUME NEW i \in DOMAIN rows
      PROVE  /\ processList'[i] \in CachedRow
             /\ [processList'[i] EXCEPT !.Token = 0] = [of[i] EXCEPT !.Token = 0]
             /\ \/ processList'[i] = rows[i] /\ ~Running(of[i])
                \/ processList'[i].Token = pool[of[i].Eprocess].Token
  <2>1. rows[i] \in CachedRow /\ pool[rows[i].Eprocess] \in Processes
        /\ rows[i].Eprocess = of[i].Eprocess
    BY <1>1, CacheParts
  <2>2. [rows[i] EXCEPT !.Token = 0] = [of[i] EXCEPT !.Token = 0] BY <1>1 DEF CacheOf
  <2>3. CASE gone /\ ~Running(rows[i])
    <3>1. processList'[i] = rows[i] BY <1>2, <2>3 DEF rows
    <3>2. ~Running(of[i]) BY <2>1, <2>3 DEF Running
    <3>. QED BY <2>1, <2>2, <3>1, <3>2
  <2>4. CASE ~(gone /\ ~Running(rows[i]))
    <3>. DEFINE q == pool[rows[i].Eprocess]
    <3>1. processList'[i] = [rows[i] EXCEPT !.Token = q.Token] BY <1>2, <2>4 DEF TokenAt, rows
    <3>2. q \in Processes /\ q = pool[of[i].Eprocess] BY <2>1
    <3>. HIDE DEF q
    <3>3. /\ [rows[i] EXCEPT !.Token = q.Token] \in CachedRow
          /\ [rows[i] EXCEPT !.Token = q.Token].Token = q.Token
          /\ [[rows[i] EXCEPT !.Token = q.Token] EXCEPT !.Token = 0] = [rows[i] EXCEPT !.Token = 0]
      BY <2>1, <3>2, TokenWritten
    <3>. QED BY <2>2, <3>1, <3>2, <3>3
  <2>. QED BY <2>3, <2>4
<1>6. DOMAIN processList' = DOMAIN rows BY <1>2 DEF rows
<1>7. processList' \in Seq(CachedRow) /\ Len(processList') = Len(of)
  <2>1. \A i \in 1..Len(rows) : processList'[i] \in CachedRow BY <1>4, <1>5
  <2>. DEFINE e(i) == IF gone /\ ~Running(rows[i]) THEN rows[i]
                      ELSE [rows[i] EXCEPT !.Token = TokenAt(rows[i])]
  <2>2. processList' = [i \in 1..Len(rows) |-> e(i)] BY <1>2, <1>4 DEF rows
  <2>. HIDE DEF e
  <2>. QED BY <1>4, <2>1, <2>2
<1>8. ASSUME NEW i \in DOMAIN rows
      PROVE  LET owner == pool[of[i].Eprocess] IN
             /\ of[i].Eprocess \in DOMAIN pool
             /\ owner = of[i] \/ of[i].CreateTime < owner.CreateTime
             /\ processList'[i].Token \in {0, of[i].Token} \/ of[i].CreateTime < owner.CreateTime
  BY <1>1, <1>5 DEF CacheOf
<1>9. CacheOf(processList', of) BY <1>4, <1>5, <1>6, <1>7, <1>8 DEF CacheOf
<1>. QED BY <1>3, <1>5, <1>6, <1>9 DEF of

LEMMA PsdetailsIInv == ASSUME IInv, Psdetails PROVE IInv'
<1>1. SessionInfoList \in Seq(TextLine) /\ dataspaces \in BOOLEAN BY DEF IInv, TypeOK
<1>2. CacheOf(processList', loaded') BY TokensReadCache
<1>3. processList' \in Seq(CachedRow) BY <1>2 DEF CacheOf
<1>. DEFINE line(i) == [PID |-> processList'[i].PID, memory |-> OwnerOfToken(processList'[i])]
<1>4. Len(processList') \in Nat /\ DOMAIN processList' = 1..Len(processList') BY <1>3
<1>5. ASSUME NEW i \in 1..Len(processList') PROVE line(i) \in TextLine
  <2>1. processList'[i] \in CachedRow BY <1>3, <1>4
  <2>2. processList'[i].PID \in Nat BY <2>1, RowType DEF Row
  <2>. QED BY <2>1, <2>2, OwnerOfTokenParts DEF TextLine
<1>6. Printed("psdetails", "ok", "ok", [i \in 1..Len(processList') |-> line(i)])
  BY <1>4 DEF Psdetails
<1>. HIDE DEF line
<1>7. [i \in 1..Len(processList') |-> line(i)] \in Seq(TextLine) BY <1>4, <1>5
<1>8. output'.status = "ok" /\ output'.rows \in Seq(TextLine) /\ output'.cmd = "psdetails"
  BY <1>6, <1>7 DEF Printed
<1>9. setups' \in Seq(Apis) /\ HasInterface' /\ EnvarsNeedsInterface'
  BY <1>8, InterfaceKept DEF Psdetails
<1>. QED BY <1>1, <1>2, <1>8, <1>9, CommandIInv DEF Psdetails

LEMMA RefusedIInv ==
  ASSUME IInv, (\E cmd \in {"threads", "psdetails", "sessions"}, api \in Apis : Refused(cmd, api)) \/ Help
  PROVE  IInv'
<1>1. SessionInfoList \in Seq(TextLine) /\ dataspaces \in BOOLEAN BY DEF IInv, TypeOK
<1>2. Command /\ UNCHANGED <<processList, SessionInfoList, dataspaces, loaded, setups>>
  BY DEF Refused, Help, globals, history
<1>3. <<>> \in Seq(TextLine) OBVIOUS
<1>4. output'.status \in {"ok", "refused", "crash"} /\ output'.rows \in Seq(TextLine)
      /\ output'.cmd # "envars"
  <2>1. ASSUME NEW cmd \in {"threads", "psdetails", "sessions"}, NEW api \in Apis, Refused(cmd, api)
        PROVE  /\ output'.status \in {"refused", "crash"} /\ output'.rows = <<>>
               /\ output'.cmd # "envars"
    <3>1. output' = [cmd |-> cmd, arg |-> api, status |-> Rejected(api), rows |-> <<>>]
      BY <2>1 DEF Refused, Printed
    <3>. QED BY <3>1 DEF Rejected
  <2>2. CASE Help BY <1>3, <2>2 DEF Help, Printed
  <2>. QED BY <1>3, <2>1, <2>2
<1>5. CacheOf(processList', loaded') BY <1>2 DEF IInv
<1>6. setups' \in Seq(Apis) /\ HasInterface' /\ EnvarsNeedsInterface' BY <1>2, <1>4, InterfaceKept
<1>. QED BY <1>1, <1>2, <1>4, <1>5, <1>6, CommandIInv

LEMMA LoadIInv == ASSUME IInv, NEW api, Load(api) PROVE IInv'
<1>1. UNCHANGED <<kernel, pool, resolved, processList, SessionInfoList, dataspaces, loaded, setups, commands>>
      /\ initialized' \in BOOLEAN
  BY DEF Load, target, globals, history
<1>2. <<>> \in Seq(TextLine) OBVIOUS
<1>3. output'.status \in {"ok", "refused", "crash"} /\ output'.rows \in Seq(TextLine)
      /\ output'.cmd = "load"
  BY <1>2 DEF Load, Rejected, Printed
<1>4. TypeOK' BY <1>1, <1>3 DEF IInv, TypeOK
<1>5. HasInterface' /\ EnvarsNeedsInterface' BY <1>1, <1>3, InterfaceKept
<1>. QED BY <1>1, <1>4, <1>5 DEF IInv, ListedOwnTheirBlocks, CacheOf

LEMMA UnloadIInv == ASSUME IInv, Unload PROVE IInv'
<1>1. /\ UNCHANGED <<kernel, pool, resolved>> /\ initialized' = FALSE /\ dataspaces' = FALSE
      /\ processList' = <<>> /\ SessionInfoList' = <<>> /\ loaded' = <<>> /\ setups' = <<>>
      /\ commands' = commands + 1 /\ commands < MaxCommands
  BY DEF Unload, target
<1>2. /\ <<>> \in Seq(TextLine) /\ <<>> \in Seq(CachedRow) /\ <<>> \in Seq(Processes)
      /\ <<>> \in Seq(Apis)
  OBVIOUS
<1>3. output'.status = "ok" /\ output'.rows \in Seq(TextLine) /\ output'.cmd = "unload"
  BY <1>2 DEF Unload, Printed
<1>4. commands' \in 0..MaxCommands BY <1>1, SessionAssumption DEF IInv, TypeOK
<1>5. TypeOK' BY <1>1, <1>2, <1>3, <1>4 DEF IInv, TypeOK
<1>6. ListedOwnTheirBlocks' BY <1>1 DEF IInv, ListedOwnTheirBlocks
<1>7. CacheOf(processList, loaded)' BY <1>1, <1>2 DEF CacheOf
<1>8. HasInterface' /\ EnvarsNeedsInterface'
  BY <1>1, <1>3 DEF HasInterface, InterfaceGiven, EnvarsNeedsInterface
<1>. QED BY <1>5, <1>6, <1>7, <1>8 DEF IInv

(* A new process takes the place of earlier ones in its block.              *)
LEMMA StartIInv ==
  ASSUME IInv, NEW p \in Processes, Start(p)
  PROVE  IInv'
<1>1. /\ UNCHANGED <<resolved, initialized, processList, SessionInfoList, dataspaces, loaded, setups>>
      /\ UNCHANGED <<output, commands>>
      /\ \A a \in DOMAIN pool : pool[a].CreateTime < p.CreateTime
      /\ \A i \in DOMAIN kernel : kernel[i].Eprocess # p.Eprocess
      /\ kernel' = Append(kernel, p)
      /\ pool' = [a \in DOMAIN pool \cup {p.Eprocess} |-> IF a = p.Eprocess THEN p ELSE pool[a]]
  BY DEF Start, Between, globals, history
<1>2. kernel \in Seq(Processes) /\ p \in Row /\ TypeOK BY RowType DEF IInv, TypeOK
<1>3. /\ DOMAIN pool' = DOMAIN pool \cup {p.Eprocess}
      /\ pool'[p.Eprocess] = p
      /\ \A a \in DOMAIN pool : a # p.Eprocess => pool'[a] = pool[a]
  BY <1>1
<1>4. kernel' \in Seq(Processes) BY <1>1, <1>2
<1>5. \A a \in DOMAIN pool' : pool'[a] \in Processes /\ pool'[a].Eprocess = a
  BY <1>2, <1>3 DEF TypeOK
<1>6. TypeOK' BY <1>1, <1>2, <1>4, <1>5 DEF TypeOK
<1>7. ListedOwnTheirBlocks'
  <2>. SUFFICES ASSUME NEW i \in DOMAIN kernel'
                PROVE  kernel'[i].Eprocess \in DOMAIN pool' /\ pool'[kernel'[i].Eprocess] = kernel'[i]
    BY DEF ListedOwnTheirBlocks
  <2>1. \/ i \in DOMAIN kernel /\ kernel'[i] = kernel[i]
        \/ kernel'[i] = p
    BY <1>1, <1>2
  <2>. QED BY <1>1, <1>3, <2>1 DEF IInv, ListedOwnTheirBlocks
<1>8. CacheOf(processList, loaded)'
  <2>1. processList \in Seq(CachedRow) /\ loaded \in Seq(Processes)
        /\ Len(processList) = Len(loaded)
    BY DEF IInv, CacheOf
  <2>2. ASSUME NEW i \in DOMAIN processList
        PROVE  LET owner == pool'[loaded[i].Eprocess] IN
               /\ [processList[i] EXCEPT !.Token = 0] = [loaded[i] EXCEPT !.Token = 0]
               /\ loaded[i].Eprocess \in DOMAIN pool'
               /\ owner = loaded[i] \/ loaded[i].CreateTime < owner.CreateTime
               /\ processList[i].Token \in {0, loaded[i].Token} \/ loaded[i].CreateTime < owner.CreateTime
    <3>. DEFINE owner == pool[loaded[i].Eprocess]
    <3>1. /\ [processList[i] EXCEPT !.Token = 0] = [loaded[i] EXCEPT !.Token = 0]
          /\ loaded[i].Eprocess \in DOMAIN pool
          /\ owner = loaded[i] \/ loaded[i].CreateTime < owner.CreateTime
          /\ processList[i].Token \in {0, loaded[i].Token} \/ loaded[i].CreateTime < owner.CreateTime
      BY DEF IInv, CacheOf
    <3>2. CASE loaded[i].Eprocess # p.Eprocess BY <1>3, <3>1, <3>2
    <3>3. CASE loaded[i].Eprocess = p.Eprocess
      <4>1. owner.CreateTime < p.CreateTime BY <1>1, <3>1
      <4>2. owner \in Row BY <1>2, <3>1, RowType DEF TypeOK
      <4>3. loaded[i] \in Row BY <1>2, CacheParts DEF IInv
      <4>4. /\ owner.CreateTime \in Nat /\ p.CreateTime \in Nat /\ loaded[i].CreateTime \in Nat
        BY <1>2, <4>2, <4>3 DEF Row
      <4>5. loaded[i].CreateTime < p.CreateTime BY <3>1, <4>1, <4>4
      <4>. QED BY <1>3, <3>1, <3>3, <4>5
    <3>. QED BY <3>2, <3>3
  <2>. QED BY <1>1, <2>1, <2>2 DEF CacheOf
<1>9. HasInterface' /\ EnvarsNeedsInterface' BY <1>1, InterfaceKept
<1>. QED BY <1>6, <1>7, <1>8, <1>9 DEF IInv

LEMMA ExitIInv == ASSUME IInv, Exit PROVE IInv'
<1>1. UNCHANGED <<pool, resolved, initialized, processList, SessionInfoList, dataspaces, loaded, setups>>
      /\ UNCHANGED <<output, commands>>
  BY DEF Exit, Between, globals, history
<1>2. PICK i \in DOMAIN kernel \ {1} : kernel' = RemoveAt(kernel, i) BY DEF Exit
<1>3. kernel \in Seq(Processes) /\ Len(kernel) \in Nat /\ i \in 1..Len(kernel)
  BY <1>2 DEF IInv, TypeOK
<1>4. kernel' = SubSeq(kernel, 1, i - 1) \o SubSeq(kernel, i + 1, Len(kernel))
  BY <1>2 DEF RemoveAt
<1>5. kernel' \in Seq(Processes) /\ \A n \in DOMAIN kernel' : \E j \in DOMAIN kernel : kernel'[n] = kernel[j]
  <2>. DEFINE s == SubSeq(kernel, 1, i - 1)
              t == SubSeq(kernel, i + 1, Len(kernel))
  <2>1. s \in Seq(Processes) /\ Len(s) = i - 1 /\ \A n \in 1..(i - 1) : s[n] = kernel[n]
    BY <1>3
  <2>2. t \in Seq(Processes) /\ Len(t) = Len(kernel) - i
        /\ \A n \in 1..(Len(kernel) - i) : t[n] = kernel[n + i]
    BY <1>3
  <2>3. kernel' = s \o t BY <1>4
  <2>. HIDE DEF s, t
  <2>4. kernel' \in Seq(Processes) /\ DOMAIN kernel' = 1..(Len(kernel) - 1)
    BY <1>3, <2>1, <2>2, <2>3
  <2>5. ASSUME NEW n \in DOMAIN kernel' PROVE \E j \in DOMAIN kernel : kernel'[n] = kernel[j]
    <3>1. n \in Nat /\ 1 <= n /\ n <= Len(kernel) - 1 BY <1>3, <2>4
    <3>2. CASE n <= i - 1
      <4>1. kernel'[n] = s[n] BY <1>3, <2>1, <2>2, <2>3, <3>1, <3>2
      <4>. QED BY <1>3, <2>1, <3>1, <3>2, <4>1
    <3>3. CASE ~(n <= i - 1)
      <4>1. kernel'[n] = t[n - (i - 1)] BY <1>3, <2>1, <2>2, <2>3, <3>1, <3>3
      <4>2. n - (i - 1) \in 1..(Len(kernel) - i) BY <1>3, <3>1, <3>3
      <4>3. kernel'[n] = kernel[n - (i - 1) + i] BY <2>2, <4>1, <4>2
      <4>4. n - (i - 1) + i \in DOMAIN kernel BY <1>3, <4>2
      <4>. QED BY <4>3, <4>4
    <3>. QED BY <3>2, <3>3
  <2>. QED BY <2>4, <2>5
<1>6. TypeOK' BY <1>1, <1>5 DEF IInv, TypeOK
<1>7. ListedOwnTheirBlocks' BY <1>1, <1>5 DEF IInv, ListedOwnTheirBlocks
<1>8. CacheOf(processList, loaded)' BY <1>1 DEF IInv, CacheOf
<1>9. HasInterface' /\ EnvarsNeedsInterface' BY <1>1, InterfaceKept
<1>. QED BY <1>6, <1>7, <1>8, <1>9 DEF IInv

LEMMA IdleIInv == ASSUME IInv, ReloadSymbols \/ UNCHANGED vars PROVE IInv'
<1>1. UNCHANGED <<kernel, pool, initialized, processList, SessionInfoList, dataspaces, loaded, setups>>
      /\ UNCHANGED <<output, commands>> /\ resolved' \in BOOLEAN
  BY DEF IInv, TypeOK, ReloadSymbols, vars, target, globals, history
<1>2. TypeOK' BY <1>1 DEF IInv, TypeOK
<1>3. ListedOwnTheirBlocks' BY <1>1 DEF IInv, ListedOwnTheirBlocks
<1>4. CacheOf(processList, loaded)' BY <1>1 DEF IInv, CacheOf
<1>5. HasInterface' /\ EnvarsNeedsInterface' BY <1>1, InterfaceKept
<1>. QED BY <1>2, <1>3, <1>4, <1>5 DEF IInv

LEMMA InitIInv == Init => IInv
<1>. SUFFICES ASSUME Init PROVE IInv OBVIOUS
<1>1. PICK n \in 1..Cardinality(Processes) : kernel \in [1..n -> Processes] BY DEF Init
<1>2. kernel \in Seq(Processes) BY <1>1
<1>3. DOMAIN pool = {kernel[i].Eprocess : i \in DOMAIN kernel} BY DEF Init
<1>4. ASSUME NEW a \in DOMAIN pool
      PROVE  /\ pool[a] \in Processes /\ pool[a].Eprocess = a
             /\ \E i \in DOMAIN kernel : kernel[i] = pool[a]
  <2>1. pool[a] = CHOOSE p \in Processes : p.Eprocess = a /\ \E i \in DOMAIN kernel : kernel[i] = p
    BY <1>3 DEF Init
  <2>2. \E p \in Processes : p.Eprocess = a /\ \E i \in DOMAIN kernel : kernel[i] = p
    BY <1>2, <1>3
  <2>. QED BY <2>1, <2>2
<1>5. ListedOwnTheirBlocks
  <2>. SUFFICES ASSUME NEW i \in DOMAIN kernel
                PROVE  kernel[i].Eprocess \in DOMAIN pool /\ pool[kernel[i].Eprocess] = kernel[i]
    BY DEF ListedOwnTheirBlocks
  <2>1. kernel[i].Eprocess \in DOMAIN pool BY <1>3
  <2>2. PICK j \in DOMAIN kernel : kernel[j] = pool[kernel[i].Eprocess] BY <1>4, <2>1
  <2>3. kernel[j].Eprocess = kernel[i].Eprocess BY <1>4, <2>1, <2>2
  <2>4. i \in Int /\ j \in Int BY <1>2
  <2>5. i = j BY <2>3, <2>4 DEF Init
  <2>. QED BY <2>1, <2>2, <2>5
<1>6. /\ <<>> \in Seq(TextLine) /\ <<>> \in Seq(CachedRow) /\ <<>> \in Seq(Processes)
      /\ <<>> \in Seq(Apis)
  OBVIOUS
<1>7. output.status = "ok" /\ output.rows = <<>> /\ output.cmd = "none" BY DEF Init
<1>8. /\ processList = <<>> /\ SessionInfoList = <<>> /\ loaded = <<>> /\ commands = 0
      /\ initialized = FALSE /\ dataspaces = FALSE /\ resolved \in BOOLEAN /\ setups = <<>>
  BY DEF Init
<1>9. TypeOK
  <2>1. MaxCommands \in Nat /\ commands \in 0..MaxCommands BY <1>8, SessionAssumption
  <2>2. {resolved, initialized, dataspaces} \subseteq BOOLEAN BY <1>8
  <2>. QED BY <1>2, <1>4, <1>6, <1>7, <1>8, <2>1, <2>2 DEF TypeOK
<1>10. CacheOf(processList, loaded) BY <1>6, <1>8 DEF CacheOf
<1>11. HasInterface /\ EnvarsNeedsInterface
  BY <1>7, <1>8 DEF HasInterface, InterfaceGiven, EnvarsNeedsInterface
<1>. QED BY <1>5, <1>9, <1>10, <1>11 DEF IInv

LEMMA NextIInv == IInv /\ [Next]_vars => IInv'
<1>. SUFFICES ASSUME IInv, [Next]_vars PROVE IInv' OBVIOUS
<1>1. CASE \E opt \in Options : Pslist(opt) BY <1>1, PslistIInv
<1>2. CASE \E api \in Apis : Dlllist(api) BY <1>2, DlllistIInv
<1>3. CASE \E cmd \in {"threads", "psdetails", "sessions"}, api \in Apis : Refused(cmd, api)
  BY <1>3, RefusedIInv
<1>4. CASE Threads BY <1>4, ThreadsIInv
<1>5. CASE Psdetails BY <1>5, PsdetailsIInv
<1>6. CASE Sessions BY <1>6, SessionsIInv
<1>7. CASE \E api \in Apis : Envars(api) BY <1>7, EnvarsIInv
<1>8. CASE Help BY <1>8, RefusedIInv
<1>9. CASE \E api \in Apis \ {"noDataSpaces"} : Load(api) BY <1>9, LoadIInv
<1>10. CASE Unload BY <1>10, UnloadIInv
<1>11. CASE \E p \in Processes : Start(p) BY <1>11, StartIInv
<1>12. CASE Exit BY <1>12, ExitIInv
<1>13. CASE ReloadSymbols \/ UNCHANGED vars BY <1>13, IdleIInv
<1>. QED
  BY <1>1, <1>2, <1>3, <1>4, <1>5, <1>6, <1>7, <1>8, <1>9, <1>10, <1>11, <1>12, <1>13 DEF Next

LEMMA Invariant == Spec => []IInv
BY InitIInv, NextIInv, PTL DEF Spec

-----------------------------------------------------------------------------
(* What single commands print                                               *)

(* The first processes that are listed now.                                 *)
Fresh(of) == Len(of) <= Len(kernel) /\ of = SubSeq(kernel, 1, Len(of))

(* Rows made of them lie where they lie.                                    *)
LEMMA FreshRowsMatch ==
  ASSUME IInv, NEW rows, NEW of, Fresh(of), CacheOf(rows, of), NEW i \in DOMAIN rows
  PROVE  /\ Line(rows[i]).PID = Line(rows[i]).memory
         /\ Running(kernel[i]) /\ i \in DOMAIN kernel /\ of[i] = kernel[i]
         /\ pool[kernel[i].Eprocess] = kernel[i] /\ rows[i].PID = kernel[i].PID
<1>0. i \in DOMAIN kernel /\ of[i] = kernel[i]
  <2>1. DOMAIN rows = DOMAIN of /\ of \in Seq(Processes) BY CacheParts DEF IInv
  <2>2. i \in 1..Len(of) /\ Len(of) \in Nat BY <2>1
  <2>3. kernel \in Seq(Processes) BY DEF IInv, TypeOK
  <2>4. SubSeq(kernel, 1, Len(of))[i] = kernel[i] BY <2>2, <2>3 DEF Fresh
  <2>. QED BY <2>2, <2>3, <2>4 DEF Fresh
<1>1. rows[i].Eprocess = kernel[i].Eprocess /\ rows[i].PID = kernel[i].PID
  BY <1>0, CacheParts DEF IInv
<1>2. pool[kernel[i].Eprocess] = kernel[i] BY <1>0 DEF IInv, ListedOwnTheirBlocks
<1>. QED BY <1>0, <1>1, <1>2 DEF Line, Running

(* The commands that print lines of the rows they walked.                   *)
LEMMA WalkedLinesMatch ==
  ASSUME IInv, Fresh(loaded'),
         (\E api \in Apis : Dlllist(api) \/ Envars(api)) \/ Threads,
         NEW n \in DOMAIN output'.rows
  PROVE  output'.rows[n].PID = output'.rows[n].memory
<1>1. TypeOK /\ CacheOf(processList', loaded')
  <2>1. LoadRequirements \/ UNCHANGED <<processList, loaded>> BY DEF Dlllist, Envars, Threads
  <2>. QED BY <2>1, ShowingCache DEF IInv
<1>2. \A i \in DOMAIN processList' : Line(processList'[i]).PID = Line(processList'[i]).memory
  BY <1>1, FreshRowsMatch
<1>3. ASSUME NEW places \in SUBSET DOMAIN processList',
             output'.rows = Lines(RowsAt(processList', places))
      PROVE  output'.rows[n].PID = output'.rows[n].memory
  <2>1. \E i \in DOMAIN processList' : output'.rows[n] = Line(processList'[i])
    BY <1>1, <1>3, LinesAtParts
  <2>. QED BY <1>2, <2>1
<1>4. CASE output'.rows = <<>> BY <1>4
<1>5. CASE Threads
  <2>1. output'.rows = Lines(processList') BY <1>5 DEF Threads, Printed
  <2>2. n \in DOMAIN processList' /\ output'.rows[n] = Line(processList'[n])
    BY <1>1, <2>1, LinesParts
  <2>. QED BY <1>2, <2>2
<1>6. CASE \E api \in Apis : Dlllist(api)
  <2>1. \/ output'.rows = <<>>
        \/ \E places \in SUBSET DOMAIN processList' : output'.rows = Lines(RowsAt(processList', places))
    BY <1>6 DEF Dlllist, Printed
  <2>. QED BY <1>3, <1>4, <2>1
<1>7. CASE \E api \in Apis : Envars(api)
  <2>1. \/ output'.rows = <<>>
        \/ \E places \in SUBSET DOMAIN processList' : output'.rows = Lines(RowsAt(processList', places))
    BY <1>7 DEF Envars, Printed
  <2>. QED BY <1>3, <1>4, <2>1
<1>. QED BY <1>5, <1>6, <1>7

(* !psdetails: every row's block can be read, its process being listed.     *)
LEMMA DetailsMatch ==
  ASSUME IInv, Fresh(loaded'), Psdetails, NEW n \in DOMAIN output'.rows
  PROVE  output'.rows[n].PID = output'.rows[n].memory
<1>1. CacheOf(processList', loaded') BY TokensReadCache
<1>2. /\ DOMAIN output'.rows = DOMAIN processList'
      /\ output'.rows[n].PID = processList'[n].PID
      /\ output'.rows[n].memory = OwnerOfToken(processList'[n])
  BY DEF Psdetails, Printed
<1>3. /\ Running(kernel[n]) /\ pool[kernel[n].Eprocess] = kernel[n]
      /\ processList'[n].PID = kernel[n].PID /\ n \in DOMAIN kernel /\ loaded'[n] = kernel[n]
  BY <1>1, <1>2, FreshRowsMatch
<1>4. processList'[n].Token = kernel[n].Token BY <1>2, <1>3, TokensReadCache
<1>5. kernel[n] \in Processes /\ processList'[n] \in CachedRow
  <2>1. kernel \in Seq(Processes) /\ processList' \in Seq(CachedRow)
    BY <1>1 DEF IInv, TypeOK, CacheOf
  <2>. QED BY <1>2, <1>3, <2>1
<1>. QED BY <1>2, <1>3, <1>4, <1>5, OwnerOfTokenParts

(* The n-th process !pslist shows is one of the load, with the key of the   *)
(* row that was sorted.                                                     *)
LEMMA ShownProcess ==
  ASSUME IInv, NEW opt \in Options, NEW r \in Reachable, NEW s \in Sortings(opt, RowsToShow(r)),
         NEW n \in DOMAIN s
  PROVE  LET shown == CHOOSE p \in Processes : p.PID = s[n].PID IN
         /\ \E j \in DOMAIN ProcessesToShow(r) : shown = ProcessesToShow(r)[j]
         /\ shown \in Row /\ shown.PID = s[n].PID
         /\ Key(opt, s[n]) = Key(opt, shown)
<1>. DEFINE shown == CHOOSE p \in Processes : p.PID = s[n].PID
            rows == RowsToShow(r)
            of == ProcessesToShow(r)
<1>1. CacheOf(rows, of) /\ TypeOK BY RowsToShowCache DEF IInv
<1>0. s \in Sortings(opt, rows) OBVIOUS
<1>. HIDE DEF rows, of
<1>2. PICK j \in DOMAIN rows : s[n] = rows[j]
  <2>1. rows \in Seq(CachedRow) BY <1>1 DEF CacheOf
  <2>. QED BY <1>0, <2>1, SortingsParts
<1>3. /\ rows[j] \in Row /\ of[j] \in Processes /\ of[j] \in Row /\ j \in DOMAIN of
      /\ rows[j].PID = of[j].PID
  BY <1>1, CacheParts
<1>4. [rows[j] EXCEPT !.Token = 0] = [of[j] EXCEPT !.Token = 0] BY <1>1 DEF CacheOf
<1>5. shown \in Processes /\ shown.PID = s[n].PID BY <1>2, <1>3
<1>6. shown = of[j] BY <1>2, <1>3, <1>5, SessionAssumption
<1>. HIDE DEF shown
<1>7. Key(opt, rows[j]) = Key(opt, of[j])
  BY <1>3, <1>4, SameButToken DEF Key
<1>. QED BY <1>2, <1>3, <1>5, <1>6, <1>7 DEF shown, of

LEMMA KeyOrder ==
  ASSUME NEW opt \in Options \ {""}, NEW r \in Row, NEW q \in Row, Key(opt, r) <= Key(opt, q)
  PROVE  LET f == SortField[opt] IN IF opt = "-nr" THEN r[f] >= q[f] ELSE r[f] <= q[f]
<1>1. opt \in {"-p", "-a", "-v", "-pvs", "-ct", "-n", "-nr"} BY DEF Options
<1>2. CASE opt = "-p"
  <2>1. SortField[opt] = "PID" BY <1>2 DEF SortField
  <2>. QED BY <1>2, <2>1 DEF Key, Row
<1>3. CASE opt = "-a"
  <2>1. SortField[opt] = "ActiveThreads" BY <1>3 DEF SortField
  <2>. QED BY <1>3, <2>1 DEF Key, Row
<1>4. CASE opt = "-v"
  <2>1. SortField[opt] = "VirtualSize" BY <1>4 DEF SortField
  <2>. QED BY <1>4, <2>1 DEF Key, Row
<1>5. CASE opt = "-pvs"
  <2>1. SortField[opt] = "PeakVirtualSize" BY <1>5 DEF SortField
  <2>. QED BY <1>5, <2>1 DEF Key, Row
<1>6. CASE opt = "-ct"
  <2>1. SortField[opt] = "CreateTime" BY <1>6 DEF SortField
  <2>. QED BY <1>6, <2>1 DEF Key, Row
<1>7. CASE opt = "-n"
  <2>1. SortField[opt] = "process_name" BY <1>7 DEF SortField
  <2>. QED BY <1>7, <2>1 DEF Key, Row
<1>8. CASE opt = "-nr"
  <2>1. SortField[opt] = "process_name" BY <1>8 DEF SortField
  <2>. QED BY <1>8, <2>1 DEF Key, Row
<1>. QED BY <1>1, <1>2, <1>3, <1>4, <1>5, <1>6, <1>7, <1>8

LEMMA PslistShows ==
  ASSUME IInv, NEW opt \in Options, Pslist(opt)
  PROVE  LET of    == IF loaded # <<>> THEN loaded ELSE loaded'
             shown == [i \in DOMAIN output'.rows |->
                         CHOOSE p \in Processes : p.PID = output'.rows[i].PID]
         IN /\ Len(shown) = Len(of) /\ PIDs(shown) = PIDs(of)
            /\ InOrder(output'.arg, shown)
<1>. DEFINE of == IF loaded # <<>> THEN loaded ELSE loaded'
            proc(pid) == CHOOSE p \in Processes : p.PID = pid
            shown == [i \in DOMAIN output'.rows |-> proc(output'.rows[i].PID)]
<1>0. PICK r \in Reachable :
        /\ \E s \in Sortings(opt, RowsToShow(r)) :
             Printed("pslist", opt, "ok",
                     [i \in DOMAIN s |-> [PID |-> s[i].PID, memory |-> s[i].PID]])
        /\ parsepslist(r)
  BY DEF Pslist
<1>. DEFINE rows == RowsToShow(r)
<1>1. CacheOf(rows, ProcessesToShow(r)) /\ TypeOK BY RowsToShowCache DEF IInv
<1>2. of = ProcessesToShow(r)
  <2>1. processList = <<>> <=> loaded = <<>> BY DEF IInv, CacheOf
  <2>. QED BY <1>0, <2>1 DEF ProcessesToShow, ProcessesToLoad, parsepslist
<1>3. PICK s \in Sortings(opt, rows) :
        Printed("pslist", opt, "ok", [i \in DOMAIN s |-> [PID |-> s[i].PID, memory |-> s[i].PID]])
  BY <1>0
<1>. HIDE DEF of
<1>4. rows \in Seq(CachedRow) /\ Len(rows) = Len(of) BY <1>1, <1>2 DEF CacheOf
<1>5. /\ s \in Seq(CachedRow) /\ Len(s) = Len(of) /\ DOMAIN s = DOMAIN rows
      /\ \A j \in DOMAIN rows : \E i \in DOMAIN s : s[i] = rows[j]
  BY <1>4, SortingsParts
<1>6. /\ output'.arg = opt /\ DOMAIN output'.rows = DOMAIN s
      /\ \A i \in DOMAIN s : output'.rows[i].PID = s[i].PID
  BY <1>3 DEF Printed
<1>7. DOMAIN shown = DOMAIN s /\ \A i \in DOMAIN s : shown[i] = proc(s[i].PID) BY <1>6
<1>8. ASSUME NEW i \in DOMAIN s
      PROVE  /\ \E j \in DOMAIN of : shown[i] = of[j]
             /\ shown[i] \in Row /\ shown[i].PID = s[i].PID
             /\ Key(opt, s[i]) = Key(opt, shown[i])
  <2>1. /\ \E j \in DOMAIN ProcessesToShow(r) : proc(s[i].PID) = ProcessesToShow(r)[j]
        /\ proc(s[i].PID) \in Row /\ proc(s[i].PID).PID = s[i].PID
        /\ Key(opt, s[i]) = Key(opt, proc(s[i].PID))
    BY ShownProcess
  <2>. HIDE DEF proc, shown
  <2>. QED BY <1>2, <1>7, <2>1
<1>. HIDE DEF proc, shown
<1>9. Len(shown) = Len(of)
  <2>1. DOMAIN s = 1..Len(s) /\ Len(s) \in Nat BY <1>5
  <2>2. shown = [i \in DOMAIN s |-> shown[i]] BY <1>6 DEF shown
  <2>. QED BY <1>5, <2>1, <2>2
<1>10. PIDs(shown) = PIDs(of)
  <2>1. ASSUME NEW i \in DOMAIN s PROVE \E j \in DOMAIN of : shown[i].PID = of[j].PID BY <1>8
  <2>2. ASSUME NEW j \in DOMAIN of PROVE \E i \in DOMAIN s : shown[i].PID = of[j].PID
    <3>1. j \in DOMAIN rows /\ rows[j].PID = of[j].PID BY <1>1, <1>2, CacheParts
    <3>2. PICK i \in DOMAIN s : s[i] = rows[j] BY <1>5, <3>1
    <3>. QED BY <1>8, <3>1, <3>2
  <2>. QED BY <1>7, <2>1, <2>2 DEF PIDs
<1>11. InOrder(opt, shown)
  <2>. SUFFICES ASSUME NEW i \in DOMAIN s, NEW j \in DOMAIN s, i < j, opt # ""
                PROVE  LET f == SortField[opt] IN
                       IF opt = "-nr" THEN shown[i][f] >= shown[j][f] ELSE shown[i][f] <= shown[j][f]
    BY <1>7 DEF InOrder
  <2>1. Key(opt, s[i]) <= Key(opt, s[j])
    <3>1. i \in DOMAIN rows /\ j \in DOMAIN rows BY <1>5
    <3>. QED BY <3>1, SortedByKey
  <2>2. Key(opt, shown[i]) <= Key(opt, shown[j]) BY <1>8, <2>1
  <2>. QED BY <1>8, <2>2, KeyOrder
<1>. QED BY <1>6, <1>9, <1>10, <1>11 DEF of, shown, proc

-----------------------------------------------------------------------------

(* The caches, the output and the target keep their types; every block is   *)
(* of the process the pool has for it.                                      *)
THEOREM TypeCorrect == Spec => []TypeOK
<1>1. IInv => TypeOK BY DEF IInv
<1>. QED BY <1>1, Invariant, PTL

(* Between two commands the cache is what one load has reached, all of it   *)
(* and in kernel order (dbgextension.cpp:64-67).                            *)
THEOREM CacheStaysOneLoad == Spec => []CacheIsOneLoad
<1>1. IInv => CacheIsOneLoad BY DEF IInv, CacheOf, CacheIsOneLoad
<1>. QED BY <1>1, Invariant, PTL

(* A cached row has the token of another process only if its block was      *)
(* reused (psdetails.h:145-153).                                            *)
THEOREM OnlyReuseMixesRows == Spec => []RowsMixedOnlyByReuse
<1>1. IInv => RowsMixedOnlyByReuse
  <2>. SUFFICES ASSUME IInv, NEW i \in DOMAIN processList
                PROVE  \/ \E p \in Processes : p.PID = processList[i].PID
                                             /\ processList[i].Token \in {0, p.Token}
                       \/ pool[processList[i].Eprocess].PID # processList[i].PID
    BY DEF RowsMixedOnlyByReuse
  <2>. DEFINE owner == pool[processList[i].Eprocess]
  <2>1. /\ processList[i].Eprocess = loaded[i].Eprocess /\ processList[i].PID = loaded[i].PID
        /\ loaded[i] \in Processes /\ owner \in Processes /\ loaded[i] \in Row
    BY CacheParts DEF IInv
  <2>2. \/ processList[i].Token \in {0, loaded[i].Token}
        \/ loaded[i].CreateTime < owner.CreateTime
    BY <2>1 DEF IInv, CacheOf
  <2>3. CASE processList[i].Token \in {0, loaded[i].Token} BY <2>1, <2>3
  <2>4. CASE loaded[i].CreateTime < owner.CreateTime
    <3>1. loaded[i].CreateTime \in Nat BY <2>1 DEF Row
    <3>2. owner # loaded[i] BY <2>4, <3>1
    <3>3. owner.PID # loaded[i].PID BY <2>1, <3>2, SessionAssumption
    <3>. QED BY <2>1, <3>3
  <2>. QED BY <2>2, <2>3, <2>4
<1>. QED BY <1>1, Invariant, PTL

(* The steps that are commands; the others leave `commands` as it is.       *)
LEMMA CommandSteps ==
  ASSUME IInv, [Next]_vars, commands' # commands
  PROVE  \/ \E opt \in Options : Pslist(opt)
         \/ \E api \in Apis : Dlllist(api)
         \/ \E cmd \in {"threads", "psdetails", "sessions"}, api \in Apis : Refused(cmd, api)
         \/ Threads \/ Psdetails \/ Sessions
         \/ \E api \in Apis : Envars(api)
         \/ Help
         \/ Unload
<1>1. ~UNCHANGED vars BY DEF vars
<1>2. ~(\E api \in Apis \ {"noDataSpaces"} : Load(api)) BY DEF Load
<1>3. ~(\E p \in Processes : Start(p)) BY DEF Start, Between
<1>4. ~Exit BY DEF Exit, Between
<1>5. ~ReloadSymbols BY DEF ReloadSymbols
<1>. QED BY <1>1, <1>2, <1>3, <1>4, <1>5 DEF Next

(* A command that walks a cache as old as the target names every process    *)
(* over its own memory (resolver.h:16-19).                                  *)
THEOREM FreshLinesMatch == Spec => LinesMatchMemory
<1>. DEFINE A == commands' # commands /\ output'.cmd # "sessions"
                   /\ Len(loaded') <= Len(kernel) /\ loaded' = SubSeq(kernel, 1, Len(loaded')) =>
                   \A i \in DOMAIN output'.rows : output'.rows[i].PID = output'.rows[i].memory
<1>1. ASSUME IInv, [Next]_vars PROVE [A]_vars
  <2>. SUFFICES ASSUME commands' # commands, output'.cmd # "sessions", Fresh(loaded'),
                       NEW i \in DOMAIN output'.rows
                PROVE  output'.rows[i].PID = output'.rows[i].memory
    BY DEF Fresh
  <2>1. CASE \E opt \in Options : Pslist(opt)
    <3>1. PICK s : output'.rows = [n \in DOMAIN s |-> [PID |-> s[n].PID, memory |-> s[n].PID]]
      BY <2>1 DEF Pslist, Printed
    <3>. QED BY <3>1
  <2>2. CASE (\E api \in Apis : Dlllist(api) \/ Envars(api)) \/ Threads
    BY <1>1, <2>2, WalkedLinesMatch
  <2>3. CASE Psdetails BY <1>1, <2>3, DetailsMatch
  <2>4. CASE Sessions BY <2>4 DEF Sessions, Printed
  <2>5. CASE \/ \E cmd \in {"threads", "psdetails", "sessions"}, api \in Apis : Refused(cmd, api)
             \/ Help \/ Unload
    <3>1. output'.rows = <<>> BY <2>5 DEF Refused, Help, Unload, Printed
    <3>. QED BY <3>1
  <2>. QED BY <1>1, <2>1, <2>2, <2>3, <2>4, <2>5, CommandSteps
<1>. QED BY <1>1, Invariant, PTL DEF Spec, LinesMatchMemory

(* !pslist shows the load before, each process once and in the order of its *)
(* option (dbgextension.cpp:60-67, pslist.h:66-121).                        *)
THEOREM PslistShowsTheLoadBefore == Spec => PslistShowsLastLoad
<1>. DEFINE of == IF loaded # <<>> THEN loaded ELSE loaded'
            shown == [i \in DOMAIN output'.rows |->
                        CHOOSE p \in Processes : p.PID = output'.rows[i].PID]
            B == /\ Len(shown) = Len(of) /\ PIDs(shown) = PIDs(of)
                 /\ InOrder(output'.arg, shown)
            A == commands' # commands /\ output'.cmd = "pslist" => B
<1>1. ASSUME IInv, [Next]_vars PROVE [A]_vars
  <2>. SUFFICES ASSUME commands' # commands, output'.cmd = "pslist" PROVE B
    OBVIOUS
  <2>1. CASE \E opt \in Options : Pslist(opt)
    <3>1. PICK opt \in Options : Pslist(opt) BY <2>1
    <3>. QED BY <1>1, <3>1, PslistShows
  <2>2. CASE ~(\E opt \in Options : Pslist(opt))
    <3>1. output'.cmd \in {"dlllist", "threads", "psdetails", "sessions", "envars", "help", "unload"}
      <4>1. CASE \E api \in Apis : Dlllist(api) BY <4>1 DEF Dlllist, Printed
      <4>2. CASE \E api \in Apis : Envars(api) BY <4>2 DEF Envars, Printed
      <4>3. CASE Threads \/ Psdetails \/ Sessions \/ Unload
        BY <4>3 DEF Threads, Psdetails, Sessions, Unload, Printed
      <4>4. CASE \/ \E cmd \in {"threads", "psdetails", "sessions"}, api \in Apis : Refused(cmd, api)
                 \/ Help
        BY <4>4 DEF Refused, Help, Printed
      <4>. QED BY <1>1, <2>2, <4>1, <4>2, <4>3, <4>4, CommandSteps
    <3>. QED BY <3>1
  <2>. QED BY <2>1, <2>2
<1>. QED BY <1>1, Invariant, PTL DEF Spec, PslistShowsLastLoad

(* !envars breaks exactly when it is refused IDebugControl4, or has a       *)
(* process to show and no answer so far has left it the interface           *)
(* (xdbg.h:13-46, envars.h:213).                                            *)
THEOREM EnvarsCrashExplained == Spec => []EnvarsNeedsInterface
<1>1. IInv => EnvarsNeedsInterface BY DEF IInv
<1>. QED BY <1>1, Invariant, PTL
=============================================================================
