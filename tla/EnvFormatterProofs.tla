------------------------- MODULE EnvFormatterProofs -------------------------
(***************************************************************************)
(* EnvFormatter proved for every set of environment blocks and every page  *)
(* size: the scan stays inside its buffer because the block ends with two  *)
(* NUL units, and an exception always has an entry without "=" behind it.  *)
(***************************************************************************)
EXTENDS EnvFormatter, FiniteSetTheorems, WellFoundedInduction, TLAPS

(* The buffer is an interval of bytes and holds the end of its block.       *)
Buffer ==
  /\ \E top \in Int : DOMAIN e_buffer = 0..top
  /\ e_buffer \in [DOMAIN e_buffer -> Byte]
  /\ Terminated(e_buffer)

(* The scan moves by whole units and has an end of block in front of it, at *)
(* CurrPos while it tests, beyond CurrPos while it searches an entry.       *)
Ahead(p) == \E z \in DOMAIN e_buffer :
              NulAt(e_buffer, z) /\ NulAt(e_buffer, z + 2) /\ p <= z

Tracker ==
  /\ MaxLen \in Nat /\ PrevPos \in Nat /\ CurrPos \in Nat /\ MidPos \in Nat /\ i \in Nat
  /\ pc \in {"scan", "filter", "thrown"} => CurrPos % 2 = 0 /\ PrevPos <= CurrPos
  /\ pc = "scan" => Ahead(CurrPos)
  /\ pc \in {"filter", "thrown"} => Ahead(CurrPos + 2)
  /\ pc # "done" => MidPos <= CurrPos

(* The search has found a separator in the entry or there is none so far.  *)
Searched ==
  /\ pc = "filter" =>
       \/ PrevPos <= MidPos
       \/ \A q \in PrevPos..(CurrPos - 1) : q < PrevPos + i => e_buffer[q] # Separator
  /\ ThrowsOnlyWithoutSeparator

IInv == Buffer /\ Tracker /\ Searched /\ TypeOK

(* What has been printed.  The scan is at the entry behind the last one     *)
(* printed, none ends between its start and CurrPos, and it has not passed  *)
(* the end of the block.                                                    *)
Before(p) == {q \in Ends : q < p}

(* Where the search is: it has marked the last hit it has passed, or the    *)
(* mark is in front of the entry or, in the first, at its start; and it is  *)
(* not at a byte a hit is followed by.                                      *)
Search ==
  /\ pc = "scan" => MidPos < PrevPos \/ MidPos = 0
  /\ pc = "filter" =>
       /\ \A j \in PrevPos..(CurrPos - 1) : j < PrevPos + i /\ Hit(PrevPos, j) => j <= MidPos
       /\ PrevPos <= MidPos => MidPos = 0 \/ (MidPos < CurrPos /\ Hit(PrevPos, MidPos))
       /\ i > 0 => ~Hit(PrevPos, PrevPos + i - 1)

Parsed ==
  /\ MidPos = 0 \/ (MidPos \in DOMAIN e_buffer /\ e_buffer[MidPos] = Separator)
  /\ pc \in {"scan", "filter"} =>
       /\ CurrPos <= End
       /\ PrevPos = 0 \/ PrevPos - 2 \in Ends
       /\ \A q \in PrevPos..(CurrPos - 1) : ~NulAt(e_buffer, q)
       /\ Len(out) = Cardinality(Before(PrevPos))
  /\ pc = "filter" => NulAt(e_buffer, CurrPos) /\ CurrPos # End
  /\ Search
  /\ LinesAreEntries
  /\ DonePrintsAllButLast

-----------------------------------------------------------------------------

(* Every byte up to the end of the block is in the buffer.                  *)
LEMMA AheadInBuffer ==
  ASSUME Buffer, NEW p \in Nat, Ahead(p)
  PROVE  \A q \in 0..(p + 3) : q \in DOMAIN e_buffer /\ e_buffer[q] \in Byte
<1>1. PICK z \in DOMAIN e_buffer : NulAt(e_buffer, z) /\ NulAt(e_buffer, z + 2) /\ p <= z
  BY DEF Ahead
<1>2. PICK top \in Int : DOMAIN e_buffer = 0..top
  BY DEF Buffer
<1>3. z + 2 + 1 <= top /\ z \in Nat
  BY <1>1, <1>2 DEF NulAt
<1>4. \A q \in 0..(p + 3) : q \in DOMAIN e_buffer
  BY <1>1, <1>2, <1>3
<1>. QED BY <1>4 DEF Buffer

(* Where the two tests of Formatter find nothing, or only the end of an    *)
(* entry, the end of the block is further on.                              *)
LEMMA StillAhead ==
  ASSUME Buffer, CurrPos \in Nat, CurrPos % 2 = 0, Ahead(CurrPos), ~isLastEntry
  PROVE  Ahead(CurrPos + 2)
<1>1. PICK z \in DOMAIN e_buffer :
        NulAt(e_buffer, z) /\ NulAt(e_buffer, z + 2) /\ CurrPos <= z
  BY DEF Ahead
<1>2. z \in Nat /\ z % 2 = 0
  BY <1>1 DEF NulAt, Buffer
<1>3. z # CurrPos
  <2>1. SUFFICES ASSUME z = CurrPos PROVE FALSE
    OBVIOUS
  <2>2. /\ Cell(z) = 0 /\ Cell(z + 1) = 0 /\ Cell(z + 2) = 0 /\ Cell(z + 3) = 0
    <3>1. z + 2 + 1 = z + 3 BY <1>2
    <3>. QED BY <1>1, <3>1 DEF NulAt, Cell
  <2>3. \A k \in 0..3 : Cell(CurrPos + k) = 0
    BY <1>2, <2>1, <2>2
  <2>. QED BY <2>3 DEF isLastEntry
<1>4. CurrPos + 2 <= z
  BY <1>1, <1>2, <1>3
<1>. QED BY <1>1, <1>4 DEF Ahead

(* Text yields characters, none of them NUL, from bytes of the buffer.      *)
LEMMA TextType ==
  ASSUME Buffer, NEW start \in Nat, NEW size \in Nat, NEW p \in Nat,
         Ahead(p), start + size <= p
  PROVE  Text(start, size) \in Seq(Byte \ {0})
<1>. DEFINE low(k) == e_buffer[start + 2 * (k - 1)]
            n      == (size + 1) \div 2
            Good(m) == /\ \A k \in 1..m : low(k) # 0
                       /\ m < n => low(m + 1) = 0
            len    == CHOOSE m \in 0..n : Good(m)
<1>1. n \in Nat /\ \A k \in 1..n : low(k) \in Byte
  <2>1. n \in Nat /\ 2 * n <= size + 1 OBVIOUS
  <2>2. ASSUME NEW k \in 1..n PROVE low(k) \in Byte
    <3>1. start + 2 * (k - 1) \in 0..(p + 3) BY <2>1
    <3>. QED BY <3>1, AheadInBuffer
  <2>. QED BY <2>1, <2>2
<1>. HIDE DEF low, n
<1>2. \E m \in 0..n : Good(m)
  <2>. DEFINE Zeros == {k \in Nat : k \in 1..n /\ low(k) = 0}
  <2>1. CASE Zeros = {}
    <3>1. Good(n) BY <1>1, <2>1
    <3>. QED BY <1>1, <3>1
  <2>2. CASE Zeros # {}
    <3>1. PICK z \in Zeros : \A y \in Zeros : ~(<<y, z>> \in OpToRel(<, Nat))
      BY <2>2, NatLessThanWellFounded, WFMin
    <3>2. \A y \in Zeros : ~(y < z) BY <3>1 DEF OpToRel
    <3>3. z - 1 \in 0..n /\ Good(z - 1) BY <1>1, <3>2
    <3>. QED BY <3>3
  <2>. QED BY <2>1, <2>2
<1>3. len \in 0..n /\ Good(len)
  BY <1>2
<1>4. Text(start, size) = [k \in 1..len |-> low(k)]
  BY DEF Text, low, n
<1>5. \A k \in 1..len : low(k) \in Byte \ {0}
  BY <1>1, <1>3
<1>. HIDE DEF len
<1>. QED BY <1>1, <1>3, <1>4, <1>5

-----------------------------------------------------------------------------

LEMMA InitIInv == Init => IInv
<1>. SUFFICES ASSUME Init PROVE IInv
  OBVIOUS
<1>1. PICK env \in Environments : e_buffer = Allocated(env) /\ MaxLen = Len(env)
  BY DEF Init
<1>2. env \in Seq(Byte) /\ Terminated(e_buffer) /\ PageSize \in Nat \ {0}
  BY <1>1, EnvironmentAssumption
<1>. DEFINE top == ((Len(env) + PageSize - 1) \div PageSize) * PageSize - 1
<1>3. top \in Int
  <2>1. Len(env) + PageSize - 1 \in Int BY <1>2
  <2>2. (Len(env) + PageSize - 1) \div PageSize \in Int BY <1>2, <2>1
  <2>. QED BY <1>2, <2>2
<1>4. DOMAIN e_buffer = 0..top
  BY <1>1 DEF Allocated
<1>. HIDE DEF top
<1>5. \A p \in 0..top : e_buffer[p] = IF p < Len(env) THEN env[p + 1] ELSE 0
  BY <1>1 DEF Allocated, top
<1>6. e_buffer \in [DOMAIN e_buffer -> Byte]
  <2>1. e_buffer = [p \in 0..top |-> IF p < Len(env) THEN env[p + 1] ELSE 0]
    BY <1>1 DEF Allocated, top
  <2>2. \A p \in 0..top : e_buffer[p] \in Byte
    <3>. TAKE p \in 0..top
    <3>1. p < Len(env) => env[p + 1] \in Byte BY <1>2, <1>3
    <3>2. 0 \in Byte BY DEF Byte
    <3>. QED BY <1>5, <3>1, <3>2
  <2>. QED BY <1>4, <2>1, <2>2
<1>7. Buffer BY <1>2, <1>3, <1>4, <1>6 DEF Buffer
<1>8. PrevPos = 0 /\ CurrPos = 0 /\ MidPos = 0 /\ i = 0 /\ out = <<>> /\ pc = "scan"
      /\ MaxLen \in Nat
  BY <1>1, <1>2 DEF Init
<1>9. Ahead(CurrPos)
  <2>1. PICK z \in DOMAIN e_buffer : NulAt(e_buffer, z) /\ NulAt(e_buffer, z + 2)
    BY <1>2 DEF Terminated
  <2>. QED BY <1>3, <1>4, <1>8, <2>1 DEF Ahead
<1>10. Tracker BY <1>8, <1>9 DEF Tracker
<1>11. Searched BY <1>8 DEF Searched, ThrowsOnlyWithoutSeparator
<1>12. TypeOK BY <1>6, <1>8 DEF TypeOK
<1>. QED BY <1>7, <1>10, <1>11, <1>12 DEF IInv

LEMMA ScanIInv == IInv /\ (LastEntry \/ EntryEnd \/ Slide) => IInv'
<1>. SUFFICES ASSUME IInv, LastEntry \/ EntryEnd \/ Slide PROVE IInv'
  OBVIOUS
<1>1. e_buffer' = e_buffer /\ Buffer'
  BY DEF IInv, LastEntry, EntryEnd, Slide, Buffer, Terminated, NulAt
<1>2. /\ MaxLen \in Nat /\ PrevPos \in Nat /\ CurrPos \in Nat /\ MidPos \in Nat /\ i \in Nat
      /\ pc = "scan" /\ CurrPos % 2 = 0 /\ PrevPos <= CurrPos /\ Ahead(CurrPos)
      /\ MidPos <= CurrPos
  BY DEF IInv, Tracker, LastEntry, EntryEnd, Slide
<1>3. CASE LastEntry
  BY <1>1, <1>2, <1>3 DEF LastEntry, IInv, Tracker, Searched, TypeOK, ThrowsOnlyWithoutSeparator
<1>4. ~LastEntry => Ahead(CurrPos + 2)
  BY <1>2, StillAhead DEF IInv, EntryEnd, Slide
<1>5. CASE EntryEnd /\ ~LastEntry
  <2>1. Ahead(CurrPos + 2)' BY <1>1, <1>4, <1>5 DEF EntryEnd, Ahead, NulAt
  <2>2. Tracker' BY <1>2, <1>5, <2>1 DEF EntryEnd, Tracker
  <2>3. Searched' BY <1>2, <1>5 DEF EntryEnd, Searched, ThrowsOnlyWithoutSeparator
  <2>4. TypeOK' BY <1>5 DEF EntryEnd, IInv, TypeOK
  <2>. QED BY <1>1, <2>2, <2>3, <2>4 DEF IInv
<1>6. CASE Slide /\ ~LastEntry
  <2>1. CurrPos' = CurrPos + 2 /\ pc' = "scan" /\ PrevPos' = PrevPos /\ MidPos' = MidPos
        /\ i' = i /\ MaxLen' = MaxLen /\ out' = out
    BY <1>2, <1>6 DEF Slide, NextUnit
  <2>2. Ahead(CurrPos)' BY <1>1, <1>4, <1>6, <2>1 DEF Ahead, NulAt
  <2>3. (CurrPos + 2) % 2 = 0 BY <1>2
  <2>4. Tracker' BY <1>2, <2>1, <2>2, <2>3 DEF Tracker
  <2>5. Searched' BY <2>1 DEF Searched, ThrowsOnlyWithoutSeparator
  <2>6. TypeOK' BY <1>1, <1>2, <2>1 DEF IInv, TypeOK
  <2>. QED BY <1>1, <2>4, <2>5, <2>6 DEF IInv
<1>. QED BY <1>3, <1>5, <1>6

LEMMA FilterIInv == IInv /\ Filter => IInv'
<1>. SUFFICES ASSUME IInv, Filter PROVE IInv'
  OBVIOUS
<1>1. /\ e_buffer' = e_buffer /\ MaxLen' = MaxLen /\ PrevPos' = PrevPos
      /\ CurrPos' = CurrPos /\ out' = out /\ pc = "filter" /\ pc' = "filter"
      /\ i < CurrPos - PrevPos
  BY DEF Filter
<1>2. Buffer' BY <1>1 DEF IInv, Buffer, Terminated, NulAt
<1>3. /\ MaxLen \in Nat /\ PrevPos \in Nat /\ CurrPos \in Nat /\ MidPos \in Nat /\ i \in Nat
      /\ CurrPos % 2 = 0 /\ PrevPos <= CurrPos /\ Ahead(CurrPos + 2) /\ MidPos <= CurrPos
  BY <1>1 DEF IInv, Tracker
<1>4. Ahead(CurrPos + 2)' BY <1>1, <1>3 DEF Ahead, NulAt
<1>5. PrevPos + i \in DOMAIN e_buffer
  <2>1. PrevPos + i \in 0..(CurrPos + 2 + 3) BY <1>1, <1>3
  <2>. QED BY <1>3, <2>1, AheadInBuffer DEF IInv
<1>6. CASE Cell(PrevPos + i) = Separator
  <2>1. MidPos' = PrevPos + i /\ i' = i + 2 BY <1>6 DEF Filter, Found, PassedOver
  <2>2. Tracker' BY <1>1, <1>3, <1>4, <2>1 DEF Tracker
  <2>3. Searched' BY <1>1, <1>3, <2>1 DEF Searched, ThrowsOnlyWithoutSeparator
  <2>4. TypeOK' BY <1>1, <1>3, <2>1 DEF IInv, TypeOK
  <2>. QED BY <1>2, <2>2, <2>3, <2>4 DEF IInv
<1>7. CASE Cell(PrevPos + i) # Separator
  <2>1. MidPos' = MidPos /\ i' = i + 1 BY <1>7 DEF Filter, Found
  <2>2. Tracker' BY <1>1, <1>3, <1>4, <2>1 DEF Tracker
  <2>3. e_buffer[PrevPos + i] # Separator BY <1>5, <1>7 DEF Cell
  <2>4. Searched'
    <3>1. CASE PrevPos <= MidPos
      BY <1>1, <2>1, <3>1 DEF Searched, ThrowsOnlyWithoutSeparator
    <3>2. CASE \A q \in PrevPos..(CurrPos - 1) : q < PrevPos + i => e_buffer[q] # Separator
      <4>1. \A q \in PrevPos..(CurrPos - 1) : q < PrevPos + (i + 1) => e_buffer[q] # Separator
        BY <1>3, <2>3, <3>2
      <4>. QED BY <1>1, <2>1, <4>1 DEF Searched, ThrowsOnlyWithoutSeparator
    <3>. QED BY <1>1, <3>1, <3>2 DEF IInv, Searched
  <2>5. TypeOK' BY <1>1, <1>3, <2>1 DEF IInv, TypeOK
  <2>. QED BY <1>2, <2>2, <2>4, <2>5 DEF IInv
<1>. QED BY <1>6, <1>7

LEMMA PrintEntryIInv == IInv /\ PrintEntry => IInv'
<1>. SUFFICES ASSUME IInv, PrintEntry PROVE IInv'
  OBVIOUS
<1>1. /\ e_buffer' = e_buffer /\ MaxLen' = MaxLen /\ MidPos' = MidPos /\ i' = i
      /\ pc = "filter" /\ i >= CurrPos - PrevPos
  BY DEF PrintEntry
<1>2. Buffer' BY <1>1 DEF IInv, Buffer, Terminated, NulAt
<1>3. /\ MaxLen \in Nat /\ PrevPos \in Nat /\ CurrPos \in Nat /\ MidPos \in Nat /\ i \in Nat
      /\ CurrPos % 2 = 0 /\ PrevPos <= CurrPos /\ Ahead(CurrPos + 2) /\ MidPos <= CurrPos
  BY <1>1 DEF IInv, Tracker
<1>4. CASE MidPos < PrevPos
  <2>1. pc' = "thrown" /\ PrevPos' = PrevPos /\ CurrPos' = CurrPos /\ out' = out
    BY <1>4 DEF PrintEntry
  <2>2. Ahead(CurrPos + 2)' BY <1>1, <1>3, <2>1 DEF Ahead, NulAt
  <2>3. Tracker' BY <1>1, <1>3, <2>1, <2>2 DEF Tracker
  <2>4. \A q \in PrevPos..(CurrPos - 1) : e_buffer[q] # Separator
    BY <1>1, <1>3, <1>4 DEF IInv, Searched
  <2>5. Searched' BY <1>1, <1>3, <1>4, <2>1, <2>4 DEF Searched, ThrowsOnlyWithoutSeparator
  <2>6. TypeOK' BY <1>1, <2>1 DEF IInv, TypeOK
  <2>. QED BY <1>2, <2>3, <2>5, <2>6 DEF IInv
<1>5. CASE ~(MidPos < PrevPos)
  <2>1. /\ pc' = "scan" /\ PrevPos' = CurrPos + 2 /\ CurrPos' = CurrPos + 2
        /\ out' = Append(out, Text(PrevPos, MidPos - PrevPos) \o Text(MidPos, CurrPos - MidPos))
    BY <1>5 DEF PrintEntry, NextEntry, NextUnit
  <2>2. Ahead(CurrPos)' BY <1>1, <1>3, <2>1 DEF Ahead, NulAt
  <2>3. (CurrPos + 2) % 2 = 0 /\ MidPos <= CurrPos + 2 BY <1>3
  <2>4. Tracker' BY <1>1, <1>3, <2>1, <2>2, <2>3 DEF Tracker
  <2>5. Searched' BY <2>1 DEF Searched, ThrowsOnlyWithoutSeparator
  <2>6. Text(PrevPos, MidPos - PrevPos) \in Seq(Byte \ {0})
    <3>1. MidPos - PrevPos \in Nat /\ PrevPos + (MidPos - PrevPos) <= CurrPos + 2
      BY <1>3, <1>5
    <3>. QED BY <1>3, <3>1, TextType DEF IInv
  <2>7. Text(MidPos, CurrPos - MidPos) \in Seq(Byte \ {0})
    <3>1. CurrPos - MidPos \in Nat /\ MidPos + (CurrPos - MidPos) <= CurrPos + 2
      BY <1>3
    <3>. QED BY <1>3, <3>1, TextType DEF IInv
  <2>8. out' \in Seq(Seq(Byte \ {0}))
    <3>1. out \in Seq(Seq(Byte \ {0})) BY DEF IInv, TypeOK
    <3>. HIDE DEF Byte
    <3>. QED BY <2>1, <2>6, <2>7, <3>1
  <2>9. TypeOK' BY <1>1, <1>2, <1>3, <2>1, <2>8 DEF TypeOK, Buffer
  <2>. QED BY <1>2, <2>4, <2>5, <2>9 DEF IInv
<1>. QED BY <1>4, <1>5

LEMMA NextIInv == IInv /\ [Next]_vars => IInv'
<1>1. IInv /\ UNCHANGED vars => IInv'
  BY DEF vars, IInv, Buffer, Terminated, NulAt, Tracker, Ahead, Searched, TypeOK,
         ThrowsOnlyWithoutSeparator
<1>2. Reset => Init'
  BY DEF Reset, Init
<1>3. Reset => IInv'
  BY <1>2, InitIInv, PTL
<1>. QED BY <1>1, <1>3, ScanIInv, FilterIInv, PrintEntryIInv DEF Next, Scan

(* IInv holds in every reachable state.                                     *)
THEOREM Invariant == Spec => []IInv
BY InitIInv, NextIInv, PTL DEF Spec

-----------------------------------------------------------------------------

(* The tracker and the output keep their types, whatever the blocks.        *)
THEOREM TypeCorrect == Spec => []TypeOK
<1>1. IInv => TypeOK BY DEF IInv
<1>. QED BY <1>1, Invariant, PTL

(* No test and no search looks outside the buffer (envars.h:94-139).        *)
THEOREM ScanInBounds == Spec => []ReadsInBounds
<1>1. ASSUME IInv PROVE ReadsInBounds
  <2>1. CASE pc = "scan"
    <3>1. CurrPos \in Nat /\ Ahead(CurrPos) BY <1>1, <2>1 DEF IInv, Tracker
    <3>2. CurrPos \in 0..(CurrPos + 3) /\ CurrPos + 3 \in 0..(CurrPos + 3) BY <3>1
    <3>. QED BY <1>1, <2>1, <3>1, <3>2, AheadInBuffer DEF IInv, ReadsInBounds
  <2>2. CASE pc = "filter"
    <3>1. CurrPos \in Nat /\ PrevPos \in Nat /\ Ahead(CurrPos + 2)
      BY <1>1, <2>2 DEF IInv, Tracker
    <3>2. \A q \in PrevPos..CurrPos : q \in 0..(CurrPos + 2 + 3) BY <3>1
    <3>. QED BY <1>1, <2>2, <3>1, <3>2, AheadInBuffer DEF IInv, ReadsInBounds
  <2>. QED BY <2>1, <2>2 DEF ReadsInBounds
<1>. QED BY <1>1, Invariant, PTL

(* An exception is thrown only in an entry that has no "=" byte and is not  *)
(* the first (envars.h:124-169).                                            *)
THEOREM ThrowsOnlyThere == Spec => []ThrowsOnlyWithoutSeparator
<1>1. IInv => ThrowsOnlyWithoutSeparator BY DEF IInv, Searched
<1>. QED BY <1>1, Invariant, PTL

-----------------------------------------------------------------------------
(* Where the block ends, and its entries                                    *)

LEMMA EndOfBlock ==
  ASSUME Buffer
  PROVE  /\ End \in Nat /\ End % 2 = 0 /\ End \in DOMAIN e_buffer
         /\ NulAt(e_buffer, End) /\ NulAt(e_buffer, End + 2)
         /\ \A q \in DOMAIN e_buffer : NulAt(e_buffer, q) /\ NulAt(e_buffer, q + 2) => End <= q
<1>. DEFINE Z == {q \in DOMAIN e_buffer : NulAt(e_buffer, q) /\ NulAt(e_buffer, q + 2)}
<1>1. Z \in SUBSET Nat /\ Z # {} BY DEF Buffer, Terminated
<1>. HIDE DEF Z
<1>2. PICK z \in Z : \A y \in Z : ~(<<y, z>> \in OpToRel(<, Nat))
  BY <1>1, NatLessThanWellFounded, WFMin
<1>3. \A y \in Z : ~(y < z) BY <1>1, <1>2 DEF OpToRel
<1>4. z \in Z /\ \A y \in Z : z <= y BY <1>1, <1>3
<1>5. /\ End \in DOMAIN e_buffer /\ NulAt(e_buffer, End) /\ NulAt(e_buffer, End + 2)
      /\ \A q \in DOMAIN e_buffer : NulAt(e_buffer, q) /\ NulAt(e_buffer, q + 2) => End <= q
  BY <1>4 DEF End, Z
<1>6. End \in Nat /\ End % 2 = 0 BY <1>5 DEF Buffer, NulAt
<1>. QED BY <1>5, <1>6

LEMMA EndsFinite ==
  ASSUME Buffer
  PROVE  /\ Ends \in SUBSET (0..End) /\ IsFiniteSet(Ends)
         /\ \A p : /\ Before(p) \in SUBSET Ends /\ IsFiniteSet(Before(p)) /\ Cardinality(Before(p)) \in Nat
                   /\ Cardinality(Before(p)) <= Cardinality(Ends)
         /\ Cardinality(Ends) \in Nat
         /\ End # 0 => End \in Ends
<1>1. End \in Nat /\ NulAt(e_buffer, End) BY EndOfBlock
<1>2. Ends \in SUBSET (0..End) BY DEF Ends
<1>3. 0 \in Int /\ End \in Int BY <1>1
<1>4. IsFiniteSet(0..End) BY <1>3, FS_Interval
<1>5. IsFiniteSet(Ends) BY <1>2, <1>4, FS_Subset
<1>6. \A p : Before(p) \in SUBSET Ends BY DEF Before
<1>7. Cardinality(Ends) \in Nat BY <1>5, FS_CardinalityType
<1>8. \A p : IsFiniteSet(Before(p)) /\ Cardinality(Before(p)) <= Cardinality(Ends)
  BY <1>5, <1>6, FS_Subset
<1>9. \A p : Cardinality(Before(p)) \in Nat BY <1>8, FS_CardinalityType
<1>10. End # 0 => End \in Ends BY <1>1 DEF Ends
<1>. QED BY <1>2, <1>5, <1>6, <1>7, <1>8, <1>9, <1>10

(* A number is the n-th of a set if n of the set are no larger.             *)
LEMMA NthIs ==
  ASSUME NEW S \in SUBSET Int, IsFiniteSet(S), NEW p \in S
  PROVE  Nth(S, Cardinality({q \in S : q <= p})) = p
<1>. DEFINE To(x) == {q \in S : q <= x}
<1>1. ASSUME NEW x \in S, NEW y \in S, x < y PROVE Cardinality(To(x)) # Cardinality(To(y))
  <2>1. To(x) \in SUBSET To(y)
    <3>1. \A q \in S : q \in Int OBVIOUS
    <3>2. \A q \in S : q <= x => q <= y BY <1>1, <3>1
    <3>. QED BY <3>2
  <2>2. y \in To(y) /\ y \notin To(x) BY <1>1
  <2>3. To(y) \in SUBSET S OBVIOUS
  <2>. HIDE DEF To
  <2>4. IsFiniteSet(To(y)) BY <2>3, FS_Subset
  <2>. QED BY <2>1, <2>2, <2>4, FS_Subset
<1>2. \A x \in S : Cardinality(To(x)) = Cardinality(To(p)) => x = p
  <2>. SUFFICES ASSUME NEW x \in S, Cardinality(To(x)) = Cardinality(To(p)), x # p PROVE FALSE
    OBVIOUS
  <2>1. x < p \/ p < x OBVIOUS
  <2>. HIDE DEF To
  <2>. QED BY <1>1, <2>1
<1>3. Nth(S, Cardinality(To(p))) = CHOOSE x \in S : Cardinality(To(x)) = Cardinality(To(p)) BY DEF Nth
<1>. HIDE DEF To
<1>4. Nth(S, Cardinality(To(p))) = p BY <1>2, <1>3
<1>. QED BY <1>4 DEF To

(* The entry that ends at CurrPos, where no unit from PrevPos on is NUL, is *)
(* the one behind those printed; it starts at PrevPos.                      *)
LEMMA EntryAt ==
  ASSUME Buffer, NEW s \in Nat, NEW c \in Nat, s <= c, c < End, NulAt(e_buffer, c),
         s = 0 \/ s - 2 \in Ends, \A q \in s..(c - 1) : ~NulAt(e_buffer, q)
  PROVE  /\ c \in Ends /\ StartOf(c) = s
         /\ Nth(Ends, Cardinality(Before(s)) + 1) = c
         /\ Cardinality(Before(s)) + 1 < Cardinality(Ends)
         /\ Cardinality(Before(c + 2)) = Cardinality(Before(s)) + 1
<1>1. End \in Nat /\ NulAt(e_buffer, End) BY EndOfBlock
<1>2. Ends \in SUBSET (0..End) /\ Ends \in SUBSET Int /\ IsFiniteSet(Ends) /\ End \in Ends
      /\ \A p : IsFiniteSet(Before(p)) /\ Before(p) \in SUBSET Ends
      /\ Cardinality(Ends) \in Nat
  BY <1>1, EndsFinite
<1>3. c \in Ends BY <1>1 DEF Ends
<1>4. \A q \in Ends : NulAt(e_buffer, q) /\ q \in Int /\ q >= 0 /\ q % 2 = 0 BY <1>2 DEF Ends, NulAt
<1>5. Before(c) = Before(s)
  <2>1. \A q \in Ends : q < c => q < s BY <1>4
  <2>. QED BY <1>4, <2>1 DEF Before
<1>6. {q \in Ends : q <= c} = Before(s) \cup {c}
  <2>1. \A q \in Ends : q <= c <=> q < c \/ q = c BY <1>4
  <2>. QED BY <1>3, <1>5, <2>1 DEF Before
<1>7. c \notin Before(s) BY DEF Before
<1>8. Cardinality({q \in Ends : q <= c}) = Cardinality(Before(s)) + 1
  BY <1>2, <1>6, <1>7, FS_AddElement
<1>9. Nth(Ends, Cardinality(Before(s)) + 1) = c BY <1>2, <1>3, <1>8, NthIs
<1>10. Cardinality(Before(s)) + 1 < Cardinality(Ends)
  <2>1. {q \in Ends : q <= c} \in SUBSET Ends /\ {q \in Ends : q <= c} # Ends BY <1>2, <1>4
  <2>2. Cardinality({q \in Ends : q <= c}) <= Cardinality(Ends)
        /\ Cardinality({q \in Ends : q <= c}) # Cardinality(Ends)
    BY <1>2, <2>1, FS_Subset
  <2>3. Cardinality(Before(s)) \in Nat BY <1>2, FS_CardinalityType
  <2>. QED BY <1>2, <1>8, <2>2, <2>3
<1>11. Before(c + 2) = {q \in Ends : q <= c}
  <2>1. c % 2 = 0 BY DEF NulAt
  <2>2. \A q \in Ends : q < c + 2 <=> q <= c BY <1>4, <2>1
  <2>. QED BY <2>2 DEF Before
<1>12. StartOf(c) = s
  <2>1. StartOf(c) = IF Before(s) = {} THEN 0 ELSE 2 + Nth(Before(s), Cardinality(Before(s)))
    BY <1>5 DEF StartOf, Before
  <2>2. CASE s = 0
    <3>1. Before(s) = {} BY <1>4, <2>2 DEF Before
    <3>. QED BY <2>1, <2>2, <3>1
  <2>3. CASE s # 0
    <3>1. s - 2 \in Before(s) BY <2>3 DEF Before
    <3>2. s % 2 = 0 BY <1>4, <2>3
    <3>3. \A q \in Before(s) : q <= s - 2 BY <1>4, <3>2 DEF Before
    <3>4. {q \in Before(s) : q <= s - 2} = Before(s) BY <3>3
    <3>5. Before(s) \in SUBSET Int BY <1>2
    <3>6. Nth(Before(s), Cardinality(Before(s))) = s - 2 BY <1>2, <3>1, <3>4, <3>5, NthIs
    <3>. QED BY <2>1, <3>1, <3>6
  <2>. QED BY <2>2, <2>3
<1>. QED BY <1>3, <1>8, <1>9, <1>10, <1>11, <1>12

(* Text yields all low bytes where none of them is zero.                    *)
LEMMA TextOfUnits ==
  ASSUME NEW start \in Nat, NEW m \in Nat, \A k \in 1..m : e_buffer[start + 2 * (k - 1)] # 0
  PROVE  Text(start, 2 * m) = [k \in 1..m |-> e_buffer[start + 2 * (k - 1)]]
<1>. DEFINE low(k) == e_buffer[start + 2 * (k - 1)]
            Good(j) == /\ \A k \in 1..j : low(k) # 0
                       /\ j < m => low(j + 1) = 0
            len == CHOOSE j \in 0..m : Good(j)
<1>1. (2 * m + 1) \div 2 = m OBVIOUS
<1>2. Text(start, 2 * m) = [k \in 1..len |-> low(k)] BY <1>1 DEF Text
<1>3. \A k \in 1..m : low(k) # 0 OBVIOUS
<1>. HIDE DEF low
<1>4. Good(m) /\ \A j \in 0..m : Good(j) => j = m
  <2>1. ASSUME NEW j \in 0..m, Good(j), j # m PROVE FALSE
    <3>1. low(j + 1) = 0 /\ j + 1 \in 1..m BY <2>1
    <3>. QED BY <1>3, <3>1
  <2>. QED BY <1>3, <2>1
<1>. HIDE DEF Good
<1>5. len = m BY <1>4
<1>. QED BY <1>2, <1>5 DEF low

(* Cut in two at its last separator, an entry is printed in full, if its    *)
(* characters are single bytes.                                             *)
LEMMA CutInTwo ==
  ASSUME Buffer, NEW s \in Nat, NEW mid \in Nat, NEW c \in Nat, s <= mid, mid <= c,
         s % 2 = 0, c % 2 = 0, c <= End,
         mid = 0 \/ e_buffer[mid] = Separator,
         \A q \in s..(c - 1) : ~NulAt(e_buffer, q),
         \A q \in s..(c - 1) : q % 2 = 1 => e_buffer[q] = 0
  PROVE  Text(s, mid - s) \o Text(mid, c - mid)
           = [k \in 1..((c - s) \div 2) |-> e_buffer[s + 2 * (k - 1)]]
<1>1. mid % 2 = 0
  <2>1. CASE mid = c \/ mid = 0 BY <2>1
  <2>2. CASE mid # c /\ mid # 0
    <3>1. mid \in s..(c - 1) /\ e_buffer[mid] # 0 BY <2>2 DEF Separator
    <3>2. mid % 2 # 1 BY <3>1
    <3>. QED BY <3>2
  <2>. QED BY <2>1, <2>2
<1>2. PICK a \in Nat : mid - s = 2 * a
  <2>1. (mid - s) % 2 = 0 /\ mid - s \in Nat BY <1>1
  <2>2. mid - s = 2 * ((mid - s) \div 2) /\ (mid - s) \div 2 \in Nat BY <2>1
  <2>. QED BY <2>2
<1>3. PICK b \in Nat : c - mid = 2 * b
  <2>1. (c - mid) % 2 = 0 /\ c - mid \in Nat BY <1>1
  <2>2. c - mid = 2 * ((c - mid) \div 2) /\ (c - mid) \div 2 \in Nat BY <2>1
  <2>. QED BY <2>2
<1>4. (c - s) \div 2 = a + b BY <1>2, <1>3
<1>5. End \in Nat /\ End \in DOMAIN e_buffer /\ \E top \in Int : DOMAIN e_buffer = 0..top
  BY EndOfBlock DEF Buffer
<1>6. \A q \in s..(c - 1) : q % 2 = 0 => e_buffer[q] # 0
  <2>. SUFFICES ASSUME NEW q \in s..(c - 1), q % 2 = 0, e_buffer[q] = 0 PROVE FALSE OBVIOUS
  <2>1. q + 1 \in s..(c - 1) /\ (q + 1) % 2 = 1 OBVIOUS
  <2>2. e_buffer[q + 1] = 0 BY <2>1
  <2>3. {q, q + 1} \subseteq DOMAIN e_buffer BY <1>5
  <2>. QED BY <2>2, <2>3 DEF NulAt
<1>7. \A k \in 1..(a + b) : e_buffer[s + 2 * (k - 1)] # 0
  <2>. TAKE k \in 1..(a + b)
  <2>1. s + 2 * (k - 1) \in s..(c - 1) /\ (s + 2 * (k - 1)) % 2 = 0 BY <1>2, <1>3
  <2>. QED BY <1>6, <2>1
<1>8. Text(s, mid - s) = [k \in 1..a |-> e_buffer[s + 2 * (k - 1)]]
  <2>1. \A k \in 1..a : e_buffer[s + 2 * (k - 1)] # 0 BY <1>7
  <2>. QED BY <1>2, <2>1, TextOfUnits
<1>9. Text(mid, c - mid) = [k \in 1..b |-> e_buffer[mid + 2 * (k - 1)]]
  <2>1. \A k \in 1..b : e_buffer[mid + 2 * (k - 1)] # 0
    <3>. TAKE k \in 1..b
    <3>1. mid + 2 * (k - 1) = s + 2 * ((k + a) - 1) /\ k + a \in 1..(a + b) BY <1>2
    <3>. QED BY <1>7, <3>1
  <2>. QED BY <1>3, <2>1, TextOfUnits
<1>. DEFINE x == [k \in 1..a |-> e_buffer[s + 2 * (k - 1)]]
            y == [k \in 1..b |-> e_buffer[mid + 2 * (k - 1)]]
            z == [k \in 1..(a + b) |-> e_buffer[s + 2 * (k - 1)]]
<1>10. x \o y = z
  <2>1. Len(x) = a /\ Len(y) = b OBVIOUS
  <2>2. x \o y = [k \in 1..(Len(x) + Len(y)) |-> IF k <= Len(x) THEN x[k] ELSE y[k - Len(x)]]
    OBVIOUS
  <2>3. ASSUME NEW k \in 1..(a + b) PROVE (IF k <= a THEN x[k] ELSE y[k - a]) = z[k]
    <3>1. CASE k <= a BY <3>1
    <3>2. CASE k > a
      <4>1. k - a \in 1..b /\ mid + 2 * ((k - a) - 1) = s + 2 * (k - 1) BY <1>2, <3>2
      <4>. QED BY <3>2, <4>1
    <3>. QED BY <3>1, <3>2
  <2>. QED BY <2>1, <2>2, <2>3
<1>. QED BY <1>4, <1>8, <1>9, <1>10

-----------------------------------------------------------------------------
(* Where the search cuts an entry                                           *)

(* A byte is a hit if it is 0x3d and the byte before it is none.            *)
LEMMA HitNext ==
  ASSUME NEW s \in Nat, NEW j \in Nat, s <= j
  PROVE  Hit(s, j) <=> e_buffer[j] = Separator /\ (j = s \/ ~Hit(s, j - 1))
<1>. DEFINE Run(r, k) == r \in s..k /\ \A q \in r..k : e_buffer[q] = Separator
            First(r) == r > s => e_buffer[r - 1] # Separator
<1>1. \A k : Hit(s, k) <=> \E r \in s..k : (k - r) % 2 = 0 /\ Run(r, k) /\ First(r)
  BY DEF Hit
<1>. HIDE DEF Run
<1>2. ASSUME Hit(s, j) PROVE e_buffer[j] = Separator /\ (j = s \/ ~Hit(s, j - 1))
  <2>1. PICK r \in s..j : (j - r) % 2 = 0 /\ Run(r, j) /\ First(r)
    BY <1>1, <1>2
  <2>2. e_buffer[j] = Separator BY <2>1 DEF Run
  <2>3. ASSUME j # s, Hit(s, j - 1) PROVE FALSE
    <3>1. PICK t \in s..(j - 1) : ((j - 1) - t) % 2 = 0 /\ Run(t, j - 1) /\ First(t)
      BY <1>1, <2>3
    <3>2. ~(r < t)
      <4>1. r < t => t - 1 \in r..j /\ t > s OBVIOUS
      <4>. QED BY <2>1, <3>1, <4>1 DEF Run
    <3>3. ~(t < r)
      <4>1. t < r => r - 1 \in t..(j - 1) /\ r > s OBVIOUS
      <4>. QED BY <2>1, <3>1, <4>1 DEF Run
    <3>4. t = r BY <3>2, <3>3
    <3>. QED BY <2>1, <3>1, <3>4
  <2>. QED BY <2>2, <2>3
<1>3. ASSUME e_buffer[j] = Separator, j = s PROVE Hit(s, j)
  <2>1. Run(j, j) /\ First(j) /\ (j - j) % 2 = 0 /\ j \in s..j BY <1>3 DEF Run
  <2>. QED BY <1>1, <2>1
<1>4. ASSUME e_buffer[j] = Separator, j # s, ~Hit(s, j - 1) PROVE Hit(s, j)
  <2>1. CASE e_buffer[j - 1] # Separator
    <3>1. Run(j, j) /\ First(j) /\ (j - j) % 2 = 0 /\ j \in s..j BY <1>4, <2>1 DEF Run
    <3>. QED BY <1>1, <3>1
  <2>2. CASE e_buffer[j - 1] = Separator
    <3>. DEFINE R == {r \in Nat : Run(r, j - 1)}
    <3>1. j - 1 \in R /\ R \in SUBSET Nat /\ \A r \in R : Run(r, j - 1)
      BY <1>4, <2>2 DEF Run
    <3>10. \A r \in Nat : Run(r, j - 1) => r \in R OBVIOUS
    <3>. HIDE DEF R
    <3>2. PICK r \in R : \A y \in R : ~(<<y, r>> \in OpToRel(<, Nat))
      BY <3>1, NatLessThanWellFounded, WFMin
    <3>3. \A y \in R : ~(y < r) BY <3>1, <3>2 DEF OpToRel
    <3>4. r \in s..(j - 1) /\ \A q \in r..(j - 1) : e_buffer[q] = Separator
      BY <3>1, <3>2 DEF Run
    <3>5. First(r)
      <4>. SUFFICES ASSUME r > s, e_buffer[r - 1] = Separator PROVE FALSE
        OBVIOUS
      <4>1. \A q \in (r - 1)..(j - 1) : q = r - 1 \/ q \in r..(j - 1) BY <3>4
      <4>2. Run(r - 1, j - 1) BY <3>4, <4>1 DEF Run
      <4>3. r - 1 \in Nat /\ r - 1 < r BY <3>4
      <4>. QED BY <3>3, <3>10, <4>2, <4>3
    <3>6. ((j - 1) - r) % 2 # 0
      BY <1>1, <1>4, <3>1, <3>2, <3>4, <3>5
    <3>7. (j - r) % 2 = 0 BY <3>4, <3>6
    <3>8. \A q \in r..j : q = j \/ q \in r..(j - 1) BY <3>4
    <3>9. Run(r, j) /\ r \in s..j BY <1>4, <3>4, <3>8 DEF Run
    <3>. QED BY <1>1, <3>5, <3>7, <3>9
  <2>. QED BY <2>1, <2>2
<1>. QED BY <1>2, <1>3, <1>4

(* The mark is the place of the cut when the whole entry was searched.      *)
LEMMA CutIs ==
  ASSUME NEW s \in Nat, NEW c \in Nat, NEW mid \in Nat, s <= mid, StartOf(c) = s,
         \A j \in s..(c - 1) : Hit(s, j) => j <= mid,
         mid = 0 \/ (mid < c /\ Hit(s, mid))
  PROVE  Cut(c) = mid
<1>. DEFINE hits == {j \in s..(c - 1) : Hit(s, j)}
<1>1. Cut(c) = IF hits = {} THEN s ELSE CHOOSE j \in hits : \A k \in hits : k <= j
  BY DEF Cut
<1>2. \A j \in hits : j \in Nat /\ j <= mid /\ s <= j OBVIOUS
<1>3. CASE hits = {}
  <2>1. ~(mid < c /\ Hit(s, mid))
    <3>1. mid < c => mid \in s..(c - 1) OBVIOUS
    <3>. QED BY <1>3, <3>1
  <2>. QED BY <1>1, <1>3, <2>1
<1>4. CASE hits # {}
  <2>1. mid \in hits
    <3>1. CASE mid = 0
      <4>1. PICK j \in hits : TRUE BY <1>4
      <4>2. j = mid BY <1>2, <3>1, <4>1
      <4>. QED BY <4>1, <4>2
    <3>2. CASE mid < c /\ Hit(s, mid) BY <3>2
    <3>. QED BY <3>1, <3>2
  <2>. HIDE DEF hits
  <2>2. \A j \in hits : (\A k \in hits : k <= j) => j = mid
    BY <1>2, <2>1
  <2>3. (CHOOSE j \in hits : \A k \in hits : k <= j) = mid
    BY <1>2, <2>1, <2>2
  <2>. QED BY <1>1, <1>4, <2>3
<1>. QED BY <1>3, <1>4

-----------------------------------------------------------------------------
(* What is printed                                                          *)

(* The entries are those of the buffer.                                     *)
LEMMA BlockKept ==
  ASSUME e_buffer' = e_buffer
  PROVE  /\ End' = End /\ Ends' = Ends
         /\ \A q : NulAt(e_buffer, q)' = NulAt(e_buffer, q)
         /\ \A q : Before(q)' = Before(q) /\ Latin(q)' = Latin(q) /\ Entry(q)' = Entry(q)
                   /\ Shown(q)' = Shown(q)
         /\ \A q, r : Hit(q, r)' = Hit(q, r)
<1>1. \A q : NulAt(e_buffer, q)' = NulAt(e_buffer, q) BY DEF NulAt
<1>2. End' = End BY DEF End, NulAt
<1>3. Ends' = Ends BY <1>2 DEF Ends, NulAt
<1>4. \A q : Before(q)' = Before(q) BY <1>3 DEF Before
<1>5. \A q : StartOf(q)' = StartOf(q) BY <1>3 DEF StartOf, Nth
<1>6. \A q : Latin(q)' = Latin(q) BY <1>5 DEF Latin
<1>7. \A q : Entry(q)' = Entry(q) BY <1>5 DEF Entry
<1>8. \A q, r : Hit(q, r)' = Hit(q, r) BY DEF Hit
<1>9. \A q : Cut(q)' = Cut(q)
  <2>. SUFFICES ASSUME NEW q PROVE Cut(q)' = Cut(q) OBVIOUS
  <2>. DEFINE hits(s) == {j \in s..(q - 1) : Hit(s, j)}
              last(s) == IF hits(s) = {} THEN s ELSE CHOOSE j \in hits(s) : \A k \in hits(s) : k <= j
  <2>1. ASSUME NEW s PROVE last(s)' = last(s) BY DEF Hit
  <2>2. PICK s : s = StartOf(q) /\ s = StartOf(q)' BY <1>5
  <2>3. Cut(q) = last(s) BY <2>2 DEF Cut
  <2>4. Cut(q)' = last(s)' BY <2>2 DEF Cut
  <2>. QED BY <2>1, <2>3, <2>4
<1>10. \A q : Shown(q)' = Shown(q) BY <1>5, <1>9 DEF Shown, Text
<1>. QED BY <1>1, <1>2, <1>3, <1>4, <1>6, <1>7, <1>8, <1>10

LEMMA LinesKept ==
  ASSUME UNCHANGED <<e_buffer, out>>, LinesAreEntries
  PROVE  LinesAreEntries'
<1>1. \A n : Nth(Ends, n)' = Nth(Ends, n) BY BlockKept DEF Nth
<1>2. Ends' = Ends BY BlockKept
<1>3. ASSUME NEW n \in 1..Len(out)
      PROVE  LET p == Nth(Ends, n) IN
             (n < Cardinality(Ends) /\ out[n] = Shown(p) /\ (Latin(p) => Shown(p) = Entry(p)))'
  <2>1. PICK q : q = Nth(Ends, n) /\ q = Nth(Ends, n)' BY <1>1
  <2>2. Latin(q)' = Latin(q) /\ Entry(q)' = Entry(q) /\ Shown(q)' = Shown(q) BY BlockKept
  <2>3. n < Cardinality(Ends) /\ out[n] = Shown(q) /\ (Latin(q) => Shown(q) = Entry(q))
    BY <2>1 DEF LinesAreEntries
  <2>. QED BY <1>2, <2>1, <2>2, <2>3
<1>. QED BY <1>3 DEF LinesAreEntries

LEMMA InitParsed == Init => Parsed
<1>. SUFFICES ASSUME Init PROVE Parsed OBVIOUS
<1>1. Buffer BY InitIInv DEF IInv
<1>2. PrevPos = 0 /\ CurrPos = 0 /\ MidPos = 0 /\ out = <<>> /\ pc = "scan" BY DEF Init
<1>3. End \in Nat BY <1>1, EndOfBlock
<1>4. Cardinality(Before(0)) = 0
  <2>1. \A q \in Ends : q \in 0..End BY <1>1, EndsFinite
  <2>2. \A q \in Ends : ~(q < 0) BY <1>3, <2>1
  <2>3. Before(0) = {} BY <2>2 DEF Before
  <2>. QED BY <2>3, FS_EmptySet
<1>5. LinesAreEntries BY <1>2 DEF LinesAreEntries
<1>6. DonePrintsAllButLast BY <1>2 DEF DonePrintsAllButLast
<1>7. Search BY <1>2 DEF Search
<1>. QED BY <1>2, <1>3, <1>4, <1>5, <1>6, <1>7 DEF Parsed

(* The tests of Formatter are those of the format.                          *)
LEMMA Tests ==
  ASSUME IInv, pc = "scan"
  PROVE  /\ CurrPos \in Nat /\ PrevPos \in Nat /\ CurrPos % 2 = 0 /\ PrevPos <= CurrPos
         /\ isLastEntry <=> NulAt(e_buffer, CurrPos) /\ NulAt(e_buffer, CurrPos + 2)
         /\ isEntryEnd <=> NulAt(e_buffer, CurrPos)
<1>1. CurrPos \in Nat /\ PrevPos \in Nat /\ CurrPos % 2 = 0 /\ PrevPos <= CurrPos /\ Ahead(CurrPos)
      /\ Buffer
  BY DEF IInv, Tracker
<1>2. \A q \in 0..(CurrPos + 3) : q \in DOMAIN e_buffer BY <1>1, AheadInBuffer
<1>3. {CurrPos, CurrPos + 1, CurrPos + 2, CurrPos + 3} \subseteq DOMAIN e_buffer BY <1>1, <1>2
<1>4. (CurrPos + 2) + 1 = CurrPos + 3 /\ (CurrPos + 2) % 2 = 0 BY <1>1
<1>5. isEntryEnd <=> NulAt(e_buffer, CurrPos) BY <1>1, <1>3 DEF isEntryEnd, NulAt, Cell
<1>6. isLastEntry <=> \A k \in {0, 1, 2, 3} : Cell(CurrPos + k) = 0
  <2>1. 0..3 = {0, 1, 2, 3} OBVIOUS
  <2>. QED BY <2>1 DEF isLastEntry
<1>7. CurrPos + 0 = CurrPos BY <1>1
<1>8. isLastEntry <=> /\ Cell(CurrPos) = 0 /\ Cell(CurrPos + 1) = 0
                      /\ Cell(CurrPos + 2) = 0 /\ Cell(CurrPos + 3) = 0
  BY <1>6, <1>7
<1>9. isLastEntry <=> NulAt(e_buffer, CurrPos) /\ NulAt(e_buffer, CurrPos + 2)
  BY <1>1, <1>3, <1>4, <1>8 DEF NulAt, Cell
<1>. QED BY <1>1, <1>5, <1>9

LEMMA LastEntryParsed == ASSUME IInv, Parsed, LastEntry PROVE Parsed'
<1>1. pc = "scan" /\ isLastEntry /\ pc' = "done" /\ UNCHANGED <<e_buffer, MidPos, out>> BY DEF LastEntry
<1>2. Buffer BY DEF IInv
<1>3. CurrPos \in Nat /\ NulAt(e_buffer, CurrPos) /\ NulAt(e_buffer, CurrPos + 2) /\ PrevPos \in Nat
      /\ PrevPos <= CurrPos
  BY <1>1, Tests
<1>4. CurrPos = End
  <2>1. CurrPos \in DOMAIN e_buffer BY <1>3 DEF NulAt
  <2>2. End <= CurrPos /\ End \in Nat BY <1>2, <1>3, <2>1, EndOfBlock
  <2>. QED BY <1>1, <1>3, <2>2 DEF Parsed
<1>5. Len(out) = Cardinality(Before(PrevPos)) /\ \A q \in PrevPos..(CurrPos - 1) : ~NulAt(e_buffer, q)
  BY <1>1 DEF Parsed
<1>6. Len(out) = IF Ends = {} THEN 0 ELSE Cardinality(Ends) - 1
  <2>1. CASE End = 0
    <3>1. Ends = {} BY <2>1 DEF Ends
    <3>2. Before(PrevPos) = {} BY <3>1 DEF Before
    <3>. QED BY <1>5, <3>1, <3>2, FS_EmptySet
  <2>2. CASE End # 0
    <3>1. End \in Ends /\ IsFiniteSet(Ends) /\ Ends \in SUBSET (0..End) /\ End \in Nat
      BY <1>2, <2>2, EndsFinite, EndOfBlock
    <3>2. \A q \in Ends : NulAt(e_buffer, q) /\ q \in 0..End BY <3>1 DEF Ends
    <3>3. \A q \in Ends : q < PrevPos <=> q # End BY <1>3, <1>4, <1>5, <3>1, <3>2
    <3>4. Before(PrevPos) = Ends \ {End} BY <3>3 DEF Before
    <3>5. Cardinality(Ends \ {End}) = Cardinality(Ends) - 1 BY <3>1, FS_RemoveElement
    <3>. QED BY <1>5, <3>1, <3>4, <3>5
  <2>. QED BY <2>1, <2>2
<1>7. DonePrintsAllButLast' BY <1>1, <1>6, BlockKept DEF DonePrintsAllButLast
<1>8. LinesAreEntries' BY <1>1, LinesKept DEF Parsed
<1>9. Search' BY <1>1 DEF Search
<1>. QED BY <1>1, <1>7, <1>8, <1>9 DEF Parsed

LEMMA EntryEndParsed == ASSUME IInv, Parsed, EntryEnd PROVE Parsed'
<1>1. pc = "scan" /\ ~isLastEntry /\ isEntryEnd /\ pc' = "filter"
      /\ i' = 0 /\ UNCHANGED <<e_buffer, PrevPos, CurrPos, MidPos, out>>
  BY DEF EntryEnd
<1>2. NulAt(e_buffer, CurrPos) /\ CurrPos # End
  <2>1. Buffer BY DEF IInv
  <2>. QED BY <1>1, <2>1, Tests, EndOfBlock
<1>3. LinesAreEntries' BY <1>1, LinesKept DEF Parsed
<1>4. DonePrintsAllButLast' BY <1>1 DEF DonePrintsAllButLast
<1>5. End' = End /\ Ends' = Ends /\ Before(PrevPos)' = Before(PrevPos)
      /\ \A q : NulAt(e_buffer, q)' = NulAt(e_buffer, q)
  BY <1>1, BlockKept DEF Before
<1>6. Search'
  <2>1. PrevPos \in Nat /\ MidPos \in Nat /\ CurrPos \in Nat BY DEF IInv, Tracker
  <2>2. MidPos < PrevPos \/ MidPos = 0 BY <1>1 DEF Parsed, Search
  <2>. QED BY <1>1, <2>1, <2>2 DEF Search
<1>. QED BY <1>1, <1>2, <1>3, <1>4, <1>5, <1>6 DEF Parsed, NulAt

LEMMA SlideParsed == ASSUME IInv, Parsed, Slide PROVE Parsed'
<1>1. pc = "scan" /\ ~isLastEntry /\ ~isEntryEnd /\ pc' = "scan" /\ CurrPos' = CurrPos + 2
      /\ UNCHANGED <<e_buffer, PrevPos, MidPos, out>>
  BY DEF Slide, NextUnit
<1>2. Buffer BY DEF IInv
<1>3. CurrPos \in Nat /\ PrevPos \in Nat /\ CurrPos % 2 = 0 /\ PrevPos <= CurrPos /\ ~NulAt(e_buffer, CurrPos)
  BY <1>1, Tests
<1>4. End \in Nat /\ End % 2 = 0 /\ NulAt(e_buffer, End) BY <1>2, EndOfBlock
<1>5. CurrPos <= End /\ \A q \in PrevPos..(CurrPos - 1) : ~NulAt(e_buffer, q) BY <1>1 DEF Parsed
<1>6. CurrPos + 2 <= End BY <1>3, <1>4, <1>5
<1>7. ~NulAt(e_buffer, CurrPos + 1)
  <2>1. (CurrPos + 1) % 2 # 0 BY <1>3
  <2>. QED BY <2>1 DEF NulAt
<1>8. \A q \in PrevPos..((CurrPos + 2) - 1) : ~NulAt(e_buffer, q)
  <2>1. \A q \in PrevPos..((CurrPos + 2) - 1) : q \in PrevPos..(CurrPos - 1) \/ q = CurrPos \/ q = CurrPos + 1
    BY <1>3
  <2>. QED BY <1>3, <1>5, <1>7, <2>1
<1>9. LinesAreEntries' BY <1>1, LinesKept DEF Parsed
<1>10. DonePrintsAllButLast' BY <1>1 DEF DonePrintsAllButLast
<1>11. End' = End /\ Ends' = Ends /\ Before(PrevPos)' = Before(PrevPos)
       /\ \A q : NulAt(e_buffer, q)' = NulAt(e_buffer, q)
  BY <1>1, BlockKept DEF Before
<1>12. Search' BY <1>1 DEF Parsed, Search
<1>. QED BY <1>1, <1>6, <1>8, <1>9, <1>10, <1>11, <1>12 DEF Parsed

LEMMA FilterParsed == ASSUME IInv, Parsed, Filter PROVE Parsed'
<1>1. pc = "filter" /\ pc' = "filter" /\ UNCHANGED <<e_buffer, PrevPos, CurrPos, out>> BY DEF Filter
<1>2. MidPos' = 0 \/ (MidPos' \in DOMAIN e_buffer /\ e_buffer[MidPos'] = Separator)
  <2>1. CASE Found
    <3>1. MidPos' = PrevPos + i /\ Cell(PrevPos + i) = Separator BY <2>1 DEF Filter, Found
    <3>. QED BY <3>1 DEF Cell, Separator
  <2>2. CASE ~Found BY <2>2 DEF Filter, Parsed
  <2>. QED BY <2>1, <2>2
<1>3. LinesAreEntries' BY <1>1, LinesKept DEF Parsed
<1>4. DonePrintsAllButLast' BY <1>1 DEF DonePrintsAllButLast
<1>5. End' = End /\ Ends' = Ends /\ Before(PrevPos)' = Before(PrevPos)
      /\ \A q : NulAt(e_buffer, q)' = NulAt(e_buffer, q)
  BY <1>1, BlockKept DEF Before
<1>6. Search'
  <2>. DEFINE at == PrevPos + i
  <2>1. /\ PrevPos \in Nat /\ CurrPos \in Nat /\ MidPos \in Nat /\ i \in Nat /\ at \in Nat
        /\ i < CurrPos - PrevPos /\ at \in PrevPos..(CurrPos - 1)
        /\ \A j \in PrevPos..(CurrPos - 1) : j < at /\ Hit(PrevPos, j) => j <= MidPos
        /\ PrevPos <= MidPos => MidPos = 0 \/ (MidPos < CurrPos /\ Hit(PrevPos, MidPos))
        /\ i > 0 => ~Hit(PrevPos, at - 1)
    BY <1>1 DEF IInv, Tracker, Filter, Parsed, Search
  <2>2. Hit(PrevPos, at) <=> Found
    <3>1. e_buffer[at] = Separator <=> Found
      <4>1. Ahead(CurrPos + 2) /\ Buffer BY <1>1 DEF IInv, Tracker
      <4>2. at \in 0..(CurrPos + 2 + 3) /\ CurrPos + 2 \in Nat BY <2>1
      <4>3. at \in DOMAIN e_buffer BY <4>1, <4>2, AheadInBuffer
      <4>. QED BY <4>3 DEF Found, Cell
    <3>2. at = PrevPos \/ ~Hit(PrevPos, at - 1) BY <2>1
    <3>3. PrevPos <= at BY <2>1
    <3>. HIDE DEF at
    <3>. QED BY <2>1, <3>1, <3>2, <3>3, HitNext
  <2>3. \A q, r : Hit(q, r)' = Hit(q, r) BY <1>1, BlockKept
  <2>4. CASE Found
    <3>1. MidPos' = at /\ i' = i + 2 BY <2>4 DEF Filter, PassedOver
    <3>2. ~Hit(PrevPos, at + 1)
      <4>1. at + 1 \in Nat /\ PrevPos <= at + 1 /\ at + 1 # PrevPos /\ (at + 1) - 1 = at BY <2>1
      <4>. HIDE DEF at
      <4>. QED BY <2>1, <2>2, <2>4, <4>1, HitNext
    <3>3. \A j \in PrevPos..(CurrPos - 1) : j < PrevPos + (i + 2) /\ Hit(PrevPos, j) => j <= at
      <4>. SUFFICES ASSUME NEW j \in PrevPos..(CurrPos - 1), j < PrevPos + (i + 2),
                           Hit(PrevPos, j), ~(j <= at)
                    PROVE  FALSE
        OBVIOUS
      <4>1. j = at + 1 BY <2>1
      <4>. QED BY <3>2, <4>1
    <3>4. PrevPos + (i + 2) - 1 = at + 1 /\ at < CurrPos BY <2>1
    <3>. HIDE DEF at
    <3>. QED BY <1>1, <2>1, <2>2, <2>3, <2>4, <3>1, <3>2, <3>3, <3>4 DEF Search
  <2>5. CASE ~Found
    <3>1. MidPos' = MidPos /\ i' = i + 1 BY <2>5 DEF Filter
    <3>2. \A j \in PrevPos..(CurrPos - 1) : j < PrevPos + (i + 1) /\ Hit(PrevPos, j) => j <= MidPos
      <4>. SUFFICES ASSUME NEW j \in PrevPos..(CurrPos - 1), j < PrevPos + (i + 1), Hit(PrevPos, j)
                    PROVE  j <= MidPos
        OBVIOUS
      <4>1. j # at BY <2>2, <2>5
      <4>2. j < at BY <2>1, <4>1
      <4>. QED BY <2>1, <4>2
    <3>3. PrevPos + (i + 1) - 1 = at BY <2>1
    <3>. HIDE DEF at
    <3>. QED BY <1>1, <2>1, <2>2, <2>3, <2>5, <3>1, <3>2, <3>3 DEF Search
  <2>. QED BY <2>4, <2>5
<1>. QED BY <1>1, <1>2, <1>3, <1>4, <1>5, <1>6 DEF Parsed, NulAt

LEMMA PrintEntryParsed == ASSUME IInv, Parsed, PrintEntry PROVE Parsed'
<1>1. pc = "filter" /\ UNCHANGED <<e_buffer, MidPos>> BY DEF PrintEntry
<1>2. Buffer /\ PrevPos \in Nat /\ CurrPos \in Nat /\ MidPos \in Nat /\ CurrPos % 2 = 0
      /\ PrevPos <= CurrPos /\ MidPos <= CurrPos /\ out \in Seq(Seq(Byte \ {0}))
  BY <1>1 DEF IInv, Tracker, TypeOK
<1>3. /\ MidPos = 0 \/ (MidPos \in DOMAIN e_buffer /\ e_buffer[MidPos] = Separator)
      /\ CurrPos <= End /\ CurrPos # End
      /\ PrevPos = 0 \/ PrevPos - 2 \in Ends
      /\ \A q \in PrevPos..(CurrPos - 1) : ~NulAt(e_buffer, q)
      /\ Len(out) = Cardinality(Before(PrevPos))
      /\ NulAt(e_buffer, CurrPos)
      /\ Search /\ LinesAreEntries
  BY <1>1 DEF Parsed
<1>4. End' = End /\ Ends' = Ends /\ \A q : NulAt(e_buffer, q)' = NulAt(e_buffer, q) BY <1>1, BlockKept
<1>5. CASE MidPos < PrevPos
  <2>1. pc' = "thrown" /\ out' = out BY <1>5 DEF PrintEntry
  <2>2. LinesAreEntries' BY <1>1, <1>3, <2>1, LinesKept
  <2>3. DonePrintsAllButLast' BY <2>1 DEF DonePrintsAllButLast
  <2>4. Search' BY <2>1 DEF Search
  <2>. QED BY <1>1, <1>3, <2>1, <2>2, <2>3, <2>4 DEF Parsed
<1>6. CASE ~(MidPos < PrevPos)
  <2>. DEFINE line == Text(PrevPos, MidPos - PrevPos) \o Text(MidPos, CurrPos - MidPos)
  <2>1. pc' = "scan" /\ PrevPos' = CurrPos + 2 /\ CurrPos' = CurrPos + 2 /\ out' = Append(out, line)
    BY <1>6 DEF PrintEntry, NextEntry, NextUnit
  <2>2. End \in Nat /\ End % 2 = 0 /\ CurrPos < End /\ CurrPos + 2 <= End
    <3>1. End \in Nat /\ End % 2 = 0 BY <1>2, EndOfBlock
    <3>2. CurrPos < End BY <1>2, <1>3, <3>1
    <3>. QED BY <1>2, <3>1, <3>2
  <2>3. PICK s \in Nat, c \in Nat : s = PrevPos /\ c = CurrPos BY <1>2
  <2>4. /\ c \in Ends /\ StartOf(c) = s
        /\ Nth(Ends, Cardinality(Before(s)) + 1) = c
        /\ Cardinality(Before(s)) + 1 < Cardinality(Ends)
        /\ Cardinality(Before(c + 2)) = Cardinality(Before(s)) + 1
    BY <1>2, <1>3, <2>2, <2>3, EntryAt
  <2>13. line = Shown(c)
    <3>1. i \in Nat /\ i >= CurrPos - PrevPos BY <1>1 DEF PrintEntry, IInv, Tracker
    <3>2. /\ \A j \in PrevPos..(CurrPos - 1) : Hit(PrevPos, j) => j <= MidPos
          /\ MidPos = 0 \/ (MidPos < CurrPos /\ Hit(PrevPos, MidPos))
      <4>1. /\ \A j \in PrevPos..(CurrPos - 1) : j < PrevPos + i /\ Hit(PrevPos, j) => j <= MidPos
            /\ PrevPos <= MidPos => MidPos = 0 \/ (MidPos < CurrPos /\ Hit(PrevPos, MidPos))
        BY <1>1, <1>3 DEF Search
      <4>2. \A j \in PrevPos..(CurrPos - 1) : j < PrevPos + i BY <1>2, <3>1
      <4>. QED BY <1>2, <1>6, <4>1, <4>2
    <3>3. PICK mid \in Nat : mid = MidPos BY <1>2
    <3>4. s <= mid BY <1>2, <1>6, <2>3, <3>3
    <3>5. Cut(c) = mid BY <2>3, <2>4, <3>2, <3>3, <3>4, CutIs
    <3>. QED BY <2>3, <2>4, <3>3, <3>5 DEF Shown
  <2>5. Latin(c) => line = Entry(c)
    <3>. SUFFICES ASSUME Latin(c) PROVE line = Entry(c) OBVIOUS
    <3>1. \A q \in s..(c - 1) : q % 2 = 1 => e_buffer[q] = 0 BY <2>4 DEF Latin
    <3>2. s % 2 = 0
      <4>1. s - 2 \in Ends => (s - 2) % 2 = 0 BY DEF Ends, NulAt
      <4>. QED BY <1>3, <2>3, <4>1
    <3>3. PICK mid \in Nat : mid = MidPos BY <1>2
    <3>4. /\ s <= mid /\ mid <= c /\ c % 2 = 0 /\ c <= End
          /\ mid = 0 \/ e_buffer[mid] = Separator
          /\ \A q \in s..(c - 1) : ~NulAt(e_buffer, q)
      BY <1>2, <1>3, <1>6, <2>3, <3>3
    <3>5. Text(s, mid - s) \o Text(mid, c - mid)
            = [k \in 1..((c - s) \div 2) |-> e_buffer[s + 2 * (k - 1)]]
      BY <1>2, <3>1, <3>2, <3>4, CutInTwo
    <3>. QED BY <2>3, <2>4, <3>3, <3>5 DEF Entry
  <2>. HIDE DEF line
  <2>6. Len(out) \in Nat /\ Len(out') = Len(out) + 1 /\ out'[Len(out) + 1] = line
        /\ \A n \in 1..Len(out) : out'[n] = out[n]
    BY <1>2, <2>1
  <2>7. LinesAreEntries'
    <3>1. ASSUME NEW n \in 1..Len(out'), NEW q, q = Nth(Ends, n)
          PROVE  n < Cardinality(Ends) /\ out'[n] = Shown(q) /\ (Latin(q) => Shown(q) = Entry(q))
      <4>1. CASE n \in 1..Len(out) BY <1>3, <2>6, <3>1, <4>1 DEF LinesAreEntries
      <4>2. CASE n = Len(out) + 1
        <5>1. n = Cardinality(Before(s)) + 1 BY <1>3, <2>3, <4>2
        <5>2. q = c /\ n < Cardinality(Ends) BY <2>4, <3>1, <5>1
        <5>. QED BY <2>5, <2>6, <2>13, <4>2, <5>2
      <4>. QED BY <2>6, <3>1, <4>1, <4>2
    <3>2. ASSUME NEW n \in 1..Len(out')
          PROVE  LET p == Nth(Ends, n) IN
                 (n < Cardinality(Ends) /\ out[n] = Shown(p) /\ (Latin(p) => Shown(p) = Entry(p)))'
      <4>1. Nth(Ends, n)' = Nth(Ends, n) BY <1>4 DEF Nth
      <4>2. PICK q : q = Nth(Ends, n) /\ q = Nth(Ends, n)' BY <4>1
      <4>3. Latin(q)' = Latin(q) /\ Entry(q)' = Entry(q) /\ Shown(q)' = Shown(q) BY <1>1, BlockKept
      <4>. QED BY <1>4, <3>1, <3>2, <4>2, <4>3
    <3>. QED BY <3>2 DEF LinesAreEntries
  <2>8. DonePrintsAllButLast' BY <2>1 DEF DonePrintsAllButLast
  <2>9. CurrPos' <= End' BY <1>2, <1>4, <2>1, <2>2
  <2>10. PrevPos' - 2 \in Ends' BY <1>4, <2>1, <2>3, <2>4
  <2>11. Len(out') = Cardinality(Before(PrevPos))'
    <3>1. Before(PrevPos)' = Before(c + 2) BY <1>4, <2>1, <2>3 DEF Before
    <3>. QED BY <1>3, <2>3, <2>4, <2>6, <3>1
  <2>12. \A q \in PrevPos'..(CurrPos' - 1) : FALSE BY <1>2, <2>1
  <2>14. Search' BY <1>1, <1>2, <2>1 DEF Search
  <2>. QED BY <1>1, <1>3, <2>1, <2>14, <2>7, <2>8, <2>9, <2>10, <2>11, <2>12 DEF Parsed
<1>. QED BY <1>5, <1>6

LEMMA NextParsed == IInv /\ Parsed /\ [Next]_vars => Parsed'
<1>1. ASSUME Parsed, UNCHANGED vars PROVE Parsed'
  <2>1. UNCHANGED <<e_buffer, MaxLen, PrevPos, CurrPos, MidPos, i, out, pc>> BY <1>1 DEF vars
  <2>2. LinesAreEntries' BY <1>1, <2>1, LinesKept DEF Parsed
  <2>3. UNCHANGED DonePrintsAllButLast BY <2>1, BlockKept DEF DonePrintsAllButLast
  <2>4. End' = End /\ Ends' = Ends /\ Before(PrevPos)' = Before(PrevPos)
        /\ \A q : NulAt(e_buffer, q)' = NulAt(e_buffer, q)
    BY <2>1, BlockKept DEF Before
  <2>5. Search'
    <3>1. \A q, r : Hit(q, r)' = Hit(q, r) BY <2>1, BlockKept
    <3>. QED BY <1>1, <2>1, <3>1 DEF Parsed, Search
  <2>. QED BY <1>1, <2>1, <2>2, <2>3, <2>4, <2>5 DEF Parsed, NulAt
<1>2. Reset => Init' BY DEF Reset, Init
<1>3. Reset => Parsed' BY <1>2, InitParsed, PTL
<1>. QED
  BY <1>1, <1>3, LastEntryParsed, EntryEndParsed, SlideParsed, FilterParsed, PrintEntryParsed
  DEF Next, Scan

LEMMA ParsedAlways == Spec => []Parsed
<1>1. Spec => [](IInv /\ Parsed) BY InitIInv, NextIInv, InitParsed, NextParsed, PTL DEF Spec
<1>. QED BY <1>1, PTL

(* The lines printed are the first entries of the block, each as it looks   *)
(* when it is cut at the last byte the search takes for an "=": in full, if *)
(* its characters are single bytes (envars.h:124-150, 171-175).             *)
THEOREM PrintsEntries == Spec => []LinesAreEntries
<1>1. Parsed => LinesAreEntries BY DEF Parsed
<1>. QED BY <1>1, ParsedAlways, PTL

(* A block whose end is reached has been printed but for its last entry     *)
(* (envars.h:41-49).                                                        *)
THEOREM PrintsAllButLast == Spec => []DonePrintsAllButLast
<1>1. Parsed => DonePrintsAllButLast BY DEF Parsed
<1>. QED BY <1>1, ParsedAlways, PTL
=============================================================================
