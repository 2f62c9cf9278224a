-------------------------- MODULE EnvarsScanProofs --------------------------
(***************************************************************************)
(* EnvarsScan proved for any number of processes with environments of any  *)
(* size, whatever of them can be read, and any page size.                  *)
(***************************************************************************)
EXTENDS EnvarsScan, WellFoundedInduction, TLAPS

N == Len(procs)

Line == [process : DOMAIN procs, Params : Someone, EnvironmentSize : Nat,
         Environment : Someone, lines : Seq(Nat \ {0})]

(* The size of the environment of process q is read when q is visited.      *)
TellsSize(q) == procs[q].Peb /\ procs[q].switches /\ procs[q].params /\ procs[q].size

(* What the three words hold before process p is visited: something of an   *)
(* earlier process or zero.  The size is that of the environment pointed to *)
(* if both can be read in this context.                                     *)
Words ==
  pc = "process" =>
    /\ RtlProcessParams < p /\ Environment < p
    /\ context = ContextAt(p - 1)
    /\ EnvSize = 0 => \A q \in 1..(p - 1) : ~TellsSize(q)
    /\ EnvSize # 0 => \E q \in 1..(p - 1) : EnvSize = Len(Block(q)) /\ procs[q].size
    /\ Environment # 0 /\ Environment = context /\ procs[context].size => EnvSize = Len(Block(context))

IInv ==
  /\ TypeOK /\ Words
  /\ EntriesOfTheContext /\ ReadableShownInFull /\ NullOnlyBeforeAnySize /\ OverrunOnlyAtAnothersSize

-----------------------------------------------------------------------------
(* Numbers                                                                  *)

LEMMA Least ==
  ASSUME NEW S \in SUBSET Nat, S # {}
  PROVE  Min(S) \in S /\ \A n \in S : Min(S) <= n
<1>1. PICK z \in S : \A y \in S : ~(<<y, z>> \in OpToRel(<, Nat))
  BY NatLessThanWellFounded, WFMin
<1>2. \A y \in S : ~(y < z) BY <1>1 DEF OpToRel
<1>3. z \in S /\ \A y \in S : z <= y BY <1>2
<1>. QED BY <1>3 DEF Min

LEMMA Pages ==
  ASSUME NEW size \in Nat
  PROVE  Allocated(size) \in Nat /\ Allocated(size) >= size
<1>1. PageUnits \in Nat \ {0} BY EnvarsAssumption
<1>2. ((size + PageUnits - 1) \div PageUnits) * PageUnits >= size BY <1>1
<1>3. (size + PageUnits - 1) \div PageUnits \in Int BY <1>1
<1>. QED BY <1>1, <1>2, <1>3 DEF Allocated

-----------------------------------------------------------------------------
(* Processes and their environments                                         *)

LEMMA ProcessType ==
  ASSUME TypeOK
  PROVE  /\ N \in Nat /\ DOMAIN procs = 1..N
         /\ \A q \in 1..N : procs[q] \in Process
<1>1. procs \in Seq(Process) BY EnvarsAssumption DEF TypeOK
<1>. QED BY <1>1 DEF N

(* The n-th entry is at the n-th odd place; every other unit is zero.       *)
LEMMA BlockParts ==
  ASSUME TypeOK, NEW q \in 1..N
  PROVE  /\ procs[q].entries \in Nat /\ Len(Block(q)) \in Nat /\ Len(Block(q)) >= 2
         /\ Len(Block(q)) = IF procs[q].entries = 0 THEN 2 ELSE 2 * procs[q].entries + 1
         /\ \A k \in 1..Len(Block(q)) :
              Block(q)[k] = IF k % 2 = 1 /\ k < 2 * procs[q].entries THEN (k + 1) \div 2 ELSE 0
<1>. DEFINE n == procs[q].entries
<1>1. n \in Nat BY ProcessType DEF Process
<1>2. CASE n = 0
  <2>1. Block(q) = <<0, 0>> BY <1>2 DEF Block, NUL
  <2>2. Len(Block(q)) = 2 /\ \A k \in 1..2 : Block(q)[k] = 0 BY <2>1
  <2>. QED BY <1>2, <2>2
<1>3. CASE n # 0
  <2>. DEFINE B == [k \in 1..(2 * n + 1) |-> IF k % 2 = 1 /\ k < 2 * n THEN (k + 1) \div 2 ELSE NUL]
  <2>1. Block(q) = B BY <1>3 DEF Block
  <2>2. 2 * n + 1 \in Nat BY <1>1
  <2>3. B \in Seq(Int) /\ Len(B) = 2 * n + 1
    <3>1. \A k \in 1..(2 * n + 1) : (k + 1) \div 2 \in Int BY <1>1
    <3>. QED BY <2>2, <3>1 DEF NUL
  <2>4. \A k \in 1..(2 * n + 1) : B[k] = IF k % 2 = 1 /\ k < 2 * n THEN (k + 1) \div 2 ELSE 0
    BY DEF NUL
  <2>. HIDE DEF B
  <2>5. 2 * n + 1 >= 2 BY <1>1, <1>3
  <2>. QED BY <1>1, <1>3, <2>1, <2>2, <2>3, <2>4, <2>5
<1>. QED BY <1>1, <1>2, <1>3

(* How much of the block at env is read in context c.                       *)
Mapped(env, c) == IF env # 0 /\ env = c THEN procs[env].have ELSE 0

LEMMA BufferParts ==
  ASSUME TypeOK, NEW env \in Someone, NEW size \in Nat, NEW c
  PROVE  /\ Len(Buffer(env, size, c)) = Allocated(size)
         /\ \A k \in 1..Allocated(size) :
              Buffer(env, size, c)[k] =
                IF k <= Mapped(env, c) /\ k <= size /\ k <= Len(Block(env)) THEN Block(env)[k] ELSE 0
<1>. DEFINE unit(k) == IF k <= Mapped(env, c) /\ k <= size /\ k <= Len(Block(env)) THEN Block(env)[k] ELSE NUL
<1>1. Buffer(env, size, c) = [k \in 1..Allocated(size) |-> unit(k)] BY DEF Buffer, Mapped
<1>2. Allocated(size) \in Nat BY Pages
<1>3. [k \in 1..Allocated(size) |-> unit(k)] \in Seq({unit(k) : k \in 1..Allocated(size)}) BY <1>2
<1>. QED BY <1>1, <1>2, <1>3 DEF NUL

LEMMA Parity ==
  ASSUME NEW k \in Nat
  PROVE  /\ (2 * k) % 2 = 0 /\ (2 * k + 1) % 2 = 1 /\ (2 * k + 2) \div 2 = k + 1
         /\ k % 2 \in {0, 1} /\ (k % 2 = 1 <=> (k + 1) % 2 = 0) /\ 2 * (k \div 2) <= k /\ k < 2 * (k \div 2) + 2
         /\ k \div 2 \in Nat /\ (k + 1) \div 2 \in Nat /\ (k > 0 => (k + 1) \div 2 > 0)
OBVIOUS

(* In a buffer only the odd places of an environment's entries hold         *)
(* something, and only if that environment is mapped.                       *)
LEMMA Units ==
  ASSUME TypeOK, NEW env \in Someone, NEW size \in Nat, NEW c, NEW k \in 1..Allocated(size),
         Buffer(env, size, c)[k] # 0
  PROVE  /\ env \in 1..N /\ env = c /\ k % 2 = 1 /\ k < 2 * procs[env].entries
         /\ Buffer(env, size, c)[k] = (k + 1) \div 2
<1>1. k \in Nat /\ k > 0 BY Pages
<1>2. k <= Mapped(env, c) /\ k <= Len(Block(env)) /\ Buffer(env, size, c)[k] = Block(env)[k]
  BY BufferParts
<1>3. env # 0 /\ env = c BY <1>1, <1>2 DEF Mapped
<1>4. env \in 1..N BY <1>3, ProcessType DEF Someone
<1>5. Len(Block(env)) \in Nat BY <1>4, BlockParts
<1>6. k \in 1..Len(Block(env)) BY <1>1, <1>2, <1>5
<1>. QED BY <1>2, <1>3, <1>4, <1>6, BlockParts

LEMMA EndParts ==
  ASSUME TypeOK, NEW env \in Someone, NEW size \in Nat, NEW c, NEW buf,
         buf = Buffer(env, size, c), Ends(buf) # {}
  PROVE  /\ End(buf) \in Nat /\ End(buf) >= 1 /\ End(buf) + 1 <= Allocated(size)
         /\ buf[End(buf)] = 0 /\ buf[End(buf) + 1] = 0
         /\ \A k \in 1..(End(buf) - 1) : buf[k] # 0 \/ buf[k + 1] # 0
<1>1. Len(buf) = Allocated(size) /\ Allocated(size) \in Nat BY BufferParts, Pages
<1>2. Ends(buf) \in SUBSET Nat BY <1>1 DEF Ends
<1>3. End(buf) \in Ends(buf) /\ \A k \in Ends(buf) : End(buf) <= k BY <1>2, Least DEF End
<1>4. \A k \in 1..(End(buf) - 1) : k \notin Ends(buf) BY <1>1, <1>2, <1>3
<1>5. /\ End(buf) \in 1..(Allocated(size) - 1) /\ buf[End(buf)] = 0 /\ buf[End(buf) + 1] = 0
  BY <1>1, <1>3 DEF Ends, NUL
<1>6. ASSUME NEW k \in 1..(End(buf) - 1) PROVE buf[k] # 0 \/ buf[k + 1] # 0
  <2>1. k \in 1..(Len(buf) - 1) BY <1>1, <1>5
  <2>. QED BY <1>4, <2>1 DEF Ends, NUL
<1>. QED BY <1>1, <1>5, <1>6

(* What is printed: the first entries of the environment that is mapped.    *)
LEMMA FormatterParts ==
  ASSUME TypeOK, NEW env \in Someone, NEW size \in Nat, NEW c, NEW buf,
         buf = Buffer(env, size, c), Ends(buf) # {}
  PROVE  /\ Formatter(buf) \in Seq(Nat \ {0})
         /\ Len(Formatter(buf)) = IF End(buf) \div 2 >= 1 THEN End(buf) \div 2 - 1 ELSE 0
         /\ Formatter(buf) # <<>> =>
              /\ env \in 1..N /\ env = c /\ Len(Formatter(buf)) < procs[env].entries
              /\ \A k \in DOMAIN Formatter(buf) : Formatter(buf)[k] = k
<1>. DEFINE m == End(buf) \div 2 - 1  F == [k \in 1..m |-> buf[2 * k - 1]]
<1>1. /\ End(buf) \in Nat /\ End(buf) >= 1 /\ End(buf) + 1 <= Allocated(size)
      /\ \A k \in 1..(End(buf) - 1) : buf[k] # 0 \/ buf[k + 1] # 0
      /\ Allocated(size) \in Nat
  BY EndParts, Pages
<1>2. m \in Int /\ 2 * m + 2 <= End(buf) BY <1>1
<1>. HIDE DEF m
<1>3. ASSUME NEW k \in 1..(m + 1)
      PROVE  env \in 1..N /\ env = c /\ 2 * k - 1 < 2 * procs[env].entries /\ buf[2 * k - 1] = k
  <2>1. 2 * k - 1 \in 1..(End(buf) - 1) /\ 2 * k \in 1..Allocated(size) /\ 2 * k - 1 \in 1..Allocated(size)
    BY <1>1, <1>2
  <2>2. buf[2 * k] = 0
    <3>1. (2 * k) % 2 = 0 BY <1>2, Parity
    <3>. QED BY <2>1, <3>1, Units
  <2>3. buf[2 * k - 1] # 0
    <3>1. (2 * k - 1) + 1 = 2 * k BY <1>2
    <3>. QED BY <1>1, <2>1, <2>2, <3>1
  <2>4. ((2 * k - 1) + 1) \div 2 = k BY <1>2
  <2>. QED BY <2>1, <2>3, <2>4, Units
<1>4. \A k \in 1..m : k \in 1..(m + 1) /\ k \in Nat \ {0} BY <1>2
<1>5. Formatter(buf) = F BY DEF Formatter, m
<1>6. F = [k \in 1..m |-> k] BY <1>3, <1>4
<1>7. F \in Seq(Nat \ {0}) /\ Len(F) = (IF m >= 0 THEN m ELSE 0) /\ DOMAIN F = 1..m
  <2>1. CASE m >= 0
    <3>1. m \in Nat BY <1>2, <2>1
    <3>. QED BY <1>4, <1>6, <2>1, <3>1
  <2>2. CASE ~(m >= 0)
    <3>1. 1..m = {} BY <1>2, <2>2
    <3>2. F = <<>> BY <3>1
    <3>3. DOMAIN F = 1..m OBVIOUS
    <3>. HIDE DEF F
    <3>4. F \in Seq(Nat \ {0}) /\ Len(F) = 0 BY <3>2
    <3>. QED BY <2>2, <3>3, <3>4
  <2>. QED BY <2>1, <2>2
<1>8. ASSUME F # <<>> PROVE env \in 1..N /\ env = c /\ Len(F) < procs[env].entries
  <2>1. m >= 1
    <3>1. m < 1 => 1..m = {} BY <1>2
    <3>2. 1..m = {} => F = <<>> OBVIOUS
    <3>. QED BY <1>2, <1>8, <3>1, <3>2
  <2>2. m + 1 \in 1..(m + 1) BY <1>2, <2>1
  <2>3. env \in 1..N /\ env = c /\ 2 * (m + 1) - 1 < 2 * procs[env].entries BY <1>3, <2>2
  <2>4. procs[env].entries \in Nat BY <2>3, ProcessType DEF Process
  <2>. QED BY <1>2, <1>7, <2>1, <2>3, <2>4
<1>9. \A k \in DOMAIN F : F[k] = k BY <1>6, <1>7
<1>10. End(buf) \div 2 >= 1 <=> m >= 0 BY <1>1 DEF m
<1>11. m = End(buf) \div 2 - 1 BY DEF m
<1>. HIDE DEF F
<1>. QED BY <1>5, <1>7, <1>8, <1>9, <1>10, <1>11

(* A size is no smaller than that of an empty block: a buffer of it that    *)
(* nothing was read into is at its end at once, and so is one that holds    *)
(* the block of that size, or has room for two units more.                  *)
LEMMA EndsInside ==
  ASSUME TypeOK, NEW env \in Someone, NEW size \in Nat, size >= 2, NEW c, NEW buf,
         buf = Buffer(env, size, c)
  PROVE  \/ Ends(buf) # {}
         \/ /\ env \in 1..N /\ env = c /\ size < Len(Block(env)) /\ Allocated(size) < size + 2
<1>. SUFFICES ASSUME Ends(buf) = {}
              PROVE  /\ env \in 1..N /\ env = c /\ size < Len(Block(env)) /\ Allocated(size) < size + 2
  OBVIOUS
<1>1. Len(buf) = Allocated(size) /\ Allocated(size) \in Nat /\ Allocated(size) >= size
  BY BufferParts, Pages
<1>2. ASSUME NEW k \in Nat \ {0}, k + 1 <= Allocated(size) PROVE buf[k] # 0 \/ buf[k + 1] # 0
  <2>1. k \in 1..(Len(buf) - 1) BY <1>1, <1>2
  <2>. QED BY <2>1 DEF Ends, NUL
<1>3. env \in 1..N /\ env = c
  <2>1. 1 + 1 <= Allocated(size) /\ 1 \in 1..Allocated(size) /\ 2 \in 1..Allocated(size) BY <1>1
  <2>2. buf[1] # 0 \/ buf[1 + 1] # 0 BY <1>2, <2>1
  <2>. QED BY <2>1, <2>2, Units
<1>4. size < Len(Block(env))
  <2>. SUFFICES ASSUME size >= Len(Block(env)) PROVE FALSE
    <3>1. Len(Block(env)) \in Nat BY <1>3, BlockParts
    <3>. QED BY <3>1
  <2>. DEFINE n == procs[env].entries  l == Len(Block(env))
  <2>1. n \in Nat /\ l = IF n = 0 THEN 2 ELSE 2 * n + 1 BY <1>3, BlockParts
  <2>2. l - 1 \in 1..Allocated(size) /\ l \in 1..Allocated(size) /\ l - 1 >= 2 * n /\ l \in Nat /\ l >= 2
    BY <1>1, <2>1
  <2>3. buf[l - 1] # 0 \/ buf[l] # 0
    <3>. HIDE DEF l, n
    <3>1. (l - 1) + 1 = l /\ l - 1 \in Nat \ {0} BY <2>2
    <3>. QED BY <1>1, <1>2, <2>2, <3>1
  <2>. QED BY <2>1, <2>2, <2>3, Units
<1>5. Allocated(size) < size + 2
  <2>. SUFFICES ASSUME Allocated(size) >= size + 2 PROVE FALSE BY <1>1
  <2>1. size + 1 \in 1..Allocated(size) /\ size + 2 \in 1..Allocated(size) BY <1>1
  <2>2. buf[size + 1] = 0 /\ buf[size + 2] = 0 BY <2>1, BufferParts
  <2>3. (size + 1) + 1 = size + 2 /\ size + 1 \in Nat \ {0} OBVIOUS
  <2>. QED BY <1>1, <1>2, <2>1, <2>2, <2>3
<1>. QED BY <1>3, <1>4, <1>5

(* All of an environment that was read with its own size is printed, but    *)
(* for the last entry.                                                      *)
LEMMA WholeBlock ==
  ASSUME TypeOK, NEW env \in 1..N, NEW buf, procs[env].have >= Len(Block(env)),
         buf = Buffer(env, Len(Block(env)), env)
  PROVE  /\ Ends(buf) # {}
         /\ Len(Formatter(buf)) = IF procs[env].entries = 0 THEN 0 ELSE procs[env].entries - 1
<1>. DEFINE n == procs[env].entries  l == Len(Block(env))  e == End(buf)  room == Allocated(l)
<1>1. n \in Nat /\ l = IF n = 0 THEN 2 ELSE 2 * n + 1 BY BlockParts
<1>2. env \in Someone /\ l \in Nat /\ env # 0 /\ buf = Buffer(env, l, env)
  BY <1>1, ProcessType DEF Someone
<1>3. Ends(buf) # {}
  <2>1. l >= 2 /\ ~(l < l) BY <1>1
  <2>. HIDE DEF l
  <2>2. Ends(buf) # {} \/ l < Len(Block(env)) BY <1>2, <2>1, EndsInside
  <2>. QED BY <2>1, <2>2 DEF l
<1>4. room \in Nat /\ room >= l BY <1>2, Pages
<1>5. \A k \in 1..l : buf[k] = Block(env)[k]
  <2>. TAKE k \in 1..l
  <2>1. k \in 1..room BY <1>2, <1>4
  <2>2. k <= Mapped(env, env) /\ k <= l
    <3>1. procs[env].have \in Nat BY ProcessType DEF Process
    <3>. QED BY <1>2, <3>1 DEF Mapped
  <2>. QED BY <1>2, <2>1, <2>2, BufferParts
<1>. HIDE DEF l
<1>6. /\ e \in Nat /\ e >= 1 /\ e + 1 <= room /\ buf[e] = 0 /\ buf[e + 1] = 0
      /\ \A k \in 1..(e - 1) : buf[k] # 0 \/ buf[k + 1] # 0
  BY <1>2, <1>3, EndParts
<1>7. Len(Formatter(buf)) = IF e \div 2 >= 1 THEN e \div 2 - 1 ELSE 0 BY <1>2, <1>3, FormatterParts
<1>8. \A k \in 1..l : buf[k] = IF k % 2 = 1 /\ k < 2 * n THEN (k + 1) \div 2 ELSE 0
  BY <1>5, BlockParts DEF l
<1>. HIDE DEF n, e, room
<1>9. CASE n = 0
  <2>1. 1 \in 1..l /\ 2 \in 1..l /\ ~(1 < 2 * n) /\ ~(2 < 2 * n) BY <1>1, <1>9
  <2>2. buf[1] = 0 /\ buf[1 + 1] = 0 BY <1>8, <2>1
  <2>3. ~(1 \in 1..(e - 1)) BY <1>6, <2>2
  <2>4. e = 1 BY <1>6, <2>3
  <2>5. e \div 2 = 0 BY <2>4
  <2>. QED BY <1>3, <1>7, <1>9, <2>5 DEF n
<1>10. CASE n # 0
  <2>1. l = 2 * n + 1 /\ n \in Nat \ {0} BY <1>1, <1>10
  <2>2. ASSUME NEW h \in Int, 2 * h + 1 < 2 * n, h >= 0 PROVE buf[2 * h + 1] # 0
    <3>1. 2 * h + 1 \in 1..l /\ (2 * h + 1) % 2 = 1 BY <2>1, <2>2
    <3>2. ((2 * h + 1) + 1) \div 2 = h + 1 BY <2>2
    <3>. QED BY <1>8, <2>2, <3>1, <3>2
  <2>3. e >= 2 * n
    <3>. SUFFICES ASSUME e < 2 * n PROVE FALSE BY <1>6, <2>1
    <3>1. CASE e % 2 = 1
      <4>1. e = 2 * (e \div 2) + 1 /\ e \div 2 \in Int /\ e \div 2 >= 0 BY <1>6, <3>1
      <4>. QED BY <1>6, <2>2, <4>1
    <3>2. CASE e % 2 # 1
      <4>1. e = 2 * (e \div 2) /\ e \div 2 \in Int /\ e \div 2 >= 0 BY <1>6, <3>2
      <4>. DEFINE h == e \div 2
      <4>. HIDE DEF h
      <4>2. e = 2 * h /\ h \in Int /\ h >= 0 BY <4>1 DEF h
      <4>3. 2 * h + 1 < 2 * n BY <2>1, <4>2
      <4>. QED BY <1>6, <2>2, <4>2, <4>3
    <3>. QED BY <3>1, <3>2
  <2>4. e <= 2 * n
    <3>1. 2 * n \in 1..l /\ 2 * n + 1 \in 1..l /\ ~(2 * n < 2 * n) /\ ~(2 * n + 1 < 2 * n) BY <2>1
    <3>2. buf[2 * n] = 0 /\ buf[2 * n + 1] = 0 BY <1>8, <3>1
    <3>3. ~(2 * n \in 1..(e - 1)) BY <1>6, <3>2
    <3>. QED BY <1>6, <2>1, <3>3
  <2>5. e = 2 * n BY <1>6, <2>1, <2>3, <2>4
  <2>6. e \div 2 = n BY <2>1, <2>5
  <2>. QED BY <1>3, <1>7, <2>1, <2>6 DEF n
<1>. QED BY <1>9, <1>10

-----------------------------------------------------------------------------
(* The context                                                              *)

LEMMA Largest ==
  ASSUME NEW S, NEW m \in S, \A k \in S : k \in Int /\ k <= m, m \in Int
  PROVE  Max(S) = m
<1>1. \A x \in S : x >= m => x = m OBVIOUS
<1>2. \A y \in S : m >= y OBVIOUS
<1>. QED BY <1>1, <1>2 DEF Max

(* The context after process p is p if it could be switched to and had a    *)
(* PEB, and otherwise what it was before.                                   *)
LEMMA ContextStep ==
  ASSUME TypeOK, NEW q \in 1..N
  PROVE  ContextAt(q) = IF procs[q].Peb /\ procs[q].switches THEN q ELSE ContextAt(q - 1)
<1>. DEFINE S(k) == {r \in 1..k : procs[r].Peb /\ procs[r].switches}
<1>1. q \in Nat \ {0} BY ProcessType
<1>2. CASE procs[q].Peb /\ procs[q].switches
  <2>1. q \in S(q) /\ \A k \in S(q) : k \in Int /\ k <= q BY <1>1, <1>2
  <2>. HIDE DEF S
  <2>2. Max(S(q)) = q BY <1>1, <2>1, Largest
  <2>3. ContextAt(q) = Max(S(q)) BY <2>1 DEF ContextAt, S
  <2>. QED BY <1>2, <2>2, <2>3
<1>3. CASE ~(procs[q].Peb /\ procs[q].switches)
  <2>1. \A k : k \in 1..q <=> k \in 1..(q - 1) \/ k = q BY <1>1
  <2>2. S(q) = S(q - 1) BY <1>3, <2>1
  <2>3. \A k : ContextAt(k) = IF S(k) = {} THEN origin ELSE Max(S(k)) BY DEF ContextAt
  <2>. HIDE DEF S
  <2>. QED BY <1>3, <2>2, <2>3
<1>. QED BY <1>2, <1>3

LEMMA ContextKept ==
  ASSUME UNCHANGED <<procs, origin>>, NEW q
  PROVE  ContextAt(q)' = ContextAt(q)
BY DEF ContextAt

-----------------------------------------------------------------------------
(* IInv is inductive.                                                       *)

LEMMA InitIInv == Init => IInv
<1>. SUFFICES ASSUME Init PROVE IInv OBVIOUS
<1>1. procs \in Targets /\ procs \in Seq(Process) /\ Len(procs) \in Nat BY EnvarsAssumption DEF Init
<1>2. rows = <<>> /\ DOMAIN rows = {} /\ rows \in Seq(Line) /\ pc = "process" /\ p = 1 /\ context = origin
      /\ RtlProcessParams = 0 /\ EnvSize = 0 /\ Environment = 0
  BY DEF Init
<1>3. TypeOK
  <2>1. p \in 1..(Len(procs) + 1) BY <1>1, <1>2
  <2>2. {origin, context, RtlProcessParams, Environment} \subseteq Someone BY <1>2 DEF Init, Someone
  <2>. QED BY <1>1, <1>2, <2>1, <2>2 DEF TypeOK, Line
<1>4. ContextAt(0) = origin
  <2>1. {r \in 1..0 : procs[r].Peb /\ procs[r].switches} = {} OBVIOUS
  <2>. QED BY <2>1 DEF ContextAt
<1>5. Words BY <1>2, <1>4 DEF Words
<1>. QED
  BY <1>2, <1>3, <1>5
  DEF IInv, EntriesOfTheContext, ReadableShownInFull, NullOnlyBeforeAnySize, OverrunOnlyAtAnothersSize

(* What the words are after they were read for process p.                   *)
LEMMA ReadWordsParts ==
  ASSUME IInv, ReadWords, UNCHANGED <<procs, origin>>
  PROVE  /\ N \in Nat /\ p \in 1..N /\ p \in Nat
         /\ {context', RtlProcessParams', Environment'} \subseteq Someone
         /\ EnvSize' \in {0} \cup {Len(Block(q)) : q \in DOMAIN procs}
         /\ EnvSize' \in Nat /\ (EnvSize' # 0 => EnvSize' >= 2)
         /\ RtlProcessParams' <= p /\ Environment' <= p
         /\ context' = ContextAt(p)
         /\ EnvSize' = 0 => \A q \in 1..p : ~TellsSize(q)
         /\ EnvSize' # 0 => \E q \in 1..p : EnvSize' = Len(Block(q)) /\ procs[q].size
         /\ EnvSize' # 0 => \/ \E q \in 1..(p - 1) : EnvSize' = Len(Block(q)) /\ procs[q].size
                            \/ context' \in 1..N /\ EnvSize' = Len(Block(context'))
         /\ Environment' # 0 /\ Environment' = context' /\ procs[context'].size => EnvSize' = Len(Block(context'))
         /\ Readable(p) => /\ RtlProcessParams' = p /\ Environment' = p /\ context' = p
                           /\ EnvSize' = Len(Block(p))
<1>. DEFINE params == RtlProcessParams'  c == context'
<1>1. /\ TypeOK /\ p \in 1..(N + 1) /\ p <= N /\ pc = "process" /\ procs[p].Peb
      /\ {context, RtlProcessParams, Environment} \subseteq Someone
      /\ EnvSize \in {0} \cup {Len(Block(q)) : q \in DOMAIN procs}
      /\ c = Switched
      /\ params = ReadVirtual(Word(p, c, procs[p].params, p), RtlProcessParams)
      /\ EnvSize' = ReadVirtual(Word(params, c, procs[params].size, Len(Block(params))), EnvSize)
      /\ Environment' = ReadVirtual(Word(params, c, procs[params].env, params), Environment)
  BY DEF IInv, TypeOK, ReadWords, N
<1>2. N \in Nat /\ DOMAIN procs = 1..N /\ p \in 1..N /\ p \in Nat /\ p # 0 /\ Someone \subseteq 0..N
  BY <1>1, ProcessType DEF Someone
<1>. HIDE DEF c, params
<1>3. /\ RtlProcessParams < p /\ Environment < p /\ context = ContextAt(p - 1)
      /\ EnvSize = 0 => \A q \in 1..(p - 1) : ~TellsSize(q)
      /\ EnvSize # 0 => \E q \in 1..(p - 1) : EnvSize = Len(Block(q)) /\ procs[q].size
      /\ Environment # 0 /\ Environment = context /\ procs[context].size => EnvSize = Len(Block(context))
  BY <1>1 DEF IInv, Words
<1>4. c \in Someone /\ c = ContextAt(p) /\ (procs[p].switches => c = p) /\ (c = p \/ c = context)
  BY <1>1, <1>2, <1>3, ContextStep DEF Switched, Someone
<1>5. \A q \in 1..N : Len(Block(q)) \in Nat /\ Len(Block(q)) >= 2 /\ Len(Block(q)) # Fault /\ q # Fault
  <2>1. ASSUME NEW q \in 1..N PROVE Len(Block(q)) \in Nat /\ Len(Block(q)) >= 2 BY <1>1, BlockParts
  <2>. QED BY <1>2, <2>1, FaultAssumption
<1>6. \/ params = p /\ c = p /\ procs[p].params
      \/ params = RtlProcessParams /\ ~(c = p /\ procs[p].params)
  BY <1>1, <1>2, <1>5 DEF Word, ReadVirtual
<1>7. params \in Someone /\ params <= p
  BY <1>1, <1>2, <1>3, <1>6 DEF Someone
<1>8. params # 0 => params \in 1..N BY <1>2, <1>7
<1>9. \/ params \in 1..N /\ params = c /\ procs[params].size /\ EnvSize' = Len(Block(params))
      \/ EnvSize' = EnvSize /\ ~(params # 0 /\ params = c /\ procs[params].size)
  BY <1>1, <1>5, <1>8 DEF Word, ReadVirtual
<1>10. \/ params \in 1..N /\ params = c /\ procs[params].env /\ Environment' = params
       \/ Environment' = Environment /\ ~(params # 0 /\ params = c /\ procs[params].env)
  BY <1>1, <1>5, <1>8 DEF Word, ReadVirtual
<1>11. Environment' \in Someone /\ Environment' <= p BY <1>1, <1>2, <1>3, <1>7, <1>10 DEF Someone
<1>12. /\ EnvSize' \in {0} \cup {Len(Block(q)) : q \in DOMAIN procs}
       /\ EnvSize' \in Nat /\ (EnvSize' # 0 => EnvSize' >= 2)
  <2>1. EnvSize' \in {0} \cup {Len(Block(q)) : q \in DOMAIN procs} BY <1>1, <1>2, <1>9
  <2>. QED BY <1>2, <1>5, <2>1
<1>13. ASSUME EnvSize' = 0, NEW q \in 1..p PROVE ~TellsSize(q)
  <2>1. EnvSize' = EnvSize /\ ~(params # 0 /\ params = c /\ procs[params].size)
    BY <1>5, <1>9, <1>13
  <2>2. CASE q = p
    <3>. SUFFICES ASSUME TellsSize(p) PROVE FALSE BY <2>2
    <3>1. params = p /\ c = p /\ procs[p].size BY <1>4, <1>6 DEF TellsSize
    <3>. QED BY <1>2, <2>1, <3>1
  <2>3. CASE q # p
    <3>1. q \in 1..(p - 1) BY <1>2, <2>3
    <3>. QED BY <1>3, <1>13, <2>1, <3>1
  <2>. QED BY <2>2, <2>3
<1>14. ASSUME EnvSize' # 0
       PROVE  /\ \E q \in 1..p : EnvSize' = Len(Block(q)) /\ procs[q].size
              /\ \/ \E q \in 1..(p - 1) : EnvSize' = Len(Block(q)) /\ procs[q].size
                 \/ c \in 1..N /\ EnvSize' = Len(Block(c))
  <2>1. CASE params \in 1..N /\ params = c /\ procs[params].size /\ EnvSize' = Len(Block(params))
    <3>1. params \in 1..p BY <1>2, <1>7, <2>1
    <3>. QED BY <2>1, <3>1
  <2>2. CASE EnvSize' = EnvSize
    <3>1. PICK q \in 1..(p - 1) : EnvSize' = Len(Block(q)) /\ procs[q].size BY <1>3, <1>14, <2>2
    <3>2. q \in 1..p BY <1>2
    <3>. QED BY <3>1, <3>2
  <2>. QED BY <1>9, <2>1, <2>2
<1>15. ASSUME Environment' # 0, Environment' = c, procs[c].size PROVE EnvSize' = Len(Block(c))
  <2>1. CASE params \in 1..N /\ params = c BY <1>2, <1>9, <1>15, <2>1
  <2>2. CASE ~(params \in 1..N /\ params = c)
    <3>1. Environment' = Environment /\ EnvSize' = EnvSize BY <1>9, <1>10, <2>2
    <3>2. c = context
      <4>1. c < p BY <1>3, <1>15, <3>1
      <4>. QED BY <1>2, <1>4, <4>1
    <3>. QED BY <1>3, <1>15, <3>1, <3>2
  <2>. QED BY <2>1, <2>2
<1>16. ASSUME Readable(p) PROVE params = p /\ Environment' = p /\ c = p /\ EnvSize' = Len(Block(p))
  <2>1. c = p /\ params = p BY <1>4, <1>6, <1>16 DEF Readable
  <2>. QED BY <1>2, <1>9, <1>10, <1>16, <2>1 DEF Readable
<1>. QED
  BY <1>2, <1>4, <1>7, <1>11, <1>12, <1>13, <1>14, <1>15, <1>16 DEF c, params

(* A row is added.                                                          *)
LEMMA RowAdded ==
  ASSUME IInv, ReadWords, UNCHANGED <<procs, origin>>, NEW lines \in Seq(Nat \ {0}), Printed(lines),
         lines # <<>> => /\ Environment' = context' /\ Len(lines) < procs[Environment'].entries
                         /\ \A k \in DOMAIN lines : lines[k] = k,
         Readable(p) => Len(lines) = IF procs[p].entries = 0 THEN 0 ELSE procs[p].entries - 1
  PROVE  (rows \in Seq(Line))' /\ EntriesOfTheContext' /\ ReadableShownInFull'
<1>. DEFINE row == [process |-> p, Params |-> RtlProcessParams', EnvironmentSize |-> EnvSize',
                    Environment |-> Environment', lines |-> lines]
            Shown(r) ==
              r.lines # <<>> =>
                /\ r.Environment = ContextAt(r.process)
                /\ Len(r.lines) < procs[r.Environment].entries
                /\ \A k \in DOMAIN r.lines : r.lines[k] = k
            InFull(r) ==
              Readable(r.process) =>
                /\ {r.Params, r.Environment} = {r.process} /\ r.EnvironmentSize = Len(Block(r.process))
                /\ Len(r.lines) = (IF procs[r.process].entries = 0 THEN 0 ELSE procs[r.process].entries - 1)
<1>1. /\ TypeOK /\ N \in Nat /\ p \in 1..N /\ {context', RtlProcessParams', Environment'} \subseteq Someone
      /\ EnvSize' \in Nat /\ context' = ContextAt(p)
      /\ Readable(p) => /\ RtlProcessParams' = p /\ Environment' = p /\ EnvSize' = Len(Block(p))
  BY ReadWordsParts DEF IInv
<1>2. row \in Line BY <1>1, ProcessType DEF Line
<1>3. Line' = Line /\ rows \in Seq(Line) BY <1>1 DEF Line, Someone, TypeOK
<1>4. Shown(row) /\ InFull(row) BY <1>1
<1>5. \A n \in DOMAIN rows : Shown(rows[n]) /\ InFull(rows[n])
  BY DEF IInv, EntriesOfTheContext, ReadableShownInFull
<1>6. rows' = Append(rows, row) BY DEF Printed
<1>. HIDE DEF row
<1>7. rows' \in Seq(Line) /\ \A n \in DOMAIN rows' : rows'[n] = row \/ (n \in DOMAIN rows /\ rows'[n] = rows[n])
  BY <1>2, <1>3, <1>6
<1>. HIDE DEF Shown, InFull
<1>8. \A n \in DOMAIN rows' : Shown(rows'[n]) /\ InFull(rows'[n]) BY <1>4, <1>5, <1>7
<1>9. \A q : ContextAt(q)' = ContextAt(q) BY ContextKept
<1>10. \A q : Readable(q)' = Readable(q) /\ Block(q)' = Block(q) BY DEF Readable, Block
<1>11. EntriesOfTheContext' BY <1>8, <1>9 DEF EntriesOfTheContext, Shown
<1>12. ReadableShownInFull' BY <1>8, <1>10 DEF ReadableShownInFull, InFull
<1>. QED BY <1>3, <1>7, <1>11, <1>12

LEMMA TypeStep ==
  ASSUME IInv, ReadWords, UNCHANGED <<procs, origin>>, p' \in 1..(N + 1), (rows \in Seq(Line))',
         pc' \in {"process", "done", "null", "overrun"}
  PROVE  TypeOK'
<1>1. /\ TypeOK /\ {context', RtlProcessParams', Environment'} \subseteq Someone
      /\ EnvSize' \in {0} \cup {Len(Block(q)) : q \in DOMAIN procs}
  BY ReadWordsParts DEF IInv
<1>2. Someone' = Someone /\ \A q : Block(q)' = Block(q) BY DEF Someone, Block
<1>3. {origin', context', RtlProcessParams', Environment'} \subseteq Someone' BY <1>1, <1>2 DEF TypeOK
<1>4. {Len(Block(q)) : q \in DOMAIN procs}' = {Len(Block(q)) : q \in DOMAIN procs} BY <1>2
<1>. QED BY <1>1, <1>3, <1>4 DEF TypeOK, Line, N

LEMMA VisitIInv == ASSUME IInv, Visit PROVE IInv'
<1>. DEFINE buf == Buffer(Environment', EnvSize', context')
<1>1. /\ ReadWords /\ EnvSize' # 0 /\ Ends(buf) # {} /\ Printed(Formatter(buf)) /\ p' = p + 1
      /\ UNCHANGED <<procs, origin, pc>> /\ pc = "process" /\ TypeOK
  BY DEF Visit, ReadWords, IInv
<1>2. /\ N \in Nat /\ p \in 1..N /\ p \in Nat /\ Environment' \in Someone /\ EnvSize' \in Nat
      /\ RtlProcessParams' <= p /\ Environment' <= p /\ context' = ContextAt(p)
      /\ \E q \in 1..p : EnvSize' = Len(Block(q)) /\ procs[q].size
      /\ Environment' # 0 /\ Environment' = context' /\ procs[context'].size => EnvSize' = Len(Block(context'))
      /\ Readable(p) => Environment' = p /\ context' = p /\ EnvSize' = Len(Block(p))
  BY <1>1, ReadWordsParts
<1>3. /\ Formatter(buf) \in Seq(Nat \ {0})
      /\ Formatter(buf) # <<>> =>
           /\ Environment' = context' /\ Len(Formatter(buf)) < procs[Environment'].entries
           /\ \A k \in DOMAIN Formatter(buf) : Formatter(buf)[k] = k
  BY <1>1, <1>2, FormatterParts
<1>4. Readable(p) => Len(Formatter(buf)) = IF procs[p].entries = 0 THEN 0 ELSE procs[p].entries - 1
  BY <1>1, <1>2, WholeBlock DEF Readable
<1>. HIDE DEF buf
<1>5. (rows \in Seq(Line))' /\ EntriesOfTheContext' /\ ReadableShownInFull' BY <1>1, <1>3, <1>4, RowAdded
<1>6. p' \in 1..(N + 1) /\ p' - 1 = p BY <1>1, <1>2
<1>7. TypeOK' BY <1>1, <1>5, <1>6, TypeStep
<1>8. Words'
  <2>1. ContextAt(p - 1)' = ContextAt(p) BY <1>1, <1>6 DEF ContextAt
  <2>2. Block(context)' = Block(context') /\ \A q : Block(q)' = Block(q) BY <1>1 DEF Block
  <2>3. RtlProcessParams' < p' /\ Environment' < p'
    <3>1. RtlProcessParams' \in Int /\ Environment' \in Int BY <1>1, <1>2, ReadWordsParts DEF Someone, N
    <3>. QED BY <1>1, <1>2, <3>1
  <2>4. EnvSize' # 0 BY <1>1
  <2>. QED BY <1>1, <1>2, <1>6, <2>1, <2>2, <2>3, <2>4 DEF Words
<1>9. NullOnlyBeforeAnySize' /\ OverrunOnlyAtAnothersSize'
  BY <1>1 DEF NullOnlyBeforeAnySize, OverrunOnlyAtAnothersSize
<1>. QED BY <1>5, <1>7, <1>8, <1>9 DEF IInv

(* The command breaks off.                                                  *)
LEMMA VisitWithoutBufferIInv == ASSUME IInv, VisitWithoutBuffer PROVE IInv'
<1>1. /\ ReadWords /\ EnvSize' = 0 /\ Printed(<<>>) /\ pc' = "null" /\ UNCHANGED <<procs, origin, p>>
  BY DEF VisitWithoutBuffer
<1>2. /\ TypeOK /\ N \in Nat /\ p \in 1..N /\ p \in 1..(N + 1) /\ \A q \in 1..p : ~TellsSize(q)
      /\ Readable(p) => EnvSize' = Len(Block(p))
  BY <1>1, ReadWordsParts DEF IInv
<1>3. ~Readable(p) BY <1>1, <1>2, BlockParts
<1>4. <<>> \in Seq(Nat \ {0}) OBVIOUS
<1>5. (rows \in Seq(Line))' /\ EntriesOfTheContext' /\ ReadableShownInFull' BY <1>1, <1>3, <1>4, RowAdded
<1>6. TypeOK' BY <1>1, <1>2, <1>5, TypeStep
<1>7. Words' /\ OverrunOnlyAtAnothersSize' BY <1>1 DEF Words, OverrunOnlyAtAnothersSize
<1>8. NullOnlyBeforeAnySize' BY <1>1, <1>2 DEF NullOnlyBeforeAnySize, TellsSize
<1>. QED BY <1>5, <1>6, <1>7, <1>8 DEF IInv

LEMMA VisitBeyondBufferIInv == ASSUME IInv, VisitBeyondBuffer PROVE IInv'
<1>. DEFINE buf == Buffer(Environment', EnvSize', context')
<1>1. /\ ReadWords /\ EnvSize' # 0 /\ Ends(buf) = {} /\ Printed(<<>>) /\ pc' = "overrun"
      /\ UNCHANGED <<procs, origin, p>>
  BY DEF VisitBeyondBuffer
<1>2. /\ TypeOK /\ N \in Nat /\ p \in 1..N /\ p \in 1..(N + 1)
      /\ Environment' \in Someone /\ EnvSize' \in Nat /\ EnvSize' >= 2
      /\ \/ \E q \in 1..(p - 1) : EnvSize' = Len(Block(q)) /\ procs[q].size
         \/ context' \in 1..N /\ EnvSize' = Len(Block(context'))
      /\ Environment' # 0 /\ Environment' = context' /\ procs[context'].size => EnvSize' = Len(Block(context'))
      /\ Readable(p) => Environment' = p /\ context' = p /\ EnvSize' = Len(Block(p))
  BY <1>1, ReadWordsParts DEF IInv
<1>3. /\ Environment' \in 1..N /\ Environment' = context' /\ EnvSize' < Len(Block(Environment'))
      /\ Allocated(EnvSize') < EnvSize' + 2
  BY <1>1, <1>2, EndsInside
<1>4. EnvSize' # Len(Block(context')) BY <1>2, <1>3, BlockParts
<1>5. ~Readable(p) BY <1>2, <1>4
<1>6. <<>> \in Seq(Nat \ {0}) OBVIOUS
<1>7. (rows \in Seq(Line))' /\ EntriesOfTheContext' /\ ReadableShownInFull' BY <1>1, <1>5, <1>6, RowAdded
<1>8. TypeOK' BY <1>1, <1>2, <1>7, TypeStep
<1>9. Words' /\ NullOnlyBeforeAnySize' BY <1>1 DEF Words, NullOnlyBeforeAnySize
<1>10. OverrunOnlyAtAnothersSize'
  <2>1. Block(context)' = Block(context') /\ \A q : Block(q)' = Block(q) BY <1>1 DEF Block
  <2>2. Environment' # 0 BY <1>2, <1>3
  <2>3. ~procs[context'].size BY <1>2, <1>3, <1>4, <2>2
  <2>4. \E q \in 1..(p - 1) : EnvSize' = Len(Block(q)) /\ procs[q].size BY <1>2, <1>4
  <2>5. Allocated(EnvSize)' = Allocated(EnvSize') BY DEF Allocated
  <2>. QED BY <1>1, <1>3, <2>1, <2>3, <2>4, <2>5 DEF OverrunOnlyAtAnothersSize
<1>. QED BY <1>7, <1>8, <1>9, <1>10 DEF IInv

(* Without a new row.                                                       *)
LEMMA RowsKept ==
  ASSUME IInv, UNCHANGED <<procs, origin, rows>>
  PROVE  /\ Line' = Line /\ (rows \in Seq(Line))' /\ EntriesOfTheContext' /\ ReadableShownInFull'
         /\ Someone' = Someone /\ N' = N
         /\ {Len(Block(q)) : q \in DOMAIN procs}' = {Len(Block(q)) : q \in DOMAIN procs}
<1>1. Someone' = Someone /\ N' = N BY DEF Someone, N
<1>2. Line' = Line BY <1>1 DEF Line
<1>3. (rows \in Seq(Line))' BY <1>2 DEF IInv, TypeOK, Line
<1>4. \A q : ContextAt(q)' = ContextAt(q) BY ContextKept
<1>5. \A q : Readable(q)' = Readable(q) /\ Block(q)' = Block(q) BY DEF Readable, Block
<1>6. EntriesOfTheContext' BY <1>4 DEF IInv, EntriesOfTheContext
<1>7. ReadableShownInFull' BY <1>5 DEF IInv, ReadableShownInFull
<1>. QED BY <1>1, <1>2, <1>3, <1>5, <1>6, <1>7

LEMMA SkipIInv == ASSUME IInv, Skip PROVE IInv'
<1>1. /\ TypeOK /\ Words /\ pc = "process" /\ p <= N /\ p \in 1..(N + 1) /\ ~procs[p].Peb /\ p' = p + 1
      /\ UNCHANGED <<procs, origin, context, RtlProcessParams, EnvSize, Environment, rows, pc>>
  BY DEF IInv, TypeOK, Skip, N, locals
<1>2. N \in Nat /\ p \in 1..N /\ p \in Nat /\ Someone \subseteq 0..N /\ p' - 1 = p
  BY <1>1, ProcessType DEF Someone
<1>3. TypeOK'
  <2>1. p' \in 1..(N + 1) BY <1>1, <1>2
  <2>. QED BY <1>1, <2>1, RowsKept DEF TypeOK, Line, N
<1>4. Words'
  <2>1. RtlProcessParams < p + 1 /\ Environment < p + 1
    <3>1. RtlProcessParams \in Int /\ Environment \in Int
      <4>1. RtlProcessParams \in Someone /\ Environment \in Someone BY <1>1 DEF TypeOK
      <4>. QED BY <1>2, <4>1
    <3>2. RtlProcessParams < p /\ Environment < p BY <1>1 DEF Words
    <3>. QED BY <1>2, <3>1, <3>2
  <2>2. ContextAt(p - 1)' = ContextAt(p) BY <1>1, <1>2 DEF ContextAt
  <2>3. ContextAt(p) = ContextAt(p - 1) BY <1>1, <1>2, ContextStep
  <2>4. Block(context)' = Block(context) /\ \A q : Block(q)' = Block(q) BY <1>1 DEF Block
  <2>5. \A q \in 1..p : q \in 1..(p - 1) \/ q = p BY <1>2
  <2>6. ~TellsSize(p) /\ \A q : TellsSize(q)' = TellsSize(q) BY <1>1 DEF TellsSize
  <2>7. \A q \in 1..(p - 1) : q \in 1..p BY <1>2
  <2>. QED BY <1>1, <1>2, <2>1, <2>2, <2>3, <2>4, <2>5, <2>6, <2>7 DEF Words
<1>5. NullOnlyBeforeAnySize' /\ OverrunOnlyAtAnothersSize'
  BY <1>1 DEF NullOnlyBeforeAnySize, OverrunOnlyAtAnothersSize
<1>. QED BY <1>1, <1>3, <1>4, <1>5, RowsKept DEF IInv

LEMMA NextIInv == IInv /\ [Next]_vars => IInv'
<1>. SUFFICES ASSUME IInv, [Next]_vars PROVE IInv' OBVIOUS
<1>1. CASE Skip BY <1>1, SkipIInv
<1>2. CASE Visit BY <1>2, VisitIInv
<1>3. CASE VisitWithoutBuffer BY <1>3, VisitWithoutBufferIInv
<1>4. CASE VisitBeyondBuffer BY <1>4, VisitBeyondBufferIInv
<1>5. CASE Finish
  <2>1. UNCHANGED <<procs, origin, p, context, RtlProcessParams, EnvSize, Environment, rows>> /\ pc' = "done"
    BY <1>5 DEF Finish, locals
  <2>2. TypeOK' BY <2>1, RowsKept DEF IInv, TypeOK, Line
  <2>3. Words' /\ NullOnlyBeforeAnySize' /\ OverrunOnlyAtAnothersSize'
    BY <2>1 DEF Words, NullOnlyBeforeAnySize, OverrunOnlyAtAnothersSize
  <2>. QED BY <2>1, <2>2, <2>3, RowsKept DEF IInv
<1>6. CASE UNCHANGED vars
  <2>1. UNCHANGED <<procs, origin, p, context, RtlProcessParams, EnvSize, Environment, rows, pc>>
    BY <1>6 DEF vars, locals
  <2>2. TypeOK' BY <2>1, RowsKept DEF IInv, TypeOK, Line
  <2>3. Block(context)' = Block(context) /\ \A q : Block(q)' = Block(q) BY <2>1 DEF Block
  <2>4. ContextAt(p - 1)' = ContextAt(p - 1) BY <2>1 DEF ContextAt
  <2>5. Words' BY <2>1, <2>3, <2>4 DEF IInv, Words, TellsSize
  <2>6. NullOnlyBeforeAnySize' BY <2>1 DEF IInv, NullOnlyBeforeAnySize
  <2>7. Allocated(EnvSize)' = Allocated(EnvSize) BY <2>1 DEF Allocated
  <2>8. OverrunOnlyAtAnothersSize' BY <2>1, <2>3, <2>7 DEF IInv, OverrunOnlyAtAnothersSize
  <2>. QED BY <2>1, <2>2, <2>5, <2>6, <2>8, RowsKept DEF IInv
<1>. QED BY <1>1, <1>2, <1>3, <1>4, <1>5, <1>6 DEF Next

LEMMA Invariant == Spec => []IInv
BY InitIInv, NextIInv, PTL DEF Spec

-----------------------------------------------------------------------------

(* The words of the loop are addresses in processes or zero, the size that  *)
(* of an environment or zero, and no NUL is printed (envars.h:203-250).     *)
THEOREM TypeCorrect == Spec => []TypeOK
<1>1. IInv => TypeOK BY DEF IInv
<1>. QED BY <1>1, Invariant, PTL

(* Under a process stand the first entries of the environment its context   *)
(* shows, in order, and without the last (envars.h:203-206, 211-222).       *)
THEOREM LinesOfTheContext == Spec => []EntriesOfTheContext
<1>1. IInv => EntriesOfTheContext BY DEF IInv
<1>. QED BY <1>1, Invariant, PTL

(* What other processes left in the words does not show in one that can be  *)
(* read (envars.h:203-206, 238-241).                                        *)
THEOREM ReadableProcessShown == Spec => []ReadableShownInFull
<1>1. IInv => ReadableShownInFull BY DEF IInv
<1>. QED BY <1>1, Invariant, PTL

(* The formatter is given no buffer only while no size could be read        *)
(* (envars.h:204, 214-219).                                                 *)
THEOREM NullExplained == Spec => []NullOnlyBeforeAnySize
<1>1. IInv => NullOnlyBeforeAnySize BY DEF IInv
<1>. QED BY <1>1, Invariant, PTL

(* The formatter leaves its buffer only with the size of another process's  *)
(* environment and no room behind it, whatever the size of a page           *)
(* (envars.h:22, 214-222, 40).                                              *)
THEOREM OverrunExplained == Spec => []OverrunOnlyAtAnothersSize
<1>1. IInv => OverrunOnlyAtAnothersSize BY DEF IInv
<1>. QED BY <1>1, Invariant, PTL
=============================================================================
