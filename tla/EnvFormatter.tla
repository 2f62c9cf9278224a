---------------------------- MODULE EnvFormatter ----------------------------
(***************************************************************************)
(* The class EnvFormatter of modules/envars.h: it splits the environment   *)
(* block of a process, copied into a buffer, into lines of output, and is  *)
(* reset and used again for the next.                                      *)
(*                                                                         *)
(* The block is UTF-16: entries of code units, low byte first, each ended  *)
(* by a NUL unit, the last followed by one more.  The buffer comes from    *)
(* VirtualAlloc, which rounds up to whole pages and clears them.  Every    *)
(* iteration of a loop is a step; positions are byte offsets.              *)
(***************************************************************************)
EXTENDS Integers, Sequences, FiniteSets

CONSTANTS
  Environments,  \* the blocks that may be read, as sequences of bytes
  PageSize

Byte == 0..255
Separator == 61  \* the byte 0x3d, "="

Allocated(env) ==
  [p \in 0..(((Len(env) + PageSize - 1) \div PageSize) * PageSize - 1) |->
     IF p < Len(env) THEN env[p + 1] ELSE 0]

(* A NUL unit at an even position. *)
NulAt(buf, p) ==
  p % 2 = 0 /\ {p, p + 1} \subseteq DOMAIN buf /\ buf[p] = 0 /\ buf[p + 1] = 0

(* The format of an environment block: two NUL units in a row end it.      *)
Terminated(buf) == \E p \in DOMAIN buf : NulAt(buf, p) /\ NulAt(buf, p + 2)

ASSUME EnvironmentAssumption ==
  /\ PageSize \in Nat \ {0}
  /\ \A env \in Environments : env \in Seq(Byte) /\ Terminated(Allocated(env))

VARIABLES
  e_buffer,
  MaxLen, PrevPos, CurrPos, MidPos,  \* the FormatTracker
  i,    \* the loop variable of findKeyValueFilter
  out,  \* the lines printed for this block
  pc    \* "scan": in Formatter, "filter": in findKeyValueFilter, "done", "thrown"

vars == <<e_buffer, MaxLen, PrevPos, CurrPos, MidPos, i, out, pc>>

(* A byte outside the buffer has no value the code could count on.         *)
Cell(p) == IF p \in DOMAIN e_buffer THEN e_buffer[p] ELSE -1

-----------------------------------------------------------------------------
(* The tests of Formatter                                                   *)

(* Mutant: the fourth byte is not looked at. *)
LastEntryByThree == \A k \in 0..2 : Cell(CurrPos + k) = 0

(* Mutant: a byte more than the end of a block has. *)
LastEntryByFive == \A k \in 0..4 : Cell(CurrPos + k) = 0

isLastEntry == \A k \in 0..3 : Cell(CurrPos + k) = 0

isEntryEnd == Cell(CurrPos) = 0 /\ Cell(CurrPos + 1) = 0

(* Mutant: the text does not end at a zero. *)
TextWithZeros(start, size) ==
  [k \in 1..((size + 1) \div 2) |-> e_buffer[start + 2 * (k - 1)]]

(* The low bytes of size bytes from a position on, as "%s" prints them: up *)
(* to the first zero.                                                      *)
Text(start, size) ==
  LET low(k) == e_buffer[start + 2 * (k - 1)]
      n      == (size + 1) \div 2
      len    == CHOOSE m \in 0..n : /\ \A k \in 1..m : low(k) # 0
                                    /\ m < n => low(m + 1) = 0
  IN [k \in 1..len |-> low(k)]

-----------------------------------------------------------------------------
(* setMaxLen, setBuffer and a tracker that was reset. *)
Init ==
  /\ \E env \in Environments : e_buffer = Allocated(env) /\ MaxLen = Len(env)
  /\ PrevPos = 0 /\ CurrPos = 0 /\ MidPos = 0 /\ i = 0
  /\ out = <<>> /\ pc = "scan"

LastEntry ==
  /\ pc = "scan" /\ isLastEntry
  /\ CurrPos' = MaxLen /\ PrevPos' = MaxLen
  /\ pc' = "done"
  /\ UNCHANGED <<e_buffer, MaxLen, MidPos, i, out>>

EntryEnd ==
  /\ pc = "scan" /\ ~isLastEntry /\ isEntryEnd
  /\ i' = 0 /\ pc' = "filter"
  /\ UNCHANGED <<e_buffer, MaxLen, PrevPos, CurrPos, MidPos, out>>

(* Mutant: back to the start of the entry. *)
SlideBack == IF CurrPos = PrevPos THEN CurrPos + 2 ELSE PrevPos

(* To the next UTF-16 unit. *)
NextUnit == CurrPos + 2

Slide ==
  /\ pc = "scan" /\ ~isLastEntry /\ ~isEntryEnd
  /\ CurrPos' = NextUnit
  /\ UNCHANGED <<e_buffer, MaxLen, PrevPos, MidPos, i, out, pc>>

(* Mutant: the first unit of the entry is not looked at. *)
FoundPastFirst == i >= 2 /\ Cell(PrevPos + i) = Separator

Found == Cell(PrevPos + i) = Separator

(* Mutant: every separator is looked at. *)
NonePassedOver == i + 1

(* Where the search goes on behind a separator. *)
PassedOver == i + 2

(* One iteration of findKeyValueFilter.  It looks at every byte; the last  *)
(* separator it meets counts; the byte after one is passed over.           *)
Filter ==
  /\ pc = "filter" /\ i < CurrPos - PrevPos
  /\ IF Found
     THEN MidPos' = PrevPos + i /\ i' = PassedOver
     ELSE i' = i + 1 /\ UNCHANGED MidPos
  /\ UNCHANGED <<e_buffer, MaxLen, PrevPos, CurrPos, out, pc>>

NextEntry == CurrPos + 2

(* PrintKey and PrintValue, and on to the next entry.  MidPos is not reset *)
(* between entries: in one without a separator it still points before      *)
(* PrevPos, the length of the key wraps around below zero, and the vector  *)
(* of that length cannot be allocated.                                     *)
PrintEntry ==
  /\ pc = "filter" /\ i >= CurrPos - PrevPos
  /\ IF MidPos < PrevPos
     THEN pc' = "thrown" /\ UNCHANGED <<PrevPos, CurrPos, out>>
     ELSE /\ out' = Append(out, Text(PrevPos, MidPos - PrevPos) \o Text(MidPos, CurrPos - MidPos))
          /\ PrevPos' = NextEntry /\ CurrPos' = NextUnit
          /\ pc' = "scan"
  /\ UNCHANGED <<e_buffer, MaxLen, MidPos, i>>

(* Reset, and the buffer of the next process.  An exception leaves the     *)
(* command; the next one has a new formatter, which begins like this too.  *)
Reset ==
  /\ pc \in {"done", "thrown"}
  /\ \E env \in Environments : e_buffer' = Allocated(env) /\ MaxLen' = Len(env)
  /\ PrevPos' = 0 /\ CurrPos' = 0 /\ MidPos' = 0 /\ i' = 0
  /\ out' = <<>> /\ pc' = "scan"

Scan == LastEntry \/ EntryEnd \/ Slide \/ Filter \/ PrintEntry

Next == Scan \/ Reset

Spec == Init /\ [][Next]_vars

(* Nothing interrupts the loops; there may be no other process. *)
FairSpec == Spec /\ WF_vars(Scan)

-----------------------------------------------------------------------------
(* The entries of the block, by its format.                                 *)

End == CHOOSE p \in DOMAIN e_buffer :
         /\ NulAt(e_buffer, p) /\ NulAt(e_buffer, p + 2)
         /\ \A q \in DOMAIN e_buffer : NulAt(e_buffer, q) /\ NulAt(e_buffer, q + 2) => p <= q

(* Where the entries end; a block that begins with its end has none.       *)
Ends == IF End = 0 THEN {} ELSE {p \in 0..End : NulAt(e_buffer, p)}

(* The n-th of a set of numbers. *)
Nth(S, n) == CHOOSE p \in S : Cardinality({q \in S : q <= p}) = n

StartOf(p) == LET before == {q \in Ends : q < p} IN
              IF before = {} THEN 0 ELSE 2 + Nth(before, Cardinality(before))

(* The characters of an entry; it has them all if none is above 0xff.      *)
Entry(p) == [k \in 1..((p - StartOf(p)) \div 2) |-> e_buffer[StartOf(p) + 2 * (k - 1)]]

Latin(p) == \A q \in StartOf(p)..(p - 1) : q % 2 = 1 => e_buffer[q] = 0

(* Of the bytes 0x3d from s on that stand side by side, every other one is *)
(* taken for a separator, whichever half of a unit it is.                  *)
Hit(s, j) ==
  \E first \in s..j :
    /\ (j - first) % 2 = 0
    /\ \A q \in first..j : e_buffer[q] = Separator
    /\ first > s => e_buffer[first - 1] # Separator

(* The place of the last of them in an entry, or else its start.           *)
Cut(p) ==
  LET hits == {j \in StartOf(p)..(p - 1) : Hit(StartOf(p), j)} IN
  IF hits = {} THEN StartOf(p) ELSE CHOOSE j \in hits : \A k \in hits : k <= j

(* What an entry looks like when it is cut there: the low bytes of its     *)
(* units up to the cut and, from the cut on, every other byte, which are   *)
(* the high ones if it was cut within a unit; each part only up to a zero. *)
Shown(p) == Text(StartOf(p), Cut(p) - StartOf(p)) \o Text(Cut(p), p - Cut(p))

TypeOK ==
  /\ e_buffer \in [DOMAIN e_buffer -> Byte]
  /\ MaxLen \in Nat /\ PrevPos \in Nat /\ CurrPos \in Nat /\ MidPos \in Nat /\ i \in Nat
  /\ out \in Seq(Seq(Byte \ {0}))
  /\ pc \in {"scan", "filter", "done", "thrown"}

(* The scan has no bound of its own - MaxLen is not looked at - and yet no *)
(* byte it tests, up to four from CurrPos on, and none of the entry it     *)
(* searches, is outside the buffer (envars.h:94-122, 129-139).             *)
ReadsInBounds ==
  /\ pc = "scan" => {CurrPos, CurrPos + 3} \subseteq DOMAIN e_buffer
  /\ pc = "filter" => \A q \in PrevPos..CurrPos : q \in DOMAIN e_buffer

(* The n-th line is the n-th entry of the block, as it looks when it is    *)
(* cut at the last byte in it that the search takes for an "=", although   *)
(* MidPos is carried over from entry to entry.  An entry without a unit    *)
(* above 0xff is shown with all its characters; one with such a unit may   *)
(* lose some, or show high bytes for characters (envars.h:124-150,         *)
(* 171-175).                                                               *)
LinesAreEntries ==
  \A n \in 1..Len(out) :
    LET p == Nth(Ends, n) IN
    /\ n < Cardinality(Ends)
    /\ out[n] = Shown(p)
    /\ Latin(p) => Shown(p) = Entry(p)

(* When the scan reaches the end, everything but the last entry was        *)
(* printed (envars.h:41-49).                                               *)
DonePrintsAllButLast ==
  pc = "done" => Len(out) = IF Ends = {} THEN 0 ELSE Cardinality(Ends) - 1

(* An exception means an entry, not the first, without a separator, and    *)
(* the output stops in front of it (envars.h:161, 165-169).                *)
ThrowsOnlyWithoutSeparator ==
  pc = "thrown" =>
    /\ PrevPos > 0
    /\ \A q \in PrevPos..(CurrPos - 1) : e_buffer[q] # Separator

(* The scan of every block ends, one way or the other (envars.h:40).       *)
ScanEnds == pc \in {"scan", "filter"} ~> pc \in {"done", "thrown"}

-----------------------------------------------------------------------------
(* Stated by the documentation, and not so.                                 *)

(* README.md:132: "retrieves the environment variables of each process".   *)
AllEntriesPrinted == pc = "done" => Len(out) = Cardinality(Ends)
=============================================================================
