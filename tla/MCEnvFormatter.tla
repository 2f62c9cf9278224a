--------------------------- MODULE MCEnvFormatter ---------------------------
(***************************************************************************)
(* EnvFormatter on every block of at most MaxUnits units in entries of one *)
(* or two, in every order of blocks.  A unit is an "=", a letter, or one   *)
(* with the byte 0x3d on top, below it a zero or once more 0x3d; those     *)
(* count twice.  An empty entry, which counts as a unit, ends the block    *)
(* unless it is the first; what follows it is the slack of a block shorter *)
(* than its memory.                                                        *)
(* A page is 8 bytes, so that some blocks fill theirs and some do not.     *)
(***************************************************************************)
EXTENDS EnvFormatter, SequencesExt

CONSTANT MaxUnits  \* bound: the units of a block, without the NULs

Plain == {<<Separator, 0>>, <<120, 0>>}

High == {<<0, Separator>>, <<Separator, Separator>>}

MCEntries == {<<>>} \cup Plain \cup High \cup {a \o b : a, b \in Plain \cup High}

Nul == <<0, 0>>

Block(es) ==
  FlattenSeq([k \in DOMAIN es |-> es[k] \o Nul]) \o (IF es = <<>> THEN Nul \o Nul ELSE Nul)

UnitsOf(entry) ==
  IF entry = <<>> THEN 1
  ELSE Len(entry) \div 2 + Cardinality({k \in DOMAIN entry : k % 2 = 0 /\ entry[k] # 0})

(* The lists of entries of at most n units. *)
Lists[n \in 0..MaxUnits] ==
  {<<>>} \cup UNION {{<<e>> \o es : es \in Lists[n - UnitsOf(e)]} :
                      e \in {e \in MCEntries : UnitsOf(e) <= n}}

MCEnvironments == {Block(es) : es \in Lists[MaxUnits]}
=============================================================================
