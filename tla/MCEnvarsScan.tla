---------------------------- MODULE MCEnvarsScan ----------------------------
(***************************************************************************)
(* EnvarsScan on two processes in every combination of what can be read,   *)
(* and on three of some kinds.  A page is three units: sizes of 3, 5 and   *)
(* 7 leave room for none, one and two of them in the last page.            *)
(***************************************************************************)
EXTENDS EnvarsScan

CONSTANT MaxEntries  \* bound: the entries of an environment

Size(n) == IF n = 0 THEN 2 ELSE 2 * n + 1

Readers ==
  {[Peb |-> TRUE, switches |-> s, params |-> r, size |-> z, env |-> e, entries |-> n, have |-> h] :
     s, r, z, e \in BOOLEAN, n \in 0..MaxEntries, h \in {2, 3, Size(MaxEntries)}}

WithoutPeb == [(CHOOSE q \in Readers : TRUE) EXCEPT !.Peb = FALSE]

(* At most one thing goes wrong, and the block is there. *)
Kinds ==
  {q \in Readers :
     /\ q.have = Size(MaxEntries) /\ q.entries \in 2..3
     /\ Cardinality({word \in {"switches", "params", "size", "env"} : ~q[word]}) <= 1}

Few == {q \in Readers : q.entries \in {1, 3} /\ q.have \in {2, Size(MaxEntries)}}

MCTargets ==
  UNION {{<<>>},
         {<<q>> : q \in Readers},
         Few \X (Readers \cup {WithoutPeb}),
         [1..3 -> Kinds \cup {WithoutPeb}]}
=============================================================================
