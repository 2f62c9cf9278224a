---------------------------- MODULE MCPsDetails -----------------------------
(***************************************************************************)
(* PsDetails on two rows, at most one without a PEB.  Of a process         *)
(* everything can be read, or one thing is missing.                        *)
(***************************************************************************)
EXTENDS PsDetails

MCTargets == {<<TRUE, TRUE>>, <<TRUE, FALSE>>, <<FALSE, TRUE>>}

(* The parameters lie across the end of a page. *)
FirstPage == {"CurrentDirectory", "CommandLine"}

MCMemories ==
  LET all == [switches |-> TRUE, peb |-> TRUE, params |-> TRUE, fields |-> Fields] IN
  {all,
   [all EXCEPT !.switches = FALSE], [all EXCEPT !.peb = FALSE], [all EXCEPT !.params = FALSE],
   [all EXCEPT !.fields = KernelFields \cup FirstPage],
   [all EXCEPT !.fields = UserFields \ FirstPage]}
=============================================================================
