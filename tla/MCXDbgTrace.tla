---------------------------- MODULE MCXDbgTrace -----------------------------
(***************************************************************************)
(* XDbgTrace with four processes: System, which has no PEB, two ordinary   *)
(* ones, of which the first is protected, and a last one in the EPROCESS   *)
(* block of the first.  Their fields order them differently, with ties.    *)
(***************************************************************************)
EXTENDS XDbgTrace

MCProcess(e, pid, at, vs, pvs, ct, name, peb, prot) ==
  [Eprocess |-> e, PID |-> pid, ActiveThreads |-> at, VirtualSize |-> vs,
   PeakVirtualSize |-> pvs, CreateTime |-> ct, process_name |-> name,
   Peb |-> peb, Protected |-> prot, Token |-> 100 + pid]

MCProcesses == {
  MCProcess(4096,  4, 9, 1, 3, 1, 4, FALSE, TRUE),
  MCProcess(8192,  9, 2, 5, 5, 2, 1, TRUE,  TRUE),
  MCProcess(12288, 7, 2, 3, 8, 3, 2, TRUE,  FALSE),
  MCProcess(8192,  8, 1, 3, 4, 4, 2, TRUE,  FALSE)}
=============================================================================
