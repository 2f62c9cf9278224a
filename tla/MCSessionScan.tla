--------------------------- MODULE MCSessionScan ----------------------------
(***************************************************************************)
(* SessionScan on up to MaxProcesses processes and two sessions: one that  *)
(* can be read in full, and one of which all, nothing, or all but one      *)
(* field can be read.                                                      *)
(***************************************************************************)
EXTENDS SessionScan

CONSTANT MaxProcesses  \* bound: the cached processes

MCReadable == {Fields, {}, Fields \ {"SessionId"}, Fields \ {"IoState"}}

MCTargets ==
  [procs : UNION {[1..n -> {NoSession, 1, 2, Fault}] : n \in 0..MaxProcesses},
   readable : {<<Fields, r>> : r \in MCReadable}]

(* OwnSessionShown is to fail with all of memory at hand. *)
MCCompleteTargets ==
  {t \in MCTargets : t.readable[2] = Fields /\ \A n \in DOMAIN t.procs : t.procs[n] # Fault}
=============================================================================
