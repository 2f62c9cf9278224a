--------------------------- MODULE SessionReport ----------------------------
(***************************************************************************)
(* What !sessions amounts to: each call appends, in one go, a row for      *)
(* every process.  A field of a row is that of the process's own session   *)
(* if it can be read and otherwise that of the nearest process before it   *)
(* where it could be; if there is none it is zero.  Nothing comes from an  *)
(* earlier call, but for one pointer: not initialised, it stands in for    *)
(* EPROCESS.Session of the first process when that cannot be read.         *)
(***************************************************************************)
EXTENDS SessionSpaces, FiniteSetsExt

CONSTANTS Targets, MaxCalls

VARIABLES
  target,
  report,  \* the rows of all calls
  calls

vars == <<target, report, calls>>

(* What process q has for a session, 0 standing for what was on the stack. *)
Pointer(q, stray) ==
  IF q > 0 THEN ReadVirtual(target.procs[q], NoSession)
  ELSE IF target.procs[1] = Fault THEN stray ELSE NoSession

Info(p, stray) ==
  [f \in Fields |->
     LET able == {q \in 0..p : Cell(target, Pointer(q, stray), f) # Fault} IN
     IF able = {} THEN NoSession ELSE Pointer(Max(able), stray)]

Init == target \in Targets /\ report = <<>> /\ calls = 0

Call ==
  /\ calls < MaxCalls /\ calls' = calls + 1
  /\ \E stray \in AllSessions(target) :
       report' = report \o [p \in DOMAIN target.procs |->
                              [call |-> calls', process |-> p, info |-> Info(p, stray)]]
  /\ UNCHANGED target

Spec == Init /\ [][Call]_vars
=============================================================================
