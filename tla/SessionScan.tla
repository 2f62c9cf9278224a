---------------------------- MODULE SessionScan ----------------------------
(***************************************************************************)
(* The loop of !sessions (modules/sessions.h): for every process, follow   *)
(* EPROCESS.Session to its _MM_SESSION_SPACE and copy five fields of it.   *)
(*                                                                         *)
(* The pointer and the record the fields go to are declared before the     *)
(* loop.  A read that fails leaves in them what an earlier process put     *)
(* there, and the row is added all the same.  Instead of its content a     *)
(* field holds the session it was read from, 0 for the zero it began with. *)
(* The process context, switched after the reads, plays no part.           *)
(***************************************************************************)
EXTENDS SessionSpaces

CONSTANTS
  Targets,  \* the processes and sessions, in every way to consider
  MaxCalls  \* bound: how many times !sessions is given

ASSUME ScanAssumption ==
  /\ MaxCalls \in Nat
  /\ \A t \in Targets :
       t \in Target /\ \A n \in DOMAIN t.procs : t.procs[n] \in {NoSession, Fault} \cup DOMAIN t.readable

VARIABLES
  target,
  p,                \* the process the loop is at
  Session,          \* the local pointer
  s_info,           \* the local record
  SessionInfoList,  \* the global vector
  calls             \* calls of !sessions so far

vars == <<target, p, Session, s_info, SessionInfoList, calls>>

(* Mutant: nothing is set; the record is what the stack held. *)
GarbageInfo == [f \in Fields |-> -1]

InitSessionInfo == [f \in Fields |-> NoSession]

-----------------------------------------------------------------------------

Init ==
  /\ target \in Targets
  /\ p = Len(target.procs) + 1
  /\ Session = NoSession /\ s_info = InitSessionInfo
  /\ SessionInfoList = <<>> /\ calls = 0

(* Entry of the command.  Session is not initialised: it may hold nothing  *)
(* usable, or a pointer an earlier call left on the stack.                 *)
Begin ==
  /\ p > Len(target.procs) /\ calls < MaxCalls
  /\ Session' \in AllSessions(target)
  /\ s_info' = InitSessionInfo
  /\ p' = 1 /\ calls' = calls + 1
  /\ UNCHANGED <<target, SessionInfoList>>

(* Mutant: the row is built before the fields are read. *)
BuilderOfBefore(info) == [call |-> calls, process |-> p, info |-> s_info]

(* The row of process p, with a copy of what the record holds. *)
SessionInfoBuilder(info) == [call |-> calls, process |-> p, info |-> info]

(* One iteration of the loop. *)
Visit ==
  /\ p <= Len(target.procs)
  /\ Session' = ReadVirtual(target.procs[p], Session)
  /\ s_info' = [f \in Fields |-> ReadVirtual(Cell(target, Session', f), s_info[f])]
  /\ SessionInfoList' = Append(SessionInfoList, SessionInfoBuilder(s_info'))
  /\ p' = p + 1
  /\ UNCHANGED <<target, calls>>

Next == Begin \/ Visit

Spec == Init /\ [][Next]_vars

-----------------------------------------------------------------------------

Row == [call : 1..MaxCalls, process : Nat \ {0}, info : [Fields -> Nat]]

TypeOK ==
  /\ target \in Targets
  /\ p \in 1..(Len(target.procs) + 1) /\ calls \in 0..MaxCalls
  /\ Session \in AllSessions(target)
  /\ s_info \in [Fields -> AllSessions(target)]
  /\ SessionInfoList \in Seq(Row)
  /\ Len(SessionInfoList) <= calls * Len(target.procs)

(* The rows of the call that is running, or was the last. *)
Current == {n \in DOMAIN SessionInfoList : SessionInfoList[n].call = calls}

(* The rows of calls that have returned. *)
Running == p <= Len(target.procs)

Report == INSTANCE SessionReport WITH
  report <- IF Running THEN SubSeq(SessionInfoList, 1, Len(SessionInfoList) - (p - 1))
            ELSE SessionInfoList,
  calls  <- IF Running THEN calls - 1 ELSE calls

(* A call adds to what is there a row per process, in order, in which each *)
(* field comes from the nearest process it can be read of; what reads left *)
(* behind, in this call or one before, never shows otherwise, and no row   *)
(* of an earlier call changes (sessions.h:116-152, 167-177).               *)
ImplementsReport == Report!Spec

-----------------------------------------------------------------------------
(* Stated by the documentation, and not so.                                 *)

(* README.md:107: "print all processes with the session id to which it     *)
(* belongs to".  A process without a session belongs to none.              *)
OwnSessionShown ==
  \A n \in Current : LET row == SessionInfoList[n] IN
    row.info["SessionId"] = target.procs[row.process]
=============================================================================
