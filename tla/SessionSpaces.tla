--------------------------- MODULE SessionSpaces ----------------------------
(***************************************************************************)
(* What !sessions reads in the target: EPROCESS.Session of every process,  *)
(* and five fields of the _MM_SESSION_SPACE it points to.  Both are kernel *)
(* memory that every process context maps; any of it may be unreadable.    *)
(***************************************************************************)
EXTENDS DbgEng, Sequences

Fields == {"SessionId", "SessionObject", "SessionObjectHandle", "CreateTime", "IoState"}

NoSession == 0  \* EPROCESS.Session of System and its like, a null pointer

(* procs     EPROCESS.Session of each cached process, in the order of the  *)
(*           cache: a session, NoSession, or not readable                  *)
(* readable  the fields of each session that can be read                   *)
Target == [procs : Seq(Nat \cup {Fault}), readable : Seq(SUBSET Fields)]

AllSessions(t) == {NoSession} \cup DOMAIN t.readable

(* A field of the session space s points to; nothing is mapped at zero. *)
Cell(t, s, f) == IF s # NoSession /\ f \in t.readable[s] THEN s ELSE Fault
=============================================================================
