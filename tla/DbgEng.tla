------------------------------- MODULE DbgEng -------------------------------
(***************************************************************************)
(* The debugger engine, as far as the extension depends on it.  Reading    *)
(* target memory (ReadMemory, IDebugDataSpaces4::ReadVirtual) either       *)
(* copies the bytes or fails: the page is not in the dump, is paged out,   *)
(* or is not mapped in the current process context.  The extension never   *)
(* looks at the returned status or at bytesRead, so what matters is what a *)
(* failed read does to its destination: nothing.                           *)
(***************************************************************************)
EXTENDS Integers

CONSTANT Fault  \* the content of a cell of target memory that cannot be read

ASSUME FaultAssumption == Fault \notin Int

(* What the variable dest holds after reading a cell into it. *)
ReadVirtual(cell, dest) == IF cell = Fault THEN dest ELSE cell
=============================================================================
