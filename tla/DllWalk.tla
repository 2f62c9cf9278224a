------------------------------ MODULE DllWalk ------------------------------
(***************************************************************************)
(* !dlllist (modules/dlllist.h): the loop over the processes and, for each *)
(* of them, the walk along InLoadOrderModuleList (ParseDllNames).          *)
(*                                                                         *)
(* The lists are user memory: an address means what the process context    *)
(* makes of it.  PEBs lie elsewhere in every process, so that of another   *)
(* one is not mapped; the loader data is a variable of ntdll and so at one *)
(* address in all of them.  The context is switched by a command to the    *)
(* debugger whose outcome nobody looks at.                                 *)
(*                                                                         *)
(* A list entry is its number; 0 is the list head in PEB_LDR_DATA.         *)
(***************************************************************************)
EXTENDS DbgEng, Sequences

CONSTANTS
  Targets,  \* the cached processes, in every way to consider
  MaxRows   \* bound: the lines of a walk that does not end

(* DllName stands for the path as well.  What the name columns hold is the *)
(* address of a string in the process walked, which the debugger looks up  *)
(* in the context the line is printed in: the one it was read in.          *)
Column == {"DllName", "ImageBase", "RefCnt", "LoadReason"}

(* Of an entry: the link to the next one and SizeOfImage can be read, and  *)
(* what else can.                                                          *)
Module == [link : BOOLEAN, size : BOOLEAN, data : SUBSET Column]

(* peb        EPROCESS.Peb: 1 for a PEB, 0 for none                        *)
(* level      whether EPROCESS.Protection is not zero                      *)
(* switches   `.process /p` succeeds                                       *)
(* ldr        PEB.Ldr: 1 for the loader data, 0 before there is any        *)
(* head       PEB_LDR_DATA can be read                                     *)
(* shutdown   PEB_LDR_DATA.ShutdownThreadId is not zero                    *)
(* behind     the words behind PEB_LDR_DATA are not zero                   *)
Process == [peb : {0, 1, Fault}, level : BOOLEAN \cup {Fault}, switches : BOOLEAN,
            ldr : {0, 1, Fault}, head : BOOLEAN, shutdown : BOOLEAN, behind : BOOLEAN,
            modules : Seq(Module)]

ASSUME DllAssumption == Targets \subseteq Seq(Process) /\ MaxRows \in Nat

VARIABLES
  procs,    \* the cached processes
  p,        \* the process the outer loop is at
  context,  \* the process whose user memory is mapped, 0 for none of these
  Peb,      \* a process: its PEB; or 0
  Ldr,      \* 1: the address of the loader data; or 0
  Flink,    \* an entry of the list in `context`; or NoEntry
  columns,  \* the module, <<process, entry>>, each column was read from
  rows,     \* the lines printed
  pc        \* "process": in the outer loop, "module": in ParseDllNames, "done"

vars == <<procs, p, context, Peb, Ldr, Flink, columns, rows, pc>>

NoEntry == -1
Nowhere == <<0, NoEntry>>  \* zero, or a value by chance

PebCell(q) == IF procs[q].peb = 1 THEN q ELSE procs[q].peb

(* PEB.Ldr, read through process b's PEB in process c. *)
LdrCell(b, c) == IF b = c THEN procs[c].ldr ELSE Fault

(* The entry behind the k-th in process c, or the head. *)
Entry(c, k) == IF k < Len(procs[c].modules) THEN k + 1 ELSE 0

(* isPPL: a byte that could not be read is whatever the stack held. *)
isPPL(q) == IF procs[q].level = Fault THEN BOOLEAN ELSE {procs[q].level}

-----------------------------------------------------------------------------
(* An iteration of ParseDllNames                                            *)

LinkCell(c, k) ==
  IF (IF k = 0 THEN procs[c].head ELSE procs[c].modules[k].link) THEN Entry(c, k) ELSE Fault

(* Mutant: the entry is read before the loop goes on to it. *)
AdvanceTwice == LET k == ReadVirtual(LinkCell(context, Flink), Flink) IN
                ReadVirtual(LinkCell(context, k), k)

(* It advances before it reads anything. *)
Advance == ReadVirtual(LinkCell(context, Flink), Flink)

(* The field of the head that is where an entry has SizeOfImage is         *)
(* ShutdownThreadId; a size that cannot be read is the zero it is reset to. *)
SizeOfImage(c, k) ==
  IF k = 0 THEN procs[c].shutdown ELSE procs[c].modules[k].size

(* Only the words behind the head can be an empty FullDllName: where it    *)
(* cannot be read, Buffer keeps what it held before.                       *)
NoPath(c, k) == k = 0 /\ ~procs[c].behind

(* Mutant: nothing is reset behind a line. *)
KeptWithoutReset == Column

(* The rest is reset, or a local of ParseLoadReason. *)
Kept == {"DllName", "RefCnt"}

Columns(c, k) ==
  [f \in Column |-> CASE k = 0 \/ f \in procs[c].modules[k].data -> <<c, k>>
                      [] OTHER -> IF f \in Kept THEN columns[f] ELSE Nowhere]

(* Mutant: nothing but the link is looked at. *)
EndsAtPath(k) == NoPath(context, k)

(* The entry reads as none. *)
Ends(k) == NoPath(context, k) \/ ~SizeOfImage(context, k)

-----------------------------------------------------------------------------

Init ==
  /\ procs \in Targets
  /\ context \in {0} \cup DOMAIN procs
  /\ p = 1 /\ Peb = 0 /\ Ldr = 0 /\ Flink = NoEntry
  /\ columns = [f \in Column |-> Nowhere]
  /\ rows = <<>> /\ pc = "process"

(* Without a PEB the process is passed over before the switch. *)
SkipWithoutPeb ==
  /\ pc = "process" /\ p <= Len(procs)
  /\ Peb' = ReadVirtual(PebCell(p), Peb)
  /\ Peb' = 0
  /\ p' = p + 1
  /\ UNCHANGED <<procs, context, Ldr, Flink, columns, rows, pc>>

(* Mutants: the context is left as it is; the loop variable is one ahead.  *)
NotSwitched == context

SwitchedAhead == IF procs[p].switches THEN p + 1 ELSE context

(* SwitchProcessContext. *)
Switched == IF procs[p].switches THEN p ELSE context

(* Nor is a protected one looked at, but the context is switched first. *)
SkipProtected ==
  /\ pc = "process" /\ p <= Len(procs)
  /\ Peb' = ReadVirtual(PebCell(p), Peb)
  /\ Peb' # 0 /\ TRUE \in isPPL(p)
  /\ context' = Switched
  /\ p' = p + 1
  /\ UNCHANGED <<procs, Ldr, Flink, columns, rows, pc>>

(* Into ParseDllNames, down to its loop.  Of its locals only DllName is    *)
(* not initialised: it may hold what the call before left there.           *)
Enter ==
  /\ pc = "process" /\ p <= Len(procs)
  /\ Peb' = ReadVirtual(PebCell(p), Peb)
  /\ Peb' # 0 /\ FALSE \in isPPL(p)
  /\ context' = Switched
  /\ Ldr' = ReadVirtual(LdrCell(Peb', context'), Ldr)
  /\ Flink' = (IF Ldr' = 1 /\ context' # 0 /\ procs[context'].head THEN Entry(context', 0) ELSE NoEntry)
  /\ \E name \in {columns["DllName"], Nowhere} :
       columns' = [f \in Column |-> IF f = "DllName" THEN name ELSE Nowhere]
  /\ pc' = "module"
  /\ UNCHANGED <<procs, p, rows>>

Finish ==
  /\ pc = "process" /\ p > Len(procs)
  /\ pc' = "done"
  /\ UNCHANGED <<procs, p, context, Peb, Ldr, Flink, columns, rows>>

(* Mutant: an entry is the last if the one behind it is the head. *)
StuckAtLast == IF Flink = NoEntry THEN TRUE ELSE Entry(context, Advance) = 0

(* No list, a link that cannot be read or leads to itself. *)
Stuck == IF Flink = NoEntry THEN TRUE ELSE Advance = Flink

Leave ==
  /\ pc = "module"
  /\ \/ Stuck /\ UNCHANGED <<Flink, columns>>
     \/ ~Stuck /\ Ends(Advance) /\ Flink' = Advance /\ columns' = Columns(context, Advance)
  /\ p' = p + 1 /\ pc' = "process"
  /\ UNCHANGED <<procs, context, Peb, Ldr, rows>>

Visit ==
  /\ pc = "module" /\ ~Stuck /\ ~Ends(Advance) /\ Len(rows) < MaxRows
  /\ Flink' = Advance /\ columns' = Columns(context, Advance)
  /\ rows' = Append(rows, [process |-> p, module |-> <<context, Advance>>, columns |-> columns'])
  /\ UNCHANGED <<procs, p, context, Peb, Ldr, pc>>

Ended == (pc = "done" \/ Len(rows) = MaxRows) /\ UNCHANGED vars

Next == SkipWithoutPeb \/ SkipProtected \/ Enter \/ Finish \/ Leave \/ Visit \/ Ended

Spec == Init /\ [][Next]_vars

(* The engine runs a command to its end. *)
FairSpec == Spec /\ WF_vars(Next)

-----------------------------------------------------------------------------

Entries == {Nowhere} \cup UNION {{c} \X (0..Len(procs[c].modules)) : c \in DOMAIN procs}

TypeOK ==
  /\ procs \in Targets
  /\ p \in 1..(Len(procs) + 1) /\ context \in {0} \cup DOMAIN procs
  /\ Peb \in {0} \cup DOMAIN procs /\ Ldr \in {0, 1}
  /\ pc \in {"process", "module", "done"}
  /\ pc = "module" => <<context, Flink>> \in Entries \/ Flink = NoEntry
  /\ columns \in [Column -> Entries]
  /\ rows \in Seq([process : 1..Len(procs), module : Entries, columns : [Column -> Entries]])

(* A line names one process over the module of another only where the      *)
(* switch of the context failed: a PEB or a loader address left over from  *)
(* an earlier process does no harm (dlllist.h:131-132, 146, 164, 174).     *)
OwnModulesWhereSwitched ==
  \A n \in DOMAIN rows :
    rows[n].module[1] # rows[n].process => ~procs[rows[n].process].switches

(* Under a process the lines follow the list one by one from its second    *)
(* entry on, and go around it if they go on: none is left out or doubled   *)
(* (dlllist.h:65-71, 108).                                                 *)
FollowsListFromSecond ==
  \A n \in DOMAIN rows :
    LET c == rows[n].module[1]
        before == IF n > 1 /\ rows[n - 1].process = rows[n].process
                  THEN rows[n - 1].module[2] ELSE Entry(c, 0)
    IN rows[n].module[2] = Entry(c, before)

(* A line shows in a column something of another module only if that of    *)
(* its own cannot be read: the module before in this process's list for    *)
(* names and counts, a process before for names alone, and only if none of *)
(* the entries so far could be read; bases and load reasons never come     *)
(* from elsewhere (dlllist.h:21-30, 41-47, 75-86, 104-107).                *)
ColumnsFromBefore ==
  \A n \in DOMAIN rows, f \in Column :
    LET c == rows[n].module[1]  k == rows[n].module[2]  from == rows[n].columns[f] IN
    from # rows[n].module =>
      /\ k > 0 /\ f \notin procs[c].modules[k].data
      /\ from # Nowhere => f \in {"DllName", "RefCnt"}
      /\ from[1] \notin {0, c} => f = "DllName" /\ \A j \in 2..k : f \notin procs[c].modules[j].data

(* The way to the list of a process can be read, and the switch succeeds.  *)
Open(q) ==
  procs[q].peb = 1 /\ procs[q].switches /\ procs[q].ldr = 1 /\ procs[q].head

Shows(q, k) == \E n \in DOMAIN rows : rows[n].process = q /\ rows[n].module[2] = k

(* Every link up to the k-th entry can be read, and every size but that of *)
(* the first, which nobody looks at.                                       *)
Reached(q, k) ==
  /\ \A j \in 1..(k - 1) : procs[q].modules[j].link
  /\ \A j \in 2..k : procs[q].modules[j].size

ShownWhileReadable(q) ==
  \/ /\ FALSE \in isPPL(q)
     /\ \A k \in 2..Len(procs[q].modules) : Shows(q, k) <=> Reached(q, k)
  \/ /\ TRUE \in isPPL(q)
     /\ \A n \in DOMAIN rows : rows[n].process # q

(* A list is shown from its second entry, the first being the program      *)
(* itself, to the first one whose size or the link to which cannot be read,*)
(* and to its end if there is none.  A protected process has no line, and  *)
(* one whose protection cannot be read has all of these or none            *)
(* (dlllist.h:65-97, 166-173, processutils.h:56-67).                       *)
ShowsToFirstUnreadable ==
  pc = "done" => \A q \in DOMAIN procs : Open(q) => ShownWhileReadable(q)

(* The loop does not compare with the list head.  It returns all the same  *)
(* if ShutdownThreadId or what is behind PEB_LDR_DATA is zero - that is,   *)
(* unless a process is on its way out (dlllist.h:88-97).                   *)
ReturnsUnlessShuttingDown ==
  (\A q \in DOMAIN procs : ~(procs[q].shutdown /\ procs[q].behind)) => <>(pc = "done")
=============================================================================
