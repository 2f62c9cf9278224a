------------------------------ MODULE PsDetails ------------------------------
(***************************************************************************)
(* !psdetails (modules/psdetails.h): for every cached row, read six fields *)
(* of the EPROCESS and, in the context of the process, six of its          *)
(* RTL_USER_PROCESS_PARAMETERS into the row, and print the row.            *)
(*                                                                         *)
(* The rows outlive the command.  A field that cannot be read this time    *)
(* shows what an earlier call read; !pslist, which loads the cache anew,   *)
(* starts from zeros.  Between two commands the target runs: memory is     *)
(* paged in and out, and processes change their parameters.  Instead of    *)
(* its content a field holds when, and of which process, it was read.      *)
(***************************************************************************)
EXTENDS DbgEng, Sequences, FiniteSetsExt

CONSTANTS
  Targets,   \* the cached rows: of each, whether the process has a PEB
  Memories,  \* what may be readable of a process, see Memory
  MaxCalls   \* bound: how many times !psdetails is given

KernelFields ==
  {"ProcessQuotaUsage", "ProcessQuotaPeak", "SectionObject", "SectionBaseAddress", "Cookie", "Token"}

UserFields ==
  {"CommandLine", "WindowTitle", "DesktopInfo", "CurrentDirectory", "StartingX", "StartingY"}

Fields == KernelFields \cup UserFields

(* Arrays of the row that are printed with %p: the column shows where in   *)
(* the debugger the row lies and never what was read into it.              *)
Quotas == {"ProcessQuotaUsage", "ProcessQuotaPeak"}

(* Of a string the row has the address only.  %mu looks it up when the row *)
(* is printed, in the context that the process has been given by then.     *)
Strings == {"CommandLine", "WindowTitle", "DesktopInfo"}

(* switches  `.process /p` succeeds                                        *)
(* peb       the page of the PEB can be read                               *)
(* params    PEB.ProcessParameters is not null                             *)
(* fields    the fields, of the EPROCESS and the parameters, in memory     *)
Memory == [switches : BOOLEAN, peb : BOOLEAN, params : BOOLEAN, fields : SUBSET Fields]

(* What a field holds is not what cannot be read.  StartingX and StartingY *)
(* share eight aligned bytes and so a page.                                *)
ASSUME PsDetailsAssumption ==
  /\ Targets \subseteq Seq(BOOLEAN) /\ MaxCalls \in Nat
  /\ Fault \notin Nat \X Nat /\ Memories # {}
  /\ \A m \in Memories : m \in Memory /\ ("StartingX" \in m.fields <=> "StartingY" \in m.fields)

VARIABLES
  procs,     \* the cached rows
  memory,    \* what can be read of each process
  context,   \* the process whose user memory is mapped, 0 for none of these
  p,         \* the row the loop is at
  details,   \* the fields of each row
  lines,     \* what this call, or the last, has printed
  calls,     \* calls of !psdetails so far
  loads,     \* history: `calls` when the cache was last loaded
  past       \* history: for each call the memory and the context it found

vars == <<procs, memory, context, p, details, lines, calls, loads, past>>

Procs == DOMAIN procs

Nothing == <<0, 0>>  \* zero, as InitProcessInformation leaves it

Idle == p > Len(procs)

(* Mutant: nothing is set; the row is what the stack held. *)
GarbageInformation(allocated) == [q \in Procs |-> [f \in Fields |-> <<0, -1>>]]

(* InitProcessInformation: every row has details of its own, in a block    *)
(* that VirtualAlloc gives it, or no details if it does not.               *)
InitProcessInformation(allocated) ==
  [q \in Procs |-> [f \in IF q \in allocated THEN Fields ELSE KernelFields |-> Nothing]]

-----------------------------------------------------------------------------

Init ==
  /\ procs \in Targets
  /\ memory = [q \in Procs |-> CHOOSE m \in Memories : TRUE] /\ context = 0
  /\ p = Len(procs) + 1 /\ lines = <<>>
  /\ \E allocated \in SUBSET Procs : details = InitProcessInformation(allocated)
  /\ calls = 0 /\ loads = 0 /\ past = <<>>

(* The command is given.  Since the one before, the target may have run,   *)
(* and the user have switched the context.                                 *)
Begin ==
  /\ Idle /\ calls < MaxCalls
  /\ memory' \in [Procs -> Memories]
  /\ context' \in {0} \cup Procs
  /\ p' = 1 /\ lines' = <<>> /\ calls' = calls + 1
  /\ past' = Append(past, [memory |-> memory', context |-> context'])
  /\ UNCHANGED <<procs, details, loads>>

(* A field read at an EPROCESS or in the parameters of process q. *)
Cell(q, f) == IF f \in memory[q].fields THEN <<q, calls>> ELSE Fault

(* What the fields of row p become when those of a set can be reached.  It *)
(* takes eight bytes to read StartingX, and they hold StartingY as well.   *)
ReadInto(row, reached) ==
  [f \in DOMAIN row |->
     IF f \in reached
     THEN ReadVirtual(Cell(p, IF f = "StartingY" THEN "StartingX" ELSE f), row[f])
     ELSE row[f]]

(* Mutant: the context stays where the user, or the row before, left it.   *)
NotSwitched == context

(* SwitchProcessContext. *)
Switched == IF memory[p].switches THEN p ELSE context

(* The PEB of process p, which the row has the address of, in a context.   *)
PebMapped(c) == procs[p] /\ c = p /\ memory[p].peb

(* Mutant: a pointer that cannot be read counts as null. *)
NullOrUnreadable(c) == PebMapped(c) => ~memory[p].params

NullParams(c) == PebMapped(c) /\ ~memory[p].params

HasDetails == UserFields \subseteq DOMAIN details[p]

(* Row p is completed and the words of some fields are printed; the strings *)
(* among them are then what lies at their addresses in the context.        *)
Report(reached, printed) ==
  /\ details' = [details EXCEPT ![p] = ReadInto(@, reached)]
  /\ lines' = Append(lines, [process |-> p, shown |-> printed \ Quotas, row |-> details'[p],
                             context |-> context'])
  /\ UNCHANGED <<procs, memory, calls, loads, past>>

(* The fields of the EPROCESS are printed.  So are those of the parameters *)
(* unless a null pointer was read.                                         *)
VisitWithoutParams ==
  /\ ~Idle /\ context' = Switched /\ NullParams(context')
  /\ Report(KernelFields, KernelFields)
  /\ p' = p + 1

(* A row has no block for them, and the command breaks off.                *)
VisitWithoutDetails ==
  /\ ~Idle /\ context' = Switched /\ ~NullParams(context') /\ ~HasDetails
  /\ Report(KernelFields, KernelFields)
  /\ p' = Len(procs) + 1

(* If the pointer cannot be read, pParams keeps the address it was to be   *)
(* read from; that is not null, and what the fields are then read from     *)
(* lies in the page of the PEB, or at the bottom of memory, which can be   *)
(* read no more than the pointer.                                          *)
Visit ==
  /\ ~Idle /\ context' = Switched /\ ~NullParams(context') /\ HasDetails
  /\ Report(KernelFields \cup (IF PebMapped(context') THEN UserFields ELSE {}), Fields)
  /\ p' = p + 1

(* !pslist loads the cache; the processes are the same, their rows new. *)
Pslist ==
  /\ Idle
  /\ \E allocated \in SUBSET Procs : details' = InitProcessInformation(allocated)
  /\ loads' = calls
  /\ UNCHANGED <<procs, memory, context, p, lines, calls, past>>

Next == Begin \/ Visit \/ VisitWithoutParams \/ VisitWithoutDetails \/ Pslist

Spec == Init /\ [][Next]_vars

-----------------------------------------------------------------------------

Stamp == {Nothing} \cup (Procs \X (1..MaxCalls))

Row == [Fields -> Stamp] \cup [KernelFields -> Stamp]

TypeOK ==
  /\ procs \in Targets
  /\ memory \in [Procs -> Memories] /\ context \in {0} \cup Procs
  /\ p \in 1..(Len(procs) + 1) /\ calls \in 0..MaxCalls /\ loads \in 0..calls
  /\ details \in [Procs -> Row]
  /\ lines \in Seq([process : Procs, shown : {Fields \ Quotas, KernelFields \ Quotas}, row : Row,
                    context : {0} \cup Procs])
  /\ Len(past) = calls

(* The process the context was at when the k-th call came to process q.    *)
ContextAt(k, q) ==
  LET switched == {r \in 1..q : past[k].memory[r].switches} IN
  IF switched = {} THEN past[k].context ELSE Max(switched)

(* Whether the k-th call could read the PEB of process q; a field of it.   *)
ReadablePeb(k, q) == procs[q] /\ ContextAt(k, q) = q /\ past[k].memory[q].peb

Readable(k, q, f) ==
  LET m == past[k].memory[q] IN
  f \in m.fields /\ (f \in UserFields => ReadablePeb(k, q) /\ m.params)

(* Whether the k-th call, one since the load, breaks off at process q: it  *)
(* has no block, and no null pointer to its parameters is read.            *)
BreaksOff(k, q) ==
  /\ DOMAIN details[q] = KernelFields
  /\ ReadablePeb(k, q) => past[k].memory[q].params

Reaches(k, q) == \A r \in 1..(q - 1) : ~BreaksOff(k, r)

(* A word shown, a number or the address of a string, was read by the      *)
(* latest call since the load that got so far and could read it, out of    *)
(* the line's own process, or is zero if none could: a failed read or      *)
(* switch never leaves the word of another process in the row, nor one     *)
(* from before the load (psdetails.h:78-107, 145-157).  Of the string that *)
(* then lies at the address StringsOfOwnProcess says more; the two quota   *)
(* columns show no word that was read.                                     *)
LatestReadShown ==
  \A n \in DOMAIN lines :
    LET q == lines[n].process IN
    \A f \in lines[n].shown :
      LET able == {k \in (loads + 1)..calls : Reaches(k, q) /\ Readable(k, q, f)} IN
      loads < calls =>
        lines[n].row[f] = IF able = {} THEN Nothing ELSE <<q, Max(able)>>

(* A string is looked up in a process other than the line's only if the    *)
(* switch to that one failed in this call; the address is then left from   *)
(* an earlier call since the load, one that had the process's own context, *)
(* and what is printed is what another process has there (pslist.h:16-21,  *)
(* psdetails.h:80-89, 111-113, 155-156).                                   *)
StringsOfOwnProcess ==
  \A n \in DOMAIN lines :
    LET line == lines[n]  q == line.process IN
    \A f \in line.shown \cap Strings :
      loads < calls /\ line.row[f] # Nothing /\ line.context # q =>
        /\ ~past[calls].memory[q].switches
        /\ \E k \in (loads + 1)..(calls - 1) : line.row[f] = <<q, k>> /\ ContextAt(k, q) = q

(* A call reports every row unless it breaks off: at the first row without *)
(* a block, even when nothing of the process can be read, or it has no     *)
(* PEB; only a null pointer to the parameters, read as such, saves it      *)
(* (utils.h:300-307, psdetails.h:80-88).                                   *)
BreaksOffWithoutBlock ==
  LET stops == {q \in Procs : BreaksOff(calls, q)} IN
  Idle /\ loads < calls => Len(lines) = IF stops = {} THEN Len(procs) ELSE Min(stops)
=============================================================================
