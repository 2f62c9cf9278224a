----------------------------- MODULE EnvarsScan -----------------------------
(***************************************************************************)
(* The loop of !envars (_envars in modules/envars.h): for every process    *)
(* with a PEB, find its parameters, the size and the address of its        *)
(* environment, copy the block to a buffer and have it formatted.          *)
(*                                                                         *)
(* The three words are declared before the loop, and a read that fails     *)
(* leaves them as they are.  All of it is user memory, in the context of a *)
(* process; the parameters and the environment of a process lie where no   *)
(* other process has anything mapped.                                      *)
(*                                                                         *)
(* Sizes are in UTF-16 units.  An entry is one unit, its number.  What the *)
(* formatter makes of a block that ends inside the buffer is taken from    *)
(* EnvFormatter, for entries that all have a separator.                    *)
(***************************************************************************)
EXTENDS DbgEng, Sequences, FiniteSetsExt

CONSTANTS
  Targets,   \* the cached processes, in every way to consider
  PageUnits  \* the units of a page

(* Peb          the cached address of the PEB is not zero                  *)
(* switches     `.process /p` succeeds                                     *)
(* params       PEB.ProcessParameters can be read                          *)
(* size, env    EnvironmentSize and Environment can be read                *)
(* entries      how many entries the environment has                       *)
(* have         how many of its units, from the first on, can be read      *)
Process == [Peb : BOOLEAN, switches : BOOLEAN, params : BOOLEAN, size : BOOLEAN,
            env : BOOLEAN, entries : Nat, have : Nat]

ASSUME EnvarsAssumption == Targets \subseteq Seq(Process) /\ PageUnits \in Nat \ {0}

VARIABLES
  procs,             \* the cached processes
  origin,            \* history: `context` when the command was given
  p,                 \* the process the loop is at
  context,           \* the process whose user memory is mapped, 0 for none of these
  RtlProcessParams,  \* a process: its parameters; or 0
  EnvSize,
  Environment,       \* a process: its environment; or 0
  rows,              \* what was printed for each process
  pc  \* "process": in the loop, "done", "null": the formatter was given no
      \* buffer, "overrun": it ran off the end of its buffer

locals == <<RtlProcessParams, EnvSize, Environment>>
vars == <<procs, origin, p, context, locals, rows, pc>>

NUL == 0

(* The environment block of a process: each entry ends with a NUL, the     *)
(* block with one more; an empty block is two of them.                     *)
Block(q) ==
  LET n == procs[q].entries IN
  IF n = 0 THEN <<NUL, NUL>>
  ELSE [k \in 1..(2 * n + 1) |-> IF k % 2 = 1 /\ k < 2 * n THEN (k + 1) \div 2 ELSE NUL]

(* Mutant: a read that fails clears its destination. *)
WordOrZero(q, c, present, value) == IF q # 0 /\ q = c /\ present THEN value ELSE 0

(* A word that process q has in its user memory, as the context c shows it. *)
Word(q, c, present, value) == IF q # 0 /\ q = c /\ present THEN value ELSE Fault

NotSwitched == context  \* mutant: the context is left as it is

(* SwitchProcessContext. *)
Switched == IF procs[p].switches THEN p ELSE context

-----------------------------------------------------------------------------
(* VirtualAlloc: whole pages, cleared. *)
Allocated(size) == ((size + PageUnits - 1) \div PageUnits) * PageUnits

(* Mutant: the buffer has the size of the block and no more. *)
BufferExact(env, size, c) ==
  LET n == IF env # 0 /\ env = c THEN procs[env].have ELSE 0 IN
  [k \in 1..size |-> IF k <= n /\ k <= Len(Block(env)) THEN Block(env)[k] ELSE NUL]

(* The buffer after the block at env was read into it, in full or up to    *)
(* the page that is missing.  What lies behind a block is not looked at.   *)
Buffer(env, size, c) ==
  LET n == IF env # 0 /\ env = c THEN procs[env].have ELSE 0 IN
  [k \in 1..Allocated(size) |->
     IF k <= n /\ k <= size /\ k <= Len(Block(env)) THEN Block(env)[k] ELSE NUL]

(* Where two NULs in a row are. *)
Ends(buf) == {k \in 1..(Len(buf) - 1) : buf[k] = NUL /\ buf[k + 1] = NUL}

End(buf) == Min(Ends(buf))

(* Mutants: the NULs are printed; the last entry is printed as well. *)
FormatterWithNuls(buf) == SubSeq(buf, 1, End(buf) - 2)

FormatterToTheEnd(buf) == [k \in 1..(End(buf) \div 2) |-> buf[2 * k - 1]]

(* The entries the formatter prints: all up to the end, but for the last.  *)
(* One takes two units, with the NUL behind it.                            *)
Formatter(buf) == [k \in 1..(End(buf) \div 2 - 1) |-> buf[2 * k - 1]]

-----------------------------------------------------------------------------

Init ==
  /\ procs \in Targets
  /\ origin \in {0} \cup DOMAIN procs /\ context = origin
  /\ p = 1 /\ RtlProcessParams = 0 /\ EnvSize = 0 /\ Environment = 0
  /\ rows = <<>> /\ pc = "process"

Skip ==
  /\ pc = "process" /\ p <= Len(procs) /\ ~procs[p].Peb
  /\ p' = p + 1
  /\ UNCHANGED <<procs, origin, context, locals, rows, pc>>

(* The switch of the context and the reads of the three words. *)
ReadWords ==
  /\ pc = "process" /\ p <= Len(procs) /\ procs[p].Peb
  /\ context' = Switched
  /\ RtlProcessParams' = ReadVirtual(Word(p, context', procs[p].params, p), RtlProcessParams)
  /\ LET q == RtlProcessParams' IN
       /\ EnvSize' = ReadVirtual(Word(q, context', procs[q].size, Len(Block(q))), EnvSize)
       /\ Environment' = ReadVirtual(Word(q, context', procs[q].env, q), Environment)

(* The lines of process p: the three words and the entries. *)
Printed(lines) ==
  rows' = Append(rows, [process |-> p, Params |-> RtlProcessParams', EnvironmentSize |-> EnvSize',
                        Environment |-> Environment', lines |-> lines])

(* VirtualAlloc gives nothing for a size of zero; that is reported, and    *)
(* the formatter started all the same.                                     *)
VisitWithoutBuffer ==
  /\ ReadWords /\ EnvSize' = 0
  /\ Printed(<<>>) /\ pc' = "null"
  /\ UNCHANGED <<procs, origin, p>>

(* The block that was read has no end inside the buffer. *)
VisitBeyondBuffer ==
  /\ ReadWords /\ EnvSize' # 0
  /\ Ends(Buffer(Environment', EnvSize', context')) = {}
  /\ Printed(<<>>) /\ pc' = "overrun"
  /\ UNCHANGED <<procs, origin, p>>

Visit ==
  /\ ReadWords /\ EnvSize' # 0
  /\ LET buf == Buffer(Environment', EnvSize', context') IN
       Ends(buf) # {} /\ Printed(Formatter(buf))
  /\ p' = p + 1
  /\ UNCHANGED <<procs, origin, pc>>

Finish ==
  /\ pc = "process" /\ p > Len(procs)
  /\ pc' = "done"
  /\ UNCHANGED <<procs, origin, p, context, locals, rows>>

Next == Skip \/ Visit \/ VisitWithoutBuffer \/ VisitBeyondBuffer \/ Finish

Spec == Init /\ [][Next]_vars

-----------------------------------------------------------------------------

Someone == {0} \cup DOMAIN procs

TypeOK ==
  /\ procs \in Targets
  /\ p \in 1..(Len(procs) + 1)
  /\ {origin, context, RtlProcessParams, Environment} \subseteq Someone
  /\ EnvSize \in {0} \cup {Len(Block(q)) : q \in DOMAIN procs}
  /\ rows \in Seq([process : DOMAIN procs, Params : Someone, EnvironmentSize : Nat,
                   Environment : Someone, lines : Seq(Nat \ {0})])
  /\ pc \in {"process", "done", "null", "overrun"}

(* The process the context is at while q is visited. *)
ContextAt(q) ==
  LET switched == {r \in 1..q : procs[r].Peb /\ procs[r].switches} IN
  IF switched = {} THEN origin ELSE Max(switched)

(* Under a process stand the first entries of one environment, in order    *)
(* and without the last, and it is the process's own unless the switch to  *)
(* it failed, whatever the words left over from others point to            *)
(* (envars.h:203-206, 211-222).                                            *)
EntriesOfTheContext ==
  \A n \in DOMAIN rows :
    LET row == rows[n]  q == row.Environment IN
    row.lines # <<>> =>
      /\ q = ContextAt(row.process)
      /\ Len(row.lines) < procs[q].entries
      /\ \A k \in DOMAIN row.lines : row.lines[k] = k

(* All of a process that the loop looks for can be read. *)
Readable(q) ==
  /\ procs[q].switches /\ procs[q].params /\ procs[q].size /\ procs[q].env
  /\ procs[q].have >= Len(Block(q))

(* Nothing of an unreadable process lasts into a readable one: that one is *)
(* shown with its own words and entries, but for the last                  *)
(* (envars.h:203-206, 238-241).                                            *)
ReadableShownInFull ==
  \A n \in DOMAIN rows :
    LET row == rows[n]  q == row.process IN
    Readable(q) =>
      /\ {row.Params, row.Environment} = {q} /\ row.EnvironmentSize = Len(Block(q))
      /\ Len(row.lines) = (IF procs[q].entries = 0 THEN 0 ELSE procs[q].entries - 1)

(* The command breaks off for want of a buffer only if it has not read the *)
(* size of any environment: one process in memory, early enough, saves all *)
(* that are not (envars.h:204, 214-219).                                   *)
NullOnlyBeforeAnySize ==
  pc = "null" =>
    \A q \in 1..p : ~(procs[q].Peb /\ procs[q].switches /\ procs[q].params /\ procs[q].size)

(* The formatter runs off its buffer only over a block longer than the     *)
(* size read for it, which is then the size of another process, and only   *)
(* if the pages leave no room for two NULs: the four bytes more that the   *)
(* comment speaks of would be enough (envars.h:22, 214-222, 40).           *)
OverrunOnlyAtAnothersSize ==
  pc = "overrun" =>
    /\ Environment = context /\ EnvSize < Len(Block(context))
    /\ Allocated(EnvSize) < EnvSize + 2
    /\ ~procs[context].size
    /\ \E q \in 1..(p - 1) : EnvSize = Len(Block(q)) /\ procs[q].size
=============================================================================
