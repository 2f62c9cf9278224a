# XDbgTrace, specified

TLA+ specifications of the WinDbg extension in `src/DbgExtension`, the
configurations that model-check them with TLC, and proofs checked with TLAPS.

## The system

The extension is a DLL in the debugger's process. The debugger engine calls one
exported function per command (`!pslist`, `!threads`, ...), one at a time and to
its end; the target, a machine under a kernel debugger or a memory dump, stands
still meanwhile. The only state that outlives a command are three globals:
`processList`, `SessionInfoList` and `xDbg`. Every command but `!pslist` starts
by loading `processList` if it is empty (`LoadRequirements`) and then loops over
it, following pointers in target memory.

There are no threads, locks or messages. What makes the program hard is that

- **memory may not be there** - paged out, not in the dump, not mapped. A failed
  read leaves its destination as it was, and the extension never looks at a
  read's status. Whatever the variable held before, zero or the value of the
  previous process, is taken for the answer;
- **lists have no sentinel test** - the loops over kernel lists end because of
  what they happen to read at or around the list head;
- **the cache ages** - on a live target processes start, exit and reuse each
  other's EPROCESS blocks between two commands, while the cache stays.

### Components

| component | state it keeps | operations | correct if |
|---|---|---|---|
| process walk, `parsepslist` (pslist.h) | `processList`; locals `current`, one record | called by `!pslist`, by `LoadRequirements`, by `!dlllist` | it ends if a zero lies on its way; the vector is exactly the processes it can reach, in list order |
| commands (dbgextension.cpp) | `processList`, `SessionInfoList`, `xDbg` | `!pslist [option]`, `!dlllist`, `!psdetails`, `!threads`, `!sessions`, `!envars` | what is shown belongs together; display order does not leak; a refused interface does no harm |
| requirements (resolver.h) | none | `LoadRequirements` | the cache is never empty while the target's list can be read |
| options (`check_args`) | sorts `processList` in place | `-p -a -v -pvs -ct -n -nr` | the order the help text states |
| environment formatter (`EnvFormatter`, envars.h) | four positions and a buffer | `Formatter` | no read outside the buffer; the lines are the entries of the block; it ends |
| `!envars` loop (envars.h) | locals reused across processes | `_envars` | each environment under its own process |
| `!threads` (threads.h) | locals reused across processes and threads | `_threads` | each thread under its own process, once; the loops end |
| `!sessions` (sessions.h) | locals reused across processes; appends to `SessionInfoList` | `_sessions` | each row is of one session, the process's own |
| `!dlllist` (dlllist.h) | locals reused across processes | `_dlllist`, `ParseDllNames` | each module under its own process; the walk ends |
| `!psdetails` (psdetails.h) | completes rows of `processList` in place | `_psdetails`, `ReadPsDetails` | a row describes one process |
| setup (xdbg.h) | `xDbg.dataspaces` | `ISetup` | the interface is there when it is used |
| structures, offsets, protection (utils.h, pdboffset.h, processutils.h) | none | initialisers, lookups | fresh records are fresh |

`!help`, `!objects` and the `-h` options print and change nothing; `dumpinfo`
(dbgextension.cpp:42) does nothing and is not exported. The globals live from the
load of the library to its unloading; `DebugExtensionInitialize` asks the engine for
its interfaces, and when it fails the extension stays out. `DllMain` does nothing.

How they interact: the commands call `LoadRequirements`, which calls
`parsepslist`; all loops read `processList`; `!psdetails` writes into its rows;
`!pslist` sorts it, shows it, and replaces it; `!envars` goes through `xDbg`, the
others ask the engine for interfaces of their own at each call. The hazards the
code is exposed to, each at its line and with the properties that watch it, are
listed in `PROJECT.json`.

## The modules

| module | models | uses |
|---|---|---|
| `DbgEng` | a read of target memory that may fail | |
| `ActiveProcesses` | the active process list and what can be reached of it | `DbgEng` |
| `ProcessSnapshot` | abstract: a load empties the list, then fills it in one go | `ActiveProcesses` |
| `ProcessWalk` | `parsepslist`, an iteration per step; implements `ProcessSnapshot` | `ActiveProcesses` |
| `XDbgTrace` | a session: loading, unloading and every command one step, over a target that runs in between | |
| `EnvFormatter` | class `EnvFormatter`, a loop iteration per step, for one block after the other | |
| `ThreadWalk` | the loops of `!threads` | `DbgEng` |
| `SessionSpaces` | what `!sessions` finds in memory | `DbgEng` |
| `SessionReport` | abstract: a call adds the nearest readable values of every process in one go | `SessionSpaces` |
| `SessionScan` | the loop of `!sessions`; implements `SessionReport` | `SessionSpaces` |
| `DllWalk` | the loops of `!dlllist` | `DbgEng` |
| `EnvarsScan` | the loop of `!envars` around the formatter | `DbgEng` |
| `PsDetails` | `!psdetails`, over rows that outlive it | `DbgEng` |
| `MC...` | values of the constants for TLC | |
| `...Proofs` | the theorems about the module of that name | that module |

`XDbgTrace` composes the commands. It takes `parsepslist` as atomic, which
`ProcessWalk` shows it to be (`ImplementsSnapshot`), and the loops of the other
commands as one step each; `ThreadWalk`, `SessionScan`, `DllWalk`, `EnvarsScan` and
`PsDetails` follow those loops read by read. `EnvarsScan` takes the formatter as a
function of its buffer, which is what `EnvFormatter` shows it to be.

### DbgEng, ActiveProcesses

`ReadVirtual(cell, dest)` is the content of the cell, or `dest` when the cell is
`Fault`. A target has the symbol or not, a readable list head or not, and EPROCESS
blocks whose PID and links can be read or not. Which memory can be read is fixed
for a walk.

### ProcessWalk

`Begin` is the entry of the function down to the loop (pslist.h:126-151), `Visit`
one iteration (153-176): a fresh record (`ProcessInformation`), the reads, the
step to the next address, the four ways to stop (`Stops`), the `push_back`.
Addresses are numbers: block i is at `Base(i)`, its links `LinksOffset` further,
and `process_head` is a link, not a block. After the last block the walk runs on
into the memory in front of `PsActiveProcessHead` and takes it for one more
EPROCESS. The word it finds there as a PID (`before`) may be anything: a zero, or one
that cannot be read, ends the walk (the recorded walks in tests/test.log end after the
last process); another is listed as one more process, and the walk goes round the list
again, since the links in front of the head are the head itself. `MaxRows` cuts off
such a walk (`OutOfRows`). `NoZeroAhead` is the condition under which it happens:
`WalkReturns` says that otherwise the walk ends, `ReturnsOnlyAtZero` that then it does
not. A row keeps `pDetails` as whether `VirtualAlloc` had a block for it
(`allocated`); one without is kept like the others. `WalkAssumption` says that the
offset of the symbols is the 0x448 of line 168, as on the build the extension names
(README.md:9). `TargetRuns` changes the target between calls.

### XDbgTrace

`kernel` is the active list, `pool` the last owner of every EPROCESS address,
`resolved` the symbol. A load reaches a number of processes, all of them or those in
front of one that cannot be read (`Reachable`, where `Truncates`), the same number
as often as one command loads. Names are numbers that rank as `strcmp` would; a
`std::sort` may leave equal keys in any order. `Token` stands for all that
`!psdetails` adds to a row. What a command prints is in `output`: per line, the
process it names and the process whose memory the rest came from. `loaded` is
history: the processes the load that filled the cache has reached; `setups` is what
the engine answered each `!envars`. A command needs the extension to be there
(`initialized`) and is bounded by `MaxCommands`; `api` is what the engine answers
when asked for interfaces: without IDebugControl4 (`noControl`) a command breaks, as
the null pointer is called through; without another the commands refuse, but for
`!envars`, which goes on with what `xDbg` has. `Load` is `DebugExtensionInitialize`,
`Unload` the engine's: the library exports nothing for it, and the globals are gone.
A block whose owner has exited still reads as that owner until it is reused, except
in `Psdetails`, where the reads may also fail (`gone`). `RowsAt` is the rows that a
loop does not pass over with `continue`.

### EnvFormatter

The buffer is what `VirtualAlloc` gives: the block, then zeros to the end of the
page. `LastEntry`, `EntryEnd`, `Slide` are the three ways an iteration of
`Formatter` goes, `Filter` an iteration of `findKeyValueFilter`, `PrintEntry` the
two `ReadTextFromMem` and the move to the next entry. `MidPos < PrevPos` is where
the unsigned subtraction wraps and `std::vector` throws; `thrown` ends the
command. `Reset` is the code's, and the buffer of the next process: `_envars` makes
one formatter for all of them. Characters are their low bytes, as in the code; text
ends at a zero, as `"%s"` prints it. The search for "=" looks at every byte, those on
top of a unit too, passes over the byte behind a hit (`PassedOver`), and the last hit
counts. `Hit`, `Cut` and `Shown` say without a loop where an entry is cut and what is
then left of it: `LinesAreEntries` states it of every line, and that it is the entry in
full where no unit is above 0xff (`Latin`). The specification assumes blocks that were read
whole and are terminated (`EnvironmentAssumption`).

### ThreadWalk

A list entry is named by process and number; number 0 is the head. The low four
bits of an address, which is all `isValidAddress` looks at, tell an ETHREAD
(aligned) from the list head, from zero and from an HRESULT taken for a link:
with the offset of `ThreadListEntry` subtracted the last three are not aligned.
The columns of a line are read one by one and may lie on different pages, so each
records the thread it is of (`fields`). The list also holds threads that have exited;
`Actives` counts the others. `Enter` is the head of the outer loop, `Visit`
an entry, `Leave` the two ways out of the inner loop. `wide` is what an eight-byte
read makes of `ActiveThreads` when the next four bytes are not zero.

### SessionSpaces, SessionReport, SessionScan

Instead of contents a field holds the session it was read from. `Begin` leaves
`Session` with anything an earlier call may have left on the stack. `SessionReport`
is the command without its loop: `Call` adds a row for every process, each value that
of the nearest process up to it where it could be read; `ImplementsReport` maps the
loop to it by hiding the rows until the last is there. The session spaces are read in
the context of the process before; they are kernel memory mapped in every context,
and test.log shows alternating sessions read right.

### DllWalk

The module lists are user memory, so what is read depends on `context`, which
`SwitchProcessContext` changes if the debugger's `.process` succeeds. The loader
data is a variable of ntdll and at the same address in every 64-bit process, so a
leftover `Ldr` still leads to the list of the process switched to; PEBs have
addresses of their own. `SkipWithoutPeb`, `SkipProtected` and `Enter` are the ways
the outer loop goes, `Visit` a line of `ParseDllNames`, `Leave` its returns. The
list head, taken for an entry, has `ShutdownThreadId` where an entry has
`SizeOfImage`, and the words behind PEB_LDR_DATA where it has `FullDllName`; both
names of an entry are one cell. `columns` holds what the line shows besides the name:
which of them the code resets after a line, and which it carries over, is `Kept`.
The name columns are addresses, looked up as the line is printed, in the context the
line was read in. `MaxRows` cuts off the walk that does not end.

### EnvarsScan

`ReadWords` is the switch of the context and the reads of `RtlProcessParams`,
`EnvSize` and `Environment`, of which any may keep what it had. An iteration goes
one of four ways: `Skip`, `Visit`, `VisitWithoutBuffer` (a size of zero, for which
`VirtualAlloc` returns NULL) and `VisitBeyondBuffer` (the block has no end inside
the buffer). The last two end the command; what a read through NULL or behind the
buffer then does is not followed. A block that is read in part ends in the zeros of
the page, as that of vmtoolsd.exe does at tests/test.log:6040. Parameters and
environments have addresses of their own: in a context in which they belong to
nobody, a read of them fails. Sizes count UTF-16 units and an entry is one unit.

### PsDetails

A field holds the process and the call that read it. Two columns never show what was
read: `ProcessQuotaUsage` and `ProcessQuotaPeak` are arrays printed with `%p`
(psdetails.h:71-72), so the address of the row in the debugger is shown
(README.md:71-72 prints two that lie 0x10 apart); `Report` leaves these `Quotas` out
of what a line shows. Three fields are addresses of `Strings`, which `%mu` looks up
when the row is printed (psdetails.h:111-113); a line records the `context` this is
done in. Before each call the target may have run, so what can be read is chosen
anew, and the user may have switched the context. `VisitWithoutParams` is the early
return for a null pointer. A row whose details block could not be allocated
(utils.h:300-307) breaks the command off at the first field (`VisitWithoutDetails`):
the null pointer is the destination of a read. `Visit` is everything else, a pointer
that could not be read included: the address it was to be read from is then taken
for the pointer, and the fields at that address lie in the same page (a PEB is
page-aligned and shorter than a page) or, without a PEB, at the bottom of memory, so
none of them can be read. `Pslist` gives the processes new rows; that rows may also
come to be those of other processes is in `XDbgTrace`.

## The runs

| run | bounds | question |
|---|---|---|
| `process_walk` | lists of up to 3 processes, each whole, without PID or without links; zero, another word or nothing readable before the head; 2 walks of up to 9 rows | is the walk what `ProcessSnapshot` says, when does it end |
| `session` | 4 processes, two in one EPROCESS block, ties in every sort key; 3 commands and unloadings, any number of loads of the extension; loads of the list that reach any part of it; any answer of the engine; live target | what commands see of each other's cache |
| `session_stale` | as `session`, all memory readable | does `!pslist` list the running processes - no |
| `session_twice` | as `session_stale`, on a dump | does `!sessions` list each process once - no |
| `env_formatter` | blocks of up to 4 units, in entries of at most 2, a unit with 0x3d on top counting twice, with and without slack behind the end, in any sequence; pages of 8 bytes | bounds, lines, exceptions, termination |
| `env_last_entry` | as `env_formatter`, up to 2 units | are all variables printed - no |
| `thread_walk` | 2 processes of up to 2 threads, one thing out of the ordinary per thread, any head and count | whose threads, which of them, which order, which columns, termination |
| `session_scan` | up to 4 processes, 2 sessions, one partly readable; 2 calls | is the loop the report made in one step |
| `session_scan_own` | as `session_scan`, all memory readable | is it the process's own session - no |
| `dll_walk` | 2 processes of up to 3 modules, one thing out of the ordinary per process | whose modules, how many of them, which order, whose columns, termination |
| `envars_scan` | 2 processes with anything unreadable, 3 with at most one thing unreadable each; blocks of up to 4 entries; pages of 3 units | whose entries stand where, what leftovers do, when is there no buffer or not enough of it |
| `ps_details` | 2 rows with and without a PEB and a details block, one thing unreadable per process and call; 2 calls | which call read what is shown, whose strings, where it breaks off |

Why the bounds are enough. A walk over three processes has a first, a middle and a
last, and a second walk meets the remains of the first; nine rows are two rounds of
four and one more, so that a walk that goes round is seen going round; longer lists
are covered by the proofs. Three commands suffice to fill the cache, let the target
change, use the cache stale and look at what is left, or to lose it all to an
unloading and start over, or to be granted an interface, refused another, and need
the first; each command's effect depends only on the state, not on the number of
commands before it. Four units are up to four entries, and give the formatter a
separator found, one left over and a last entry; the units are "=", a plain letter,
and two with the byte of "=" on top and zero or once more that byte below: each can
be cut within, and two of the last give the search a byte to pass over. Blocks both
fill a page and do not, any may follow any, and an empty entry ends a block before
its memory does (or, as the first, ends nothing). In `ThreadWalk`, `SessionScan` and
`DllWalk` a value outlives an iteration only through a handful of variables, and two
processes (four for sessions) let each be left over, overwritten, and left over
again. A list of three modules has one passed over, one in the middle and a last;
six lines are more than any walk that ends can print, so that one that goes round is
seen going round. The sizes of environments leave no room, one unit, and two units
in their last page, and each of them is met by a longer block; three processes let a
context outlive one whose switch failed. Two calls of `!psdetails` and the loads
around them give a field every past it can have: none, this call, the one before,
and one before the load.

Four runs end in a counterexample: the code does not do what a document of the
repository says.

- `!pslist` displays the cache before it refreshes it (dbgextension.cpp:64-67)
  against README.md:16, "list down the all running process".
- `!sessions` never empties `SessionInfoList` (sessions.h:177) against help.h:13.
- `!envars` leaves out the last variable of every block (envars.h:41) against
  README.md:132. In tests/test.log 112 blocks print `USERPROFILE`, only the 6 with
  a variable behind `windir` print `windir`.
- `!sessions` shows a process without a session in that of the process before it
  (sessions.h:127) against README.md:107; tests/test.log:2689, MemCompression.

Five more are plain to see from the actions, and have no run of their own.

- `!threads` takes the first `ActiveThreads` entries of a list that also holds
  exited threads (threads.h:84) against README.md:81, "active threads";
  `ShowsAsManyAsRun` says exactly which are shown and which are not.
- `!psdetails` shows where a row lies in the debugger under `ProcessQuotaUsage` and
  `ProcessQuotaPeak` (`Quotas`, psdetails.h:71-72), as at README.md:71-72.
- `!dlllist` passes over protected processes in silence (`SkipProtected`,
  dlllist.h:166) against README.md:34, "for each process"; tests/test.log:265 shows
  that the user memory of csrss.exe was there to read.
- `!envars` shows a process whose PEB cannot be read with the parameters of an
  earlier one (`ReadWords`, envars.h:213) against README.md:132; tests/test.log:6649,
  6657, 6665.
- `!envars` allocates the size of the block and no more (`Allocated`, envars.h:215)
  against the comment at envars.h:22, "4 bytes extra". Those bytes would matter: by
  `OverrunOnlyAtAnothersSize` the formatter leaves its buffer only where they are
  missing, over a block whose own size could not be read.

A walk that does not return is no such disagreement, as no document speaks of it:
`WalkReturns` and `ReturnsOnlyAtZero` together state when the walk of the process list
returns, `ReturnsUnlessShuttingDown` when `!dlllist` does, and its premise is
needed - in a process that is shutting down the walk goes round for ever.

### Fairness

`WF(Visit)` in `ProcessWalk`, `WF(Scan)` in `EnvFormatter` (an iteration of its loops,
not the next process) and `WF(Next)` in `ThreadWalk` and `DllWalk`: a
command is a sequential loop on the debugger's thread, and nothing the extension
waits for can hold it, so an enabled step is taken. Starting a command is the
user's choice and has no fairness. `XDbgTrace`, `SessionScan`, `EnvarsScan` and
`PsDetails` state no liveness; their loops are over a vector. Deadlock is not looked
for in `SessionScan` and `PsDetails`, where the user may stop, and in `EnvarsScan`,
where the command ends.

## The proofs

Every invariant and action property of the passing runs is also a theorem, for
every value of the constants: any number of processes, lists and blocks of any
length, anything unreadable, any number of calls. So are the two refinements. Each
`...Proofs` module has the same shape: an inductive invariant `IInv`, the lemmas that
`Init` establishes it and every action keeps it, one per action, and the theorems that
follow. The assumptions on constants are the named ones of the modules, and say what
the constants are; three say more. `Fault` is not a number (`FaultAssumption`) nor, in
`PsDetails`, a pair of numbers: no content of a cell is the mark of an unreadable one.
`WalkAssumption` and `EnvironmentAssumption` are explained above under *ProcessWalk* and
*EnvFormatter*. TLC evaluates all of them.

**ProcessWalkProofs.** `ListIsPrefix` is not inductive: it does not say where the
loop stands. `IInv` adds `Position` (during a walk `current` is the place on the
ring right behind the last row, the rows follow the ring from its start (`OnRing`,
`CountsUp`), and all they passed could be read) and `Aligned` (`current` is always
the start of a block, which no LIST_ENTRY address is). The one theorem `Invariant`
yields `TypeCorrect`, `HeadIsNeverMet` and `PrefixAlways`. When a walk stops,
`StopsCorrect` shows that it stands before something that is zero or cannot be read,
hence `NoReturnWithoutZero`, and that the vector has reached `Reach`, whence
`YieldsSnapshot`; and `Refinement`, that every step is a `Clear`, a `Fill`, a
`Change` or a stutter of `ProcessSnapshot`, `YieldsSnapshot` being its `Fill`.

**EnvFormatterProofs.** The code never compares a position with `MaxLen`;
`ReadsInBounds` rests on the end of the block being ahead. `IInv` says just that
(`Ahead`), that positions are even and in order, and that a search so far without a
hit has met no separator (`Searched`). `TypeCorrect`, `ScanInBounds` and
`ThrowsOnlyThere` follow. What is printed is a second invariant on top of it,
`Parsed`: the scan is at the entry behind the last one printed, no entry ends
between its start and `CurrPos`, and the number of lines is that of the entries that
end before. `Search` says how far the search for "=" has come: `MidPos` is the last
`Hit` before `i`, and `i` is not one byte behind a hit; `HitNext` is its step and
`CutIs` its outcome, the `Cut` of the entry. Where no unit is above 0xff that is
zero or at a separator, never at a high byte, so cutting an entry there loses
nothing (`CutInTwo`); whence `PrintsEntries` and `PrintsAllButLast`. The only
argument by induction, that a set of positions has a least one, is made with a
minimal counterexample of the well-founded order on the numbers (`WFMin`).

**XDbgTraceProofs.** `RowsMixedOnlyByReuse` is not inductive without knowing which
process a cached row was loaded from. `IInv` says it, in `CacheOf`: the rows are those
of `loaded`, which exist but in the history, each but for its token; the block of each
belongs to that process or to one created later; a token that is not its process's means
one created later. It says that what the kernel lists is what last used its
memory (`ListedOwnTheirBlocks`), and that `dataspaces` is set exactly if the answers of
the engine so far leave an interface (`HasInterface`), which `SetupStep` keeps for one
answer more. `CacheIsOneLoad`, `RowsMixedOnlyByReuse` and `EnvarsCrashExplained` follow;
`FreshLinesMatch` and `PslistShowsTheLoadBefore` are action properties, shown of every
step from a state of `IInv` by lemmas about `RowsAt` and about sorting as a bijection of
places.

**ThreadWalkProofs.** `InListOrder` needs `Flink` to lie ahead of every line of the
process and of every field read so far (`Position`), and the lines to be of processes
the outer loop has come to (`Progress`). `Complete` counts along with the loop: where all
can be read, exactly the first `i` entries are listed as far as they have not exited
(`ListedTo`), and the loop bound is `Actives`, or more than that if the read is `wide`;
`CountOfActives` bounds it by the length of the list.

**SessionScanProofs.** The refinement `ImplementsSessionReport`. Between two visits the
locals are what `SessionReport` computes at once for the process before (`Locals`), for
a `Session` that began as some leftover (`Partial` holds for one), and the rows that the
mapping hides are those the report will add. So the last visit of a call is its `Call`,
and every other one a stutter.

**DllWalkProofs.** `Position`: the walk is at the entry of the last line of the process,
or at the first. `Carried`: what the locals hold of another process is a name, and only
as long as none was read. `Progress`: inside a walk, the context is the process if the
switch succeeded. `Complete`: while the walk is on its first round, it has shown exactly
the entries up to `Flink`, each with its size and the links before it readable
(`FirstRound`); once round it has shown all (`AllShown`), and going on adds none.

**EnvarsScanProofs.** `Words` says what the three words may hold before a visit:
something of an earlier process or zero, `EnvSize` zero only if no process so far told
its size, and the right size if the environment pointed to is that of the context. The
four invariants follow for every size of a page.

**PsDetailsProofs.** `LatestReadShown` speaks of the lines; a later call also shows
fields that this one only kept. `Kept` says the same of every field of every row, for
the calls that have already come to it, `History` that the context is where the
switches of the running call have left it (`ContextAt`), `Progress` that this call has
not broken off so far, `InContext` that the context of a line is that of its process
in this call. One lemma, `VisitStep`, serves all three ways of a visit.
`StringsExplained` adds to `LatestReadShown` that the call an address is left from
(`LatestExists`) had the process's own context.

Only proved, no run checks it: `HeadIsNeverMet`, that `current` is never the address
of the head, which says how it comes that only a zero ends the walk. Only
model-checked: the liveness properties `WalkReturns` (of the process list and of the
threads), `ReturnsUnlessShuttingDown` and `ScanEnds`; fairness and ENABLED are
beyond the prover. That the bounds of the runs hide nothing from them rests on the
argument under *The runs*. That the one-step commands of `XDbgTrace` agree with the
modules of their loops is read off the definitions, not a theorem.

## Not modelled

- An environment entry without a separator in `EnvarsScan`: the formatter then may
  throw, as `EnvFormatter` shows.
- What is never given back: the address space that `!envars` leaves reserved
  (envars.h:243), the interfaces of every call (threads.h:42), the details blocks of
  rows. That their allocation may fail is in `ProcessWalk` and `PsDetails`.
- A symbol build on which 0x448 is not the offset of `ActiveProcessLinks`: the
  walk then reads arbitrary memory.
- Failing symbol lookups other than `nt!PsActiveProcessHead`, failing allocation of
  the name buffers of `!dlllist` and of the buffer of `!envars` (but for a size of
  zero), and an engine that interrupts a command.
- Layout of the output, times and enumerator names, the wording of `help.h`,
  `dllmain.cpp`, the vendored `magic_enum.h`, the build files.
- What an 8-byte read into `EnvSize` (envars.h:214) overwrites: the compiler
  decides which local that is. The field is eight bytes wide and the local receives
  zeros; that it is not `RtlProcessParams` shows in tests/test.log, where the
  environments are found.

## Plan

Done: the cache every command depends on (`ProcessWalk`, its abstract specification
and proofs), the session that uses it (`XDbgTrace`, from load to unloading), the loops
of all commands with every column they show, an abstract specification of the
walk and of `!sessions`, and theorems for all of their invariants, action properties
and refinements. What is left:

1. The composition as theorems: that `EnvarsScan`'s `Formatter` is what `EnvFormatter`
   prints, and that a line of `XDbgTrace` is what a loop shows where all memory can be
   read.
2. The measures behind the liveness properties: that every iteration of the walk, of the
   formatter and of the threads' loops comes closer to its end, as action properties
   that need no fairness.
3. Abstract specifications of `!threads` and `!dlllist`, as `SessionReport` is one.
