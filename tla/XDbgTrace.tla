----------------------------- MODULE XDbgTrace ------------------------------
(***************************************************************************)
(* A debugging session: the extension is loaded and unloaded, its commands *)
(* are given, each one step.  What outlives a command is in the globals    *)
(* processList, SessionInfoList and xDbg, as long as the extension is      *)
(* loaded.  The engine runs one command at a time and the target stands    *)
(* still meanwhile; between two commands a live target runs, so processes  *)
(* start, exit and reuse the memory of earlier ones.                       *)
(*                                                                         *)
(* parsepslist is the atomic load that ProcessWalk shows it to be.  What   *)
(* the loops of the other commands read is followed in the modules of      *)
(* those commands; here a line of output only records which process it     *)
(* names and whose memory the rest of the line came from.                  *)
(***************************************************************************)
EXTENDS Integers, Sequences, SequencesExt, FiniteSets

CONSTANTS
  Processes,   \* every process that may run, as the kernel describes it
  Live,        \* whether the target runs between two commands (no dump file)
  Truncates,   \* whether part of the list of processes may be unreadable
  MaxCommands  \* bound: the commands given in a session

Options == {"", "-p", "-a", "-v", "-pvs", "-ct", "-n", "-nr"}

Process == [Eprocess : Nat, PID : Nat \ {0}, ActiveThreads : Nat, VirtualSize : Nat,
            PeakVirtualSize : Nat, CreateTime : Nat, process_name : Nat,
            Peb : BOOLEAN, Protected : BOOLEAN, Token : Nat \ {0}]

(* A PID, a creation time and a token are those of one process.            *)
ASSUME SessionAssumption ==
  /\ Processes \subseteq Process /\ {Live, Truncates} \subseteq BOOLEAN /\ MaxCommands \in Nat
  /\ \A p, q \in Processes : p # q =>
       p.PID # q.PID /\ p.CreateTime # q.CreateTime /\ p.Token # q.Token

VARIABLES
  kernel,           \* the active processes, in list order
  pool,             \* EPROCESS address |-> the last process that used it
  resolved,         \* whether nt!PsActiveProcessHead resolves
  initialized,      \* whether the extension is loaded
  processList,      \* the cached rows
  SessionInfoList,  \* the rows !sessions has collected
  dataspaces,       \* whether xDbg.dataspaces is set
  loaded,           \* history: the processes of `kernel` the last load reached
  setups,           \* history: what the engine answered each !envars
  output,           \* history: what the last command printed
  commands          \* how many commands were given

target  == <<kernel, pool, resolved>>
globals == <<processList, SessionInfoList, dataspaces>>
history == <<loaded, setups>>
vars    == <<target, initialized, globals, history, output, commands>>

PIDs(rows) == {rows[i].PID : i \in DOMAIN rows}

(* A line that names a row's process; the rest of it was read at the row's *)
(* EPROCESS address, now.                                                  *)
Line(row) == [PID |-> row.PID, memory |-> pool[row.Eprocess].PID]

Lines(rows) == [i \in DOMAIN rows |-> Line(rows[i])]

(* The rows at some places of a list, in order: those a loop does not pass *)
(* over.  (SelectSeq, by place; a proof cannot see into SelectSeq.)        *)
RowsAt(rows, places) ==
  [n \in 1..Cardinality(places) |->
     rows[CHOOSE i \in places : Cardinality({j \in places : j <= i}) = n]]

(* arg: the option of !pslist, the engine's answer for the others. *)
Printed(cmd, arg, status, rows) ==
  output' = [cmd |-> cmd, arg |-> arg, status |-> status, rows |-> rows]

Command ==
  /\ initialized /\ commands < MaxCommands
  /\ commands' = commands + 1
  /\ UNCHANGED <<target, initialized>>

-----------------------------------------------------------------------------
(* The cache                                                                *)

(* How many processes a load reaches: those before the first whose PID or  *)
(* link cannot be read, and none without the symbol of the list head.  As  *)
(* the target stands still, it is one number as long as a command runs.    *)
Reachable ==
  IF ~resolved THEN {0} ELSE IF Truncates THEN 0..Len(kernel) ELSE {Len(kernel)}

(* Mutant: what stands before the list head is kept as a process. *)
LoadedRowsWithHead(n) ==
  [i \in 1..(n + 1) |->
     IF i > n THEN [kernel[1] EXCEPT !.PID = 0, !.Token = 0] ELSE [kernel[i] EXCEPT !.Token = 0]]

(* Mutant: the vector is not cleared. *)
LoadedBehind(n) == processList \o [i \in 1..n |-> [kernel[i] EXCEPT !.Token = 0]]

LoadedRows(n) == [i \in 1..n |-> [kernel[i] EXCEPT !.Token = 0]]

(* parsepslist: a row starts with no token; psdetails reads it later. *)
parsepslist(n) ==
  /\ processList' = LoadedRows(n)
  /\ loaded' = SubSeq(kernel, 1, n)

LoadRequirements ==
  IF processList = <<>>
  THEN \E n \in Reachable : parsepslist(n)
  ELSE UNCHANGED <<processList, loaded>>

(* Mutant: -p is tested with strncmp, as -v is, and takes -pvs with it. *)
KeyShadowed(opt, row) ==
  CASE opt \in {"-p", "-pvs"}  -> row.PID
    [] opt = "-a"   -> row.ActiveThreads
    [] opt = "-v"   -> row.VirtualSize
    [] opt = "-ct"  -> row.CreateTime
    [] opt = "-n"   -> row.process_name
    [] opt = "-nr"  -> -row.process_name
    [] OTHER        -> 0

(* The comparison each option of !pslist sorts by; names are ranks. *)
Key(opt, row) ==
  CASE opt = "-p"   -> row.PID
    [] opt = "-a"   -> row.ActiveThreads
    [] opt = "-v"   -> row.VirtualSize
    [] opt = "-pvs" -> row.PeakVirtualSize
    [] opt = "-ct"  -> row.CreateTime
    [] opt = "-n"   -> row.process_name
    [] opt = "-nr"  -> -row.process_name
    [] OTHER        -> 0

(* std::sort is not stable: any order of equal keys. *)
Sortings(opt, rows) ==
  IF opt = "" THEN {rows}
  ELSE {s \in {[i \in DOMAIN rows |-> rows[pi[i]]] : pi \in Bijection(DOMAIN rows, DOMAIN rows)} :
          \A i, j \in DOMAIN rows : i < j => Key(opt, s[i]) <= Key(opt, s[j])}

-----------------------------------------------------------------------------
(* The commands.  api is what the engine answers to the requests for its   *)
(* interfaces: "ok"; "noControl", QueryInterface for IDebugControl4 fails, *)
(* and the null pointer that CComQIPtr then holds is called through;       *)
(* "noApis", GetWindbgExtensionApis64 fails; or "noDataSpaces",            *)
(* QueryInterface for IDebugDataSpaces4 fails.                             *)

Apis == {"ok", "noControl", "noApis", "noDataSpaces"}

Rejected(api) == IF api = "noControl" THEN "crash" ELSE "refused"

(* What check_args leaves to sort: the cache, loaded first if it is empty. *)
RowsToShow(n) == IF processList = <<>> THEN LoadedRows(n) ELSE processList

(* !pslist sorts the cache in place, displays it, and loads it anew.  When *)
(* there is nothing to display it loads and displays that: still nothing.  *)
Pslist(opt) ==
  /\ Command
  /\ \E n \in Reachable :
       /\ \E sorted \in Sortings(opt, RowsToShow(n)) :
            Printed("pslist", opt, "ok", [i \in DOMAIN sorted |->
              [PID |-> sorted[i].PID, memory |-> sorted[i].PID]])
       /\ parsepslist(n)
  /\ UNCHANGED <<SessionInfoList, dataspaces, setups>>

(* !dlllist loads the cache before it asks for the interfaces, and passes  *)
(* over processes without a PEB and protected ones.                        *)
Dlllist(api) ==
  /\ Command
  /\ LoadRequirements
  /\ IF api = "ok"
     THEN Printed("dlllist", api, "ok",
            Lines(RowsAt(processList', {i \in DOMAIN processList' :
                                          LET process == pool[processList'[i].Eprocess] IN
                                          process.Peb /\ ~process.Protected})))
     ELSE Printed("dlllist", api, Rejected(api), <<>>)
  /\ UNCHANGED <<SessionInfoList, dataspaces, setups>>

(* !threads, !psdetails and !sessions ask first. *)
Refused(cmd, api) ==
  /\ Command /\ api # "ok"
  /\ Printed(cmd, api, Rejected(api), <<>>)
  /\ UNCHANGED <<globals, history>>

Threads ==
  /\ Command
  /\ LoadRequirements
  /\ Printed("threads", "ok", "ok", Lines(processList'))
  /\ UNCHANGED <<SessionInfoList, dataspaces, setups>>

(* Whether the block of a row still belongs to a running process. *)
Running(row) == \E i \in DOMAIN kernel : kernel[i].Eprocess = row.Eprocess

(* The process a row's token is that of; its own while none was read. *)
OwnerOfToken(row) ==
  IF row.Token = 0 THEN row.PID ELSE (CHOOSE p \in Processes : p.Token = row.Token).PID

(* Mutant: the address is computed before the loop. *)
TokenOfFirst(row) ==
  pool[(IF processList = <<>> THEN kernel ELSE processList)[1].Eprocess].Token

TokenAt(row) == pool[row.Eprocess].Token

(* !psdetails reads the rest of every row into the cache.  The block of a  *)
(* process that has exited may be gone; a read that fails leaves the row.  *)
Psdetails ==
  /\ Command
  /\ \E gone \in BOOLEAN, n \in Reachable :
       /\ processList' = [i \in DOMAIN RowsToShow(n) |->
            LET row == RowsToShow(n)[i] IN
            IF gone /\ ~Running(row) THEN row
            ELSE [row EXCEPT !.Token = TokenAt(row)]]
       /\ loaded' = (IF processList # <<>> THEN loaded ELSE SubSeq(kernel, 1, n))
  /\ Printed("psdetails", "ok", "ok", [i \in DOMAIN processList' |->
       [PID |-> processList'[i].PID, memory |-> OwnerOfToken(processList'[i])]])
  /\ UNCHANGED <<SessionInfoList, dataspaces, setups>>

(* !sessions adds a row per process to its list and prints the whole list; *)
(* nothing ever empties it.                                                *)
Sessions ==
  /\ Command
  /\ LoadRequirements
  /\ SessionInfoList' = SessionInfoList \o Lines(processList')
  /\ Printed("sessions", "ok", "ok", SessionInfoList')
  /\ UNCHANGED <<dataspaces, setups>>

(* Mutant: a failed setup forgets the interface of an earlier one. *)
SetupForgetting(api) == api = "ok"

(* xDbg.ISetup: without the engine's API table it returns before it asks   *)
(* for the interface, and without IDebugControl4 it gets no further than   *)
(* asking for the table; the interface of an earlier call stays.           *)
Setup(api) ==
  CASE api = "ok"                    -> TRUE
    [] api \in {"noControl", "noApis"} -> dataspaces
    [] api = "noDataSpaces"          -> FALSE

(* !envars breaks in the setup, or does not look at its outcome: the first *)
(* process with a PEB takes it through the null pointer, if there is one.  *)
Envars(api) ==
  /\ Command
  /\ dataspaces' = Setup(api) /\ setups' = Append(setups, api)
  /\ IF api = "noControl"
     THEN Printed("envars", api, "crash", <<>>) /\ UNCHANGED <<processList, loaded>>
     ELSE /\ LoadRequirements
          /\ LET rows == RowsAt(processList', {i \in DOMAIN processList' : processList'[i].Peb}) IN
               IF rows # <<>> /\ ~dataspaces'
               THEN Printed("envars", api, "crash", <<>>)
               ELSE Printed("envars", api, "ok", Lines(rows))
  /\ UNCHANGED SessionInfoList

(* !help, the -h option of a command, and the commands that do nothing:    *)
(* text, before anything is asked of the engine or loaded.                 *)
Help ==
  /\ Command
  /\ Printed("help", "ok", "ok", <<>>)
  /\ UNCHANGED <<globals, history>>

-----------------------------------------------------------------------------
(* Loading and unloading                                                    *)

(* DebugExtensionInitialize fails, or breaks, where the engine refuses its *)
(* interfaces; the extension then stays out.                               *)
Load(api) ==
  /\ ~initialized
  /\ initialized' = (api = "ok")
  /\ Printed("load", api, IF api = "ok" THEN "ok" ELSE Rejected(api), <<>>)
  /\ UNCHANGED <<target, globals, history, commands>>

(* The library exports nothing to be called then; its globals go with it.  *)
Unload ==
  /\ initialized /\ commands < MaxCommands
  /\ initialized' = FALSE /\ commands' = commands + 1
  /\ processList' = <<>> /\ SessionInfoList' = <<>> /\ dataspaces' = FALSE
  /\ loaded' = <<>> /\ setups' = <<>>
  /\ Printed("unload", "ok", "ok", <<>>)
  /\ UNCHANGED target

-----------------------------------------------------------------------------
(* The target, between two commands                                         *)

Between == Live /\ UNCHANGED <<resolved, initialized, globals, history, output, commands>>

(* Later processes have later creation times. *)
Start(p) ==
  /\ Between
  /\ \A a \in DOMAIN pool : pool[a].CreateTime < p.CreateTime
  /\ \A i \in DOMAIN kernel : kernel[i].Eprocess # p.Eprocess
  /\ kernel' = Append(kernel, p)
  /\ pool' = [a \in DOMAIN pool \cup {p.Eprocess} |->
                IF a = p.Eprocess THEN p ELSE pool[a]]

(* The first process, System, does not exit. *)
Exit ==
  /\ Between
  /\ \E i \in DOMAIN kernel \ {1} : kernel' = RemoveAt(kernel, i)
  /\ UNCHANGED pool

(* Symbols are reloaded, on a dump file too. *)
ReloadSymbols ==
  /\ resolved' = ~resolved
  /\ UNCHANGED <<kernel, pool, initialized, globals, history, output, commands>>

(* A session begins with any of the oldest processes running. *)
Init ==
  /\ \E n \in 1..Cardinality(Processes) : kernel \in [1..n -> Processes]
  /\ \A i, j \in DOMAIN kernel : i < j => /\ kernel[i].CreateTime < kernel[j].CreateTime
                                          /\ kernel[i].Eprocess # kernel[j].Eprocess
  /\ \A i \in DOMAIN kernel, p \in Processes :
       p.CreateTime < kernel[i].CreateTime => \E j \in DOMAIN kernel : kernel[j] = p
  /\ pool = [a \in {kernel[i].Eprocess : i \in DOMAIN kernel} |->
               CHOOSE p \in Processes : p.Eprocess = a /\ \E i \in DOMAIN kernel : kernel[i] = p]
  /\ resolved \in BOOLEAN
  /\ processList = <<>> /\ SessionInfoList = <<>> /\ dataspaces = FALSE
  /\ loaded = <<>> /\ setups = <<>>
  /\ initialized = FALSE /\ commands = 0
  /\ output = [cmd |-> "none", arg |-> "ok", status |-> "ok", rows |-> <<>>]

Next ==
  \/ \E opt \in Options : Pslist(opt)
  \/ \E api \in Apis : Dlllist(api)
  \/ \E cmd \in {"threads", "psdetails", "sessions"}, api \in Apis : Refused(cmd, api)
  \/ Threads
  \/ Psdetails
  \/ Sessions
  \/ \E api \in Apis : Envars(api)
  \/ Help
  \/ \E api \in Apis \ {"noDataSpaces"} : Load(api)
  \/ Unload
  \/ \E p \in Processes : Start(p)
  \/ Exit
  \/ ReloadSymbols

Spec == Init /\ [][Next]_vars

-----------------------------------------------------------------------------

CachedRow == {[p EXCEPT !.Token = t] : p \in Processes, t \in {0} \cup {q.Token : q \in Processes}}

TextLine == [PID : Nat, memory : Nat]

TypeOK ==
  /\ kernel \in Seq(Processes) /\ loaded \in Seq(Processes) /\ setups \in Seq(Apis)
  /\ \A a \in DOMAIN pool : pool[a] \in Processes /\ pool[a].Eprocess = a
  /\ {resolved, initialized, dataspaces} \subseteq BOOLEAN
  /\ processList \in Seq(CachedRow)
  /\ SessionInfoList \in Seq(TextLine)
  /\ output.status \in {"ok", "refused", "crash"} /\ output.rows \in Seq(TextLine)
  /\ commands \in 0..MaxCommands

(* Between two commands the cache holds the processes that one load has    *)
(* reached, all of them and in kernel order: a sort for display never      *)
(* leaks into what the next command walks, nor does a row of an earlier    *)
(* load (dbgextension.cpp:64-67, pslist.h:58-122).                         *)
CacheIsOneLoad ==
  /\ Len(processList) = Len(loaded)
  /\ \A i \in DOMAIN processList : [processList[i] EXCEPT !.Token = 0] = [loaded[i] EXCEPT !.Token = 0]

(* psdetails writes into rows cached earlier.  A row describes a single    *)
(* process unless its EPROCESS block was given to another one since        *)
(* (psdetails.h:145-153).                                                  *)
RowsMixedOnlyByReuse ==
  \A i \in DOMAIN processList :
    LET row == processList[i] IN
    \/ \E p \in Processes : p.PID = row.PID /\ row.Token \in {0, p.Token}
    \/ pool[row.Eprocess].PID # row.PID

(* A command that walks a cache as old as the target's last change, be it  *)
(* of all processes or of those a load reached, names each process over    *)
(* memory of that same process; only a stale cache mixes two               *)
(* (resolver.h:16-19 never refreshes a cache that is not empty).           *)
LinesMatchMemory ==
  [][ commands' # commands /\ output'.cmd # "sessions"
        /\ Len(loaded') <= Len(kernel) /\ loaded' = SubSeq(kernel, 1, Len(loaded')) =>
        \A i \in DOMAIN output'.rows : output'.rows[i].PID = output'.rows[i].memory ]_vars

(* What the help text says each option sorts by (help.h:20-26). *)
SortField == [o \in Options \ {""} |->
  CASE o = "-p"   -> "PID"             [] o = "-a"  -> "ActiveThreads"
    [] o = "-v"   -> "VirtualSize"     [] o = "-ct" -> "CreateTime"
    [] o = "-pvs" -> "PeakVirtualSize" [] OTHER     -> "process_name"]

InOrder(opt, ps) ==
  \A i, j \in DOMAIN ps : i < j /\ opt # "" =>
    LET f == SortField[opt] IN
    IF opt = "-nr" THEN ps[i][f] >= ps[j][f] ELSE ps[i][f] <= ps[j][f]

(* !pslist shows the processes of the previous load, or of its own if      *)
(* there is none, each once and ordered as the help text says: the refresh *)
(* that follows does not show (dbgextension.cpp:60-67, pslist.h:66-121).   *)
PslistShowsLastLoad ==
  [][ commands' # commands /\ output'.cmd = "pslist" =>
        LET of    == IF loaded # <<>> THEN loaded ELSE loaded'
            shown == [i \in DOMAIN output'.rows |->
                        CHOOSE p \in Processes : p.PID = output'.rows[i].PID]
        IN /\ Len(shown) = Len(of) /\ PIDs(shown) = PIDs(of)
           /\ InOrder(output'.arg, shown) ]_vars

(* Whether xDbg should have the interface: the engine gave it to some call *)
(* of !envars since the extension was loaded, and refused it to none since.*)
InterfaceGiven ==
  \E k \in DOMAIN setups :
    /\ setups[k] = "ok"
    /\ \A j \in DOMAIN setups : j > k => setups[j] # "noDataSpaces"

(* !envars breaks when the engine refuses it IDebugControl4, or when it    *)
(* has a process with a PEB to show and no interface to read it with.  One *)
(* successful setup is enough, however many calls in a row are refused the *)
(* API table, until the engine refuses the interface itself; from then on  *)
(* it breaks again until the next success (xdbg.h:13-46,                   *)
(* dbgextension.cpp:101, envars.h:213).                                    *)
EnvarsNeedsInterface ==
  output.cmd = "envars" =>
    LET refused == setups[Len(setups)] = "noControl"
        toShow  == \E i \in DOMAIN processList : processList[i].Peb
    IN output.status = "crash" <=> refused \/ (toShow /\ ~InterfaceGiven)

-----------------------------------------------------------------------------
(* Stated by the documentation, and not so.                                 *)

(* README.md:16 of !pslist: "list down the all running process".           *)
PslistShowsRunning ==
  [][ commands' # commands /\ output'.cmd = "pslist" /\ resolved =>
        PIDs(output'.rows) = PIDs(kernel) ]_vars

(* help.h:13 of !sessions: "dispalys all the process with the sessions"; a *)
(* process appears once.                                                   *)
SessionsListProcessesOnce ==
  output.cmd = "sessions" =>
    \A i, j \in DOMAIN output.rows : i # j => output.rows[i].PID # output.rows[j].PID
=============================================================================
