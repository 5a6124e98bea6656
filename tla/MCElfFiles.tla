------------------------------- MODULE MCElfFiles -------------------------------
(***************************************************************************)
(* The files of core dumps, where their contents come from, and what the   *)
(* clients of the core dump server are told: in each behaviour one of the  *)
(* two formatters writes dumps, and the editor may take the last one over; *)
(* or a formatter asks about the crash logs in flash; or a client asks for *)
(* lists, while a crash is dumped; or it sets parameters of plug-ins; or   *)
(* the entries of a list go through the form they are sent in.             *)
(***************************************************************************)
EXTENDS ElfCases

VARIABLES
  who,   \* "v1", "v2", "editor", "flash", "lists", "parameters" or "records"
  pc, w, crash, options, at, media, cancel, opened, dumps, faults, unread, hollow,
  step, files, phdrs, renewed, table, new, inserts, mishaps, facts, added,
  flash, kept, current, start, memory, codeSegs, owners, cached, answer, scm, first, saved,
  flashStep, reading, spoilt,
  alive, suspended, asked, observers, loaded, source, total, marshalled, call, got, pages, dump,
  stuck, wild, listFaults,
  plugs, list, largest, client, set, fetch, file, told, unloaded, shrunk, loads, sets,
  class, halves, entries, wire, offset, heard, failed

First ==
  [Everything EXCEPT !.trace = 0, !.lock = FALSE, !.rom = FALSE, !.heap = FALSE, !.var = FALSE]
V1 == INSTANCE ElfFormatterV1 WITH
  Version <- 1, MaxDumps <- 2, MaxFaults <- 2, KNumofEntries <- 2,
  Crashes <- MCCrashes, Processes <- MCProcesses, Threads <- MCThreads,
  CodeSegs <- MCCodeSegs, Registers <- MCRegisters,
  OptionSets <-
    {First, [First EXCEPT !.sys = "wide"],
     [First EXCEPT !.procdata = FALSE, !.code = FALSE],
     [First EXCEPT !.data = FALSE, !.thread = FALSE],
     [First EXCEPT !.reg = FALSE, !.process = FALSE],
     [First EXCEPT !.exec = FALSE, !.sys = "process", !.procdata = FALSE]}

V2 == INSTANCE ElfFormatter WITH
  Version <- 2, MaxDumps <- 3, MaxFaults <- 1, KNumofEntries <- 2,
  Crashes <- MCCrashes, Processes <- MCProcesses, Threads <- MCThreads,
  CodeSegs <- MCCodeSegs, Registers <- MCRegisters,
  OptionSets <-
    {Everything, [Everything EXCEPT !.sys = "wide"],
     [Everything EXCEPT !.sys = "process", !.trace = 1],
     [Everything EXCEPT !.procdata = FALSE, !.code = FALSE, !.heap = FALSE, !.var = FALSE],
     [Everything EXCEPT !.data = FALSE, !.thread = FALSE, !.lock = FALSE],
     [Everything EXCEPT !.reg = FALSE, !.process = FALSE, !.trace = 0, !.rom = FALSE],
     [Everything EXCEPT !.exec = FALSE, !.sys = "process", !.procdata = FALSE]}

Editor == INSTANCE ElfEditor WITH MaxInserts <- 2, MaxMishaps <- 1, pc <- step

(* Two crash logs: one with a trace, data of the variant and memory of one *)
(* process, of a thread that the other log gives another owner; and one    *)
(* whose code segments have no data of their own.                          *)
Log(kind, size) == [kind |-> kind, size |-> size, tid |-> 0, pid |-> 0, name |-> 0]
Info(t) == [Log("info", 1) EXCEPT !.tid = t]
Thread(t, p) == [Log("thread", 2) EXCEPT !.tid = t, !.pid = p]
Process(p) == [Log("process", 1) EXCEPT !.pid = p]
LReg(kind, t) == [Log(kind, 1) EXCEPT !.tid = t]
SegSet(p) == [Log("segset", 1) EXCEPT !.pid = p]
LSeg(n, d, p) == [Log("seg", 2) EXCEPT !.name = n, !.tid = d, !.pid = p]
Mem(p, a) == [Log("mem", 1) EXCEPT !.pid = p, !.name = a]
FlashLogs ==
  << <<Info(1), Log("offsets", 1), Process(1), Process(2), Thread(1, 1), Thread(2, 2),
       Log("regset", 1), LReg("full", 1), LReg("full", 1), SegSet(1), LSeg(5, 1, 1), LSeg(6, 2, 1),
       SegSet(2), LSeg(5, 1, 2), Mem(1, 7), Log("raw", 3), Log("rom", 1),
       [Log("trace", 1) EXCEPT !.name = 2], Log("raw", 2), Log("raw", 3), Log("var", 1),
       Log("raw", 2)>>,
     <<Info(3), Log("offsets", 1), Thread(1, 2), Thread(3, 1), Process(2), Process(1),
       Log("locks", 1), LReg("svr", 1), LReg("usr", 1), LReg("usr", 3), SegSet(1), LSeg(5, 1, 1),
       LSeg(6, 1, 1), Mem(1, 7), Log("raw", 2), Mem(2, 7), Log("raw", 2)>> >>
Flash == INSTANCE FlashDataSource WITH
  Logs <- FlashLogs, Block <- 8, Blocks <- 9, ReadSize <- 4, Priorities <- {1, 2}, Junk <- {1},
  step <- flashStep

(* Two executables with threads of the same name; one of them has a thread *)
(* without a name, and a name that is too long for a list.                 *)
ListProcesses == <<"exe1", "exe2">>
ListThreads ==
  <<[pid |-> 1, name |-> "main"], [pid |-> 1, name |-> "worker"],
    [pid |-> 2, name |-> "main"], [pid |-> 2, name |-> "none"]>>
Lists == INSTANCE CoreDumpLists WITH
  Processes <- ListProcesses, Threads <- ListThreads, Mortal <- {3, 4},
  Observations <-
    {[e \in {"exe1"} |-> {"worker"}],
     [e \in {"exe1", "exe2"} |-> IF e = "exe1" THEN {"main"} ELSE {}]},
  Loadings <- {{1, 3}}, TooLong <- {"exe2"}, Formatters <- <<1, 2, 3>>, Crashes <- {1},
  KindSets <- {{"threads"}, {"processes", "crashes"}, {"formatters"}},
  PageSize <- 2, MaxFaults <- 1, NoName <- "none", faults <- listFaults

(* A shorter text: 9 after 14, the longest; and none.                      *)
Params == INSTANCE CoreDumpParameters WITH
  Texts <- {0, 9, 15, 16}, Missing <- {9}, MaxText <- 15, Fixed <- 12, MaxSize <- 44,
  MaxPlugs <- 2, MaxSets <- 3

(* For a thread: a name that fits, and one that only its own count lets by.*)
Records == INSTANCE CoreDumpRecords WITH
  Names <- [len : {0, 5, 114}, wide : BOOLEAN] \cup {[len |-> 226, wide |-> TRUE]},
  ContextSize <- 88, MaxEntries <- 2,
  kind <- class, list <- entries, at <- offset, told <- heard

recordVars == <<class, halves, entries, wire, offset, heard, failed>>
listVars == <<alive, suspended, asked, observers, loaded, source, total, marshalled, call, got,
              pages, dump, stuck, wild, listFaults>>
paramVars == <<plugs, list, largest, client, set, fetch, file, told, unloaded, shrunk, loads, sets>>
dumpVars == <<pc, w, crash, options, at, media, cancel, opened, dumps, faults, unread, hollow>>
editVars == <<step, files, phdrs, renewed, table, new, inserts, mishaps, facts, added>>
flashVars == <<flash, kept, current, start, memory, codeSegs, owners, cached, answer, scm, first,
               saved, flashStep, reading, spoilt>>
fileVars == <<dumpVars, editVars, flashVars>>
vars == <<who, fileVars, listVars, paramVars, recordVars>>

ASSUME V1!FormatterAssumption /\ V2!FormatterAssumption
ASSUME Lists!ListsAssumption /\ Params!ParametersAssumption /\ Records!RecordsAssumption

Init ==
  /\ \/ who = "v1" /\ V1!Init
     \/ who \in {"v2", "flash", "lists", "parameters", "records"} /\ V2!Init
  /\ Editor!Begin(<<>>) /\ facts = {}
  /\ Flash!Init /\ (who # "flash" => scm = 0 /\ flash[0] = Flash!Blank)
  /\ (who \in {"flash", "lists", "parameters", "records"} =>
        crash = (CHOOSE c \in MCCrashes : TRUE) /\ options = Everything)
  /\ Lists!Init
  /\ who # "lists" => asked = {"formatters"} /\ observers = [e \in {"exe1"} |-> {"worker"}]
  /\ Params!Init
  /\ Records!Init /\ (who # "records" => class = "thread")

(* A finished dump, whole up to what could not be read, gets an editor.    *)
Finished ==
  /\ dumps = 1 /\ hollow = {} /\ ~cancel
  /\ IF who = "v1" THEN pc = "returned" ELSE media # <<>> /\ media[1].status = "D"
HandOver ==
  /\ who \in {"v1", "v2"} /\ Finished /\ who' = "editor"
  /\ files' = [files EXCEPT !.dump = w.file] /\ facts' = Editor!Kept(w.file)
  /\ UNCHANGED <<step, phdrs, renewed, table, new, inserts, mishaps, added>>
  /\ pc' = "idle" /\ w' = [file |-> <<>>, offset |-> 0, table |-> <<>>] /\ at' = V2!NoOffsets
  /\ media' = <<>> /\ dumps' = 0 /\ faults' = 0 /\ unread' = {} /\ opened' = 0
  /\ UNCHANGED <<crash, options, cancel, hollow, flashVars, listVars, paramVars, recordVars>>

Others == UNCHANGED <<listVars, paramVars, recordVars>>
Next ==
  \/ who = "v1" /\ V1!Next /\ UNCHANGED <<who, editVars, flashVars>> /\ Others
  \/ who = "v2" /\ V2!Next /\ UNCHANGED <<who, editVars, flashVars>> /\ Others
  \/ HandOver
  \/ who = "editor" /\ Editor!Next /\ UNCHANGED <<who, dumpVars, flashVars>> /\ Others
  \/ who = "flash" /\ Flash!Next /\ UNCHANGED <<who, dumpVars, editVars>> /\ Others
  \/ who = "lists" /\ Lists!Next /\ UNCHANGED <<who, fileVars, paramVars, recordVars>>
  \/ who = "parameters" /\ Params!Next /\ UNCHANGED <<who, fileVars, listVars, recordVars>>
  \/ who = "records" /\ Records!Next /\ UNCHANGED <<who, fileVars, listVars, paramVars>>

Spec == Init /\ [][Next]_vars

-------------------------------------------------------------------------------
(* A debugger finds in a finished dump of either formatter what was        *)
(* configured and could be read, each thing under its name; and what a     *)
(* formatter is told of a crash log in flash is what the kernel logged of  *)
(* that crash.                                                             *)
Faithful ==
  /\ who = "v1" => V1!Faithful
  /\ who = "v2" => V2!Faithful
  /\ who = "flash" => Flash!RightCrash

(* What a client is told is what there is: the property the user looks at  *)
(* lists the crashes, each once; the lists and the pages of the server are *)
(* whole and mark what is observed; and the parameters have the size and   *)
(* the place the client has been told when it fetches and sets them, and   *)
(* an entry is read as it was written.                                     *)
Listed ==
  /\ who = "v2" => V2!Listed
  /\ who = "lists" => Lists!Listed
  /\ who = "parameters" => Params!Parameters
  /\ who = "records" => Records!Records

(* No edit, finished or broken off, loses anything: neither an edit of a   *)
(* dump, nor one of the configuration that shares a block with crash logs. *)
Edited ==
  /\ who = "editor" => Editor!Edited
  /\ who = "flash" => Flash!LogsKept
===============================================================================
