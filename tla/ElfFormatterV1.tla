---------------------------- MODULE ElfFormatterV1 ----------------------------
(***************************************************************************)
(* CSymbianElfFormatter, version 1 of the formatter, with the file writer. *)
(*                                                                         *)
(* CrashEventL does everything itself: it looks for a cancel before it     *)
(* opens the file, nobody closes the file when something leaves, and only  *)
(* the reading of a data segment is trapped.  pc is "returned" when it has *)
(* run to its end.                                                         *)
(***************************************************************************)
EXTENDS ElfDump

Step(here, next) == Proceeds(here, next) /\ Quietly

CrashEvent ==
  /\ pc \in Resting /\ dumps < MaxDumps
  /\ crash' \in Crashes /\ options' \in OptionSets
  /\ dumps' = dumps + 1 /\ pc' = "start"
  /\ w' = [file |-> <<>>, offset |-> 0, table |-> <<>>]
  /\ at' = NoOffsets /\ unread' = {}
  /\ UNCHANGED <<cancel, media, faults, opened, hollow>>

(* UpdateCrashProgressL closes the file, opened or not, and leaves.        *)
Cancelled ==
  /\ pc \in Checks /\ cancel
  /\ opened' = opened - 1 /\ pc' = "idle"
  /\ UNCHANGED <<w, crash, options, at, media, cancel, dumps, faults, unread, hollow>>

(* Anything that leaves: the file stays open if it has been opened, but    *)
(* for a leave of the last CloseL.                                         *)
Abandon ==
  /\ pc \notin Resting /\ Fault
  /\ pc' = "idle"
  /\ opened' \in CASE pc = "start" -> {opened, opened + 1}
                   [] pc = "headers" -> {opened, opened - 1}
                   [] OTHER -> {opened}
  /\ UNCHANGED <<w, crash, options, at, media, cancel, dumps, unread, hollow>>

Start ==
  /\ Proceeds("start", "symbian") /\ UNCHANGED <<media, faults, unread, hollow, at>>
  /\ crash.pid \in ToSet(Processes) /\ \E i \in DOMAIN CodeSegs : CodeSegs[i].exe
  /\ opened' = opened + 1
  /\ w' = Put([w EXCEPT !.table = StandardStrings], <<[k |-> "blank"]>>)

SymbianInfo ==
  /\ Step("symbian", "data")
  /\ w' = WriteSymbianInfo(w) /\ at' = [at EXCEPT !.sym = w.offset]

DataSegmentsBegin ==
  /\ Step("data", IF CreateDataSegments THEN "segment" ELSE "code")
  /\ UNCHANGED <<w, at>>

DataSegment ==
  /\ Len(at.data) < Len(DataSegs) /\ Step("segment", "segment")
  /\ w' = Put(w, Memory(Segment, Segment.size))
  /\ at' = [at EXCEPT !.data = Append(@, w.offset)]

(* Reading fails; nothing has been written of the segment.                 *)
DataSegmentUnread ==
  /\ Len(at.data) < Len(DataSegs) /\ Proceeds("segment", "segment") /\ Fault
  /\ at' = [at EXCEPT !.data = Append(@, 0)]
  /\ unread' = unread \cup {<<"segment", Segment.base>>}
  /\ UNCHANGED <<w, media, opened, hollow>>

DataSegmentsEnd ==
  /\ Len(at.data) = Len(DataSegs) /\ Step("segment", "code") /\ UNCHANGED <<w, at>>

CodeSegments == Step("code", "thread") /\ UNCHANGED <<w, at>>

ThreadInfo == NamedInfo("thread", "process", "thrd", "THREAD", Ids(ThreadList))
ProcessInfo == NamedInfo("process", "exec", "proc", "PROCESS", ProcessList)
ExecutableInfo == NamedInfo("exec", "regs", "exec", "EXECUTABLE", Ids(CodeSegs))

RegisterInfoBegin ==
  /\ Step("regs", IF CreateRegisterSegments THEN "register" ELSE "strings")
  /\ UNCHANGED <<w, at>>

\* Mutant: the descriptor's place is taken before the values are written.
RegisterInfoEarly ==
  /\ at.threads < Len(OwnThreads) /\ Step("register", "register")
  /\ LET tid == OwnThreads[at.threads + 1].id
         r == WriteRegisters(w, at.regs, tid, RegistersOf(tid))
         early == [i \in DOMAIN r.offsets |->
                     IF i = Len(at.regs) + 1 THEN w.offset ELSE r.offsets[i]]
     IN  w' = r.f /\ at' = [at EXCEPT !.regs = early, !.threads = @ + 1]

RegisterInfo ==
  /\ at.threads < Len(OwnThreads) /\ Step("register", "register")
  /\ LET tid == OwnThreads[at.threads + 1].id
         r == WriteRegisters(w, at.regs, tid, RegistersOf(tid))
     IN  w' = r.f /\ at' = [at EXCEPT !.regs = r.offsets, !.threads = @ + 1]

RegisterInfoEnd ==
  /\ at.threads = Len(OwnThreads) /\ Step("register", "strings") /\ UNCHANGED <<w, at>>

StringInfo ==
  /\ Step("strings", "headers")
  /\ w' = WriteStringInfo(w) /\ at' = [at EXCEPT !.str = w.offset]

ProgramHeaders ==
  /\ Proceeds("headers", "returned") /\ UNCHANGED <<media, faults, unread, hollow, at>>
  /\ LET g == Put(w, HeaderCells)
     IN  w' = [g EXCEPT !.file = WriteAt(@, 0, <<Ehdr(w.offset, Len(HeaderCells))>>)]
  /\ opened' = opened - 1

Phases ==
  \/ Start \/ SymbianInfo \/ DataSegmentsBegin \/ DataSegment \/ DataSegmentUnread
  \/ DataSegmentsEnd \/ CodeSegments \/ ThreadInfo \/ ProcessInfo \/ ExecutableInfo
  \/ RegisterInfoBegin \/ RegisterInfo \/ RegisterInfoEnd \/ StringInfo \/ ProgramHeaders

Next == CrashEvent \/ Phases \/ SetCancel \/ ResetProperties \/ Cancelled \/ Abandon

Spec == Init /\ [][Next]_vars

-------------------------------------------------------------------------------
(* When CrashEventL returns, a debugger finds in the file what was         *)
(* configured, each thing under its name; and nothing else if every        *)
(* segment could be read (CrashEventL and all it writes).                  *)
Faithful ==
  pc = "returned" =>
    IF unread = {} THEN Facts(w.file) = ExpectedOfAll
    ELSE ExpectedOfAll \subseteq Facts(w.file)
===============================================================================
