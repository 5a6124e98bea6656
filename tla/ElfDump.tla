------------------------------- MODULE ElfDump -------------------------------
(***************************************************************************)
(* What the two versions of the Symbian ELF formatter share: what is to be *)
(* dumped by the configuration, how notes and segments are laid out, the   *)
(* user who may cancel, and what a reader is to find in the end.  The text *)
(* of version 1 is that of version 2 but for the differences that the      *)
(* definitions tell by Version.                                            *)
(***************************************************************************)
EXTENDS SymbianElf, Integers

CONSTANTS
  Version,        \* of the formatter, 1 or 2
  Crashes,        \* records [uid, source, type, category, tid, pid, trace, var]
  OptionSets,     \* values of the formatter's configuration
  Processes,      \* the sequence of processes in the system
  Threads,        \* the sequence of [id, pid, stack, svc, heap]
  CodeSegs,       \* the sequence of [id, exe, code, ro, data] of the process
  Registers,      \* for each thread its sequence of [id, class, repr, avail]
  KNumofEntries,  \* entries of the media name property
  MaxDumps, MaxFaults

FormatterAssumption ==
  /\ Version \in {1, 2}
  /\ KNumofEntries \in Nat \ {0} /\ MaxDumps \in Nat /\ MaxFaults \in Nat
  /\ \A c \in Crashes : c.trace \in Nat /\ c.var \in Nat

VARIABLES
  pc,        \* the phase of HandleCrashEventL, "idle" outside it
  w,         \* the dump file, iOffset and iStrInfoTbl
  crash,     \* aCrashInfo
  options,   \* iElfOptions
  at,        \* where notes, data segments and register notes begin; threads done
  media,     \* ECrashMediaName
  cancel,    \* ECancelCrash
  opened,    \* how often iDataSave has been opened and not yet closed
  dumps, faults,        \* bounds
  unread,    \* the data segments and threads that could not be read
  hollow     \* notes whose size tells of more data than was written

vars == <<pc, w, crash, options, at, media, cancel, opened, dumps, faults, unread, hollow>>

-------------------------------------------------------------------------------
(* What is to be dumped, by the options.                                   *)

IsSystemCrash == crash.source = "flash"

CreateSystemWideOnly == options.sys = "wide"
CreateSystemCrashInfo == options.sys \in {"wide", "both"}
CreateDataSegments == ~CreateSystemWideOnly /\ options.data
CreateCodeSegments == ~CreateSystemWideOnly /\ options.code
CreateRegisterSegments == ~CreateSystemWideOnly /\ options.reg
CreateExecSegments == ~CreateSystemWideOnly /\ options.exec

Configured ==
  {kind \in {"sym", "thrd", "proc", "exec"} :
     \/ kind = "sym"
     \/ kind = "thrd" /\ options.thread
     \/ kind = "proc" /\ options.process
     \/ kind = "exec" /\ CreateExecSegments}

ThreadList ==
  SelectSeq(Threads,
    LAMBDA t : /\ CreateSystemCrashInfo \/ t.pid = crash.pid
               /\ options.procdata \/ t.pid # crash.pid \/ t.id = crash.tid)
OwnThreads == SelectSeq(ThreadList, LAMBDA t : t.pid = crash.pid)
ProcessList ==
  SelectSeq(Processes, LAMBDA p : CreateSystemCrashInfo \/ p = crash.pid)
Ids(list) == [i \in DOMAIN list |-> list[i].id]

(* The version 1 takes an empty stack for a segment, too.                  *)
NonEmpty(segs) == SelectSeq(segs, LAMBDA s : s.size > 0)
StackSegments(t) ==
  IF Version = 1 THEN <<t.stack>>
  ELSE NonEmpty(<<t.stack>> \o IF ~IsSystemCrash THEN <<>>
                               ELSE <<t.svc>> \o IF options.heap THEN <<t.heap>> ELSE <<>>)
DataSegs ==
  FlattenSeq([i \in DOMAIN OwnThreads |-> StackSegments(OwnThreads[i])])
  \o FlattenSeq([i \in DOMAIN CodeSegs |-> NonEmpty(<<CodeSegs[i].ro, CodeSegs[i].data>>)])

Memory(s, n) == [i \in 1..n |-> [k |-> "mem", address |-> s.base + i - 1]]

(* The crashed thread's registers are those at the time of the crash.      *)
FaultRegisters ==
  <<[id |-> "far", class |-> "copro", repr |-> 32, avail |-> TRUE],
    [id |-> "fsr", class |-> "copro", repr |-> 32, avail |-> TRUE]>>
HasContext == crash.type = "exception" \/ (Version = 2 /\ IsSystemCrash)
ArmExcRegs ==
  LET read == Registers[crash.tid]
  IN  IF ~HasContext THEN read
      ELSE [i \in DOMAIN read |->
              [read[i] EXCEPT !.avail = @ \/ read[i].class = "core"]] \o FaultRegisters
RegistersOf(tid) == IF tid = crash.tid THEN ArmExcRegs ELSE Registers[tid]
Value(tid, reg) ==
  [k |-> "value", thread |-> tid, reg |-> reg.id,
   from |-> IF tid = crash.tid /\ HasContext /\ (reg.class = "core" \/ reg.id \in {"far", "fsr"})
            THEN "crash" ELSE "thread"]

CoreGroups == <<<<"core", 8>>, <<"core", 16>>, <<"core", 32>>, <<"core", 64>>>>
CoproGroups == <<<<"copro", 8>>, <<"copro", 16>>, <<"copro", 32>>, <<"copro", 64>>>>
FindAllOfSame(regs, group) ==
  SelectSeq(regs, LAMBDA r : r.avail /\ <<r.class, r.repr>> = group)

-------------------------------------------------------------------------------
(* The segments: each takes the file so far and returns the file with it.  *)

DhdrFor(f, type, name, size, num) ==
  Dhdr(type, IF name = KErrNotFound THEN ESYM_STR_UNDEF ELSE name, size, num,
       GetIndex(f.table, IF Version = 1 THEN KSymbianElfCoreDumpVersion
                         ELSE KSymbianElfCoreDumpVersionV2))

WriteNamedInfo(f, type, name, ids) ==
  Put([f EXCEPT !.table = @ \o ids],
      <<DhdrFor(f, type, GetIndex(f.table, name), 1, Len(ids))>>
      \o [i \in DOMAIN ids |-> [k |-> type, id |-> ids[i], name |-> Added(f) + i - 1]])

WriteSymbianInfo(f) ==
  LET named == crash.type = "kill" /\ crash.category # ""
      g == IF named THEN AddString(f, crash.category) ELSE f
  IN  Put(g, <<DhdrFor(f, "sym", GetIndex(f.table, "SYMBIAN"), 1, 1),
               [k |-> "sym", id |-> crash.uid,
                name |-> IF named THEN Added(f) ELSE ESYM_STR_UNDEF]>>)

(* The register values come before the note that points at them.           *)
WriteRegisterGroup(f, tid, name, regs) ==
  LET n == Len(regs)
  IN  Put(f, [i \in 1..n |-> Value(tid, regs[i])]
             \o <<DhdrFor(f, "reg", name, 1 + n, 1),
                  [k |-> "reg", thread |-> tid, num |-> n]>>
             \o [i \in 1..n |-> [k |-> "regdata", reg |-> regs[i].id,
                                 data |-> f.offset + i - 1]])

RegisterName(tid) == "REGISTER." \o tid
WriteRegisters(f, offsets, tid, regs) ==
  LET name == Added(f)
      Step(group, acc) ==
        LET found == FindAllOfSame(regs, group)
        IN  IF found = <<>> THEN acc
            ELSE [f |-> WriteRegisterGroup(acc.f, tid, name, found),
                  offsets |-> Append(acc.offsets, acc.f.offset + Len(found))]
  IN  FoldLeft(LAMBDA acc, group : Step(group, acc),
               [f |-> AddString(f, RegisterName(tid)), offsets |-> offsets], CoreGroups \o CoproGroups)

WriteStringInfo(f) ==
  Put(f, <<DhdrFor(f, "str", GetIndex(f.table, "STR"), Len(f.table), 1)>>
         \o StringCells(f.table))

(* The program headers.  Version 1 gives a segment its size even when the  *)
(* segment could not be read and has no place in the file.                 *)
Note(kind) == IF at[kind] > 0 THEN <<PtNote(at[kind])>> ELSE <<>>
SegmentHeaders ==
  LET Header(s, o) == PtLoad(s, o, IF Version = 2 /\ o = 0 THEN 0 ELSE s.size)
  IN  (IF CreateDataSegments
       THEN [i \in DOMAIN DataSegs |-> Header(DataSegs[i], at.data[i])] ELSE <<>>)
      \o (IF CreateCodeSegments
          THEN [i \in DOMAIN CodeSegs |-> PtLoad(CodeSegs[i].code, 0, 0)] ELSE <<>>)
LogHeaders == Note("trace") \o Note("lock") \o Note("rom") \o Note("var") \o Note("str")
HeaderCells ==
  Note("sym") \o SegmentHeaders \o Note("thrd") \o Note("proc") \o Note("exec")
  \o [i \in DOMAIN at.regs |-> PtNote(at.regs[i])] \o LogHeaders

-------------------------------------------------------------------------------
(* The frame of a dump.                                                    *)

NoOffsets ==
  [data |-> <<>>, regs |-> <<>>, threads |-> 0, sym |-> 0, thrd |-> 0, proc |-> 0,
   exec |-> 0, trace |-> 0, lock |-> 0, rom |-> 0, var |-> 0, str |-> 0]

Init ==
  /\ pc = "idle" /\ cancel = FALSE /\ opened = 0
  /\ w = [file |-> <<>>, offset |-> 0, table |-> <<>>]
  /\ crash \in Crashes /\ options \in OptionSets
  /\ at = NoOffsets
  /\ media = <<>> /\ dumps = 0 /\ faults = 0
  /\ unread = {} /\ hollow = {}

(* The user cancels; PostProcessL of the crash handler resets the property *)
(* when all formatters have run.                                           *)
Resting == {"idle", "returned"}

SetCancel ==
  /\ pc \notin Resting /\ ~cancel /\ cancel' = TRUE
  /\ UNCHANGED <<pc, w, crash, options, at, media, opened, dumps, faults, unread, hollow>>

ResetProperties ==
  /\ pc \in Resting /\ cancel /\ cancel' = FALSE
  /\ UNCHANGED <<pc, w, crash, options, at, media, opened, dumps, faults, unread, hollow>>

Fault == faults < MaxFaults /\ faults' = faults + 1

(* The phases that begin with UpdateCrashProgressL, which looks for cancel.*)
Checks == {"start", "symbian", "data", "code", "thread", "process", "exec", "regs",
           "headers", "done"}

Proceeds(here, next) ==
  /\ pc = here /\ (here \in Checks => ~cancel) /\ pc' = next
  /\ UNCHANGED <<crash, options, cancel, dumps>>
Quietly == UNCHANGED <<media, opened, faults, unread, hollow>>

Segment == DataSegs[Len(at.data) + 1]

NamedInfo(here, next, kind, name, ids) ==
  /\ Proceeds(here, next) /\ Quietly
  /\ IF kind \in Configured
     THEN w' = WriteNamedInfo(w, kind, name, ids) /\ at' = [at EXCEPT ![kind] = w.offset]
     ELSE UNCHANGED <<w, at>>

-------------------------------------------------------------------------------
(* What a reader is to find: in terms of the crash, the configuration and  *)
(* what could not be read.                                                 *)

NoteFact(type, name) == [k |-> "note", type |-> type, name |-> name]
Named(kind, name, ids) ==
  IF kind \notin Configured THEN {}
  ELSE {NoteFact(kind, name)} \cup {[k |-> kind, id |-> i, name |-> i] : i \in ToSet(ids)}

ExpectedSegments ==
  LET Extent(s) == [k |-> "range", base |-> s.base, size |-> s.size]
      Content(s) == IF <<"segment", s.base>> \in unread THEN {} ELSE ToSet(Memory(s, s.size))
  IN  (IF CreateDataSegments
       THEN UNION {{Extent(s)} \cup Content(s) : s \in ToSet(DataSegs)} ELSE {})
      \cup (IF CreateCodeSegments THEN {Extent(c.code) : c \in ToSet(CodeSegs)} ELSE {})

ExpectedRegisters ==
  LET Known(tid) == {r \in ToSet(RegistersOf(tid)) : r.avail /\ <<"thread", tid>> \notin unread}
      Told(tid) == {[k |-> "reg", thread |-> tid, reg |-> r.id, value |-> Value(tid, r)]
                    : r \in Known(tid)}
  IN  IF ~CreateRegisterSegments THEN {}
      ELSE UNION {IF Known(tid) = {} THEN {}
                  ELSE {NoteFact("reg", RegisterName(tid))} \cup Told(tid)
                  : tid \in ToSet(Ids(OwnThreads))}

ExpectedOfAll ==
  {NoteFact("sym", "SYMBIAN"), NoteFact("str", "STR"),
   [k |-> "sym", id |-> crash.uid,
    name |-> IF crash.type = "kill" THEN crash.category ELSE ""]}
  \cup ExpectedSegments
  \cup Named("thrd", "THREAD", Ids(ThreadList))
  \cup Named("proc", "PROCESS", ProcessList)
  \cup Named("exec", "EXECUTABLE", Ids(CodeSegs))
  \cup ExpectedRegisters
===============================================================================
