----------------------------- MODULE ElfFormatter -----------------------------
(***************************************************************************)
(* CSymbianElfFormatterV2 with the file writer: how the dump of a crash is *)
(* laid out while the data source, the file and the trace framework may    *)
(* fail at any point and the user may cancel.                              *)
(*                                                                         *)
(* HandleCrashEventL writes phase by phase, and one action is one phase:   *)
(* between two of them only the user acts.  What leaves out of a phase     *)
(* abandons the dump, except in the phases that HandleCrashEventL traps;   *)
(* there the file keeps what had been written.  A dump is of a thread of   *)
(* the running system (source "live", CPSR in user mode) or of a crash log *)
(* ("flash", which IsSystemCrash finds in a privileged mode).              *)
(***************************************************************************)
EXTENDS ElfDump

-------------------------------------------------------------------------------
(* The media name property, which the user looks at.                       *)

\* Mutant: the crash is not looked for among the entries.
UpdateMediaNameAlways(status, uid) ==
  LET room == IF Len(media) = KNumofEntries THEN Tail(media) ELSE media
  IN  Append(room, [status |-> status, uid |-> uid])

UpdateMediaName(status, uid) ==
  LET known == {i \in DOMAIN media : media[i].uid = uid}
      entry == [status |-> status, uid |-> uid]
      room == IF Len(media) = KNumofEntries THEN Tail(media) ELSE media
  IN  IF known # {} THEN [media EXCEPT ![CHOOSE i \in known : TRUE].status = status]
      ELSE Append(room, entry)

Trapped == {"trace", "lock", "rom", "variant"}

(* CrashEventL opens the file and lists the crash as being dumped.         *)
CrashEvent ==
  /\ pc = "idle" /\ dumps < MaxDumps
  /\ crash' \in Crashes /\ options' \in OptionSets
  /\ dumps' = dumps + 1 /\ opened' = 1 /\ pc' = "start"
  /\ media' = UpdateMediaName("I", crash'.uid)
  /\ w' = [file |-> <<>>, offset |-> 0, table |-> <<>>]
  /\ at' = NoOffsets /\ unread' = {} /\ hollow' = {}
  /\ UNCHANGED <<cancel, faults>>

(* Opening leaves, or listing does: then the empty file is closed again.   *)
CrashEventFails ==
  /\ pc = "idle" /\ dumps < MaxDumps /\ Fault
  /\ dumps' = dumps + 1
  /\ UNCHANGED <<pc, w, crash, options, at, media, cancel, opened, unread, hollow>>

(* UpdateCrashProgressL closes the file and leaves, and CrashEventL closes *)
(* what has left HandleCrashEventL once more.                              *)
Cancelled ==
  /\ pc \in Checks /\ cancel
  /\ opened' = opened - (IF pc = "done" THEN 1 ELSE 2) /\ pc' = "idle"
  /\ \/ media' = UpdateMediaName("C", crash.uid) /\ UNCHANGED faults
     \/ UNCHANGED media /\ Fault
  /\ UNCHANGED <<w, crash, options, at, cancel, dumps, unread, hollow>>

(* A leave that nothing traps before CrashEventL does.                     *)
Abandon ==
  /\ pc \notin {"idle", "done"} \cup Trapped /\ Fault
  /\ pc' = "idle"
  /\ opened' \in IF pc = "headers" THEN {opened - 1, opened - 2} ELSE {opened - 1}
  /\ UNCHANGED <<w, crash, options, at, media, cancel, dumps, unread, hollow>>

-------------------------------------------------------------------------------
(* HandleCrashEventL, phase by phase.                                      *)

Start ==
  /\ Proceeds("start", "symbian") /\ Quietly /\ UNCHANGED at
  /\ crash.pid \in ToSet(Processes) /\ \E i \in DOMAIN CodeSegs : CodeSegs[i].exe
  /\ w' = Put([w EXCEPT !.table = StandardStrings], <<[k |-> "blank"]>>)

SymbianInfo ==
  /\ Proceeds("symbian", "data") /\ Quietly
  /\ w' = WriteSymbianInfo(w) /\ at' = [at EXCEPT !.sym = w.offset]

DataSegmentsBegin ==
  /\ Proceeds("data", IF CreateDataSegments THEN "segment" ELSE "code")
  /\ Quietly /\ UNCHANGED <<w, at>>

WriteRawMemory ==
  /\ pc = "segment" /\ Len(at.data) < Len(DataSegs)
  /\ Proceeds("segment", "segment") /\ Quietly
  /\ w' = Put(w, Memory(Segment, Segment.size))
  /\ at' = [at EXCEPT !.data = Append(@, w.offset)]

\* Mutant: the header of a failed segment points at the part written.
WriteRawMemoryFailsPointing ==
  /\ pc = "segment" /\ Len(at.data) < Len(DataSegs) /\ Fault
  /\ Proceeds("segment", "segment") /\ UNCHANGED <<media, opened, hollow>>
  /\ \E n \in 0..Segment.size - 1 : w' = Put(w, Memory(Segment, n))
  /\ at' = [at EXCEPT !.data = Append(@, w.offset)]
  /\ unread' = unread \cup {<<"segment", Segment.base>>}

(* Reading or writing fails, perhaps after a part has been written.        *)
WriteRawMemoryFails ==
  /\ pc = "segment" /\ Len(at.data) < Len(DataSegs) /\ Fault
  /\ Proceeds("segment", "segment") /\ UNCHANGED <<media, opened, hollow>>
  /\ \E n \in 0..Segment.size - 1 : w' = Put(w, Memory(Segment, n))
  /\ at' = [at EXCEPT !.data = Append(@, 0)]
  /\ unread' = unread \cup {<<"segment", Segment.base>>}

DataSegmentsEnd ==
  /\ pc = "segment" /\ Len(at.data) = Len(DataSegs)
  /\ Proceeds("segment", "code") /\ Quietly /\ UNCHANGED <<w, at>>

CodeSegments ==
  /\ Proceeds("code", "thread") /\ Quietly /\ UNCHANGED <<w, at>>

ThreadInfo == NamedInfo("thread", "process", "thrd", "THREAD", Ids(ThreadList))
ProcessInfo == NamedInfo("process", "exec", "proc", "PROCESS", ProcessList)
ExecutableInfo == NamedInfo("exec", "trace", "exec", "EXECUTABLE", Ids(CodeSegs))

(* The four notes whose failure is trapped.  What leaves before its data   *)
(* has been written leaves behind nothing, a string, or a descriptor too.  *)
NoteName == [trace |-> "TRACE", lock |-> "LOCKDATA", rom |-> "ROMBUILD", var |-> "VARDATA"]

(* A note with a descriptor and an information cell of its own name.       *)
Descriptor(f, type, name, num) ==
  Put(AddString(f, name), <<DhdrFor(f, type, Added(f), num, 1)>>)

Skip(here, next) ==
  /\ Proceeds(here, next) /\ Quietly /\ UNCHANGED <<w, at>>

Leaves(here, next, kind, left) ==
  /\ Proceeds(here, next) /\ UNCHANGED <<media, opened, hollow, at>>
  /\ unread' = unread \cup {<<"note", kind>>}
  /\ w' \in left

Partly(kind) ==
  {w, AddString(w, NoteName[kind]), Descriptor(w, kind, NoteName[kind], 1)}

Finds(here, next, kind, g, empty) ==
  /\ Proceeds(here, next) /\ UNCHANGED <<media, opened, unread>>
  /\ w' = g /\ at' = [at EXCEPT ![kind] = w.offset] /\ hollow' = hollow \cup empty

Pointed(f, kind, size) ==
  LET g == Descriptor(f, kind, NoteName[kind], 1)
  IN  Put(g, <<[k |-> kind, data |-> g.offset + 1, size |-> size]>>)
Data(kind, n) == [i \in 1..n |-> [k |-> "data", of |-> kind, i |-> i]]
Least(m, n) == IF m < n THEN m ELSE n

(* The size in the note is that of the trace there is, not of the trace    *)
(* that is written; and the live trace advances iOffset by the former.     *)
(* A live trace is cut, but the position moves by all there is of it.      *)
LiveTrace(g, n) == [g EXCEPT !.offset = @ + crash.trace - n]
TraceBuffer ==
  /\ options.trace > 0
  /\ LET n == Least(crash.trace, options.trace)
         g == Put(Pointed(w, "trace", crash.trace), Data("trace", n))
     IN  Finds("trace", "lock", "trace",
               IF IsSystemCrash THEN g ELSE LiveTrace(g, n),
               IF n = crash.trace THEN {}
               ELSE IF IsSystemCrash THEN {"trace"} ELSE {"trace", "shifted"})
  /\ UNCHANGED faults

(* The size is not to be had, or the trace is not, once its size is known. *)
TraceBufferFails ==
  /\ options.trace > 0 /\ Fault
  /\ \/ Leaves("trace", "lock", "trace", Partly("trace"))
     \/ Finds("trace", "lock", "trace", Pointed(w, "trace", 0), {"trace"})
     \/ \E n \in 0..crash.trace :
          LET g == Put(Pointed(w, "trace", crash.trace), Data("trace", n))
          IN  Finds("trace", "lock", "trace", [g EXCEPT !.offset = @ - n], {"trace"})

NoTrace == options.trace = 0 /\ Skip("trace", "lock")

Stored(kind, cells) ==
  Put(Descriptor(w, kind, NoteName[kind], 1), cells)

(* Locks and ROM build are known of a crash log only.                      *)
LockData ==
  \/ ~options.lock /\ Skip("lock", "rom")
  \/ options.lock /\ IsSystemCrash /\ UNCHANGED faults
     /\ Finds("lock", "rom", "lock", Stored("lock", <<[k |-> "lock"]>>), {})
  \/ options.lock /\ IsSystemCrash /\ Fault /\ Leaves("lock", "rom", "lock", Partly("lock"))
  \/ options.lock /\ ~IsSystemCrash /\ UNCHANGED faults
     /\ Leaves("lock", "rom", "lock", {w})

RomBuildInfo ==
  \/ ~options.rom /\ Skip("rom", "variant")
  \/ options.rom /\ IsSystemCrash /\ UNCHANGED faults
     /\ Finds("rom", "variant", "rom", Stored("rom", <<[k |-> "rom"], [k |-> "spare"]>>), {})
  \/ options.rom /\ IsSystemCrash /\ Fault /\ Leaves("rom", "variant", "rom", Partly("rom"))
  \/ options.rom /\ ~IsSystemCrash /\ UNCHANGED faults
     /\ Leaves("rom", "variant", "rom", {w})

(* The variant's data, too, are those of a crash log.                      *)
VariantSize == IF IsSystemCrash THEN crash.var ELSE 0

VariantSpecificData ==
  \/ ~options.var /\ Skip("variant", "regs")
  \/ options.var /\ UNCHANGED faults
     /\ Finds("variant", "regs", "var",
              Put(Pointed(w, "var", VariantSize), Data("var", VariantSize)), {})

(* iOffset moves on although the information has not been written; or the  *)
(* data behind it are missing.                                             *)
VariantSpecificDataFails ==
  /\ options.var /\ Fault
  /\ \/ Leaves("variant", "regs", "var", Partly("var"))
     \/ LET g == Descriptor(w, "var", NoteName.var, 1)
        IN  Finds("variant", "regs", "var", [g EXCEPT !.offset = @ + 1], {"var", "shifted"})
     \/ VariantSize > 0
        /\ \/ Leaves("variant", "regs", "var", {Pointed(w, "var", VariantSize)})
           \/ Finds("variant", "regs", "var", Pointed(w, "var", VariantSize), {"var"})

RegisterInfoBegin ==
  /\ Proceeds("regs", IF CreateRegisterSegments THEN "register" ELSE "strings")
  /\ Quietly /\ UNCHANGED <<w, at>>

RegisterInfo ==
  /\ pc = "register" /\ at.threads < Len(OwnThreads)
  /\ Proceeds("register", "register") /\ UNCHANGED <<media, opened, hollow>>
  /\ LET tid == OwnThreads[at.threads + 1].id
         Write(regs) == LET r == WriteRegisters(w, at.regs, tid, regs)
                        IN  w' = r.f /\ at' = [at EXCEPT !.regs = r.offsets, !.threads = @ + 1]
     IN  \/ Write(RegistersOf(tid)) /\ UNCHANGED <<faults, unread>>
         \/ /\ tid # crash.tid /\ Fault
            /\ Write(<<>>) /\ unread' = unread \cup {<<"thread", tid>>}

RegisterInfoEnd ==
  /\ pc = "register" /\ at.threads = Len(OwnThreads)
  /\ Proceeds("register", "strings") /\ Quietly /\ UNCHANGED <<w, at>>

StringInfo ==
  /\ Proceeds("strings", "headers") /\ Quietly
  /\ w' = WriteStringInfo(w) /\ at' = [at EXCEPT !.str = w.offset]

(* The program headers, the ELF header in front, and the file is closed.   *)
ElfHeader(g) == [g EXCEPT !.file = WriteAt(@, 0, <<Ehdr(w.offset, Len(HeaderCells))>>)]
ProgramHeaders ==
  /\ Proceeds("headers", "done") /\ UNCHANGED <<media, faults, unread, hollow, at>>
  /\ w' = ElfHeader(Put(w, HeaderCells))
  /\ opened' = opened - 1

Done ==
  /\ Proceeds("done", "idle") /\ UNCHANGED <<w, at, unread, hollow>>
  /\ \/ media' = UpdateMediaName("D", crash.uid) /\ UNCHANGED <<opened, faults>>
     \/ Fault /\ opened' = opened - 1 /\ UNCHANGED media

Phases ==
  \/ Start \/ SymbianInfo \/ DataSegmentsBegin \/ WriteRawMemory \/ WriteRawMemoryFails
  \/ DataSegmentsEnd \/ CodeSegments \/ ThreadInfo \/ ProcessInfo \/ ExecutableInfo
  \/ TraceBuffer \/ TraceBufferFails \/ NoTrace \/ LockData \/ RomBuildInfo
  \/ VariantSpecificData \/ VariantSpecificDataFails \/ RegisterInfoBegin \/ RegisterInfo
  \/ RegisterInfoEnd \/ StringInfo \/ ProgramHeaders \/ Done

Next ==
  \/ CrashEvent \/ CrashEventFails \/ Phases
  \/ SetCancel \/ ResetProperties \/ Cancelled \/ Abandon

Spec == Init /\ [][Next]_vars

-------------------------------------------------------------------------------
(* The trapped notes as a reader finds them.                               *)

ExpectedNote(kind, wanted, content) ==
  IF ~wanted \/ <<"note", kind>> \in unread THEN {}
  ELSE {NoteFact(kind, NoteName[kind])}
       \cup IF kind \in hollow THEN {} ELSE content

Expected ==
  ExpectedOfAll
  \cup ExpectedNote("trace", options.trace > 0, ToSet(Data("trace", crash.trace)))
  \cup ExpectedNote("lock", options.lock, {[k |-> "lock"]})
  \cup ExpectedNote("rom", options.rom, {[k |-> "rom"]})
  \cup ExpectedNote("var", options.var, ToSet(Data("var", VariantSize)))

(* When the user is told that a crash has been dumped, a debugger that     *)
(* follows the headers of the file finds what was configured and could be  *)
(* read, each thing under its name and each register with its value, and   *)
(* nothing else (HandleCrashEventL; where less trace or variant data was   *)
(* written than the note says, nothing of the rest is lost; where iOffset  *)
(* has passed the end of the file nothing is promised).                    *)
Faithful ==
  \A i \in DOMAIN media :
    media[i] = [status |-> "D", uid |-> crash.uid] /\ "shifted" \notin hollow =>
      IF hollow = {} THEN Facts(w.file) = Expected ELSE Expected \subseteq Facts(w.file)

(* The property the user looks at lists a crash once, lists the one that   *)
(* is being dumped as in progress, and keeps the others until there are    *)
(* KNumofEntries younger ones (UpdateMediaNameL).                          *)
Listed ==
  /\ \A i, j \in DOMAIN media : media[i].uid = media[j].uid => i = j
  /\ pc # "idle" => \E i \in DOMAIN media : media[i] = [status |-> "I", uid |-> crash.uid]
===============================================================================
