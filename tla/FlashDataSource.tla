--------------------------- MODULE FlashDataSource ----------------------------
(***************************************************************************)
(* Crash logs in the flash, as the core dump server reads them: the kernel *)
(* writes a log when the system crashes and restarts; CFlashDataSource     *)
(* finds the log of a crash, keeps a map of it and answers the formatter's *)
(* questions about it; and the session lists the crashes, deletes them and *)
(* edits the configuration of the kernel's crash logger, which stands in   *)
(* front of the first log, in the same block of the flash.                 *)
(*                                                                         *)
(* The flash is an array of cells and a structure of a log takes as many   *)
(* cells as it is large, so that a read ends in the middle of a structure  *)
(* and the loops go on as the code does.  The walker that takes structures *)
(* from a buffer and the kernel's logger are not in the repository.        *)
(*                                                                         *)
(* "spoilt" names the known cases in which an answer is wrong or a log is  *)
(* lost; a behaviour ends at the first one.                                *)
(***************************************************************************)
EXTENDS Naturals, Sequences, SequencesExt, FiniteSets

CONSTANTS
  Logs,       \* the logs the kernel writes, one for each crash: sequences of
              \* structures [kind, size, tid, pid, name], where the name is that
              \* of a code segment, the address of memory or the number of parts
              \* of a trace, and tid the place of the data of a code segment
  Block,      \* cells of a block of flash (iFlashBlockSize)
  Blocks,     \* blocks of the partition
  ReadSize,   \* READ_SIZE
  Priorities, \* values of the logger's configuration
  Junk        \* what an uninitialised position may hold besides 0

VARIABLES
  flash,      \* the partition
  kept,       \* ghost: the crashes whose logs ought to be there
  current,    \* the crash that has been analysed, 0 for none
  start,      \* where its log starts
  memory,     \* iCrashMemoryMap: places of memory structures with their process
  codeSegs,   \* iCodeSegMap
  owners,     \* iThreadOwners: the first owner noted for each thread, or 0
  cached,     \* iRomBuildInfo, iLockData, iTraceDump, iVarSpecData: whose they are
  answer,     \* what has been asked last, and what was told
  scm,        \* iScmConfig
  first,      \* iFirstBlockBuf when iCrashFound, else <<>>
  saved,      \* the configuration DeleteCrashPartitionL writes again
  step,       \* "idle", or "erased" or "wiped": the flash has been erased
  reading,    \* ghost: "no", "yes", "old": ReadSCMConfigL has read this flash
  spoilt

logVars == <<flash, kept>>
mapVars == <<current, start, memory, codeSegs, cached>>
scmVars == <<scm, first, saved, step, reading>>
vars == <<logVars, mapVars, owners, answer, scmVars, spoilt>>

-------------------------------------------------------------------------------
(* The flash.  A cell holds a part of a structure of a log, a part of the  *)
(* configuration, which is one cell, or nothing.                           *)
Size == Block * Blocks
Blank == <<0, 0, 0>>
Configured(c) == <<0, c, 1>>
ConfigSize == 1

Crashes == DOMAIN Logs
Values(kind, field) ==
  UNION {{Logs[c][i][field] : i \in {j \in DOMAIN Logs[c] : Logs[c][j].kind = kind}} :
         c \in Crashes}
Threads == Values("thread", "tid")
Processes == Values("thread", "pid")
Addresses == Values("mem", "name")
LogCells ==
  [c \in Crashes |->
     FlattenSeq([i \in DOMAIN Logs[c] |-> [k \in 1..Logs[c][i].size |-> <<c, i, k>>]])]
LogSize(c) == Len(LogCells[c])
OffsetOf ==   \* of a structure in its log
  [c \in Crashes |->
     [i \in DOMAIN Logs[c] |-> SelectInSeq(LogCells[c], LAMBDA x : x[2] = i) - 1]]

Written(f, p, cells) ==
  [q \in 0..Size - 1 |-> IF q \in p..p + Len(cells) - 1 THEN cells[q - p + 1] ELSE f[q]]
Erased(f, b) == [q \in 0..Size - 1 |-> IF q \div Block = b THEN Blank ELSE f[q]]

(* What the walker finds at a position: a whole structure, or none.        *)
StartsAt(p) == p < Size /\ flash[p][1] # 0 /\ flash[p][3] = 1
Found(p) == LET s == Logs[flash[p][1]][flash[p][2]] IN
            [kind |-> s.kind, size |-> s.size, tid |-> s.tid, pid |-> s.pid,
             name |-> s.name, crash |-> flash[p][1], at |-> flash[p][2]]
IsWhole(p) ==
  /\ StartsAt(p) /\ p + Found(p).size <= Size
  /\ \A k \in 1..Found(p).size : flash[p + k - 1] = <<flash[p][1], flash[p][2], k>>

(* TCrashLogWalker::ReadLogHeader: the header with the offsets behind it.  *)
HeaderAt(p) == IsWhole(p) /\ Found(p).kind = "info"

ConfigHere == flash[0][1] = 0 /\ flash[0][3] = 1
LogsStart == IF ConfigHere THEN ConfigSize ELSE 0

(* A log is followed by the rest of its block, a whole one if none is left.*)
After(p) == LET end == p + LogSize(Found(p).crash) IN end + (Block - (end % Block))

(* GetCrashStartFromCrashIDL; Size when the crash is not found.            *)
CrashStart(c) ==
  LET f[p \in 0..2 * Size] ==
        IF p >= Size \/ ~HeaderAt(p) THEN Size ELSE IF Found(p).crash = c THEN p ELSE f[After(p)]
  IN f[LogsStart]

(* RefreshCrashListFromFlashL.                                             *)
CrashList ==
  LET f[p \in 0..2 * Size] ==
        IF p >= Size \/ ~HeaderAt(p) THEN <<>> ELSE <<Found(p).crash>> \o f[After(p)]
  IN f[LogsStart]

(* The kernel goes on behind the last log that has a header.               *)
FreePlace ==
  LET f[p \in 0..2 * Size] == IF p >= Size \/ ~HeaderAt(p) THEN p ELSE f[After(p)]
  IN f[LogsStart]

-------------------------------------------------------------------------------
NoAnswer == [what |-> "nothing", of |-> <<>>, told |-> {}]
NotCached == [rom |-> 0, locks |-> 0, trace |-> 0, var |-> 0]

(* A server that has just started.                                         *)
Fresh ==
  /\ current' = 0 /\ start' = 0 /\ memory' = <<>> /\ codeSegs' = <<>>
  /\ owners' = [t \in Threads |-> 0] /\ cached' = NotCached /\ answer' = NoAnswer
  /\ scm' = 0 /\ first' = <<>> /\ saved' = 0 /\ step' = "idle" /\ reading' = "no"

Init ==
  /\ \E c \in Priorities \cup {0} :
       flash = [q \in 0..Size - 1 |-> IF q = 0 /\ c # 0 THEN Configured(c) ELSE Blank]
  /\ kept = {}
  /\ current = 0 /\ start = 0 /\ memory = <<>> /\ codeSegs = <<>>
  /\ owners = [t \in Threads |-> 0] /\ cached = NotCached /\ answer = NoAnswer
  /\ scm = 0 /\ first = <<>> /\ saved = 0 /\ step = "idle" /\ reading = "no"
  /\ spoilt = {}

(* The system crashes; the kernel writes the log and everything restarts.  *)
SystemCrash ==
  \E c \in Crashes :
    /\ step = "idle" /\ kept = 1..c - 1
    /\ FreePlace + LogSize(c) <= Size
    /\ flash' = Written(flash, FreePlace, LogCells[c]) /\ kept' = kept \cup {c}
    /\ Fresh /\ UNCHANGED spoilt

(* The battery is taken out while a block is erased and not yet written.   *)
PowerFails ==
  /\ step # "idle" /\ spoilt' = {"power"}
  /\ Fresh /\ UNCHANGED logVars

-------------------------------------------------------------------------------
(* AnalyseCrashL: the map of the log of a crash.                           *)

(* HelpAnalyseCrashL.                                                      *)
Note(m, s, p) ==
  CASE s.kind = "mem" -> [m EXCEPT !.memory = Append(@, <<s.pid, p>>)]
    [] s.kind = "segset" -> [m EXCEPT !.set = s.pid]
    [] s.kind = "seg" -> [m EXCEPT !.codeSegs = Append(@, <<m.set, p>>)]
    [] s.kind \in {"rom", "locks", "trace", "var"} -> [m EXCEPT !.cached[s.kind] = s.crash]
    [] OTHER -> m

(* The trace and the data of the variant that are cached are those of an   *)
(* earlier crash until they are replaced.                                  *)
NoMap == [memory |-> <<>>, codeSegs |-> <<>>, set |-> 0,
          cached |-> [cached EXCEPT !.rom = 0, !.locks = 0]]

Place(c, p, i) == p + OffsetOf[c][i]

(* The structures of the log one by one, up to one that is not there.      *)
ReadUpTo(c, p) ==
  LET f[i \in 1..Len(Logs[c]) + 1] ==
        IF i > Len(Logs[c]) \/ ~IsWhole(Place(c, p, i)) THEN i - 1 ELSE f[i + 1]
  IN f[1]
MapOf(c, p) ==
  IF p = Size THEN NoMap
  ELSE FoldLeft(LAMBDA m, i : Note(m, Found(Place(c, p, i)), Place(c, p, i)), NoMap,
                [i \in 1..ReadUpTo(c, p) |-> i])

(* Mutant: the map of the crash before stays.                              *)
AnalyseCrashKeepsMap(c) ==
  /\ step = "idle" /\ CrashStart(c) < Size
  /\ LET p == CrashStart(c)
         m == MapOf(c, p)
     IN /\ memory' = memory \o m.memory /\ codeSegs' = codeSegs \o m.codeSegs
        /\ cached' = m.cached /\ current' = c /\ start' = p
  /\ answer' = NoAnswer
  /\ UNCHANGED <<logVars, owners, scmVars, spoilt>>

(* Of a log that is not found or corrupt nothing is asked.                 *)
AnalyseCrash(c) ==
  /\ step = "idle"
  /\ LET p == CrashStart(c)
         m == MapOf(c, p)
         whole == p < Size /\ ReadUpTo(c, p) = Len(Logs[c])
     IN /\ memory' = m.memory /\ codeSegs' = m.codeSegs /\ cached' = m.cached
        /\ current' = (IF whole THEN c ELSE 0) /\ start' = (IF whole THEN p ELSE 0)
  /\ answer' = NoAnswer
  /\ UNCHANGED <<logVars, owners, scmVars, spoilt>>

-------------------------------------------------------------------------------
(* The formatter's questions.                                              *)

Of(c, kinds) == {i \in DOMAIN Logs[c] : Logs[c][i].kind \in kinds}

(* TCrashOffsetsHeader: where the first structure of a kind stands, or 0.  *)
Offset(kind) ==
  LET at == Of(current, {kind}) IN
  IF at = {} THEN 0 ELSE Place(current, start, CHOOSE i \in at : \A j \in at : i <= j)

(* The loop of the lists: structures are taken from one read of the flash  *)
(* after another, until one of another kind comes or the position is max;  *)
(* one that is cut off is the first of the next read.  The position inside *)
(* a read is not initialised (junk).                                       *)
Listed(from, kinds, max, junk) ==
  LET Needed(p) == IF StartsAt(p) /\ Found(p).size > ReadSize THEN Found(p).size ELSE ReadSize
      f[p \in 0..2 * Size, e \in 0..2 * Size] ==
        IF p >= e \/ (StartsAt(p) /\ p + Found(p).size > e)
        THEN IF p + junk >= Size THEN <<>> ELSE f[p + junk, p + Needed(p)]
        ELSE IF ~IsWhole(p) \/ Found(p).kind \notin kinds THEN <<>>
        ELSE IF p + Found(p).size = max THEN <<Found(p)>>
        ELSE <<Found(p)>> \o f[p + Found(p).size, e]
  IN f[from, from]

Asks == step = "idle" /\ current # 0
Told(what, of, told) == answer' = [what |-> what, of |-> of, told |-> told]
AnswerOnly == UNCHANGED <<logVars, mapVars, owners, scmVars>>
Enter(junk) == junk \in {0} \cup Junk /\ spoilt' = IF junk = 0 THEN {} ELSE {"junk"}

GetProcessList ==
  \E junk \in {0} \cup Junk :
    /\ Asks /\ Enter(junk)
    /\ LET l == Listed(Offset("process"), {"process"}, Size, junk) IN
       Told("processes", <<>>, {s.pid : s \in ToSet(l)})
    /\ AnswerOnly

(* AssignOwner appends; a search finds the first owner of a thread.        *)
Assigned(l) ==
  [t \in Threads |->
     LET named == SelectSeq(l, LAMBDA s : s.tid = t) IN
     IF owners[t] # 0 \/ named = <<>> THEN owners[t] ELSE named[1].pid]

GetThreadList ==
  \E pid \in {0} \cup Processes, junk \in {0} \cup Junk :
    /\ Asks /\ Enter(junk)
    /\ LET l == Listed(Offset("thread"), {"thread"}, Size, junk) IN
       /\ Told("threads", <<pid>>, {s.tid : s \in {t \in ToSet(l) : pid \in {0, t.pid}}})
       /\ owners' = Assigned(l)
    /\ UNCHANGED <<logVars, mapVars, scmVars>>

(* HelpReadRegistersL, up to three times: the registers of the thread that *)
(* crashed, or those of supervisor and of user mode of another.  The bound *)
(* of the first is a size where a position is wanted, that of the last is  *)
(* the place of the one before.                                            *)
Registers == {"regset", "full", "svr", "usr"}
ReadRegisters ==
  \E t \in Threads, junk \in {0} \cup Junk :
    /\ Asks /\ Enter(junk)
    /\ LET l == IF t = Logs[current][1].tid
                THEN Listed(Offset("full"), Registers, LogSize(current), junk)
                ELSE Listed(Offset("svr"), Registers, Offset("usr"), junk)
                     \o Listed(Offset("usr"), Registers, Offset("svr"), junk)
       IN Told("registers", <<t>>, {s.at : s \in {r \in ToSet(l) : r.tid = t /\ r.kind # "regset"}})
    /\ AnswerOnly

(* What is kept of an earlier crash and used for this one.                 *)
Owner(t) == LET i == CHOOSE i \in Of(current, {"thread"}) : Logs[current][i].tid = t
            IN Logs[current][i].pid
Lives(t) == \E i \in Of(current, {"thread"}) : Logs[current][i].tid = t
Uses(t) == spoilt' = IF owners[t] \in {0, Owner(t)} THEN {} ELSE {"owners"}

(* ReadMemoryL: the last memory structure of the owner that has the        *)
(* address; what it holds comes right behind.                              *)
ReadMemory ==
  \E t \in Threads, a \in Addresses :
    /\ Asks /\ Lives(t) /\ owners[t] # 0 /\ Uses(t)
    /\ LET at == {i \in DOMAIN memory :
                    /\ memory[i][1] = owners[t]
                    /\ IsWhole(memory[i][2]) /\ Found(memory[i][2]).kind = "mem"
                    /\ Found(memory[i][2]).name = a}
           last == CHOOSE i \in at : \A j \in at : j <= i
       IN Told("memory", <<t, a>>, IF at = {} THEN {} ELSE {Found(memory[last][2]).at + 1})
    /\ AnswerOnly

(* GetCodeSegmentsL: from the last to the first, and none with data at the *)
(* place of the data of one that is listed; to have no data counts as a    *)
(* place, too.                                                             *)
Segments(pid) ==
  FoldRight(LAMBDA loc, l :
              LET s == Found(loc[2]) IN
              IF loc[1] # pid \/ \E i \in DOMAIN l : l[i].tid = s.tid THEN l ELSE Append(l, s),
            codeSegs, <<>>)
GetCodeSegments ==
  \E t \in Threads :
    /\ Asks /\ Lives(t) /\ owners[t] # 0
    /\ Told("segments", <<t>>, {s.name : s \in ToSet(Segments(owners[t]))})
    /\ spoilt' = (IF owners[t] = Owner(t) THEN {} ELSE {"owners"})
                 \cup (IF \E i, j \in Of(current, {"seg"}) :
                            /\ Logs[current][i].tid = Logs[current][j].tid
                            /\ Logs[current][i].name # Logs[current][j].name
                       THEN {"nodata"} ELSE {})
    /\ AnswerOnly

(* The cells of the raw structures from p on that follow a trace: a part   *)
(* of which all, the end or nothing lies behind pos.                       *)
Parts(p, n, pos) ==
  LET f[k \in 0..n, q \in 0..Size, done \in 0..Size] ==
        IF k = 0 \/ ~IsWhole(q) \/ Found(q).kind # "raw" THEN {}
        ELSE LET length == Found(q).size - 1
                 from == IF pos >= done THEN pos - done ELSE 0
             IN {<<Found(q).at, j>> : j \in from + 1..length}
                \cup f[k - 1, q + Found(q).size, done + length]
  IN f[n, p, 0]

(* ReadTraceBufferL, GetVariantSpecificData.                               *)
ReadTrace ==
  \E pos \in 0..2 :
    /\ Asks
    /\ Told("trace", <<pos>>,
            IF cached.trace = 0 THEN {}
            ELSE LET dump == Logs[cached.trace][CHOOSE i \in Of(cached.trace, {"trace"}) : TRUE]
                 IN Parts(Offset("trace") + dump.size, dump.name, pos))
    /\ AnswerOnly /\ UNCHANGED spoilt
GetVariantSpecificData ==
  /\ Asks
  /\ Told("var", <<0>>,
          IF cached.var = 0 THEN {}
          ELSE LET var == Logs[cached.var][CHOOSE i \in Of(cached.var, {"var"}) : TRUE]
               IN Parts(Offset("var") + var.size, 1, 0))
  /\ AnswerOnly /\ UNCHANGED spoilt

(* GetROMBuildInfoL, GetLocksL, GetAvailableTraceSizeL and                 *)
(* GetVariantSpecificDataSize answer from what is cached.                  *)
GetCached ==
  \E kind \in DOMAIN cached :
    /\ Asks /\ Told("cached", <<kind>>, {cached[kind]} \ {0})
    /\ spoilt' = IF cached[kind] \in {0, current} THEN {} ELSE {"cached"}
    /\ AnswerOnly

-------------------------------------------------------------------------------
(* The configuration of the crash logger.                                  *)

(* ReadSCMConfigL keeps the whole first block when a crash log begins in   *)
(* it; nothing ever forgets that it has.                                   *)
FirstBlock == [q \in 1..Block |-> flash[q - 1]]
ReadSCMConfig ==
  /\ step = "idle"
  /\ scm' = IF ConfigHere THEN flash[0][2] ELSE 0
  /\ IF ConfigHere /\ HeaderAt(ConfigSize)
     THEN first' = FirstBlock /\ reading' = "yes"
     ELSE first' = first /\ reading' = IF reading = "old" THEN "old" ELSE "yes"
  /\ UNCHANGED <<logVars, mapVars, owners, answer, saved, step, spoilt>>

(* ModifySCMConfigItemL and WriteSCMConfigL: the first block is erased and *)
(* then written.  Known cases: the flash has not been read, it holds no    *)
(* configuration but a log, or the logs have been deleted since.           *)
ModifySCMConfig ==
  \E c \in Priorities :
    /\ step = "idle" /\ c # scm
    /\ scm' = c /\ flash' = Erased(flash, 0) /\ step' = "erased"
    /\ spoilt' = (IF reading = "no" /\ kept # {} THEN {"unread"} ELSE {})
                 \cup (IF reading = "old" THEN {"old"} ELSE {})
                 \cup (IF ~ConfigHere /\ kept # {} THEN {"noconfig"} ELSE {})
    /\ UNCHANGED <<kept, mapVars, owners, answer, first, saved, reading>>

(* Mutant: the block that was kept is not used.                            *)
WriteSCMConfigOnly ==
  /\ step = "erased" /\ step' = "idle" /\ flash' = [flash EXCEPT ![0] = Configured(scm)]
  /\ UNCHANGED <<kept, mapVars, owners, answer, scm, first, saved, reading, spoilt>>

WriteSCMConfig ==
  /\ step = "erased" /\ step' = "idle"
  /\ flash' = [Written(flash, 0, first) EXCEPT ![0] = Configured(scm)]
  /\ UNCHANGED <<kept, mapVars, owners, answer, scm, first, saved, reading, spoilt>>

(* DeleteCrashPartitionL: everything is erased and the configuration       *)
(* written again.                                                          *)
DeletePartition ==
  /\ step = "idle" /\ kept # {}
  /\ saved' = (IF ConfigHere THEN flash[0][2] ELSE 0) /\ step' = "wiped"
  /\ flash' = [q \in 0..Size - 1 |-> Blank] /\ kept' = {}
  /\ reading' = IF first = <<>> THEN reading ELSE "old"
  /\ current' = 0 /\ start' = 0 /\ answer' = NoAnswer
  /\ UNCHANGED <<memory, codeSegs, cached, owners, scm, first, spoilt>>
RewriteConfig ==
  /\ step = "wiped" /\ step' = "idle" /\ saved' = 0
  /\ flash' = IF saved = 0 THEN flash ELSE [flash EXCEPT ![0] = Configured(saved)]
  /\ UNCHANGED <<kept, mapVars, owners, answer, scm, first, reading, spoilt>>

-------------------------------------------------------------------------------
Questions ==
  \/ GetProcessList \/ GetThreadList \/ ReadRegisters \/ ReadMemory \/ GetCodeSegments
  \/ ReadTrace \/ GetVariantSpecificData \/ GetCached
Configuration ==
  \/ ReadSCMConfig \/ ModifySCMConfig \/ WriteSCMConfig \/ DeletePartition \/ RewriteConfig
Next ==
  /\ spoilt = {}
  /\ \/ SystemCrash \/ PowerFails \/ (\E c \in Crashes : AnalyseCrash(c))
     \/ Questions \/ Configuration
Spec == Init /\ [][Next]_vars

-------------------------------------------------------------------------------
(* What the log of a crash says to a question.                             *)
Structures(c, kinds) == {Logs[c][i] : i \in Of(c, kinds)}
Behind(c, kind, pos) ==   \* the data of a trace or variant from a position on
  LET dumps == Of(c, {kind})
      at == CHOOSE i \in dumps : TRUE
      n == IF kind = "trace" THEN Logs[c][at].name ELSE 1
      cells == FlattenSeq([k \in 1..n |-> [j \in 1..Logs[c][at + k].size - 1 |-> <<at + k, j>>]])
  IN IF dumps = {} THEN {} ELSE {cells[j] : j \in pos + 1..Len(cells)}

Expected(c, q) ==
  CASE q.what = "processes" -> {s.pid : s \in Structures(c, {"process"})}
    [] q.what = "threads" ->
         {s.tid : s \in {t \in Structures(c, {"thread"}) : q.of[1] \in {0, t.pid}}}
    [] q.what = "registers" ->
         {i \in Of(c, IF q.of[1] = Logs[c][1].tid THEN {"full"} ELSE {"svr", "usr"}) :
            Logs[c][i].tid = q.of[1]}
    [] q.what = "memory" ->
         {i + 1 : i \in {j \in Of(c, {"mem"}) :
                           Logs[c][j].pid = Owner(q.of[1]) /\ Logs[c][j].name = q.of[2]}}
    [] q.what = "segments" ->
         {Logs[c][i].name : i \in {j \in Of(c, {"seg"}) : Logs[c][j].pid = Owner(q.of[1])}}
    [] q.what \in {"trace", "var"} -> Behind(c, q.what, q.of[1])
    [] q.what = "cached" -> IF Of(c, {q.of[1]}) = {} THEN {} ELSE {c}
    [] OTHER -> {}

(* What a formatter is told of a system crash is what the kernel has logged*)
(* of that crash: the logs that were read before and the size of a read    *)
(* make no difference.                                                     *)
RightCrash == spoilt = {} /\ current # 0 => answer.told = Expected(current, answer)

(* Until they are deleted, the logs of all crashes are found, in order,    *)
(* whole, and no others, whatever has been configured in between.          *)
LogsKept ==
  spoilt = {} /\ step = "idle" =>
    /\ CrashList = SetToSortSeq(kept, LAMBDA a, b : a < b)
    /\ \A c \in kept : ReadUpTo(c, CrashStart(c)) = Len(Logs[c])
===============================================================================
