-------------------------------- MODULE TrkMemory --------------------------------
(***************************************************************************)
(* The memory and the registers of a process that the host reads and       *)
(* writes while there are breakpoints in it (DoReadMemory, DoWriteMemory,  *)
(* DoReadRegisters, DoWriteRegisters of the kernel driver and the handlers *)
(* of the dispatch layer that lead there).  The host is to see and to      *)
(* change the program; breakpoints are to stay, and to go without a trace. *)
(*                                                                         *)
(* An address is a half-word: an ARM instruction has two, a Thumb          *)
(* instruction one.  A half-word is the number of the write it came with.  *)
(* DebugSupport, which puts breakpoint instructions into the code and      *)
(* keeps what was there, is a part of the platform.                        *)
(***************************************************************************)
EXTENDS Naturals, Sequences, SequencesExt

CONSTANTS
  Top,       \* the addresses are 0 to Top
  Sites,     \* where instructions begin that can have a breakpoint, and their sizes
  Rom,       \* addresses in ROM and of the kernel
  Registers, \* in their order
  Secure,    \* SP, LR and CPSR
  MaxWrites, MaxFaults, MaxRuns \* bounds

MemoryAssumption ==
  /\ {Top, MaxWrites, MaxFaults, MaxRuns} \subseteq Nat
  /\ Sites \subseteq [at : 0..Top, size : {1, 2}] /\ Rom \subseteq 0..Top
  /\ \A s, t \in Sites : s.at \in t.at..(t.at + t.size - 1) => s = t

VARIABLES
  oem,       \* __OEM_TRK__
  about,     \* whether this behaviour is about the code or the registers
  threads,   \* of the process, that live
  debugged,  \* the process is in iDebugProcessList
  mem, code, \* what is in the memory, and the program as the host knows it
  saved,     \* what DebugSupport keeps of the code
  entries,   \* the breakpoints of the user in iBreakPointList
  temp,      \* sites of temporary breakpoints
  writing,   \* what DoWriteMemory has written, before it looks for breakpoints
  regs, own, \* the registers of a thread, and what they are to be
  context,   \* the registers that DoWriteRegisters is about to set
  shown,     \* the last answer to the host was right
  limits,    \* why breakpoints and code may have got mixed up
  writes, faults, runs

vars == <<oem, about, threads, debugged, mem, code, saved, entries, temp, writing, regs, own,
          context, shown, limits, writes, faults, runs>>

Addrs == 0..Top
Threads == {"main", "other"}
Break == 0      \* a half-word of a breakpoint instruction
Garbage == 100  \* what was beyond the end of a buffer
None == <<>>
Places == 1..Len(Registers)

Init ==
  /\ oem \in BOOLEAN /\ about \in {"code", "registers"} /\ threads = Threads /\ debugged = TRUE
  /\ mem = [a \in Addrs |-> 1] /\ code = mem /\ saved = [s \in Sites |-> None]
  /\ entries = <<>> /\ temp = {} /\ writing = [at |-> 0, data |-> None]
  /\ regs = [r \in Places |-> 1] /\ own = regs /\ context = None
  /\ shown = TRUE /\ limits = {} /\ writes = 1 /\ faults = 0 /\ runs = 0

-------------------------------------------------------------------------------
Cells(s) == s.at..(s.at + s.size - 1)
Content(m, at, n) == [i \in 1..n |-> m[at + i - 1]]
With(m, at, data) == [a \in Addrs |-> IF a - at + 1 \in DOMAIN data /\ a >= at
                                       THEN data[a - at + 1] ELSE m[a]]
Planted(s) == [i \in 1..s.size |-> Break]

IsAddressSecure(at) == at \in Rom

(* TryToReadMemory and TryToWriteMemory look at the first address only.    *)
Allowed(t, at) == t \in threads /\ (oem \/ (debugged /\ ~IsAddressSecure(at)))

Because(why, holds) == IF holds THEN {why} ELSE {}
Limit(new) == limits' = limits \cup new

(* The driver handles one request at a time.                               *)
Idle == about = "code" /\ writing.data = None
CodeOnly == UNCHANGED <<oem, about, regs, own, context, runs>>

(* The range begins or ends within an instruction that has a breakpoint.   *)
Within(at, n) == at..(at + n - 1)
Cuts(at, n) == \E i \in DOMAIN entries :
                 LET c == Cells(entries[i].site)
                 IN  c \cap Within(at, n) # {} /\ ~(c \subseteq Within(at, n))
MeetsTemp(at, n) == \E s \in temp : Cells(s) \cap Within(at, n) # {}
InRange(e, at, n) == e.site.at \in Within(at, n)

-------------------------------------------------------------------------------
(* DoReadMemory: the instructions of the user's breakpoints take the place *)
(* of the breakpoint instructions.                                         *)

(* Mutant: as it is in the memory.                                         *)
AsInMemory(at, n) == Content(mem, at, n)

Answer(at, n) ==
  LET cell(a) == LET here == {i \in DOMAIN entries : InRange(entries[i], at, n)
                                                     /\ a \in Cells(entries[i].site)}
                 IN  IF here = {} THEN mem[a]
                     ELSE LET e == entries[CHOOSE i \in here : TRUE]
                          IN  e.inst[a - e.site.at + 1]
  IN  [i \in 1..n |-> cell(at + i - 1)]

DoReadMemory(t, at, n) ==
  /\ Allowed(t, at)
  /\ shown' = (Answer(at, n) = Content(code, at, n))
  /\ Limit(Because("edge", Cuts(at, n)) \cup Because("temporary", MeetsTemp(at, n)))

ReadMemory(t, at, n) ==
  /\ Idle /\ at + n - 1 <= Top /\ DoReadMemory(t, at, n)
  /\ CodeOnly
  /\ UNCHANGED <<threads, debugged, mem, code, saved, entries, temp, writing, writes, faults>>

DoReadMemoryL == \E t \in Threads, at \in Addrs, n \in 1..2 : ReadMemory(t, at, n)

(* DoWriteMemory puts the data over everything that is there ...           *)
DoWriteMemory(t, at, n) ==
  /\ Allowed(t, at)
  /\ LET data == [i \in 1..n |-> writes + 1]
     IN  /\ mem' = With(mem, at, data) /\ code' = With(code, at, data)
         /\ writing' = [at |-> at, data |-> data]
  /\ Limit(Because("edge", Cuts(at, n)) \cup Because("temporary", MeetsTemp(at, n)))

WriteMemory(t, at, n) ==
  /\ Idle /\ at + n - 1 <= Top /\ DoWriteMemory(t, at, n)
  /\ writes < MaxWrites /\ writes' = writes + 1
  /\ CodeOnly /\ UNCHANGED <<threads, debugged, saved, entries, temp, shown, faults>>

DoWriteMemoryL == \E t \in Threads, at \in Addrs, n \in 1..2 : WriteMemory(t, at, n)

(* ... and then the breakpoints in again, those that are disabled as well; *)
(* what DebugSupport keeps is not changed.                                 *)
NewInst(e) ==
  [i \in 1..e.site.size |->
    LET k == e.site.at - writing.at + i
    IN  IF k \in DOMAIN writing.data THEN writing.data[k] ELSE Garbage]

Overwritten(i) == InRange(entries[i], writing.at, Len(writing.data))

(* Mutant: the entries keep the instructions they had.                     *)
EntriesAsBefore == entries

EntriesAfter ==
  [i \in DOMAIN entries |->
    IF Overwritten(i) THEN [entries[i] EXCEPT !.inst = NewInst(entries[i])] ELSE entries[i]]

(* Mutant: the breakpoint instructions are not written again.              *)
MemoryAsWritten == mem

MemoryAfter ==
  [a \in Addrs |->
    IF \E i \in DOMAIN entries : Overwritten(i) /\ a \in Cells(entries[i].site)
    THEN Break ELSE mem[a]]

ResetBreaks ==
  /\ about = "code" /\ writing.data # None
  /\ entries' = EntriesAfter /\ mem' = MemoryAfter
  /\ writing' = [at |-> 0, data |-> None]
  /\ Limit(Because("stepped", \E i \in DOMAIN entries : Overwritten(i) /\ entries[i].off))
  /\ CodeOnly
  /\ UNCHANGED <<threads, debugged, code, saved, temp, shown, writes, faults>>

-------------------------------------------------------------------------------
(* Breakpoints.                                                            *)

(* ModifyCode and RestoreCode of DebugSupport.                             *)
ModifyCode(s) ==
  /\ saved' = [saved EXCEPT ![s] = Content(mem, s.at, s.size)]
  /\ mem' = With(mem, s.at, Planted(s))

RestoreCode(s) ==
  /\ saved[s] # None
  /\ mem' = With(mem, s.at, saved[s]) /\ saved' = [saved EXCEPT ![s] = None]

(* The thread whose process the code is changed of: when it does not live, *)
(* the first process of iDebugProcessList will do.                         *)
Through(t) == IF t \in threads THEN t ELSE IF debugged THEN "main" ELSE t

(* DoEnableBreak asks for an exception, and not for the error with which   *)
(* ModifyCode fails.                                                       *)
DoEnableBreak(s) ==
  \/ ModifyCode(s) /\ UNCHANGED <<faults, limits>>
  \/ /\ faults < MaxFaults /\ faults' = faults + 1 /\ Limit({"unarmed"})
     /\ UNCHANGED <<mem, saved>>

DoSetBreak(s, thread) ==
  /\ saved[s] = None /\ \A i \in DOMAIN entries : entries[i].site # s
  /\ Through(thread) \in threads /\ (oem \/ ~IsAddressSecure(s.at))
  /\ entries' = Append(entries, [site |-> s, inst |-> Content(mem, s.at, s.size), off |-> FALSE,
                                 thread |-> Through(thread)])
  /\ DoEnableBreak(s)

SetBreak(s, thread) ==
  /\ Idle /\ debugged /\ DoSetBreak(s, thread)
  /\ CodeOnly /\ UNCHANGED <<threads, debugged, code, temp, writing, shown, writes>>
DoSetBreakL == \E s \in Sites, t \in Threads : SetBreak(s, t)

Removable(e) == e.thread \in threads /\ saved[e.site] # None
(* What is put back is what was there when the breakpoint was set.         *)
Outdated(e) == saved[e.site] # e.inst

(* DoClearBreak: an entry stays when its thread has ended or DebugSupport  *)
(* knows nothing of it.                                                    *)
ClearBreak(i) ==
  /\ Idle
  /\ IF Removable(entries[i])
       THEN RestoreCode(entries[i].site) /\ entries' = RemoveAt(entries, i)
            /\ Limit(Because("old", Outdated(entries[i])))
       ELSE UNCHANGED <<mem, saved, entries, limits>>
  /\ CodeOnly /\ UNCHANGED <<threads, debugged, code, temp, writing, shown, writes, faults>>

DoClearBreakL == \E i \in DOMAIN entries : ClearBreak(i)

ChangeBreakThread(i, thread) ==
  /\ Idle /\ entries' = [entries EXCEPT ![i].thread = thread]
  /\ CodeOnly
  /\ UNCHANGED <<threads, debugged, mem, code, saved, temp, writing, shown, limits, writes, faults>>

DoModifyBreakThreadL == \E i \in DOMAIN entries, t \in Threads : ChangeBreakThread(i, t)

(* DisableBreakAtAddress: a thread is stepped past a breakpoint ...        *)
DisableBreak(i) ==
  /\ Idle /\ ~entries[i].off
  /\ entries' = [entries EXCEPT ![i].off = TRUE]
  /\ IF entries[i].thread \in threads
       THEN RestoreCode(entries[i].site) /\ Limit(Because("old", Outdated(entries[i])))
       ELSE Limit({"gone"}) /\ UNCHANGED <<mem, saved>>
  /\ CodeOnly /\ UNCHANGED <<threads, debugged, code, temp, writing, shown, writes, faults>>

(* ... and DoEnableDisabledBreak: the step has ended.                      *)
EnableBreak(i) ==
  /\ Idle /\ entries[i].off
  /\ entries' = [entries EXCEPT ![i].off = FALSE, ![i].thread = Through(@)]
  /\ IF Through(entries[i].thread) \in threads
       THEN ModifyCode(entries[i].site) /\ UNCHANGED limits
       ELSE Limit({"gone"}) /\ UNCHANGED <<mem, saved>>
  /\ CodeOnly /\ UNCHANGED <<threads, debugged, code, temp, writing, shown, writes, faults>>

(* The temporary breakpoint of a step is where no other is.                *)
SetTemp(s) ==
  /\ Idle /\ temp = {} /\ saved[s] = None /\ \A i \in DOMAIN entries : entries[i].site # s
  /\ temp' = {s} /\ ModifyCode(s)
  /\ CodeOnly
  /\ UNCHANGED <<threads, debugged, code, entries, writing, shown, limits, writes, faults>>

ClearTemp(s) ==
  /\ Idle /\ temp' = temp \ {s} /\ RestoreCode(s)
  /\ CodeOnly
  /\ UNCHANGED <<threads, debugged, code, entries, writing, shown, limits, writes, faults>>

-------------------------------------------------------------------------------
(* DetachProcess: the loop passes over the entry after each one it clears. *)

(* Mutant: the first one is passed over.                                   *)
WalkLate(acc, e) ==
  [skips |-> TRUE, left |-> Append(acc.left, e), gone |-> acc.gone]

Walk(acc, e) ==
  IF acc.skips \/ ~Removable(e)
  THEN [skips |-> FALSE, left |-> Append(acc.left, e), gone |-> acc.gone]
  ELSE [skips |-> TRUE, left |-> acc.left, gone |-> acc.gone \cup {e.site}]

Walked == FoldLeft(Walk, [skips |-> FALSE, left |-> <<>>, gone |-> {}], entries)

RestoreAll(sites) ==
  /\ mem' = [a \in Addrs |->
              IF \E s \in sites : a \in Cells(s)
              THEN LET s == CHOOSE s \in sites : a \in Cells(s) IN saved[s][a - s.at + 1]
              ELSE mem[a]]
  /\ saved' = [s \in Sites |-> IF s \in sites THEN None ELSE saved[s]]

AnyOutdated(sites) == \E i \in DOMAIN entries : entries[i].site \in sites /\ Outdated(entries[i])

DetachProcess ==
  /\ Idle /\ debugged /\ temp = {}
  /\ debugged' = FALSE /\ entries' = Walked.left /\ RestoreAll(Walked.gone)
  /\ Limit(Because("old", AnyOutdated(Walked.gone)) \cup Because("skipped", Len(entries) > 1)
           \cup Because("gone", \E e \in ToSet(entries) : ~Removable(e)))
  /\ CodeOnly /\ UNCHANGED <<threads, code, temp, writing, shown, writes, faults>>

AttachProcess ==
  /\ Idle /\ ~debugged /\ debugged' = TRUE
  /\ CodeOnly
  /\ UNCHANGED <<threads, mem, code, saved, entries, temp, writing, shown, limits, writes, faults>>

(* ClearAllBreakPoints: the list is empty whatever came of it.             *)
Close ==
  /\ Idle
  /\ LET all == {e \in ToSet(entries) : Removable(e)}
         sites == {e.site : e \in all} \cup temp
     IN  /\ RestoreAll(sites)
         /\ Limit(Because("old", AnyOutdated(sites))
                  \cup Because("gone", \E e \in ToSet(entries) : e.thread \notin threads))
  /\ entries' = <<>> /\ temp' = {} /\ debugged' = FALSE
  /\ CodeOnly /\ UNCHANGED <<threads, code, writing, shown, writes, faults>>

(* A thread ends, and not the last one.                                    *)
ThreadEnds(t) ==
  /\ about = "code" /\ threads = Threads /\ threads' = threads \ {t}
  /\ CodeOnly
  /\ UNCHANGED <<debugged, mem, code, saved, entries, temp, writing, shown, limits, writes, faults>>

-------------------------------------------------------------------------------
(* Registers.                                                              *)
RegsOnly ==
  UNCHANGED <<oem, about, threads, debugged, mem, code, saved, entries, temp, writing, faults>>

DoReadRegisters(first, last) == shown' = \A r \in first..last : regs[r] = own[r]

ReadRegisters(first, last) ==
  /\ about = "registers" /\ context = None /\ DoReadRegisters(first, last)
  /\ RegsOnly /\ UNCHANGED <<regs, own, context, limits, writes, runs>>

DoReadRegistersL == \E first, last \in Places : first <= last /\ ReadRegisters(first, last)

(* One secure register in the range and nothing is written.                *)
MayWrite(first, last) == oem \/ \A r \in first..last : Registers[r] \notin Secure

(* Mutant: the registers that are not written are not fetched.             *)
OnlyGiven(first, last) == [r \in Places |-> IF r \in first..last THEN writes + 1 ELSE 0]

Fetched(first, last) == [r \in Places |-> IF r \in first..last THEN writes + 1 ELSE regs[r]]

(* DoWriteRegisters fetches all registers ...                              *)
DoWriteRegisters(first, last) ==
  /\ MayWrite(first, last)
  /\ context' = Fetched(first, last)
  /\ own' = [r \in Places |-> IF r \in first..last THEN writes + 1 ELSE own[r]]

WriteRegisters(first, last) ==
  /\ about = "registers" /\ context = None /\ DoWriteRegisters(first, last)
  /\ writes < MaxWrites /\ writes' = writes + 1
  /\ RegsOnly /\ UNCHANGED <<regs, shown, limits, runs>>

DoWriteRegistersL == \E first, last \in Places : first <= last /\ WriteRegisters(first, last)

(* ... and sets them all.                                                  *)
SetContext ==
  /\ about = "registers" /\ context # None
  /\ regs' = context /\ context' = None
  /\ RegsOnly /\ UNCHANGED <<own, shown, limits, writes, runs>>

(* A thread that has not been stopped changes its registers.               *)
Runs(r) ==
  /\ about = "registers" /\ runs < MaxRuns /\ runs' = runs + 1
  /\ regs' = [regs EXCEPT ![r] = Garbage + runs] /\ own' = [own EXCEPT ![r] = Garbage + runs]
  /\ Limit(Because("running", context # None))
  /\ RegsOnly /\ UNCHANGED <<context, shown, writes>>

-------------------------------------------------------------------------------
(* Bound: a behaviour is followed until the first limit.                   *)
Goes == limits = {}

Steps ==
  \/ DoReadMemoryL \/ DoWriteMemoryL \/ ResetBreaks
  \/ DoSetBreakL \/ DoClearBreakL \/ DoModifyBreakThreadL
  \/ \E i \in DOMAIN entries : DisableBreak(i) \/ EnableBreak(i)
  \/ \E s \in Sites : SetTemp(s)
  \/ \E s \in temp : ClearTemp(s)
  \/ AttachProcess \/ DetachProcess \/ Close
  \/ \E t \in Threads : ThreadEnds(t)
  \/ DoReadRegistersL \/ DoWriteRegistersL \/ SetContext
  \/ \E r \in Places : Runs(r)

Next == Goes /\ Steps

-------------------------------------------------------------------------------
(* The host reads the program and not the breakpoints, unless the range    *)
(* cuts an instruction in two or a step is under way.                      *)
ShowsProgram == Goes => shown

(* Between two requests a breakpoint of the user is in the code unless it  *)
(* is disabled for a step, and where there is none the code is what the    *)
(* host wrote, unless ModifyCode failed, code was written over a           *)
(* breakpoint that was then taken out or disabled, or the thread through   *)
(* which it was set has ended.                                             *)
ArmedAndClean ==
  Goes /\ Idle =>
    LET armed == {entries[i].site : i \in {i \in DOMAIN entries : ~entries[i].off}} \cup temp
    IN  \A a \in Addrs :
          mem[a] = IF \E s \in armed : a \in Cells(s) THEN Break ELSE code[a]

(* A process that the debugger has detached from has no breakpoints left,  *)
(* unless it had more than one, the thread has ended through which it was  *)
(* set, or it was disabled for a step.                                     *)
NoneLeftBehind == Goes /\ ~debugged => entries = <<>>

(* The registers of a stopped thread are what the host wrote, or what they *)
(* were, and those of one that runs as well, but for a race with its write.*)
RegistersAsWritten == Goes /\ about = "registers" /\ context = None => regs = own
===============================================================================
