------------------------------ MODULE MCTrkTarget ------------------------------
(***************************************************************************)
(* What the host does with the target over the TRK, one of these in each   *)
(* behaviour: a step of a stopped thread, commands as such, files, the     *)
(* memory and the registers of a process, and the lists of its tasks.      *)
(***************************************************************************)
EXTENDS TrkStepCases

VARIABLES
  which, \* "step", "commands", "files", "memory", "tasks" or "libraries"
  cConnected, cHost, cPhone, cReply, cAlive, cMessage, cAnswers, cDone, cLimits, cCount,
  fOem, fUseTcb, fServer, fAlive, fEngine, fLeaked, fDisk, fHost, fKept, fLimits, fWrites,
  fFaults, fSessions,
  mOem, mAbout, mThreads, mDebugged, mMem, mCode, mSaved, mEntries, mTemp, mWriting, mRegs,
  mOwn, mContext, mShown, mLimits, mWrites, mFaults, mRuns,
  tAbout, tThere, tOver, tBegun, tList, tScan, tHost, tLived, tBefore, tFound, tSegs, tSlots,
  tWaits, tHeard, tSeen, tLimits, tAsks, tLoads

Commands == INSTANCE TrkCommands WITH
  MaxMessages <- 3,
  connected <- cConnected, host <- cHost, phone <- cPhone, reply <- cReply, alive <- cAlive,
  message <- cMessage, answers <- cAnswers, done <- cDone, limits <- cLimits, count <- cCount

(* A file that may be there, and one that only an OEM build may open.      *)
Files == INSTANCE TrkFiles WITH
  Names <- {"a", "sys"}, Restricted <- {"sys"}, Contents <- {<<0>>, << 9 >>},
  MaxWrites <- 2, MaxFaults <- 1, MaxSessions <- 1,
  oem <- fOem, useTcb <- fUseTcb, server <- fServer, alive <- fAlive, engine <- fEngine,
  leaked <- fLeaked, disk <- fDisk, host <- fHost, kept <- fKept, limits <- fLimits,
  writes <- fWrites, faults <- fFaults, sessions <- fSessions

(* An ARM instruction and two Thumb instructions, the last of them in ROM. *)
Mem == INSTANCE TrkMemory WITH
  Top <- 3, Sites <- {[at |-> 0, size |-> 2], [at |-> 2, size |-> 1], [at |-> 3, size |-> 1]},
  Rom <- {3}, Registers <- <<"r0", "sp", "pc">>, Secure <- {"sp"},
  MaxWrites <- 2, MaxFaults <- 1, MaxRuns <- 2,
  oem <- mOem, about <- mAbout, threads <- mThreads, debugged <- mDebugged, mem <- mMem,
  code <- mCode, saved <- mSaved, entries <- mEntries, temp <- mTemp, writing <- mWriting,
  regs <- mRegs, own <- mOwn, context <- mContext, shown <- mShown, limits <- mLimits,
  writes <- mWrites, faults <- mFaults, runs <- mRuns

(* Three threads of a process, of which two fit into a reply; the second   *)
(* process has the same uid.  The name of a library begins another name.   *)
Tasks == INSTANCE TrkTasks WITH
  Procs <- {"p", "q"}, Threads <- {"t1", "t2", "t3"},
  Owner <- [t \in {"t1", "t2", "t3"} |-> "p"], Uid <- [p \in {"p", "q"} |-> 1],
  Size <- [t \in {"p", "q", "t1", "t2", "t3"} |-> IF t \in {"p", "t1"} THEN 2 ELSE 1],
  Room <- 3, Later <- {"q", "t3"}, Libs <- {<<1>>, <<1, 2>>, <<3>>}, Slots <- 2,
  MaxAsks <- 3, MaxLoads <- 3,
  about <- tAbout, there <- tThere, over <- tOver, begun <- tBegun, list <- tList,
  scan <- tScan, host <- tHost, lived <- tLived, before <- tBefore, found <- tFound,
  segs <- tSegs, slots <- tSlots, waits <- tWaits, heard <- tHeard, seen <- tSeen,
  limits <- tLimits, asks <- tAsks, loads <- tLoads

commandVars ==
  <<cConnected, cHost, cPhone, cReply, cAlive, cMessage, cAnswers, cDone, cLimits, cCount>>
fileVars == <<fOem, fUseTcb, fServer, fAlive, fEngine, fLeaked, fDisk, fHost, fKept, fLimits,
              fWrites, fFaults, fSessions>>
memoryVars ==
  <<mOem, mAbout, mThreads, mDebugged, mMem, mCode, mSaved, mEntries, mTemp, mWriting, mRegs,
    mOwn, mContext, mShown, mLimits, mWrites, mFaults, mRuns>>
taskVars ==
  <<tAbout, tThere, tOver, tBegun, tList, tScan, tHost, tLived, tBefore, tFound, tSegs, tSlots,
    tWaits, tHeard, tSeen, tLimits, tAsks, tLoads>>
targetVars == <<which, vars, commandVars, fileVars, memoryVars, taskVars>>

ASSUME Files!FilesAssumption /\ Mem!MemoryAssumption /\ Tasks!TasksAssumption

TargetInit ==
  /\ which \in {"step", "commands", "files", "memory", "tasks", "libraries"}
  /\ IF which = "step" THEN TRUE ELSE case = CHOOSE c \in Cases : TRUE
  /\ IF which = "commands" THEN TRUE ELSE cPhone = {}
  /\ IF which = "files" THEN TRUE ELSE fOem = FALSE /\ fDisk = [n \in {"a", "sys"} |-> <<0>>]
  /\ IF which = "memory" THEN TRUE ELSE mOem = FALSE /\ mAbout = "code"
  /\ tAbout = IF which = "libraries" THEN "libraries" ELSE "lists"
  /\ Commands!Init /\ Files!Init /\ Mem!Init /\ Tasks!Init /\ Init

TargetNext ==
  \/ /\ which = "step" /\ Next
     /\ UNCHANGED <<which, commandVars, fileVars, memoryVars, taskVars>>
  \/ /\ which = "commands" /\ Commands!Next
     /\ UNCHANGED <<which, vars, fileVars, memoryVars, taskVars>>
  \/ /\ which = "files" /\ Files!Next
     /\ UNCHANGED <<which, vars, commandVars, memoryVars, taskVars>>
  \/ /\ which = "memory" /\ Mem!Next
     /\ UNCHANGED <<which, vars, commandVars, fileVars, taskVars>>
  \/ /\ which \in {"tasks", "libraries"} /\ Tasks!Next
     /\ UNCHANGED <<which, vars, commandVars, fileVars, memoryVars>>

TargetSpec == TargetInit /\ [][TargetNext]_targetVars

-------------------------------------------------------------------------------
(* What the host asks the agent for is done, and it is told the truth:     *)
(* each command is answered once, with data of its own and nothing done    *)
(* when it is to be sent again; files change as the modes of fopen say and *)
(* can be opened again; the memory is shown and changed as if there were   *)
(* no breakpoints, which stay in it and go without a trace; and lists and  *)
(* events have every task and library once.                                *)
Commanded ==
  /\ which = "commands" =>
       Commands!AnsweredOnce /\ Commands!OwnData /\ Commands!HarmlessNak /\ Commands!MaskTrue
  /\ which = "files" => Files!AsAsked /\ Files!OnlyHeld
  /\ which = "memory" =>
       Mem!ShowsProgram /\ Mem!ArmedAndClean /\ Mem!NoneLeftBehind /\ Mem!RegistersAsWritten
  /\ which \in {"tasks", "libraries"} => Tasks!ListsAll /\ Tasks!FindsIt /\ Tasks!ToldOnce
===============================================================================
