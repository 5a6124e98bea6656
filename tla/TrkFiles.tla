-------------------------------- MODULE TrkFiles --------------------------------
(***************************************************************************)
(* The files that the host opens, reads, writes, positions and closes on   *)
(* the target (DoOpenFileL to CloseFileL of CTrkDispatchLayer).  There is  *)
(* one file at a time, whose handle is always 1; it is open in the agent   *)
(* or, in an OEM build that gets a session with it, in the TCB server,     *)
(* which repeats the agent's code.  No command asks whether a file is      *)
(* open, nor whether the host is connected.                                *)
(*                                                                         *)
(* A file is a sequence of units; each write brings a new one.  A failure  *)
(* of the file server is a fault, of which there are few.                  *)
(***************************************************************************)
EXTENDS Naturals, Sequences

CONSTANTS
  Names,       \* files
  Restricted,  \* those in \sys\, \resource\ or \private\
  Contents,    \* what may be in the other files at the start
  MaxWrites, MaxFaults, MaxSessions \* bounds

FilesAssumption ==
  /\ Restricted \subseteq Names /\ {MaxWrites, MaxFaults, MaxSessions} \subseteq Nat

VARIABLES
  oem,      \* __OEM_TRK__
  useTcb,   \* iUseTcbServer
  server,   \* the TCB server answers
  alive,    \* the agent has not panicked
  engine,   \* iFileState, iFile and iMode of the agent and of the TCB server
  leaked,   \* files of theirs that are open and to which no handle leads
  disk,     \* what is in the files
  host,     \* the file that the host has open, as the answers tell it
  kept,     \* what the host has the right to find in the files
  limits,   \* why it may not find it
  writes, faults, sessions

vars == <<oem, useTcb, server, alive, engine, leaked, disk, host, kept, limits, writes, faults,
          sessions>>

Engines == {"agent", "tcb"}
Absent == <<0>>     \* no file; no unit of a file is 0
NoFile == [name |-> "none", pos |-> 0, modes |-> {}]
Unused == [state |-> "unknown", file |-> NoFile, iMode |-> {}]
NoHost == [name |-> "none", pos |-> 0, modes |-> {}, written |-> FALSE]

(* kDSFileOpenCreate and kDSFileOpenAppend imply kDSFileOpenWrite.         *)
Modes == {{"read"}, {"read", "write"}, {"write", "create"}, {"write", "create", "append"}}

Init ==
  /\ oem \in BOOLEAN /\ useTcb = FALSE /\ server = FALSE /\ alive = TRUE
  /\ engine = [e \in Engines |-> Unused] /\ leaked = [e \in Engines |-> {}]
  /\ disk \in [Names -> Contents] /\ kept = disk
  /\ host = NoHost /\ limits = {} /\ writes = 0 /\ faults = 0 /\ sessions = 0

-------------------------------------------------------------------------------
(* Files are opened exclusively.                                           *)
Held(e) == leaked[e] \cup ({engine[e].file.name} \cap Names)
Locked == Held("agent") \cup Held("tcb")
InUse == IF useTcb THEN "tcb" ELSE "agent"

Fault == faults < MaxFaults /\ faults' = faults + 1
NoFault == UNCHANGED faults

(* What is there without the host's knowing.                               *)
Because(why, holds) == IF holds THEN {why} ELSE {}
Limit(new) == limits' = limits \cup new

-------------------------------------------------------------------------------
(* The file that was open before, whose handle is overwritten, stays open. *)
Overwritten(e) == [leaked EXCEPT ![e] = Held(e)]

(* iFile is open, and the rest has not been done.                          *)
StateAsBefore(e, name, modes) ==
  [engine EXCEPT ![e].file = [name |-> name, pos |-> 0, modes |-> modes], ![e].iMode = modes]

WithFile(e, name, modes) ==
  [engine EXCEPT ![e] = [state |-> "opened", file |-> [name |-> name, pos |-> 0, modes |-> modes],
                         iMode |-> modes]]

(* The TCB server keeps the mode first of all.                             *)
WithMode(e, modes) == [engine EXCEPT ![e].iMode = modes]
NewlyOpen(name, modes) == [name |-> name, pos |-> 0, modes |-> modes, written |-> FALSE]

(* OpenFileL with its answer.                                              *)
Opens(e, name, modes) ==
  /\ name \notin Locked
  /\ \/ disk[name] # Absent /\ UNCHANGED <<disk, faults>>   \* Open
     \/ disk[name] = Absent /\ disk' = [disk EXCEPT ![name] = <<>>] /\ NoFault  \* Replace
     \/ disk[name] # Absent /\ disk' = [disk EXCEPT ![name] = <<>>] /\ Fault
  /\ engine' = WithFile(e, name, modes) /\ leaked' = Overwritten(e)
  /\ host' = NewlyOpen(name, modes)
  /\ kept' = IF "create" \in modes /\ ("append" \notin modes \/ disk[name] = Absent)
               THEN [kept EXCEPT ![name] = <<>>] ELSE kept
  /\ LET fresh == "create" \in modes /\ ("append" \notin modes \/ disk[name] = Absent)
     IN  Limit(Because("emptied", disk'[name] # disk[name] /\ ~fresh)
               \cup Because("leaked", leaked'[e] # leaked[e]))

(* Replace fails as well: the file that was open before stays so.          *)
CannotOpen(e, name, modes) ==
  /\ \/ name \in Locked /\ NoFault
     \/ Fault
  /\ engine' = [WithMode(e, modes) EXCEPT ![e].file = NoFile] /\ leaked' = Overwritten(e)
  /\ host' = NoHost /\ Limit(Because("leaked", leaked'[e] # leaked[e]))
  /\ UNCHANGED <<disk, kept>>

(* MkDirAll fails: the handle of the file is not touched.                  *)
NoDirectory(e, modes) ==
  /\ Fault
  /\ engine' = WithMode(e, modes)
  /\ UNCHANGED <<leaked, disk, host, kept, limits>>

(* Modified fails when the file is already open, in the state as before.   *)
NoTime(e, name, modes) ==
  /\ Fault /\ name \notin Locked /\ disk[name] # Absent
  /\ engine' = StateAsBefore(e, name, modes)
  /\ leaked' = Overwritten(e) /\ host' = NoHost
  /\ Limit({"leaked"})
  /\ UNCHANGED <<disk, kept>>

OpenAt(e, name, modes) ==
  \/ Opens(e, name, modes) \/ CannotOpen(e, name, modes)
  \/ NoDirectory(e, modes) \/ NoTime(e, name, modes)

(* IsRestrictedFolder.                                                     *)
Refused(name) == ~oem /\ name \in Restricted

(* Connect makes a session, for which it may have to start the server ...  *)
Connects == useTcb' = TRUE /\ server' = TRUE

(* ... which may fail, whereupon the agent opens the file itself.          *)
CannotStart == UNCHANGED <<useTcb, server>>

(* Each open looks again for a TCB server, until there is one.             *)
DoOpenFile(name, modes) ==
  /\ alive /\ ~Refused(name)
  /\ \/ ~oem /\ OpenAt("agent", name, modes) /\ UNCHANGED <<useTcb, server>>
     \/ oem /\ ~useTcb /\ OpenAt("tcb", name, modes) /\ Connects
     \/ oem /\ ~useTcb /\ OpenAt("agent", name, modes) /\ CannotStart
     \/ useTcb /\ server /\ OpenAt("tcb", name, modes) /\ UNCHANGED <<useTcb, server>>
  /\ UNCHANGED <<oem, alive, writes, sessions>>

-------------------------------------------------------------------------------
(* Commands on the file that is open where the agent looks for it.  A call *)
(* on a handle that is not open panics: the agent is gone, or the TCB      *)
(* server, which is not looked for again before the host disconnects.      *)

At == engine[InUse]
IsOpen == At.file # NoFile
Reaches == alive /\ (useTcb => server)

Panic ==
  /\ Reaches /\ ~IsOpen
  /\ engine' = [engine EXCEPT ![InUse] = Unused] /\ leaked' = [leaked EXCEPT ![InUse] = {}]
  /\ alive' = useTcb /\ server' = FALSE
  /\ host' = NoHost
  /\ UNCHANGED <<oem, useTcb, disk, kept, limits, writes, faults, sessions>>

OnFile == Reaches /\ IsOpen /\ UNCHANGED <<oem, useTcb, server, alive, leaked, sessions>>
ByHost == host.name = At.file.name
HostMoves(pos) == host' = IF ByHost THEN [host EXCEPT !.pos = pos] ELSE host

(* The host takes a file for new that has not been truncated yet.          *)
Early == ByHost /\ "create" \in host.modes /\ ~host.written /\ disk[host.name] # kept[host.name]

Least(m, n) == IF m <= n THEN m ELSE n

(* What does not fit into the buffer of the client of the TCB server is    *)
(* lost, and the position has moved.                                       *)
Unanswered == useTcb /\ UNCHANGED host /\ Limit({"moved"})

(* ReadFileL reads as much as the buffer takes, which can be more than the *)
(* host asked for.                                                         *)
DoReadFile(length) ==
  /\ OnFile /\ "read" \in At.file.modes
  /\ LET pos == Least(At.file.pos + length, Len(disk[At.file.name]))
     IN  /\ engine' = [engine EXCEPT ![InUse].state = "reading", ![InUse].file.pos = pos]
         /\ \/ HostMoves(pos) /\ Limit(Because("early", Early))
            \/ Unanswered
  /\ UNCHANGED <<disk, kept, writes, faults>>

Put(content, pos, units) ==
  SubSeq(content, 1, Least(pos, Len(content))) \o units
  \o SubSeq(content, pos + Len(units) + 1, Len(content))

(* The host knows from the modes of fopen where its units go.              *)
HostPut(units) ==
  LET content == kept[host.name]
  IN  IF "append" \in host.modes THEN content \o units ELSE Put(content, host.pos, units)

(* Mutant: a file that is read or written anew is not truncated.           *)
TruncatesOnce == At.state = "unknown"

(* The first write after opening sets the size to nothing, whatever the    *)
(* modes, unless the file was read before.                                 *)
Truncates == At.state = "opened"

(* The server refuses to write nothing.                                    *)
IsWritten(units) == ~useTcb \/ units # <<>>

(* WriteFileL.  Whether SetSize fails is not asked.                        *)
DoWriteFile(units) ==
  /\ OnFile /\ "write" \in At.file.modes /\ writes < MaxWrites
  /\ IsWritten(units)
  /\ \E cut \in BOOLEAN :
       LET name == At.file.name
           old == IF Truncates /\ cut THEN <<>> ELSE disk[name]
           pos == Least(At.file.pos, Len(old))
       IN  /\ IF Truncates /\ ~cut THEN Fault ELSE NoFault
           /\ disk' = [disk EXCEPT ![name] = Put(old, pos, units)]
           /\ engine' = [engine EXCEPT ![InUse].state = IF Truncates THEN "writing" ELSE @,
                                       ![InUse].file.pos = pos + Len(units)]
           /\ IF ~ByHost
                THEN UNCHANGED <<kept, host>> /\ Limit({"stranger"})
                ELSE /\ kept' = [kept EXCEPT ![name] = HostPut(units)]
                     /\ host' = [host EXCEPT !.written = TRUE, !.pos = pos + Len(units)]
                     /\ Limit(Because("append", "append" \in host.modes /\ disk[name] # <<>>)
                              \cup Because("updated", "create" \notin host.modes /\ Truncates
                                                       /\ disk[name] # <<>>)
                              \cup Because("uncut", Truncates /\ ~cut /\ disk[name] # <<>>)
                              \cup Because("sought", Truncates /\ At.file.pos > 0))
  /\ writes' = writes + Len(units)

(* The write fails: of a file that was opened for reading.                 *)
CannotWrite ==
  /\ OnFile /\ "write" \notin At.file.modes
  /\ engine' = [engine EXCEPT ![InUse].state = IF Truncates THEN "writing" ELSE @]
  /\ UNCHANGED <<disk, kept, host, limits, writes, faults>>

DoPositionFile(pos) ==
  /\ OnFile /\ pos <= Len(disk[At.file.name])
  /\ engine' = [engine EXCEPT ![InUse].file.pos = pos]
  /\ HostMoves(pos)
  /\ UNCHANGED <<disk, kept, limits, writes, faults>>

(* The agent always calls SetModified, the server for a file that was to   *)
(* be written.                                                             *)
SetsTime == useTcb => "write" \in At.iMode

(* Mutant: iFile is not closed.                                            *)
ClosedButHeld(e) == [engine EXCEPT ![e].state = "closed"]

Closed(e) == [engine EXCEPT ![e] = [@ EXCEPT !.state = "closed", !.file = NoFile]]

DoCloseFile ==
  /\ OnFile
  /\ "write" \in At.file.modes \/ ~SetsTime
  /\ engine' = Closed(InUse) /\ host' = NoHost
  /\ Limit(Because("early", Early))
  /\ UNCHANGED <<disk, kept, writes, faults>>

(* SetModified fails, as it does for every file opened for reading.        *)
CannotClose ==
  /\ OnFile
  /\ SetsTime
  /\ \/ "write" \notin At.file.modes /\ NoFault
     \/ "write" \in At.file.modes /\ Fault
  /\ UNCHANGED <<engine, disk, kept, host, limits, writes>>

-------------------------------------------------------------------------------
(* DoDisconnectL with CloseTcbServer: the server ends and its files are    *)
(* closed; the file of the agent is not.                                   *)
DoDisconnect ==
  /\ alive /\ sessions < MaxSessions /\ sessions' = sessions + 1
  /\ useTcb' = FALSE /\ server' = FALSE /\ host' = NoHost
  /\ engine' = [engine EXCEPT !["tcb"] = Unused] /\ leaked' = [leaked EXCEPT !["tcb"] = {}]
  /\ Limit(Because("left", engine["agent"].file # NoFile)
           \cup Because("early", host.name \in Names /\ disk[host.name] # kept[host.name]))
  /\ UNCHANGED <<oem, alive, disk, kept, writes, faults>>

(* The agent has a file open and the TCB server was found since.           *)
FoundSince == useTcb /\ engine["agent"].file # NoFile

(* Bound: a behaviour is followed until the first limit.                   *)
Goes == limits = {} /\ ~FoundSince

Steps ==
  \/ \E name \in Names, modes \in Modes : DoOpenFile(name, modes)
  \/ Panic \/ CannotWrite \/ DoCloseFile \/ CannotClose \/ DoDisconnect
  \/ \E length \in {1, 2} : DoReadFile(length)
  \/ \E units \in {<<>>, <<writes + 1>>} : DoWriteFile(units)
  \/ \E pos \in 0..1 : DoPositionFile(pos)

Next == Goes /\ Steps

-------------------------------------------------------------------------------
(* Nothing changes in a file but what the host did to the file it has      *)
(* open, and that as the modes of fopen say, unless one of these happened: *)
(* a failure to open emptied the file, a write to a file opened for        *)
(* appending or updating truncated it, a position was given or a part read *)
(* before the truncation, SetSize failed, a read of the server moved the   *)
(* position without an answer, a file was written that the host was told   *)
(* is not open, or the TCB server was found when the agent had a file open.*)
AsAsked ==
  Goes =>
    \A n \in Names :
      disk[n] = kept[n] \/ (n = host.name /\ "create" \in host.modes /\ ~host.written)

(* The host can open every file again but the one it has open, unless a    *)
(* file was opened before the last one was closed, an open failed when it  *)
(* was half done, the host disconnected before it closed the file, or the  *)
(* TCB server was found when the agent had a file open.                    *)
OnlyHeld == Goes => Locked \subseteq {host.name}
===============================================================================
