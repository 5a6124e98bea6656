# Models and proofs of the device debug services

This directory holds TLA+ models of the debug agents in `src/`, the TLC
configurations that check them, and TLAPS proofs of what matters most in them.
Paths below are relative to `src/`; `TRK` stands for `dbgagents/trkagent`, `CDS`
for `dbgsrv/coredumpserver`.

1. [The system](#1-the-system): components, state, operations, hazards
2. [The modules](#2-the-modules) and how they correspond to the code
3. [The runs](#3-the-runs), their bounds and what they show
4. [Fairness](#4-fairness)
5. [The proofs](#5-the-proofs)
6. [Where code and documentation disagree](#6-where-code-and-documentation-disagree)
7. [What is not modelled](#7-what-is-not-modelled)
8. [Plan](#8-plan)

## 1. The system

Two services let a developer look into programs on a phone. The **TRK agent** is
the target side of an interactive debugger: a host debugger sends it commands over
a cable, it stops, steps and inspects threads with a kernel driver of its own. The
**core dump server** waits for programs to crash and writes a dump of them.

    host debugger
        | frames over a port (serial, Bluetooth, USB/OST, XTI, DCC)
    CTrk...CommPort --- dbgtrccomm server, XTI driver, DCC driver
        |
    CTrkFramingLayer        bytes <-> frames, sequence ids, repeated replies
        |
    CTrkDispatchLayer ----- CTrkSwInstall, file server, TCB server
        |      ^ CEventTrapper, CExitTrapper
        v      |
    DMetroTrkChannel (LDD)  breakpoints, steps, memory, event queue
        ^ HandleEvent in the debugged threads
    debugged threads

    CTrkEngine <- CTrkDebugManager <- sessions of the TRK server <- user interface
    tools starter: starts and stops tools when the cable is plugged in or out

    debug security server (DSS) -> CTargetObserver -> CCrashHandler
        CCoreDumpSession (clients) ----------------------^
        CCrashHandler -> formatter plug-in (own thread) -> writer plug-in

### Components

| Component | State it keeps | Operations | Correct when | Module |
|---|---|---|---|---|
| Framing layer (`TRK/engine/TrkFramingLayer.cpp`, `serframe.h`) | receive state, buffer, checksum, `iSequenceId`, `iOutSequenceId`, `iLastReply` | `HandleByte`, `ProcessFrame`, `SendMsgL`, `RespondOkL`, `RespondErr`, `InformEventL`, `ResetSequenceIDs` | every frame is decoded as it was encoded; noise costs one frame; a command runs at most once; a repeated message finds a reply; the two sides find together again | `TrkByteFraming`, `TrkFraming`, `TrkCommand` |
| Dispatch layer (`TRK/engine/TrkDispatchLayer.cpp`, `msgcmd.h`) | connected flag, process and thread lists, open file, reply buffer | one handler per command, `CEventTrapper::RunL`, `CExitTrapper::RunL` | one reply per command, with its own data; a NAK means that nothing was done; files, memory and lists are what the host is told; an event is told once and in order; what is opened is closed at disconnect | `TrkCommands`, `TrkFiles`, `TrkMemory`, `TrkTasks`, `TrkSession`; parts in `TrkFraming` and `TrkKernelEvents` |
| Kernel driver, events (`TRK/eka2driver`) | `iEventInfo`, `iRequestGetEventStatus`, two arrays of event slots, frozen-thread semaphores, `iLock`, `iLibraryNotifyList` | `HandleEvent...` in the debugged threads, `NotifyEvent`, `DoRequest`, `DoCancel`, destructor | no event is lost, doubled or reordered; every suspended thread is known to the host; every frozen thread is released; a library that is waited for is told of once | `TrkKernelEvents`; the process list in `TrkSession`; tasks and libraries in `TrkTasks` |
| Kernel driver, breakpoints and memory | `iBreakPointList`: temporary entries, then those of the user; the patched code; registers | `DoSetBreak`, `DoClearBreak`, `DoChangeBreakThread`, `DoResumeThread`, `DoStepRange`, `HandleException`, `DoReadMemory`, `DoWriteMemory`, register requests | the code is patched exactly where the list says; a breakpoint is missed by no thread; a step stays in its range and ends where the thread goes; the host sees the program and not the breakpoints | `TrkBreakpoints`, `TrkStepDecode`, `TrkMemory` |
| Engine and communication ports (`TRK/engine/TrkEngine*.cpp`, `Trk*CommPort.cpp`) | dispatch layer, connection type, port | `ConnectL`, `Disconnect`, asynchronous connection callbacks, port reads and writes | the status told is that of the port; a late callback finds its objects; whatever step of an opening fails nothing is left open; no byte is skipped; a port that listens is read | `TrkConnection`, `TrkPorts` (the port over TCP not) |
| TRK server and client (`TRK/trkserver`, `TRK/trksrvclient`) | debug manager status, sessions, the one callback, connection listener | connect and disconnect, connection notifications and their cancellation | status follows the cable; a session of the host is known; no callback to a closed client | `TrkConnection` |
| OST router (`TRK/dbgtrccomm`) | registered protocols, write queue, receive buffer, port state, session count | register, read, write, cancel, `DataAvailable`, `DataWriteComplete`, shutdown timer | every write completes once and in order; packets go to the session that owns the protocol | `OstRouter` |
| XTI driver, DCC driver (`TRK/xtidriver`, `TRK/dccdriver`) | pending read, one stored message; ring of received bytes, receive timer | request, cancel, receive | what arrives is delivered once and in order, and a reader is woken | `TrkXtiDriver`, `TrkDccDriver` |
| Tools starter (`TRK/toolsstarter`) | listeners, processes, connection state, shutdown timer | listener registration, process start, stop and death | a change of the cable reaches the listeners | the listeners in `TrkConnection`; processes not modelled |
| TCB server and client (`TRK/tcbserver`, `TRK/tcbclient`) | the open file and its state, the session | file operations for an OEM build | a file goes through the server or through the agent, not both | `TrkFiles` |
| Software installation, debug notifier, launcher, applications | - | calls to the platform | - | not modelled, but for the applications as clients in `TrkConnection` and the end of an installation in `TrkSession` |
| Core dump server, crash handling (`CDS/server/src/corecrashhandler.cpp`, `coretargetobserver.cpp`) | two crash queues, `iTids`, `iThreadsRun`, `iParams`, `iMessage`, formatter thread; event buffer of each observer | `CTargetObserver::RunL`, `HandleCrashEventL`, `HandleCrashFromFlashL`, `RunL`, `StartThreadL`, `PostProcessL`, `Processing`, cancel | one dump per death; a thread is still while it is dumped and goes on afterwards; the queues drain; the waiting client gets its answer | `CoreCrashHandler`; whole processes in `CoreDumpLists` |
| Core dump server, sessions and plug-ins (`coredumpsession*.cpp`) | plug-in arrays, pairs, observers, parameters, marshalled lists, .ini file | load, unload, bind, attach, detach, kill, configure, list, save, load | a formatter writes where it is paired; the events in force are those shown; a client gets the list it was told the length of; a parameter lands where the client was shown it; what is saved is restored | `CoreDumpSession`, `CoreDumpLists`, `CoreDumpParameters` |
| Data sources (`flashdatasource.cpp`, `servercrashdatasource.cpp`) | map of the crash log, caches, crash logger's configuration; list buffers | list and find crashes, analyse one, answer the formatter, edit the configuration | what is told of a crash was logged of that crash; an edit loses no log; the two users of a source get their own lists | `FlashDataSource`; the lists of the live source in `CoreDumpLists` |
| Formatters and writers (`CDS/plugins`) | the dump file, `iOffset`, string table, offsets of the parts, media list, cancel flag | `HandleCrashEventL` and what it calls, `OpenL`, `WriteDataL`, `CloseL`; `CSELFEditor` | a finished dump holds what was configured and could be read, and nothing else, for the reader that the tests use; the list on the media names it once; an edit of a dump loses nothing | `SymbianElf`, `ElfDump`, `ElfFormatter`, `ElfFormatterV1`, `ElfEditor` |
| Client and support library (`CDS/config`, `CDS/cdssupport`) | the client's copies; the records | fetch and set, externalize and internalize | an entry is read as it was written and fits its buffer | `CoreDumpRecords`; the client in `CoreDumpLists`, `CoreDumpParameters` |
| User interfaces, tests | - | - | - | not modelled |
| FTP server (`genericunixprotocols/ftpsrv`) | login, the pending rename and restart point, data address, sockets, the transfer | one action of the parser for each command | what a command leaves for the next is found by the next only; data goes where it was agreed; the answer is true | `FtpServer` |
| Telnet server | - | - | - | not modelled |

### What is hard here

* **Interleaving.** Handlers of the kernel driver run in the debugged threads and
  share `iEventInfo`, the slots and the agent's request with the driver's DFC
  thread; some take `iLock`, `DoRequest` and `HandleEventKillThread` do not. A
  formatter runs in its own thread while DSS, the crashed threads and the server's
  active objects go on, and asks the same data source as the server's clients.
* **Unreliable delivery.** A line loses and damages bytes; ids of one byte wrap; a
  repeated message must be answered and not executed.
* **Stale state.** A crash event sits in a buffer that the next `GetEvent` has
  already been given; a step relies on a breakpoint somebody may clear; a list is built
  index by index while tasks end; what is known of a crash log outlives it.
* **Crash and restart.** A block of flash that is erased and written back; a dump that is
  replaced by way of a backup.
* **Partial failure.** A leave after a reply has gone out; a thread that dies
  between its crash and its resumption.
* **Bounds.** Fifty event slots, ten temporary breakpoints, 100 spare bytes for
  escapes, one pending XTI message.

`PROJECT.json` lists each hazard at its line with the properties that cover it.

## 2. The modules

### TrkCommand, TrkFraming (+ MCTrkFraming)

`TrkCommand` is the promise of the sequence numbers: one command at a time, each
executed at most once, "answered" means executed, and a command given up is not
executed later. `TrkFraming` is the message level of `CTrkFramingLayer` and
implements it by the refinement mapping `Fate` (property `CommandSpec`), for all
commands but `kDSConnect`, which resets the numbering itself.

`ProcessFrame` is one action for each of its branches: `ReceiveDamaged` (checksum),
`ReceiveReset` (id 0), `ReceiveExpected`, `ReceiveDuplicate`, `ReceiveUnexpected`,
`ReceiveAck`. `Dispatch` is `HandleMsg`: the handler ends well, fails before its
reply, or replies and then leaves (`"okThenError"`: a second reply, a second
increment). A reconnect calls `ResetSequenceIDs` before its own reply. The host is
not in the repository; it is the conservative debugger `engine/msgcmd.h` (341-370)
asks for. The line keeps order, loses frames and damages them.

### TrkByteFraming (+ MCTrkLines)

The byte level: `SendMsgL` as `Encode`, `HandleByte` as one action per case of its
switch. Byte values are abstracted to a small ring (`ByteSize`, `FLAG`, `ESCAPE`,
`TRANS`) that the real values instantiate. The
checksum is the 8-bit sum of `serframe.h`.

### TrkKernelEvents

One thread of control per debugged thread, one for the agent together with the DFC
thread (the agent waits while the DFC thread works for it). The steps of
`NotifyEvent` are separate: write the event into the agent's buffer, clear
`iEventInfo`, complete the request, or pick and fill a slot. `DoRequest` scans slot
by slot (`ScanFound`, `ScanEmpty`), then stores `iEventInfo` and
`iRequestGetEventStatus` in two steps. Copying one slot is one step. Ghost
variables: `told`, `dropped`, `raised` and `missed`. `missed` holds the events that came
behind the agent's back (section 6): put into a slot that `DoRequest` had passed (`Fill` when
not `ToScan`), or written to the buffer between the stores of the two pointers, so that
`RequestComplete` finds no status to complete (`Complete` in `storeStatus`). The next run
of the agent empties it. `Coming` is what the agent gets without another event: the events in
the hands of a handler that has still to pass them on or to wake it, the buffer when its
request is completed, and the slots it has still to look at.

### TrkBreakpoints

`bps` is `iBreakPointList` with the set of addresses that hold a breakpoint
instruction. The operators named after functions of the driver transform it; an
action is a whole trap (`TempHit`, `UserHit`: `HandleException`) or a whole command.
Each is atomic, as `iLock` and the DFC thread make them. The program is a loop of
`Size` instructions whose last branches back.

The scheme of the driver breaks in known ways, and saying "the property holds"
without them would be wrong. The model has each of these *limits* as a value of
`spoilt`; a behaviour ends at the first it meets, and what the properties say is
said up to there:

| limit | what happens in the code | line of `TrkKernelDriver.cpp` |
|---|---|---|
| `shared` | two entries at one address: the first to be cleared restores the instruction of the other | 3220 |
| `full` | no temporary entry is free: the breakpoint stays disabled, and a thread resumed by the driver stays suspended without a notification | 3242 |
| `foreign` | a thread hits an entry meant for another one, which is cleared or disabled | 1260 |
| `target` | a step ends at a breakpoint of the user that is cleared, disabled or changed before the thread gets there | 3214 |
| `mixed` | process-wide and thread-specific breakpoints are disabled together, and a trap re-enables the first that qualifies | 4361 |
| `again` | a thread suspended in its step is set going once more | 2214 |
| `left` | a thread stops elsewhere than at its temporary breakpoint, which stays | 1310 |

Ghosts: `goal`, `stepping`, `seen`, `overlap`, `spoilt`.

### CoreCrashHandler

The crashed threads (`Except`, `Kill`, `Recover`, `Die`), DSS (`Deliver`), the active
objects of the server and the formatter's thread (`Dump`, `Exit`). Active objects run
one at a time, but not atomically with respect to the threads and DSS, so `step`
splits `RunL` of observer and handler at the places where the outside world can
change what they see: before each call that opens, suspends or resumes a thread.
`Observe` renews `GetEvent` into the buffer whose event is still to be handled, as
`coretargetobserver.cpp:178` does; when DSS overwrites it, `clobbered` is set. `mixed`
records that `RunL` has taken a crash log while a live crash is in progress
(`corecrashhandler.cpp:206-214`). `failed` records a leave.

### TrkAgent

Composes `TrkSession` and `TrkPorts`, one of them in each behaviour (`which`), for the run and for
the proofs: what a host that is connected relies on. It has the properties of both, and the
fairness of each where it is at work.

### TrkSession

A debug session as the agent and the driver see it: `debug` and `stopped` are the
lists of `CTrkDispatchLayer`, `kdebug` that of `DMetroTrkChannel`, `queue` the events on
their way. Commands of the host and the `RunL` of the active objects are actions, for
they run to completion; the debugged processes trap, load libraries and end between
any two of them. Creating, attaching and detaching, killing, stopping, continuing and
stepping, the start of a process, an installation that succeeds or fails, connecting,
disconnecting and closing the driver are there with the order of their calls and the
places where they leave. `knows` (what the host has been told) and `lost` (threads given
up by a known defect) are ghosts.

`Dropping` is a list without some of its places, `FirstOf` the places at which an ended or
detached process stands first: the driver drops one entry of a process at a time, the agent
those its loop meets. `HandleEvent` is what the agent does with an event, `Tell` what the host
gets to know by it.

### TrkCommands, TrkFiles, TrkMemory, TrkTasks, TrkStepDecode (+ TrkStepCases, MCTrkTarget)

What the host asks for. `MCTrkTarget` has one of them in each behaviour (`which`): they
share no state but `iConnected`, and together they are one question, whether the host
is obeyed and told the truth (`Commanded`).

`TrkCommands` is `HandleMsg` and `DispatchMsgL`: how each command is taken apart
(`Checks`, the checks of each handler in their order; `Verdict` runs them), refused,
carried out or failed, and what is in the reply buffer. What a command does is an
outcome. The mask of supported commands is compared with what is dispatched (`MaskTrue`).

`TrkFiles` is the one open file and its `iFileState`, in the agent and in the TCB
server, whose code is the same and is one set of operators with the engine `e` as
parameter. `kept` is what the host has the right to find, by the modes of `fopen`.

`TrkMemory` is half-words of code with breakpoints that `DebugSupport` (`saved`) plants
and takes out; `code` is the program as the host knows it. `DoWriteMemory` is two steps,
between which a thread runs the unplanted code. Registers are written one after the
other, of a thread that may run.

`TrkTasks` builds the lists of tasks by asking the driver for the task at each index
while tasks come and go, sends them in pieces, and gives notice of libraries that were
not loaded when the host asked (`iLibraryNotifyList`). Names are sequences, so that one
can begin another.

A behaviour of these modules ends at the first of the known cases (`limits`) in which
the promise fails:

| module | limit | what happens in the code |
|---|---|---|
| `TrkCommands` | `appended`, `empty` | `DoInstallFile2L` adds its result to the reply before; a range of no register is answered with the reply before, or not at all |
| | `half`, `twice` | half a host version is kept though the packet is refused; a stop is answered, and answered again when the registers cannot be read |
| `TrkFiles` | `emptied`, `leaked` | any failure of an open is followed by `Replace`; a file opened before the last one was closed stays open |
| | `append`, `updated`, `sought`, `uncut` | the first write truncates the file, in every mode, from wherever the position is, and the failure to do so is not told |
| | `moved`, `early`, `stranger`, `left` | a read of the server that fails moves the position; a position or a read in front of the truncation; a file is written that the host was told is not open; a file is open when the host disconnects |
| `TrkMemory` | `old`, `unarmed` | code written over a breakpoint is replaced by what was there when it was set; `ModifyCode` fails and nobody looks |
| | `edge`, `temporary`, `stepped` | a range that cuts an instruction in two; a temporary breakpoint in it; an entry disabled for a step is planted |
| | `skipped`, `gone`, `running` | detaching passes over entries; the thread through which an entry was set has ended; registers of a thread that runs |
| `TrkTasks` | `moved`, `relisted` | a task leaves the container, and the next one its index; a list takes the place of the one that is being sent |
| | `twin`, `full`, `similar` | a second process with the same uid; no slot is left; one name begins another |

`TrkStepDecode` is the pure part of a step: `InstructionModifiesPC` and
`PCAfterInstructionExecutes` with `ShiftedRegValue`, `DecodeDataProcessingInstruction`,
`IsExecuted` and `IsPreviousInstructionMovePCToLR`, over instructions as records of their
fields; the masks that take the fields out are abstracted. Beside it stands what the
architecture does with the same instruction (`Goes`), and the thread runs until it
meets the breakpoint or leaves its range. `Sound` names the cases in which the two
differ; each of its disjuncts is needed (TLC finds a violation without it):

| case | line of `TrkKernelDriver.cpp` |
|---|---|
| GE, LT, GT, LE with N and V both set: N is 8 and V is 1 when they are compared | 4410 |
| ADC, SBC, RSC: `a + b + (flag) ? 1 : 0` is 1 or 0 | 4267, 4273, 4279 |
| a shift by a register takes the status register for the amount | 2990 |
| LSR and ASR by #0 mean by 32 | 3009, 3014 |
| the rotation of an immediate is not doubled | 3836 |
| PC as base of an immediate form is not plus 8: `ldr pc, [pc, #n]` among them | 3835, 3856 |
| BLX with an address is taken for B or BL (a test that is never true) | 3616, 4001 |
| Thumb BX PC, MOV PC, ADD PC take the PC, not the PC plus 4; MOV keeps bit 0 | 4062, 4074, 4079 |
| after a call by `mov lr, pc` the scan takes a later return for a call | 3435 |

### OstRouter (+ MCOstRouter)

The server is one thread of active objects, so a handler is one action; the port's
server takes the data of a write later (`Fetch`). The receive buffer is kept byte by
byte (`Clean`, `Whole`, `Absorb` are the loop of `DataAvailable`, `Delivered` is
`MessageAvailableL` for each packet), so that packets may be cut
into reads anywhere and junk may stand in front of them. Limits (`spoilt`), where a
behaviour ends: `dangling`, a callback to a session that has gone; `shared`, two sessions
register one protocol; `halfOpen`, a port that fails to open keeps its count; `cutoff`, the
port closes while bytes or writes are on their way.

### TrkConnection

Four processes in one module, because every property relates them: the tools starter
(`starter`, `news`), the TRK server (`layer`, `connType`, `connStatus`, `debugging`, `callback`),
its applications (`client`) and the host. Handlers are atomic; between them the cable
moves and the Bluetooth port connects or fails. Limits (`limit`): `hung`, `Stop` waits for
ever while Bluetooth is being discovered; `dangling`, the manager calls an application
that was killed; `two layers`, a connect while another layer listens; `down`, the server
has been shut down. `missed` records that a change of the cable found no request.

### TrkPorts

What lies below the framing layer: `StartL` of the engine makes one of five ports and
`OpenPortL` opens it in the steps listed in `Steps`, any of which may fail; `StartFails` is
such an opening with the `Stop` that follows it, and `Releases` is what `ClosePort` closes,
which depends on the flags that had been set by then. `open` counts the handles that the
process has. The active object of the port is `active`, `status` and `state`; `Run` is `RunL`
of the serial, USB, DCC and XTI ports, `RunSocket`, `RunBroken`, `SearchEnds` and
`ConnectToPortL` are that of the Bluetooth port, which looks for a service first. The drivers and
servers behind the ports are `Complete` and `Fail`, the host is `Arrive`; bytes are numbered in
the order in which they are sent. `SendDataL` is a notification, which over Bluetooth cancels
the read under way. Ghosts: `gone` has the bytes that no one was given, by cause; `denied`
and `last` which openings failed, and where. Limits (`limit`): `hung`, a Bluetooth port is
closed while it is looking for a service, and `Cancel` waits for a callback that needs the
same thread; `panicked`, the greeting fails inside `RunL`, which leaves.

### TrkXtiDriver, TrkDccDriver (+ MCTrkLines)

Two kernel threads meet in the XTI channel, and only one of them takes the lock: each
access to shared state is a step (`handler`, `rx`). In the DCC channel the timer's DFC
comes between two steps of a handler and is not interrupted. The properties of the XTI
channel hold until the two threads have overlapped; after that TLC finds a message
delivered twice, one out of order, and a reader asleep beside a kept message. Limits
of the DCC channel: `overflow`, the put index passes the end of the ring; `full`, a full
ring looks empty; `too long`, a packet does not fit the client's buffer. `MCTrkLines` has
one of the two, or the byte level of the framing layer, in each behaviour.

### CoreDumpSession (+ MCCoreDumpSession)

Each request is one action with its failures (`MayFail`). `plugs` are the four arrays of
plug-ins by place; `params` the pointers of `iTotalConfigList`; `observers`, `dss`, `config` and
`inForce` what is observed, asked of DSS, shown and in force; `file` the .ini file.
`moved` (a writer unloaded in front of a paired one), `half` (a request that left half way)
and `wild` (a deleted observer in the list) record what ends a promise.


### SymbianElf, ElfDump, ElfFormatter, ElfFormatterV1, ElfEditor, ElfCases (+ MCElfFiles)

`SymbianElf` is the format: a file as a function from positions to cells (a header, a
note header, a register value, one unit of memory, a string), the string table, and
the reader (`test/elfdump`, which takes notes and segments from the program headers).
`ElfDump` holds what the two versions share: the configuration, the layout of notes and
segments, the media list, the cancel flag. `ElfFormatter` is version 2 and
`ElfFormatterV1` version 1: one action for each part that `HandleCrashEventL` writes, in
its order, since a failure or a cancel may come between any two of them. What a part
does within its own trap is one action with an outcome. `Faithful` compares what the
reader finds with what was configured and could be read (`unread`); it does not mention
an offset. `hollow` are notes that tell of more data than was written. One assumption:
a live crash has a user-mode status register and one from flash a privileged one.

`ElfEditor` is `CSELFEditor`: it writes the dump anew with one segment and one note
more, and swaps the files by way of a backup. It gets the dumps that the formatters of
the same run have finished, so that every kind of note goes through it. Each call of
the file server may fail and the process may end between any two.

### FlashDataSource

The flash as an array of cells; a structure of a log takes as many cells as it is
large, so that reads of `READ_SIZE` cells end in the middle of one and the loops of
`AnalyseCrashL`, `ReadRegistersL` and `ReadTraceBufferL` go on as the code does. The
configuration of the kernel's crash logger stands in the block of the first log.
`CrashList` is `RefreshCrashListFromFlashL`. `RightCrash` compares each answer to the
formatter with what was logged (`Expected`), `LogsKept` what is found with what was
written. Limits (`spoilt`): `junk`, `HelpReadRegistersL` starts from an uninitialised
position; `owners`, the first owner noted for a thread wins over that of a later crash;
`cached`, the trace or variant data of an earlier crash; `nodata`, segments without data
are taken for one; `unread`, `old`, `noconfig`, `power`, the configuration is written back
with a first block that was never read or is out of date, without a configuration, or
not at all.

### CoreDumpLists, CoreDumpParameters, CoreDumpRecords

What a client of the core dump server is told. `CoreDumpLists` has three actors at one
data source: a client that asks how long a list is and then for the list (`ListInfo`,
`GetList`, `Returns`), the server's thread that suspends and resumes the threads of a
crashed process, and the thread that dumps and asks for lists through the same buffers.
`why` records what may excuse an error of a call; `raced` the meeting of two users in one
buffer; `stuck` the threads that could not be resumed.

`CoreDumpParameters` is `iTotalConfigList`, the sizes the client makes its buffers of and
the places it sets parameters at, while plug-ins come and go and files are saved and
loaded. A text is its length. `shrunk` and `told` record that the size was told before it
changed.

`CoreDumpRecords` has four functions of each record class side by side: what it writes,
what it reads, what it counts and how long it may be, and the stream that is made of
the entries of a list. `halves` says in which order a build evaluates the two halves of
an id.

`MCElfFiles` has one of all these in each behaviour (`who`).

### FtpServer (+ MCFtpServer)

One control connection. The server is one thread: a line is read, reduced by the parser
and carried out; only a transfer waits for others and is cut into steps, between which
the client goes on or cuts the connection. What a command leaves for the next (`fromname`,
`restart`, the data address, the listening socket) is state. Limits are named at the
head of the module.

## 3. The runs

| run | config | shows |
|---|---|---|
| `framing` | `MCTrkFraming.cfg` | a repeated message finds its reply (`ReplyAvailable`); no numbered command is executed twice (`AtMostOnce`); a believed success was executed (`NoFalseAck`); refinement of `TrkCommand` (`CommandSpec`); the host gets on (`HostProgress`) |
| `kernel_events` | `MCTrkKernelEvents.cfg` | with handlers that take `iLock`: nothing told twice and the stops of a thread in order (`ToldInOrder`), a held thread's stop is known to the host or comes to an agent that is or will be awake, but for a full queue and the lost wake-up of section 6, and in no third case (`StopAccounted`), the backlog is delivered (`BacklogDrained`) |
| `breakpoints` | `MCTrkBreakpoints.cfg` | code patched exactly where the list says (`PlantedExactly`), no breakpoint disabled without a step (`DisabledForAStep`), none missed (`NoMissedBreakpoint`), a step stays in its range (`StepStaysInRange`) |
| `target` | `MCTrkTarget.cfg` | a stepped thread leaves its range only to the temporary breakpoint, which is of the mode it arrives in, apart from the cases of `Sound` (`StepLands`); and the parts of `Commanded`: one answer per command with its own data, a NAK means nothing was done, the mask is true; files change as they were opened and can be opened again; the program is read and written as if there were no breakpoints, which stay armed and go without a trace; lists are complete and libraries told of once |
| `trk_agent` | `MCTrkAgent.cfg` | session: every held thread is known to the host or on its way to it (`Accounted`), the driver follows what the agent lists (`Followed`); ports (`PortKept`): whatever step of an opening fails, a closed port leaves nothing open but the known leftovers, bytes reach the framing layer in order and once, or are dropped for one of three named causes, and a port that listens is read; and every entry of a dead process goes, and what comes over the line is read in the end (`Noticed`) |
| `connection` | `MCTrkConnection.cfg` | the status told is that of the port (`StatusTruthful`), a session of the host is known and no callback goes to a closed application (`SessionKnown`), a cable pulled out ends the USB connection (`UnplugSeen`) |
| `ost` | `MCOstRouter.cfg` | packets reach their client once and in order (`PacketsInOrder`), a waiting client is read for (`NotDeaf`), writes complete once and in order (`WritesInOrder`) and are answered (`WritesAnswered`) |
| `lines` | `MCTrkLines.cfg` | delivery once and in order by either driver, and what `SendMsgL` encodes `HandleByte` decodes, noise costing one frame at most (`Delivery`); what can be delivered is (`Arrival`) |
| `crash` | `MCCoreCrashHandler.cfg` | one dump per death (`OneDumpPerDeath`), a thread is still while dumped (`StillWhileDumped`), the queues drain and the client is answered (`Served`) |
| `coredump_session` | `MCCoreDumpSession.cfg` | a formatter writes where it is paired (`WritesWherePaired`), no parameter of a deleted plug-in is kept (`ParamsAlive`), DSS has what is shown (`ObservedAsConfigured`), a loaded file restores what was saved (`LoadRestores`) |
| `dump_files` | `MCElfFiles.cfg` | a finished dump of either version tells its reader what was configured and could be read, and what is told of a crash log was logged of that crash (`Faithful`); what a client or the user is told is what there is: the media list, lists and pages, parameters, entries (`Listed`); no edit of a dump or of the logger's configuration loses anything (`Edited`) |
| `ftp` | `MCFtpServer.cfg` | a rename or a restart point is found by the next command only (`NextOnly`), data goes where it was agreed, once (`WhereAgreed`), a line that is carried out has one final answer and one that the parser refuses has refusals only, and 226 means that all was transferred (`Truthful`) |

A run with several modules in it takes one of them in each behaviour; its properties
are conjunctions with one part for each.

`CHECK_DEADLOCK FALSE` is set where the bounds below make a model stop, or the system
itself may rest. The `TypeOK` of a module that no run checks says what its variables
are.

### Bounds, and why they are enough

* `framing`: `MaxSeq = 5` instead of 255. The protocol looks at an id only through
  "equal to the expected one", "one less" and "zero"; five ids are enough for an id
  to come round while four commands, two of them connects, are exchanged. Two
  frames of noise, one event message, three frames in flight in each direction.
* `lines`: framing: bytes are 0..7, a buffer of 4, so that a frame of a small message
  with escapes can overflow it; three frames and two disturbances, so that one
  frame can be lost, one delimited by what is left of it, and one must arrive.
  Drivers: four messages and two cancels; a ring of six bytes, words of one to three,
  nine bytes, a client buffer of four, so that each limit is met.
* `kernel_events`: two threads and two slots (instead of 50) with three events:
  the slots fill up and an event is dropped.
* `breakpoints`: two threads, a loop of four instructions, a scan buffer of two, two
  entries of the user, a range that starts at 2, two temporary entries. Two threads
  never need a third, so the limit `full` is not reached in this run; it is in the
  model, and the proof of `PlantedExactly` covers it.
* `target`, step: words of 8 bits and a memory of 256 bytes at which the thread stands at
  64, so that branches backwards, past zero and past the end occur; every kind of
  instruction with operands on both sides of each distinction the decoder makes, all
  sixteen states of the flags for conditional branches; ranges of one to three
  instructions of which two are scanned (instead of 20), so that the range is decoded,
  scanned, or too long to be scanned. Commands: every command, three in a row, of the
  right length, a byte short, a byte long or one byte, and with everything that may be
  wrong in it. Files: one that may be there and one that only an OEM build opens, two
  writes, one fault, one session. Memory: four half-words, an ARM and two Thumb
  instructions, one of them in ROM, three registers of which one is refused, two runs.
  Tasks: two processes of one uid, three threads of which two fit into a reply;
  libraries: three, one name the prefix of another, two slots; three questions.
* `trk_agent`, session: two processes, one of them protected, two entries of each list (a
  process may be attached twice), one event on its way, two sessions, so that what a
  session leaves behind meets the next. Ports: two one after the other, of any two kinds, so
  that what one leaves behind meets the opening of the next; three bytes, so that a read takes
  some of what is on the line, a send overtakes it and one more follows; two notifications,
  one of them after an error; one read or write that fails.
* `connection`: two applications, one Bluetooth setting with USB plug and play, two
  changes of the cable, two sessions of the host, one connect.
* `ost`: two clients, two protocols and one id that equals a version byte, a buffer of six
  bytes that a packet and the beginning of the next fill, reads of up to four bytes,
  three writes: one in progress, one queued, one more. A behaviour has packets or
  writes, for they share only sessions and the port.
* `crash`: two threads, both watched, one crash log, two crashes, one request of
  the client, any call may fail. One formatter; with two formatters the second
  one's failure sets `failed` (line 435).
* `coredump_session`: one kind of formatter and of writer, up to four of them loaded, one
  executable with one thread name, one failed request per session, after which nothing
  more is observed or configured.
* `dump_files`, formatters: two processes, three threads (the crashed one, another of its
  process, one of the other process), an executable and a library with empty and
  non-empty segments; registers of three sizes, one of them not available; an
  exception, a panic and a crash log; configurations that switch each part on and off;
  two dumps of version 1 and three of version 2, so that the media list of two is full,
  with two failures (version 2: one) anywhere and a cancel at any time. Editor: two
  insertions, one mishap. Flash: nine blocks of eight cells,
  reads of four cells, so that structures lie across reads and blocks; two logs of
  different shape, two configurations. Lists: two executables with threads of the same
  name, one thread without a name, two threads that may end, pages of two of three
  plug-ins, one failed allocation. Parameters: texts empty, of the longest length, just
  below and just above it; two plug-ins, three settings. Records: names of no, few and
  the most characters, of one and of two bytes, and one that only the count of a
  thread's `NewL` lets by; two entries, since the second is found by the size of the first.
* `ftp`: a file of three units with a newline, one directory below the drive; four
  addresses: a good one, one of another machine, one with a reserved port and one whose
  port is reserved when its bytes are swapped; seven lines, of which two log in; one
  unit stored in each transfer.

Every property of a run is shown to be sensitive to the code: `PROJECT.json`
names a plausible error in one definition (a "mutant", defined beside the original)
that makes TLC report that property. A property with parts has a mutant for each part
where this can be done.

## 4. Fairness

* `TrkFraming`: weak fairness of the target's handling of a frame (its active
  scheduler serves the port) and of the host's reading and timers. Nobody is obliged
  to issue commands, and losing or damaging frames is bounded by `MaxNoise`, never
  required to stop by fairness.
* `TrkKernelEvents`: each debugged thread goes on in its handler and the agent's loop
  runs; raising events and ending the session are not fair.
* `CoreCrashHandler`: the active scheduler runs a ready active object, the kernel runs
  the formatter's thread, DSS delivers. Crashing, dying, asking and failing are not
  fair, so a client is answered also when nothing else ever happens.
* `OstRouter`: weak fairness of the port's server taking and completing a write; clients
  owe nothing.
* `TrkConnection`: weak fairness of the starter's listener and of the TRK server's active
  objects while there is something to do; cable, applications and host are free.
* `TrkPorts`: weak fairness of the driver or server of the port, which completes a read that
  it has bytes for, and of the agent's active scheduler, which runs what has completed. The
  host need not send, a search need not end, and failing is not fair.
* `TrkXtiDriver`, `TrkDccDriver`: the kernel's threads go on (weak); the client's active
  object runs when it is signalled and reads again, strong because a write of the same
  client may keep the channel busy in between; the host ends a packet it has begun.
* `TrkSession`: an installation ends (weak); strong fairness of an exit trapper, since a
  command of the host can be handled before it each time and the host waits for the
  answer to one command before it sends the next.
* All other modules state safety only: `TrkByteFraming`, `TrkBreakpoints`, `CoreDumpSession`,
  the modules of `MCTrkTarget` and of `MCElfFiles`, and `FtpServer`. A client of the FTP server
  that sends no more, or a host that asks no more, leaves everything as it is.

## 5. The proofs

All are checked by TLAPS for every value of the constants that the named
assumptions of the modules allow.

**`TrkFramingProofs`**: `TypeCorrect` (`Spec => []TypeOK`) and `ReplyIsKept` (`Spec =>
[]ReplyAvailable`): `ProcessFrame` never dereferences a missing `iLastReply`, for any
width of the ids, any number of commands and any line. The inductive invariant is
`IInv == TypeOK /\ ReplyAvailable`. Neither half is inductive: a repeated reply is put
on the line as a well-formed reply only because one has been kept, and that one has
been kept whenever the expected id is 2 or more is kept only while ids have their
type. There is a lemma for each way a handler can answer, and one per action.

`RunsOnce` (`[]AtMostOnce`), `AnsweredMeansExecuted` (`[]NoFalseAck`) and `Implements` (`Spec =>
CommandSpec`: each step is one of `TrkCommand` or none) hold for ids of any width, any
number of tries, commands and frames in flight, however early the host repeats itself.
They have one hypothesis, `FewDisturbances == MaxNoise + 2 < MaxSeq`: in a behaviour fewer
frames are lost or damaged than would carry the expected id once round, because each
damaged frame moves it on (section 6) and one command moves it by two at most. With 255
ids that is 252 disturbances, and `framing` has 2 with 5 ids. The bound is sharp: with four
ids and two disturbances TLC finds a command that is executed twice. It counts all
disturbances of a behaviour; those before the last reset do no harm, which the theorems do
not say.

The invariant `FInv` adds to `IInv` what can be on the line. The id the target expects and
the one the host uses next are points on a ring, `Far` is the way from one to the other, and
`Harm` counts the disturbances whose frame is gone. While the host resets the numbers
there is one ping or its answer (`Pinging`). After that the target is ahead of the host by
the answers of one command and the disturbances at most (`Level`); each frame carries the
present number or one of the two before it, which the target is past (`FramesLevel`);
answers that would settle the present command come behind all others and are deserved
(`RepliesLevel`); and an acknowledgement that is kept has the number before the expected one
(`KeptLevel`). A reconnect restarts the numbers under a host that does not know: until it
gives up, or damaged frames have brought the target back to its number, only frames of
this reconnect are on the line and no reply would settle it (`Adrift`). `Fewer` says what all
steps that lose, refuse or ignore have in common, and has one lemma for each of the three;
`Answered` and `Ran` say what a command that runs leaves behind.

**`TrkBreakpointsProofs`**: for any number of threads, instructions, temporary entries
and entries of the user, in any order of traps and commands, and until a limit is met:

* `TypeCorrect` and `Planted` (`[]PlantedExactly`): the code is patched exactly where the
  list wants it. This is not inductive: clearing an entry takes the instruction away
  from another one at the same address. `IInv` adds `NoSharing` (no two entries in use
  have the same address), and `Consistent` says both of a list. Each operation of the
  driver on the list has a lemma that it keeps `Consistent` (`DisableKeeps`, `EnableKeeps`,
  `ClearTempKeeps`, `SetTempKeeps`); `StepRangeSound`, `ResumeSound` and `StepOnSound` combine
  them; and one lemma per action follows. `MinIn`, that a search finds a first entry, rests
  on the well-foundedness of the natural numbers.
* `NoneForgotten` (`[]DisabledForAStep`). A trap enables one breakpoint only, so counting is
  not inductive: one must know which are disabled for whom. `Fits` says that those disabled
  are all process-wide or all thread-specific; that of the thread-specific ones each belongs
  to a thread that is on a step, and no two to the same; and that there are no more
  process-wide ones than steps. `DInv` is `IInv` with it.
* `NoneMissed` (`NoMissedBreakpoint`) and `StaysInRange` (`StepStaysInRange`), about what a
  single instruction may do. `FInv` is `DInv` with `Follows`: where a step is to end an
  instruction is planted for its thread (`Planned`), and the temporary breakpoints are those of
  the steps under way (`Meant`); the instructions still to be executed on the way there
  (`Path`) are in the range of the step (`Within`); while steps do not overlap only one thread
  is on one, and what is disabled does not lie on its path, unless it has been stopped there
  (`Alone`, `Passed`); and a thread the host has been told of has been stopped where it is
  (`Told`). `Steady` and `Moves` say that nothing but `Execute` moves a thread.

**`TrkAgentProofs`**, about `TrkConnection`, and about `TrkAgent` with its two parts; while one
part is at work the other stands still, so that the invariant of each is one of `TrkAgent`.

* *Connection.* `TypeCorrect`, `StatusIsTruthful` (`[]StatusTruthful`) and `SessionIsKnown`
  (`[]SessionKnown`), for any number of applications and any bounds. `Agrees` relates the
  manager's status to the port of its layer and wants a debug session to have a port that
  listens: a cable that is pulled out while a session runs would otherwise leave a status of
  "connected". `Counted` bounds the registrations with the starter, which answers at most once
  per change of the cable.
* *Debug session.* `NobodyUnknown` (`[]Accounted`) and `DriverFollows` (`[]Followed`), for any
  processes, protected or not, any lengths of the lists and any number of sessions. `Followed`
  says that a running process that the agent lists is in the driver's list too. It is not
  inductive, for a process attached twice stands twice in both lists and a detach takes one
  place out of each: `Enough` counts, and says that the driver has at least as many places of
  an unprotected process as the agent has entries, until the process ends. What an action leaves of a list is a fact
  about `Dropping`, whose recursion over the list is taken apart with least counterexamples
  (`DroppingCounts`): how many places of a process are left (`FirstDropped` when the driver
  drops its first, `EachDropped` for the loop that passes over every second entry). There is a
  lemma for each way a command changes the two lists.
* *Ports.* `NothingLeftOpen` (`[]Released`), `BytesAccountedFor` (`[]NothingSkipped`) and
  `KeepsHearing` (`[]Hears`), which make up `PortIsKept` (`[]PortKept`), for any number of openings, bytes, notifications and failures;
  no assumption is needed, not even on the bounds. The invariant has one part for each.
  `Kept` says of every handle how often it is open: once if it belongs to the present port,
  and once more for each leftover of an opening that failed; there is a lemma for the steps
  of each kind of port (`SerialDone` and its likes), for what is released depends on flags
  and not on what has been obtained. `InPlace` says that every byte that was sent is in one
  place: handed on, read and waiting for `RunL`, on the line, or among those dropped (`Fits`),
  and that those places follow each other. `Requests` says who waits for what, without which
  a read could complete into a buffer that has not been handed on.

**`FtpServerProofs`**: `RenamePairs` (`[]NextOnly`), `DataGoesWhereAgreed` (`[]WhereAgreed`) and
`AnswersAreTruthful` (`[]Truthful`), for any file, addresses, restart points and lines. Each
promise needs an invariant of its own: `Remembered` (a name to rename or a restart point
needs a login, so a line refused for the lack of one cannot come between), `Agreement`
(the flags `passive` and `usedefault` and the address are determined by what was agreed,
and a connection that is made uses it up) and `Accounted` (at every unit of a transfer what
has gone and what is still to go make up what is wanted).

**`TrkKernelEventsProofs`**: `TypeCorrect`, `ReportedInOrder` (`[]ToldInOrder`), `EveryStopAccounted`
(`[]StopAccounted`) and `AgentSurvives` (the agent is not woken with an empty buffer), for any
number of threads, slots and events. `EveryStopAccounted` does not say that every stop is
told, for that is false: it says that the two losses of section 6 are the only ones. They have one hypothesis, `NoPanics`: no thread
panics, because `HandleEventKillThread` does not take `iLock` and all of this fails with
it (section 6). `IInv` says that the lock admits one handler (`Sound`), that this one and the
agent hand the buffer to each other (`Handed`), that a free slot stays free until it is filled
(`Filling`), that a thread with a stop on its way is suspended and not owed an answer
(`Stopped`), and that an event is in one place only (`Placed`). The last two make the slots,
which are no queue, behave like one for the stops of each thread. `Late` says that an event
which came behind the agent's back lies in the buffer or a slot, so that the agent has it, or
looks for it, as soon as anything else wakes it.

**`OstRouterProofs`**: `LineInOrder` (`[]WritesInOrder`) and `NobodyDeaf` (`[]NotDeaf`), for any
sessions and protocols, any feed and any number of writes. What is on the line, what the
writer works on and what is queued were issued in this order (`Ordered`), nobody waits for
the write of another (`Waiting`), and while nobody cancels the listener waits for what the
writer does (`Matched`). For `NotDeaf` the port must count its sessions (`Connected`) and the
registry must agree with what each session has registered (`Registered`), else the read
might be cancelled under a session that still waits.

`InOrder` (`[]PacketsInOrder`), for reads that cut the bytes anywhere, has a hypothesis on the
feed, `ClearFeed`: each packet has a body, fits the receive buffer, and nothing stands between
two. TLC refutes `PacketsInOrder` without any one of the three: a packet without a body waits
for a byte of the next, one that is too long fills the buffer for good, and behind junk the
protocol id is the one read before the junk was removed (section 6). The invariant `CInv` says
that the buffer holds what has been read of the packet in progress (`Fed`), that who waits
has nothing in its queue (`Boxed`), and that nothing has come for a protocol before it was
registered (`Dated`). A round of the loop of `DataAvailable` takes off a packet (`TakesPacket`)
or takes in bytes (`TakesBytes`) until there is nothing to do (`ReceivedInOrder`), and each
packet taken off adds itself to what its listener has, and to nobody else's (`OneArrives`).

**`CoreDumpSessionProofs`**: `TypeCorrect`, `DumpsWherePaired` (`[]WritesWherePaired`),
`NothingDangles` (`[]ParamsAlive`), `ObservesAsConfigured` (`[]ObservedAsConfigured`) and
`RestoresWhatWasSaved` (`LoadRestores`), for any plug-ins, executables, threads and any requests
that fail half way. `PluginsFine` keeps every pair inside the arrays and says what its
formatter writes to; a configuration is loaded plug-in by plug-in, so there are inductions
over the file, by the well-foundedness of the natural numbers.

**`CoreCrashHandlerProofs`**: `TypeCorrect`, `OneDump` (`[]OneDumpPerDeath`) and `StaysStill`
(`[]StillWhileDumped`), for any number of threads, crash logs and formatters, whichever calls
fail. `Once` says of the end of a thread that was dumped for its exception, wherever it is
on its way, that the handler will find the thread in `iTids` and nobody takes it from there
before; `InTurn` says which event the observer and the handler are each at; and `Holding` that a
thread in the queue, taken up or dumped is suspended, or gone.

The assumptions used are those on the constants, `FewDisturbances`, `NoPanics` and `ClearFeed`
where they are named. Steps
that search in a list or repeat an operation are inductions, which are made with least
counterexamples (`FirstIn`, `MinIn`).

Model-checked and not proved:

* the liveness properties (`HostProgress`, `BacklogDrained`, `Served`,
  `WritesAnswered`, `UnplugSeen`, `Arrival`, `Noticed`), which are out of the prover's reach;
* `StepLands` and `Commanded`: `TrkStepDecode` works with bitwise operators that are defined
  recursively, which the prover cannot expand, and `MCTrkTarget` reaches them;
* `Faithful`, `Listed` and `Edited`: what the formatters write and the editor copies is
  computed by recursion over the dump;
* `Delivery`: what a reader gets from either driver, or from the byte framing, is defined by
  recursion over bytes, and the invariants would have to say what a buffer decodes to in the
  middle of a packet, a word or an escape.

## 6. Where code and documentation disagree

The cases below were met while modelling. Where a
module has the code as it is, its properties name the limit or ghost variable that
keeps the case apart; where it has not, this list is all.

**Framing**
* A reconnect is acknowledged with id 1 after the ids have been reset
  (`TrkDispatchLayer.cpp:1055`), where `engine/msgcmd.h:349` wants the id of the message.
* `RespondErr` moves the expected id on also after a damaged frame, so the intact
  repetition is answered with the old refusal (`TrkFramingLayer.cpp:281`, `msgcmd.h:342`).
* The test for a repetition is `iSequenceId - 1`, which is 0 after a wrap: a repeated
  0xFF is refused as out of order (483, `msgcmd.h:355`).
* The send buffer is `Length() + 100`; 98 escaped bytes overrun it (352, comment 351).
* A flag inside a truncated frame closes that frame and does not open the next, unlike
  what `serframe.h:32` suggests; `RecoversInOneFrame` says that this costs one frame.

**Kernel driver, events**
* `HandleEventKillThread` enters `NotifyEvent` without `iLock`: an event of type
  `EUnknown` can reach the agent (`TrkEventHandler.cpp:208`), which panics on it
  (`TrkDispatchLayer.cpp:478`).
* `DoRequest` and `NotifyEvent` can miss each other: a slot is filled after `DoRequest` has
  looked at it and nothing wakes the agent, or `iEventInfo` is stored and
  `iRequestGetEventStatus` not yet, so that the event is written and `RequestComplete` does
  nothing (`TrkKernelDriver.cpp:403`, 4590-4625). The thread is suspended and the host
  does not hear of it until another event comes, though `msgcmd.h:1990` promises a
  notification. `StopAccounted` has these events in `missed`; without `missed` TLC finds it violated.
* The destructor releases every other frozen thread (250).
* Continuing a thread that has panicked deletes the semaphore the thread may not yet
  have waited on (1086).
* `DoContinueL` resumes the thread before it acknowledges, so the event of a new stop
  can overtake the acknowledgement.

**Kernel driver, breakpoints and steps**
* `ChangeBreakThread` has no effect on process-wide breakpoints (`msgcmd.h:1896`); a step
  over a range ends at the first address of the range (`TrkKernelDriver.cpp:1270`,
  `msgcmd.h:1549`).
* `DetachProcess` passes over every other entry it should clear (1908), `RemoveProcess`
  tests an error code the wrong way round (702), `DoClearBreak` of an entry fails when its
  thread has gone, and the instruction stays patched (2094).
* Nine kinds of instruction are decoded to another address than the processor goes to:
  the table on `TrkStepDecode` in section 2.

**Commands, files, memory, tasks**
* `DoInstallFile2L` adds its result to the previous reply (`TrkDispatchLayer.cpp:2670`), and
  dereferences a NULL buffer when there was none. `ReadRegisters` of an empty range is
  answered with the previous reply or not at all. `DoStopL` answers OK and then an error
  when the registers cannot be read. `DoHostVersionsL` keeps half a version of a packet
  it NAKs. The support mask promises reset, flush cache and notify file input (44), which
  are not dispatched. A connect that fails drops the connection that was there.
  `DoWriteMemoryL` does not compare the length with the data that have come.
* Files: an open that fails for whatever reason is followed by `Replace` (2278-2281), so a
  file to be read that is missing is created, and one that is in use for a moment is emptied.
  The first write truncates also a file opened for appending or updating. A file that is
  open at disconnect stays open. An OEM agent that cannot start the TCB server opens the
  file itself, and a server found later leaves it open; a server that panicked is not
  looked for until the next disconnect. `SetModified` on a file opened for reading makes
  `Close` fail.
* Memory: `DoEnableBreak` compares the result of `ModifyCode` with a breakpoint type
  (`TrkKernelDriver.cpp:2050`); `RestoreCode` brings back what was there when the breakpoint
  was set, also when the host has written other code since (2343). Between the writing of
  data and the planting of the breakpoints a thread runs past them. `ReadRegisters` returns
  on an error before it frees its buffer.
* Tasks: a task that ends moves the following ones by one index while the list is built.
  Thread lists of several processes share one array, and an index other than 0 continues
  whatever list is in it. A process is found by its third uid, whatever the name.
* Libraries: the slots are not reused and there are 100; names are compared as far as one
  of them goes, in opposite directions (`TrkKernelDriver.cpp:1788`, 4737).
  `CheckLibraryNotifyList` is not called when a process is loaded, although the comment
  at 1776 says so. The early returns of `AddLibrary` leave the thread suspended; it tests
  `aThread` for NULL after it has used it. The enumeration of static libraries stops at
  the first dependency that is not a DLL.

**Debug session**
* `DoStepL` leaves the thread in `iSuspendedThreadList` (`TrkDispatchLayer.cpp:1761`).
* A failed installation leaves the library and process events disabled (2602, 2656), and
  `DoInstallFile2L` appends to the old reply (2670).
* The loop that removes the libraries of a process passes over entries (3216).
* Lists and trappers outlive `Disconnect`; `StopListening` kills processes created in
  earlier sessions (1148, comment 767). A thread suspended by the host stays so after
  the driver is closed; a protected process that was created is never resumed (2854).
* `DoStopL` replies, and replies again when `ReadRegisters` fails. A second session of
  file commands connects `iFs` again; only the first write truncates.

**Connection**
* `Stop` waits for ever while Bluetooth is discovering (comment
  `TrkBtSocketCommPort.cpp:81`); the layer of a failed Bluetooth connection is leaked by
  the next `Connect`.
* A change of the cable that finds no request of the client is not told
  (`toolssrvsession.cpp:226`, `trkdebugmanager.cpp:335`). `UnregisterListener` passes over
  every other registration (`toolslaunchmgr.cpp:216`, comment 208).
* `DoConnectL` leaves `iDebugging` set when the driver does not open. Only the last session
  is called back, and any cancellation removes it.

**Communication ports**
* A Bluetooth port whose search finds no record, or cannot ask for its attributes, connects all
  the same, to the port that was configured: the search completes its request with
  `KErrNone` (`TrkBtSocketCommPort.cpp:453-470`), and nobody reads `iPortValid`, "true if the
  Port was retrieved" (`TrkBtSocketCommPort.h:112`). If the connection is
  made and the greeting then fails, `RunL` leaves and the scheduler panics.
* After an error the Bluetooth port is not read again, while its status stays "connected"; a
  notification cancels its read and drops what had been read.
* The session of a USB port that cannot open its channel is not closed, nor are the
  drivers of a DCC or XTI port whose channel cannot be opened.

**Communication drivers and router**
* XTI: a cancel completes the request also when it has been completed
  (`TrkXtiDriver.cpp:178`); `DoRequest` and the handler meet without a lock (199).
* DCC: the put index is compared with the end of the ring after up to four bytes have
  been written (`TrkDccDriver.cpp:472`); a full ring looks empty; the length of the client's
  buffer is never read, for a pointer is compared in its place.
* Router: a client's second write overwrites the buffer that the port is reading
  (`ostbaserouter.cpp:206`, comment 264); the write that is completed late after a
  `WriteCancel` completes the next one; `CmdDisconnect` goes on into the panic of the
  default case; a packet without a body at the end of the buffer waits for the next read;
  junk between packets leaves the id of the last one in force.

**Core dump server**
* A client is answered after the first of several formatters (`corecrashhandler.cpp:172`),
  `RunL` calls `PostProcessL` without a trap (191, comment 157), the loop that cancels
  requests passes over the element after each one it removes (282), a second request
  replaces the message of the first (256), and a thread that survived its exception is
  not dumped when it dies later (294). An event dropped by the observer with a leave
  keeps its thread suspended (`coretargetobserver.cpp:182`).
* A plug-in is listed before it has been made (`coredumpsessioncalls.cpp:659`);
  `DeleteWriterL` unpairs the equal index and does not move the higher ones (750); an
  observer that fails to start stays in the list, deleted (1042); the event action of the
  configuration changes before DSS accepts it (1427); `UpdateProgressL` reads the progress
  for the cancel flag (559).
* A formatter without a writer is saved in a form that cannot be loaded (2356); the
  parameters of plug-ins are saved in numbered sections and looked for in others;
  loading binds the formatters of the session by number although those loaded before
  are kept (comment 2367). `LoadConfig` is accepted during a dump
  (`coredumpsession.cpp:439`).

**ELF formatters**
* Version 2: a live trace longer than wanted, and a variant info that fails to be written,
  move `iOffset` beyond what was written; `tr_size` tells of what is available although
  less is written, and `es_size` is set although the data failed (`hollow`).
* A read whose size is quartered down to 0 loops for ever. The size of the descriptor of
  ROM information is that of the lock data. A user's file name gets no time stamp although
  the comment says so. A dump that failed keeps its mark "in progress", and a crash dumped
  again keeps its place although the comment says that the last entry is the latest. A
  cancel that comes when all is done marks the dump cancelled and closes it again.
* The text of the version a note names is not in the string table of version 2. A dump
  that is cancelled at the end is closed twice.
* Version 1: a segment that could not be read has offset 0 and its full size, so it shows
  the ELF header; nothing closes the file after a leave; a cancel before `OpenL` closes
  what is not open; a leave while the registers of another thread are read gives up the
  whole dump.
* The editor: the trace note is copied with its old offset and without its data, the ROM
  note loses its last word, and `CacheStringTableL` takes every program header's offset
  for a note. Without a string note the table is NULL. A swap that fails leaves the editor
  without a file and the backup or the temporary file on the disk, and nobody restores
  the dump from the backup. `GetIndex` finds a string inside another one.

**Crash logs in flash**
* `HelpReadRegistersL` starts at a position that is not initialised. `iThreadOwners` is
  never reset (it grows with each list of threads), and the trace and the variant data of
  an earlier crash are kept. Code segments without data are taken for one another, since
  they are told apart by the data address. The pass over the user registers is bounded by
  the offset of the supervisor registers.
* Changing the configuration erases the block and writes it back from memory, which
  was never read, belongs to deleted logs or holds no configuration; `ReleaseFirstBlockBuf`
  has no caller. A power failure in between loses the log.

**Lists, records and parameters**
* The marshalled lists are deleted without being set to NULL (but for that of crashes), so
  a failed `MarshalListL` is followed by a double delete. One name that is too long makes
  the list of all fail. A crash that is handled between the length and the list makes the
  client's call fail. A thread is shown as observed by its name, whatever its process;
  threads without a name are neither suspended nor resumed, and `SuspendProcessL` that
  leaves half way keeps the first threads suspended. The client passes the low half of a
  process id. A plug-in that ECom could not make is shown as loaded.
* `GetCodeSegmentsL` uses the size asked for and not the length it got; `ReadMemoryL` loops
  when the largest read is 0.
* `TCrashInfo::InternalizeL` reads the halves of an id as the arguments of a macro
  (`crashdata.cpp:307`), whose order the language leaves open. `CThreadInfo::NewL` counts
  three words too few, so a thread with a long name of two-byte characters passes it and
  does not fit the client's buffer (`threaddata.cpp:55`). `Name()` of a nameless thread,
  executable or plug-in dereferences NULL, and `NameL` leaks the old name except in
  `CPluginInfo`.
* `ValueL` reckons the new size from an estimate that the text that goes has drifted from,
  so that the size can fall below the true one, or below zero (`optionconfig.cpp:588`).
  `ChangeConfigParamsL` looks in a section without a number: the parameters of plug-ins are
  saved and never restored. A parameter set for a plug-in that has been unloaded is
  ignored with `KErrNone` (`coredumpsessioncalls.cpp:1353`), or lands on the one that has
  taken its place. A text of the longest length loses its last character. The file
  writer keeps a path that it has refused, when the directory is missing; its check of the
  index, like that of `CElfOptions`, is off by one.

**FTP server**
* `host_port` writes the address before the command is accepted (`ftpcmd.cpp:2142`), so a
  refused or malformed PORT can change the one in force; the check of reserved ports
  compares the bytes in the wrong order (1582); PASV leaves `usedefault`, so an older PORT
  comes back.
* LIST of an empty directory forgets the listening socket (`ftpd.cpp:1891`); LIST of a file
  sends nothing.
* STOR and APPE answer 226 also when the data connection broke, truncate before it is made, and
  with a restart point throw away what stood before; a text always ends in 550 then. The
  restart point of a text counts its newlines twice although they are sent once. STOU of
  a name too long is not answered. A write that returns 0 ends the transfer with 226.
* A token that the grammar refuses before the end of its line (`PWD foo`) is answered twice:
  `yyerror` replies 500 and writes a NUL over the newline (`ftpd.cpp:1305`), the parser
  discards the tokens that follow, and where the newline was `yylex` calls `yyerror` again
  and leaves by a longjmp (`ftpcmd.cpp:2977`). When nobody is logged in a 530 of
  `check_login` goes before: three answers to one line. Nothing is reduced then, so
  the name to rename and the restart point stay in force.
* RNTO does not ask whether the expansion of `~` has failed, as RNFR does, and passes
  on NULL (`ftpcmd.y:365`).
* CWD to `/` moves the root of names only, so relative names refer to the old directory while
  PWD says `/`; MDTM and SITE CHMOD do not translate their names. STAT of a file reads a
  pipe that nobody writes.

## 7. What is not modelled

* Kernel driver: import stubs, the checks of the arguments of its requests and the user
  side of the channel. In `TrkKernelEvents` a handler in flight when the channel is
  closed is left out; `TrkBreakpoints` has no thread that ends and no failure of
  `ModifyCode`, which `TrkMemory` has.
* Dispatch layer: the calls of an installation, of which `TrkSession` has the beginning
  and the two ends; the contents of the answers about versions and processor.
* Connection: requests for the debugging status, changes of the settings, a restart of
  the server, the port over TCP; the processes of the tools starter and its
  shutdown timer.
* DCC driver: sending, with its retries. Router: configuration and errors of the port.
  TCB server: its shutdown timer.
* Core dump server: killing whole processes after a crash, the list of executables,
  registers and memory of a live crash, the walker of crash logs (not in the repository).
* Formatters: the text and stripped-text formatters, whose output is wording; writers to
  a port and the debug interface, which hand each piece on.
* FTP server: accepting connections and starting the next server, the mask for new
  files, times, logs. Telnet: not at all.
* Not at all: software installation, debug notifier, launcher and user
  interfaces (calls to the platform with no state of their own); the tests.

## 8. Plan

Done: all modules of section 2, and proofs about `TrkFraming`, `TrkBreakpoints`,
`TrkConnection`, `TrkSession`, `TrkPorts`, `FtpServer`, `TrkKernelEvents`, `OstRouter`,
`CoreDumpSession` and `CoreCrashHandler`.

Theorems to come, the most useful first:

1. `AtMostOnce` from a count of the disturbances since the last reset instead of all.
2. `OnlyHeld` of `TrkFiles` and `OwnData` of `TrkCommands`, parts of `Commanded`.

Models to come: the processes of the tools starter, sending of the DCC driver.
