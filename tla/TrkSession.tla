------------------------------ MODULE TrkSession ------------------------------
(***************************************************************************)
(* A debug session: CTrkDispatchLayer keeps a list of the processes it     *)
(* debugs, each with a CExitTrapper that waits for the process to end, and *)
(* a list of the threads it has reported as stopped; DMetroTrkChannel      *)
(* keeps a list of its own and suspends threads.  Commands of the host and *)
(* the RunL of the active objects run to completion, one at a time; the    *)
(* debugged processes run between any two of them.                         *)
(*                                                                         *)
(* A process has one thread and they share a name.  Events reach the agent *)
(* in order and none is lost: how is the matter of TrkKernelEvents.        *)
(* Events that change nothing here, traces and unloaded libraries, are     *)
(* left out, and so are the process and thread lists, which are built anew *)
(* for every request.                                                      *)
(***************************************************************************)
EXTENDS Naturals, Sequences, FiniteSetsExt, SequencesExt, Functions

CONSTANTS
  Procs,        \* the processes that may be debugged
  Protected,    \* those with manufacturer capabilities
  MaxEntries,   \* bound: entries of iDebugProcessList
  MaxStops,     \* bound: entries of iSuspendedThreadList
  MaxQueue,     \* bound: events on their way
  MaxSessions   \* bound: sessions

ProtectedAssumption == Protected \subseteq Procs
BoundsAssumption == {MaxEntries, MaxStops, MaxQueue, MaxSessions} \subseteq Nat

VARIABLES
  connected,   \* iIsConnected
  newHost,     \* iHostVersion is 3.4 or later
  debug,       \* CTrkDispatchLayer::iDebugProcessList
  stopped,     \* iSuspendedThreadList
  installing,  \* DoInstallFileL is in the installer, and the agent with it
  kdebug,      \* DMetroTrkChannel::iDebugProcessList
  libOn,       \* iNotifyLibLoadedEvent
  queue,       \* the events raised, not yet handled by CEventTrapper
  life,        \* of the processes: "none", "run" or "dead"
  held,        \* the threads that do not run: suspended or not yet resumed
  knows,       \* the threads the host has been told of and not set going
  lost,        \* held threads whose notification was given up
  sessions,    \* number of sessions begun
  early        \* a Logon has completed early

agentVars == <<connected, newHost, debug, stopped, installing, sessions>>
kernelVars == <<kdebug, libOn, queue>>
targetVars == <<life, held>>
vars == <<agentVars, kernelVars, targetVars, knows, lost, early>>

Init ==
  /\ connected = FALSE /\ newHost = FALSE /\ installing = FALSE /\ sessions = 0
  /\ debug = <<>> /\ stopped = <<>> /\ kdebug = <<>> /\ queue = <<>> /\ libOn = TRUE
  /\ life = [p \in Procs |-> "none"] /\ held = {} /\ knows = {} /\ lost = {}
  /\ early = FALSE

Listed(p) == {i \in DOMAIN debug : debug[i].of = p}

(* The list without the entries at some of its places.                     *)
Dropping(list, places) ==
  LET kept[i \in 0..Len(list)] ==
        IF i = 0 THEN <<>>
        ELSE IF i \in places THEN kept[i - 1] ELSE Append(kept[i - 1], list[i])
  IN  kept[Len(list)]

(* The first place in the driver's list of each of the processes.          *)
FirstOf(procs) ==
  {i \in DOMAIN kdebug : kdebug[i] \in procs /\ \A j \in 1..(i - 1) : kdebug[j] # kdebug[i]}

Queued == {queue[i].of : i \in DOMAIN queue}

Free == connected /\ ~installing

-------------------------------------------------------------------------------
(* The debugged processes and the driver's event handlers.                 *)

Running(p) == life[p] = "run" /\ p \notin held

Raise(p, kind) ==
  /\ Len(queue) < MaxQueue
  /\ held' = held \cup {p} /\ queue' = Append(queue, [kind |-> kind, of |-> p])

(* An exception or a breakpoint stops the thread.                          *)
HandleException(p) ==
  /\ connected /\ Running(p) /\ p \in Range(kdebug)
  /\ Raise(p, "stop")
  /\ UNCHANGED <<agentVars, kdebug, libOn, life, knows, lost, early>>

AddLibrary(p) ==
  /\ connected /\ Running(p) /\ libOn /\ p \in Range(kdebug)
  /\ Raise(p, "load")
  /\ UNCHANGED <<agentVars, kdebug, libOn, life, knows, lost, early>>

(* A process that TRK did not create starts: AddProcess and StartThread.   *)
StartThread(p) ==
  /\ life[p] = "none" /\ life' = [life EXCEPT ![p] = "run"]
  /\ IF connected /\ libOn THEN Raise(p, "added") ELSE UNCHANGED <<held, queue>>
  /\ UNCHANGED <<agentVars, kdebug, libOn, knows, lost, early>>

(* Processes end: the Logon of their exit trappers completes, and          *)
(* RemoveProcess drops the first entry of each while the driver is open.   *)
Die(dying) ==
  /\ life' = [p \in Procs |-> IF p \in dying THEN "dead" ELSE life[p]]
  /\ held' = held \ dying /\ knows' = knows \ dying /\ lost' = lost \ dying
  /\ debug' = [i \in DOMAIN debug |->
                 IF debug[i].of \in dying /\ debug[i].active
                 THEN [debug[i] EXCEPT !.signalled = TRUE] ELSE debug[i]]
  /\ kdebug' = Dropping(kdebug, FirstOf(dying))

Exit(p) ==
  /\ Running(p) /\ Die({p})
  /\ UNCHANGED <<connected, newHost, stopped, installing, sessions, libOn, queue, early>>

(* "sometimes this is run when the process has yet to exit"; bound: once   *)
(* in a behaviour.                                                         *)
EarlyLogon(i) ==
  /\ debug[i].active /\ ~debug[i].signalled /\ ~early /\ life[debug[i].of] = "run"
  /\ debug' = [debug EXCEPT ![i].signalled = TRUE] /\ early' = TRUE
  /\ UNCHANGED <<connected, newHost, stopped, installing, sessions, kernelVars, targetVars,
                 knows, lost>>

-------------------------------------------------------------------------------
(* The active objects of the agent.                                        *)

(* DoResumeThread of the driver.                                           *)
Resume(p) == held' = held \ {p} /\ lost' = lost \ {p}

(* The host is told that the thread does not run.                          *)
Tell(p) == knows' = knows \cup {p} /\ UNCHANGED <<held, lost>>

(* CEventTrapper::RunL: which events it resumes the thread for.            *)
Ignored(e) ==
  \/ e.kind = "load" /\ (Listed(e.of) = {} \/ ~debug[Min(Listed(e.of))].ready)
  \/ e.kind = "added" /\ ~newHost

(* Mutant: the version of the host is not looked at, and an older host     *)
(* ignores the notification.                                               *)
HandleAnyEvent ==
  /\ Free /\ queue # <<>> /\ queue' = Tail(queue)
  /\ Head(queue).kind = "stop" => Len(stopped) < MaxStops
  /\ LET e == Head(queue)
     IN  /\ stopped' = IF e.kind = "stop" THEN Append(stopped, e.of) ELSE stopped
         /\ IF e.kind = "load" /\ Ignored(e) THEN Resume(e.of) /\ UNCHANGED knows
            ELSE IF Ignored(e) THEN UNCHANGED <<held, lost, knows>> ELSE Tell(e.of)
  /\ UNCHANGED <<connected, newHost, debug, installing, sessions, kdebug, libOn, life, early>>

HandleEvent ==
  /\ Free /\ queue # <<>> /\ queue' = Tail(queue)
  /\ Head(queue).kind = "stop" => Len(stopped) < MaxStops
  /\ LET e == Head(queue)
     IN  /\ stopped' = IF e.kind = "stop" THEN Append(stopped, e.of) ELSE stopped
         /\ IF Ignored(e) THEN Resume(e.of) /\ UNCHANGED knows ELSE Tell(e.of)
  /\ UNCHANGED <<connected, newHost, debug, installing, sessions, kdebug, libOn, life, early>>

(* The loop of DoNotifyProcessDiedL and DoDetachProcessL: after an entry   *)
(* has been removed the index goes on, past the one that took its place,   *)
(* so of entries in a row every second one stays.                          *)
WithoutEach(list, p) ==
  Dropping(list, {i \in DOMAIN list :
                    \E first \in 1..i :
                      /\ (i - first) % 2 = 0
                      /\ \A j \in first..i : list[j].of = p
                      /\ first > 1 => list[first - 1].of # p})

Signalled == {i \in DOMAIN debug : debug[i].signalled}

(* Mutant: RunL does not watch again.                                      *)
TrapOnce ==
  /\ ~installing /\ Signalled # {}
  /\ LET i == Min(Signalled)
     IN  debug' = IF life[debug[i].of] = "run"
                  THEN [debug EXCEPT ![i].signalled = FALSE, ![i].active = FALSE]
                  ELSE WithoutEach(debug, debug[i].of)
  /\ UNCHANGED <<connected, newHost, stopped, installing, sessions, kernelVars, targetVars,
                 knows, lost, early>>

(* CExitTrapper::RunL; the trappers run in the order they were made.       *)
ExitTrapper ==
  /\ ~installing /\ Signalled # {}
  /\ LET i == Min(Signalled)
     IN  debug' = IF life[debug[i].of] = "run"
                  THEN [debug EXCEPT ![i].signalled = FALSE, ![i].active = TRUE]
                  ELSE WithoutEach(debug, debug[i].of)
  /\ UNCHANGED <<connected, newHost, stopped, installing, sessions, kernelVars, targetVars,
                 knows, lost, early>>

-------------------------------------------------------------------------------
(* Commands of the host.                                                   *)

(* The driver is closed: it forgets its events and resumes nobody.         *)
Close ==
  /\ kdebug' = <<>> /\ queue' = <<>>
  /\ lost' = lost \cup ((Queued \cap held) \ knows)

DoConnectL ==
  /\ ~installing /\ sessions < MaxSessions
  /\ connected' = TRUE /\ sessions' = sessions + 1
  /\ debug' = <<>> /\ stopped' = <<>>
  /\ Close /\ libOn' = TRUE
  /\ UNCHANGED <<newHost, installing, targetVars, knows, early>>

(* The lists are kept, the exit trappers go on.                            *)
DoDisconnectL ==
  /\ Free
  /\ connected' = FALSE /\ Close
  /\ UNCHANGED <<newHost, debug, stopped, installing, sessions, libOn, targetVars, knows, early>>

DoHostVersionsL ==
  /\ ~installing
  /\ newHost' \in BOOLEAN \ {newHost}
  /\ UNCHANGED <<connected, debug, stopped, installing, sessions, kernelVars, targetVars,
                 knows, lost, early>>

Entry(p, ready) == [of |-> p, ready |-> ready, signalled |-> FALSE, active |-> TRUE]

(* DoCreateExeL: the entry is made before GetProcessAddresses, which       *)
(* refuses a protected process and leaves; nobody hears of its thread.     *)
DoCreateProcessL(p) ==
  /\ Free /\ life[p] = "none" /\ Len(debug) < MaxEntries
  /\ life' = [life EXCEPT ![p] = "run"] /\ held' = held \cup {p}
  /\ debug' = Append(debug, Entry(p, FALSE))
  /\ IF p \in Protected THEN lost' = lost \cup {p} /\ UNCHANGED <<kdebug, knows>>
     ELSE knows' = knows \cup {p} /\ kdebug' = Append(kdebug, p) /\ UNCHANGED lost
  /\ UNCHANGED <<connected, newHost, stopped, installing, sessions, libOn, queue, early>>

(* kDSOSProcRunItem: the process is not put into the lists.                *)
RunProcess(p) ==
  /\ Free /\ life[p] = "none"
  /\ life' = [life EXCEPT ![p] = "run"] /\ held' = held \cup {p} /\ knows' = knows \cup {p}
  /\ UNCHANGED <<agentVars, kernelVars, lost, early>>

DoAttachProcessL(p) ==
  /\ Free /\ life[p] = "run" /\ p \notin Protected /\ Len(debug) < MaxEntries
  /\ kdebug' = Append(kdebug, p) /\ debug' = Append(debug, Entry(p, TRUE))
  /\ UNCHANGED <<connected, newHost, stopped, installing, sessions, libOn, queue, targetVars,
                 knows, lost, early>>

(* Mutant: the driver drops every entry.                                   *)
DetachAll(p) == kdebug' = Remove(kdebug, p)

(* DetachProcess of the driver: one entry.                                 *)
Detach(p) == kdebug' = Dropping(kdebug, FirstOf({p}))

DoDetachProcessL(p) ==
  /\ Free /\ life[p] = "run" /\ (Listed(p) # {} \/ p \in Range(kdebug))
  /\ debug' = WithoutEach(debug, p) /\ Detach(p)
  /\ UNCHANGED <<connected, newHost, stopped, installing, sessions, libOn, queue, targetVars,
                 knows, lost, early>>

DoKillProcessL(p) ==
  /\ Free /\ life[p] = "run" /\ Die({p})
  /\ UNCHANGED <<connected, newHost, stopped, installing, sessions, libOn, queue, early>>

(* A thread in the list leaves it; otherwise the process has just been     *)
(* created, and its libraries are reported from now on.                    *)
DoContinueL(p) ==
  /\ Free /\ life[p] = "run"
  /\ stopped' = RemoveFirst(stopped, p)
  /\ debug' = IF p \in Range(stopped) \/ Listed(p) = {} THEN debug
              ELSE [debug EXCEPT ![Min(Listed(p))].ready = TRUE]
  /\ Resume(p) /\ knows' = knows \ {p}
  /\ UNCHANGED <<connected, newHost, installing, sessions, kernelVars, life, early>>

(* The thread goes on and stays in iSuspendedThreadList.                   *)
DoStepL(p) ==
  /\ Free /\ p \in knows /\ life[p] = "run"
  /\ Resume(p) /\ knows' = knows \ {p}
  /\ UNCHANGED <<agentVars, kernelVars, life, early>>

DoStopL(p) ==
  /\ Free /\ life[p] = "run" /\ Len(stopped) < MaxStops
  /\ held' = held \cup {p} /\ knows' = knows \cup {p}
  /\ stopped' = Append(stopped, p)
  /\ UNCHANGED <<connected, newHost, debug, installing, sessions, kernelVars, life, lost, early>>

(* DisableLibLoadedEvent, and the installer runs.                          *)
DoInstallFileL ==
  /\ Free /\ installing' = TRUE /\ libOn' = FALSE
  /\ UNCHANGED <<connected, newHost, debug, stopped, sessions, kdebug, queue, targetVars,
                 knows, lost, early>>

(* When the installer fails DoInstallFileL leaves before it enables the    *)
(* event again.                                                            *)
InstallEnds(error) ==
  /\ installing /\ installing' = FALSE
  /\ libOn' = IF error THEN libOn ELSE TRUE
  /\ UNCHANGED <<connected, newHost, debug, stopped, sessions, kdebug, queue, targetVars,
                 knows, lost, early>>

(* The user stops TRK: what is in the list is killed, whether or not the   *)
(* session it belongs to is over.                                          *)
StopListening ==
  /\ ~installing /\ \E i \in DOMAIN debug : life[debug[i].of] = "run"
  /\ Die({debug[i].of : i \in DOMAIN debug})
  /\ UNCHANGED <<connected, newHost, stopped, installing, sessions, libOn, queue, early>>

-------------------------------------------------------------------------------
Command(p) ==
  \/ DoCreateProcessL(p) \/ RunProcess(p) \/ DoAttachProcessL(p) \/ DoDetachProcessL(p)
  \/ DoKillProcessL(p) \/ DoContinueL(p) \/ DoStepL(p) \/ DoStopL(p)

Next ==
  \/ \E p \in Procs :
       \/ HandleException(p) \/ AddLibrary(p) \/ StartThread(p) \/ Exit(p)
       \/ Command(p)
  \/ \E i \in DOMAIN debug : EarlyLogon(i)
  \/ HandleEvent \/ ExitTrapper
  \/ DoConnectL \/ DoDisconnectL \/ DoHostVersionsL
  \/ DoInstallFileL \/ \E error \in BOOLEAN : InstallEnds(error)
  \/ StopListening

(* The installer comes to an end, and the active scheduler runs a trapper  *)
(* that has completed: the host waits for the reply to a command before it *)
(* sends the next, and leaves the scheduler time for the other objects.    *)
Fairness == SF_vars(ExitTrapper) /\ WF_vars(InstallEnds(FALSE) \/ InstallEnds(TRUE))

Spec == Init /\ [][Next]_vars /\ Fairness

-------------------------------------------------------------------------------
(* No thread is held that the host cannot set going: it has been told of   *)
(* it, or is about to be, or the notification was given up by closing the  *)
(* driver or by a creation that failed half way.  CEventTrapper::RunL and  *)
(* DoNotifyProcessAddedL resume what they do not report.                   *)
Accounted == held \subseteq knows \cup lost \cup Queued

(* A process the agent has in its list is one the driver follows, so that  *)
(* its breakpoints and libraries are reported, however often it has been   *)
(* attached and detached; the protected ones DoCreateExeL leaves in the    *)
(* list are the exception.                                                 *)
Followed ==
  connected => \A i \in DOMAIN debug :
    life[debug[i].of] = "run" /\ debug[i].of \notin Protected => debug[i].of \in Range(kdebug)

(* A process that has ended goes from the list in the end, all entries of  *)
(* it, although the loop that removes them passes over every second one.   *)
DeathsNoticed ==
  \A p \in Procs : life[p] = "dead" /\ Listed(p) # {} ~> Listed(p) = {}
===============================================================================
