-------------------------------- MODULE TrkAgent --------------------------------
(***************************************************************************)
(* The agent between a connected host and the debugged processes, one of   *)
(* these in each behaviour: a debug session (TrkSession), or the port      *)
(* below the framing layer (TrkPorts).                                     *)
(***************************************************************************)
CONSTANTS
  Procs, Protected, MaxEntries, MaxStops, MaxQueue, MaxBegun, \* of TrkSession
  MaxStarts, MaxBytes, MaxSends, MaxFaults                    \* of TrkPorts

VARIABLES
  which, \* "session" or "port"
  connected, newHost, debug, stopped, installing, kdebug, libOn, queue, life, held, knows, lost,
  begun, early,
  port, started, opened, connState, listening, active, status, phase, buffer, goal, open,
  reading, line, sent, got, gone, broken, denied, last, starts, sends, faults, ended

S == INSTANCE TrkSession WITH sessions <- begun, MaxSessions <- MaxBegun

C == INSTANCE TrkPorts WITH
       kind <- port, connected <- opened, connStatus <- connState, state <- phase, limit <- ended

ASSUME AgentAssumption ==
  S!ProtectedAssumption /\ S!BoundsAssumption /\ C!BoundsAssumption

sessionVars == <<connected, newHost, debug, stopped, installing, kdebug, libOn, queue, life,
                 held, knows, lost, begun, early>>
portVars == <<port, started, opened, connState, listening, active, status, phase, buffer, goal,
              open, reading, line, sent, got, gone, broken, denied, last, starts, sends, faults,
              ended>>
agentVars == <<which, sessionVars, portVars>>

AgentInit == which \in {"session", "port"} /\ S!Init /\ C!Init

Debugging(Step) == which = "session" /\ Step /\ UNCHANGED <<which, portVars>>
Porting(Step) == which = "port" /\ Step /\ UNCHANGED <<which, sessionVars>>

AgentNext == Debugging(S!Next) \/ Porting(C!Next)

(* The fairness of the two, each where it is at work.                      *)
AgentSpec ==
  /\ AgentInit /\ [][AgentNext]_agentVars
  /\ SF_agentVars(Debugging(S!ExitTrapper))
  /\ WF_agentVars(Debugging(S!InstallEnds(FALSE) \/ S!InstallEnds(TRUE)))
  /\ WF_agentVars(Porting(ended = "no" /\ C!Complete))
  /\ WF_agentVars(Porting(ended = "no" /\ (C!Run \/ C!RunBroken \/ C!RunSocket)))

-------------------------------------------------------------------------------
(* No thread is held that the host has not been told of and is not about   *)
(* to be, but for what closing the driver and a creation that fails half   *)
(* way give up.                                                            *)
Accounted == S!Accounted

(* A running process that the agent lists is one the driver follows,       *)
(* however often it has been attached and detached.                        *)
Followed == S!Followed

(* Whichever port is opened, and whatever fails then and later: once it is *)
(* closed nothing is left open but the known leftovers, every byte reaches *)
(* the framing layer in order and once or is dropped for one of three      *)
(* reasons, and while it listens it is read.                               *)
PortKept == C!Released /\ C!NothingSkipped /\ C!Hears

(* An ended process goes from the agent's list, and what comes over the    *)
(* line is read.                                                           *)
Noticed == S!DeathsNoticed /\ C!Heard
===============================================================================
