----------------------------- MODULE TrkConnection -----------------------------
(***************************************************************************)
(* How the TRK server is connected to a debugger, over four processes:     *)
(*  - the tools starter, which watches the USB cable and launches the      *)
(*    server (CToolsUsbPortListener, CToolsLaunchMgr, CToolsSrvSession);   *)
(*  - the TRK server: CToolsConnectionListener, CTrkDebugManager,          *)
(*    CTrkEngine with its dispatch layer and port, CTrkSrvSession;         *)
(*  - the applications that show the status and connect and disconnect;    *)
(*  - the host debugger, which starts and ends debug sessions.             *)
(* A layer is a CTrkDispatchLayer with the framing layer and the port it   *)
(* owns.  Each server is one thread of active objects.                     *)
(***************************************************************************)
EXTENDS Naturals, Sequences, SequencesExt

CONSTANTS
  Clients,      \* sessions of applications; one that returns is a new one
  UserTypes,    \* connections the user configures: "bt", "usb"
  MaxPlugs,     \* bound: changes of the cable
  MaxSessions,  \* bound: debug sessions the host starts
  MaxConnects,  \* bound: Connect commands of the applications
  NoClient      \* no callback is set

ASSUME TypesAssumption == UserTypes \subseteq {"bt", "usb"} /\ NoClient \notin Clients
ASSUME BoundsAssumption ==
  MaxPlugs \in Nat /\ MaxSessions \in Nat /\ MaxConnects \in Nat

VARIABLES
  cable,      \* the USB cable: "in" or "out"
  news,       \* a change of the device state that the starter has not seen
  starter,    \* iConnected, iPendingRead and how often the session is in
              \* iToolListenerList
  request,    \* what UsbConnNotify of the TRK server is doing
  layer,      \* iDispatchLayer and its port
  connType,   \* iCurrentConnType
  connStatus, \* iConnStatus of the manager
  debugging,  \* iDebugging of the manager
  callback,   \* iDebugMgrCallback
  data,       \* the connection and the plug and play setting of the model
  client,     \* of each session: its state, its status request and its view
  plugs, sessions, connects, \* the bounded events so far
  missed,     \* the last change of the cable found no request
  limit       \* what ended the behaviour, see README

managerVars == <<layer, connType, connStatus, debugging>>
starterVars == <<starter, request, missed>>
bounded == <<plugs, sessions, connects>>
vars == <<cable, news, starterVars, managerVars, callback, data, client, bounded, limit>>

NoLayer == [type |-> "none", port |-> "none", session |-> FALSE]
Layer(type, port) == [type |-> type, port |-> port, session |-> FALSE]
Alive(c) == client[c].state = "open"
Launched == request.state # "none"

Init ==
  /\ cable \in {"in", "out"} /\ news = FALSE
  /\ starter = [connected |-> cable = "in", pending |-> FALSE, listeners |-> 0]
  /\ request = [state |-> "none", told |-> cable] /\ missed = FALSE
  /\ layer = NoLayer /\ connType = "bt" /\ connStatus = "not"
  /\ debugging = FALSE /\ callback = NoClient
  /\ data \in [type : UserTypes, plug : BOOLEAN]
  /\ client = [c \in Clients |-> [state |-> "none", request |-> "idle", view |-> "not"]]
  /\ plugs = 0 /\ sessions = 0 /\ connects = 0 /\ limit = "no"

-------------------------------------------------------------------------------
(* The manager and the engine.  A step of theirs gives the new layer,      *)
(* type, status and debugging flag; ms is a record of these four.          *)

Manager == [layer |-> layer, type |-> connType, status |-> connStatus,
            debugging |-> debugging]

Becomes(ms) ==
  /\ layer' = ms.layer /\ connType' = ms.type /\ connStatus' = ms.status
  /\ debugging' = ms.debugging

(* Deleting the port cancels its request.  That of a Bluetooth port which  *)
(* looks for the service is not completed by DoCancel: Cancel() waits for  *)
(* it for ever.                                                            *)
Hangs == layer.port = "discovering"

(* Mutant: the status is left as it is.                                    *)
StopDebuggingSilently(ms) ==
  [ms EXCEPT !.layer = NoLayer, !.debugging = @ /\ ms.layer = NoLayer]

(* CTrkDebugManager::StopDebugging, CTrkEngine::Stop: the destructor of    *)
(* the layer ends the debug session.                                       *)
StopDebugging(ms) ==
  [ms EXCEPT !.layer = NoLayer, !.status = "not", !.debugging = @ /\ ms.layer = NoLayer]

(* Mutant: the half-made layer stays when the port cannot be opened.       *)
StartTypedKeepsLayer(ms, type, opens) ==
  [ms EXCEPT !.type = type, !.status = IF opens THEN "connected" ELSE "not",
             !.layer = Layer(type, IF opens THEN "listening" ELSE "closed")]

(* StartDebuggingL with a type, on a manager without a layer: the default  *)
(* data of that type.                                                      *)
StartTyped(ms, type, opens) ==
  IF opens
  THEN [ms EXCEPT !.layer = Layer(type, "listening"), !.type = type, !.status = "connected"]
  ELSE StopDebugging([ms EXCEPT !.type = type])

(* StartDebuggingL with the data of the user: a Bluetooth port goes on by  *)
(* itself.                                                                 *)
Start(ms, opens) ==
  IF opens /\ data.type = "bt"
  THEN [ms EXCEPT !.layer = Layer("bt", "discovering"), !.type = "bt",
                  !.status = "connecting"]
  ELSE StartTyped(ms, data.type, opens)

(* CTrkSrvSession::DebugConnStatusChanged of the session that is the       *)
(* callback: its request is completed; without one nothing happens.        *)
Changed(cs) ==
  IF callback = NoClient \/ cs[callback].request # "pending" THEN cs
  ELSE [cs EXCEPT ![callback].request = "done"]

(* The manager calls back: into a session that was deleted, if that is     *)
(* what the callback is.                                                   *)
Calls == limit' = IF callback # NoClient /\ ~Alive(callback) THEN "dangling" ELSE limit

-------------------------------------------------------------------------------
(* The tools starter and the connection listener of the server.            *)

(* The cable is plugged in or pulled out.                                  *)
Plug ==
  /\ plugs < MaxPlugs /\ plugs' = plugs + 1
  /\ cable' = IF cable = "in" THEN "out" ELSE "in"
  /\ news' = TRUE
  /\ UNCHANGED <<starterVars, managerVars, callback, data, client, sessions, connects, limit>>

(* CToolsLaunchMgr::Launch starts the server with -usb or -xti; the server *)
(* asks for changes of the cable first and ignores that it cannot connect. *)
Boot ==
  /\ ~Launched /\ request' = [request EXCEPT !.state = "sent"]
  /\ \E opens \in BOOLEAN :
       Becomes(StartTyped(Manager, IF cable = "in" THEN "usb" ELSE "xti", opens))
  /\ starter' = [starter EXCEPT !.connected = @ \/ cable = "in"]
  /\ missed' = FALSE
  /\ UNCHANGED <<cable, news, callback, data, client, bounded, limit>>

(* ConnStatusChanged of the server's session, once for every time it has   *)
(* registered: only the first finds the request.                           *)
Notify(state) ==
  IF starter.pending
  THEN /\ request' = [state |-> "done", told |-> state] /\ missed' = FALSE
       /\ starter' = [starter EXCEPT !.pending = FALSE, !.connected = state = "in"]
  ELSE /\ missed' = TRUE /\ UNCHANGED request
       /\ starter' = [starter EXCEPT !.connected = state = "in"]

(* Mutant: a cable that was not seen in is not told either.                *)
PortListenerOnce ==
  /\ news /\ news' = FALSE
  /\ IF cable = "in" /\ ~starter.connected THEN Notify(cable) ELSE UNCHANGED starterVars
  /\ UNCHANGED <<cable, managerVars, callback, data, client, bounded, limit>>

(* CToolsUsbPortListener::RunL: a cable that is out is always told, one    *)
(* that is in only once.                                                   *)
PortListener ==
  /\ news /\ news' = FALSE
  /\ IF cable = "out" \/ ~starter.connected THEN Notify(cable) ELSE UNCHANGED starterVars
  /\ UNCHANGED <<cable, managerVars, callback, data, client, bounded, limit>>

(* CToolsSrvSession::CmdConnNofify: register again, and wait for the next  *)
(* change.                                                                 *)
ConnNotify ==
  /\ request.state = "sent"
  /\ request' = [request EXCEPT !.state = "pending"]
  /\ starter' = [starter EXCEPT !.pending = TRUE, !.listeners = @ + 1]
  /\ UNCHANGED <<cable, news, missed, managerVars, callback, data, client, bounded, limit>>

(* CToolsConnectionListener::RunL, then StartListening.                    *)
Heard(state) ==
  /\ request.state = "done" /\ request.told = state
  /\ request' = [request EXCEPT !.state = "sent"]
  /\ UNCHANGED <<cable, news, starter, missed, callback, data, bounded>>

IgnoreConnection == UNCHANGED <<managerVars, client, limit>>

(* The manager goes over to the connection of this type.                   *)
Switch(type) ==
  /\ \E opens \in BOOLEAN : Becomes(StartTyped(StopDebugging(Manager), type, opens))
  /\ client' = Changed(client)

(* CTrkDebugManager::ConnectionAvailable                                   *)
ConnectionAvailable ==
  /\ Heard("in")
  /\ IF debugging \/ ~data.plug THEN IgnoreConnection
     ELSE IF Hangs THEN limit' = "hung" /\ UNCHANGED <<managerVars, client>>
     ELSE Switch("usb") /\ Calls

(* CTrkDebugManager::ConnectionUnAvailable                                 *)
ConnectionUnAvailable ==
  /\ Heard("out")
  /\ IF connType # "usb" THEN IgnoreConnection ELSE Switch("xti") /\ Calls

-------------------------------------------------------------------------------
(* The Bluetooth port finds the service and connects, or not.              *)

(* CTrkBtSocketCommPort::RunL, ConnectToPortL and AsyncConnectionSuccessfulL.*)
BtConnected ==
  /\ layer.port = "discovering"
  /\ layer' = [layer EXCEPT !.port = "listening"] /\ connStatus' = "connected"
  /\ client' = Changed(client) /\ Calls
  /\ UNCHANGED <<cable, news, starterVars, connType, debugging, callback, data, bounded>>

(* NextRecordRequestComplete or ConnectToPortL failed; the layer stays.    *)
BtFailed ==
  /\ layer.port = "discovering"
  /\ layer' = [layer EXCEPT !.port = "failed"] /\ connStatus' = "error"
  /\ client' = Changed(client) /\ Calls
  /\ UNCHANGED <<cable, news, starterVars, connType, debugging, callback, data, bounded>>

(* Mutant: the manager is not told of a session that follows another.      *)
DoConnectAgain ==
  /\ layer.port = "listening" /\ sessions < MaxSessions /\ sessions' = sessions + 1
  /\ layer' = [layer EXCEPT !.session = TRUE] /\ debugging' = ~debugging /\ Calls
  /\ UNCHANGED <<cable, news, starterVars, connType, connStatus, callback, data, client,
                 plugs, connects>>

(* CTrkDispatchLayer::DoConnectL: a session in progress ends first; the    *)
(* driver may fail to open.                                                *)
DoConnect ==
  /\ layer.port = "listening" /\ sessions < MaxSessions /\ sessions' = sessions + 1
  /\ \/ layer' = [layer EXCEPT !.session = TRUE] /\ debugging' = TRUE /\ Calls
     \/ layer' = [layer EXCEPT !.session = FALSE] /\ UNCHANGED <<debugging, limit>>
  /\ UNCHANGED <<cable, news, starterVars, connType, connStatus, callback, data, client,
                 plugs, connects>>

(* CTrkDispatchLayer::DoDisconnectL                                        *)
DoDisconnect ==
  /\ layer.port = "listening" /\ layer.session
  /\ layer' = [layer EXCEPT !.session = FALSE]
  /\ debugging' = FALSE /\ Calls
  /\ UNCHANGED <<cable, news, starterVars, connType, connStatus, callback, data, client, bounded>>

-------------------------------------------------------------------------------
(* The applications.                                                       *)

(* A new session becomes the callback, and its application reads the       *)
(* status.                                                                 *)
Open(c) ==
  /\ Launched /\ client[c].state = "none"
  /\ callback' = c
  /\ client' = [client EXCEPT ![c] = [state |-> "open", request |-> "idle", view |-> connStatus]]
  /\ UNCHANGED <<cable, news, starterVars, managerVars, data, bounded, limit>>

(* ConnStatusNotifyL *)
Listen(c) ==
  /\ Alive(c) /\ client[c].request = "idle"
  /\ client' = [client EXCEPT ![c].request = "pending"]
  /\ UNCHANGED <<cable, news, starterVars, managerVars, callback, data, bounded, limit>>

(* CTrkAppView::ConnectionStateChanged reads the status again.             *)
Refresh(c) ==
  /\ Alive(c) /\ client[c].request = "done"
  /\ client' = [client EXCEPT ![c].request = "idle", ![c].view = connStatus]
  /\ UNCHANGED <<cable, news, starterVars, managerVars, callback, data, bounded, limit>>

(* The menu offers Connect to an application that believes itself not      *)
(* connected.  A layer that is there is not stopped: one whose port failed *)
(* is lost, one that listens goes on beside the new one: limit "two        *)
(* layers".                                                                *)
Connect(c) ==
  /\ Alive(c) /\ client[c].view \in {"not", "error"}
  /\ connects < MaxConnects /\ connects' = connects + 1
  /\ \E opens \in BOOLEAN :
       LET ms == Start([Manager EXCEPT !.layer = NoLayer], opens)
       IN  /\ Becomes(ms)
           /\ client' = [client EXCEPT ![c].view = ms.status]
  /\ limit' = IF layer.port \in {"discovering", "listening"} THEN "two layers" ELSE limit
  /\ UNCHANGED <<cable, news, starterVars, callback, data, plugs, sessions>>

(* The menu offers Disconnect to one that believes itself connected.       *)
DisConnect(c) ==
  /\ Alive(c) /\ client[c].view = "connected"
  /\ IF Hangs THEN limit' = "hung" /\ UNCHANGED <<managerVars, client>>
     ELSE /\ Becomes(StopDebugging(Manager))
          /\ client' = [client EXCEPT ![c].view = "not"]
          /\ IF layer = NoLayer THEN UNCHANGED limit ELSE Calls
  /\ UNCHANGED <<cable, news, starterVars, callback, data, bounded>>

(* Mutant: the callback stays when the request is cancelled.               *)
CloseKeepsCallback(c) ==
  /\ Alive(c) /\ client[c].request \in {"pending", "done"}
  /\ UNCHANGED callback
  /\ client' = [client EXCEPT ![c].state = "none", ![c].request = "idle"]
  /\ UNCHANGED <<cable, news, starterVars, managerVars, data, bounded, limit>>

(* The application closes its session after it has cancelled its request:  *)
(* ConnStatusNotifyCancel takes the callback away whose ever it is.        *)
Close(c) ==
  /\ Alive(c) /\ client[c].request \in {"pending", "done"}
  /\ callback' = NoClient
  /\ client' = [client EXCEPT ![c].state = "none", ![c].request = "idle"]
  /\ UNCHANGED <<cable, news, starterVars, managerVars, data, bounded, limit>>

(* The application ends without a cancel; CTrkSrvSession::~CTrkSrvSession  *)
(* leaves the callback as it is.                                           *)
Die(c) ==
  /\ Alive(c)
  /\ client' = [client EXCEPT ![c].state = "killed", ![c].request = "idle"]
  /\ UNCHANGED <<cable, news, starterVars, managerVars, callback, data, bounded, limit>>

(* CmdShutDownServer, RunServerL stops the connection, and the session     *)
(* with the starter is closed: UnregisterListener takes every other one of *)
(* its registrations away.                                                 *)
ShutDown ==
  /\ Launched
  /\ limit' = IF Hangs THEN "hung" ELSE "down"
  /\ IF Hangs THEN UNCHANGED <<managerVars, starter>>
     ELSE /\ Becomes(StopDebugging(Manager))
          /\ starter' = [starter EXCEPT !.pending = FALSE, !.listeners = @ \div 2]
  /\ UNCHANGED <<cable, news, request, missed, callback, data, client, bounded>>

-------------------------------------------------------------------------------
Next ==
  /\ limit = "no"
  /\ \/ Plug \/ Boot \/ PortListener \/ ConnNotify
     \/ ConnectionAvailable \/ ConnectionUnAvailable \/ BtConnected \/ BtFailed
     \/ DoConnect \/ DoDisconnect \/ ShutDown
     \/ \E c \in Clients : \/ Open(c) \/ Listen(c) \/ Refresh(c) \/ Connect(c)
                           \/ DisConnect(c) \/ Close(c) \/ Die(c)

Spec == Init /\ [][Next]_vars

(* The servers run when they have something to do, up to a limit.          *)
FairSpec ==
  /\ Spec
  /\ WF_vars(limit = "no" /\ Boot)
  /\ WF_vars(limit = "no" /\ PortListener)
  /\ WF_vars(limit = "no" /\ ConnNotify)
  /\ WF_vars(limit = "no" /\ (ConnectionAvailable \/ ConnectionUnAvailable))

-------------------------------------------------------------------------------
Types == {"bt", "usb", "xti"}
Statuses == {"not", "connecting", "connected", "error"}

(* Every value is one the sources name, and the starter has kept as many   *)
(* registrations as there were requests.                                   *)
TypeOK ==
  /\ cable \in {"in", "out"} /\ news \in BOOLEAN /\ missed \in BOOLEAN
  /\ starter \in [connected : BOOLEAN, pending : BOOLEAN, listeners : 0 .. MaxPlugs + 1]
  /\ request \in [state : {"none", "sent", "pending", "done"}, told : {"in", "out"}]
  /\ layer = NoLayer
     \/ layer \in [type : Types, port : {"discovering", "listening", "failed"}, session : BOOLEAN]
  /\ connType \in Types /\ connStatus \in Statuses /\ debugging \in BOOLEAN
  /\ callback \in Clients \union {NoClient}
  /\ client \in [Clients -> [state : {"none", "open", "killed"},
                            request : {"idle", "pending", "done"}, view : Statuses]]
  /\ limit \in {"no", "hung", "dangling", "two layers", "down"}

(* What the manager tells the applications is what the port is doing, over *)
(* every automatic switch, user command, asynchronous outcome and host.    *)
PortStatus == [none |-> "not", discovering |-> "connecting",
               listening |-> "connected", failed |-> "error"]
StatusTruthful == limit # "two layers" => connStatus = PortStatus[layer.port]

(* A session of the host is always known to the manager, which keeps the   *)
(* cable from taking its connection; without a layer there is none.  (The  *)
(* converse fails when a reconnection cannot open the driver.)  And the    *)
(* manager keeps no callback to an application that closed its session in  *)
(* good order.                                                             *)
SessionKnown ==
  /\ limit # "two layers" =>
       /\ layer.session => debugging
       /\ layer = NoLayer => ~debugging
  /\ callback # NoClient => client[callback].state # "none"

(* When the cable is pulled out, the manager leaves the USB connection,    *)
(* unless the change of the cable came while the server was not waiting    *)
(* for one.                                                                *)
UnplugSeen ==
  (cable = "out" /\ layer.type = "usb")
    ~> (cable = "in" \/ layer.type # "usb" \/ missed \/ limit # "no")

===============================================================================
