----------------------------- MODULE TrkAgentProofs -----------------------------
(* Proofs about the agent: the connection it opens (TrkConnection), the    *)
(* debug session it serves (TrkSession) and the port below them            *)
(* (TrkPorts), for any number of applications and of processes and any     *)
(* bounds.                                                                 *)
(*                                                                         *)
(* Of the connection, the status is kept truthful because a debug session  *)
(* needs a port that listens, and the registrations with the starter are   *)
(* bounded by the changes of the cable because each answer to a request    *)
(* uses one up.  The driver follows what the agent lists because it has at *)
(* least as many entries for it, so that dropping one leaves one as long   *)
(* as the agent has any.  Of the port, every byte is in exactly one place, *)
(* and every handle belongs to the port that is there or is left of an     *)
(* opening that failed.                                                    *)
EXTENDS TrkConnection, TrkAgent, TLAPS, FiniteSetTheorems, WellFoundedInduction

-------------------------------------------------------------------------------
(* The connection.                                                         *)

PortStates == {"discovering", "listening", "failed"}
Layers == {NoLayer} \cup [type : Types, port : PortStates, session : BOOLEAN]
Managers == [layer : Layers, type : Types, status : Statuses, debugging : BOOLEAN]

(* What the manager believes is what its layer is doing.                   *)
Agrees(ms) ==
  /\ ms.status = PortStatus[ms.layer.port]
  /\ ms.layer.session => ms.debugging
  /\ ms.layer.port # "listening" => ~ms.debugging /\ ~ms.layer.session

One(p) == IF p THEN 1 ELSE 0

(* A change of the cable is either still news, or has completed the        *)
(* request, or has led to a further registration.                          *)
Counted ==
  /\ plugs \in 0..MaxPlugs
  /\ starter.pending => request.state = "pending"
  /\ limit = "no" =>
       starter.listeners + One(request.state # "pending") + One(news) <= plugs + 1

CallbackOpened == callback # NoClient => client[callback].state # "none"

IInv ==
  /\ TypeOK /\ Counted /\ CallbackOpened /\ data.type \in UserTypes
  /\ limit # "two layers" => Agrees(Manager)

-------------------------------------------------------------------------------
(* The steps of the manager.                                               *)

LEMMA StopAgrees ==
  ASSUME NEW ms \in Managers, ms.layer = NoLayer => ~ms.debugging
  PROVE  StopDebugging(ms) \in Managers /\ Agrees(StopDebugging(ms))
BY DEF Managers, StopDebugging, Layers, NoLayer, Agrees, PortStatus, Types, Statuses

LEMMA StartTypedAgrees ==
  ASSUME NEW ms \in Managers, ms.layer = NoLayer => ~ms.debugging,
         NEW type \in Types, NEW opens \in BOOLEAN
  PROVE  StartTyped(ms, type, opens) \in Managers /\ Agrees(StartTyped(ms, type, opens))
<1>1. CASE opens
  BY <1>1 DEF Managers, StartTyped, Layer, Layers, Agrees, PortStatus, PortStates, Statuses
<1>2. CASE ~opens
  <2> DEFINE m == [ms EXCEPT !.type = type]
  <2>1. m \in Managers /\ (m.layer = NoLayer => ~m.debugging) BY DEF Managers
  <2> QED BY <1>2, <2>1, StopAgrees DEF StartTyped
<1> QED BY <1>1, <1>2

LEMMA StartAgrees ==
  ASSUME NEW ms \in Managers, ms.layer = NoLayer, data.type \in Types, NEW opens \in BOOLEAN
  PROVE  /\ Start(ms, opens) \in Managers
         /\ ~ms.debugging => Agrees(Start(ms, opens))
<1>1. CASE opens /\ data.type = "bt"
  BY <1>1 DEF Managers, Start, Layer, Layers, Agrees, PortStatus, PortStates, Statuses, Types
<1>2. CASE ~(opens /\ data.type = "bt")
  <2>1. Start(ms, opens) = StartTyped(ms, data.type, opens) BY <1>2 DEF Start
  <2>2. StartTyped(ms, data.type, opens) \in Managers
    BY DEF StartTyped, StopDebugging, Managers, Layer, Layers, PortStates, Statuses, NoLayer, Types
  <2> QED BY <2>1, <2>2, StartTypedAgrees
<1> QED BY <1>1, <1>2

LEMMA ManagerType == TypeOK => Manager \in Managers
BY DEF TypeOK, Manager, Managers, Layers, PortStates

LEMMA BecomesType ==
  ASSUME NEW ms \in Managers, Becomes(ms)
  PROVE  /\ layer' \in Layers /\ connType' \in Types /\ connStatus' \in Statuses
         /\ debugging' \in BOOLEAN
         /\ Manager' = ms
BY DEF Becomes, Managers, Manager

LEMMA Constants == /\ UserTypes \subseteq Types /\ NoClient \notin Clients
                   /\ MaxPlugs \in Nat
BY TypesAssumption, BoundsAssumption DEF Types

(* A step that touches neither the manager nor the registrations.          *)
LEMMA ApplicationStep ==
  ASSUME IInv, limit = "no",
         UNCHANGED <<cable, news, starterVars, data, plugs>>,
         UNCHANGED managerVars,
         limit' \in {"no", "hung", "dangling", "down"},
         callback' \in Clients \cup {NoClient},
         client' \in [Clients -> [state : {"none", "open", "killed"},
                                 request : {"idle", "pending", "done"}, view : Statuses]],
         CallbackOpened'
  PROVE  IInv'
<1>1. TypeOK'
  <2>1. TypeOK BY DEF IInv
  <2>2. /\ cable' = cable /\ news' = news /\ starter' = starter /\ request' = request
        /\ missed' = missed /\ layer' = layer /\ connType' = connType
        /\ connStatus' = connStatus /\ debugging' = debugging
    BY DEF starterVars, managerVars
  <2>3. limit' \in {"no", "hung", "dangling", "two layers", "down"} OBVIOUS
  <2>4. /\ layer' = NoLayer \/ layer' \in [type : Types, port : PortStates, session : BOOLEAN]
        /\ connType' \in Types /\ connStatus' \in Statuses /\ debugging' \in BOOLEAN
    BY <2>1, <2>2 DEF TypeOK, PortStates
  <2>5. /\ cable' \in {"in", "out"} /\ news' \in BOOLEAN /\ missed' \in BOOLEAN
        /\ starter' \in [connected : BOOLEAN, pending : BOOLEAN, listeners : 0 .. MaxPlugs + 1]
        /\ request' \in [state : {"none", "sent", "pending", "done"}, told : {"in", "out"}]
    BY <2>1, <2>2 DEF TypeOK
  <2> QED BY <2>3, <2>4, <2>5 DEF TypeOK, PortStates
<1>2. Counted' BY DEF IInv, Counted, One, starterVars
<1>3. limit' # "two layers" => Agrees(Manager)'
  BY DEF IInv, managerVars, Manager, Agrees
<1> QED BY <1>1, <1>2, <1>3 DEF IInv

(* A step of the manager, with what it does to the registrations.          *)
LEMMA ManagerStep ==
  ASSUME IInv, limit = "no", NEW ms \in Managers, Becomes(ms),
         UNCHANGED <<cable, data>>, news' \in BOOLEAN, missed' \in BOOLEAN,
         starter' \in [connected : BOOLEAN, pending : BOOLEAN, listeners : 0 .. MaxPlugs + 1],
         request' \in [state : {"none", "sent", "pending", "done"}, told : {"in", "out"}],
         Counted',
         limit' \in {"no", "hung", "dangling", "two layers", "down"},
         callback' = callback,
         client' \in [Clients -> [state : {"none", "open", "killed"},
                                 request : {"idle", "pending", "done"}, view : Statuses]],
         \A c \in Clients : client'[c].state = client[c].state,
         limit' # "two layers" => Agrees(ms)
  PROVE  IInv'
<1>1. TypeOK'
  BY BecomesType DEF IInv, TypeOK, Layers, PortStates
<1>2. CallbackOpened' BY DEF IInv, CallbackOpened, TypeOK
<1>3. limit' # "two layers" => Agrees(Manager)'
  BY BecomesType DEF Agrees
<1> QED BY <1>1, <1>2, <1>3 DEF IInv

LEMMA ChangedType ==
  ASSUME IInv
  PROVE  /\ Changed(client) \in [Clients -> [state : {"none", "open", "killed"},
                                 request : {"idle", "pending", "done"}, view : Statuses]]
         /\ \A c \in Clients : Changed(client)[c].state = client[c].state
BY ZenonT(30) DEF IInv, TypeOK, Changed

LEMMA CallsType ==
  ASSUME Calls, limit = "no"
  PROVE  limit' \in {"no", "dangling"}
BY DEF Calls

-------------------------------------------------------------------------------
LEMMA InitIInv == Init => IInv
<1> SUFFICES ASSUME Init PROVE IInv
  OBVIOUS
<1>1. TypeOK
  <2>1. starter \in [connected : BOOLEAN, pending : BOOLEAN, listeners : 0 .. MaxPlugs + 1]
    <3>1. (cable = "in") \in BOOLEAN OBVIOUS
    <3> QED BY <3>1, Constants DEF Init
  <2>2. client \in [Clients -> [state : {"none", "open", "killed"},
                                request : {"idle", "pending", "done"}, view : Statuses]]
    BY DEF Init, Statuses
  <2>3. request \in [state : {"none", "sent", "pending", "done"}, told : {"in", "out"}]
    BY DEF Init
  <2> QED BY <2>1, <2>2, <2>3 DEF Init, TypeOK, Types, Statuses
<1>2. Counted /\ CallbackOpened
  BY Constants DEF Init, Counted, CallbackOpened, One
<1>3. Agrees(Manager) BY DEF Init, Agrees, Manager, NoLayer, PortStatus
<1> QED BY <1>1, <1>2, <1>3 DEF Init, IInv

LEMMA PlugIInv ==
  ASSUME IInv, limit = "no", Plug
  PROVE  IInv'
<1>1. TypeOK' BY Constants DEF IInv, TypeOK, Plug, starterVars, managerVars
<1>2. Counted' BY Constants DEF IInv, TypeOK, Counted, One, Plug, starterVars
<1>3. CallbackOpened' BY DEF IInv, CallbackOpened, Plug
<1>4. Agrees(Manager)' BY DEF IInv, Plug, managerVars, Manager, Agrees
<1> QED BY <1>1, <1>2, <1>3, <1>4 DEF IInv, Plug

LEMMA BootIInv ==
  ASSUME IInv, limit = "no", Boot
  PROVE  IInv'
<1> DEFINE type == IF cable = "in" THEN "usb" ELSE "xti"
<1>1. PICK opens \in BOOLEAN : Becomes(StartTyped(Manager, type, opens))
  BY DEF Boot
<1>2. Manager \in Managers /\ Agrees(Manager) BY ManagerType DEF IInv
<1>3. Manager.layer = NoLayer => ~Manager.debugging
  BY <1>2 DEF Agrees, NoLayer
<1>4. type \in Types BY DEF Types
<1>5. /\ StartTyped(Manager, type, opens) \in Managers
      /\ Agrees(StartTyped(Manager, type, opens))
  BY <1>2, <1>3, <1>4, StartTypedAgrees
<1>6. Counted'
  BY DEF IInv, TypeOK, Counted, One, Boot, bounded, Launched
<1>7. /\ starter' \in [connected : BOOLEAN, pending : BOOLEAN, listeners : 0 .. MaxPlugs + 1]
      /\ request' \in [state : {"none", "sent", "pending", "done"}, told : {"in", "out"}]
      /\ news' \in BOOLEAN /\ missed' \in BOOLEAN
  BY DEF IInv, TypeOK, Boot
<1>8. /\ client' \in [Clients -> [state : {"none", "open", "killed"},
                                 request : {"idle", "pending", "done"}, view : Statuses]]
      /\ \A c \in Clients : client'[c].state = client[c].state
  BY DEF IInv, TypeOK, Boot
<1> QED BY <1>1, <1>5, <1>6, <1>7, <1>8, ManagerStep DEF Boot

LEMMA NotifyCounts ==
  ASSUME IInv, limit = "no", NEW state \in {"in", "out"}, Notify(state),
         news, news' = FALSE, plugs' = plugs, limit' = limit
  PROVE  /\ starter' \in [connected : BOOLEAN, pending : BOOLEAN, listeners : 0 .. MaxPlugs + 1]
         /\ request' \in [state : {"none", "sent", "pending", "done"}, told : {"in", "out"}]
         /\ missed' \in BOOLEAN
         /\ Counted'
<1> DEFINE now == state = "in"
<1>1. now \in BOOLEAN OBVIOUS
<1>2. CASE starter.pending
  <2>1. /\ request' = [state |-> "done", told |-> state] /\ missed' = FALSE
        /\ starter' = [starter EXCEPT !.pending = FALSE, !.connected = now]
    BY <1>2 DEF Notify
  <2>2. request.state = "pending" /\ starter.listeners \in Nat /\ plugs \in 0..MaxPlugs
    BY <1>2 DEF IInv, TypeOK, Counted
  <2> HIDE DEF now
  <2>3. /\ starter' \in [connected : BOOLEAN, pending : BOOLEAN, listeners : 0 .. MaxPlugs + 1]
        /\ starter'.listeners = starter.listeners /\ starter'.pending = FALSE
    BY <1>1, <2>1 DEF IInv, TypeOK
  <2>4. starter.listeners + 1 <= plugs + 1 BY <2>2 DEF IInv, Counted, One
  <2>5. Counted' BY <2>1, <2>2, <2>3, <2>4 DEF Counted, One
  <2> QED BY <2>1, <2>3, <2>5
<1>3. CASE ~starter.pending
  <2>1. /\ request' = request /\ missed' = TRUE
        /\ starter' = [starter EXCEPT !.connected = now]
    BY <1>3 DEF Notify
  <2> HIDE DEF now
  <2> QED BY <1>1, <1>3, <2>1 DEF IInv, TypeOK, Counted, One
<1> QED BY <1>2, <1>3 DEF IInv, TypeOK

LEMMA PortListenerIInv ==
  ASSUME IInv, limit = "no", PortListener
  PROVE  IInv'
<1>1. /\ UNCHANGED <<layer, connType, connStatus, debugging, callback, data, client, plugs, limit,
                     cable>>
      /\ news /\ news' = FALSE
  BY DEF PortListener, managerVars, bounded
<1>2. /\ starter' \in [connected : BOOLEAN, pending : BOOLEAN, listeners : 0 .. MaxPlugs + 1]
      /\ request' \in [state : {"none", "sent", "pending", "done"}, told : {"in", "out"}]
      /\ missed' \in BOOLEAN
      /\ Counted'
  <2>1. CASE cable = "out" \/ ~starter.connected
    <3>1. Notify(cable) BY <2>1 DEF PortListener
    <3> QED BY <1>1, <3>1, NotifyCounts DEF IInv, TypeOK
  <2>2. CASE ~(cable = "out" \/ ~starter.connected)
    <3>1. starter' = starter /\ request' = request /\ missed' = missed
      BY <2>2 DEF PortListener, starterVars
    <3> QED BY <1>1, <3>1 DEF IInv, TypeOK, Counted, One
  <2> QED BY <2>1, <2>2
<1>3. Manager' = Manager BY <1>1 DEF Manager
<1>4. Becomes(Manager) BY <1>1 DEF Becomes, Manager
<1> QED BY <1>1, <1>2, <1>4, ManagerType, ManagerStep DEF IInv, TypeOK

LEMMA ConnNotifyIInv ==
  ASSUME IInv, limit = "no", ConnNotify
  PROVE  IInv'
<1>1. /\ UNCHANGED <<layer, connType, connStatus, debugging, callback, data, client, plugs, limit,
                     cable, news, missed>>
      /\ request.state = "sent" /\ request' = [request EXCEPT !.state = "pending"]
      /\ starter' = [starter EXCEPT !.pending = TRUE, !.listeners = @ + 1]
  BY DEF ConnNotify, managerVars, bounded
<1>2. /\ starter' \in [connected : BOOLEAN, pending : BOOLEAN, listeners : 0 .. MaxPlugs + 1]
      /\ request' \in [state : {"none", "sent", "pending", "done"}, told : {"in", "out"}]
      /\ Counted'
  <2>1. starter.listeners \in Nat /\ plugs \in 0..MaxPlugs BY DEF IInv, TypeOK, Counted
  <2>2. starter.listeners + 1 + One(news) <= plugs + 1
    BY <1>1, <2>1 DEF IInv, Counted, One
  <2>3. starter.listeners + 1 \in 0 .. MaxPlugs + 1
    BY <2>1, <2>2, Constants DEF One
  <2>4. starter' \in [connected : BOOLEAN, pending : BOOLEAN, listeners : 0 .. MaxPlugs + 1]
    BY <1>1, <2>3 DEF IInv, TypeOK
  <2>5. starter'.listeners = starter.listeners + 1 /\ request'.state = "pending"
    BY <1>1 DEF IInv, TypeOK
  <2>6. Counted' BY <1>1, <2>1, <2>2, <2>5 DEF Counted, One
  <2> QED BY <1>1, <2>4, <2>6 DEF IInv, TypeOK
<1>3. Becomes(Manager) BY <1>1 DEF Becomes, Manager
<1> QED BY <1>1, <1>2, <1>3, ManagerType, ManagerStep DEF IInv, TypeOK

(* Hearing of a change, the server asks for the next one.                  *)
LEMMA HeardCounts ==
  ASSUME IInv, limit = "no", NEW state, Heard(state)
  PROVE  /\ starter' \in [connected : BOOLEAN, pending : BOOLEAN, listeners : 0 .. MaxPlugs + 1]
         /\ request' \in [state : {"none", "sent", "pending", "done"}, told : {"in", "out"}]
         /\ cable' = cable /\ news' \in BOOLEAN /\ missed' \in BOOLEAN
         /\ callback' = callback /\ data' = data
         /\ Counted'
<1>1. /\ request.state = "done" /\ request' = [request EXCEPT !.state = "sent"]
      /\ UNCHANGED <<cable, news, starter, missed, callback, data, plugs>>
  BY DEF Heard, bounded
<1> QED BY <1>1 DEF IInv, TypeOK, Counted, One

LEMMA IgnoredIInv ==
  ASSUME IInv, limit = "no", NEW state, Heard(state), IgnoreConnection
  PROVE  IInv'
<1>1. UNCHANGED <<layer, connType, connStatus, debugging, client, limit>>
  BY DEF IgnoreConnection, managerVars
<1>2. Becomes(Manager) BY <1>1 DEF Becomes, Manager
<1> QED BY <1>1, <1>2, HeardCounts, ManagerType, ManagerStep DEF IInv, TypeOK

LEMMA SwitchIInv ==
  ASSUME IInv, limit = "no", NEW state, Heard(state),
         NEW type \in Types, Switch(type), Calls
  PROVE  IInv'
<1> DEFINE halted == StopDebugging(Manager)
<1>1. PICK opens \in BOOLEAN : Becomes(StartTyped(halted, type, opens))
  BY DEF Switch
<1>2. Manager \in Managers /\ Agrees(Manager) BY ManagerType DEF IInv
<1>3. halted \in Managers /\ Agrees(halted)
  BY <1>2, StopAgrees DEF Agrees, NoLayer
<1>4. halted.layer = NoLayer => ~halted.debugging
  BY <1>3 DEF Agrees, NoLayer
<1>5. /\ StartTyped(halted, type, opens) \in Managers
      /\ Agrees(StartTyped(halted, type, opens))
  BY <1>3, <1>4, StartTypedAgrees
<1>6. /\ client' \in [Clients -> [state : {"none", "open", "killed"},
                                 request : {"idle", "pending", "done"}, view : Statuses]]
      /\ \A c \in Clients : client'[c].state = client[c].state
  BY ChangedType DEF Switch
<1> QED BY <1>1, <1>5, <1>6, HeardCounts, CallsType, ManagerStep

LEMMA ConnectionAvailableIInv ==
  ASSUME IInv, limit = "no", ConnectionAvailable
  PROVE  IInv'
<1>1. CASE debugging \/ ~data.plug
  BY <1>1, IgnoredIInv DEF ConnectionAvailable
<1>2. CASE ~(debugging \/ ~data.plug) /\ Hangs
  <2>1. limit' = "hung" /\ UNCHANGED <<layer, connType, connStatus, debugging, client>>
    BY <1>2 DEF ConnectionAvailable, managerVars
  <2>2. Becomes(Manager) BY <2>1 DEF Becomes, Manager
  <2>3. Heard("in") BY DEF ConnectionAvailable
  <2> QED BY <2>1, <2>2, <2>3, HeardCounts, ManagerType, ManagerStep DEF IInv, TypeOK
<1>3. CASE ~(debugging \/ ~data.plug) /\ ~Hangs
  BY <1>3, SwitchIInv DEF ConnectionAvailable, Types
<1> QED BY <1>1, <1>2, <1>3

LEMMA ConnectionUnAvailableIInv ==
  ASSUME IInv, limit = "no", ConnectionUnAvailable
  PROVE  IInv'
BY IgnoredIInv, SwitchIInv DEF ConnectionUnAvailable, Types

-------------------------------------------------------------------------------
(* The port and the host: the manager changes in the layer and the status, *)
(* and nothing is done about the cable.                                    *)
LEMMA PortStep ==
  ASSUME IInv, limit = "no", NEW ms \in Managers, Becomes(ms), Agrees(ms),
         UNCHANGED <<cable, news, starterVars, callback, data, plugs>>,
         limit' \in {"no", "dangling"},
         client' = client \/ client' = Changed(client)
  PROVE  IInv'
<1>1. /\ cable' = cable /\ news' = news /\ starter' = starter /\ request' = request
      /\ missed' = missed /\ callback' = callback /\ data' = data /\ plugs' = plugs
  BY DEF starterVars
<1>2. Counted' BY <1>1 DEF IInv, Counted, One
<1>3. /\ news' \in BOOLEAN /\ missed' \in BOOLEAN
      /\ starter' \in [connected : BOOLEAN, pending : BOOLEAN, listeners : 0 .. MaxPlugs + 1]
      /\ request' \in [state : {"none", "sent", "pending", "done"}, told : {"in", "out"}]
  BY <1>1 DEF IInv, TypeOK
<1>4. /\ client' \in [Clients -> [state : {"none", "open", "killed"},
                                 request : {"idle", "pending", "done"}, view : Statuses]]
      /\ \A c \in Clients : client'[c].state = client[c].state
  BY ChangedType DEF IInv, TypeOK
<1> QED BY <1>1, <1>2, <1>3, <1>4, ManagerStep

LEMMA BtIInv ==
  ASSUME IInv, limit = "no", BtConnected \/ BtFailed
  PROVE  IInv'
<1> DEFINE ms == [layer |-> layer', type |-> connType', status |-> connStatus',
                  debugging |-> debugging']
<1>1. /\ layer.port = "discovering" /\ connType' = connType /\ debugging' = debugging
      /\ \/ layer' = [layer EXCEPT !.port = "listening"] /\ connStatus' = "connected"
         \/ layer' = [layer EXCEPT !.port = "failed"] /\ connStatus' = "error"
  BY DEF BtConnected, BtFailed
<1>2. layer \in Layers /\ connType \in Types /\ debugging \in BOOLEAN
      /\ ~debugging /\ ~layer.session
  BY <1>1 DEF IInv, TypeOK, Layers, PortStates, Agrees, Manager
<1>3. ms \in Managers /\ Agrees(ms)
  BY <1>1, <1>2 DEF Layers, NoLayer, PortStates, Managers, Agrees, PortStatus, Statuses
<1>4. Becomes(ms) BY DEF Becomes
<1>5. /\ UNCHANGED <<cable, news, starterVars, callback, data, plugs>>
      /\ client' = Changed(client) /\ Calls
  BY DEF BtConnected, BtFailed, bounded
<1> QED BY <1>3, <1>4, <1>5, CallsType, PortStep

LEMMA HostIInv ==
  ASSUME IInv, limit = "no", DoConnect \/ DoDisconnect
  PROVE  IInv'
<1> DEFINE ms == [layer |-> layer', type |-> connType', status |-> connStatus',
                  debugging |-> debugging']
<1>1. /\ layer.port = "listening" /\ connType' = connType /\ connStatus' = connStatus
      /\ \/ layer' = [layer EXCEPT !.session = TRUE] /\ debugging' = TRUE
         \/ layer' = [layer EXCEPT !.session = FALSE] /\ debugging' = debugging
         \/ layer' = [layer EXCEPT !.session = FALSE] /\ debugging' = FALSE
  BY DEF DoConnect, DoDisconnect
<1>2. /\ layer \in Layers /\ connType \in Types /\ debugging \in BOOLEAN
      /\ connStatus = "connected"
  BY <1>1 DEF IInv, TypeOK, Layers, PortStates, Agrees, Manager, PortStatus
<1>3. ms \in Managers /\ Agrees(ms)
  <2>1. layer \in [type : Types, port : PortStates, session : BOOLEAN]
    BY <1>1, <1>2 DEF Layers, NoLayer
  <2>2. /\ layer' \in [type : Types, port : PortStates, session : BOOLEAN]
        /\ layer'.port = "listening" /\ debugging' \in BOOLEAN
        /\ layer'.session => debugging'
    BY <1>1, <1>2, <2>1
  <2> QED BY <1>1, <1>2, <2>2 DEF Layers, Managers, Agrees, PortStatus, Statuses
<1>4. Becomes(ms) BY DEF Becomes
<1>5. /\ UNCHANGED <<cable, news, starterVars, callback, data, plugs, client>>
      /\ limit' \in {"no", "dangling"}
  BY CallsType DEF DoConnect, DoDisconnect, bounded
<1> QED BY <1>3, <1>4, <1>5, PortStep

-------------------------------------------------------------------------------
(* The applications.                                                       *)
LEMMA OpenIInv ==
  ASSUME IInv, limit = "no", NEW c \in Clients,
         Open(c) \/ Listen(c) \/ Refresh(c) \/ Close(c) \/ Die(c)
  PROVE  IInv'
<1>1. UNCHANGED <<cable, news, starterVars, managerVars, data, plugs>> /\ limit' = limit
  BY DEF Open, Listen, Refresh, Close, Die, bounded
<1>2. callback' \in Clients \cup {NoClient}
  BY DEF IInv, TypeOK, Open, Listen, Refresh, Close, Die
<1>3. client' \in [Clients -> [state : {"none", "open", "killed"},
                              request : {"idle", "pending", "done"}, view : Statuses]]
  BY DEF IInv, TypeOK, Open, Listen, Refresh, Close, Die
<1>4. CallbackOpened'
  BY Constants DEF IInv, TypeOK, CallbackOpened, Open, Listen, Refresh, Close, Die, Alive
<1> QED BY <1>1, <1>2, <1>3, <1>4, ApplicationStep

LEMMA ConnectIInv ==
  ASSUME IInv, limit = "no", NEW c \in Clients, Connect(c)
  PROVE  IInv'
<1> DEFINE bare == [Manager EXCEPT !.layer = NoLayer]
<1>1. PICK opens \in BOOLEAN :
        /\ Becomes(Start(bare, opens))
        /\ client' = [client EXCEPT ![c].view = Start(bare, opens).status]
  BY DEF Connect
<1>2. bare \in Managers /\ bare.layer = NoLayer /\ bare.debugging = debugging
  BY ManagerType DEF IInv, Managers, Layers, Manager
<1>3. data.type \in Types BY Constants DEF IInv
<1>4. /\ Start(bare, opens) \in Managers
      /\ ~debugging => Agrees(Start(bare, opens))
  BY <1>2, <1>3, StartAgrees
<1>5. /\ UNCHANGED <<cable, news, callback, data, plugs>>
      /\ starter' = starter /\ request' = request /\ missed' = missed
      /\ limit' = IF layer.port \in {"discovering", "listening"} THEN "two layers" ELSE limit
  BY DEF Connect, starterVars
<1>6. limit' # "two layers" => ~debugging
  BY <1>5 DEF IInv, Agrees, Manager
<1>7. /\ client' \in [Clients -> [state : {"none", "open", "killed"},
                                 request : {"idle", "pending", "done"}, view : Statuses]]
      /\ \A d \in Clients : client'[d].state = client[d].state
  <2>1. Start(bare, opens).status \in Statuses BY <1>4 DEF Managers
  <2> HIDE DEF bare
  <2> QED BY <1>1, <2>1 DEF IInv, TypeOK
<1>8. Counted' BY <1>5 DEF IInv, Counted, One
<1>9. /\ news' \in BOOLEAN /\ missed' \in BOOLEAN
      /\ starter' \in [connected : BOOLEAN, pending : BOOLEAN, listeners : 0 .. MaxPlugs + 1]
      /\ request' \in [state : {"none", "sent", "pending", "done"}, told : {"in", "out"}]
  BY <1>5 DEF IInv, TypeOK
<1> HIDE DEF bare
<1> QED BY <1>1, <1>4, <1>5, <1>6, <1>7, <1>8, <1>9, ManagerStep

LEMMA DisConnectIInv ==
  ASSUME IInv, limit = "no", NEW c \in Clients, DisConnect(c)
  PROVE  IInv'
<1>1. /\ UNCHANGED <<cable, callback, data, plugs>>
      /\ news' = news /\ starter' = starter /\ request' = request /\ missed' = missed
  BY DEF DisConnect, starterVars, bounded
<1>2. PICK ms \in Managers : Becomes(ms) /\ Agrees(ms)
  <2>1. Manager \in Managers /\ Agrees(Manager) BY ManagerType DEF IInv
  <2>2. CASE Hangs
    <3>1. Becomes(Manager) BY <2>2 DEF DisConnect, managerVars, Becomes, Manager
    <3> QED BY <2>1, <3>1
  <2>3. CASE ~Hangs
    <3>1. Becomes(StopDebugging(Manager)) BY <2>3 DEF DisConnect
    <3>2. Manager.layer = NoLayer => ~Manager.debugging BY <2>1 DEF Agrees, NoLayer
    <3> QED BY <2>1, <3>1, <3>2, StopAgrees
  <2> QED BY <2>2, <2>3
<1>3. /\ client' \in [Clients -> [state : {"none", "open", "killed"},
                                 request : {"idle", "pending", "done"}, view : Statuses]]
      /\ \A d \in Clients : client'[d].state = client[d].state
  BY DEF DisConnect, IInv, TypeOK, Statuses
<1>4. limit' \in {"no", "hung", "dangling"}
  BY CallsType DEF DisConnect
<1>5. Counted' BY <1>1 DEF IInv, Counted, One
<1>6. /\ news' \in BOOLEAN /\ missed' \in BOOLEAN
      /\ starter' \in [connected : BOOLEAN, pending : BOOLEAN, listeners : 0 .. MaxPlugs + 1]
      /\ request' \in [state : {"none", "sent", "pending", "done"}, told : {"in", "out"}]
  BY <1>1 DEF IInv, TypeOK
<1> QED BY <1>1, <1>2, <1>3, <1>4, <1>5, <1>6, ManagerStep

LEMMA ShutDownIInv ==
  ASSUME IInv, limit = "no", ShutDown
  PROVE  IInv'
<1>1. /\ UNCHANGED <<cable, callback, data, plugs, client>>
      /\ news' = news /\ request' = request /\ missed' = missed
      /\ limit' \in {"hung", "down"}
  BY DEF ShutDown, bounded
<1>2. PICK ms \in Managers : Becomes(ms) /\ Agrees(ms)
  <2>1. Manager \in Managers /\ Agrees(Manager) BY ManagerType DEF IInv
  <2>2. CASE Hangs
    <3>1. Becomes(Manager) BY <2>2 DEF ShutDown, managerVars, Becomes, Manager
    <3> QED BY <2>1, <3>1
  <2>3. CASE ~Hangs
    <3>1. Becomes(StopDebugging(Manager)) BY <2>3 DEF ShutDown
    <3>2. Manager.layer = NoLayer => ~Manager.debugging BY <2>1 DEF Agrees, NoLayer
    <3> QED BY <2>1, <3>1, <3>2, StopAgrees
  <2> QED BY <2>2, <2>3
<1>3. /\ starter' \in [connected : BOOLEAN, pending : BOOLEAN, listeners : 0 .. MaxPlugs + 1]
      /\ starter'.pending => starter.pending
  <2>1. \A n \in 0 .. MaxPlugs + 1 : n \div 2 \in 0 .. MaxPlugs + 1 BY Constants
  <2> QED BY <2>1 DEF ShutDown, IInv, TypeOK
<1>4. /\ news' \in BOOLEAN /\ missed' \in BOOLEAN
      /\ request' \in [state : {"none", "sent", "pending", "done"}, told : {"in", "out"}]
  BY <1>1 DEF IInv, TypeOK
<1>5. Counted' BY <1>1, <1>3 DEF IInv, Counted
<1>6. /\ client' \in [Clients -> [state : {"none", "open", "killed"},
                                 request : {"idle", "pending", "done"}, view : Statuses]]
  BY <1>1 DEF IInv, TypeOK
<1> QED BY <1>1, <1>2, <1>3, <1>4, <1>5, <1>6, ManagerStep

-------------------------------------------------------------------------------
LEMMA NextIInv == IInv /\ [Next]_vars => IInv'
<1> SUFFICES ASSUME IInv, [Next]_vars PROVE IInv'
  OBVIOUS
<1>1. CASE Next
  <2>1. limit = "no" BY <1>1 DEF Next
  <2> QED
    BY <1>1, <2>1, PlugIInv, BootIInv, PortListenerIInv, ConnNotifyIInv, ConnectionAvailableIInv,
       ConnectionUnAvailableIInv, BtIInv, HostIInv, ShutDownIInv, OpenIInv, ConnectIInv,
       DisConnectIInv DEF Next
<1>2. CASE UNCHANGED vars
  <2>1. /\ cable' = cable /\ news' = news /\ missed' = missed /\ starter' = starter
        /\ request' = request /\ plugs' = plugs /\ limit' = limit /\ callback' = callback
        /\ client' = client /\ data' = data
        /\ layer' = layer /\ connType' = connType /\ connStatus' = connStatus
        /\ debugging' = debugging
    BY <1>2 DEF vars, starterVars, managerVars, bounded
  <2>2. TypeOK'
    <3>1. TypeOK BY DEF IInv
    <3>2. layer' = NoLayer \/ layer' \in [type : Types, port : PortStates, session : BOOLEAN]
      BY <2>1, <3>1 DEF TypeOK, PortStates
    <3>3. /\ cable' \in {"in", "out"} /\ news' \in BOOLEAN /\ missed' \in BOOLEAN
          /\ starter' \in [connected : BOOLEAN, pending : BOOLEAN, listeners : 0 .. MaxPlugs + 1]
          /\ request' \in [state : {"none", "sent", "pending", "done"}, told : {"in", "out"}]
      BY <2>1, <3>1 DEF TypeOK
    <3>4. /\ connType' \in Types /\ connStatus' \in Statuses /\ debugging' \in BOOLEAN
          /\ callback' \in Clients \union {NoClient}
          /\ client' \in [Clients -> [state : {"none", "open", "killed"},
                                      request : {"idle", "pending", "done"}, view : Statuses]]
          /\ limit' \in {"no", "hung", "dangling", "two layers", "down"}
      BY <2>1, <3>1 DEF TypeOK
    <3> QED BY <3>2, <3>3, <3>4 DEF TypeOK, PortStates
  <2>3. Counted' /\ CallbackOpened' BY <2>1 DEF IInv, Counted, One, CallbackOpened
  <2>4. Manager' = Manager BY <2>1 DEF Manager
  <2> QED BY <2>1, <2>2, <2>3, <2>4 DEF IInv, Agrees
<1> QED BY <1>1, <1>2

LEMMA Invariant == Spec => []IInv
BY InitIInv, NextIInv, PTL DEF Spec

(* The values stay those the sources name, and a server never registers    *)
(* with the starter more often than the cable has changed, and once more.  *)
THEOREM TypeCorrect == Spec => []TypeOK
<1>1. IInv => TypeOK BY DEF IInv
<1> QED BY <1>1, Invariant, PTL

(* However the cable, the Bluetooth search, the commands of the            *)
(* applications and the host follow each other: the status the manager     *)
(* keeps for the applications is what the port is doing.                   *)
THEOREM StatusIsTruthful == Spec => []StatusTruthful
<1>1. IInv => StatusTruthful BY DEF IInv, Agrees, Manager, StatusTruthful
<1> QED BY <1>1, Invariant, PTL

(* A session of the host is known to the manager, which is left alone when *)
(* the cable changes; and the callback is an application that was there.   *)
THEOREM SessionIsKnown == Spec => []SessionKnown
<1>1. ASSUME IInv PROVE SessionKnown
  <2>1. CASE limit = "two layers"
    BY <1>1, <2>1 DEF IInv, CallbackOpened, SessionKnown
  <2>2. CASE limit # "two layers"
    <3>1. /\ Manager.layer = layer /\ Manager.debugging = debugging /\ Agrees(Manager)
      BY <1>1, <2>2 DEF IInv, Manager
    <3>2. (layer.session => debugging) /\ (layer = NoLayer => ~debugging)
      BY <3>1 DEF Agrees, NoLayer
    <3> QED BY <1>1, <3>2 DEF IInv, CallbackOpened, SessionKnown
  <2> QED BY <2>1, <2>2
<1> QED BY <1>1, Invariant, PTL

-------------------------------------------------------------------------------
(* The debug session.                                                      *)

Events == [kind : {"stop", "load", "added"}, of : Procs]
Entries == [of : Procs, ready : BOOLEAN, signalled : BOOLEAN, active : BOOLEAN]

Typed ==
  /\ debug \in Seq(Entries) /\ kdebug \in Seq(Procs) /\ queue \in Seq(Events)
  /\ life \in [Procs -> {"none", "run", "dead"}]

(* The entries of the driver for a process.                                *)
Places(p) == {i \in DOMAIN kdebug : kdebug[i] = p}

(* The driver has an entry for each one of the agent, unless the process   *)
(* is protected or has ended.                                              *)
Enough ==
  connected => \A p \in Procs \ Protected :
    life[p] # "dead" => Cardinality(S!Listed(p)) <= Cardinality(Places(p))

SInv == Typed /\ S!Accounted /\ Enough

-------------------------------------------------------------------------------
(* Lists.                                                                  *)

LEMMA FirstIn ==
  ASSUME NEW N \in SUBSET Nat, N # {}
  PROVE  \E i \in N : \A j \in N : i <= j
<1> DEFINE R == {ss \in Nat \X Nat : ss[1] < ss[2]}
<1>1. IsWellFoundedOn(R, Nat) BY NatLessThanWellFounded DEF OpToRel
<1>2. PICK x \in N : \A y \in N : ~(<<y, x>> \in R)
  <2> HIDE DEF R
  <2> QED BY <1>1, WFMin
<1>3. ASSUME NEW y \in N PROVE x <= y
  <2>1. <<y, x>> \notin R BY <1>2
  <2> QED BY <2>1
<1> QED BY <1>3

(* Where a list has one of a set.                                          *)
Hits(list, Q) == {i \in DOMAIN list : list[i] \in Q}

LEMMA OneMore ==
  ASSUME NEW A, IsFiniteSet(A), NEW x, x \notin A
  PROVE  IsFiniteSet(A \cup {x}) /\ Cardinality(A \cup {x}) = Cardinality(A) + 1
BY FS_AddElement

LEMMA AppendHits ==
  ASSUME NEW T, NEW r \in Seq(T), NEW x \in T, NEW Q, IsFiniteSet(Hits(r, Q))
  PROVE  /\ Append(r, x) \in Seq(T) /\ IsFiniteSet(Hits(Append(r, x), Q))
         /\ x \in Q => Cardinality(Hits(Append(r, x), Q)) = Cardinality(Hits(r, Q)) + 1
         /\ x \notin Q => Hits(Append(r, x), Q) = Hits(r, Q)
<1> DEFINE s == Append(r, x)
           n == Len(r) + 1
<1>1. /\ s \in Seq(T) /\ n \in Nat \ {0} /\ DOMAIN r = 1..(n - 1) /\ DOMAIN s = 1..n
      /\ \A i \in 1..(n - 1) : s[i] = r[i]
      /\ s[n] = x
  OBVIOUS
<1> HIDE DEF s, n
<1>2. CASE x \in Q
  <2>3. \A i : i \in 1..n <=> i \in 1..(n - 1) \/ i = n BY <1>1
  <2>4. n \notin 1..(n - 1) BY <1>1
  <2>5. \A i : i \in Hits(s, Q) <=> i \in Hits(r, Q) \/ i = n
    BY <1>1, <1>2, <2>3, <2>4 DEF Hits
  <2>1. Hits(s, Q) = Hits(r, Q) \cup {n} /\ n \notin Hits(r, Q)
    BY <1>1, <2>4, <2>5 DEF Hits
  <2>2. IsFiniteSet(Hits(s, Q)) /\ Cardinality(Hits(s, Q)) = Cardinality(Hits(r, Q)) + 1
    BY <2>1, OneMore
  <2> QED BY <1>1, <1>2, <2>2 DEF s
<1>3. CASE x \notin Q
  <2>1. Hits(s, Q) = Hits(r, Q) BY <1>1, <1>3 DEF Hits
  <2> QED BY <1>1, <1>3, <2>1 DEF s
<1> QED BY <1>2, <1>3

(* Of a list from which places are dropped the other entries stay.         *)
LEMMA DroppingCounts ==
  ASSUME NEW T, NEW list \in Seq(T), NEW places, NEW Q
  PROVE  /\ S!Dropping(list, places) \in Seq(T)
         /\ Cardinality(Hits(S!Dropping(list, places), Q)) = Cardinality(Hits(list, Q) \ places)
<1> DEFINE N == Len(list)
           Is(f, k) == f = [i \in 0..k |-> IF i = 0 THEN <<>>
                                            ELSE IF i \in places THEN f[i - 1]
                                                 ELSE Append(f[i - 1], list[i])]
           Bad == {k \in 0..N : ~\E f : Is(f, k)}
<1>0. N \in Nat /\ DOMAIN list = 1..N /\ \A i \in 1..N : list[i] \in T OBVIOUS
<1> HIDE DEF N
<1>1. Bad = {}
  <2>1. SUFFICES ASSUME Bad # {} PROVE FALSE OBVIOUS
  <2>2. PICK k \in Bad : \A j \in Bad : k <= j
    <3>1. Bad \in SUBSET Nat BY <1>0
    <3> HIDE DEF Bad
    <3> QED BY <2>1, <3>1, FirstIn
  <2>3. k # 0
    <3> DEFINE g == [i \in 0..0 |-> <<>>]
    <3>1. Is(g, 0) BY DEF Is
    <3> QED BY <2>2, <3>1
  <2>4. k - 1 \in 0..N /\ k - 1 \notin Bad
    <3>1. k \in 0..N /\ k - 1 \in 0..N /\ k - 1 < k BY <1>0, <2>2, <2>3
    <3> HIDE DEF Bad
    <3> QED BY <1>0, <2>2, <3>1
  <2>5. PICK f : Is(f, k - 1) BY <2>4
  <2> DEFINE g == [i \in 0..k |-> IF i = k THEN IF k \in places THEN f[k - 1]
                                                ELSE Append(f[k - 1], list[k])
                                   ELSE f[i]]
  <2>6. k \in Nat /\ k >= 1 BY <1>0, <2>2, <2>3
  <2>7. /\ \A i \in 0..(k - 1) : g[i] = f[i]
        /\ g[k] = IF k \in places THEN f[k - 1] ELSE Append(f[k - 1], list[k])
    BY <2>6
  <2>8. \A i \in 0..(k - 1) : f[i] = IF i = 0 THEN <<>>
                                      ELSE IF i \in places THEN f[i - 1]
                                           ELSE Append(f[i - 1], list[i])
    BY <2>5, <2>6 DEF Is
  <2>9. \A i \in 0..k : g[i] = IF i = 0 THEN <<>>
                                ELSE IF i \in places THEN g[i - 1]
                                     ELSE Append(g[i - 1], list[i])
    BY <2>6, <2>7, <2>8
  <2>10. g = [i \in 0..k |-> g[i]] OBVIOUS
  <2> HIDE DEF g
  <2>11. Is(g, k) BY <2>9, <2>10
  <2> QED BY <2>2, <2>11
<1>2. PICK f : Is(f, N)
  <2>1. N \notin Bad BY <1>1
  <2> QED BY <1>0, <2>1
<1> DEFINE kept == CHOOSE h : Is(h, N)
<1>3. Is(kept, N) BY <1>2
<1>4. S!Dropping(list, places) = kept[N] BY DEF S!Dropping, N
<1> HIDE DEF kept
<1>5. \A i \in 0..N : kept[i] = IF i = 0 THEN <<>>
                                ELSE IF i \in places THEN kept[i - 1]
                                     ELSE Append(kept[i - 1], list[i])
  BY <1>0, <1>3 DEF Is
<1> DEFINE From(k) == {i \in 1..k : list[i] \in Q} \ places
           In(r) == Hits(r, Q)
           Right(k) == /\ kept[k] \in Seq(T)
                       /\ IsFiniteSet(In(kept[k])) /\ IsFiniteSet(From(k))
                       /\ Cardinality(In(kept[k])) = Cardinality(From(k))
           Odd == {k \in 0..N : ~Right(k)}
<1>6. Odd = {}
  <2>1. SUFFICES ASSUME Odd # {} PROVE FALSE OBVIOUS
  <2>2. PICK k \in Odd : \A j \in Odd : k <= j
    <3>1. Odd \in SUBSET Nat BY <1>0
    <3> HIDE DEF Odd
    <3> QED BY <2>1, <3>1, FirstIn
  <2>3. k \in 0..N /\ ~Right(k) BY <2>2
  <2>4. CASE k = 0
    <3>1. kept[k] = <<>> BY <1>5, <2>3, <2>4
    <3>2. <<>> \in Seq(T) /\ In(<<>>) = {} /\ From(0) = {} BY DEF Hits
    <3> QED BY <2>3, <2>4, <3>1, <3>2, FS_EmptySet
  <2>5. CASE k # 0
    <3>1. k - 1 \in 0..N /\ k - 1 < k /\ k \in 1..N BY <1>0, <2>3, <2>5
    <3>2. Right(k - 1)
      <4>1. k - 1 \notin Odd
        <5> HIDE DEF Odd
        <5> QED BY <1>0, <2>2, <2>3, <3>1
      <4> QED BY <3>1, <4>1
    <3>3. list[k] \in T BY <1>0, <3>1
    <3> DEFINE r == kept[k - 1]
    <3>4. r \in Seq(T) /\ Len(r) \in Nat /\ DOMAIN r = 1..Len(r) BY <3>2
    <3>5. CASE k \in places
      <4>1. kept[k] = r BY <1>5, <2>3, <2>5, <3>5
      <4>2. From(k) = From(k - 1) BY <1>0, <3>1, <3>5
      <4> QED BY <2>3, <3>2, <4>1, <4>2
    <3>6. CASE k \notin places
      <4>1. kept[k] = Append(r, list[k]) BY <1>5, <2>3, <2>5, <3>6
      <4> HIDE DEF r
      <4>2. /\ kept[k] \in Seq(T) /\ IsFiniteSet(In(kept[k]))
            /\ list[k] \in Q => Cardinality(In(kept[k])) = Cardinality(In(r)) + 1
            /\ list[k] \notin Q => In(kept[k]) = In(r)
        <5>1. IsFiniteSet(Hits(r, Q)) BY <3>2 DEF r
        <5> HIDE DEF kept
        <5> QED BY <3>3, <3>4, <4>1, <5>1, AppendHits
      <4>5. In(r) = In(kept[k - 1]) BY DEF r
      <4>3. CASE list[k] \in Q
        <5>2. From(k) = From(k - 1) \cup {k} /\ k \notin From(k - 1)
          BY <1>0, <3>1, <3>6, <4>3
        <5>3. IsFiniteSet(From(k - 1)) BY <3>2
        <5> HIDE DEF In, From
        <5>4. /\ IsFiniteSet(From(k)) /\ Cardinality(From(k)) = Cardinality(From(k - 1)) + 1
          BY <5>2, <5>3, OneMore
        <5> QED BY <2>3, <3>2, <4>2, <4>3, <4>5, <5>4
      <4>4. CASE list[k] \notin Q
        <5>2. From(k) = From(k - 1) BY <1>0, <3>1, <4>4
        <5> HIDE DEF In, From
        <5> QED BY <2>3, <3>2, <4>2, <4>4, <4>5, <5>2
      <4> QED BY <4>3, <4>4
    <3> QED BY <3>5, <3>6
  <2> QED BY <2>4, <2>5
<1>7. Right(N)
  <2>1. N \in 0..N BY <1>0
  <2>2. N \notin Odd
    <3> HIDE DEF Odd
    <3> QED BY <1>6
  <2> HIDE DEF Right
  <2> QED BY <2>1, <2>2
<1>8. From(N) = Hits(list, Q) \ places BY <1>0 DEF Hits
<1> QED BY <1>4, <1>7, <1>8

(* An entry more.                                                          *)
LEMMA AppendCounts ==
  ASSUME NEW T, NEW list \in Seq(T), NEW e \in T, NEW Q
  PROVE  /\ Append(list, e) \in Seq(T)
         /\ Cardinality(Hits(list, Q)) \in Nat
         /\ Cardinality(Hits(Append(list, e), Q))
              = IF e \in Q THEN Cardinality(Hits(list, Q)) + 1 ELSE Cardinality(Hits(list, Q))
<1> DEFINE In(r) == Hits(r, Q)
           n == Len(list)
           r == Append(list, e)
<1>1. /\ n \in Nat /\ DOMAIN list = 1..n /\ DOMAIN r = 1..(n + 1) /\ r \in Seq(T)
      /\ \A i \in 1..n : r[i] = list[i]
      /\ r[n + 1] = e
  OBVIOUS
<1> HIDE DEF n, r
<1>2. IsFiniteSet(In(list))
  <2>1. IsFiniteSet(1..n) BY <1>1, FS_Interval
  <2> QED BY <1>1, <2>1, FS_Subset DEF Hits
<1>3. Cardinality(In(list)) \in Nat BY <1>2, FS_CardinalityType
<1>4. CASE e \in Q
  <2>1. In(r) = In(list) \cup {n + 1} /\ n + 1 \notin In(list) BY <1>1, <1>4 DEF Hits
  <2>2. Cardinality(In(r)) = Cardinality(In(list)) + 1
    <3> HIDE DEF In
    <3> QED BY <1>2, <2>1, FS_AddElement
  <2> QED BY <1>1, <1>3, <1>4, <2>2 DEF r
<1>5. CASE e \notin Q
  <2>1. In(r) = In(list) BY <1>1, <1>5 DEF Hits
  <2> QED BY <1>1, <1>3, <1>5, <2>1 DEF r
<1> QED BY <1>4, <1>5

(* The entries of the agent and of the driver, as the sets counted above.  *)
Of(p) == {e \in Entries : e.of = p}

LEMMA Listing ==
  ASSUME Typed, NEW p
  PROVE  /\ S!Listed(p) = Hits(debug, Of(p)) /\ Places(p) = Hits(kdebug, {p})
         /\ IsFiniteSet(S!Listed(p)) /\ Cardinality(S!Listed(p)) \in Nat
         /\ IsFiniteSet(Places(p)) /\ Cardinality(Places(p)) \in Nat
<1>1. /\ Len(debug) \in Nat /\ DOMAIN debug = 1..Len(debug)
      /\ Len(kdebug) \in Nat /\ DOMAIN kdebug = 1..Len(kdebug)
      /\ \A i \in DOMAIN debug : debug[i] \in Entries
  BY DEF Typed
<1>2. IsFiniteSet(DOMAIN debug) /\ IsFiniteSet(DOMAIN kdebug) BY <1>1, FS_Interval
<1>3. S!Listed(p) \subseteq DOMAIN debug /\ Places(p) \subseteq DOMAIN kdebug
  BY DEF S!Listed, Places
<1>4. IsFiniteSet(S!Listed(p)) /\ IsFiniteSet(Places(p)) BY <1>2, <1>3, FS_Subset
<1>5. S!Listed(p) = Hits(debug, Of(p)) BY <1>1 DEF S!Listed, Of, Hits
<1>6. Places(p) = Hits(kdebug, {p}) BY DEF Places, Hits
<1> QED BY <1>4, <1>5, <1>6, FS_CardinalityType

(* Places dropped from the driver's list: an ended or detached process     *)
(* loses one entry, the others none.                                       *)
LEMMA FirstDropped ==
  ASSUME Typed, NEW P, kdebug' = S!Dropping(kdebug, S!FirstOf(P))
  PROVE  /\ kdebug' \in Seq(Procs)
         /\ \A p \in Procs : /\ Cardinality(Places(p)') \in Nat
                             /\ p \notin P => Cardinality(Places(p)') = Cardinality(Places(p))
                             /\ Cardinality(Places(p)') >= Cardinality(Places(p)) - 1
<1>1. kdebug \in Seq(Procs) BY DEF Typed
<1>2. kdebug' \in Seq(Procs) BY <1>1, DroppingCounts
<1>3. ASSUME NEW p \in Procs
      PROVE  /\ Cardinality(Places(p)') \in Nat
             /\ p \notin P => Cardinality(Places(p)') = Cardinality(Places(p))
             /\ Cardinality(Places(p)') >= Cardinality(Places(p)) - 1
  <2>1. Places(p)' = Hits(kdebug', {p}) BY DEF Places, Hits
  <2>2. Cardinality(Places(p)') = Cardinality(Places(p) \ S!FirstOf(P))
    <3> DEFINE Q == {p}
    <3>1. Places(p) = Hits(kdebug, Q) /\ Places(p)' = Hits(kdebug', Q) BY <2>1, Listing
    <3> HIDE DEF Q
    <3>2. Cardinality(Hits(kdebug', Q)) = Cardinality(Hits(kdebug, Q) \ S!FirstOf(P))
      BY <1>1, DroppingCounts
    <3> QED BY <3>1, <3>2
  <2>3. IsFiniteSet(Places(p)) /\ Cardinality(Places(p)) \in Nat BY Listing
  <2>4. CASE p \notin P
    <3>1. Places(p) \ S!FirstOf(P) = Places(p) BY <2>4 DEF Places, S!FirstOf
    <3> QED BY <2>2, <2>3, <3>1
  <2>5. CASE Places(p) \cap S!FirstOf(P) = {}
    <3>1. Places(p) \ S!FirstOf(P) = Places(p) BY <2>5
    <3> QED BY <2>2, <2>3, <3>1
  <2>6. CASE p \in P /\ Places(p) \cap S!FirstOf(P) # {}
    <3>1. PICK i \in Places(p) : i \in S!FirstOf(P) BY <2>6
    <3>2. \A j \in Places(p) : j \in S!FirstOf(P) => j = i
      <4>1. DOMAIN kdebug = 1..Len(kdebug) /\ Len(kdebug) \in Nat BY <1>1
      <4> SUFFICES ASSUME NEW j \in Places(p), j \in S!FirstOf(P), j # i PROVE FALSE OBVIOUS
      <4>2. i \in Nat /\ j \in Nat /\ i >= 1 /\ j >= 1 /\ kdebug[i] = kdebug[j]
        BY <3>1, <4>1 DEF Places
      <4>3. i \notin 1..(j - 1) /\ j \notin 1..(i - 1)
        BY <3>1, <4>2 DEF S!FirstOf
      <4> QED BY <4>2, <4>3
    <3>3. Places(p) \ S!FirstOf(P) = Places(p) \ {i} BY <3>1, <3>2
    <3>4. Cardinality(Places(p) \ {i}) = Cardinality(Places(p)) - 1
      BY <2>3, <3>1, FS_RemoveElement
    <3>5. Cardinality(Places(p)) # 0 BY <2>3, <3>1, FS_EmptySet
    <3> QED BY <2>2, <2>3, <2>6, <3>3, <3>4, <3>5
  <2> QED BY <2>4, <2>5, <2>6
<1> QED BY <1>2, <1>3

(* The loop that passes over every second entry takes one at least.        *)
LEMMA EachDropped ==
  ASSUME Typed, NEW p, debug' = S!WithoutEach(debug, p)
  PROVE  /\ debug' \in Seq(Entries)
         /\ \A q : /\ Cardinality(S!Listed(q)') \in Nat
                   /\ Cardinality(S!Listed(q)') <= Cardinality(S!Listed(q))
         /\ \/ Cardinality(S!Listed(p)') = 0
            \/ Cardinality(S!Listed(p)') <= Cardinality(S!Listed(p)) - 1
<1> DEFINE D == {i \in DOMAIN debug :
                    \E first \in 1..i :
                      /\ (i - first) % 2 = 0
                      /\ \A j \in first..i : debug[j].of = p
                      /\ first > 1 => debug[first - 1].of # p}
<1>1. /\ debug \in Seq(Entries) /\ debug' = S!Dropping(debug, D)
      /\ DOMAIN debug = 1..Len(debug) /\ Len(debug) \in Nat
  BY DEF Typed, S!WithoutEach
<1>2. ~(p \in {}) OBVIOUS
<1> HIDE DEF D
<1>3. debug' \in Seq(Entries) BY <1>1, DroppingCounts
<1>4. ASSUME NEW q
      PROVE  /\ Cardinality(S!Listed(q)') = Cardinality(S!Listed(q) \ D)
             /\ IsFiniteSet(S!Listed(q) \ D) /\ Cardinality(S!Listed(q) \ D) \in Nat
             /\ Cardinality(S!Listed(q) \ D) <= Cardinality(S!Listed(q))
  <2>1. \A i \in DOMAIN debug' : debug'[i] \in Entries BY <1>3
  <2>2. S!Listed(q)' = Hits(debug', Of(q)) BY <2>1 DEF S!Listed, Of, Hits
  <2>3. S!Listed(q) = Hits(debug, Of(q)) /\ IsFiniteSet(S!Listed(q))
    BY Listing
  <2>4. Cardinality(S!Listed(q)') = Cardinality(S!Listed(q) \ D)
    BY <1>1, <2>2, <2>3, DroppingCounts
  <2>5. S!Listed(q) \ D \subseteq S!Listed(q) OBVIOUS
  <2> QED BY <2>3, <2>4, <2>5, FS_Subset, FS_CardinalityType
<1>5. CASE S!Listed(p) = {}
  <2>1. S!Listed(p) \ D = {} BY <1>5
  <2>2. Cardinality(S!Listed(p)') = 0 BY <1>4, <2>1, FS_EmptySet
  <2>3. \A q : /\ Cardinality(S!Listed(q)') \in Nat
               /\ Cardinality(S!Listed(q)') <= Cardinality(S!Listed(q))
    BY <1>4
  <2> QED BY <1>3, <2>2, <2>3
<1>6. CASE S!Listed(p) # {}
  <2>1. S!Listed(p) \in SUBSET Nat BY <1>1 DEF S!Listed
  <2>2. PICK m \in S!Listed(p) : \A j \in S!Listed(p) : m <= j
    BY <1>6, <2>1, FirstIn
  <2>3. m \in 1..Len(debug) /\ debug[m].of = p BY <1>1, <2>2 DEF S!Listed
  <2>4. m \in D
    <3>1. (m - m) % 2 = 0 BY <2>3
    <3>2. \A j \in m..m : debug[j].of = p BY <2>3
    <3>3. m > 1 => debug[m - 1].of # p
      <4>1. CASE m > 1
        <5>1. m - 1 \in DOMAIN debug /\ ~(m <= m - 1) BY <1>1, <2>3, <4>1
        <5> QED BY <2>2, <5>1 DEF S!Listed
      <4> QED BY <4>1
    <3> QED BY <1>1, <2>3, <3>1, <3>2, <3>3 DEF D
  <2>5. S!Listed(p) \ D \subseteq S!Listed(p) \ {m} BY <2>4
  <2>6. IsFiniteSet(S!Listed(p)) BY Listing
  <2>7. /\ IsFiniteSet(S!Listed(p) \ {m})
        /\ Cardinality(S!Listed(p) \ {m}) = Cardinality(S!Listed(p)) - 1
    BY <2>2, <2>6, FS_RemoveElement
  <2>8. Cardinality(S!Listed(p) \ D) <= Cardinality(S!Listed(p)) - 1
    BY <2>5, <2>7, FS_Subset
  <2> QED BY <1>3, <1>4, <2>8
<1> QED BY <1>5, <1>6

-------------------------------------------------------------------------------
(* One lemma for each step of the session.                                 *)

LEMMA SessionInit == S!Init => SInv
<1> SUFFICES ASSUME S!Init PROVE SInv OBVIOUS
<1>1. /\ debug = <<>> /\ kdebug = <<>> /\ queue = <<>> /\ held = {} /\ connected = FALSE
      /\ life = [p \in Procs |-> "none"]
  BY DEF S!Init
<1>2. Typed BY <1>1 DEF Typed
<1>3. S!Accounted BY <1>1 DEF S!Accounted
<1> QED BY <1>1, <1>2, <1>3 DEF SInv, Enough

(* An entry of the agent that stays an entry of its process.               *)
LEMMA EntriesStay ==
  ASSUME Typed,
         debug' = [i \in DOMAIN debug |-> debug'[i]],
         \A i \in DOMAIN debug : debug'[i] \in Entries /\ debug'[i].of = debug[i].of
  PROVE  debug' \in Seq(Entries) /\ \A q : S!Listed(q)' = S!Listed(q)
<1>1. DOMAIN debug = 1..Len(debug) /\ Len(debug) \in Nat BY DEF Typed
<1>2. DOMAIN debug' = DOMAIN debug OBVIOUS
<1>3. debug' \in [1..Len(debug) -> Entries] BY <1>1, <1>2
<1>4. debug' \in Seq(Entries) BY <1>1, <1>3
<1>5. \A q : S!Listed(q)' = S!Listed(q) BY <1>2 DEF S!Listed
<1> QED BY <1>4, <1>5

LEMMA EnoughStays ==
  ASSUME Enough, connected' => connected, kdebug' = kdebug,
         \A q \in Procs : S!Listed(q)' = S!Listed(q),
         \A q \in Procs : life[q] = "dead" => life'[q] = "dead"
  PROVE  Enough'
<1>1. \A q \in Procs : Places(q)' = Places(q) BY DEF Places
<1> QED BY <1>1 DEF Enough

LEMMA ListedStay ==
  ASSUME debug' = debug PROVE \A q \in Procs : S!Listed(q)' = S!Listed(q)
BY DEF S!Listed

LEMMA QueueTyped ==
  ASSUME Typed
  PROVE  /\ DOMAIN queue = 1..Len(queue) /\ Len(queue) \in Nat
         /\ S!Queued = {queue[i].of : i \in 1..Len(queue)} /\ S!Queued \subseteq Procs
<1>1. /\ DOMAIN queue = 1..Len(queue) /\ Len(queue) \in Nat
      /\ \A i \in 1..Len(queue) : queue[i] \in Events
  BY DEF Typed
<1> QED BY <1>1 DEF S!Queued, Events

LEMMA Raised ==
  ASSUME Typed, NEW p \in Procs, NEW kind \in {"stop", "load", "added"}, S!Raise(p, kind)
  PROVE  queue' \in Seq(Events) /\ S!Queued' = S!Queued \cup {p} /\ held' = held \cup {p}
<1> DEFINE e == [kind |-> kind, of |-> p]
<1>1. queue' = Append(queue, e) /\ held' = held \cup {p} BY DEF S!Raise
<1>2. e \in Events /\ e.of = p BY DEF Events
<1> HIDE DEF e
<1>3. queue' \in Seq(Events) BY <1>1, <1>2 DEF Typed
<1>4. DOMAIN queue' = 1..(Len(queue) + 1) /\ DOMAIN queue = 1..Len(queue) /\ Len(queue) \in Nat
  BY <1>1 DEF Typed
<1>5. (\A i \in 1..Len(queue) : queue'[i] = queue[i]) /\ queue'[Len(queue) + 1] = e
  BY <1>1 DEF Typed
<1>6. S!Queued' = S!Queued \cup {p} BY <1>2, <1>4, <1>5 DEF S!Queued
<1> QED BY <1>1, <1>3, <1>6

LEMMA HandlerKeeps ==
  ASSUME SInv, NEW p \in Procs, S!HandleException(p) \/ S!AddLibrary(p)
  PROVE  SInv'
<1>1. PICK kind \in {"stop", "load", "added"} :
        S!Raise(p, kind)
  BY DEF S!HandleException, S!AddLibrary
<1>2. /\ debug' = debug /\ kdebug' = kdebug /\ life' = life /\ knows' = knows /\ lost' = lost
      /\ connected' = connected
  BY DEF S!HandleException, S!AddLibrary, S!agentVars
<1>3. Typed BY DEF SInv
<1>4. queue' \in Seq(Events) /\ S!Queued' = S!Queued \cup {p} /\ held' = held \cup {p}
  BY <1>1, <1>3, Raised
<1>5. Typed' BY <1>2, <1>3, <1>4 DEF Typed
<1>6. S!Accounted' BY <1>2, <1>4 DEF SInv, S!Accounted
<1>7. Enough' BY <1>2, EnoughStays, ListedStay DEF SInv
<1> QED BY <1>5, <1>6, <1>7 DEF SInv

LEMMA StartThreadKeeps ==
  ASSUME SInv, NEW p \in Procs, S!StartThread(p)
  PROVE  SInv'
<1>1. /\ debug' = debug /\ kdebug' = kdebug /\ life' = [life EXCEPT ![p] = "run"]
      /\ knows' = knows /\ lost' = lost /\ connected' = connected /\ life[p] = "none"
  BY DEF S!StartThread, S!agentVars
<1>2. Typed BY DEF SInv
<1>3. /\ queue' \in Seq(Events)
      /\ \/ S!Queued' = S!Queued \cup {p} /\ held' = held \cup {p}
         \/ S!Queued' = S!Queued /\ held' = held
  <2>1. CASE connected /\ libOn
    <3>1. S!Raise(p, "added") BY <2>1 DEF S!StartThread
    <3> QED BY <1>2, <3>1, Raised
  <2>2. CASE ~(connected /\ libOn)
    <3>1. queue' = queue /\ held' = held BY <2>2 DEF S!StartThread
    <3> QED BY <1>2, <3>1 DEF Typed, S!Queued
  <2> QED BY <2>1, <2>2
<1>4. Typed' BY <1>1, <1>2, <1>3 DEF Typed
<1>5. S!Accounted' BY <1>1, <1>3 DEF SInv, S!Accounted
<1>6. \A q \in Procs : life[q] = "dead" => life'[q] = "dead" BY <1>1, <1>2 DEF Typed
<1>7. Enough' BY <1>1, <1>6, EnoughStays, ListedStay DEF SInv
<1> QED BY <1>4, <1>5, <1>7 DEF SInv

(* Processes end.                                                          *)
LEMMA DieKeeps ==
  ASSUME SInv, NEW dying, S!Die(dying), queue' = queue, connected' = connected
  PROVE  SInv'
<1>1. /\ life' = [p \in Procs |-> IF p \in dying THEN "dead" ELSE life[p]]
      /\ held' = held \ dying /\ knows' = knows \ dying /\ lost' = lost \ dying
      /\ debug' = [i \in DOMAIN debug |->
                     IF debug[i].of \in dying /\ debug[i].active
                     THEN [debug[i] EXCEPT !.signalled = TRUE] ELSE debug[i]]
      /\ kdebug' = S!Dropping(kdebug, S!FirstOf(dying))
  BY DEF S!Die
<1>2. Typed BY DEF SInv
<1>3. debug' \in Seq(Entries) /\ \A q : S!Listed(q)' = S!Listed(q)
  <2>1. \A i \in DOMAIN debug : debug[i] \in Entries BY <1>2 DEF Typed
  <2>2. \A i \in DOMAIN debug : debug'[i] \in Entries /\ debug'[i].of = debug[i].of
    BY <1>1, <2>1 DEF Entries
  <2>3. debug' = [i \in DOMAIN debug |-> debug'[i]] BY <1>1
  <2> QED BY <1>2, <2>2, <2>3, EntriesStay
<1>4. /\ kdebug' \in Seq(Procs)
      /\ \A p \in Procs : p \notin dying => Cardinality(Places(p)') = Cardinality(Places(p))
  BY <1>1, <1>2, FirstDropped
<1>5. Typed' BY <1>1, <1>2, <1>3, <1>4 DEF Typed
<1>6. S!Accounted' BY <1>1 DEF SInv, S!Accounted, S!Queued
<1>7. Enough'
  <2> SUFFICES ASSUME connected', NEW p \in Procs \ Protected, life'[p] # "dead"
               PROVE  Cardinality(S!Listed(p)') <= Cardinality(Places(p)')
    BY DEF Enough
  <2>1. p \notin dying /\ life[p] # "dead" BY <1>1
  <2> QED BY <1>3, <1>4, <2>1 DEF SInv, Enough
<1> QED BY <1>5, <1>6, <1>7 DEF SInv

LEMMA EndKeeps ==
  ASSUME SInv,
         \/ \E p \in Procs : S!Exit(p) \/ S!DoKillProcessL(p)
         \/ S!StopListening
  PROVE  SInv'
<1>1. queue' = queue /\ connected' = connected
  BY DEF S!Exit, S!DoKillProcessL, S!StopListening
<1>2. PICK dying : S!Die(dying)
  <2>1. CASE \E p \in Procs : S!Exit(p) \/ S!DoKillProcessL(p)
    BY <2>1 DEF S!Exit, S!DoKillProcessL
  <2>2. CASE S!StopListening BY <2>2 DEF S!StopListening
  <2> QED BY <2>1, <2>2
<1> QED BY <1>1, <1>2, DieKeeps

LEMMA EarlyLogonKeeps ==
  ASSUME SInv, NEW i \in DOMAIN debug, S!EarlyLogon(i)
  PROVE  SInv'
<1>1. /\ debug' = [debug EXCEPT ![i].signalled = TRUE] /\ kdebug' = kdebug /\ queue' = queue
      /\ life' = life /\ held' = held /\ knows' = knows /\ lost' = lost /\ connected' = connected
  BY DEF S!EarlyLogon, S!kernelVars, S!targetVars
<1>2. Typed BY DEF SInv
<1>3. debug' \in Seq(Entries) /\ \A q : S!Listed(q)' = S!Listed(q)
  <2>1. \A j \in DOMAIN debug : debug[j] \in Entries BY <1>2 DEF Typed
  <2>2. \A j \in DOMAIN debug : debug'[j] \in Entries /\ debug'[j].of = debug[j].of
    BY <1>1, <2>1 DEF Entries
  <2>3. debug' = [j \in DOMAIN debug |-> debug'[j]] BY <1>1
  <2> QED BY <1>2, <2>2, <2>3, EntriesStay
<1>4. Typed' BY <1>1, <1>2, <1>3 DEF Typed
<1>5. S!Accounted' BY <1>1 DEF SInv, S!Accounted, S!Queued
<1>6. Enough' BY <1>1, <1>3, EnoughStays DEF SInv
<1> QED BY <1>4, <1>5, <1>6 DEF SInv

(* Fewer entries of the agent.                                             *)
LEMMA EnoughFewer ==
  ASSUME Enough, connected' => connected, kdebug' = kdebug, life' = life, Typed,
         \A q \in Procs : /\ Cardinality(S!Listed(q)') \in Nat
                          /\ Cardinality(S!Listed(q)') <= Cardinality(S!Listed(q))
  PROVE  Enough'
<1>1. \A q \in Procs : /\ Places(q)' = Places(q)
                       /\ Cardinality(Places(q)) \in Nat /\ Cardinality(S!Listed(q)) \in Nat
  BY Listing DEF Places
<1> SUFFICES ASSUME connected', NEW q \in Procs \ Protected, life'[q] # "dead"
             PROVE  Cardinality(S!Listed(q)') <= Cardinality(Places(q)')
  BY DEF Enough
<1>2. Cardinality(S!Listed(q)) <= Cardinality(Places(q)) BY DEF Enough
<1> QED BY <1>1, <1>2

LEMMA ExitTrapperKeeps ==
  ASSUME SInv, S!ExitTrapper
  PROVE  SInv'
<1>1. /\ kdebug' = kdebug /\ queue' = queue /\ life' = life /\ held' = held /\ knows' = knows
      /\ lost' = lost /\ connected' = connected
  BY DEF S!ExitTrapper, S!kernelVars, S!targetVars
<1>2. Typed BY DEF SInv
<1>3. PICK i : debug' = IF life[debug[i].of] = "run"
                        THEN [debug EXCEPT ![i].signalled = FALSE, ![i].active = TRUE]
                        ELSE S!WithoutEach(debug, debug[i].of)
  BY DEF S!ExitTrapper
<1>4. S!Accounted' BY <1>1 DEF SInv, S!Accounted, S!Queued
<1>5. debug' \in Seq(Entries) /\ Enough'
  <2>1. CASE life[debug[i].of] = "run"
    <3>1. \A j \in DOMAIN debug : debug[j] \in Entries BY <1>2 DEF Typed
    <3>2. \A j \in DOMAIN debug : debug'[j] \in Entries /\ debug'[j].of = debug[j].of
      BY <1>3, <2>1, <3>1 DEF Entries
    <3>3. debug' = [j \in DOMAIN debug |-> debug'[j]] BY <1>3, <2>1
    <3>4. debug' \in Seq(Entries) /\ \A q : S!Listed(q)' = S!Listed(q)
      BY <1>2, <3>2, <3>3, EntriesStay
    <3> QED BY <1>1, <3>4, EnoughStays DEF SInv
  <2>2. CASE life[debug[i].of] # "run"
    <3>1. debug' = S!WithoutEach(debug, debug[i].of) BY <1>3, <2>2
    <3> QED BY <1>1, <1>2, <3>1, EachDropped, EnoughFewer DEF SInv
  <2> QED BY <2>1, <2>2
<1>6. Typed' BY <1>1, <1>2, <1>5 DEF Typed
<1> QED BY <1>4, <1>5, <1>6 DEF SInv

LEMMA HandleEventKeeps ==
  ASSUME SInv, S!HandleEvent
  PROVE  SInv'
<1> DEFINE e == Head(queue)
<1>1. /\ debug' = debug /\ kdebug' = kdebug /\ life' = life /\ connected' = connected
      /\ queue # <<>> /\ queue' = Tail(queue)
  BY DEF S!HandleEvent
<1>2. Typed BY DEF SInv
<1>3. \/ held' = held \ {e.of} /\ lost' = lost \ {e.of} /\ knows' = knows
      \/ held' = held /\ lost' = lost /\ knows' = knows \cup {e.of}
  BY DEF S!HandleEvent, S!Resume, S!Tell
<1>4. queue' \in Seq(Events) /\ S!Queued \subseteq S!Queued' \cup {e.of}
  <2>1. /\ queue \in Seq(Events) /\ Len(queue) \in Nat /\ Len(queue) # 0
        /\ DOMAIN queue = 1..Len(queue) /\ e = queue[1]
        /\ queue' \in Seq(Events) /\ DOMAIN queue' = 1..(Len(queue) - 1)
        /\ \A i \in 1..(Len(queue) - 1) : queue'[i] = queue[i + 1]
    BY <1>1, <1>2 DEF Typed
  <2>2. ASSUME NEW i \in 1..Len(queue) PROVE queue[i].of \in S!Queued' \cup {e.of}
    <3>1. CASE i = 1 BY <2>1, <3>1
    <3>2. CASE i # 1
      <4>1. i - 1 \in DOMAIN queue' /\ queue'[i - 1] = queue[i] BY <2>1, <3>2
      <4> QED BY <4>1 DEF S!Queued
    <3> QED BY <3>1, <3>2
  <2> QED BY <2>1, <2>2 DEF S!Queued
<1> HIDE DEF e
<1>5. Typed' BY <1>1, <1>2, <1>4 DEF Typed
<1>6. S!Accounted' BY <1>3, <1>4 DEF SInv, S!Accounted
<1>7. Enough' BY <1>1, EnoughStays, ListedStay DEF SInv
<1> QED BY <1>5, <1>6, <1>7 DEF SInv

LEMMA CloseKeeps ==
  ASSUME SInv, S!DoConnectL \/ S!DoDisconnectL
  PROVE  SInv'
<1>1. /\ kdebug' = <<>> /\ queue' = <<>> /\ lost' = lost \cup ((S!Queued \cap held) \ knows)
      /\ life' = life /\ held' = held /\ knows' = knows
  BY DEF S!DoConnectL, S!DoDisconnectL, S!Close, S!targetVars
<1>2. (debug' = <<>>) \/ (debug' = debug /\ ~connected')
  BY DEF S!DoConnectL, S!DoDisconnectL
<1>3. Typed BY DEF SInv
<1>4. Typed'
  <2>1. debug' \in Seq(Entries)
    <3>1. <<>> \in Seq(Entries) OBVIOUS
    <3>2. debug \in Seq(Entries) BY <1>3 DEF Typed
    <3> QED BY <1>2, <3>1, <3>2
  <2>2. kdebug' \in Seq(Procs) /\ queue' \in Seq(Events)
    <3>1. <<>> \in Seq(Procs) /\ <<>> \in Seq(Events) OBVIOUS
    <3> QED BY <1>1, <3>1
  <2> QED BY <1>1, <1>3, <2>1, <2>2 DEF Typed
<1>5. S!Accounted' BY <1>1 DEF SInv, S!Accounted
<1>6. Enough'
  <2>1. CASE ~connected' BY <2>1 DEF Enough
  <2>2. CASE debug' = <<>>
    <3>1. \A q : S!Listed(q)' = {} /\ Places(q)' = {} BY <1>1, <2>2 DEF S!Listed, Places
    <3> QED BY <3>1, FS_EmptySet DEF Enough
  <2> QED BY <1>2, <2>1, <2>2
<1> QED BY <1>4, <1>5, <1>6 DEF SInv

(* Commands that leave the lists alone.                                    *)
LEMMA PlainKeeps ==
  ASSUME SInv,
         \/ S!DoHostVersionsL \/ S!DoInstallFileL
         \/ \E error \in BOOLEAN : S!InstallEnds(error)
         \/ \E p \in Procs : S!RunProcess(p) \/ S!DoStepL(p) \/ S!DoStopL(p)
  PROVE  SInv'
<1>1. /\ debug' = debug /\ kdebug' = kdebug /\ queue' = queue /\ connected' = connected
      /\ \/ life' = life
         \/ \E p \in Procs : life[p] = "none" /\ life' = [life EXCEPT ![p] = "run"]
      /\ \/ held' = held /\ knows' = knows /\ lost' = lost
         \/ \E p \in Procs : held' = held \cup {p} /\ knows' = knows \cup {p} /\ lost' = lost
         \/ \E p \in Procs : held' = held \ {p} /\ knows' = knows \ {p} /\ lost' = lost \ {p}
  <2>1. CASE \/ S!DoHostVersionsL \/ S!DoInstallFileL
             \/ \E error \in BOOLEAN : S!InstallEnds(error)
    BY <2>1 DEF S!DoHostVersionsL, S!DoInstallFileL, S!InstallEnds, S!kernelVars, S!targetVars
  <2>2. CASE \E p \in Procs : S!RunProcess(p) \/ S!DoStepL(p) \/ S!DoStopL(p)
    BY <2>2 DEF S!RunProcess, S!DoStepL, S!DoStopL, S!Resume, S!agentVars, S!kernelVars
  <2> QED BY <2>1, <2>2
<1>2. Typed BY DEF SInv
<1>3. Typed' BY <1>1, <1>2 DEF Typed
<1>4. S!Queued' = S!Queued BY <1>1 DEF S!Queued
<1>5. S!Accounted'
  <2>1. held \subseteq knows \cup lost \cup S!Queued BY DEF SInv, S!Accounted
  <2> QED BY <1>1, <1>4, <2>1 DEF S!Accounted
<1>6. \A q \in Procs : life[q] = "dead" => life'[q] = "dead" BY <1>1, <1>2 DEF Typed
<1>7. Enough' BY <1>1, <1>6, EnoughStays, ListedStay DEF SInv
<1> QED BY <1>3, <1>5, <1>7 DEF SInv

(* One entry more in the agent's list, and in the driver's.                *)
LEMMA ListedMore ==
  ASSUME Typed, NEW p \in Procs, NEW ready \in BOOLEAN,
         debug' = Append(debug, S!Entry(p, ready))
  PROVE  /\ debug' \in Seq(Entries)
         /\ \A q : Cardinality(S!Listed(q)')
                     = IF q = p THEN Cardinality(S!Listed(q)) + 1 ELSE Cardinality(S!Listed(q))
<1> DEFINE e == S!Entry(p, ready)
<1>1. debug \in Seq(Entries) /\ debug' = Append(debug, e) BY DEF Typed
<1>2. e \in Entries /\ e.of = p BY DEF S!Entry, Entries
<1> HIDE DEF e
<1>3. debug' \in Seq(Entries) BY <1>1, <1>2
<1>4. ASSUME NEW q
      PROVE  Cardinality(S!Listed(q)')
               = IF q = p THEN Cardinality(S!Listed(q)) + 1 ELSE Cardinality(S!Listed(q))
  <2>1. \A i \in DOMAIN debug' : debug'[i] \in Entries BY <1>3
  <2>2. S!Listed(q)' = Hits(debug', Of(q)) BY <2>1 DEF S!Listed, Of, Hits
  <2>3. S!Listed(q) = Hits(debug, Of(q)) BY Listing
  <2>4. e \in Of(q) <=> q = p BY <1>2 DEF Of
  <2> QED BY <1>1, <1>2, <2>2, <2>3, <2>4, AppendCounts
<1> QED BY <1>3, <1>4

LEMMA PlacesMore ==
  ASSUME Typed, NEW p \in Procs, kdebug' = Append(kdebug, p)
  PROVE  /\ kdebug' \in Seq(Procs)
         /\ \A q : Cardinality(Places(q)')
                     = IF q = p THEN Cardinality(Places(q)) + 1 ELSE Cardinality(Places(q))
<1>1. kdebug \in Seq(Procs) BY DEF Typed
<1>2. ASSUME NEW q
      PROVE  Cardinality(Places(q)')
               = IF q = p THEN Cardinality(Places(q)) + 1 ELSE Cardinality(Places(q))
  <2> DEFINE Q == {q}
  <2>1. Places(q) = Hits(kdebug, Q) /\ Places(q)' = Hits(kdebug', Q) BY DEF Places, Hits
  <2>2. p \in Q <=> q = p OBVIOUS
  <2> HIDE DEF Q
  <2>3. Cardinality(Hits(Append(kdebug, p), Q))
          = IF p \in Q THEN Cardinality(Hits(kdebug, Q)) + 1 ELSE Cardinality(Hits(kdebug, Q))
    BY <1>1, AppendCounts
  <2> QED BY <2>1, <2>2, <2>3
<1> QED BY <1>1, <1>2

LEMMA CreateKeeps ==
  ASSUME SInv, NEW p \in Procs, S!DoCreateProcessL(p)
  PROVE  SInv'
<1>1. /\ life' = [life EXCEPT ![p] = "run"] /\ held' = held \cup {p} /\ life[p] = "none"
      /\ debug' = Append(debug, S!Entry(p, FALSE)) /\ queue' = queue /\ connected' = connected
      /\ IF p \in Protected
         THEN lost' = lost \cup {p} /\ kdebug' = kdebug /\ knows' = knows
         ELSE knows' = knows \cup {p} /\ kdebug' = Append(kdebug, p) /\ lost' = lost
  BY DEF S!DoCreateProcessL
<1>2. Typed BY DEF SInv
<1>3. /\ debug' \in Seq(Entries)
      /\ \A q : Cardinality(S!Listed(q)')
                  = IF q = p THEN Cardinality(S!Listed(q)) + 1 ELSE Cardinality(S!Listed(q))
  BY <1>1, <1>2, ListedMore
<1>4. kdebug' \in Seq(Procs) BY <1>1, <1>2, PlacesMore DEF Typed
<1>5. Typed' BY <1>1, <1>2, <1>3, <1>4 DEF Typed
<1>6. S!Accounted' BY <1>1 DEF SInv, S!Accounted, S!Queued
<1>7. Enough'
  <2> SUFFICES ASSUME connected', NEW q \in Procs \ Protected, life'[q] # "dead"
               PROVE  Cardinality(S!Listed(q)') <= Cardinality(Places(q)')
    BY DEF Enough
  <2>1. life[q] # "dead" BY <1>1, <1>2 DEF Typed
  <2>2. Cardinality(S!Listed(q)) <= Cardinality(Places(q))
    BY <1>1, <2>1 DEF SInv, Enough
  <2>3. Cardinality(S!Listed(q)) \in Nat /\ Cardinality(Places(q)) \in Nat BY <1>2, Listing
  <2>4. CASE p \in Protected
    <3>1. q # p /\ Places(q)' = Places(q) BY <1>1, <2>4 DEF Places
    <3> QED BY <1>3, <2>2, <3>1
  <2>5. CASE p \notin Protected
    <3>1. Cardinality(Places(q)')
            = IF q = p THEN Cardinality(Places(q)) + 1 ELSE Cardinality(Places(q))
      BY <1>1, <1>2, <2>5, PlacesMore
    <3> QED BY <1>3, <2>2, <2>3, <3>1
  <2> QED BY <2>4, <2>5
<1> QED BY <1>5, <1>6, <1>7 DEF SInv

LEMMA AttachKeeps ==
  ASSUME SInv, NEW p \in Procs, S!DoAttachProcessL(p)
  PROVE  SInv'
<1>1. /\ life' = life /\ held' = held /\ knows' = knows /\ lost' = lost
      /\ debug' = Append(debug, S!Entry(p, TRUE)) /\ kdebug' = Append(kdebug, p)
      /\ queue' = queue /\ connected' = connected
  BY DEF S!DoAttachProcessL, S!targetVars
<1>2. Typed BY DEF SInv
<1>3. /\ debug' \in Seq(Entries)
      /\ \A q : Cardinality(S!Listed(q)')
                  = IF q = p THEN Cardinality(S!Listed(q)) + 1 ELSE Cardinality(S!Listed(q))
  BY <1>1, <1>2, ListedMore
<1>4. /\ kdebug' \in Seq(Procs)
      /\ \A q : Cardinality(Places(q)')
                  = IF q = p THEN Cardinality(Places(q)) + 1 ELSE Cardinality(Places(q))
  BY <1>1, <1>2, PlacesMore
<1>5. Typed' BY <1>1, <1>2, <1>3, <1>4 DEF Typed
<1>6. S!Accounted' BY <1>1 DEF SInv, S!Accounted, S!Queued
<1>7. Enough'
  <2> SUFFICES ASSUME connected', NEW q \in Procs \ Protected, life'[q] # "dead"
               PROVE  Cardinality(S!Listed(q)') <= Cardinality(Places(q)')
    BY DEF Enough
  <2>1. Cardinality(S!Listed(q)) <= Cardinality(Places(q)) BY <1>1 DEF SInv, Enough
  <2>2. Cardinality(S!Listed(q)) \in Nat /\ Cardinality(Places(q)) \in Nat BY <1>2, Listing
  <2> QED BY <1>3, <1>4, <2>1, <2>2
<1> QED BY <1>5, <1>6, <1>7 DEF SInv

(* The driver drops one entry, and the agent one at least.                 *)
LEMMA DetachKeeps ==
  ASSUME SInv, NEW p \in Procs, S!DoDetachProcessL(p)
  PROVE  SInv'
<1>1. /\ life' = life /\ held' = held /\ knows' = knows /\ lost' = lost
      /\ debug' = S!WithoutEach(debug, p) /\ kdebug' = S!Dropping(kdebug, S!FirstOf({p}))
      /\ queue' = queue /\ connected' = connected
  BY DEF S!DoDetachProcessL, S!Detach, S!targetVars
<1>2. Typed BY DEF SInv
<1>3. /\ debug' \in Seq(Entries)
      /\ \A q : /\ Cardinality(S!Listed(q)') \in Nat
                /\ Cardinality(S!Listed(q)') <= Cardinality(S!Listed(q))
      /\ \/ Cardinality(S!Listed(p)') = 0
         \/ Cardinality(S!Listed(p)') <= Cardinality(S!Listed(p)) - 1
  BY <1>1, <1>2, EachDropped
<1>4. /\ kdebug' \in Seq(Procs)
      /\ \A q \in Procs : /\ Cardinality(Places(q)') \in Nat
                          /\ q # p => Cardinality(Places(q)') = Cardinality(Places(q))
                          /\ Cardinality(Places(q)') >= Cardinality(Places(q)) - 1
  <2>1. \A q : q \notin {p} <=> q # p OBVIOUS
  <2> QED BY <1>1, <1>2, <2>1, FirstDropped
<1>5. Typed' BY <1>1, <1>2, <1>3, <1>4 DEF Typed
<1>6. S!Accounted' BY <1>1 DEF SInv, S!Accounted, S!Queued
<1>7. Enough'
  <2> SUFFICES ASSUME connected', NEW q \in Procs \ Protected, life'[q] # "dead"
               PROVE  Cardinality(S!Listed(q)') <= Cardinality(Places(q)')
    BY DEF Enough
  <2>1. Cardinality(S!Listed(q)) <= Cardinality(Places(q)) BY <1>1 DEF SInv, Enough
  <2>2. Cardinality(S!Listed(q)) \in Nat /\ Cardinality(Places(q)) \in Nat BY <1>2, Listing
  <2>3. CASE q # p BY <1>3, <1>4, <2>1, <2>2, <2>3
  <2>4. CASE q = p BY <1>3, <1>4, <2>1, <2>2, <2>4
  <2> QED BY <2>3, <2>4
<1> QED BY <1>5, <1>6, <1>7 DEF SInv

LEMMA ContinueKeeps ==
  ASSUME SInv, NEW p \in Procs, S!DoContinueL(p)
  PROVE  SInv'
<1>1. /\ kdebug' = kdebug /\ queue' = queue /\ life' = life /\ connected' = connected
      /\ held' = held \ {p} /\ lost' = lost \ {p} /\ knows' = knows \ {p}
  BY DEF S!DoContinueL, S!Resume, S!kernelVars
<1>2. (debug' = debug) \/ \E m : debug' = [debug EXCEPT ![m].ready = TRUE]
  BY DEF S!DoContinueL
<1>3. Typed BY DEF SInv
<1>4. debug' \in Seq(Entries) /\ \A q : S!Listed(q)' = S!Listed(q)
  <2>1. \A j \in DOMAIN debug : debug[j] \in Entries BY <1>3 DEF Typed
  <2>3. debug = [j \in DOMAIN debug |-> debug[j]] BY <1>3 DEF Typed
  <2>2. CASE debug' = debug BY <1>3, <2>2 DEF Typed, S!Listed
  <2>4. CASE \E m : debug' = [debug EXCEPT ![m].ready = TRUE]
    <3>1. PICK m : debug' = [debug EXCEPT ![m].ready = TRUE] BY <2>4
    <3>2. DOMAIN debug' = DOMAIN debug /\ debug' = [j \in DOMAIN debug |-> debug'[j]]
      BY <2>3, <3>1
    <3>3. ASSUME NEW j \in DOMAIN debug
          PROVE  debug'[j] \in Entries /\ debug'[j].of = debug[j].of
      <4>1. debug[j] \in Entries BY <2>1
      <4>2. CASE j = m
        <5>1. debug'[j] = [debug[j] EXCEPT !.ready = TRUE] BY <3>1, <4>2
        <5> QED BY <4>1, <5>1 DEF Entries
      <4>3. CASE j # m
        <5>1. debug'[j] = debug[j] BY <2>3, <3>1, <4>3
        <5> QED BY <4>1, <5>1
      <4> QED BY <4>2, <4>3
    <3> QED BY <1>3, <3>2, <3>3, EntriesStay
  <2> QED BY <1>2, <2>2, <2>4
<1>5. Typed' BY <1>1, <1>3, <1>4 DEF Typed
<1>6. S!Accounted' BY <1>1 DEF SInv, S!Accounted, S!Queued
<1>7. Enough' BY <1>1, <1>4, EnoughStays DEF SInv
<1> QED BY <1>5, <1>6, <1>7 DEF SInv

LEMMA SessionNext == SInv /\ [S!Next]_(S!vars) => SInv'
<1> SUFFICES ASSUME SInv, [S!Next]_(S!vars) PROVE SInv' OBVIOUS
<1>1. CASE UNCHANGED S!vars
  <2>1. /\ debug' = debug /\ kdebug' = kdebug /\ queue' = queue /\ connected' = connected
        /\ life' = life /\ held' = held /\ knows' = knows /\ lost' = lost
    BY <1>1 DEF S!vars, S!agentVars, S!kernelVars, S!targetVars
  <2>2. Typed' /\ S!Accounted' BY <2>1 DEF SInv, Typed, S!Accounted, S!Queued
  <2>3. Enough' BY <2>1, EnoughStays, ListedStay DEF SInv
  <2> QED BY <2>2, <2>3 DEF SInv
<1>2. CASE \E p \in Procs :
             \/ S!HandleException(p) \/ S!AddLibrary(p) \/ S!StartThread(p) \/ S!Exit(p)
             \/ S!Command(p)
  <2>1. PICK p \in Procs :
          \/ S!HandleException(p) \/ S!AddLibrary(p) \/ S!StartThread(p) \/ S!Exit(p)
          \/ S!Command(p)
    BY <1>2
  <2>2. CASE S!HandleException(p) \/ S!AddLibrary(p) BY <2>2, HandlerKeeps
  <2>3. CASE S!StartThread(p) BY <2>3, StartThreadKeeps
  <2>4. CASE S!Exit(p) \/ S!DoKillProcessL(p) BY <2>4, EndKeeps
  <2>5. CASE S!DoCreateProcessL(p) BY <2>5, CreateKeeps
  <2>6. CASE S!DoAttachProcessL(p) BY <2>6, AttachKeeps
  <2>7. CASE S!DoDetachProcessL(p) BY <2>7, DetachKeeps
  <2>8. CASE S!DoContinueL(p) BY <2>8, ContinueKeeps
  <2>9. CASE S!RunProcess(p) \/ S!DoStepL(p) \/ S!DoStopL(p) BY <2>9, PlainKeeps
  <2> QED BY <2>1, <2>2, <2>3, <2>4, <2>5, <2>6, <2>7, <2>8, <2>9 DEF S!Command
<1>3. CASE \E i \in DOMAIN debug : S!EarlyLogon(i) BY <1>3, EarlyLogonKeeps
<1>4. CASE S!HandleEvent BY <1>4, HandleEventKeeps
<1>5. CASE S!ExitTrapper BY <1>5, ExitTrapperKeeps
<1>6. CASE S!DoConnectL \/ S!DoDisconnectL BY <1>6, CloseKeeps
<1>7. CASE \/ S!DoHostVersionsL \/ S!DoInstallFileL
           \/ \E error \in BOOLEAN : S!InstallEnds(error)
  BY <1>7, PlainKeeps
<1>8. CASE S!StopListening BY <1>8, EndKeeps
<1> QED BY <1>1, <1>2, <1>3, <1>4, <1>5, <1>6, <1>7, <1>8 DEF S!Next

(* While the port is at work the session stands still.                     *)
LEMMA SessionInvariant == AgentSpec => []SInv
<1>1. AgentInit => SInv BY SessionInit DEF AgentInit
<1>2. SInv /\ [AgentNext]_agentVars => SInv'
  <2>1. [AgentNext]_agentVars => [S!Next]_(S!vars)
    BY DEF AgentNext, agentVars, sessionVars, Debugging, Porting, S!vars, S!agentVars,
           S!kernelVars, S!targetVars
  <2> QED BY <2>1, SessionNext
<1> QED BY <1>1, <1>2, PTL DEF AgentSpec

(* However commands, events and the ends of processes follow each other,   *)
(* over any number of sessions: a thread that is held is one the host has  *)
(* been told of or is about to be, or whose notification was given up when *)
(* the driver was closed or a creation failed half way.                    *)
THEOREM NobodyUnknown == AgentSpec => []Accounted
<1>1. SInv => Accounted BY DEF SInv, Accounted
<1> QED BY <1>1, SessionInvariant, PTL

(* A process in the agent's list that runs is in the driver's list too, as *)
(* often as it may have been attached, and although DetachProcess drops    *)
(* one entry and the loop of the agent every second one in a row.          *)
THEOREM DriverFollows == AgentSpec => []Followed
<1>1. ASSUME SInv PROVE Followed
  <2>1. Typed BY <1>1 DEF SInv
  <2> SUFFICES ASSUME connected, NEW i \in DOMAIN debug, life[debug[i].of] = "run",
                      debug[i].of \notin Protected
               PROVE  debug[i].of \in S!Range(kdebug)
    BY DEF Followed, S!Followed
  <2> DEFINE p == debug[i].of
  <2>2. p \in Procs /\ i \in S!Listed(p)
    <3>1. debug[i] \in Entries BY <2>1 DEF Typed
    <3> QED BY <3>1 DEF Entries, S!Listed
  <2> HIDE DEF p
  <2>3. /\ Cardinality(S!Listed(p)) <= Cardinality(Places(p))
        /\ Cardinality(S!Listed(p)) \in Nat /\ IsFiniteSet(S!Listed(p))
    BY <1>1, <2>1, <2>2, Listing DEF SInv, Enough, p
  <2>4. Cardinality(S!Listed(p)) # 0 BY <2>2, <2>3, FS_EmptySet
  <2>5. Places(p) # {}
    <3>1. Cardinality(Places(p)) # 0 BY <2>1, <2>3, <2>4, Listing
    <3> QED BY <3>1, FS_EmptySet
  <2> QED BY <2>5 DEF Places, S!Range, p
<1> QED BY <1>1, SessionInvariant, PTL

-------------------------------------------------------------------------------
(* The communication port: the invariant.                                  *)

PortTyped ==
  /\ port \in C!Kinds \cup {"none"}
  /\ started \in BOOLEAN /\ opened \in BOOLEAN /\ listening \in BOOLEAN
  /\ active \in BOOLEAN /\ reading \in BOOLEAN /\ broken \in BOOLEAN
  /\ status \in {"pending", "ok", "error"} /\ phase \in {"waiting", "sending", "discovering"}
  /\ buffer \in Seq(Nat) /\ line \in Seq(Nat) /\ got \in Seq(Nat) /\ sent \in Nat
  /\ open \in [C!Handles -> Nat] /\ denied \in Nat /\ DOMAIN last = C!Kinds
  /\ gone \in [damaged : SUBSET Nat, overtaken : SUBSET Nat, unread : SUBSET Nat]

(* Who waits for what: a port that is not looking for a service has a read *)
(* outstanding whenever its request is pending.                            *)
Requests ==
  /\ port = "none" => ~active /\ ~reading /\ ~listening
  /\ reading => active /\ status = "pending"
  /\ port \notin {"bt", "none"} => phase = "waiting"
  /\ reading => phase = "waiting"
  /\ ended = "no" =>
       /\ active /\ phase = "discovering" => ~listening /\ ~reading
       /\ listening => active \/ (port = "bt" /\ broken)
       /\ listening /\ active /\ status = "pending" => reading
       /\ listening /\ active /\ status = "error" => broken

(* The bytes that have been read and not handed on.                        *)
Waiting == IF active /\ status = "ok" /\ phase = "waiting" THEN buffer ELSE <<>>
Gone == gone.damaged \cup gone.overtaken \cup gone.unread

Ascends(s) == \A i, j \in DOMAIN s : i < j => s[i] < s[j]
Before(s, t) == \A i \in DOMAIN s, j \in DOMAIN t : s[i] < t[j]

(* Every byte up to s is in one place: handed on, read, on the line, lost. *)
Fits(g, w, l, x, s) ==
  /\ Ascends(g) /\ Ascends(w) /\ Ascends(l)
  /\ Before(g, w) /\ Before(g, l) /\ Before(w, l)
  /\ x \cap (C!Range(g) \cup C!Range(w) \cup C!Range(l)) = {}
  /\ 1..s = C!Range(g) \cup C!Range(w) \cup C!Range(l) \cup x

InPlace == Fits(got, Waiting, line, Gone, sent)

(* The handles of a port, by whether it is looking for a service, and what *)
(* may be left of earlier ones: d sessions, and the drivers by l.          *)
OwnOf(k, seeks) ==
  CASE k = "serial" -> {"server", "port"}
    [] k = "bt" -> {"server", "socket"} \cup IF seeks THEN {"agent"} ELSE {}
    [] k = "usb" -> {"session", "channel", "protocol"}
    [] k = "dcc" -> {"dcc driver", "channel"}
    [] k = "xti" -> {"xti driver", "channel"}
    [] OTHER -> {}

Seeks == active /\ status = "pending" /\ phase = "discovering"
Own == OwnOf(port, Seeks)

Lingers(l, h) == \E k \in C!Kinds : h \in C!Freed(k) /\ l[k] = "channel"
Spare(d, l, h) == IF h = "session" THEN d ELSE IF Lingers(l, h) THEN 1 ELSE 0

Kept ==
  /\ \A h \in C!Handles : open[h] = Spare(denied, last, h) + (IF h \in Own THEN 1 ELSE 0)
  /\ port = "bt" => started
  /\ port \in {"usb", "dcc", "xti"} => opened

PortInv == PortTyped /\ Requests /\ InPlace /\ Kept

LEMMA PortInit == C!Init => PortInv
<1> SUFFICES ASSUME C!Init PROVE PortInv OBVIOUS
<1>1. PortTyped
  <2>1. open \in [C!Handles -> Nat] /\ DOMAIN last = C!Kinds BY DEF C!Init
  <2>2. gone \in [damaged : SUBSET Nat, overtaken : SUBSET Nat, unread : SUBSET Nat]
    BY DEF C!Init
  <2>3. port \in C!Kinds \cup {"none"} /\ status \in {"pending", "ok", "error"}
        /\ phase \in {"waiting", "sending", "discovering"}
    BY DEF C!Init
  <2>4. sent \in Nat /\ denied \in Nat BY DEF C!Init
  <2>5. buffer \in Seq(Nat) /\ line \in Seq(Nat) /\ got \in Seq(Nat) BY DEF C!Init
  <2>6. /\ started \in BOOLEAN /\ opened \in BOOLEAN /\ listening \in BOOLEAN
        /\ active \in BOOLEAN /\ reading \in BOOLEAN /\ broken \in BOOLEAN
    BY DEF C!Init
  <2> QED BY <2>1, <2>2, <2>3, <2>4, <2>5, <2>6 DEF PortTyped
<1>2. Requests BY DEF C!Init, Requests
<1>3. InPlace
  <2>1. got = <<>> /\ Waiting = <<>> /\ line = <<>> /\ Gone = {} /\ 1..sent = {}
    BY DEF C!Init, Waiting, Gone
  <2> QED BY <2>1 DEF InPlace, Fits, Ascends, Before, C!Range
<1>4. Kept
  <2>1. \A h \in C!Handles : ~Lingers(last, h) BY DEF C!Init, Lingers
  <2>2. Own = {} BY DEF C!Init, Own, OwnOf
  <2>3. \A h \in C!Handles : open[h] = Spare(denied, last, h) BY <2>1 DEF C!Init, Spare
  <2>4. port = "none" BY DEF C!Init
  <2>5. \A h \in C!Handles : open[h] \in Nat BY <1>1 DEF PortTyped
  <2> QED BY <2>2, <2>3, <2>4, <2>5 DEF Kept
<1> QED BY <1>1, <1>2, <1>3, <1>4 DEF PortInv

-------------------------------------------------------------------------------
(* What the steps have opened.                                             *)

LEMMA SerialDone ==
  ASSUME NEW n \in 0..7
  PROVE  \A h \in C!Handles : h \in C!Done("serial", n) <=>
           (h = "server" /\ n >= 1) \/ (h = "port" /\ n >= 5)
<1> DEFINE D == C!Done("serial", n)
<1>1. C!Steps["serial"] = C!SerialSteps BY DEF C!Steps
<1>2. /\ Len(C!SerialSteps) = 7 /\ C!SerialSteps[1] = "server" /\ C!SerialSteps[2] = "module"
      /\ C!SerialSteps[3] = "port info" /\ C!SerialSteps[4] = "drivers"
      /\ C!SerialSteps[5] = "port" /\ C!SerialSteps[6] = "rate" /\ C!SerialSteps[7] = "config"
  BY DEF C!SerialSteps
<1>3. \A i \in 1..n : (i = 1 /\ n >= 1) \/ (i = 2 /\ n >= 2) \/ (i = 3 /\ n >= 3) \/
        (i = 4 /\ n >= 4) \/ (i = 5 /\ n >= 5) \/ (i = 6 /\ n >= 6) \/ (i = 7 /\ n >= 7)
  OBVIOUS
<1>4. \A h \in C!Handles : h \in D =>
        (h = "server" /\ n >= 1) \/ (h = "port" /\ n >= 5)
  <2>1. TAKE h \in C!Handles
  <2>2. HAVE h \in D
  <2>3. PICK i \in 1..n : h = C!SerialSteps[i] BY <1>1, <2>2 DEF C!Done
  <2> QED BY <2>3, <1>2, <1>3 DEF C!Handles
<1>5. \A i \in 1..n : C!SerialSteps[i] \in D BY <1>1 DEF C!Done
<1> HIDE DEF D
<1>6. n >= 1 => "server" \in D
  <2>1. n >= 1 => 1 \in 1..n OBVIOUS
  <2>2. n >= 1 => C!SerialSteps[1] \in D BY <2>1, <1>5, Zenon
  <2> QED BY <2>2, <1>2, Zenon
<1>7. n >= 5 => "port" \in D
  <2>1. n >= 5 => 5 \in 1..n OBVIOUS
  <2>2. n >= 5 => C!SerialSteps[5] \in D BY <2>1, <1>5, Zenon
  <2> QED BY <2>2, <1>2, Zenon
<1>8. \A h \in C!Handles : h \in D <=>
        (h = "server" /\ n >= 1) \/ (h = "port" /\ n >= 5)
  BY <1>4, <1>6, <1>7, Zenon
<1> QED BY <1>8 DEF D

LEMMA BtDone ==
  ASSUME NEW n \in 0..5
  PROVE  \A h \in C!Handles : h \in C!Done("bt", n) <=>
           (h = "server" /\ n >= 1) \/ (h = "socket" /\ n >= 4) \/ (h = "agent" /\ n >= 5)
<1> DEFINE D == C!Done("bt", n)
<1>1. C!Steps["bt"] = C!BtSteps BY DEF C!Steps
<1>2. /\ Len(C!BtSteps) = 5 /\ C!BtSteps[1] = "server" /\ C!BtSteps[2] = "device"
      /\ C!BtSteps[3] = "rfcomm" /\ C!BtSteps[4] = "socket" /\ C!BtSteps[5] = "agent"
  BY DEF C!BtSteps
<1>3. \A i \in 1..n : (i = 1 /\ n >= 1) \/ (i = 2 /\ n >= 2) \/ (i = 3 /\ n >= 3) \/
        (i = 4 /\ n >= 4) \/ (i = 5 /\ n >= 5)
  OBVIOUS
<1>4. \A h \in C!Handles : h \in D =>
        (h = "server" /\ n >= 1) \/ (h = "socket" /\ n >= 4) \/ (h = "agent" /\ n >= 5)
  <2>1. TAKE h \in C!Handles
  <2>2. HAVE h \in D
  <2>3. PICK i \in 1..n : h = C!BtSteps[i] BY <1>1, <2>2 DEF C!Done
  <2> QED BY <2>3, <1>2, <1>3 DEF C!Handles
<1>5. \A i \in 1..n : C!BtSteps[i] \in D BY <1>1 DEF C!Done
<1> HIDE DEF D
<1>6. n >= 1 => "server" \in D
  <2>1. n >= 1 => 1 \in 1..n OBVIOUS
  <2>2. n >= 1 => C!BtSteps[1] \in D BY <2>1, <1>5, Zenon
  <2> QED BY <2>2, <1>2, Zenon
<1>7. n >= 4 => "socket" \in D
  <2>1. n >= 4 => 4 \in 1..n OBVIOUS
  <2>2. n >= 4 => C!BtSteps[4] \in D BY <2>1, <1>5, Zenon
  <2> QED BY <2>2, <1>2, Zenon
<1>8. n >= 5 => "agent" \in D
  <2>1. n >= 5 => 5 \in 1..n OBVIOUS
  <2>2. n >= 5 => C!BtSteps[5] \in D BY <2>1, <1>5, Zenon
  <2> QED BY <2>2, <1>2, Zenon
<1>9. \A h \in C!Handles : h \in D <=>
        (h = "server" /\ n >= 1) \/ (h = "socket" /\ n >= 4) \/ (h = "agent" /\ n >= 5)
  BY <1>4, <1>6, <1>7, <1>8, Zenon
<1> QED BY <1>9 DEF D

LEMMA UsbDone ==
  ASSUME NEW n \in 0..5
  PROVE  \A h \in C!Handles : h \in C!Done("usb", n) <=>
           (h = "session" /\ n >= 1) \/ (h = "channel" /\ n >= 4) \/ (h = "protocol" /\ n >= 5)
<1> DEFINE D == C!Done("usb", n)
<1>1. C!Steps["usb"] = C!UsbSteps BY DEF C!Steps
<1>2. /\ Len(C!UsbSteps) = 5 /\ C!UsbSteps[1] = "session" /\ C!UsbSteps[2] = "get config"
      /\ C!UsbSteps[3] = "set config" /\ C!UsbSteps[4] = "channel"
      /\ C!UsbSteps[5] = "protocol"
  BY DEF C!UsbSteps
<1>3. \A i \in 1..n : (i = 1 /\ n >= 1) \/ (i = 2 /\ n >= 2) \/ (i = 3 /\ n >= 3) \/
        (i = 4 /\ n >= 4) \/ (i = 5 /\ n >= 5)
  OBVIOUS
<1>4. \A h \in C!Handles : h \in D =>
        (h = "session" /\ n >= 1) \/ (h = "channel" /\ n >= 4) \/ (h = "protocol" /\ n >= 5)
  <2>1. TAKE h \in C!Handles
  <2>2. HAVE h \in D
  <2>3. PICK i \in 1..n : h = C!UsbSteps[i] BY <1>1, <2>2 DEF C!Done
  <2> QED BY <2>3, <1>2, <1>3 DEF C!Handles
<1>5. \A i \in 1..n : C!UsbSteps[i] \in D BY <1>1 DEF C!Done
<1> HIDE DEF D
<1>6. n >= 1 => "session" \in D
  <2>1. n >= 1 => 1 \in 1..n OBVIOUS
  <2>2. n >= 1 => C!UsbSteps[1] \in D BY <2>1, <1>5, Zenon
  <2> QED BY <2>2, <1>2, Zenon
<1>7. n >= 4 => "channel" \in D
  <2>1. n >= 4 => 4 \in 1..n OBVIOUS
  <2>2. n >= 4 => C!UsbSteps[4] \in D BY <2>1, <1>5, Zenon
  <2> QED BY <2>2, <1>2, Zenon
<1>8. n >= 5 => "protocol" \in D
  <2>1. n >= 5 => 5 \in 1..n OBVIOUS
  <2>2. n >= 5 => C!UsbSteps[5] \in D BY <2>1, <1>5, Zenon
  <2> QED BY <2>2, <1>2, Zenon
<1>9. \A h \in C!Handles : h \in D <=>
        (h = "session" /\ n >= 1) \/ (h = "channel" /\ n >= 4) \/ (h = "protocol" /\ n >= 5)
  BY <1>4, <1>6, <1>7, <1>8, Zenon
<1> QED BY <1>9 DEF D

LEMMA DccDone ==
  ASSUME NEW n \in 0..2
  PROVE  \A h \in C!Handles : h \in C!Done("dcc", n) <=>
           (h = "dcc driver" /\ n >= 1) \/ (h = "channel" /\ n >= 2)
<1> DEFINE D == C!Done("dcc", n)
<1>1. C!Steps["dcc"] = C!DccSteps BY DEF C!Steps
<1>2. /\ Len(C!DccSteps) = 2 /\ C!DccSteps[1] = "dcc driver" /\ C!DccSteps[2] = "channel"
  BY DEF C!DccSteps
<1>3. \A i \in 1..n : (i = 1 /\ n >= 1) \/ (i = 2 /\ n >= 2)
  OBVIOUS
<1>4. \A h \in C!Handles : h \in D =>
        (h = "dcc driver" /\ n >= 1) \/ (h = "channel" /\ n >= 2)
  <2>1. TAKE h \in C!Handles
  <2>2. HAVE h \in D
  <2>3. PICK i \in 1..n : h = C!DccSteps[i] BY <1>1, <2>2 DEF C!Done
  <2> QED BY <2>3, <1>2, <1>3 DEF C!Handles
<1>5. \A i \in 1..n : C!DccSteps[i] \in D BY <1>1 DEF C!Done
<1> HIDE DEF D
<1>6. n >= 1 => "dcc driver" \in D
  <2>1. n >= 1 => 1 \in 1..n OBVIOUS
  <2>2. n >= 1 => C!DccSteps[1] \in D BY <2>1, <1>5, Zenon
  <2> QED BY <2>2, <1>2, Zenon
<1>7. n >= 2 => "channel" \in D
  <2>1. n >= 2 => 2 \in 1..n OBVIOUS
  <2>2. n >= 2 => C!DccSteps[2] \in D BY <2>1, <1>5, Zenon
  <2> QED BY <2>2, <1>2, Zenon
<1>8. \A h \in C!Handles : h \in D <=>
        (h = "dcc driver" /\ n >= 1) \/ (h = "channel" /\ n >= 2)
  BY <1>4, <1>6, <1>7, Zenon
<1> QED BY <1>8 DEF D

LEMMA XtiDone ==
  ASSUME NEW n \in 0..2
  PROVE  \A h \in C!Handles : h \in C!Done("xti", n) <=>
           (h = "xti driver" /\ n >= 1) \/ (h = "channel" /\ n >= 2)
<1> DEFINE D == C!Done("xti", n)
<1>1. C!Steps["xti"] = C!XtiSteps BY DEF C!Steps
<1>2. /\ Len(C!XtiSteps) = 2 /\ C!XtiSteps[1] = "xti driver" /\ C!XtiSteps[2] = "channel"
  BY DEF C!XtiSteps
<1>3. \A i \in 1..n : (i = 1 /\ n >= 1) \/ (i = 2 /\ n >= 2)
  OBVIOUS
<1>4. \A h \in C!Handles : h \in D =>
        (h = "xti driver" /\ n >= 1) \/ (h = "channel" /\ n >= 2)
  <2>1. TAKE h \in C!Handles
  <2>2. HAVE h \in D
  <2>3. PICK i \in 1..n : h = C!XtiSteps[i] BY <1>1, <2>2 DEF C!Done
  <2> QED BY <2>3, <1>2, <1>3 DEF C!Handles
<1>5. \A i \in 1..n : C!XtiSteps[i] \in D BY <1>1 DEF C!Done
<1> HIDE DEF D
<1>6. n >= 1 => "xti driver" \in D
  <2>1. n >= 1 => 1 \in 1..n OBVIOUS
  <2>2. n >= 1 => C!XtiSteps[1] \in D BY <2>1, <1>5, Zenon
  <2> QED BY <2>2, <1>2, Zenon
<1>7. n >= 2 => "channel" \in D
  <2>1. n >= 2 => 2 \in 1..n OBVIOUS
  <2>2. n >= 2 => C!XtiSteps[2] \in D BY <2>1, <1>5, Zenon
  <2> QED BY <2>2, <1>2, Zenon
<1>8. \A h \in C!Handles : h \in D <=>
        (h = "xti driver" /\ n >= 1) \/ (h = "channel" /\ n >= 2)
  BY <1>4, <1>6, <1>7, Zenon
<1> QED BY <1>8 DEF D


-------------------------------------------------------------------------------
(* The bytes.                                                              *)

LEMMA FitsAppend ==
  ASSUME NEW g \in Seq(Nat), NEW w \in Seq(Nat), NEW l \in Seq(Nat), NEW x, NEW s \in Nat,
         Fits(g, w, l, x, s)
  PROVE  Fits(g, w, Append(l, s + 1), x, s + 1)
<1> DEFINE m == Append(l, s + 1)
<1>1. /\ DOMAIN m = 1..(Len(l) + 1) /\ DOMAIN l = 1..Len(l) /\ Len(l) \in Nat
      /\ \A i \in 1..Len(l) : m[i] = l[i]
      /\ m[Len(l) + 1] = s + 1
  OBVIOUS
<1>2. C!Range(m) = C!Range(l) \cup {s + 1}
  <2>1. \A i \in 1..Len(l) : i \in 1..(Len(l) + 1) BY <1>1
  <2>2. \A i \in 1..(Len(l) + 1) : i \in 1..Len(l) \/ i = Len(l) + 1 BY <1>1
  <2>3. Len(l) + 1 \in 1..(Len(l) + 1) BY <1>1
  <2> HIDE DEF m
  <2> QED BY <2>1, <2>2, <2>3, <1>1 DEF C!Range
<1>3. \A y \in C!Range(g) \cup C!Range(w) \cup C!Range(l) \cup x : y \in Nat /\ y < s + 1
  <2>1. \A y \in 1..s : y \in Nat /\ y < s + 1 OBVIOUS
  <2> QED BY <2>1 DEF Fits
<1>4. \A i \in DOMAIN g : g[i] \in Nat /\ g[i] < s + 1 BY <1>3 DEF C!Range
<1>5. \A i \in DOMAIN w : w[i] \in Nat /\ w[i] < s + 1 BY <1>3 DEF C!Range
<1>6. \A i \in DOMAIN l : l[i] \in Nat /\ l[i] < s + 1 BY <1>3 DEF C!Range
<1>7. \A i \in 1..(Len(l) + 1) : i \in 1..Len(l) \/ i = Len(l) + 1 BY <1>1
<1>8. Ascends(m)
  <2>1. Ascends(l) BY DEF Fits
  <2> SUFFICES ASSUME NEW i \in DOMAIN m, NEW j \in DOMAIN m, i < j PROVE m[i] < m[j]
    BY DEF Ascends
  <2>2. i \in 1..Len(l) BY <1>1
  <2>3. CASE j = Len(l) + 1 BY <2>2, <2>3, <1>1, <1>6
  <2>4. CASE j \in 1..Len(l) BY <2>1, <2>2, <2>4, <1>1 DEF Ascends
  <2> QED BY <2>3, <2>4, <1>1
<1>9. Before(g, m) /\ Before(w, m)
  <2>1. Before(g, l) /\ Before(w, l) BY DEF Fits
  <2>2. \A j \in DOMAIN m : (j \in DOMAIN l /\ m[j] = l[j]) \/ m[j] = s + 1 BY <1>1, <1>7
  <2> HIDE DEF m
  <2> QED BY <2>1, <2>2, <1>4, <1>5 DEF Before
<1>10. x \cap C!Range(m) = {}
  <2>1. s + 1 \notin x BY <1>3
  <2> QED BY <1>2, <2>1 DEF Fits
<1>11. 1..(s + 1) = 1..s \cup {s + 1} OBVIOUS
<1> HIDE DEF m
<1>12. 1..(s + 1) = C!Range(g) \cup C!Range(w) \cup C!Range(m) \cup x BY <1>2, <1>11 DEF Fits
<1> QED BY <1>8, <1>9, <1>10, <1>12 DEF Fits, m

LEMMA FitsRead ==
  ASSUME NEW g \in Seq(Nat), NEW l \in Seq(Nat), NEW x, NEW s \in Nat,
         Fits(g, <<>>, l, x, s), NEW n \in 0..Len(l)
  PROVE  /\ SubSeq(l, 1, n) \in Seq(Nat) /\ SubSeq(l, n + 1, Len(l)) \in Seq(Nat)
         /\ C!Range(SubSeq(l, 1, n)) = {l[i] : i \in 1..n}
         /\ Fits(g, SubSeq(l, 1, n), SubSeq(l, n + 1, Len(l)), x, s)
<1> DEFINE a == SubSeq(l, 1, n)  b == SubSeq(l, n + 1, Len(l))
<1>0. Len(l) \in Nat /\ n \in Nat /\ n <= Len(l) /\ DOMAIN l = 1..Len(l) OBVIOUS
<1>1. a \in Seq(Nat) /\ DOMAIN a = 1..n /\ \A i \in 1..n : a[i] = l[i] BY <1>0
<1>2. /\ b \in Seq(Nat) /\ DOMAIN b = 1..(Len(l) - n)
      /\ \A i \in 1..(Len(l) - n) : b[i] = l[n + i]
  BY <1>0
<1> HIDE DEF a, b
<1>3. \A i \in 1..n : i \in 1..Len(l) BY <1>0
<1>4. \A i \in 1..(Len(l) - n) : n + i \in 1..Len(l) /\ n + i \notin 1..n BY <1>0
<1>5. \A i \in 1..Len(l) : i \in 1..n \/ (i - n \in 1..(Len(l) - n) /\ i = n + (i - n)) BY <1>0
<1>6. C!Range(a) = {l[i] : i \in 1..n} BY <1>1 DEF C!Range
<1>7. C!Range(l) = C!Range(a) \cup C!Range(b)
  <2>1. \A y \in C!Range(l) : y \in C!Range(a) \cup C!Range(b)
    <3> SUFFICES ASSUME NEW i \in 1..Len(l) PROVE l[i] \in C!Range(a) \cup C!Range(b)
      BY <1>0 DEF C!Range
    <3>1. CASE i \in 1..n BY <3>1, <1>1 DEF C!Range
    <3>2. CASE i - n \in 1..(Len(l) - n) /\ i = n + (i - n)
      <4>1. b[i - n] = l[n + (i - n)] BY <3>2, <1>2
      <4>2. b[i - n] = l[i] BY <4>1, <3>2
      <4> QED BY <4>2, <3>2, <1>2 DEF C!Range
    <3> QED BY <3>1, <3>2, <1>5
  <2>2. \A y \in C!Range(a) : y \in C!Range(l) BY <1>0, <1>1, <1>3 DEF C!Range
  <2>3. \A y \in C!Range(b) : y \in C!Range(l) BY <1>0, <1>2, <1>4 DEF C!Range
  <2> QED BY <2>1, <2>2, <2>3
<1>8. Ascends(l) /\ Before(g, l) /\ Ascends(g) BY DEF Fits
<1>9. Ascends(a) BY <1>0, <1>1, <1>3, <1>8 DEF Ascends
<1>10. Ascends(b)
  <2> SUFFICES ASSUME NEW i \in 1..(Len(l) - n), NEW j \in 1..(Len(l) - n), i < j
               PROVE  b[i] < b[j]
    BY <1>2 DEF Ascends
  <2>1. n + i < n + j BY <1>0
  <2>2. l[n + i] < l[n + j] BY <2>1, <1>0, <1>4, <1>8 DEF Ascends
  <2> QED BY <2>2, <1>2
<1>11. Before(a, b)
  <2> SUFFICES ASSUME NEW i \in 1..n, NEW j \in 1..(Len(l) - n) PROVE a[i] < b[j]
    BY <1>1, <1>2 DEF Before
  <2>1. i < n + j BY <1>0
  <2>2. l[i] < l[n + j] BY <2>1, <1>0, <1>3, <1>4, <1>8 DEF Ascends
  <2> QED BY <2>2, <1>1, <1>2
<1>12. Before(g, a) BY <1>0, <1>1, <1>3, <1>8 DEF Before
<1>13. Before(g, b) BY <1>0, <1>2, <1>4, <1>8 DEF Before
<1>14. C!Range(<<>>) = {} BY DEF C!Range
<1>15. /\ x \cap (C!Range(g) \cup C!Range(a) \cup C!Range(b)) = {}
       /\ 1..s = C!Range(g) \cup C!Range(a) \cup C!Range(b) \cup x
  BY <1>7, <1>14 DEF Fits
<1>16. Fits(g, a, b, x, s) BY <1>8, <1>9, <1>10, <1>11, <1>12, <1>13, <1>15 DEF Fits
<1> QED BY <1>1, <1>2, <1>6, <1>16 DEF a, b

LEMMA FitsHand ==
  ASSUME NEW g \in Seq(Nat), NEW w \in Seq(Nat), NEW l \in Seq(Nat), NEW x, NEW s \in Nat,
         Fits(g, w, l, x, s)
  PROVE  g \o w \in Seq(Nat) /\ Fits(g \o w, <<>>, l, x, s)
<1> DEFINE h == g \o w
<1>1. /\ h \in Seq(Nat) /\ Len(g) \in Nat /\ Len(w) \in Nat
      /\ DOMAIN g = 1..Len(g) /\ DOMAIN w = 1..Len(w) /\ DOMAIN h = 1..(Len(g) + Len(w))
      /\ \A i \in 1..Len(g) : h[i] = g[i]
      /\ \A i \in 1..(Len(g) + Len(w)) : i > Len(g) => h[i] = w[i - Len(g)]
  OBVIOUS
<1> HIDE DEF h
<1>2. \A i \in DOMAIN h : (i \in DOMAIN g /\ h[i] = g[i])
                          \/ (i - Len(g) \in DOMAIN w /\ h[i] = w[i - Len(g)] /\ i > Len(g))
  <2> TAKE i \in DOMAIN h
  <2>1. i \in 1..(Len(g) + Len(w)) BY <1>1
  <2>2. CASE i \in 1..Len(g) BY <1>1, <2>2
  <2>3. CASE i > Len(g)
    <3>1. i - Len(g) \in 1..Len(w) BY <1>1, <2>1, <2>3
    <3>2. h[i] = w[i - Len(g)] BY <1>1, <2>1, <2>3
    <3> QED BY <1>1, <2>3, <3>1, <3>2
  <2>4. i \in 1..Len(g) \/ i > Len(g) BY <1>1, <2>1
  <2> QED BY <2>2, <2>3, <2>4
<1>3. C!Range(h) = C!Range(g) \cup C!Range(w)
  <2>1. \A y \in C!Range(h) : y \in C!Range(g) \cup C!Range(w) BY <1>2 DEF C!Range
  <2>2. \A y \in C!Range(g) : y \in C!Range(h)
    <3>1. \A i \in 1..Len(g) : i \in DOMAIN h BY <1>1
    <3> QED BY <3>1, <1>1 DEF C!Range
  <2>3. \A y \in C!Range(w) : y \in C!Range(h)
    <3> SUFFICES ASSUME NEW i \in 1..Len(w) PROVE w[i] \in C!Range(h) BY <1>1 DEF C!Range
    <3>1. /\ i + Len(g) \in 1..(Len(g) + Len(w)) /\ i + Len(g) > Len(g)
          /\ (i + Len(g)) - Len(g) = i
      BY <1>1
    <3>2. h[i + Len(g)] = w[(i + Len(g)) - Len(g)] BY <3>1, <1>1
    <3>3. h[i + Len(g)] = w[i] BY <3>1, <3>2
    <3> QED BY <3>1, <3>3, <1>1 DEF C!Range
  <2> QED BY <2>1, <2>2, <2>3
<1>4. Ascends(g) /\ Ascends(w) /\ Ascends(l) /\ Before(g, w) /\ Before(g, l) /\ Before(w, l)
  BY DEF Fits
<1>5. Ascends(h)
  <2> SUFFICES ASSUME NEW i \in DOMAIN h, NEW j \in DOMAIN h, i < j PROVE h[i] < h[j]
    BY DEF Ascends
  <2>1. CASE j \in DOMAIN g /\ h[j] = g[j]
    <3>1. i \in DOMAIN g /\ h[i] = g[i] BY <2>1, <1>1
    <3> QED BY <2>1, <3>1, <1>4 DEF Ascends
  <2>2. CASE j - Len(g) \in DOMAIN w /\ h[j] = w[j - Len(g)] /\ j > Len(g)
    <3>1. CASE i \in DOMAIN g /\ h[i] = g[i] BY <2>2, <3>1, <1>4 DEF Before
    <3>2. CASE i - Len(g) \in DOMAIN w /\ h[i] = w[i - Len(g)] /\ i > Len(g)
      <4>1. i - Len(g) < j - Len(g) BY <1>1
      <4>2. w[i - Len(g)] < w[j - Len(g)] BY <4>1, <2>2, <3>2, <1>4 DEF Ascends
      <4> QED BY <4>2, <2>2, <3>2
    <3> QED BY <3>1, <3>2, <1>2
  <2> QED BY <2>1, <2>2, <1>2
<1>6. Before(h, l) BY <1>2, <1>4 DEF Before
<1>7. C!Range(<<>>) = {} /\ Ascends(<<>>) /\ Before(h, <<>>) /\ Before(<<>>, l)
  BY DEF C!Range, Ascends, Before
<1>8. /\ x \cap (C!Range(h) \cup C!Range(<<>>) \cup C!Range(l)) = {}
      /\ 1..s = C!Range(h) \cup C!Range(<<>>) \cup C!Range(l) \cup x
  BY <1>3, <1>7 DEF Fits
<1>9. Fits(h, <<>>, l, x, s) BY <1>4, <1>5, <1>6, <1>7, <1>8 DEF Fits
<1> QED BY <1>1, <1>9 DEF h

LEMMA FitsLose ==
  ASSUME NEW g \in Seq(Nat), NEW w \in Seq(Nat), NEW l \in Seq(Nat), NEW x, NEW s \in Nat,
         Fits(g, w, l, x, s)
  PROVE  Fits(g, <<>>, l, x \cup C!Range(w), s)
<1>1. C!Range(w) \cap C!Range(g) = {} /\ C!Range(w) \cap C!Range(l) = {}
  <2>1. \A i \in DOMAIN g, j \in DOMAIN w : g[i] # w[j]
    <3>1. Before(g, w) BY DEF Fits
    <3>2. \A i \in DOMAIN g, j \in DOMAIN w : g[i] \in Nat /\ w[j] \in Nat OBVIOUS
    <3> QED BY <3>1, <3>2 DEF Before
  <2>2. \A i \in DOMAIN w, j \in DOMAIN l : w[i] # l[j]
    <3>1. Before(w, l) BY DEF Fits
    <3>2. \A i \in DOMAIN w, j \in DOMAIN l : w[i] \in Nat /\ l[j] \in Nat OBVIOUS
    <3> QED BY <3>1, <3>2 DEF Before
  <2> QED BY <2>1, <2>2 DEF C!Range
<1>2. C!Range(<<>>) = {} /\ Ascends(<<>>) /\ Before(g, <<>>) /\ Before(<<>>, l)
  BY DEF C!Range, Ascends, Before
<1>3. /\ (x \cup C!Range(w)) \cap (C!Range(g) \cup C!Range(<<>>) \cup C!Range(l)) = {}
      /\ 1..s = C!Range(g) \cup C!Range(<<>>) \cup C!Range(l) \cup (x \cup C!Range(w))
  BY <1>1, <1>2 DEF Fits
<1> QED BY <1>2, <1>3 DEF Fits

LEMMA FitsClose ==
  ASSUME NEW g \in Seq(Nat), NEW w \in Seq(Nat), NEW l \in Seq(Nat), NEW x, NEW s \in Nat,
         Fits(g, w, l, x, s)
  PROVE  Fits(g, <<>>, <<>>, x \cup C!Range(w) \cup C!Range(l), s)
<1>1. Fits(g, <<>>, l, x \cup C!Range(w), s) BY FitsLose
<1>2. <<>> \in Seq(Nat) /\ C!Range(<<>>) = {} BY DEF C!Range
<1>3. Before(l, <<>>) /\ Before(g, <<>>) /\ Before(g, l) /\ Before(<<>>, l) /\ Ascends(<<>>)
  BY <1>1 DEF Before, Ascends, Fits
<1>4. Fits(g, l, <<>>, x \cup C!Range(w), s) BY <1>1, <1>2, <1>3 DEF Fits
<1> QED BY <1>2, <1>4, FitsLose

-------------------------------------------------------------------------------
(* Types.                                                                  *)

LEMMA StepsLength ==
  ASSUME NEW k \in C!Kinds
  PROVE  /\ Len(C!Steps[k]) \in Nat
         /\ Len(C!Steps["serial"]) = 7 /\ Len(C!Steps["bt"]) = 5 /\ Len(C!Steps["usb"]) = 5
         /\ Len(C!Steps["dcc"]) = 2 /\ Len(C!Steps["xti"]) = 2
<1>1. k \in {"serial", "bt", "usb", "dcc", "xti"} BY DEF C!Kinds
<1>2. /\ Len(C!SerialSteps) = 7 /\ Len(C!BtSteps) = 5 /\ Len(C!UsbSteps) = 5
      /\ Len(C!DccSteps) = 2 /\ Len(C!XtiSteps) = 2
  BY DEF C!SerialSteps, C!BtSteps, C!UsbSteps, C!DccSteps, C!XtiSteps
<1>3. /\ C!Steps["serial"] = C!SerialSteps /\ C!Steps["bt"] = C!BtSteps
      /\ C!Steps["usb"] = C!UsbSteps
      /\ C!Steps["dcc"] = C!DccSteps /\ C!Steps["xti"] = C!XtiSteps
  BY DEF C!Steps
<1>4. /\ Len(C!Steps["serial"]) = 7 /\ Len(C!Steps["bt"]) = 5 /\ Len(C!Steps["usb"]) = 5
      /\ Len(C!Steps["dcc"]) = 2 /\ Len(C!Steps["xti"]) = 2
  BY <1>2, <1>3
<1>5. Len(C!Steps[k]) \in {7, 5, 2} BY <1>1, <1>4, Zenon
<1> QED BY <1>4, <1>5

LEMMA OpenedTyped ==
  ASSUME PortTyped, NEW k, NEW n
  PROVE  C!OpenedBy(k, n) \in [C!Handles -> Nat]
BY DEF PortTyped, C!OpenedBy

LEMMA ClosingTyped ==
  ASSUME NEW f \in [C!Handles -> Nat], NEW k, NEW on, NEW in
  PROVE  C!Closing(f, k, on, in) \in [C!Handles -> Nat]
BY DEF C!Closing

LEMMA GoneTyped ==
  ASSUME PortTyped, NEW x, x \subseteq Nat
  PROVE  /\ [gone EXCEPT !.unread = gone.unread \cup x]
              \in [damaged : SUBSET Nat, overtaken : SUBSET Nat, unread : SUBSET Nat]
         /\ [gone EXCEPT !.overtaken = gone.overtaken \cup x]
              \in [damaged : SUBSET Nat, overtaken : SUBSET Nat, unread : SUBSET Nat]
         /\ [gone EXCEPT !.damaged = gone.damaged \cup x]
              \in [damaged : SUBSET Nat, overtaken : SUBSET Nat, unread : SUBSET Nat]
BY DEF PortTyped

LEMMA BytesTyped ==
  ASSUME PortTyped
  PROVE  C!Unread \subseteq Nat /\ C!Range(line) \subseteq Nat /\ Len(line) \in Nat
<1>1. buffer \in Seq(Nat) /\ line \in Seq(Nat) BY DEF PortTyped
<1>2. \A s \in Seq(Nat) : C!Range(s) \subseteq Nat BY DEF C!Range
<1> QED BY <1>1, <1>2 DEF C!Unread

LEMMA TypedStep == ASSUME PortTyped, C!Next PROVE PortTyped'
<1> USE DEF PortTyped
<1>1. ASSUME NEW k \in C!Kinds, C!StartL(k) PROVE PortTyped'
  <2>1. CASE C!Started(k)
    <3>1. open' \in [C!Handles -> Nat] BY <2>1, OpenedTyped DEF C!Started
    <3>2. port' \in C!Kinds \cup {"none"} BY <2>1 DEF C!Started
    <3>3. started' \in BOOLEAN /\ opened' \in BOOLEAN
      BY <2>1 DEF C!Started, C!ConnectedBy
    <3>4. listening' \in BOOLEAN /\ active' \in BOOLEAN /\ reading' \in BOOLEAN
      BY <2>1 DEF C!Started, C!Listen
    <3>5. status' \in {"pending", "ok", "error"} BY <2>1 DEF C!Started, C!Listen
    <3>6. phase' \in {"waiting", "sending", "discovering"} BY <2>1 DEF C!Started, C!Listen
    <3>7. buffer' \in Seq(Nat) BY <2>1 DEF C!Started, C!Listen
    <3>8. line' \in Seq(Nat) /\ got' \in Seq(Nat) /\ sent' \in Nat /\ denied' \in Nat
          /\ broken' \in BOOLEAN
      BY <2>1 DEF C!Started, C!lineVars
    <3>9. gone' \in [damaged : SUBSET Nat, overtaken : SUBSET Nat, unread : SUBSET Nat]
      BY <2>1 DEF C!Started, C!lineVars
    <3>10. DOMAIN last' = C!Kinds BY <2>1 DEF C!Started
    <3> QED BY <3>1, <3>2, <3>3, <3>4, <3>5, <3>6, <3>7, <3>8, <3>9, <3>10
  <2>2. ASSUME NEW n \in 0..Len(C!Steps[k]), C!StartFails(k, n) PROVE PortTyped'
    <3>1. open' \in [C!Handles -> Nat] BY <2>2, OpenedTyped, ClosingTyped DEF C!StartFails
    <3>2. denied' \in Nat BY <2>2 DEF C!StartFails
    <3>3. DOMAIN last' = C!Kinds BY <2>2 DEF C!StartFails
    <3>4. UNCHANGED <<C!portVars, C!requestVars, C!lineVars, broken>> BY <2>2 DEF C!StartFails
    <3> QED BY <3>1, <3>2, <3>3, <3>4 DEF C!portVars, C!requestVars, C!lineVars
  <2> QED BY <1>1, <2>1, <2>2 DEF C!StartL
<1>2. CASE C!Stop
  <2>1. CASE C!Hangs
    BY <1>2, <2>1 DEF C!Stop, C!portVars, C!requestVars, C!lineVars, C!ghostVars
  <2>2. CASE ~C!Hangs
    <3>1. C!StopListening /\ open' = C!Closing(open, port, started, opened)
      BY <1>2, <2>2 DEF C!Stop
    <3>2. /\ port' = "none" /\ started' = FALSE /\ opened' = FALSE
          /\ UNCHANGED <<status, phase, buffer, sent, got>> /\ UNCHANGED C!ghostVars
      BY <1>2, <2>2 DEF C!Stop
    <3>3. open' \in [C!Handles -> Nat] BY <3>1, ClosingTyped
    <3>4. gone' \in [damaged : SUBSET Nat, overtaken : SUBSET Nat, unread : SUBSET Nat]
      <4>1. gone' = [gone EXCEPT !.unread = gone.unread \cup C!Unread \cup C!Range(line)]
        BY <3>1 DEF C!StopListening
      <4>2. C!Unread \cup C!Range(line) \subseteq Nat BY BytesTyped
      <4>3. gone.unread \cup C!Unread \cup C!Range(line)
              = gone.unread \cup (C!Unread \cup C!Range(line)) OBVIOUS
      <4> QED BY <4>1, <4>2, <4>3, GoneTyped
    <3>5. listening' = FALSE /\ active' = FALSE /\ reading' = FALSE /\ line' = <<>>
      BY <3>1 DEF C!StopListening
    <3>6. port' \in C!Kinds \cup {"none"} /\ started' \in BOOLEAN /\ opened' \in BOOLEAN
      BY <3>2
    <3>7. status' \in {"pending", "ok", "error"}
          /\ phase' \in {"waiting", "sending", "discovering"}
      BY <3>2
    <3>8. buffer' \in Seq(Nat) /\ got' \in Seq(Nat) /\ line' \in Seq(Nat) /\ sent' \in Nat
      BY <3>2, <3>5
    <3>9. broken' \in BOOLEAN /\ denied' \in Nat /\ DOMAIN last' = C!Kinds
      BY <3>2 DEF C!ghostVars
    <3>10. listening' \in BOOLEAN /\ active' \in BOOLEAN /\ reading' \in BOOLEAN BY <3>5
    <3> QED BY <3>3, <3>4, <3>6, <3>7, <3>8, <3>9, <3>10
  <2> QED BY <2>1, <2>2
<1>3. CASE C!Arrive
  <2>1. sent' \in Nat /\ line' \in Seq(Nat) BY <1>3 DEF C!Arrive
  <2> QED BY <1>3, <2>1 DEF C!Arrive, C!portVars, C!requestVars, C!ghostVars
<1>4. CASE C!Complete
  <2>1. PICK n \in 1..Len(line) :
          buffer' = SubSeq(line, 1, n) /\ line' = SubSeq(line, n + 1, Len(line))
    BY <1>4 DEF C!Complete
  <2>2. buffer' \in Seq(Nat) /\ line' \in Seq(Nat) BY <2>1
  <2> QED BY <1>4, <2>2 DEF C!Complete, C!portVars, C!ghostVars
<1>5. CASE C!Fail
  <2>1. PICK n \in 0..Len(line) :
          /\ buffer' = SubSeq(line, 1, n) /\ line' = SubSeq(line, n + 1, Len(line))
          /\ gone' = [gone EXCEPT !.damaged = gone.damaged \cup {line[i] : i \in 1..n}]
    BY <1>5 DEF C!Fail
  <2>2. buffer' \in Seq(Nat) /\ line' \in Seq(Nat)
    <3>1. Len(line) \in Nat /\ n \in Nat /\ n <= Len(line) BY BytesTyped
    <3>2. SubSeq(line, 1, n) \in Seq(Nat) BY <3>1
    <3>3. SubSeq(line, n + 1, Len(line)) \in Seq(Nat) BY <3>1
    <3> QED BY <2>1, <3>2, <3>3
  <2>3. {line[i] : i \in 1..n} \subseteq Nat
    <3>1. \A i \in 1..n : i \in 1..Len(line) BY BytesTyped
    <3> QED BY <3>1
  <2>4. gone' \in [damaged : SUBSET Nat, overtaken : SUBSET Nat, unread : SUBSET Nat]
    BY <2>1, <2>3, GoneTyped
  <2> QED BY <1>5, <2>2, <2>4 DEF C!Fail, C!portVars
<1>6. CASE C!Run
  <2>1. got' \in Seq(Nat) BY <1>6 DEF C!Run
  <2>2. buffer' \in Seq(Nat) BY <1>6 DEF C!Run, C!IssueReadRequest
  <2> QED BY <1>6, <2>1, <2>2 DEF C!Run, C!IssueReadRequest, C!portVars, C!ghostVars
<1>7. CASE C!RunBroken BY <1>7 DEF C!RunBroken, C!portVars, C!lineVars, C!ghostVars
<1>8. CASE C!RunSocket
  <2>1. got' \in Seq(Nat) BY <1>8 DEF C!RunSocket
  <2>2. buffer' \in Seq(Nat) BY <1>8 DEF C!RunSocket, C!IssueReadRequest
  <2> QED BY <1>8, <2>1, <2>2 DEF C!RunSocket, C!IssueReadRequest, C!portVars, C!ghostVars
<1>9. CASE C!SearchEnds
  <2>1. open' \in [C!Handles -> Nat] BY <1>9 DEF C!SearchEnds
  <2>2. status' \in {"pending", "ok", "error"} BY <1>9 DEF C!SearchEnds
  <2> QED BY <1>9, <2>1, <2>2 DEF C!SearchEnds, C!lineVars, C!ghostVars
<1>10. CASE C!ConnectToPortL
  <2>1. opened' \in BOOLEAN /\ listening' \in BOOLEAN BY <1>10 DEF C!ConnectToPortL
  <2>2. CASE C!IssueReadRequest
    <3>1. buffer' \in Seq(Nat) BY <2>2 DEF C!IssueReadRequest
    <3> QED BY <1>10, <2>1, <2>2, <3>1
        DEF C!ConnectToPortL, C!IssueReadRequest, C!lineVars, C!ghostVars
  <2>3. CASE UNCHANGED C!requestVars
    BY <1>10, <2>1, <2>3 DEF C!ConnectToPortL, C!requestVars, C!lineVars, C!ghostVars
  <2> QED BY <1>10, <2>2, <2>3 DEF C!ConnectToPortL
<1>11. CASE C!SendDataL
  <2>1. gone' \in [damaged : SUBSET Nat, overtaken : SUBSET Nat, unread : SUBSET Nat]
    BY <1>11, GoneTyped, BytesTyped DEF C!SendDataL
  <2> QED BY <1>11, <2>1 DEF C!SendDataL, C!portVars
<1> QED BY <1>1, <1>2, <1>3, <1>4, <1>5, <1>6, <1>7, <1>8, <1>9, <1>10, <1>11 DEF C!Next

-------------------------------------------------------------------------------
(* Requests.                                                               *)

LEMMA RequestsStep == ASSUME PortTyped, Requests, C!Next PROVE Requests'
<1> USE DEF Requests
<1>0. ended = "no" BY DEF C!Next
<1>1. ASSUME NEW k \in C!Kinds, C!StartL(k) PROVE Requests'
  <2>1. k # "none" BY DEF C!Kinds
  <2>2. CASE C!Started(k) BY <1>0, <1>1, <2>1, <2>2 DEF C!Started, C!Listen
  <2>3. ASSUME NEW n \in 0..Len(C!Steps[k]), C!StartFails(k, n) PROVE Requests'
    BY <1>0, <1>1, <2>3 DEF C!StartFails, C!StartL, C!portVars, C!requestVars
  <2> QED BY <1>1, <2>2, <2>3 DEF C!StartL
<1>2. CASE C!Stop
  <2>1. CASE C!Hangs BY <1>2, <2>1 DEF C!Stop, C!portVars, C!requestVars, C!ghostVars
  <2>2. CASE ~C!Hangs BY <1>2, <2>2 DEF C!Stop, C!StopListening
  <2> QED BY <2>1, <2>2
<1>3. CASE C!Arrive BY <1>3 DEF C!Arrive, C!portVars, C!requestVars, C!ghostVars
<1>4. CASE C!Complete
  <2>1. /\ reading /\ status' = "ok" /\ reading' = FALSE
        /\ UNCHANGED <<C!portVars, active, phase>>
        /\ UNCHANGED <<C!ghostVars, ended>>
    BY <1>4 DEF C!Complete
  <2> QED BY <1>0, <2>1 DEF C!portVars, C!ghostVars
<1>5. CASE C!Fail
  <2>1. /\ reading /\ status' = "error" /\ reading' = FALSE /\ broken' = TRUE
        /\ UNCHANGED <<C!portVars, active, phase, ended>>
    BY <1>5 DEF C!Fail
  <2> QED BY <1>0, <2>1 DEF C!portVars
<1>6. CASE C!Run BY <1>0, <1>6 DEF C!Run, C!IssueReadRequest, C!portVars, C!ghostVars
<1>7. CASE C!RunBroken BY <1>0, <1>7 DEF C!RunBroken, C!Due, C!portVars, C!ghostVars
<1>8. CASE C!RunSocket
  BY <1>0, <1>8 DEF C!RunSocket, C!IssueReadRequest, C!portVars, C!ghostVars
<1>9. CASE C!SearchEnds
  <2>1. /\ port = "bt" /\ active /\ phase = "discovering" /\ status = "pending"
        /\ UNCHANGED <<port, listening, active, phase, reading, ended>>
        /\ status' \in {"ok", "error"}
    BY <1>9 DEF C!SearchEnds
  <2> QED BY <1>0, <2>1
<1>10. CASE C!ConnectToPortL
  <2>1. port = "bt" /\ active /\ phase = "discovering" /\ port' = port
    BY <1>10 DEF C!ConnectToPortL, C!Due
  <2>2. CASE C!IssueReadRequest BY <1>0, <2>1, <2>2 DEF C!IssueReadRequest
  <2>3. CASE ended' = "panicked" /\ UNCHANGED C!requestVars
    BY <1>0, <2>1, <2>3 DEF C!requestVars
  <2> QED BY <1>10, <2>2, <2>3 DEF C!ConnectToPortL
<1>11. CASE C!SendDataL
  <2>1. listening /\ UNCHANGED <<C!portVars, active, ended>> BY <1>11 DEF C!SendDataL
  <2>2. CASE port # "bt"
    <3>1. UNCHANGED <<status, phase, reading, broken>> BY <1>11, <2>2 DEF C!SendDataL
    <3> QED BY <1>0, <2>1, <3>1 DEF C!portVars
  <2>3. CASE port = "bt"
    <3>1. /\ reading' = FALSE /\ phase' = "sending"
      BY <1>11, <2>3 DEF C!SendDataL
    <3>2. CASE status' = "ok" /\ UNCHANGED <<broken, faults>>
      BY <1>0, <2>1, <2>3, <3>1, <3>2 DEF C!portVars
    <3>3. CASE status' = "error" /\ broken' = TRUE
      BY <1>0, <2>1, <2>3, <3>1, <3>3 DEF C!portVars
    <3> QED BY <1>11, <2>3, <3>2, <3>3 DEF C!SendDataL
  <2> QED BY <2>2, <2>3
<1> QED BY <1>1, <1>2, <1>3, <1>4, <1>5, <1>6, <1>7, <1>8, <1>9, <1>10, <1>11 DEF C!Next

-------------------------------------------------------------------------------
(* Nothing is lost but what Gone says.                                     *)

LEMMA UnreadIs == C!Unread = C!Range(Waiting)
<1>1. C!Range(<<>>) = {} BY DEF C!Range
<1> QED BY <1>1 DEF C!Unread, Waiting

LEMMA InPlaceStep == ASSUME PortTyped, Requests, InPlace, C!Next PROVE InPlace'
<1>0. /\ buffer \in Seq(Nat) /\ line \in Seq(Nat) /\ got \in Seq(Nat) /\ sent \in Nat
      /\ gone \in [damaged : SUBSET Nat, overtaken : SUBSET Nat, unread : SUBSET Nat]
      /\ Waiting \in Seq(Nat)
  BY DEF PortTyped, Waiting
<1>x. ended = "no" BY DEF C!Next
<1>s. ASSUME Waiting' = Waiting, UNCHANGED <<got, line, gone, sent>> PROVE InPlace'
  BY <1>s DEF InPlace, Gone
<1>1. ASSUME NEW k \in C!Kinds, C!StartL(k) PROVE InPlace'
  <2>1. Waiting = <<>> BY <1>1 DEF C!StartL, Requests, Waiting
  <2>2. CASE C!Started(k)
    <3>1. Waiting' = <<>> BY <2>2 DEF C!Started, C!Listen, Waiting
    <3> QED BY <1>s, <2>1, <2>2, <3>1 DEF C!Started, C!lineVars
  <2>3. ASSUME NEW n \in 0..Len(C!Steps[k]), C!StartFails(k, n) PROVE InPlace'
    <3>1. Waiting' = Waiting BY <2>3 DEF C!StartFails, C!requestVars, Waiting
    <3> QED BY <1>s, <2>3, <3>1 DEF C!StartFails, C!lineVars
  <2> QED BY <1>1, <2>2, <2>3 DEF C!StartL
<1>2. CASE C!Stop
  <2>1. CASE C!Hangs
    <3>1. Waiting' = Waiting BY <1>2, <2>1 DEF C!Stop, C!requestVars, Waiting
    <3> QED BY <1>s, <1>2, <2>1, <3>1 DEF C!Stop, C!lineVars
  <2>2. CASE ~C!Hangs
    <3>1. /\ active' = FALSE /\ line' = <<>> /\ UNCHANGED <<got, sent>>
          /\ gone' = [gone EXCEPT !.unread = gone.unread \cup C!Unread \cup C!Range(line)]
      BY <1>2, <2>2 DEF C!Stop, C!StopListening
    <3>2. Waiting' = <<>> BY <3>1 DEF Waiting
    <3>3. Gone' = Gone \cup C!Range(Waiting) \cup C!Range(line)
      <4>1. /\ gone'.damaged = gone.damaged /\ gone'.overtaken = gone.overtaken
            /\ gone'.unread = gone.unread \cup C!Unread \cup C!Range(line)
        BY <1>0, <3>1
      <4> QED BY <4>1, UnreadIs DEF Gone
    <3>4. Fits(got, <<>>, <<>>, Gone \cup C!Range(Waiting) \cup C!Range(line), sent)
      BY <1>0, FitsClose DEF InPlace
    <3> QED BY <3>1, <3>2, <3>3, <3>4 DEF InPlace
  <2> QED BY <2>1, <2>2
<1>3. CASE C!Arrive
  <2>1. Waiting' = Waiting BY <1>3 DEF C!Arrive, C!requestVars, Waiting
  <2>2. /\ sent' = sent + 1 /\ line' = Append(line, sent + 1) /\ UNCHANGED <<got, gone>>
    BY <1>3 DEF C!Arrive
  <2>3. Fits(got, Waiting, Append(line, sent + 1), Gone, sent + 1)
    BY <1>0, FitsAppend DEF InPlace
  <2>4. Gone' = Gone BY <2>2 DEF Gone
  <2> QED BY <2>1, <2>2, <2>3, <2>4 DEF InPlace
<1>r. ASSUME reading, NEW n \in 0..Len(line)
      PROVE  /\ Waiting = <<>>
             /\ C!Range(SubSeq(line, 1, n)) = {line[i] : i \in 1..n}
             /\ SubSeq(line, 1, n) \in Seq(Nat) /\ SubSeq(line, n + 1, Len(line)) \in Seq(Nat)
             /\ Fits(got, SubSeq(line, 1, n), SubSeq(line, n + 1, Len(line)), Gone, sent)
  <2>1. Waiting = <<>> BY <1>r DEF Requests, Waiting
  <2> QED BY <1>0, <2>1, FitsRead DEF InPlace
<1>4. CASE C!Complete
  <2>1. PICK n \in 1..Len(line) :
          buffer' = SubSeq(line, 1, n) /\ line' = SubSeq(line, n + 1, Len(line))
    BY <1>4 DEF C!Complete
  <2>2. n \in 0..Len(line) BY <1>0
  <2>3. reading /\ status' = "ok" /\ UNCHANGED <<active, phase, got, gone, sent>>
    BY <1>4 DEF C!Complete
  <2>4. Waiting' = SubSeq(line, 1, n) BY <2>1, <2>3 DEF Requests, Waiting
  <2>5. Fits(got, SubSeq(line, 1, n), SubSeq(line, n + 1, Len(line)), Gone, sent)
    BY <1>r, <2>2, <2>3
  <2>6. Gone' = Gone BY <2>3 DEF Gone
  <2> QED BY <2>1, <2>3, <2>4, <2>5, <2>6 DEF InPlace
<1>5. CASE C!Fail
  <2>1. PICK n \in 0..Len(line) :
          /\ line' = SubSeq(line, n + 1, Len(line))
          /\ gone' = [gone EXCEPT !.damaged = gone.damaged \cup {line[i] : i \in 1..n}]
    BY <1>5 DEF C!Fail
  <2>2. reading /\ status' = "error" /\ UNCHANGED <<got, sent>> BY <1>5 DEF C!Fail
  <2>3. Waiting' = <<>> BY <2>2 DEF Waiting
  <2>4. Fits(got, <<>>, SubSeq(line, n + 1, Len(line)),
             Gone \cup C!Range(SubSeq(line, 1, n)), sent)
    BY <1>0, <1>r, <2>2, FitsLose
  <2>5. Gone' = Gone \cup C!Range(SubSeq(line, 1, n))
    <3>1. /\ gone'.overtaken = gone.overtaken /\ gone'.unread = gone.unread
          /\ gone'.damaged = gone.damaged \cup {line[i] : i \in 1..n}
      BY <1>0, <2>1
    <3> QED BY <1>r, <2>2, <3>1 DEF Gone
  <2> QED BY <2>1, <2>2, <2>3, <2>4, <2>5 DEF InPlace
<1>h. ASSUME got' = got \o Waiting, Waiting' = <<>>, UNCHANGED <<line, gone, sent>>
      PROVE  InPlace'
  <2>1. Fits(got \o Waiting, <<>>, line, Gone, sent) BY <1>0, FitsHand DEF InPlace
  <2>2. Gone' = Gone BY <1>h DEF Gone
  <2> QED BY <1>h, <2>1, <2>2 DEF InPlace
<1>6. CASE C!Run
  <2>1. Waiting' = <<>> /\ UNCHANGED <<line, gone, sent>>
    BY <1>6 DEF C!Run, C!IssueReadRequest, Waiting
  <2>2. Waiting = IF status = "ok" THEN buffer ELSE <<>>
    BY <1>6 DEF C!Run, C!Due, Requests, Waiting
  <2>3. got' = got \o Waiting
    <3>1. got \o <<>> = got BY <1>0
    <3> QED BY <1>6, <2>2, <3>1 DEF C!Run
  <2> QED BY <1>h, <2>1, <2>3
<1>7. CASE C!RunBroken
  <2>1. Waiting' = Waiting BY <1>7 DEF C!RunBroken, Waiting
  <2> QED BY <1>s, <1>7, <2>1 DEF C!RunBroken, C!lineVars
<1>8. CASE C!RunSocket
  <2>1. Waiting' = <<>> /\ UNCHANGED <<line, gone, sent>>
    BY <1>8 DEF C!RunSocket, C!IssueReadRequest, Waiting
  <2>2. Waiting = IF phase = "waiting" THEN buffer ELSE <<>>
    BY <1>8 DEF C!RunSocket, C!Due, Waiting
  <2>3. got' = got \o Waiting
    <3>1. got \o <<>> = got BY <1>0
    <3> QED BY <1>8, <2>2, <3>1 DEF C!RunSocket
  <2> QED BY <1>h, <2>1, <2>3
<1>9. CASE C!SearchEnds
  <2>1. Waiting = <<>> /\ Waiting' = <<>> BY <1>9 DEF C!SearchEnds, Waiting
  <2> QED BY <1>s, <1>9, <2>1 DEF C!SearchEnds, C!lineVars
<1>10. CASE C!ConnectToPortL
  <2>1. Waiting = <<>> BY <1>10 DEF C!ConnectToPortL, Waiting
  <2>2. Waiting' = <<>>
    <3>1. CASE C!IssueReadRequest BY <3>1 DEF C!IssueReadRequest, Waiting
    <3>2. CASE UNCHANGED C!requestVars BY <2>1, <3>2 DEF C!requestVars, Waiting
    <3> QED BY <1>10, <3>1, <3>2 DEF C!ConnectToPortL
  <2> QED BY <1>s, <1>10, <2>1, <2>2 DEF C!ConnectToPortL, C!lineVars
<1>11. CASE C!SendDataL
  <2>1. UNCHANGED <<C!portVars, active, buffer, line, sent, got>> BY <1>11 DEF C!SendDataL
  <2>2. CASE port # "bt"
    <3>1. UNCHANGED <<status, phase, gone>> BY <1>11, <2>2 DEF C!SendDataL
    <3>2. Waiting' = Waiting BY <2>1, <3>1 DEF Waiting
    <3> QED BY <1>s, <2>1, <3>1, <3>2
  <2>3. CASE port = "bt"
    <3>1. /\ phase' = "sending"
          /\ gone' = [gone EXCEPT !.overtaken = gone.overtaken \cup C!Unread]
      BY <1>11, <2>3 DEF C!SendDataL
    <3>2. Waiting' = <<>> BY <3>1 DEF Waiting
    <3>3. Gone' = Gone \cup C!Range(Waiting)
      <4>1. /\ gone'.damaged = gone.damaged /\ gone'.unread = gone.unread
            /\ gone'.overtaken = gone.overtaken \cup C!Unread
        BY <1>0, <3>1
      <4> QED BY <4>1, UnreadIs DEF Gone
    <3>4. Fits(got, <<>>, line, Gone \cup C!Range(Waiting), sent) BY <1>0, FitsLose DEF InPlace
    <3> QED BY <2>1, <3>2, <3>3, <3>4 DEF InPlace
  <2> QED BY <2>2, <2>3
<1> QED BY <1>1, <1>2, <1>3, <1>4, <1>5, <1>6, <1>7, <1>8, <1>9, <1>10, <1>11 DEF C!Next

-------------------------------------------------------------------------------
(* Handles.                                                                *)

LEMMA SpareIs ==
  ASSUME NEW d \in Nat, NEW l, NEW h \in C!Handles
  PROVE  /\ Spare(d, l, h) \in Nat
         /\ h = "session" => Spare(d, l, h) = d
         /\ h \in {"server", "port", "channel", "protocol", "socket", "agent"}
              => Spare(d, l, h) = 0
         /\ h = "dcc driver" =>
              Spare(d, l, h) = IF "dcc" \in C!Kinds /\ l["dcc"] = "channel" THEN 1 ELSE 0
         /\ h = "xti driver" =>
              Spare(d, l, h) = IF "xti" \in C!Kinds /\ l["xti"] = "channel" THEN 1 ELSE 0
<1>1. Spare(d, l, h) \in Nat BY DEF Spare
<1>2. h = "session" => Spare(d, l, h) = d BY DEF Spare
<1>3. h \in {"server", "port", "channel", "protocol", "socket", "agent"}
        => h # "session" /\ ~Lingers(l, h)
  BY DEF Lingers, C!Freed
<1>4. h = "dcc driver"
        => h # "session" /\ (Lingers(l, h) <=> "dcc" \in C!Kinds /\ l["dcc"] = "channel")
  BY DEF Lingers, C!Freed
<1>5. h = "xti driver"
        => h # "session" /\ (Lingers(l, h) <=> "xti" \in C!Kinds /\ l["xti"] = "channel")
  BY DEF Lingers, C!Freed
<1>6. h \in {"server", "port", "channel", "protocol", "socket", "agent"} => Spare(d, l, h) = 0
  BY <1>3, Zenon DEF Spare
<1>7. h = "dcc driver" =>
        Spare(d, l, h) = IF "dcc" \in C!Kinds /\ l["dcc"] = "channel" THEN 1 ELSE 0
  BY <1>4, Zenon DEF Spare
<1>8. h = "xti driver" =>
        Spare(d, l, h) = IF "xti" \in C!Kinds /\ l["xti"] = "channel" THEN 1 ELSE 0
  BY <1>5, Zenon DEF Spare
<1> QED BY <1>1, <1>2, <1>6, <1>7, <1>8, Zenon

(* Another last failure of k matters to the driver of k only.              *)
LEMMA SpareOther ==
  ASSUME NEW d \in Nat, NEW l, NEW m, NEW k, \A c \in C!Kinds : c # k => m[c] = l[c],
         NEW h \in C!Handles, h \notin C!Freed(k)
  PROVE  Spare(d, m, h) = Spare(d, l, h)
<1>1. Lingers(m, h) <=> Lingers(l, h) BY DEF Lingers
<1> QED BY <1>1 DEF Spare

LEMMA SpareFreed ==
  ASSUME NEW d \in Nat, NEW m, NEW k \in C!Kinds, NEW h \in C!Freed(k)
  PROVE  Spare(d, m, h) = IF m[k] = "channel" THEN 1 ELSE 0
<1>1. h # "session" BY DEF C!Freed
<1>2. \A c \in C!Kinds : h \in C!Freed(c) => c = k BY DEF C!Freed
<1>3. Lingers(m, h) <=> m[k] = "channel" BY <1>2 DEF Lingers
<1> QED BY <1>1, <1>3 DEF Spare

(* Closing what has been opened leaves what was there.                     *)
LEMMA ClosingIs ==
  ASSUME NEW f \in [C!Handles -> Nat], NEW k, NEW on, NEW in, NEW h \in C!Handles
  PROVE  /\ h \in C!Releases(k, on, in) /\ f[h] > 0 => C!Closing(f, k, on, in)[h] = f[h] - 1
         /\ ~(h \in C!Releases(k, on, in) /\ f[h] > 0) => C!Closing(f, k, on, in)[h] = f[h]
BY DEF C!Closing

LEMMA KeptStop ==
  ASSUME PortTyped, Kept, NEW h \in C!Handles, port # "none"
  PROVE  C!Closing(open, port, started, opened)[h] = Spare(denied, last, h)
<1> DEFINE r == C!Releases(port, started, opened)
<1>1. port \in {"serial", "bt", "usb", "dcc", "xti"} BY DEF C!Kinds, PortTyped
<1>2. open \in [C!Handles -> Nat] /\ denied \in Nat BY DEF PortTyped
<1>3. open[h] = Spare(denied, last, h) + (IF h \in Own THEN 1 ELSE 0) BY DEF Kept
<1>4. Spare(denied, last, h) \in Nat BY <1>2, SpareIs
<1>5. h \in Own => h \in r
  <2>1. port = "bt" => started BY DEF Kept
  <2>2. port \in {"usb", "dcc", "xti"} => opened BY DEF Kept
  <2> QED BY <1>1, <2>1, <2>2 DEF Own, OwnOf, C!Releases, C!Freed
<1>6. h \in r /\ h \notin Own => h = "agent"
  BY <1>1 DEF Own, OwnOf, C!Releases, C!Freed
<1>7. CASE h \in Own
  <2>1. open[h] > 0 /\ open[h] - 1 = Spare(denied, last, h) BY <1>3, <1>4, <1>7
  <2> QED BY <1>2, <1>5, <1>7, <2>1, ClosingIs
<1>8. CASE h \notin Own
  <2>1. open[h] = Spare(denied, last, h) BY <1>3, <1>4, <1>8
  <2>2. h = "agent" => ~(open[h] > 0)
    <3>1. h = "agent" => Spare(denied, last, h) = 0 BY <1>2, SpareIs
    <3> QED BY <2>1, <3>1
  <2>3. ~(h \in r /\ open[h] > 0) BY <1>6, <1>8, <2>2
  <2> QED BY <1>2, <2>1, <2>3, ClosingIs
<1> QED BY <1>7, <1>8

LEMMA KeptStarted ==
  ASSUME PortTyped, Kept, port = "none", NEW k \in C!Kinds, NEW h \in C!Handles,
         NEW m, m = [last EXCEPT ![k] = "no"]
  PROVE  C!OpenedBy(k, Len(C!Steps[k]))[h] =
           Spare(denied, m, h) + (IF h \in OwnOf(k, TRUE) THEN 1 ELSE 0)
<1> DEFINE d == C!Done(k, Len(C!Steps[k]))
<1>1. k \in {"serial", "bt", "usb", "dcc", "xti"} BY DEF C!Kinds
<1>2. denied \in Nat /\ open \in [C!Handles -> Nat] /\ DOMAIN last = C!Kinds BY DEF PortTyped
<1>3. h \in d <=> h \in OwnOf(k, TRUE)
  <2>1. CASE k = "serial"
    <3>1. 7 \in 0..7 /\ 7 >= 1 /\ 7 >= 5 OBVIOUS
    <3>2. Len(C!Steps["serial"]) = 7 BY StepsLength
    <3>3. h \in C!Done("serial", 7) <=> h \in OwnOf("serial", TRUE)
      BY <3>1, SerialDone, Zenon DEF OwnOf
    <3> QED BY <2>1, <3>2, <3>3, Zenon
  <2>2. CASE k = "bt"
    <3>1. 5 \in 0..5 /\ 5 >= 1 /\ 5 >= 4 /\ 5 >= 5 OBVIOUS
    <3>2. Len(C!Steps["bt"]) = 5 BY StepsLength
    <3>3. h \in C!Done("bt", 5) <=> h \in OwnOf("bt", TRUE) BY <3>1, BtDone, Zenon DEF OwnOf
    <3> QED BY <2>2, <3>2, <3>3, Zenon
  <2>3. CASE k = "usb"
    <3>1. 5 \in 0..5 /\ 5 >= 1 /\ 5 >= 4 /\ 5 >= 5 OBVIOUS
    <3>2. Len(C!Steps["usb"]) = 5 BY StepsLength
    <3>3. h \in C!Done("usb", 5) <=> h \in OwnOf("usb", TRUE) BY <3>1, UsbDone, Zenon DEF OwnOf
    <3> QED BY <2>3, <3>2, <3>3, Zenon
  <2>4. CASE k = "dcc"
    <3>1. 2 \in 0..2 /\ 2 >= 1 /\ 2 >= 2 OBVIOUS
    <3>2. Len(C!Steps["dcc"]) = 2 BY StepsLength
    <3>3. h \in C!Done("dcc", 2) <=> h \in OwnOf("dcc", TRUE) BY <3>1, DccDone, Zenon DEF OwnOf
    <3> QED BY <2>4, <3>2, <3>3, Zenon
  <2>5. CASE k = "xti"
    <3>1. 2 \in 0..2 /\ 2 >= 1 /\ 2 >= 2 OBVIOUS
    <3>2. Len(C!Steps["xti"]) = 2 BY StepsLength
    <3>3. h \in C!Done("xti", 2) <=> h \in OwnOf("xti", TRUE) BY <3>1, XtiDone, Zenon DEF OwnOf
    <3> QED BY <2>5, <3>2, <3>3, Zenon
  <2> QED BY <1>1, <2>1, <2>2, <2>3, <2>4, <2>5
<1>4. open[h] = Spare(denied, last, h)
  <2>1. Own = {} BY DEF Own, OwnOf
  <2>2. Spare(denied, last, h) \in Nat BY <1>2, SpareIs
  <2> QED BY <2>1, <2>2 DEF Kept
<1>m. m[k] = "no" /\ \A c \in C!Kinds : c # k => m[c] = last[c] BY <1>2
<1>5. (IF h \in C!Freed(k) THEN 0 ELSE open[h]) = Spare(denied, m, h)
  <2>1. CASE h \in C!Freed(k)
    <3>1. Spare(denied, m, h) = IF m[k] = "channel" THEN 1 ELSE 0
      BY <1>2, <2>1, SpareFreed
    <3>2. m[k] # "channel" BY <1>m
    <3> QED BY <2>1, <3>1, <3>2, Zenon
  <2>2. CASE h \notin C!Freed(k)
    <3>1. Spare(denied, m, h) = Spare(denied, last, h) BY <1>2, <1>m, <2>2, SpareOther
    <3> QED BY <1>4, <2>2, <3>1, Zenon
  <2> QED BY <2>1, <2>2
<1>6. C!OpenedBy(k, Len(C!Steps[k]))[h] = (IF h \in C!Freed(k) THEN 0 ELSE open[h])
                                       + (IF h \in d THEN 1 ELSE 0)
  BY DEF C!OpenedBy
<1> QED BY <1>3, <1>5, <1>6, Zenon

LEMMA KeptFailed ==
  ASSUME PortTyped, Kept, port = "none", NEW k \in C!Kinds, NEW h \in C!Handles,
         NEW n \in 0..Len(C!Steps[k]), C!StartFails(k, n)
  PROVE  open'[h] = Spare(denied', last', h)
<1> DEFINE m == last'
           d == denied'
           f == C!OpenedBy(k, n)
           on == "server" \in C!Done(k, n)
           in == C!ConnectedBy(k, n)
           base == IF h \in C!Freed(k) THEN 0 ELSE Spare(denied, last, h)
<1>d. d = IF k = "usb" /\ n \in 1..3 THEN denied + 1 ELSE denied BY DEF C!StartFails
<1>m. m = [last EXCEPT ![k] = IF n < Len(C!Steps[k]) THEN C!Steps[k][n + 1] ELSE "no"]
  BY DEF C!StartFails
<1>n. n < Len(C!Steps[k]) \/ k = "serial" BY DEF C!StartFails
<1>c. open' = C!Closing(f, k, on, in) BY DEF C!StartFails
<1>1. k \in {"serial", "bt", "usb", "dcc", "xti"} BY DEF C!Kinds
<1>2. denied \in Nat /\ open \in [C!Handles -> Nat] /\ DOMAIN last = C!Kinds BY DEF PortTyped
<1> HIDE DEF m, d
<1>3. f \in [C!Handles -> Nat] BY OpenedTyped
<1>4. open[h] = Spare(denied, last, h) /\ Spare(denied, last, h) \in Nat
  <2>1. Own = {} BY DEF Own, OwnOf
  <2>2. Spare(denied, last, h) \in Nat BY <1>2, SpareIs
  <2> QED BY <2>1, <2>2 DEF Kept
<1>5. base \in Nat BY <1>4
<1>6. /\ h \in C!Done(k, n) => f[h] = base + 1
      /\ h \notin C!Done(k, n) => f[h] = base
  <2>1. f[h] = base + (IF h \in C!Done(k, n) THEN 1 ELSE 0) BY <1>4 DEF C!OpenedBy
  <2> QED BY <1>5, <2>1
<1>7. d \in Nat BY <1>2, <1>d
<1>8. /\ \A c \in C!Kinds : c # k => m[c] = last[c]
      /\ n < Len(C!Steps[k]) => m[k] = C!Steps[k][n + 1]
  BY <1>2, <1>m
<1>9. h \notin C!Freed(k) => Spare(denied, m, h) = Spare(denied, last, h)
  <2> SUFFICES ASSUME h \notin C!Freed(k) PROVE Spare(denied, m, h) = Spare(denied, last, h)
    OBVIOUS
  <2>1. \A c \in C!Kinds : c # k => m[c] = last[c] BY <1>8
  <2> QED BY <1>2, <2>1, SpareOther
<1>10. h \in C!Freed(k) => Spare(denied, m, h) = IF m[k] = "channel" THEN 1 ELSE 0
  BY <1>2, SpareFreed
<1>11. /\ h \in C!Releases(k, on, in) /\ f[h] > 0 => C!Closing(f, k, on, in)[h] = f[h] - 1
       /\ ~(h \in C!Releases(k, on, in) /\ f[h] > 0) => C!Closing(f, k, on, in)[h] = f[h]
  BY <1>3, ClosingIs
<1> HIDE DEF f, on, in, base
<1> SUFFICES C!Closing(f, k, on, in)[h] = Spare(d, m, h) BY <1>c DEF m, d
(* What is closed is what was opened, and nothing else is there.           *)
<1>12. ASSUME h \in C!Done(k, n) => h \in C!Releases(k, on, in),
              h \in C!Releases(k, on, in) => h \in C!Done(k, n) \/ base = 0
       PROVE  C!Closing(f, k, on, in)[h] = base
  <2>1. CASE h \in C!Done(k, n) BY <1>5, <1>6, <1>11, <1>12, <2>1
  <2>2. CASE h \notin C!Done(k, n)
    <3>1. f[h] = base BY <1>6, <2>2
    <3>2. ~(h \in C!Releases(k, on, in) /\ f[h] > 0) BY <1>12, <2>2, <3>1
    <3> QED BY <1>11, <3>1, <3>2
  <2> QED BY <2>1, <2>2
<1>13. ASSUME h \notin C!Releases(k, on, in), h \in C!Done(k, n)
       PROVE  C!Closing(f, k, on, in)[h] = base + 1
  BY <1>6, <1>11, <1>13
<1>14. /\ h \in {"server", "port", "channel", "protocol", "socket", "agent"} => base = 0
       /\ h \notin C!Freed(k) => base = Spare(denied, last, h)
  <2>1. h \in {"server", "port", "channel", "protocol", "socket", "agent"}
          => Spare(denied, last, h) = 0
    BY <1>2, SpareIs
  <2> QED BY <2>1 DEF base
<1>15. CASE k = "serial"
  <2>1. C!Freed(k) = {} /\ C!Releases(k, on, in) = {"server", "port"}
    BY <1>15 DEF C!Freed, C!Releases
  <2>2. n \in 0..7 BY <1>15, StepsLength
  <2>3. h \in C!Done(k, n) => h \in {"server", "port"} BY <1>15, <2>2, SerialDone, Zenon
  <2>4. C!Closing(f, k, on, in)[h] = base BY <1>12, <1>14, <2>1, <2>3
  <2>5. d = denied BY <1>15, <1>d
  <2> QED BY <1>9, <1>14, <2>1, <2>4, <2>5
<1>16. CASE k = "bt"
  <2>1. C!Freed(k) = {} BY <1>16 DEF C!Freed
  <2>2. C!Releases(k, on, in) = {"agent"} \cup IF on THEN {"server", "socket"} ELSE {}
    BY <1>16 DEF C!Releases
  <2>3. n \in 0..5 /\ ~(n >= 5) /\ (n >= 4 => n >= 1)
    <3>1. Len(C!Steps[k]) = 5 BY <1>16, StepsLength
    <3> QED BY <1>16, <1>n, <3>1
  <2>4. on <=> n >= 1
    <3>1. "server" \in C!Done("bt", n) <=> n >= 1
      <4>1. "server" \in C!Handles /\ "server" # "socket" /\ "server" # "agent"
        BY DEF C!Handles
      <4> QED BY <2>3, <4>1, BtDone, Zenon
    <3> QED BY <1>16, <3>1 DEF on
  <2>5. h \in C!Done(k, n) => (h = "server" \/ h = "socket") /\ n >= 1
    BY <1>16, <2>3, BtDone, Zenon
  <2>6. C!Closing(f, k, on, in)[h] = base
    <3>1. h \in C!Done(k, n) => h \in C!Releases(k, on, in) BY <2>2, <2>4, <2>5, Zenon
    <3>2. h \in C!Releases(k, on, in) => base = 0
      <4>1. h \in C!Releases(k, on, in) =>
              h \in {"server", "port", "channel", "protocol", "socket", "agent"}
        BY <2>2
      <4> QED BY <1>14, <4>1
    <3> QED BY <1>12, <3>1, <3>2
  <2>7. d = denied BY <1>16, <1>d
  <2> QED BY <1>9, <1>14, <2>1, <2>6, <2>7
<1>17. CASE k = "usb"
  <2>1. C!Freed(k) = {} BY <1>17 DEF C!Freed
  <2>2. C!Releases(k, on, in) = IF in THEN {"protocol", "channel", "session"} ELSE {}
    BY <1>17 DEF C!Releases
  <2>3. n \in 0..4 /\ n \in 0..5
    <3>1. Len(C!Steps[k]) = 5 BY <1>17, StepsLength
    <3> QED BY <1>17, <1>n, <3>1
  <2>4. /\ "channel" \in C!Done("usb", n) <=> n >= 4
        /\ "port" \notin C!Done("usb", n)
    <3>1. /\ "channel" \in C!Handles /\ "channel" # "session" /\ "channel" # "protocol"
          /\ "port" \in C!Handles /\ "port" # "session" /\ "port" # "protocol"
          /\ "port" # "channel"
      BY DEF C!Handles
    <3> QED BY <2>3, <3>1, UsbDone, Zenon
  <2>5. in <=> n >= 4
    <3>1. in <=> "channel" \in C!Done("usb", n) BY <1>17, <2>4, Zenon DEF in, C!ConnectedBy
    <3> QED BY <2>4, <3>1, Zenon
  <2>6. /\ h = "session" => (h \in C!Done(k, n) <=> n >= 1)
        /\ h = "channel" => (h \in C!Done(k, n) <=> n >= 4)
        /\ h \in C!Done(k, n) => h = "session" \/ h = "channel" \/ (h = "protocol" /\ n >= 5)
    <3>1. "channel" # "session" /\ "protocol" # "session" /\ "channel" # "protocol" OBVIOUS
    <3> QED BY <1>17, <2>3, <3>1, UsbDone, Zenon
  <2>7. CASE h = "session"
    <3>1. base = denied
      <4>1. Spare(denied, last, h) = denied BY <1>2, <2>7, SpareIs
      <4> QED BY <1>14, <2>1, <4>1
    <3>2. Spare(d, m, h) = d BY <1>7, <2>7, SpareIs
    <3>3. CASE n = 0
      <4>1. C!Closing(f, k, on, in)[h] = base BY <1>12, <2>2, <2>5, <2>6, <2>7, <3>3
      <4> QED BY <3>1, <3>2, <3>3, <4>1, <1>d
    <3>4. CASE n \in 1..3
      <4>1. C!Closing(f, k, on, in)[h] = base + 1 BY <1>13, <2>2, <2>5, <2>6, <2>7, <3>4
      <4>2. d = denied + 1 BY <1>17, <3>4, <1>d
      <4> QED BY <3>1, <3>2, <4>1, <4>2
    <3>5. CASE n = 4
      <4>1. n >= 1 /\ n >= 4 BY <3>5
      <4>2. h \in C!Done(k, n) BY <2>6, <2>7, <4>1, Zenon
      <4>3. h \in C!Releases(k, on, in) BY <2>2, <2>5, <2>7, <4>1, Zenon
      <4>4. C!Closing(f, k, on, in)[h] = base BY <1>12, <4>2, <4>3
      <4> QED BY <3>1, <3>2, <3>5, <4>4, <1>d
    <3> QED BY <2>3, <3>3, <3>4, <3>5
  <2>8. CASE h # "session"
    <3>1. h \in C!Done(k, n) => h \in C!Releases(k, on, in)
      <4>1. ~(n >= 5) BY <2>3
      <4> QED BY <2>2, <2>5, <2>6, <2>8, <4>1, Zenon
    <3>2. h \in C!Releases(k, on, in) => base = 0
      <4>1. h \in C!Releases(k, on, in) =>
              h \in {"server", "port", "channel", "protocol", "socket", "agent"}
        BY <2>2, <2>8
      <4> QED BY <1>14, <4>1
    <3>3. C!Closing(f, k, on, in)[h] = base BY <1>12, <3>1, <3>2
    <3>4. Spare(d, m, h) = Spare(denied, m, h) BY <2>8 DEF Spare
    <3> QED BY <1>9, <1>14, <1>17, <1>d, <2>1, <2>8, <3>3, <3>4
  <2> QED BY <2>7, <2>8
<1>18. ASSUME k = "dcc" \/ k = "xti",
              NEW x, x \in C!Handles, x \notin {"server", "port", "channel"}, C!Freed(k) = {x},
              h \in C!Done(k, n) => h = x, x \in C!Done(k, n) <=> n = 1,
              "channel" \notin C!Done(k, n),
              "port" \notin C!Done(k, n), n = 0 \/ n = 1, n = 0 => m[k] # "channel",
              n = 1 => m[k] = "channel"
       PROVE  C!Closing(f, k, on, in)[h] = Spare(d, m, h)
  <2>1. ~in BY <1>18 DEF in, C!ConnectedBy
  <2>2. C!Releases(k, on, in) = {} BY <1>18, <2>1 DEF C!Releases
  <2>3. d = denied BY <1>18, <1>d
  <2>4. CASE h = x
    <3>1. base = 0 BY <1>18, <2>4 DEF base
    <3>2. CASE n = 0
      <4>1. h \notin C!Done(k, n) BY <1>18, <2>4, <3>2
      <4>2. C!Closing(f, k, on, in)[h] = base BY <1>12, <2>2, <4>1
      <4>3. Spare(denied, m, h) = 0
        <5>1. h \in C!Freed(k) /\ m[k] # "channel" BY <1>18, <2>4, <3>2
        <5> QED BY <1>10, <5>1, Zenon
      <4> QED BY <2>3, <3>1, <4>2, <4>3
    <3>3. CASE n = 1
      <4>1. h \in C!Done(k, n) BY <1>18, <2>4, <3>3
      <4>2. C!Closing(f, k, on, in)[h] = base + 1 BY <1>13, <2>2, <4>1
      <4>3. Spare(denied, m, h) = 1
        <5>1. h \in C!Freed(k) /\ m[k] = "channel" BY <1>18, <2>4, <3>3
        <5> QED BY <1>10, <5>1, Zenon
      <4> QED BY <2>3, <3>1, <4>2, <4>3
    <3> QED BY <1>18, <3>2, <3>3
  <2>5. CASE h # x
    <3>1. h \notin C!Freed(k) /\ h \notin C!Done(k, n) BY <1>18, <2>5
    <3>2. C!Closing(f, k, on, in)[h] = base BY <1>12, <2>2, <3>1
    <3> QED BY <1>9, <1>14, <2>3, <3>1, <3>2
  <2> QED BY <2>4, <2>5
<1>19. CASE k = "dcc"
  <2>1. Len(C!Steps[k]) = 2 BY <1>19, StepsLength
  <2>2. n \in 0..2 /\ n < Len(C!Steps[k]) BY <1>19, <1>n, <2>1
  <2>3. (n = 0 \/ n = 1) /\ (n >= 1 <=> n = 1) /\ ~(n >= 2) BY <2>1, <2>2
  <2>4. /\ h \in C!Done(k, n) => h = "dcc driver"
        /\ "dcc driver" \in C!Done(k, n) <=> n = 1
        /\ "channel" \notin C!Done(k, n) /\ "port" \notin C!Done(k, n)
    <3>1. /\ "dcc driver" \in C!Handles /\ "channel" \in C!Handles /\ "port" \in C!Handles
          /\ "dcc driver" # "channel" /\ "port" # "channel" /\ "port" # "dcc driver"
      BY DEF C!Handles
    <3> QED BY <1>19, <2>2, <2>3, <3>1, DccDone, Zenon
  <2>5. m[k] = C!Steps[k][n + 1] BY <1>8, <2>2
  <2>6. n = 0 => m[k] # "channel"
    <3>1. C!Steps["dcc"][1] # "channel" BY DEF C!Steps, C!DccSteps
    <3>2. n = 0 => n + 1 = 1 OBVIOUS
    <3> QED BY <1>19, <2>5, <3>1, <3>2, Zenon
  <2>7. n = 1 => m[k] = "channel"
    <3>1. C!Steps["dcc"][2] = "channel" BY DEF C!Steps, C!DccSteps
    <3>2. n = 1 => n + 1 = 2 OBVIOUS
    <3> QED BY <1>19, <2>5, <3>1, <3>2, Zenon
  <2>8. /\ C!Freed(k) = {"dcc driver"} /\ "dcc driver" \in C!Handles
        /\ "dcc driver" \notin {"server", "port", "channel"}
    BY <1>19 DEF C!Freed, C!Handles
  <2> QED BY <1>18, <1>19, <2>3, <2>4, <2>6, <2>7, <2>8, Zenon
<1>20. CASE k = "xti"
  <2>1. Len(C!Steps[k]) = 2 BY <1>20, StepsLength
  <2>2. n \in 0..2 /\ n < Len(C!Steps[k]) BY <1>20, <1>n, <2>1
  <2>3. (n = 0 \/ n = 1) /\ (n >= 1 <=> n = 1) /\ ~(n >= 2) BY <2>1, <2>2
  <2>4. /\ h \in C!Done(k, n) => h = "xti driver"
        /\ "xti driver" \in C!Done(k, n) <=> n = 1
        /\ "channel" \notin C!Done(k, n) /\ "port" \notin C!Done(k, n)
    <3>1. /\ "xti driver" \in C!Handles /\ "channel" \in C!Handles /\ "port" \in C!Handles
          /\ "xti driver" # "channel" /\ "port" # "channel" /\ "port" # "xti driver"
      BY DEF C!Handles
    <3> QED BY <1>20, <2>2, <2>3, <3>1, XtiDone, Zenon
  <2>5. m[k] = C!Steps[k][n + 1] BY <1>8, <2>2
  <2>6. n = 0 => m[k] # "channel"
    <3>1. C!Steps["xti"][1] # "channel" BY DEF C!Steps, C!XtiSteps
    <3>2. n = 0 => n + 1 = 1 OBVIOUS
    <3> QED BY <1>20, <2>5, <3>1, <3>2, Zenon
  <2>7. n = 1 => m[k] = "channel"
    <3>1. C!Steps["xti"][2] = "channel" BY DEF C!Steps, C!XtiSteps
    <3>2. n = 1 => n + 1 = 2 OBVIOUS
    <3> QED BY <1>20, <2>5, <3>1, <3>2, Zenon
  <2>8. /\ C!Freed(k) = {"xti driver"} /\ "xti driver" \in C!Handles
        /\ "xti driver" \notin {"server", "port", "channel"}
    BY <1>20 DEF C!Freed, C!Handles
  <2> QED BY <1>18, <1>20, <2>3, <2>4, <2>6, <2>7, <2>8, Zenon
<1> QED BY <1>1, <1>15, <1>16, <1>17, <1>19, <1>20

LEMMA KeptStep == ASSUME PortTyped, Requests, Kept, C!Next PROVE Kept'
<1>1. ASSUME NEW k \in C!Kinds, C!StartL(k) PROVE Kept'
  <2>1. port = "none" BY <1>1 DEF C!StartL
  <2>2. CASE C!Started(k)
    <3>1. /\ port' = k /\ open' = C!OpenedBy(k, Len(C!Steps[k])) /\ denied' = denied
          /\ last' = [last EXCEPT ![k] = "no"]
      BY <2>2 DEF C!Started
    <3>2. \A h \in C!Handles : h \in Own' <=> h \in OwnOf(k, TRUE)
      <4>1. k = "bt" => Seeks' = TRUE BY <2>2 DEF C!Started, C!Listen, Seeks
      <4>2. k # "bt" => OwnOf(k, Seeks') = OwnOf(k, TRUE) BY DEF OwnOf
      <4>3. Own' = OwnOf(k, Seeks') BY <3>1 DEF Own
      <4> QED BY <4>1, <4>2, <4>3
    <3>3. \A h \in C!Handles :
            open'[h] = Spare(denied', last', h) + (IF h \in Own' THEN 1 ELSE 0)
      <4> TAKE h \in C!Handles
      <4>1. C!OpenedBy(k, Len(C!Steps[k]))[h] =
              Spare(denied, last', h) + (IF h \in OwnOf(k, TRUE) THEN 1 ELSE 0)
        BY <2>1, <3>1, KeptStarted
      <4> QED BY <3>1, <3>2, <4>1, Zenon
    <3>4. port' = "bt" => started'
      <4>1. 5 \in 0..5 /\ 5 >= 1 OBVIOUS
      <4>2. "server" \in C!Handles BY DEF C!Handles
      <4>3. "server" \in C!Done("bt", 5) BY <4>1, <4>2, BtDone, Zenon
      <4>4. Len(C!Steps["bt"]) = 5 BY StepsLength
      <4> QED BY <2>2, <3>1, <4>3, <4>4, Zenon DEF C!Started
    <3>5. port' \in {"usb", "dcc", "xti"} => opened'
      <4>1. 5 \in 0..5 /\ 5 >= 4 /\ 2 \in 0..2 /\ 2 >= 2 OBVIOUS
      <4>2. "channel" \in C!Handles BY DEF C!Handles
      <4>3. /\ "channel" \in C!Done("usb", 5) /\ "channel" \in C!Done("dcc", 2)
            /\ "channel" \in C!Done("xti", 2)
        BY <4>1, <4>2, UsbDone, DccDone, XtiDone, Zenon
      <4>4. Len(C!Steps["usb"]) = 5 /\ Len(C!Steps["dcc"]) = 2 /\ Len(C!Steps["xti"]) = 2
        BY StepsLength
      <4>5. ASSUME k \in {"usb", "dcc", "xti"} PROVE "channel" \in C!Done(k, Len(C!Steps[k]))
        BY <4>3, <4>4, <4>5, Zenon
      <4>6. opened' = ({"port", "channel"} \cap C!Done(k, Len(C!Steps[k])) # {})
        BY <2>2 DEF C!Started, C!ConnectedBy
      <4> QED BY <3>1, <4>5, <4>6
    <3> QED BY <3>3, <3>4, <3>5 DEF Kept
  <2>3. ASSUME NEW n \in 0..Len(C!Steps[k]), C!StartFails(k, n) PROVE Kept'
    <3>1. denied' = IF k = "usb" /\ n \in 1..3 THEN denied + 1 ELSE denied
      BY <2>3 DEF C!StartFails
    <3>2. port' = "none" BY <2>1, <2>3 DEF C!StartFails, C!portVars
    <3>3. Own' = {} BY <3>2 DEF Own, OwnOf
    <3>4. \A h \in C!Handles : open'[h] = Spare(denied', last', h) BY <2>1, <2>3, KeptFailed
    <3>5. \A h \in C!Handles : Spare(denied', last', h) \in Nat
      <4>1. denied' \in Nat BY <3>1 DEF PortTyped
      <4> QED BY <4>1, SpareIs
    <3> QED BY <3>2, <3>3, <3>4, <3>5 DEF Kept
  <2> QED BY <1>1, <2>2, <2>3 DEF C!StartL
<1>s. ASSUME Own' = Own, UNCHANGED <<open, denied, last, port, started>>,
             opened' = opened \/ port = "bt"
      PROVE  Kept'
  BY <1>s DEF Kept
<1>o. ASSUME port' = port, port # "bt" \/ Seeks' = Seeks PROVE Own' = Own
  BY <1>o DEF Own, OwnOf
<1>2. CASE C!Stop
  <2>1. CASE C!Hangs
    <3>1. UNCHANGED <<C!portVars, C!requestVars, open, C!ghostVars>> BY <1>2, <2>1 DEF C!Stop
    <3>2. Seeks' = Seeks BY <3>1 DEF C!requestVars, Seeks
    <3> QED BY <1>s, <1>o, <3>1, <3>2 DEF C!portVars, C!ghostVars
  <2>2. CASE ~C!Hangs
    <3>1. /\ port # "none" /\ port' = "none"
          /\ open' = C!Closing(open, port, started, opened) /\ UNCHANGED <<denied, last>>
      BY <1>2, <2>2 DEF C!Stop, C!ghostVars
    <3>2. Own' = {} BY <3>1 DEF Own, OwnOf
    <3>3. \A h \in C!Handles : open'[h] = Spare(denied', last', h) BY <3>1, KeptStop
    <3>4. \A h \in C!Handles : Spare(denied', last', h) \in Nat
      <4>1. denied' \in Nat BY <3>1 DEF PortTyped
      <4> QED BY <4>1, SpareIs
    <3> QED BY <3>1, <3>2, <3>3, <3>4 DEF Kept
  <2> QED BY <2>1, <2>2
<1>3. CASE C!Arrive
  <2>1. UNCHANGED <<C!portVars, C!requestVars, open, C!ghostVars>> BY <1>3 DEF C!Arrive
  <2>2. Seeks' = Seeks BY <2>1 DEF C!requestVars, Seeks
  <2> QED BY <1>s, <1>o, <2>1, <2>2 DEF C!portVars, C!ghostVars
<1>4. CASE C!Complete
  <2>1. UNCHANGED <<C!portVars, open, C!ghostVars>> BY <1>4 DEF C!Complete
  <2>2. Seeks' = Seeks
    <3>1. reading /\ phase' = phase /\ phase = "waiting" BY <1>4 DEF C!Complete, Requests
    <3> QED BY <3>1 DEF Seeks
  <2> QED BY <1>s, <1>o, <2>1, <2>2 DEF C!portVars, C!ghostVars
<1>5. CASE C!Fail
  <2>1. UNCHANGED <<C!portVars, open, denied, last>> BY <1>5 DEF C!Fail
  <2>2. Seeks' = Seeks
    <3>1. reading /\ phase' = phase /\ phase = "waiting" BY <1>5 DEF C!Fail, Requests
    <3> QED BY <3>1 DEF Seeks
  <2> QED BY <1>s, <1>o, <2>1, <2>2 DEF C!portVars
<1>6. CASE C!Run
  <2>1. port # "bt" /\ UNCHANGED <<C!portVars, open, C!ghostVars>> BY <1>6 DEF C!Run
  <2> QED BY <1>s, <1>o, <2>1 DEF C!portVars, C!ghostVars
<1>7. CASE C!RunBroken
  <2>1. UNCHANGED <<C!portVars, open, C!ghostVars>> BY <1>7 DEF C!RunBroken
  <2>2. Seeks' = Seeks BY <1>7 DEF C!RunBroken, Seeks
  <2> QED BY <1>s, <1>o, <2>1, <2>2 DEF C!portVars, C!ghostVars
<1>8. CASE C!RunSocket
  <2>1. UNCHANGED <<C!portVars, open, C!ghostVars>> BY <1>8 DEF C!RunSocket
  <2>2. Seeks' = Seeks BY <1>8 DEF C!RunSocket, C!IssueReadRequest, Seeks
  <2> QED BY <1>s, <1>o, <2>1, <2>2 DEF C!portVars, C!ghostVars
<1>9. CASE C!SearchEnds
  <2>1. /\ port = "bt" /\ active /\ status = "pending" /\ phase = "discovering"
        /\ status' # "pending" /\ open' = [open EXCEPT !["agent"] = 0]
        /\ UNCHANGED <<port, started, C!ghostVars>>
    BY <1>9 DEF C!SearchEnds
  <2>2. /\ \A h \in C!Handles : h \in Own' <=> h \in {"server", "socket"}
        /\ \A h \in C!Handles : h \in Own <=> h \in {"server", "socket", "agent"}
    <3>1. ~Seeks' /\ Seeks BY <2>1 DEF Seeks
    <3> QED BY <2>1, <3>1 DEF Own, OwnOf
  <2>3. ASSUME NEW h \in C!Handles
        PROVE  open'[h] = Spare(denied', last', h) + (IF h \in Own' THEN 1 ELSE 0)
    <3>1. open[h] = Spare(denied, last, h) + (IF h \in Own THEN 1 ELSE 0) BY DEF Kept
    <3>2. UNCHANGED <<denied, last>> BY <2>1 DEF C!ghostVars
    <3>3. CASE h = "agent"
      <4>1. open'[h] = 0 BY <2>1, <3>3 DEF PortTyped
      <4>2. Spare(denied, last, h) = 0
        <5>1. denied \in Nat BY DEF PortTyped
        <5> QED BY <3>3, <5>1, SpareIs
      <4>3. h \notin Own' BY <2>2, <3>3
      <4> QED BY <3>2, <4>1, <4>2, <4>3
    <3>4. CASE h # "agent"
      <4>1. open'[h] = open[h] BY <2>1, <3>4 DEF PortTyped
      <4>2. h \in Own' <=> h \in Own BY <2>2, <3>4
      <4> QED BY <3>1, <3>2, <4>1, <4>2
    <3> QED BY <3>3, <3>4
  <2>4. port' = "bt" => started' BY <2>1 DEF Kept
  <2>5. port' \notin {"usb", "dcc", "xti"} BY <2>1
  <2> QED BY <2>3, <2>4, <2>5 DEF Kept
<1>10. CASE C!ConnectToPortL
  <2>1. port = "bt" /\ UNCHANGED <<port, started, open, C!ghostVars>>
    BY <1>10 DEF C!ConnectToPortL
  <2>2. Seeks' = Seeks
    <3>1. ~Seeks BY <1>10 DEF C!ConnectToPortL, C!Due, Seeks
    <3>2. CASE C!IssueReadRequest BY <3>1, <3>2 DEF C!IssueReadRequest, Seeks
    <3>3. CASE UNCHANGED C!requestVars BY <3>3 DEF C!requestVars, Seeks
    <3> QED BY <1>10, <3>2, <3>3 DEF C!ConnectToPortL
  <2> QED BY <1>s, <1>o, <2>1, <2>2 DEF C!ghostVars
<1>11. CASE C!SendDataL
  <2>1. listening /\ UNCHANGED <<C!portVars, open, denied, last, active>>
    BY <1>11 DEF C!SendDataL
  <2>2. port # "bt" \/ Seeks' = Seeks
    <3>1. CASE port = "bt"
      <4>1. phase' = "sending" BY <1>11, <3>1 DEF C!SendDataL
      <4>2. ~(active /\ phase = "discovering") BY <2>1 DEF Requests, C!Next
      <4> QED BY <4>1, <4>2 DEF Seeks
    <3> QED BY <3>1
  <2> QED BY <1>s, <1>o, <2>1, <2>2 DEF C!portVars
<1> QED BY <1>1, <1>2, <1>3, <1>4, <1>5, <1>6, <1>7, <1>8, <1>9, <1>10, <1>11 DEF C!Next

-------------------------------------------------------------------------------
(* What holds of the port, for any number of starts, bytes and faults.      *)

LEMMA PortStutters == ASSUME PortInv, UNCHANGED C!vars PROVE PortInv'
<1> USE DEF C!vars, C!portVars, C!requestVars, C!lineVars, C!ghostVars, C!bounded
<1>1. PortTyped' BY DEF PortInv, PortTyped
<1>2. Requests' BY DEF PortInv, Requests
<1>3. InPlace' BY DEF PortInv, InPlace, Waiting, Gone
<1>4. Kept' BY DEF PortInv, Kept, Own, Seeks
<1> QED BY <1>1, <1>2, <1>3, <1>4 DEF PortInv

(* The invariant of the port: who waits for what, where each byte is, and  *)
(* which handles are there.                                                *)
LEMMA PortInvariant == AgentSpec => []PortInv
<1>1. AgentInit => PortInv BY PortInit DEF AgentInit
<1>2. PortInv /\ [AgentNext]_agentVars => PortInv'
  <2>1. [AgentNext]_agentVars => C!Next \/ UNCHANGED C!vars
    BY DEF AgentNext, agentVars, portVars, Debugging, Porting, C!vars, C!portVars,
           C!requestVars, C!lineVars, C!ghostVars, C!bounded
  <2>2. PortInv /\ C!Next => PortInv'
    BY TypedStep, RequestsStep, InPlaceStep, KeptStep DEF PortInv
  <2> QED BY <2>1, <2>2, PortStutters
<1> QED BY <1>1, <1>2, PTL DEF AgentSpec

(* Whichever port is made, whichever step of opening it fails and however  *)
(* it is closed: nothing is left open but the sessions and drivers that    *)
(* the failed openings pass over.                                          *)
THEOREM NothingLeftOpen == AgentSpec => []C!Released
<1>1. PortInv => C!Released
  <2> SUFFICES ASSUME PortInv, port = "none", NEW h \in C!Handles
               PROVE  open[h] = IF h = "session" THEN denied
                                ELSE IF Lingers(last, h) THEN 1 ELSE 0
    BY DEF C!Released, Lingers
  <2>1. Own = {} BY DEF Own, OwnOf
  <2>2. Spare(denied, last, h) \in Nat BY SpareIs DEF PortInv, PortTyped
  <2>3. open[h] = Spare(denied, last, h) BY <2>1, <2>2 DEF PortInv, Kept
  <2> QED BY <2>3 DEF Spare
<1> QED BY <1>1, PortInvariant, PTL

(* Over any number of reads, sends, errors and ports: bytes reach the      *)
(* framing layer in order and once, or are in one of the three places      *)
(* where the code drops them.                                              *)
THEOREM BytesAccountedFor == AgentSpec => []C!NothingSkipped
<1>1. PortInv => C!NothingSkipped
  BY UnreadIs DEF PortInv, InPlace, Fits, Ascends, C!NothingSkipped, Gone
<1> QED BY <1>1, PortInvariant, PTL

(* A port that listens always has a read or is about to issue one, but for *)
(* a Bluetooth port after an error.                                        *)
THEOREM KeepsHearing == AgentSpec => []C!Hears
<1>1. PortInv => C!Hears
  BY DEF PortInv, PortTyped, Requests, C!Hears
<1> QED BY <1>1, PortInvariant, PTL

(* The three together: what the agent relies on in its port.               *)
THEOREM PortIsKept == AgentSpec => []PortKept
BY NothingLeftOpen, BytesAccountedFor, KeepsHearing, PTL DEF PortKept
===============================================================================
