-------------------------------- MODULE TrkPorts --------------------------------
(***************************************************************************)
(* The communication port below the framing layer: CTrkEngine makes one of *)
(* five (serial, Bluetooth, debug trace over USB, DCC, XTI), opens it in   *)
(* steps each of which may fail, and deletes it.  The port is an active    *)
(* object that reads; replies and notifications are written while it is    *)
(* not running or from inside its RunL.                                    *)
(*                                                                         *)
(* One port at a time: a second layer is the matter of TrkConnection, the  *)
(* bytes are that of TrkFraming and TrkByteFraming.  A failing NewL leaves *)
(* before anything is opened and is left out, and so are the serial        *)
(* drivers, which stay loaded by intent.                                   *)
(***************************************************************************)
EXTENDS Naturals, Sequences, Functions

CONSTANTS
  MaxStarts,  \* bound: calls of StartL
  MaxBytes,   \* bound: bytes on the line
  MaxSends,   \* bound: notifications
  MaxFaults   \* bound: reads and writes that fail

BoundsAssumption ==
  MaxStarts \in Nat /\ MaxBytes \in Nat /\ MaxSends \in Nat /\ MaxFaults \in Nat

VARIABLES
  kind,        \* of iCommPort; "none" without a dispatch layer
  started,     \* iServerStarted
  connected,   \* iConnected, iLddLoaded
  connStatus,  \* iConnectionStatus
  listening,   \* iListening
  active,      \* the request of the active object is not yet handled
  status,      \* iStatus: "pending", "ok" or "error"
  state,       \* iState of the Bluetooth port; "waiting" for the others
  buffer,      \* iReceivedChars
  goal,        \* iUpdatedPort: what was "configured" or "found"
  open,        \* how many handles of each kind the process has
  reading,     \* the driver or server has a read of the port
  line,        \* the bytes, numbered, that have not been read
  sent,        \* bytes that have been on the line
  got,         \* what HandleByte was given
  gone,        \* the bytes that came and were not given to it, by cause
  broken,      \* a read or write of this port has failed
  denied,      \* USB ports that had a session and could not open the channel
  last,        \* where the last opening of each kind failed, or "no"
  starts, sends, faults, \* the bounded events so far
  limit        \* what ended the behaviour: the agent is "hung" or "panicked"

portVars == <<kind, started, connected, connStatus, listening, goal>>
requestVars == <<active, status, state, buffer, reading>>
lineVars == <<line, sent, got, gone>>
ghostVars == <<broken, denied, last>>
bounded == <<starts, sends, faults>>
vars == <<portVars, requestVars, open, lineVars, ghostVars, bounded, limit>>

(* TTrkCommType.                                                           *)
Kinds == {"serial", "bt", "usb", "dcc", "xti"}

(* The handles a port may leave behind: sessions and subsessions, the      *)
(* registration of the protocol, and the drivers of DCC and XTI.           *)
Handles == {"server", "port", "session", "channel", "protocol", "socket", "agent",
            "dcc driver", "xti driver"}

Init ==
  /\ kind = "none" /\ started = FALSE /\ connected = FALSE /\ connStatus = "not"
  /\ listening = FALSE /\ active = FALSE /\ status = "ok" /\ state = "waiting"
  /\ buffer = <<>> /\ goal = "configured" /\ open = [h \in Handles |-> 0]
  /\ reading = FALSE /\ line = <<>> /\ sent = 0 /\ got = <<>>
  /\ gone = [damaged |-> {}, overtaken |-> {}, unread |-> {}]
  /\ broken = FALSE /\ denied = 0 /\ last = [k \in Kinds |-> "no"]
  /\ starts = 0 /\ sends = 0 /\ faults = 0 /\ limit = "no"

-------------------------------------------------------------------------------
(* OpenPortL: what each step obtains, or checks, in order.                 *)
SerialSteps == <<"server", "module", "port info", "drivers", "port", "rate", "config">>
BtSteps == <<"server", "device", "rfcomm", "socket", "agent">>
UsbSteps == <<"session", "get config", "set config", "channel", "protocol">>
DccSteps == <<"dcc driver", "channel">>
XtiSteps == <<"xti driver", "channel">>

Steps == [serial |-> SerialSteps, bt |-> BtSteps, usb |-> UsbSteps,
          dcc |-> DccSteps, xti |-> XtiSteps]

Done(k, n) == {Steps[k][i] : i \in 1..n}

(* The driver of a DCC or XTI port is freed before it is loaded.           *)
Freed(k) == IF k = "dcc" THEN {"dcc driver"} ELSE IF k = "xti" THEN {"xti driver"} ELSE {}

OpenedBy(k, n) ==
  [h \in Handles |-> (IF h \in Freed(k) THEN 0 ELSE open[h])
                     + (IF h \in Done(k, n) THEN 1 ELSE 0)]

(* iConnected or iLddLoaded after n steps; Bluetooth connects later.       *)
ConnectedBy(k, n) == {"port", "channel"} \cap Done(k, n) # {}

(* Mutant: the session of the USB port is left to a Disconnect.            *)
ReleasesButSession(k, on, in) ==
  CASE k = "serial" -> {"server", "port"}
    [] k = "bt" -> {"agent"} \cup IF on THEN {"server", "socket"} ELSE {}
    [] k = "usb" -> IF in THEN {"protocol", "channel"} ELSE {}
    [] OTHER -> IF in THEN {"channel"} \cup Freed(k) ELSE {}

(* ClosePort and the destructor: what they close, by the flags.  A session *)
(* takes its subsessions along.                                            *)
Releases(k, on, in) ==
  CASE k = "serial" -> {"server", "port"}
    [] k = "bt" -> {"agent"} \cup IF on THEN {"server", "socket"} ELSE {}
    [] k = "usb" -> IF in THEN {"protocol", "channel", "session"} ELSE {}
    [] OTHER -> IF in THEN {"channel"} \cup Freed(k) ELSE {}

Closing(handles, k, on, in) ==
  [h \in Handles |-> IF h \in Releases(k, on, in) /\ handles[h] > 0
                     THEN handles[h] - 1 ELSE handles[h]]

-------------------------------------------------------------------------------
(* CTrkEngine.                                                             *)

(* StartL leaves from a step of OpenPortL, or over a serial line from the  *)
(* greeting, and the manager calls Stop.                                   *)
StartFails(k, n) ==
  /\ n < Len(Steps[k]) \/ k = "serial"
  /\ open' = Closing(OpenedBy(k, n), k, "server" \in Done(k, n), ConnectedBy(k, n))
  /\ last' = [last EXCEPT ![k] = IF n < Len(Steps[k]) THEN Steps[k][n + 1] ELSE "no"]
  /\ denied' = IF k = "usb" /\ n \in 1..3 THEN denied + 1 ELSE denied
  /\ UNCHANGED <<portVars, requestVars, lineVars, broken>>

(* Listen, which issues the first read; or DiscoverPortL of a Bluetooth    *)
(* port.                                                                   *)
Listen(k) ==
  /\ listening' = (k # "bt") /\ reading' = (k # "bt")
  /\ active' = TRUE /\ status' = "pending" /\ buffer' = <<>>
  /\ state' = (IF k = "bt" THEN "discovering" ELSE "waiting")

(* DoStartL: a Bluetooth port looks for the service first, the others      *)
(* listen.                                                                 *)
Started(k) ==
  /\ kind' = k /\ open' = OpenedBy(k, Len(Steps[k])) /\ last' = [last EXCEPT ![k] = "no"]
  /\ started' = ("server" \in Done(k, Len(Steps[k])))
  /\ connected' = ConnectedBy(k, Len(Steps[k]))
  /\ connStatus' = (IF k = "bt" THEN "connecting" ELSE "connected")
  /\ Listen(k) /\ goal' = "configured" /\ broken' = FALSE
  /\ UNCHANGED <<lineVars, denied>>

StartL(k) ==
  /\ kind = "none" /\ starts < MaxStarts /\ starts' = starts + 1
  /\ Started(k) \/ \E n \in 0..Len(Steps[k]) : StartFails(k, n)
  /\ UNCHANGED <<sends, faults, limit>>

(* Cancel() waits for a request DoCancel does not complete: the search of  *)
(* a Bluetooth port, whose callbacks need the same thread.                 *)
Hangs == kind = "bt" /\ active /\ status = "pending" /\ ~reading

(* Read bytes that RunL has still to give to the framing layer.            *)
Unread == IF active /\ status = "ok" /\ state = "waiting" THEN Range(buffer) ELSE {}

(* The request is cancelled, by StopListening or by ClosePort.             *)
StopListening ==
  /\ listening' = FALSE /\ active' = FALSE /\ reading' = FALSE
  /\ gone' = [gone EXCEPT !.unread = @ \cup Unread \cup Range(line)] /\ line' = <<>>

(* CTrkEngine::Stop: StopListening, then ClosePort and the destructor.  A  *)
(* read of a socket that is not connected is waited for.                   *)
Stop ==
  /\ kind # "none" /\ (kind = "bt" /\ reading => listening)
  /\ IF Hangs THEN limit' = "hung" /\ UNCHANGED <<portVars, requestVars, open, lineVars>>
     ELSE /\ StopListening /\ open' = Closing(open, kind, started, connected)
          /\ kind' = "none" /\ started' = FALSE /\ connected' = FALSE /\ connStatus' = "not"
          /\ UNCHANGED <<status, state, buffer, goal, sent, got, limit>>
  /\ UNCHANGED <<ghostVars, bounded>>

-------------------------------------------------------------------------------
(* The line and the driver or server of the port.                          *)

Arrive ==
  /\ listening /\ sent < MaxBytes /\ sent' = sent + 1 /\ line' = Append(line, sent')
  /\ UNCHANGED <<portVars, requestVars, open, got, gone, ghostVars, bounded, limit>>

(* ReadOneOrMore and its likes complete with what there is.                *)
Complete ==
  /\ reading /\ connected /\ line # <<>>
  /\ \E n \in 1..Len(line) :
       buffer' = SubSeq(line, 1, n) /\ line' = SubSeq(line, n + 1, Len(line))
  /\ status' = "ok" /\ reading' = FALSE
  /\ UNCHANGED <<portVars, active, state, open, sent, got, gone, ghostVars, bounded, limit>>

(* A read fails: an overrun or a framing error of the serial line, a       *)
(* broken connection, a socket that is not connected.  What it has read is *)
(* damaged.                                                                *)
Fail ==
  /\ reading /\ (connected => faults < MaxFaults)
  /\ faults' = (IF connected THEN faults + 1 ELSE faults)
  /\ \E n \in 0..Len(line) :
       /\ buffer' = SubSeq(line, 1, n) /\ line' = SubSeq(line, n + 1, Len(line))
       /\ gone' = [gone EXCEPT !.damaged = @ \cup {line[i] : i \in 1..n}]
  /\ status' = "error" /\ reading' = FALSE /\ broken' = TRUE
  /\ UNCHANGED <<portVars, active, state, open, sent, got, denied, last, starts, sends, limit>>

-------------------------------------------------------------------------------
(* The active object.                                                      *)

IssueReadRequest ==
  /\ active' = TRUE /\ status' = "pending" /\ state' = "waiting" /\ reading' = TRUE
  /\ buffer' = <<>>

Due == active /\ status # "pending"

(* Mutant: the next read is issued before the bytes are handed on.         *)
RunReadsFirst ==
  /\ kind \notin {"none", "bt"} /\ Due
  /\ IssueReadRequest /\ UNCHANGED got
  /\ UNCHANGED <<portVars, open, line, sent, gone, ghostVars, bounded, limit>>

(* Mutant: as over Bluetooth, nothing is read after an error.              *)
RunUntilError ==
  /\ kind \notin {"none", "bt"} /\ Due
  /\ IF status = "ok" THEN got' = got \o buffer /\ IssueReadRequest
     ELSE active' = FALSE /\ UNCHANGED <<status, state, buffer, reading, got>>
  /\ UNCHANGED <<portVars, open, line, sent, gone, ghostVars, bounded, limit>>

(* RunL of every port but Bluetooth: the bytes of a read that failed are   *)
(* dropped, and the next one is issued in any case.                        *)
Run ==
  /\ kind \notin {"none", "bt"} /\ Due
  /\ got' = (IF status = "ok" THEN got \o buffer ELSE got) /\ IssueReadRequest
  /\ UNCHANGED <<portVars, open, line, sent, gone, ghostVars, bounded, limit>>

(* RunL of the Bluetooth port after an error: nothing is asked for again.  *)
RunBroken ==
  /\ kind = "bt" /\ Due /\ status = "error" /\ active' = FALSE
  /\ UNCHANGED <<portVars, status, state, buffer, reading, open, lineVars, ghostVars, bounded,
                 limit>>

(* Mutant: only bytes that were read are followed by a read.               *)
RunSocketWaiting ==
  /\ kind = "bt" /\ Due /\ status = "ok" /\ state \in {"waiting", "sending"}
  /\ got' = (IF state = "waiting" THEN got \o buffer ELSE got)
  /\ IF state = "waiting" THEN IssueReadRequest
     ELSE active' = FALSE /\ UNCHANGED <<status, state, buffer, reading>>
  /\ UNCHANGED <<portVars, open, line, sent, gone, ghostVars, bounded, limit>>

(* RunL of the Bluetooth port that reads or has sent: the bytes of a read  *)
(* a send has overtaken are not given on.                                  *)
RunSocket ==
  /\ kind = "bt" /\ Due /\ status = "ok" /\ state \in {"waiting", "sending"}
  /\ got' = (IF state = "waiting" THEN got \o buffer ELSE got) /\ IssueReadRequest
  /\ UNCHANGED <<portVars, open, line, sent, gone, ghostVars, bounded, limit>>

(* The request of the search completes: a record with a channel or without *)
(* one; no record, or a request for its attributes that leaves, both of    *)
(* which complete with KErrNone; or an error.                              *)
SearchEnds ==
  /\ kind = "bt" /\ active /\ status = "pending" /\ state = "discovering"
  /\ open' = [open EXCEPT !["agent"] = 0]
  /\ \E result \in {"found", "no channel", "no record", "failed"} :
       /\ goal' = IF result = "found" THEN "found" ELSE goal
       /\ connStatus' = IF result \in {"no record", "failed"} THEN "error" ELSE connStatus
       /\ status' = IF result = "failed" THEN "error" ELSE "ok"
  /\ UNCHANGED <<kind, started, connected, listening, active, state, buffer, reading, lineVars,
                 ghostVars, bounded, limit>>

(* ConnectToPortL from RunL, whatever the search has found.  The engine    *)
(* listens and sends the greeting; if that fails RunL leaves, and the      *)
(* scheduler panics.  A socket that could not connect is read as well.     *)
ConnectToPortL ==
  /\ kind = "bt" /\ Due /\ status = "ok" /\ state = "discovering"
  /\ \/ /\ connStatus' = "error" /\ IssueReadRequest /\ UNCHANGED <<connected, listening, limit>>
     \/ /\ connStatus' = "connected" /\ connected' = TRUE /\ listening' = TRUE
        /\ \/ IssueReadRequest /\ UNCHANGED limit
           \/ limit' = "panicked" /\ UNCHANGED requestVars
  /\ UNCHANGED <<kind, started, goal, open, lineVars, ghostVars, bounded>>

(* SendDataL of a notification, between two runs of the port.  That of the *)
(* Bluetooth port cancels the read and uses the status of it, completed or *)
(* not; the other ports have a status of their own for it.  (A reply is    *)
(* sent from RunL, which reads again whatever it has done to the status.)  *)
SendDataL ==
  /\ listening /\ sends < MaxSends /\ sends' = sends + 1
  /\ IF kind # "bt" THEN UNCHANGED <<status, state, reading, gone, broken, faults>>
     ELSE /\ reading' = FALSE /\ state' = "sending"
          /\ gone' = [gone EXCEPT !.overtaken = @ \cup Unread]
          /\ \/ status' = "ok" /\ UNCHANGED <<broken, faults>>
             \/ faults < MaxFaults /\ faults' = faults + 1 /\ status' = "error" /\ broken' = TRUE
  /\ UNCHANGED <<portVars, active, buffer, open, line, sent, got, denied, last, starts, limit>>

-------------------------------------------------------------------------------
Next ==
  /\ limit = "no"
  /\ \/ \E k \in Kinds : StartL(k)
     \/ Stop \/ Arrive \/ Complete \/ Fail \/ Run \/ RunBroken \/ RunSocket
     \/ SearchEnds \/ ConnectToPortL \/ SendDataL

(* Drivers complete the reads they have bytes for, and the active scheduler *)
(* runs what has completed.                                                *)
Spec == Init /\ [][Next]_vars /\ WF_vars(limit = "no" /\ Complete)
             /\ WF_vars(limit = "no" /\ (Run \/ RunBroken \/ RunSocket))

-------------------------------------------------------------------------------
(* Without a port nothing is left open, whatever step failed, but for the  *)
(* session of each USB port that got no further than its configuration,    *)
(* which ClosePort passes over, and the driver of a DCC or XTI port whose  *)
(* channel could not be opened.                                            *)
Released ==
  kind = "none" =>
    \A h \in Handles :
      open[h] = IF h = "session" THEN denied
                ELSE IF \E k \in Kinds : h \in Freed(k) /\ last[k] = "channel" THEN 1 ELSE 0

(* Bytes are given to the framing layer in order and once each.  What is   *)
(* missing was read with an error, was in the buffer of a Bluetooth port   *)
(* when a notification was sent, or was not read before the port closed.   *)
NothingSkipped ==
  /\ \A i, j \in DOMAIN got : i < j => got[i] < got[j]
  /\ Range(got) \cap (gone.damaged \cup gone.overtaken \cup gone.unread) = {}
  /\ 1..sent = Range(got) \cup Unread \cup Range(line)
                 \cup gone.damaged \cup gone.overtaken \cup gone.unread

(* A port that listens has a read outstanding or will issue one, whatever  *)
(* is sent in between; the Bluetooth port until an error.                  *)
Hears ==
  listening /\ limit = "no" =>
    /\ active \/ (kind = "bt" /\ broken)
    /\ reading <=> active /\ status = "pending"

(* What comes over the line is read in the end.                            *)
Heard ==
  listening /\ line # <<>> ~> line = <<>> \/ (kind = "bt" /\ broken) \/ limit # "no"
===============================================================================
