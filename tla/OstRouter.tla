------------------------------- MODULE OstRouter -------------------------------
(***************************************************************************)
(* The dbgtrccomm server, which shares one serial port between clients:    *)
(* COstBaseRouter with its registry of protocols, its queue of writes and  *)
(* its receive buffer, CDbgTrcPortMgr with the reader and the writer, a    *)
(* CDbgTrcSrvSession for every client, and the shutdown timer.             *)
(*                                                                         *)
(* The server is one thread of active objects, so each handler is one      *)
(* step.  Beside it run the clients and the port's own server, which reads *)
(* the data of a write some time after the write was asked for (Fetch).    *)
(*                                                                         *)
(* Bytes are small numbers.  A packet is a version, a protocol id, one     *)
(* length byte (two in the code) and its body.  Whether a client wants the *)
(* header or gives one makes no difference to what is modelled here.       *)
(*                                                                         *)
(* Bound: a behaviour has protocols and packets, or it has writes.  Reading *)
(* and writing have no state in common but the sessions and the port.      *)
(***************************************************************************)
EXTENDS Naturals, Sequences, SequencesExt

CONSTANTS
  Sessions,   \* the lives of client sessions: a client that returns is new
  Protocols,  \* TOstProtIds that sessions register
  VERSION,    \* the version byte; the code takes 0 and 1, which are ids as well
  KnownIds,   \* the protocol ids DataAvailable accepts
  Feed,       \* what the host sends: packets, with the junk in front of each
  BufSize,    \* MAX_BUF_SIZE: 0x880 in the code
  MaxChunk,   \* bound: bytes that one read returns
  MaxWrites,  \* bound: writes the clients issue
  NoSession   \* what iWriteMsgListener is at first

ASSUME IdsAssumption ==
  /\ Protocols \subseteq KnownIds /\ KnownIds \subseteq Nat /\ VERSION \in Nat
  /\ NoSession \notin Sessions
ASSUME SizesAssumption == BufSize \in Nat /\ MaxChunk \in Nat /\ MaxWrites \in Nat
ASSUME FeedAssumption ==
  Feed \in Seq([prot : KnownIds, body : Seq(Nat), junk : Seq(Nat)])

VARIABLES
  session,    \* "none", "open" or "closed"
  using,      \* the sessions that have opened the port and not closed it
  ids,        \* iProtocolIds of each session
  reads,      \* iPendingRead: "no", or the buffer of the read is "small" or "large"
  mailbox,    \* iRecvMessageQueue of each session
  asked,      \* iPendingWrite, iBlockedWrite: the write a session waits for, or 0
  registry,   \* iProtListenerList
  rxbuf,      \* iRecvMsgBuffer
  sendbuf,    \* iSendMsgBuffer: the write whose data is in it
  queue,      \* iWriteMsgQueue
  listener,   \* iWriteMsgListener
  port,       \* iConnected and iActiveConnections
  reading,    \* iAlreadyReading of the reader
  flight,     \* the request of the writer
  server,     \* the server's process and its shutdown timer
  pos,        \* bytes of the feed that have been read
  writes,     \* writes issued
  got,        \* the packets each client has received
  since,      \* packets complete when a session registered a protocol
  line,       \* writes that have been completed, in order, with the data sent
  ended,      \* what the client of a write was told
  spoilt      \* the limit that ended the behaviour, see README

clientVars == <<session, using, ids, reads, mailbox, asked>>
routerVars == <<registry, rxbuf, sendbuf, queue, listener>>
portVars == <<port, reading, flight>>
ghostVars == <<got, since, line, ended, spoilt>>
vars == <<clientVars, routerVars, portVars, server, pos, writes, ghostVars>>

HEADER == 3
Never == Len(Feed) + 1
NoFlight == [of |-> 0, src |-> "none", data |-> 0]
Closed == [open |-> FALSE, connections |-> 0]
Packet(p) == [prot |-> p.prot, body |-> p.body]

Encode(p) == p.junk \o <<VERSION, p.prot, Len(p.body)>> \o p.body
Upto[n \in 0..Len(Feed)] == IF n = 0 THEN <<>> ELSE Upto[n - 1] \o Encode(Feed[n])
Bytes == Upto[Len(Feed)]
Complete(n) == CHOOSE i \in 0..Len(Feed) :
  Len(Upto[i]) <= n /\ \A j \in 0..Len(Feed) : j > i => Len(Upto[j]) > n

Init ==
  /\ session = [c \in Sessions |-> "none"] /\ using = {}
  /\ ids = [c \in Sessions |-> <<>>]
  /\ reads = [c \in Sessions |-> "no"] /\ mailbox = [c \in Sessions |-> <<>>]
  /\ asked = [c \in Sessions |-> 0]
  /\ registry = <<>> /\ rxbuf = <<>> /\ sendbuf = 0 /\ queue = <<>>
  /\ listener = NoSession
  /\ port = Closed /\ reading = FALSE /\ flight = NoFlight
  /\ server = [up |-> FALSE, timer |-> FALSE]
  /\ pos = 0 /\ writes = 0
  /\ got = [c \in Sessions |-> <<>>]
  /\ since = [c \in Sessions |-> [p \in Protocols |-> Never]]
  /\ line = <<>> /\ ended = [m \in 1..MaxWrites |-> "no"] /\ spoilt = "no"

-------------------------------------------------------------------------------
(* Receiving: pure functions of the receive buffer.                        *)

(* RemoveNonOstBytes: drop bytes until a version and a protocol id lead.   *)
Clean[b \in Seq(Nat)] ==
  IF b = <<>> THEN b
  ELSE IF b[1] # VERSION \/ Len(b) = 1 THEN Clean[Tail(b)]
  ELSE IF b[2] \in KnownIds THEN b
  ELSE Clean[SubSeq(b, 3, Len(b))]

Leads(b) == b[1] = VERSION /\ b[2] \in KnownIds

(* Mutant: a packet that ends with the buffer is taken for an incomplete one. *)
WholeAndMore(b) == Len(b) > HEADER /\ Len(b) > HEADER + b[3]

(* The buffer begins with a whole packet.                                  *)
Whole(b) == Len(b) > HEADER /\ Len(b) >= HEADER + b[3]

(* One round of the loops of DataAvailable: the packet that leads is taken *)
(* off the buffer, with the protocol id read before junk was removed.      *)
(* When none is whole the chunk moves in as far as there is room; with a   *)
(* full buffer the rest is lost.                                           *)
Absorb(s) ==
  LET b == IF Len(s.buf) <= HEADER \/ Leads(s.buf) THEN s.buf ELSE Clean[s.buf]
      end == HEADER + b[3]
      room == BufSize - Len(b)
      k == IF Len(s.rest) < room THEN Len(s.rest) ELSE room
  IN  IF Whole(b)
      THEN [buf |-> SubSeq(b, end + 1, Len(b)), rest |-> s.rest,
            out |-> Append(s.out, [prot |-> s.buf[2], body |-> SubSeq(b, HEADER + 1, end)])]
      ELSE [buf |-> b \o SubSeq(s.rest, 1, k),
            rest |-> SubSeq(s.rest, k + 1, Len(s.rest)), out |-> s.out]

(* A round moves bytes forward until there is nothing left to do, so these *)
(* many are enough.                                                        *)
Received(chunk) ==
  LET rounds == Len(rxbuf) + 2 * Len(chunk)
      round[n \in 0..rounds] ==
        IF n = 0 THEN [buf |-> rxbuf, rest |-> chunk, out |-> <<>>] ELSE Absorb(round[n - 1])
  IN  round[rounds]

(* GetProtListenerForProtId: the first entry.                              *)
ListenerOf(p) ==
  LET at == {i \in DOMAIN registry : registry[i].prot = p}
  IN  IF at = {} THEN NoSession
      ELSE registry[CHOOSE i \in at : \A j \in at : i <= j].by

(* Mutant: a read whose buffer is too small gets the error, and the        *)
(* message is dropped.                                                     *)
MessageDropped(st, p) ==
  LET c == ListenerOf(p.prot)
  IN  IF c = NoSession THEN st
      ELSE IF st.reads[c] = "large"
      THEN [st EXCEPT !.reads[c] = "no", !.got[c] = Append(@, p)]
      ELSE IF st.reads[c] = "small" THEN [st EXCEPT !.reads[c] = "no"]
      ELSE [st EXCEPT !.mailbox[c] = Append(@, p)]

(* MessageAvailableL: a read that waits gets the message if it fits, and   *)
(* an error if not; a message nobody could take is queued.                 *)
MessageAvailable(st, p) ==
  LET c == ListenerOf(p.prot)
  IN  IF c = NoSession THEN st
      ELSE IF st.reads[c] = "large"
      THEN [st EXCEPT !.reads[c] = "no", !.got[c] = Append(@, p)]
      ELSE [st EXCEPT !.reads[c] = "no", !.mailbox[c] = Append(@, p)]

(* The packets reach their listeners as they are taken off.                *)
Delivered(out) ==
  LET after[n \in 0..Len(out)] ==
        IF n = 0 THEN [reads |-> reads, mailbox |-> mailbox, got |-> got]
        ELSE MessageAvailable(after[n - 1], out[n])
  IN  after[Len(out)]

(* CPortReader::RunL: DataAvailable, then the next read.  A message ends   *)
(* the read that waits for it, whether it fits or not.                     *)
DataAvailable ==
  \E k \in 1..MaxChunk :
    /\ port.open /\ reading /\ pos + k <= Len(Bytes)
    /\ LET r == Received(SubSeq(Bytes, pos + 1, pos + k))
           st == Delivered(r.out)
           dead == \E i \in DOMAIN r.out :
                     LET c == ListenerOf(r.out[i].prot)
                     IN  c # NoSession /\ session[c] # "open"
           heard(c) == \E i \in DOMAIN r.out : ListenerOf(r.out[i].prot) = c
       IN  /\ rxbuf' = r.buf
           /\ mailbox' = st.mailbox /\ got' = st.got
           /\ reads' = [c \in Sessions |-> IF heard(c) THEN "no" ELSE reads[c]]
           /\ spoilt' = IF dead THEN "dangling" ELSE spoilt
    /\ pos' = pos + k
    /\ UNCHANGED <<session, using, ids, asked, registry, sendbuf, queue, listener,
                   portVars, server, writes, since, line, ended>>

-------------------------------------------------------------------------------
(* Sessions and protocols.                                                 *)

Alive(c) == session[c] \in {"open", "closing"}

(* RDbgTrcComm::Connect starts the server if there is none; SessionOpened  *)
(* stops the shutdown timer.                                               *)
Connect(c) ==
  /\ session[c] = "none"
  /\ session' = [session EXCEPT ![c] = "open"]
  /\ server' = [up |-> TRUE, timer |-> FALSE]
  /\ UNCHANGED <<using, ids, reads, mailbox, asked, routerVars, portVars, pos,
                 writes, ghostVars>>

(* CmdRegisterProtocol.  Nothing keeps a second session from registering a *)
(* protocol; the model ends there.  Bound: a session registers it once.    *)
Register(c, p) ==
  /\ session[c] = "open" /\ since[c][p] = Never /\ writes = 0
  /\ spoilt' = IF ListenerOf(p) = NoSession THEN spoilt ELSE "shared"
  /\ registry' = Append(registry, [prot |-> p, by |-> c])
  /\ ids' = [ids EXCEPT ![c] = Append(@, p)]
  /\ since' = [since EXCEPT ![c][p] = Complete(pos)]
  /\ UNCHANGED <<session, using, reads, mailbox, asked, rxbuf, sendbuf, queue,
                 listener, portVars, server, pos, writes, got, line, ended>>

(* COstProtRegistry::UnRegisterProtocol                                    *)
Without(reg, p) ==
  LET i == SelectInSeq(reg, LAMBDA e : e.prot = p)
  IN  IF i = 0 THEN reg ELSE RemoveAt(reg, i)

(* UnRegisterProtocol for every id of a session, in order.                 *)
WithoutAll(reg, ps) ==
  LET left[n \in 0..Len(ps)] == IF n = 0 THEN reg ELSE Without(left[n - 1], ps[n])
  IN  left[Len(ps)]

(* Mutant: the reads go on, or stop, as if nobody had left.                *)
UnRegisterAnyway(rest) ==
  /\ registry' = rest
  /\ reading' = FALSE

(* COstBaseRouter::UnRegisterProtocol: with nobody left the reader stops.  *)
UnRegister(rest) ==
  /\ registry' = rest
  /\ reading' = (reading /\ rest # <<>>)

(* CmdUnRegisterProtocol.  A client cancels its read first, as             *)
(* CTrkDbgTrcCommPort::ClosePort does.                                     *)
UnRegisterProtocol(c, p) ==
  /\ session[c] = "open" /\ reads[c] = "no" /\ Contains(ids[c], p)
  /\ UnRegister(Without(registry, p))
  /\ ids' = [ids EXCEPT ![c] = RemoveFirst(@, p)]
  /\ UNCHANGED <<session, using, reads, mailbox, asked, rxbuf, sendbuf, queue,
                 listener, port, flight, server, pos, writes, ghostVars>>

(* The client closes its handle or dies: the destructor of the session and *)
(* DoDisconnect.  The writer and its queue keep the pointer to the session.*)
EndSession(c) ==
  /\ Alive(c)
  /\ session' = [session EXCEPT ![c] = "closed"] /\ using' = using \ {c}
  /\ ids' = [ids EXCEPT ![c] = <<>>]
  /\ UnRegister(WithoutAll(registry, ids[c]))
  /\ reads' = [reads EXCEPT ![c] = "no"]
  /\ asked' = [asked EXCEPT ![c] = 0]
  /\ ended' = IF asked[c] = 0 THEN ended ELSE [ended EXCEPT ![asked[c]] = "cancelled"]
  /\ server' = [server EXCEPT !.timer = @ \/ \A d \in Sessions \ {c} : ~Alive(d)]
  /\ UNCHANGED <<mailbox, rxbuf, sendbuf, queue, listener, port, flight, pos, writes,
                 got, since, line, spoilt>>

(* CShutdownTimer::RunL stops the server; its objects are deleted.  The    *)
(* timer has a lower priority than the server, so a client that connects   *)
(* in time stops it, and one that comes late starts a new server.  When    *)
(* the port opens again its buffers are emptied (ResetBuffers), so reading *)
(* goes on with the packet after the one in progress.                      *)
Shutdown ==
  /\ server.timer
  /\ server' = [up |-> FALSE, timer |-> FALSE]
  /\ registry' = <<>> /\ rxbuf' = <<>> /\ sendbuf' = 0 /\ queue' = <<>>
  /\ listener' = NoSession
  /\ port' = Closed /\ reading' = FALSE /\ flight' = NoFlight
  /\ pos' = IF pos = Len(Upto[Complete(pos)]) THEN pos ELSE Len(Upto[Complete(pos) + 1])
  /\ UNCHANGED <<clientVars, writes, ghostVars>>

-------------------------------------------------------------------------------
(* The port.                                                               *)

(* OpenPortL: the first client opens it.  When the reader or the writer    *)
(* cannot be made it stays half open, and the model ends.                  *)
OpenPort(c) ==
  /\ session[c] = "open" /\ c \notin using
  /\ using' = using \cup {c}
  /\ port' = [open |-> TRUE, connections |-> port.connections + 1]
  /\ \/ spoilt' = spoilt
     \/ ~port.open /\ spoilt' = "halfOpen"
  /\ UNCHANGED <<session, ids, reads, mailbox, asked, routerVars, reading, flight,
                 server, pos, writes, got, since, line, ended>>

(* Mutant: whoever closes first closes the port.                           *)
ClosePortNow(c) ==
  /\ session[c] = "open" /\ c \in using
  /\ session' = [session EXCEPT ![c] = "closing"] /\ using' = using \ {c}
  /\ port' = Closed /\ reading' = FALSE /\ flight' = NoFlight
  /\ UNCHANGED <<ids, reads, mailbox, asked, routerVars, server, pos, writes, ghostVars>>

(* RDbgTrcComm::Close and ClosePort: the last client closes the port, with *)
(* the reader and the writer.  The queue of writes and the receive buffer  *)
(* stay; when there is something in them the model ends.                   *)
ClosePort(c) ==
  /\ session[c] = "open" /\ c \in using
  /\ session' = [session EXCEPT ![c] = "closing"] /\ using' = using \ {c}
  /\ IF port.connections > 1
     THEN /\ port' = [port EXCEPT !.connections = @ - 1]
          /\ UNCHANGED <<reading, flight, spoilt>>
     ELSE /\ port' = Closed /\ reading' = FALSE /\ flight' = NoFlight
          /\ spoilt' = IF flight = NoFlight /\ queue = <<>> /\ rxbuf = <<>>
                       THEN spoilt ELSE "cutoff"
  /\ UNCHANGED <<ids, reads, mailbox, asked, routerVars, server, pos, writes,
                 got, since, line, ended>>

-------------------------------------------------------------------------------
(* Reads of the clients.                                                   *)

(* CmdReadMsgL, of a client with a protocol: from the queue if there is a  *)
(* message and it fits; else the session waits, if it does not yet.  A     *)
(* client opens the port first, as CTrkDbgTrcCommPort does.                *)
ReadMsg(c) ==
  \E size \in {"small", "large"} :
    /\ session[c] = "open" /\ c \in using /\ ids[c] # <<>>
    /\ IF mailbox[c] # <<>>
       THEN /\ size = "large"
            /\ got' = [got EXCEPT ![c] = Append(@, Head(mailbox[c]))]
            /\ mailbox' = [mailbox EXCEPT ![c] = Tail(@)]
            /\ UNCHANGED <<reads, reading>>
       ELSE /\ reads[c] = "no"
            /\ reads' = [reads EXCEPT ![c] = size]
            /\ reading' = (reading \/ port.open)
            /\ UNCHANGED <<got, mailbox>>
    /\ UNCHANGED <<session, using, ids, asked, routerVars, port, flight, server, pos,
                   writes, since, line, ended, spoilt>>

(* CmdReadCancel                                                           *)
ReadCancel(c) ==
  /\ session[c] = "open" /\ reads[c] # "no"
  /\ reads' = [reads EXCEPT ![c] = "no"]
  /\ UNCHANGED <<session, using, ids, mailbox, asked, routerVars, portVars, server, pos,
                 writes, ghostVars>>

-------------------------------------------------------------------------------
(* Writes.                                                                 *)

Busy == flight.of # 0

(* DoWriteMessageL: start the write, or queue a copy of the send buffer.   *)
DoWriteMessage(c, m) ==
  IF Busy
  THEN /\ queue' = Append(queue, [msg |-> m, by |-> c])
       /\ UNCHANGED <<listener, flight>>
  ELSE /\ listener' = c /\ UNCHANGED queue
       /\ flight' = [of |-> m, src |-> "buffer", data |-> 0]

(* CmdWriteMsgL, WriteMessageL: the data goes into the send buffer also    *)
(* when the writer is still at work.  A second write of a session that     *)
(* waits for one is refused.  A client opens the port before it writes.    *)
WriteMsg(c) ==
  /\ session[c] = "open" /\ c \in using /\ asked[c] = 0 /\ writes < MaxWrites
  /\ \A d \in Sessions : \A p \in Protocols : since[d][p] = Never
  /\ writes' = writes + 1
  /\ asked' = [asked EXCEPT ![c] = writes + 1]
  /\ sendbuf' = writes + 1
  /\ DoWriteMessage(c, writes + 1)
  /\ UNCHANGED <<session, using, ids, reads, mailbox, registry, rxbuf, port, reading,
                 server, pos, ghostVars>>

(* CmdWriteCancel: the client is answered, the write itself goes on.       *)
WriteCancel(c) ==
  /\ session[c] = "open" /\ asked[c] # 0
  /\ ended' = [ended EXCEPT ![asked[c]] = "cancelled"]
  /\ asked' = [asked EXCEPT ![c] = 0]
  /\ UNCHANGED <<session, using, ids, reads, mailbox, routerVars, portVars, server, pos,
                 writes, got, since, line, spoilt>>

(* The port's server reads the data: the send buffer as it is by now, or   *)
(* what is left of a queue entry that has been deleted.                    *)
Fetch ==
  /\ \/ flight.src = "buffer" /\ flight' = [flight EXCEPT !.src = "done", !.data = sendbuf]
     \/ flight.src = "entry" /\ \E d \in {flight.of, 0} :
          flight' = [flight EXCEPT !.src = "done", !.data = d]
  /\ UNCHANGED <<clientVars, routerVars, port, reading, server, pos, writes, ghostVars>>

(* Mutant: the listener of the write before is told.                       *)
NextWriteOldListener ==
  IF queue = <<>> THEN listener' = NoSession /\ flight' = NoFlight /\ UNCHANGED queue
  ELSE /\ UNCHANGED listener
       /\ flight' = [of |-> Head(queue).msg, src |-> "entry", data |-> 0]
       /\ queue' = Tail(queue)

(* The second half of DataWriteComplete: the write at the head of the      *)
(* queue starts, and its entry is deleted.                                 *)
NextWrite ==
  IF queue = <<>> THEN listener' = NoSession /\ flight' = NoFlight /\ UNCHANGED queue
  ELSE /\ listener' = Head(queue).by
       /\ flight' = [of |-> Head(queue).msg, src |-> "entry", data |-> 0]
       /\ queue' = Tail(queue)

(* CPortWriter::RunL, DataWriteComplete and WriteComplete.                 *)
WriteComplete ==
  /\ flight.src = "done"
  /\ line' = Append(line, [of |-> flight.of, data |-> flight.data])
  /\ NextWrite
  /\ LET m == IF listener = NoSession THEN 0 ELSE asked[listener]
     IN  /\ asked' = IF m = 0 THEN asked ELSE [asked EXCEPT ![listener] = 0]
         /\ ended' = IF m = 0 THEN ended ELSE [ended EXCEPT ![m] = "done"]
  /\ spoilt' = IF listener # NoSession /\ ~Alive(listener) THEN "dangling" ELSE spoilt
  /\ UNCHANGED <<session, using, ids, reads, mailbox, registry, rxbuf, sendbuf, port,
                 reading, server, pos, writes, got, since>>

-------------------------------------------------------------------------------
Limit == spoilt = "no"

Next ==
  \/ \E c \in Sessions : Limit /\ Connect(c)
  \/ \E c \in Sessions : Limit /\ EndSession(c)
  \/ \E c \in Sessions : Limit /\ OpenPort(c)
  \/ \E c \in Sessions : Limit /\ ClosePort(c)
  \/ \E c \in Sessions, p \in Protocols : Limit /\ Register(c, p)
  \/ \E c \in Sessions, p \in Protocols : Limit /\ UnRegisterProtocol(c, p)
  \/ \E c \in Sessions : Limit /\ ReadMsg(c)
  \/ \E c \in Sessions : Limit /\ ReadCancel(c)
  \/ \E c \in Sessions : Limit /\ WriteMsg(c)
  \/ \E c \in Sessions : Limit /\ WriteCancel(c)
  \/ Limit /\ Shutdown
  \/ Limit /\ DataAvailable
  \/ Limit /\ Fetch
  \/ Limit /\ WriteComplete

Spec == Init /\ [][Next]_vars

(* The port's server takes and completes a write, the active scheduler     *)
(* runs the writer.                                                        *)
FairSpec == Spec /\ WF_vars(Limit /\ Fetch) /\ WF_vars(Limit /\ WriteComplete)

-------------------------------------------------------------------------------
Packets == Seq([prot : KnownIds, body : Seq(Nat)])

(* Every variable has its shape, and every callback that the registry      *)
(* keeps is into a session that lives and has asked for the protocol.      *)
TypeOK ==
  /\ session \in [Sessions -> {"none", "open", "closing", "closed"}]
  /\ using \subseteq {c \in Sessions : session[c] = "open"}
  /\ ids \in [Sessions -> Seq(Protocols)]
  /\ reads \in [Sessions -> {"no", "small", "large"}]
  /\ mailbox \in [Sessions -> Packets] /\ got \in [Sessions -> Packets]
  /\ asked \in [Sessions -> 0..MaxWrites] /\ writes \in 0..MaxWrites
  /\ registry \in Seq([prot : Protocols, by : Sessions])
  /\ \A i \in DOMAIN registry :
       Alive(registry[i].by) /\ Contains(ids[registry[i].by], registry[i].prot)
  /\ rxbuf \in Seq(Nat) /\ Len(rxbuf) <= BufSize
  /\ sendbuf \in 0..MaxWrites
  /\ queue \in Seq([msg : 1..MaxWrites, by : Sessions])
  /\ listener \in Sessions \cup {NoSession}
  /\ port \in [open : BOOLEAN, connections : Nat] /\ reading \in BOOLEAN
  /\ flight \in [of : 0..MaxWrites, src : {"none", "buffer", "entry", "done"},
                 data : 0..MaxWrites]
  /\ server \in [up : BOOLEAN, timer : BOOLEAN]
  /\ pos \in 0..Len(Bytes)
  /\ since \in [Sessions -> [Protocols -> 0..Never]]
  /\ line \in Seq([of : 1..MaxWrites, data : 0..MaxWrites])
  /\ ended \in [1..MaxWrites -> {"no", "cancelled", "done"}]
  /\ spoilt \in {"no", "dangling", "shared", "halfOpen", "cutoff"}

(* The packets of a protocol.                                              *)
Of(ps, p) ==
  LET of[n \in 0..Len(ps)] ==
        IF n = 0 THEN <<>> ELSE IF ps[n].prot = p THEN Append(of[n - 1], ps[n]) ELSE of[n - 1]
  IN  of[Len(ps)]

(* A session gets every packet of a protocol it has registered, once and   *)
(* in the order in which the host sent them, however the bytes were cut    *)
(* into reads and whatever else it read, cancelled or left waiting.        *)
PacketsInOrder ==
  \A c \in Sessions : \A p \in Protocols :
    Contains(ids[c], p) =>
      Of(got[c] \o mailbox[c], p) =
        Of([i \in 1..(Complete(pos) - since[c][p]) |-> Packet(Feed[since[c][p] + i])], p)

(* Writes reach the line once each and in the order in which the clients   *)
(* issued them.  A client that cancels no write is told of success only    *)
(* after its own write has been completed.                                 *)
WritesInOrder ==
  /\ \A i, j \in DOMAIN line : i < j => line[i].of < line[j].of
  /\ (\A m \in 1..MaxWrites : ended[m] # "cancelled") =>
       \A m \in 1..MaxWrites : ended[m] = "done" => \E i \in DOMAIN line : line[i].of = m

(* A client that has the port open, has a protocol and waits for a message *)
(* is not deaf: the server reads from the port.                            *)
NotDeaf ==
  \A c \in Sessions :
    Limit /\ c \in using /\ ids[c] # <<>> /\ reads[c] # "no" => port.open /\ reading

(* A client that waits for a write is answered.                            *)
WritesAnswered ==
  \A c \in Sessions : \A m \in 1..MaxWrites :
    asked[c] = m ~> asked[c] # m \/ ~Limit

===============================================================================
