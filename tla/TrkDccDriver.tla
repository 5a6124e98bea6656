------------------------------ MODULE TrkDccDriver ------------------------------
(***************************************************************************)
(* The DCC channel of the kernel (DTrkDccChannel) and its client,          *)
(* CTrkDccCommPort.  While the client waits a timer polls the debug        *)
(* channel: the DFC of the timer reads words of one to three bytes into a  *)
(* ring, a whole packet if it has begun, and completes the request.  The   *)
(* DFC runs on the timer thread, which has a higher priority than the      *)
(* thread of HandleMsg: it comes between two steps of a handler and is     *)
(* not interrupted by one.  Bytes are numbered in the order of the host.   *)
(***************************************************************************)
EXTENDS Naturals, Sequences, FiniteSets

CONSTANTS
  BufSize,    \* iRxBufSize
  ClientSize, \* MAXMESSAGESIZE, the length of iReceivedChars
  Words,      \* words of the host: for each byte, whether it is a flag
  MaxBytes,   \* bound: bytes of the host
  MaxCancels  \* bound: cancels of the client

VARIABLES
  status,    \* iRxRequestStatus is set
  buffer,    \* iRxClientBuffer is set
  ring,      \* iRxBuffer
  get, put,  \* iRxGetIndx, iRxPutIndx
  packet,    \* iPacketStarted, iPacketEnded
  timer,     \* iRxTimer is armed
  handler,   \* where HandleMsg is
  reader,    \* where DoRead is, with the index of ReadDccChannel
  line,      \* the word in the debug channel, or <<>>
  taken,     \* bytes read from the channel
  delivered, \* bytes the client was given
  client,    \* "stopped" or "waiting"
  cancels,   \* the bounded events so far
  limit      \* how bytes were lost, or "no"

vars == <<status, buffer, ring, get, put, packet, timer, handler, reader, line, taken,
          delivered, client, cancels, limit>>
ringVars == <<ring, get, put, packet, reader, line, taken, delivered>>

NoPacket == [started |-> FALSE, ended |-> FALSE]

Init ==
  /\ status = FALSE /\ buffer = FALSE
  /\ ring = [i \in 0 .. BufSize - 1 |-> 0] /\ get = 0 /\ put = 0
  /\ packet = NoPacket /\ timer = FALSE
  /\ handler = "idle" /\ reader = [pc |-> "idle", i |-> 0]
  /\ line = <<>> /\ taken = 0 /\ delivered = <<>>
  /\ client = "stopped" /\ cancels = 0 /\ limit = "no"

-------------------------------------------------------------------------------
(* The host puts a word into the channel when the last one is taken.       *)
Send(w) ==
  /\ line = <<>> /\ line' = w
  /\ UNCHANGED <<status, buffer, ring, get, put, packet, timer, handler, reader, taken,
                 delivered, client, cancels, limit>>

SendWord == \E w \in Words : taken + Len(w) <= MaxBytes /\ Send(w)

(* It ends a packet that it has started, whatever the bound.               *)
EndPacket == packet.started /\ ~packet.ended /\ Send(<<TRUE>>)

-------------------------------------------------------------------------------
(* HandleMsg; none of its steps comes into the middle of DoRead.           *)

Step(pc, next) == reader.pc = "idle" /\ handler = pc /\ handler' = next

(* Listen and RunL of the client.                                          *)
Read ==
  /\ client = "stopped" /\ client' = "waiting"
  /\ Step("idle", "store status")
  /\ UNCHANGED <<status, buffer, ringVars, timer, cancels, limit>>

StoreStatus ==
  /\ Step("store status", "store buffer")
  /\ status' = TRUE
  /\ UNCHANGED <<buffer, ringVars, timer, client, cancels, limit>>

StoreBuffer ==
  /\ Step("store buffer", "start timer")
  /\ buffer' = TRUE
  /\ UNCHANGED <<status, ringVars, timer, client, cancels, limit>>

StartTimer ==
  /\ Step("start timer", "idle")
  /\ timer' = TRUE
  /\ UNCHANGED <<status, buffer, ringVars, client, cancels, limit>>

(* StopListening and the destructor of the client.                         *)
Cancel ==
  /\ cancels < MaxCancels /\ cancels' = cancels + 1
  /\ Step("idle", "cancel")
  /\ UNCHANGED <<status, buffer, ringVars, timer, client, limit>>

CancelRequest ==
  /\ Step("cancel", "stop timer")
  /\ status' = FALSE /\ buffer' = FALSE
  /\ UNCHANGED <<ringVars, timer, client, cancels, limit>>

(* Mutant: what was read before is thrown away.                            *)
StopTimerAndClear ==
  /\ Step("stop timer", "idle")
  /\ timer' = FALSE /\ client' = "stopped" /\ put' = 0 /\ get' = 0
  /\ UNCHANGED <<status, buffer, ring, packet, reader, line, taken, delivered, cancels, limit>>

StopTimer ==
  /\ Step("stop timer", "idle")
  /\ timer' = FALSE /\ client' = "stopped"
  /\ UNCHANGED <<status, buffer, ringVars, cancels, limit>>

HandleMsg == StoreStatus \/ StoreBuffer \/ StartTimer \/ CancelRequest \/ StopTimer

-------------------------------------------------------------------------------
(* DoRead, on the timer thread.                                            *)

(* RxTimerCallBack and RxTimerDfc: ReadDccChannel begins at the put index. *)
TimerFires ==
  /\ timer /\ timer' = FALSE
  /\ reader.pc = "idle"
  /\ reader' = [pc |-> IF line = <<>> THEN "complete" ELSE "read", i |-> put]
  /\ UNCHANGED <<status, buffer, ring, get, put, packet, handler, line, taken, delivered,
                 client, cancels, limit>>

(* The flags of a word start and end packets.                              *)
Flags(w) == Cardinality({j \in DOMAIN w : w[j]})
AfterWord(w) == [started |-> packet.started \/ Flags(w) > 0,
                 ended |-> packet.ended \/ Flags(w) > (IF packet.started THEN 0 ELSE 1)]

(* One word is written at the index.  At the end of the ring the index     *)
(* goes back to 0, if it is just there; the bytes of a word that goes past *)
(* the end overwrite what is behind.                                       *)
TakeWord ==
  LET i == reader.i + Len(line)
  IN  /\ reader.pc = "read" /\ line # <<>>
      /\ ring' = [k \in DOMAIN ring |-> IF k \in reader.i .. i - 1
                                        THEN taken + 1 + k - reader.i ELSE ring[k]]
      /\ taken' = taken + Len(line)
      /\ packet' = AfterWord(line) /\ line' = <<>>
      /\ limit' = CASE i > BufSize -> "overflow" [] i = BufSize -> "full" [] OTHER -> limit
      /\ reader' = [pc |-> IF i = BufSize \/ packet'.ended THEN "complete" ELSE "read",
                    i |-> IF i = BufSize THEN 0 ELSE i]
      /\ UNCHANGED <<status, buffer, get, put, timer, handler, delivered, client, cancels>>

(* No word is there: outside of a packet the loop ends, inside it spins.   *)
NoWord ==
  /\ reader.pc = "read" /\ line = <<>> /\ ~(packet.started /\ ~packet.ended)
  /\ reader' = [reader EXCEPT !.pc = "complete"]
  /\ UNCHANGED <<status, buffer, ring, get, put, packet, timer, handler, line, taken,
                 delivered, client, cancels, limit>>

(* Mutant: the timer is started again only for a packet.                   *)
NothingReadStops ==
  /\ reader.i = get /\ put' = get
  /\ timer' = packet.started
  /\ UNCHANGED <<status, get, packet, delivered, client, limit>>

(* DoRead has nothing to deliver and polls again.                          *)
NothingRead ==
  /\ reader.i = get /\ put' = get
  /\ timer' = TRUE
  /\ UNCHANGED <<status, get, packet, delivered, client, limit>>

(* DoCompleteRx with a request: it is given what lies between the indices, *)
(* up to the end of the ring.  The client's buffer may be too short.       *)
Deliver ==
  LET last == IF reader.i > get THEN reader.i ELSE BufSize
      next == IF last >= BufSize THEN 0 ELSE last
      fits == buffer /\ last - get <= ClientSize
  IN  /\ reader.i # get /\ status
      /\ delivered' = IF fits THEN delivered \o [k \in 1 .. last - get |-> ring[get + k - 1]]
                      ELSE delivered
      /\ limit' = IF fits THEN limit ELSE "too long"
      /\ status' = FALSE /\ client' = "stopped"
      /\ packet' = IF packet.ended THEN NoPacket ELSE packet
      /\ get' = IF reader.i = next THEN 0 ELSE next
      /\ put' = IF reader.i = next THEN 0 ELSE reader.i
      /\ UNCHANGED timer

(* DoCompleteRx without one: what was read waits in the ring.              *)
KeepInRing ==
  /\ reader.i # get /\ ~status
  /\ packet' = IF packet.ended THEN NoPacket ELSE packet
  /\ put' = reader.i
  /\ UNCHANGED <<status, get, delivered, client, timer, limit>>

DoCompleteRx ==
  /\ reader.pc = "complete" /\ reader' = [pc |-> "idle", i |-> 0]
  /\ NothingRead \/ Deliver \/ KeepInRing
  /\ UNCHANGED <<buffer, ring, handler, line, taken, cancels>>

DoRead == TimerFires \/ TakeWord \/ NoWord \/ DoCompleteRx

-------------------------------------------------------------------------------
Next == limit = "no" /\ (SendWord \/ EndPacket \/ Read \/ Cancel \/ HandleMsg \/ DoRead)

Spec == Init /\ [][Next]_vars

(* Both threads of the kernel go on, and the host ends its packets.        *)
Goes == limit = "no" /\ HandleMsg
Polls == limit = "no" /\ DoRead
Ends == limit = "no" /\ EndPacket
FairSpec == Spec /\ WF_vars(Goes) /\ WF_vars(Polls) /\ WF_vars(Ends)

-------------------------------------------------------------------------------
TypeOK ==
  /\ status \in BOOLEAN /\ buffer \in BOOLEAN /\ timer \in BOOLEAN
  /\ ring \in [0 .. BufSize - 1 -> 0 .. MaxBytes + BufSize]
  /\ get \in 0 .. BufSize - 1 /\ put \in 0 .. BufSize
  /\ packet \in [started : BOOLEAN, ended : BOOLEAN]
  /\ handler \in {"idle", "store status", "store buffer", "start timer", "cancel", "stop timer"}
  /\ reader \in [pc : {"idle", "read", "complete"}, i : 0 .. BufSize + 3]
  /\ line \in Words \union {<<>>, <<TRUE>>} /\ client \in {"stopped", "waiting"}
  /\ limit \in {"no", "overflow", "full", "too long"}

(* What waits in the ring.                                                 *)
Buffered ==
  LET i == IF reader.pc = "idle" THEN put ELSE reader.i
  IN  [k \in 1 .. i - get |-> ring[get + k - 1]]

(* The client has been given, or will be given from the ring, every byte   *)
(* that was taken from the channel, once and in order, over cancels and    *)
(* new reads, until the ring or the client's buffer is too small.          *)
Delivery ==
  limit = "no" => delivered \o Buffered = [n \in 1 .. taken |-> n]

(* A client that waits is answered when there is a word for it, unless it  *)
(* cancels.                                                                *)
Answered ==
  (client = "waiting" /\ line # <<>>) ~> (client = "stopped" \/ limit # "no")
===============================================================================
