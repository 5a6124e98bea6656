---------------------------- MODULE TrkByteFraming ----------------------------
(***************************************************************************)
(* The byte level of CTrkFramingLayer: HandleByte's state machine and the  *)
(* encoding of SendMsgL, on a line that inserts and drops bytes.  The host *)
(* encodes its frames the way SendMsgL does.  What happens to the sequence *)
(* id of a whole frame is module TrkFraming.                               *)
(***************************************************************************)
EXTENDS Naturals, SequencesExt

CONSTANTS
  ByteSize,   \* number of byte values: 256
  FLAG,       \* PPP_FLAG: 0x7E
  ESCAPE,     \* PPP_ESCAPE: 0x7D
  TRANS,      \* PPP_TRANS, the single bit an escape flips: 0x20
  MaxLength,  \* iBuffer.MaxLength(): MAXMESSAGESIZE
  Messages,   \* the messages (type, id, payload) the host may send
  NoiseBytes, \* bytes the line may insert
  MaxFrames,  \* bound: frames sent between two disturbances
  MaxNoise    \* bound: bytes inserted or dropped

Bytes == 0..(ByteSize - 1)

ByteAssumption == {FLAG, ESCAPE} \cup NoiseBytes \subseteq Bytes /\ FLAG # ESCAPE
MessageAssumption == \A m \in Messages : Len(m) >= 2 /\ \A i \in DOMAIN m : m[i] \in Bytes

VARIABLES
  framing,  \* iFramingState
  escape,   \* iEscape
  buffer,   \* iBuffer
  fcs,      \* iFCS
  got,      \* messages passed on since the last disturbance
  naks,     \* NAKs sent since the last disturbance
  line,     \* bytes on their way to the target
  sent,     \* frames sent since the last disturbance
  noise     \* bytes inserted or dropped so far

receiver == <<framing, escape, buffer, fcs, got, naks>>
vars == <<receiver, line, sent, noise>>

(* aByte ^ PPP_TRANS, and the 8-bit checksum of serframe.h: a plain sum.   *)
Flip(b) == IF (b \div TRANS) % 2 = 1 THEN b - TRANS ELSE b + TRANS

PPPFCS(sum, b) == (sum + b) % ByteSize
PPPINITFCS == 0
PPPGOODFCS == ByteSize - 1

(* Mutant: only the flag is escaped.                                       *)
EscapeOnlyFlag(b) == IF b = FLAG THEN <<ESCAPE, Flip(b)>> ELSE <<b>>

Escaped(b) == IF b \in {FLAG, ESCAPE} THEN <<ESCAPE, Flip(b)>> ELSE <<b>>

(* SendMsgL: flag, escaped data, escaped complement of the sum, flag.      *)
Encode(m) ==
  LET sum  == FoldLeft(PPPFCS, PPPINITFCS, m)
      data == Append(m, PPPGOODFCS - sum)
  IN  <<FLAG>> \o FlattenSeq([i \in DOMAIN data |-> Escaped(data[i])]) \o <<FLAG>>

Init ==
  /\ framing = "waiting" /\ escape = FALSE /\ buffer = <<>> /\ fcs = PPPINITFCS
  /\ got = <<>> /\ naks = 0 /\ line = <<>> /\ sent = <<>> /\ noise = 0

-------------------------------------------------------------------------------
(* HandleByte, one action per transition.                                  *)

Take(b) ==
  /\ line # <<>> /\ b = Head(line) /\ line' = Tail(line)
  /\ UNCHANGED <<sent, noise>>

(* DiscardFrame.                                                           *)
DiscardFrame == framing' = "waiting" /\ buffer' = <<>>

Nak == naks' = naks + 1 /\ got' = got

(* Outside a frame only a flag counts; an escape that was pending is lost. *)
ByteWaiting(b) ==
  /\ framing = "waiting" /\ Take(b)
  /\ escape' = FALSE
  /\ IF b = FLAG THEN framing' = "found" /\ fcs' = PPPINITFCS
                 ELSE UNCHANGED <<framing, fcs>>
  /\ UNCHANGED <<buffer, got, naks>>

FlagRepeated(b) ==
  /\ framing = "found" /\ b = FLAG /\ Take(b)
  /\ escape' = FALSE
  /\ UNCHANGED <<framing, buffer, fcs, got, naks>>

Escaping == framing = "inFrame" /\ escape

(* Mutant: a bad frame is answered but stays in the buffer.                *)
FlagClosesAndKeeps(b) ==
  /\ framing = "inFrame" /\ b = FLAG /\ Take(b)
  /\ IF escape \/ Len(buffer) < 3 \/ fcs # PPPGOODFCS
     THEN Nak /\ framing' = "waiting" /\ UNCHANGED buffer
     ELSE got' = Append(got, Front(buffer)) /\ naks' = naks /\ DiscardFrame
  /\ UNCHANGED <<escape, fcs>>

(* A flag inside a frame closes it: a pending escape, fewer than three     *)
(* bytes or a wrong sum are answered with a NAK, a good frame goes on to   *)
(* the check of its sequence id without its checksum.                      *)
FlagCloses(b) ==
  /\ framing = "inFrame" /\ b = FLAG /\ Take(b)
  /\ IF escape \/ Len(buffer) < 3 \/ fcs # PPPGOODFCS
     THEN Nak
     ELSE got' = Append(got, Front(buffer)) /\ naks' = naks
  /\ DiscardFrame
  /\ UNCHANGED <<escape, fcs>>

InFrame == framing \in {"found", "inFrame"}

EscapeStarts(b) ==
  /\ InFrame /\ b = ESCAPE /\ ~Escaping /\ Take(b)
  /\ framing' = "inFrame" /\ escape' = TRUE
  /\ UNCHANGED <<buffer, fcs, got, naks>>

(* The byte, flipped back when escaped, goes into the buffer; when that is *)
(* full a NAK goes out at once and the rest of the frame is dropped.       *)
DataByte(b) ==
  /\ InFrame /\ b # FLAG /\ (Escaping \/ b # ESCAPE) /\ Take(b)
  /\ LET data == IF Escaping THEN Flip(b) ELSE b
     IN  IF Len(buffer) = MaxLength
         THEN framing' = "overflow" /\ Nak /\ UNCHANGED <<buffer, fcs>>
         ELSE /\ framing' = "inFrame"
              /\ buffer' = Append(buffer, data)
              /\ fcs' = PPPFCS(fcs, data)
              /\ UNCHANGED <<got, naks>>
  /\ escape' = FALSE

ByteOverflow(b) ==
  /\ framing = "overflow" /\ Take(b)
  /\ escape' = FALSE
  /\ IF b = FLAG THEN DiscardFrame ELSE UNCHANGED <<framing, buffer>>
  /\ UNCHANGED <<fcs, got, naks>>

HandleByte(b) ==
  \/ ByteWaiting(b) \/ FlagRepeated(b) \/ FlagCloses(b)
  \/ EscapeStarts(b) \/ DataByte(b) \/ ByteOverflow(b)

-------------------------------------------------------------------------------
SendFrame ==
  \E m \in Messages :
    /\ line = <<>> /\ Len(sent) < MaxFrames
    /\ line' = Encode(m) /\ sent' = Append(sent, m)
    /\ UNCHANGED <<receiver, noise>>

(* A disturbance; what is on the line after it counts as disturbed too.    *)
Disturb ==
  /\ noise < MaxNoise /\ noise' = noise + 1
  /\ \/ \E b \in NoiseBytes : line' = <<b>> \o line
     \/ line # <<>> /\ line' = Tail(line)
  /\ sent' = <<>> /\ got' = <<>> /\ naks' = 0
  /\ UNCHANGED <<framing, escape, buffer, fcs>>

Next == (\E b \in Bytes : HandleByte(b)) \/ SendFrame \/ Disturb

Spec == Init /\ [][Next]_vars

-------------------------------------------------------------------------------
TypeOK ==
  /\ framing \in {"waiting", "found", "inFrame", "overflow"}
  /\ escape \in BOOLEAN
  /\ Len(buffer) <= MaxLength /\ \A i \in DOMAIN buffer : buffer[i] \in Bytes
  /\ fcs \in Bytes
  /\ naks \in Nat

Fits(m) == Len(m) < MaxLength
Quiet == line = <<>>

(* On a line without noise the dispatcher sees exactly the messages that   *)
(* fit the buffer, unescaped and in order, and each that does not is       *)
(* answered with one NAK.                                                  *)
FaithfulWithoutNoise ==
  noise = 0 /\ Quiet => /\ got = SelectSeq(sent, Fits)
                        /\ naks = Len(sent) - Len(got)

(* Whatever bytes went missing or appeared, at most one intact frame is    *)
(* lost before the receiver is in step again.                              *)
RecoversInOneFrame ==
  Quiet /\ sent # <<>> => IsSuffix(SelectSeq(Tail(sent), Fits), got)

===============================================================================
