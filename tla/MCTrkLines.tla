------------------------------- MODULE MCTrkLines -------------------------------
(***************************************************************************)
(* The ways on which bytes of the host come to the TRK, one of them in     *)
(* each behaviour: the XTI and the DCC driver, and the byte level of the   *)
(* framing layer.                                                          *)
(***************************************************************************)
EXTENDS Naturals

VARIABLES
  which,       \* the way that this behaviour is about
  xStatus, xBuffer, xPending, xHandler, xRx, xClient, xChars, xReceived, xArrived, xCancels,
  xOverlapped,
  dStatus, dBuffer, dRing, dGet, dPut, dPacket, dTimer, dHandler, dReader, dLine, dTaken,
  dDelivered, dClient, dCancels, dLimit,
  fFraming, fEscape, fBuffer, fFcs, fGot, fNaks, fLine, fSent, fNoise

Xti == INSTANCE TrkXtiDriver WITH
  MaxMessages <- 4, MaxCancels <- 2,
  status <- xStatus, buffer <- xBuffer, pending <- xPending, handler <- xHandler, rx <- xRx,
  client <- xClient, chars <- xChars, received <- xReceived, arrived <- xArrived,
  cancels <- xCancels, overlapped <- xOverlapped

Dcc == INSTANCE TrkDccDriver WITH
  BufSize <- 6, ClientSize <- 4, MaxBytes <- 9, MaxCancels <- 2,
  Words <- {<<TRUE>>, <<FALSE, FALSE>>, <<TRUE, FALSE, FALSE>>, <<FALSE, TRUE>>},
  status <- dStatus, buffer <- dBuffer, ring <- dRing, get <- dGet, put <- dPut,
  packet <- dPacket, timer <- dTimer, handler <- dHandler, reader <- dReader, line <- dLine,
  taken <- dTaken, delivered <- dDelivered, client <- dClient, cancels <- dCancels,
  limit <- dLimit

(* 3-bit bytes: the flag is 6, the escape 5 and an escape flips bit 1, so   *)
(* that 4 and 7 are what they turn into.  The messages: an ordinary one,    *)
(* one of flags and escapes only, one whose bytes are the flipped ones, one *)
(* whose checksum is escaped, and one too long.                             *)
Framing == INSTANCE TrkByteFraming WITH
  ByteSize <- 8, FLAG <- 6, ESCAPE <- 5, TRANS <- 2, MaxLength <- 4, MaxFrames <- 3, MaxNoise <- 2,
  Messages <- {<<1, 2>>, <<6, 5, 6>>, <<4, 7>>, <<1, 0>>, <<1, 2, 3, 5>>},
  NoiseBytes <- {6, 5, 1},
  framing <- fFraming, escape <- fEscape, buffer <- fBuffer, fcs <- fFcs, got <- fGot,
  naks <- fNaks, line <- fLine, sent <- fSent, noise <- fNoise

xVars == <<xStatus, xBuffer, xPending, xHandler, xRx, xClient, xChars, xReceived, xArrived,
           xCancels, xOverlapped>>
dVars == <<dStatus, dBuffer, dRing, dGet, dPut, dPacket, dTimer, dHandler, dReader, dLine,
           dTaken, dDelivered, dClient, dCancels, dLimit>>
fVars == <<fFraming, fEscape, fBuffer, fFcs, fGot, fNaks, fLine, fSent, fNoise>>
vars == <<which, xVars, dVars, fVars>>

ASSUME Framing!ByteAssumption /\ Framing!MessageAssumption

Init == which \in {"xti", "dcc", "framing"} /\ Xti!Init /\ Dcc!Init /\ Framing!Init

XtiStep(A) == which = "xti" /\ A /\ UNCHANGED <<which, dVars, fVars>>
DccStep(A) == which = "dcc" /\ A /\ UNCHANGED <<which, xVars, fVars>>
FramingStep(A) == which = "framing" /\ A /\ UNCHANGED <<which, xVars, dVars>>

Next == XtiStep(Xti!Next) \/ DccStep(Dcc!Next) \/ FramingStep(Framing!Next)

(* The fairness of the FairSpec of each driver.                            *)
FairSpec ==
  /\ Init /\ [][Next]_vars
  /\ WF_vars(XtiStep(Xti!Goes)) /\ SF_vars(XtiStep(Xti!Read)) /\ SF_vars(XtiStep(Xti!Run))
  /\ WF_vars(DccStep(Dcc!Goes)) /\ WF_vars(DccStep(Dcc!Polls)) /\ WF_vars(DccStep(Dcc!Ends))

(* Nobody gets a message or a byte twice or out of order: not a client of  *)
(* the XTI driver while its two threads keep apart, and not one of the DCC *)
(* driver, which loses none; and HandleByte gives the dispatcher exactly   *)
(* what SendMsgL encoded, and whatever bytes went missing or appeared, at  *)
(* most one intact frame is lost before the receiver is in step again.     *)
Delivery ==
  /\ Xti!Delivery /\ Dcc!Delivery
  /\ Framing!FaithfulWithoutNoise /\ Framing!RecoversInOneFrame

(* A message that the XTI driver keeps reaches its client, and a client of *)
(* the DCC driver that waits is answered when there is a word for it.      *)
Arrival == Xti!KeptArrives /\ Dcc!Answered
===============================================================================
