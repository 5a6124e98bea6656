------------------------------ MODULE TrkXtiDriver ------------------------------
(***************************************************************************)
(* The XTI channel of the kernel (DTrkXtiChannel, DTrkXtiSubscriber) and   *)
(* its client, CTrkXtiCommPort.  Two threads of the kernel meet in it: the *)
(* one that handles the messages of the client (HandleMsg: Read, Cancel,   *)
(* Write) and the one of TraceCore that brings a message of the host       *)
(* (MessageReceived, DoCompleteRx).  Only the second and Write take iLock. *)
(* Messages are numbered in the order in which they come.                  *)
(***************************************************************************)
EXTENDS Naturals, Sequences, SequencesExt

CONSTANTS
  MaxMessages, \* bound: messages of the host
  MaxCancels   \* bound: cancels of the client

Nothing == 0   \* no message, a request status or a buffer that is NULL

VARIABLES
  status,     \* iRxRequestStatus is set
  buffer,     \* iRxClientBuffer is set
  pending,    \* iRxPendingMsg and its buffer: a message, or Nothing
  handler,    \* where HandleMsg is
  rx,         \* where DoCompleteRx is, and its message; it holds iLock unless idle
  client,     \* the active object: "stopped", "calling", "waiting", "signalled"
  chars,      \* what is in iReceivedChars of the client
  received,   \* what the client passed on to the framing layer
  arrived, cancels, \* the bounded events so far
  overlapped  \* the two threads were in the channel at the same time

vars == <<status, buffer, pending, handler, rx, client, chars, received, arrived,
          cancels, overlapped>>

Idle == [pc |-> "idle", message |-> Nothing]

Init ==
  /\ status = FALSE /\ buffer = FALSE /\ pending = Nothing
  /\ handler = "idle" /\ rx = Idle
  /\ client = "stopped" /\ chars = Nothing /\ received = <<>>
  /\ arrived = 0 /\ cancels = 0 /\ overlapped = FALSE

-------------------------------------------------------------------------------
(* Steps of the handler and of the receiver; overlapped remembers that one *)
(* was made while the other thread was in the channel.                     *)
HandlerAt(pc, next) ==
  /\ handler = pc /\ handler' = next
  /\ overlapped' = (overlapped \/ rx.pc # "idle")
  /\ UNCHANGED <<rx, arrived, cancels, received>>

RxAt(pc, next) ==
  /\ rx.pc = pc
  /\ rx' = IF next = "idle" THEN Idle ELSE [rx EXCEPT !.pc = next]
  /\ overlapped' = (overlapped \/ handler # "idle")
  /\ UNCHANGED <<handler, arrived, cancels, received>>

(* Kern::RequestComplete: it signals the client that waits and forgets the *)
(* request; without a request nothing is signalled.                        *)
RequestComplete ==
  /\ client' = IF status THEN "signalled" ELSE client
  /\ status' = FALSE

(* Kern::ThreadDesWrite of a message: it fails without a buffer, and the   *)
(* client then passes nothing on.                                          *)
ThreadDesWrite(message) == chars' = IF buffer THEN message ELSE Nothing

-------------------------------------------------------------------------------
(* The client.                                                             *)

(* Listen and RunL: IssueReadRequest sends ReadOneOrMore and is back when  *)
(* HandleMsg has completed the message.                                    *)
Read ==
  /\ client = "stopped" /\ handler = "idle"
  /\ client' = "calling" /\ handler' = "store status"
  /\ overlapped' = (overlapped \/ rx.pc # "idle")
  /\ UNCHANGED <<status, buffer, pending, rx, chars, received, arrived, cancels>>

(* RunL passes the message on.                                             *)
Run ==
  /\ client = "signalled" /\ handler = "idle"
  /\ client' = "stopped"
  /\ received' = IF chars = Nothing THEN received ELSE Append(received, chars)
  /\ UNCHANGED <<status, buffer, pending, handler, rx, chars, arrived, cancels, overlapped>>

(* StopListening and the destructor call ReadCancel, whatever became of    *)
(* the request, and what was signalled is not run.                         *)
Cancel ==
  /\ handler = "idle" /\ cancels < MaxCancels /\ cancels' = cancels + 1
  /\ handler' = "cancel"
  /\ overlapped' = (overlapped \/ rx.pc # "idle")
  /\ UNCHANGED <<status, buffer, pending, rx, client, chars, received, arrived>>

(* SendDataL: DoControl waits for iLock.                                   *)
Write ==
  /\ handler = "idle" /\ client = "stopped" /\ rx.pc = "idle"
  /\ handler' = "write"
  /\ UNCHANGED <<status, buffer, pending, rx, client, chars, received, arrived, cancels,
                 overlapped>>

-------------------------------------------------------------------------------
(* HandleMsg, one action for each access to what the threads share.        *)

StoreStatus ==
  /\ HandlerAt("store status", "store buffer")
  /\ status' = TRUE
  /\ UNCHANGED <<buffer, pending, client, chars>>

StoreBuffer ==
  /\ HandlerAt("store buffer", "look")
  /\ buffer' = TRUE
  /\ UNCHANGED <<status, pending, client, chars>>

(* Mutant: a message that was kept is not looked for.                      *)
LookAway ==
  /\ HandlerAt("look", "idle")
  /\ client' = IF client = "calling" THEN "waiting" ELSE client
  /\ UNCHANGED <<status, buffer, pending, chars>>

(* No message is kept: the client waits.                                   *)
LookNothing ==
  /\ pending = Nothing
  /\ HandlerAt("look", "idle")
  /\ client' = IF client = "calling" THEN "waiting" ELSE client
  /\ UNCHANGED <<status, buffer, pending, chars>>

LookKept ==
  /\ pending # Nothing
  /\ HandlerAt("look", "complete")
  /\ ThreadDesWrite(pending)
  /\ UNCHANGED <<status, buffer, pending, client>>

Look == LookNothing \/ LookKept

CompleteKept ==
  /\ HandlerAt("complete", "forget")
  /\ RequestComplete
  /\ UNCHANGED <<buffer, pending, chars>>

(* Mutant: the message stays.                                              *)
ForgetStatusOnly ==
  /\ HandlerAt("forget", "idle")
  /\ UNCHANGED <<status, buffer, pending, chars, client>>

ForgetKept ==
  /\ HandlerAt("forget", "idle")
  /\ pending' = Nothing
  /\ UNCHANGED <<status, buffer, chars, client>>

DoRequest == StoreStatus \/ StoreBuffer \/ Look \/ CompleteKept \/ ForgetKept

(* DoCancel for ERequestReadCancel; Cancel() of the active object waits    *)
(* for the signal and takes it.                                            *)
DoCancel ==
  /\ HandlerAt("cancel", "idle")
  /\ status' = FALSE /\ buffer' = FALSE /\ client' = "stopped"
  /\ UNCHANGED <<pending, chars>>

DoWrite ==
  /\ HandlerAt("write", "idle")
  /\ UNCHANGED <<status, buffer, pending, client, chars>>

-------------------------------------------------------------------------------
(* DTrkXtiSubscriber::MessageReceived and DoCompleteRx.                    *)

Arrive ==
  /\ rx.pc = "idle" /\ handler # "write" /\ arrived < MaxMessages
  /\ arrived' = arrived + 1
  /\ rx' = [pc |-> "test", message |-> arrived + 1]
  /\ overlapped' = (overlapped \/ handler # "idle")
  /\ UNCHANGED <<status, buffer, pending, handler, client, chars, received, cancels>>

Test ==
  /\ \/ status /\ RxAt("test", "give")
     \/ ~status /\ pending = Nothing /\ RxAt("test", "keep")
     \/ ~status /\ pending # Nothing /\ RxAt("test", "idle")
  /\ UNCHANGED <<status, buffer, pending, client, chars>>

Give ==
  /\ RxAt("give", "complete")
  /\ ThreadDesWrite(rx.message)
  /\ UNCHANGED <<status, buffer, pending, client>>

CompleteGiven ==
  /\ RxAt("complete", "idle")
  /\ RequestComplete
  /\ UNCHANGED <<buffer, pending, chars>>

Keep ==
  /\ RxAt("keep", "idle")
  /\ pending' = rx.message
  /\ UNCHANGED <<status, buffer, client, chars>>

DoCompleteRx == Test \/ Give \/ CompleteGiven \/ Keep

-------------------------------------------------------------------------------
Next == Read \/ Run \/ Cancel \/ Write \/ DoRequest \/ DoCancel \/ DoWrite
        \/ Arrive \/ DoCompleteRx

Spec == Init /\ [][Next]_vars

(* The threads of the kernel go on; the client runs when it is signalled   *)
(* and reads again.                                                        *)
Goes == DoRequest \/ DoCancel \/ DoWrite \/ DoCompleteRx
FairSpec == Spec /\ WF_vars(Goes) /\ SF_vars(Read) /\ SF_vars(Run)

-------------------------------------------------------------------------------
Message == 1 .. MaxMessages

TypeOK ==
  /\ status \in BOOLEAN /\ buffer \in BOOLEAN /\ overlapped \in BOOLEAN
  /\ pending \in Message \union {Nothing} /\ chars \in Message \union {Nothing}
  /\ handler \in {"idle", "store status", "store buffer", "look", "complete", "forget",
                  "cancel", "write"}
  /\ rx.pc \in {"idle", "test", "give", "keep", "complete"}
  /\ client \in {"stopped", "calling", "waiting", "signalled"}
  /\ received \in Seq(Message)

InOrder == \A i, j \in DOMAIN received : i < j => received[i] < received[j]
Awake == ~(client = "waiting" /\ handler = "idle" /\ rx.pc = "idle" /\ pending # Nothing)

(* As long as the two threads have not met in the channel, the client gets *)
(* the messages once and in order, and does not wait while one is kept for *)
(* it.  When they have met, each of these can fail.                        *)
Delivery == overlapped \/ (InOrder /\ Awake)

(* The message that is kept reaches the client that reads, unless it is    *)
(* cancelled on its way or the two threads meet in the channel.            *)
KeptArrives ==
  \A m \in Message :
    (pending = m) ~> (overlapped \/ cancels > 0 \/ Contains(received, m))

===============================================================================
