------------------------------ MODULE TrkFraming ------------------------------
(***************************************************************************)
(* The message level of CTrkFramingLayer (trkagent/engine): sequence ids,  *)
(* acknowledgements and re-sent replies between the host debugger and the  *)
(* TRK agent on a line that loses and damages frames.  The byte level is   *)
(* module TrkByteFraming.                                                  *)
(*                                                                         *)
(* The host is not in the repository: it is the conservative debugger that *)
(* engine/msgcmd.h (341-370) asks for.  It has one command outstanding,    *)
(* repeats it up to MaxTries times, possibly too early, and when it gives  *)
(* up it waits for the line to fall quiet and resets with sequence id 0.   *)
(***************************************************************************)
EXTENDS Naturals, Sequences

CONSTANTS
  MaxSeq,     \* the largest sequence id: 255 in the code (a TUint8)
  MaxTries,   \* how often the host sends one command before it gives up
  MaxCmds,    \* bound: commands issued in a behaviour
  Connects,   \* the commands among 1..MaxCmds that are kDSConnect
  MaxNoise,   \* bound: frames the line loses or damages
  MaxEvents,  \* bound: event messages the target originates
  ChanCap,    \* bound: frames in flight in one direction
  Outcomes    \* how the handler of a command can end

Cmds == 1..MaxCmds

ASSUME SeqAssumption == MaxSeq \in Nat /\ MaxSeq >= 2
ASSUME BoundAssumption == {MaxTries, MaxCmds, MaxNoise, MaxEvents, ChanCap} \subseteq Nat
ASSUME ConnectAssumption == Connects \subseteq Cmds
ASSUME OutcomeAssumption == Outcomes \subseteq {"ok", "error", "okThenError"}

NoReply == [type |-> "none", sid |-> 0, err |-> "none"]

VARIABLES
  seqId,      \* iSequenceId: the id expected of the host's next message
  outSeqId,   \* iOutSequenceId: the id of the next event message
  lastReply,  \* iLastReply, NoReply when the pointer is NULL
  connected,  \* CTrkDispatchLayer::iIsConnected
  toTarget,   \* frames on the line to the target
  toHost,     \* frames on the line to the host
  hostNext,   \* host: the id its next command will carry
  hostCmd,    \* host: the current command, 0 for the resetting ping
  tries,      \* host: how often hostCmd was sent, 0 when it is settled
  status,     \* host: what it believes of each command
  executed,   \* how often each command was executed
  prevSid,    \* id of the last intact command that was executed
  noise,      \* frames lost or damaged so far
  events      \* event messages sent so far

targetVars == <<seqId, outSeqId, lastReply, connected, executed, prevSid>>
hostVars == <<hostNext, hostCmd, tries, status>>
vars == <<targetVars, hostVars, toTarget, toHost, noise, events>>

(* Mutant: no increment.                                                    *)
IncForgotten(id) == id

(* IncrementSequenceId and IncrementOutSequenceId: 0 is never wrapped to.  *)
Inc(id) == IF id = MaxSeq THEN 1 ELSE id + 1

Reply(type, sid, err) == [type |-> type, sid |-> sid, err |-> err]

Frame(type, sid, cmd) == [type |-> type, sid |-> sid, cmd |-> cmd, damaged |-> FALSE]

Init ==
  /\ seqId = 0 /\ outSeqId = 1 /\ lastReply = NoReply /\ connected = FALSE
  /\ toTarget = <<>> /\ toHost = <<>>
  /\ hostNext = 0 /\ hostCmd = 0 /\ tries = 1
  /\ status = [c \in Cmds |-> "unsent"]
  /\ executed = [c \in Cmds |-> 0]
  /\ prevSid = 0 /\ noise = 0 /\ events = 0

-------------------------------------------------------------------------------
(* The target handles the frame at the head of the line.                   *)

Take ==
  /\ toTarget # <<>> /\ Len(toHost) < ChanCap
  /\ toTarget' = Tail(toTarget)
  /\ UNCHANGED <<hostVars, noise, events>>

(* Mutant: the NAK goes out but is not kept for a repetition.              *)
RespondErrNotKept(type, err) ==
  /\ toHost' = Append(toHost, Reply(type, seqId, err))
  /\ seqId' = IF err = "SequenceMissing" THEN seqId ELSE Inc(seqId)
  /\ lastReply' = lastReply

(* RespondErr: reply with the expected id, move it on unless the error is  *)
(* SequenceMissing, and keep the reply for a repetition in every case.     *)
RespondErr(type, err) ==
  LET r == Reply(type, seqId, err)
  IN  /\ toHost' = Append(toHost, r)
      /\ seqId' = IF err = "SequenceMissing" THEN seqId ELSE Inc(seqId)
      /\ lastReply' = r

(* Mutant: the frame is acknowledged before its checksum is looked at.     *)
AcknowledgeDamaged ==
  LET m == Head(toTarget)
  IN  /\ Take /\ m.damaged
      /\ RespondErr("ACK", "NoError")
      /\ UNCHANGED <<outSeqId, connected, executed, prevSid>>

(* The frame was too short, ended in an escape, overflowed the buffer or   *)
(* failed its checksum: four NAKs that the framing layer treats alike.     *)
ReceiveDamaged ==
  LET m == Head(toTarget)
  IN  /\ Take /\ m.damaged
      /\ RespondErr("NAK", "Damaged")
      /\ UNCHANGED <<outSeqId, connected, executed, prevSid>>

(* What the dispatcher sends for a command when "first" is expected: a     *)
(* handler replies, or leaves and HandleMsg replies with the error, or it  *)
(* leaves after it has replied (DoStopL on ReadRegisters, RespondOkL when  *)
(* iLastReply cannot be allocated) and both replies go out.                *)
Answers(out, first) ==
  LET ack == Reply("ACK", first, "NoError")
  IN  CASE out = "ok"          -> <<ack>>
        [] out = "error"       -> <<[ack EXCEPT !.err = "OsError"]>>
        [] out = "okThenError" -> <<ack, Reply("ACK", Inc(first), "OsError")>>

(* DispatchMsgL runs the command; a kDSConnect on a connected target calls *)
(* ResetSequenceIDs before it replies.                                     *)
Dispatch(m, expected, out) ==
  \E ending \in Outcomes :
    LET reconnect == m.cmd \in Connects /\ connected
        first     == IF reconnect THEN 1 ELSE expected
        answers   == Answers(ending, first)
    IN  /\ toHost' = toHost \o answers
        /\ lastReply' = answers[Len(answers)]
        /\ seqId' = IF Len(answers) = 1 THEN Inc(first) ELSE Inc(Inc(first))
        /\ outSeqId' = IF reconnect THEN 1 ELSE out
        /\ connected' = IF m.cmd \in Connects THEN ending # "error" ELSE connected
        /\ executed' = [c \in Cmds |-> IF c = m.cmd THEN executed[c] + 1 ELSE executed[c]]
        /\ prevSid' = m.sid

(* Mutant: id 0 is accepted but the sequences are not reset.               *)
ReceiveResetKeepsIds ==
  LET m == Head(toTarget)
  IN  Take /\ ~m.damaged /\ m.sid = 0 /\ Dispatch(m, seqId, outSeqId)

(* ProcessFrame: id 0 is always accepted and resets both sequences.        *)
ReceiveReset ==
  LET m == Head(toTarget)
  IN  Take /\ ~m.damaged /\ m.sid = 0 /\ Dispatch(m, 0, 1)

Numbered(m) == ~m.damaged /\ m.sid # 0 /\ m.type = "cmd"

ReceiveExpected ==
  LET m == Head(toTarget)
  IN  Take /\ Numbered(m) /\ m.sid = seqId /\ Dispatch(m, seqId, outSeqId)

(* Mutant: the repeated message is processed again.                        *)
ReceiveDuplicateRuns ==
  LET m == Head(toTarget)
  IN  Take /\ Numbered(m) /\ m.sid # seqId /\ m.sid + 1 = seqId /\ Dispatch(m, m.sid, outSeqId)

(* The id before the expected one: repeat the last reply, do not execute.  *)
ReceiveDuplicate ==
  LET m == Head(toTarget)
  IN  /\ Take /\ Numbered(m) /\ m.sid # seqId /\ m.sid + 1 = seqId
      /\ toHost' = Append(toHost, lastReply)
      /\ UNCHANGED targetVars

ReceiveUnexpected ==
  LET m == Head(toTarget)
  IN  /\ Take /\ Numbered(m) /\ m.sid # seqId /\ m.sid + 1 # seqId
      /\ RespondErr("NAK", "SequenceMissing")
      /\ UNCHANGED <<outSeqId, connected, executed, prevSid>>

(* The host's answer to an event: no id check, and DispatchMsgL drops it.  *)
ReceiveAck ==
  LET m == Head(toTarget)
  IN  /\ Take /\ ~m.damaged /\ m.sid # 0 /\ m.type = "ack"
      /\ UNCHANGED <<targetVars, toHost>>

(* InformEventL: the target originates a message on its own sequence.      *)
InformEvent ==
  /\ connected /\ events < MaxEvents /\ Len(toHost) < ChanCap
  /\ toHost' = Append(toHost, Reply("event", outSeqId, "NoError"))
  /\ outSeqId' = Inc(outSeqId)
  /\ events' = events + 1
  /\ UNCHANGED <<seqId, lastReply, connected, executed, prevSid,
                 hostVars, toTarget, noise>>

-------------------------------------------------------------------------------
(* The line: a frame is lost (SendDataL failing three times is a loss too) *)
(* or arrives damaged.  A damaged reply is a lost one: the host drops it.  *)

Lose ==
  /\ noise < MaxNoise /\ noise' = noise + 1
  /\ \/ toTarget # <<>> /\ toTarget' = Tail(toTarget) /\ toHost' = toHost
     \/ toHost # <<>> /\ toHost' = Tail(toHost) /\ toTarget' = toTarget
  /\ UNCHANGED <<targetVars, hostVars, events>>

Damage ==
  /\ noise < MaxNoise /\ noise' = noise + 1
  /\ toTarget # <<>> /\ ~Head(toTarget).damaged
  /\ toTarget' = [toTarget EXCEPT ![1].damaged = TRUE]
  /\ UNCHANGED <<targetVars, hostVars, toHost, events>>

-------------------------------------------------------------------------------
(* The host.                                                               *)

Send(m) == Len(toTarget) < ChanCap /\ toTarget' = Append(toTarget, m)

HostIssue ==
  \E c \in Cmds :
    /\ tries = 0 /\ status[c] = "unsent"
    /\ \A d \in 1..(c - 1) : status[d] # "unsent"
    /\ Send(Frame("cmd", hostNext, c))
    /\ hostCmd' = c /\ tries' = 1
    /\ status' = [status EXCEPT ![c] = "sent"]
    /\ UNCHANGED <<targetVars, toHost, hostNext, noise, events>>

HostRepeat ==
  /\ hostCmd # 0 /\ tries > 0 /\ tries < MaxTries
  /\ Send(Frame("cmd", hostNext, hostCmd))
  /\ tries' = tries + 1
  /\ UNCHANGED <<targetVars, toHost, hostNext, hostCmd, status, noise, events>>

(* Give up once the line is quiet, and reset with a ping that carries id 0.*)
HostReset ==
  /\ tries > 0 /\ (hostCmd = 0 \/ tries >= MaxTries)
  /\ toTarget = <<>> /\ toHost = <<>>
  /\ Send(Frame("cmd", 0, 0))
  /\ hostNext' = 0 /\ hostCmd' = 0 /\ tries' = 1
  /\ status' = [c \in Cmds |-> IF c = hostCmd THEN "failed" ELSE status[c]]
  /\ UNCHANGED <<targetVars, toHost, noise, events>>

(* An ACK settles the command when it carries its id.  Anything else, a    *)
(* NAK and the odd ACK of a reconnect too, leaves the host to repeat.      *)
Settles(r) == tries > 0 /\ r.type = "ACK" /\ r.sid = hostNext

HostReceive ==
  LET r == Head(toHost)
  IN  /\ toHost # <<>> /\ toHost' = Tail(toHost)
      /\ IF Settles(r)
         THEN /\ tries' = 0 /\ hostNext' = Inc(r.sid)
              /\ status' = [c \in Cmds |->
                              IF c # hostCmd THEN status[c]
                              ELSE IF r.err = "NoError" THEN "answered" ELSE "failed"]
         ELSE UNCHANGED <<tries, hostNext, status>>
      /\ \/ r.type = "event" /\ Send(Frame("ack", r.sid, 0))
         \/ toTarget' = toTarget
      /\ UNCHANGED <<targetVars, hostCmd, noise, events>>

-------------------------------------------------------------------------------
Target == \/ ReceiveDamaged \/ ReceiveReset \/ ReceiveExpected
          \/ ReceiveDuplicate \/ ReceiveUnexpected \/ ReceiveAck

Next == \/ Target \/ InformEvent
        \/ Lose \/ Damage
        \/ HostIssue \/ HostRepeat \/ HostReset \/ HostReceive

Spec == Init /\ [][Next]_vars

(* The agent's active scheduler serves the port, the host reads its input  *)
(* and its timer fires.  Nobody has to lose, damage, issue or raise events.*)
Fairness == /\ WF_vars(Target)
            /\ WF_vars(HostRepeat) /\ WF_vars(HostReset) /\ WF_vars(HostReceive)

FairSpec == Spec /\ Fairness

-------------------------------------------------------------------------------
Ids == 0..MaxSeq
Frames == [type : {"cmd", "ack"}, sid : Ids, cmd : 0..MaxCmds, damaged : BOOLEAN]
Replies == [type : {"ACK", "NAK", "event"}, sid : Ids,
            err : {"NoError", "OsError", "Damaged", "SequenceMissing"}]

(* Every variable has the values the code gives it; ids stay within a byte.*)
TypeOK ==
  /\ seqId \in Ids /\ outSeqId \in Ids \ {0} /\ prevSid \in Ids
  /\ lastReply \in Replies \cup {NoReply}
  /\ connected \in BOOLEAN
  /\ toTarget \in Seq(Frames) /\ toHost \in Seq(Replies)
  /\ hostNext \in Ids /\ hostCmd \in 0..MaxCmds /\ tries \in Nat
  /\ status \in [Cmds -> {"unsent", "sent", "answered", "failed"}]
  /\ executed \in [Cmds -> Nat]
  /\ noise \in Nat /\ events \in Nat

(* ProcessFrame dereferences iLastReply when a message repeats the         *)
(* previous id, and nothing there checks that a reply was ever kept.       *)
ReplyAvailable ==
  \A s \in Ids \ {0} : s # seqId /\ s + 1 = seqId => lastReply # NoReply

(* msgcmd.h 355-359: duplicates are not re-processed.  It holds while the  *)
(* noise on one command cannot carry the expected id once round the byte.  *)
(* A reconnect is left out: it restarts the numbering at its own id.       *)
AtMostOnce == \A c \in Cmds \ Connects : executed[c] <= 1

(* A command the host believes to have succeeded was executed: no stale    *)
(* reply, and no repeated reply to another command, passes for its own.    *)
NoFalseAck == \A c \in Cmds \ Connects : status[c] = "answered" => executed[c] = 1

(* The exchange implements the promise of TrkCommand.                      *)
Fate(c) ==
  IF c \in Connects THEN "unsent"
  ELSE CASE status[c] = "failed"                   -> "abandoned"
         [] status[c] = "sent" /\ executed[c] > 0  -> "executed"
         [] OTHER                                  -> status[c]

Command == INSTANCE TrkCommand WITH Commands <- Cmds, fate <- [c \in Cmds |-> Fate(c)]

CommandSpec == Command!Spec

(* The host is never stuck: however the line behaved, its command settles  *)
(* or a reset brings the two sequences together again.                     *)
HostProgress == tries > 0 ~> tries = 0

===============================================================================
