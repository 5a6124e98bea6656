--------------------------- MODULE TrkFramingProofs ---------------------------
(* Proofs about TrkFraming for every MaxSeq, every number of commands and  *)
(* every bound.  TypeOK alone is not inductive: a repeated reply is a reply*)
(* only because ReplyAvailable holds, so the two are proved together.      *)
(* That commands run once, that answers are true and that the exchange     *)
(* implements TrkCommand needs to know all that can be on the line: FInv.  *)
EXTENDS TrkFraming, Integers, TLAPS

IInv == TypeOK /\ ReplyAvailable

(* IncrementSequenceId stays within a byte and never yields 0.             *)
LEMMA IncType ==
  ASSUME NEW id \in Ids PROVE Inc(id) \in Ids \ {0}
  BY SeqAssumption DEF Inc, Ids

(* Only a message that leaves an expected id of 2 or more is a repetition. *)
LEMMA ReplyAvailableMeans ==
  ASSUME seqId \in Ids PROVE ReplyAvailable <=> (seqId >= 2 => lastReply # NoReply)
<1>1. ASSUME ReplyAvailable, seqId >= 2 PROVE lastReply # NoReply
  <2>1. seqId - 1 \in Ids \ {0} /\ seqId - 1 # seqId /\ (seqId - 1) + 1 = seqId
    BY <1>1, SeqAssumption DEF Ids
  <2> QED BY <2>1, <1>1 DEF ReplyAvailable
<1>2. ASSUME seqId >= 2 => lastReply # NoReply PROVE ReplyAvailable
  BY <1>2, SeqAssumption DEF ReplyAvailable, Ids
<1> QED BY <1>1, <1>2

LEMMA InitIInv == Init => IInv
<1> SUFFICES ASSUME Init PROVE IInv
  OBVIOUS
<1>1. TypeOK
  <2>1. seqId \in Ids /\ outSeqId \in Ids \ {0} /\ prevSid \in Ids /\ hostNext \in Ids
    BY SeqAssumption DEF Init, Ids
  <2>2. hostCmd \in 0..MaxCmds /\ tries \in Nat /\ noise \in Nat /\ events \in Nat
    BY BoundAssumption DEF Init
  <2>3. status \in [Cmds -> {"unsent", "sent", "answered", "failed"}]
        /\ executed \in [Cmds -> Nat]
    BY DEF Init
  <2>4. toTarget \in Seq(Frames) /\ toHost \in Seq(Replies)
    BY DEF Init
  <2>5. lastReply \in Replies \cup {NoReply} /\ connected \in BOOLEAN
    BY DEF Init
  <2> QED BY <2>1, <2>2, <2>3, <2>4, <2>5 DEF TypeOK
<1>2. ReplyAvailable
  BY DEF Init, ReplyAvailable, Ids
<1> QED BY <1>1, <1>2 DEF IInv

(* A reply built from valid ids is a reply, and is not the missing one.    *)
LEMMA ReplyType ==
  ASSUME NEW sid \in Ids, NEW type \in {"ACK", "NAK", "event"},
         NEW err \in {"NoError", "OsError", "Damaged", "SequenceMissing"}
  PROVE  Reply(type, sid, err) \in Replies /\ Reply(type, sid, err) # NoReply
  BY DEF Reply, Replies, NoReply

(* What every handler of a frame leaves behind apart from the replies.     *)
LEMMA TakeType ==
  ASSUME TypeOK, Take
  PROVE  /\ Head(toTarget) \in Frames
         /\ toTarget' \in Seq(Frames)
         /\ hostNext' \in Ids /\ hostCmd' \in 0..MaxCmds /\ tries' \in Nat
         /\ status' \in [Cmds -> {"unsent", "sent", "answered", "failed"}]
         /\ noise' \in Nat /\ events' \in Nat
  BY DEF TypeOK, Take, hostVars

LEMMA RespondErrIInv ==
  ASSUME IInv, Take, NEW type \in {"ACK", "NAK"}, NEW err \in {"Damaged", "SequenceMissing"},
         RespondErr(type, err),
         UNCHANGED <<outSeqId, connected, executed, prevSid>>
  PROVE  IInv'
<1> DEFINE r == Reply(type, seqId, err)
<1>1. TypeOK BY DEF IInv
<1>2. Head(toTarget).sid \in Ids /\ seqId \in Ids
  BY <1>1, TakeType DEF Frames, TypeOK
<1>3. r \in Replies /\ r # NoReply
  BY <1>2, ReplyType
<1>4. toHost' = Append(toHost, r) /\ lastReply' = r /\ seqId' \in {seqId, Inc(seqId)}
  BY DEF RespondErr
<1>5. seqId' \in Ids
  BY <1>2, <1>4, IncType
<1>6. TypeOK'
  BY <1>1, <1>3, <1>4, <1>5, TakeType DEF TypeOK
<1>7. ReplyAvailable'
  BY <1>3, <1>4 DEF ReplyAvailable
<1> QED BY <1>6, <1>7 DEF IInv

(* Whatever a handler answers, its last answer is a reply that is kept.    *)
LEMMA AnswersType ==
  ASSUME NEW out \in Outcomes, NEW first \in Ids
  PROVE  LET a == Answers(out, first)
         IN  a \in Seq(Replies) /\ Len(a) \in {1, 2} /\ a[Len(a)] \in Replies \ {NoReply}
<1> DEFINE ack == Reply("ACK", first, "NoError")
           bad == Reply("ACK", first, "OsError")
           late == Reply("ACK", Inc(first), "OsError")
<1>1. ack \in Replies /\ ack # NoReply /\ bad \in Replies /\ bad # NoReply
  BY ReplyType
<1>2. late \in Replies /\ late # NoReply
  BY IncType, ReplyType
<1>3. [ack EXCEPT !.err = "OsError"] = bad
  BY DEF Reply
<1>4. CASE out = "ok"
  BY <1>1, <1>4 DEF Answers
<1>5. CASE out = "error"
  BY <1>1, <1>3, <1>5 DEF Answers
<1>6. CASE out = "okThenError"
  BY <1>1, <1>2, <1>6 DEF Answers
<1> QED BY <1>4, <1>5, <1>6, OutcomeAssumption

LEMMA DispatchIInv ==
  ASSUME IInv, Take, NEW expected \in Ids, NEW out \in Ids \ {0},
         Dispatch(Head(toTarget), expected, out)
  PROVE  IInv'
<1> DEFINE m == Head(toTarget)
           reconnect == m.cmd \in Connects /\ connected
           first == IF reconnect THEN 1 ELSE expected
<1>1. PICK ending \in Outcomes :
        LET answers == Answers(ending, first)
        IN  /\ toHost' = toHost \o answers
            /\ lastReply' = answers[Len(answers)]
            /\ seqId' = IF Len(answers) = 1 THEN Inc(first) ELSE Inc(Inc(first))
            /\ outSeqId' = IF reconnect THEN 1 ELSE out
            /\ connected' = IF m.cmd \in Connects THEN ending # "error" ELSE connected
            /\ executed' = [c \in Cmds |-> IF c = m.cmd THEN executed[c] + 1 ELSE executed[c]]
            /\ prevSid' = m.sid
  BY DEF Dispatch
<1> DEFINE answers == Answers(ending, first)
<1>2. TypeOK BY DEF IInv
<1>3. m.sid \in Ids /\ first \in Ids
  BY <1>2, TakeType, SeqAssumption DEF Frames, Ids
<1>4. answers \in Seq(Replies) /\ answers[Len(answers)] \in Replies \ {NoReply}
  BY <1>3, AnswersType
<1>5. seqId' \in Ids
  BY <1>1, <1>3, IncType
<1>6. outSeqId' \in Ids \ {0}
  BY <1>1, SeqAssumption DEF Ids
<1>7. toHost' \in Seq(Replies)
  BY <1>1, <1>2, <1>4 DEF TypeOK
<1>8. executed' \in [Cmds -> Nat]
  BY <1>1, <1>2 DEF TypeOK
<1>c. connected' \in BOOLEAN
  <2>1. connected \in BOOLEAN /\ (ending # "error") \in BOOLEAN
    BY <1>2 DEF TypeOK
  <2>2. connected' = IF m.cmd \in Connects THEN ending # "error" ELSE connected
    BY <1>1
  <2> QED BY <2>1, <2>2, Zenon
<1>9. TypeOK'
  BY <1>1, <1>2, <1>3, <1>4, <1>5, <1>6, <1>7, <1>8, <1>c, TakeType DEF TypeOK
<1>10. ReplyAvailable'
  BY <1>1, <1>4 DEF ReplyAvailable
<1> QED BY <1>9, <1>10 DEF IInv

LEMMA TargetIInv == IInv /\ Target => IInv'
<1> SUFFICES ASSUME IInv, Target PROVE IInv'
  OBVIOUS
<1>t. TypeOK /\ ReplyAvailable
  BY DEF IInv
<1>1. CASE ReceiveDamaged
  BY <1>1, RespondErrIInv DEF ReceiveDamaged
<1>2. CASE ReceiveReset
  BY <1>2, DispatchIInv, SeqAssumption DEF ReceiveReset, Ids
<1>3. CASE ReceiveExpected
  <2>1. seqId \in Ids /\ outSeqId \in Ids \ {0}
    BY <1>t DEF TypeOK
  <2> QED BY <1>3, <2>1, DispatchIInv DEF ReceiveExpected
<1>4. CASE ReceiveDuplicate
  <2>1. Take /\ UNCHANGED targetVars /\ toHost' = Append(toHost, lastReply)
    BY <1>4 DEF ReceiveDuplicate
  <2>2. Head(toTarget).sid \in Ids \ {0}
    BY <1>t, <1>4, <2>1, TakeType DEF ReceiveDuplicate, Numbered, Frames
  <2>3. lastReply \in Replies
    BY <1>t, <1>4, <2>2 DEF ReceiveDuplicate, ReplyAvailable, TypeOK
  <2>4. TypeOK'
    BY <1>t, <2>1, <2>3, TakeType DEF TypeOK, targetVars
  <2>5. ReplyAvailable'
    BY <1>t, <2>1 DEF ReplyAvailable, targetVars
  <2> QED BY <2>4, <2>5 DEF IInv
<1>5. CASE ReceiveUnexpected
  BY <1>5, RespondErrIInv DEF ReceiveUnexpected
<1>6. CASE ReceiveAck
  <2>1. TypeOK'
    BY <1>t, <1>6, TakeType DEF ReceiveAck, TypeOK, targetVars
  <2>2. ReplyAvailable'
    BY <1>t, <1>6 DEF ReceiveAck, ReplyAvailable, targetVars
  <2> QED BY <2>1, <2>2 DEF IInv
<1> QED BY <1>1, <1>2, <1>3, <1>4, <1>5, <1>6 DEF Target

(* The events, the line and the host leave seqId and lastReply alone.      *)
LEMMA OthersIInv ==
  ASSUME IInv, InformEvent \/ Lose \/ Damage \/ HostIssue \/ HostRepeat \/ HostReset \/ HostReceive
  PROVE  IInv'
<1>t. TypeOK /\ ReplyAvailable
  BY DEF IInv
<1>r. UNCHANGED <<seqId, lastReply>> => ReplyAvailable'
  BY <1>t DEF ReplyAvailable
<1>1. CASE InformEvent
  <2>1. Reply("event", outSeqId, "NoError") \in Replies /\ Inc(outSeqId) \in Ids \ {0}
    <3>1. outSeqId \in Ids /\ 0 \in Ids
      BY <1>t, SeqAssumption DEF TypeOK, Ids
    <3> QED BY <3>1, IncType, ReplyType
  <2>2. TypeOK'
    BY <1>t, <1>1, <2>1 DEF InformEvent, TypeOK, hostVars
  <2> QED BY <1>1, <1>r, <2>2 DEF InformEvent, IInv
<1>2. CASE Lose
  <2>1. TypeOK'
    <3>1. noise' \in Nat /\ UNCHANGED <<targetVars, hostVars, events>>
      BY <1>t, <1>2 DEF Lose, TypeOK
    <3>2. toTarget' \in Seq(Frames) /\ toHost' \in Seq(Replies)
      <4>1. toTarget \in Seq(Frames) /\ toHost \in Seq(Replies)
        BY <1>t DEF TypeOK
      <4>2. CASE toTarget # <<>> /\ toTarget' = Tail(toTarget) /\ toHost' = toHost
        BY <4>1, <4>2
      <4>3. CASE toHost # <<>> /\ toHost' = Tail(toHost) /\ toTarget' = toTarget
        BY <4>1, <4>3
      <4> QED BY <1>2, <4>2, <4>3 DEF Lose
    <3> QED BY <1>t, <3>1, <3>2 DEF TypeOK, hostVars, targetVars
  <2> QED BY <1>2, <1>r, <2>1 DEF Lose, targetVars, IInv
<1>3. CASE Damage
  <2>1. toTarget' \in Seq(Frames)
    <3>1. toTarget \in Seq(Frames) /\ 1 \in DOMAIN toTarget
      BY <1>t, <1>3 DEF Damage, TypeOK
    <3>2. toTarget[1] \in Frames
      BY <3>1
    <3>3. [toTarget[1] EXCEPT !.damaged = TRUE] \in Frames
      BY <3>2 DEF Frames
    <3>4. toTarget' = [toTarget EXCEPT ![1] = [toTarget[1] EXCEPT !.damaged = TRUE]]
      BY <1>3 DEF Damage
    <3> QED BY <3>1, <3>3, <3>4
  <2>2. TypeOK'
    BY <1>t, <1>3, <2>1 DEF Damage, TypeOK, hostVars, targetVars
  <2> QED BY <1>3, <1>r, <2>2 DEF Damage, targetVars, IInv
<1>4. CASE HostIssue
  <2>1. PICK c \in Cmds :
          /\ Send(Frame("cmd", hostNext, c)) /\ hostCmd' = c /\ tries' = 1
          /\ status' = [status EXCEPT ![c] = "sent"]
          /\ UNCHANGED <<targetVars, toHost, hostNext, noise, events>>
    BY <1>4 DEF HostIssue
  <2>2. Frame("cmd", hostNext, c) \in Frames /\ c \in 0..MaxCmds
    BY <1>t, BoundAssumption DEF TypeOK, Frame, Frames, Cmds
  <2>3. TypeOK'
    BY <1>t, <2>1, <2>2 DEF Send, TypeOK, targetVars
  <2> QED BY <2>1, <1>r, <2>3 DEF targetVars, IInv
<1>5. CASE HostRepeat
  <2>1. Frame("cmd", hostNext, hostCmd) \in Frames
    BY <1>t DEF TypeOK, Frame, Frames
  <2>2. TypeOK'
    BY <1>t, <1>5, <2>1 DEF HostRepeat, Send, TypeOK, targetVars
  <2> QED BY <1>5, <1>r, <2>2 DEF HostRepeat, targetVars, IInv
<1>6. CASE HostReset
  <2>1. Frame("cmd", 0, 0) \in Frames /\ 0 \in Ids /\ 0 \in 0..MaxCmds
    BY SeqAssumption, BoundAssumption DEF Frame, Frames, Ids
  <2>2. TypeOK'
    BY <1>t, <1>6, <2>1 DEF HostReset, Send, TypeOK, targetVars
  <2> QED BY <1>6, <1>r, <2>2 DEF HostReset, targetVars, IInv
<1>7. CASE HostReceive
  <2> DEFINE r == Head(toHost)
  <2>1. toHost # <<>> /\ toHost' = Tail(toHost) /\ UNCHANGED <<targetVars, hostCmd, noise, events>>
    BY <1>7 DEF HostReceive
  <2>2. r \in Replies /\ toHost' \in Seq(Replies)
    BY <1>t, <2>1 DEF TypeOK
  <2>3. toTarget' \in Seq(Frames)
    <3>1. Frame("ack", r.sid, 0) \in Frames
      BY <2>2, BoundAssumption DEF Frame, Frames, Replies
    <3>2. toTarget' \in {toTarget, Append(toTarget, Frame("ack", r.sid, 0))}
      BY <1>7 DEF HostReceive, Send
    <3>3. toTarget \in Seq(Frames)
      BY <1>t DEF TypeOK
    <3> QED BY <3>1, <3>2, <3>3
  <2>4. /\ hostNext' \in Ids /\ tries' \in Nat
        /\ status' \in [Cmds -> {"unsent", "sent", "answered", "failed"}]
    <3>1. Inc(r.sid) \in Ids
      BY <2>2, IncType DEF Replies
    <3>2. CASE Settles(r)
      <4>1. /\ tries' = 0 /\ hostNext' = Inc(r.sid)
            /\ status' = [c \in Cmds |->
                            IF c # hostCmd THEN status[c]
                            ELSE IF r.err = "NoError" THEN "answered" ELSE "failed"]
        BY <1>7, <3>2 DEF HostReceive
      <4>2. status \in [Cmds -> {"unsent", "sent", "answered", "failed"}]
        BY <1>t DEF TypeOK
      <4> QED BY <3>1, <4>1, <4>2
    <3>3. CASE ~Settles(r)
      BY <1>t, <1>7, <3>3 DEF HostReceive, TypeOK
    <3> QED BY <3>2, <3>3
  <2>5. TypeOK'
    BY <1>t, <2>1, <2>2, <2>3, <2>4 DEF TypeOK, targetVars
  <2> QED BY <2>1, <1>r, <2>5 DEF targetVars, IInv
<1> QED BY <1>1, <1>2, <1>3, <1>4, <1>5, <1>6, <1>7

LEMMA NextIInv == IInv /\ [Next]_vars => IInv'
<1> SUFFICES ASSUME IInv, [Next]_vars PROVE IInv'
  OBVIOUS
<1>1. CASE UNCHANGED vars
  BY <1>1 DEF IInv, TypeOK, ReplyAvailable, vars, targetVars, hostVars
<1>2. CASE Next
  BY <1>2, TargetIInv, OthersIInv DEF Next
<1> QED BY <1>1, <1>2

(* Every variable keeps its type and every id stays within a byte, for a   *)
(* byte of any size and a line that loses and damages any frame.           *)
THEOREM TypeCorrect == Spec => []TypeOK
<1>1. Spec => []IInv
  BY InitIInv, NextIInv, PTL DEF Spec
<1>2. IInv => TypeOK
  BY DEF IInv
<1> QED BY <1>1, <1>2, PTL

(* ProcessFrame never dereferences a NULL iLastReply: whenever a message   *)
(* is taken for a repetition, the reply to repeat has been kept.           *)
THEOREM ReplyIsKept == Spec => []ReplyAvailable
<1>1. Spec => []IInv
  BY InitIInv, NextIInv, PTL DEF Spec
<1>2. IInv => ReplyAvailable
  BY DEF IInv
<1> QED BY <1>1, <1>2, PTL

-------------------------------------------------------------------------------
(* Each command is executed at most once as long as fewer frames are lost  *)
(* or damaged than would carry the expected id once round.                 *)

FewDisturbances == MaxNoise + 2 < MaxSeq

(* How often a has to be incremented to become b.                          *)
Far(a, b) == IF a <= b THEN b - a ELSE b + MaxSeq - a
Lead == Far(hostNext, seqId)

Asks(m) == m.type = "cmd" /\ ~m.damaged
Asked == {i \in DOMAIN toTarget : Asks(toTarget[i])}
Acked == {i \in DOMAIN toHost : toHost[i].type = "ACK"}

(* A damaged frame that is on the line, and how many of those lost or      *)
(* damaged are no longer there.                                            *)
Hit == IF toTarget # <<>> /\ toTarget[1].damaged THEN 1 ELSE 0
Harm == noise - Hit

(* Frames are damaged as they arrive, and events have ids of their own.    *)
Line ==
  /\ noise <= MaxNoise /\ Hit <= noise
  /\ \A i \in DOMAIN toTarget :
       /\ toTarget[i].damaged => i = 1
       /\ toTarget[i].type = "ack" => toTarget[i].sid # 0
  /\ \A i \in DOMAIN toHost : toHost[i].type = "event" => toHost[i].sid # 0

(* The host has one command under way, or the ping that resets the ids.    *)
Turn ==
  /\ hostCmd # 0 /\ tries > 0 => status[hostCmd] = "sent"
  /\ \A c \in Cmds : status[c] = "sent" => c = hostCmd /\ tries > 0
  /\ hostNext = 0 => hostCmd = 0 /\ tries > 0
  /\ hostCmd = 0 /\ tries > 0 => hostNext = 0

(* The target executes what the host has sent, once, and is past it then.  *)
Once ==
  /\ \A c \in Cmds \ Connects :
       /\ executed[c] <= 1
       /\ status[c] = "unsent" => executed[c] = 0
       /\ status[c] = "answered" => executed[c] = 1
  /\ tries > 0 /\ hostCmd \in Cmds \ Connects /\ executed[hostCmd] > 0 => seqId # hostNext

(* An acknowledgement without an error is deserved.                        *)
Earned == tries > 0 /\ (hostCmd \in Connects \/ executed[hostCmd] > 0)

(* While the host resets the numbering there is one ping or its answer.    *)
Pinging ==
  /\ \A i \in Asked : toTarget[i].sid = 0 /\ toTarget[i].cmd = 0
  /\ \A i, j \in Asked : i = j
  /\ Acked # {} =>
       /\ Asked = {} /\ seqId # 0 /\ Far(1, seqId) <= 1 + Harm
       /\ \A i \in Acked :
            \/ toHost[i].sid = 0
            \/ toHost[i].sid = 1 /\ toHost[i].err = "OsError" /\ Far(1, seqId) >= 1
       /\ \A i, j \in Acked : i < j => toHost[j].sid = 1
       /\ lastReply.type = "ACK" =>
            /\ Inc(lastReply.sid) = seqId /\ Far(1, seqId) <= 1
            /\ Far(1, seqId) = 1 => lastReply.err = "OsError"

(* What there is of the present command, and of the two before it, whose   *)
(* numbers the target is past: it is ahead of the host by the two replies  *)
(* of one command and the disturbances at most.                            *)
FramesLevel ==
  /\ \A i \in Asked :
       LET m == toTarget[i]
       IN  /\ m.sid # 0
           /\ \/ m.sid = hostNext /\ tries > 0 /\ m.cmd = hostCmd
              \/ Inc(m.sid) = hostNext /\ Far(m.sid, seqId) \in 1..(2 + Harm)
              \/ Inc(Inc(m.sid)) = hostNext /\ Far(m.sid, seqId) \in 2..(2 + Harm)
  /\ \A i, j \in Asked : i < j /\ toTarget[i].sid = hostNext => toTarget[j].sid = hostNext

(* A reply to the present command, or the second one that settles the next,*)
(* comes behind those to all earlier frames.                               *)
RepliesLevel ==
  /\ \A i \in Acked :
       LET r == toHost[i]
       IN  /\ r.sid = hostNext =>
                /\ Lead >= 1 /\ (r.err = "NoError" => Earned)
                /\ \A j \in Asked : hostNext \in {toTarget[j].sid, Inc(toTarget[j].sid)}
           /\ r.sid = Inc(hostNext) =>
                /\ Lead >= 2 /\ r.err = "OsError"
                /\ \A j \in Asked : toTarget[j].sid = hostNext
  /\ \A i, j \in Acked : i < j =>
       /\ toHost[i].sid = hostNext => toHost[j].sid \in {hostNext, Inc(hostNext)}
       /\ toHost[i].sid = Inc(hostNext) => toHost[j].sid = Inc(hostNext)

KeptLevel ==
  lastReply.type = "ACK" =>
    /\ Inc(lastReply.sid) = seqId /\ Lead <= 2
    /\ Lead = 2 => lastReply.err = "OsError"
    /\ Lead = 1 /\ lastReply.err = "NoError" => Earned

Level ==
  /\ seqId # 0 /\ Lead <= Harm + (IF tries > 0 THEN 2 ELSE 1)
  /\ FramesLevel /\ RepliesLevel /\ KeptLevel

(* A reconnect restarts the numbering, which the host cannot follow: it    *)
(* gives up unless the target comes to expect its number once more.        *)
Adrift ==
  /\ hostNext >= 3 /\ tries > 0 /\ hostCmd \in Connects /\ seqId # 0
  /\ \A i \in Asked : toTarget[i].sid = hostNext /\ toTarget[i].cmd = hostCmd
  /\ \A i \in Acked :
       toHost[i].sid # hostNext /\ (toHost[i].sid = Inc(hostNext) => hostNext = MaxSeq)
  /\ lastReply.type = "ACK" => Inc(lastReply.sid) = seqId /\ lastReply.sid \in {1, 2}
  /\ ~connected => Far(2, seqId) <= Harm

Numbering == IF hostNext = 0 THEN Pinging ELSE Level \/ Adrift

(* The invariant of the exchange.                                          *)
FInv == IInv /\ Line /\ Turn /\ Once /\ Numbering

(* Arithmetic of the ids.                                                  *)
LEMMA Ring ==
  ASSUME FewDisturbances, NEW a \in 1..MaxSeq, NEW b \in 1..MaxSeq
  PROVE  /\ MaxSeq \in Nat /\ MaxSeq >= 3 /\ MaxNoise \in Nat
         /\ Inc(a) \in 1..MaxSeq /\ Inc(a) # a /\ Inc(Inc(a)) # a
         /\ Inc(a) = Inc(b) => a = b
         /\ Far(a, b) \in 0..(MaxSeq - 1) /\ (Far(a, b) = 0 <=> a = b)
         /\ Far(a, Inc(b)) = IF Far(a, b) = MaxSeq - 1 THEN 0 ELSE Far(a, b) + 1
         /\ Far(Inc(a), b) = IF Far(a, b) = 0 THEN MaxSeq - 1 ELSE Far(a, b) - 1
BY SeqAssumption, BoundAssumption DEF FewDisturbances, Far, Inc

LEMMA Sizes ==
  ASSUME FewDisturbances
  PROVE  /\ MaxSeq \in Nat /\ MaxSeq >= 3 /\ MaxNoise \in Nat /\ MaxNoise + 2 < MaxSeq
         /\ Inc(0) = 1 /\ Inc(1) = 2 /\ Inc(2) = 3 /\ 0 \notin Connects
BY SeqAssumption, BoundAssumption, ConnectAssumption DEF FewDisturbances, Inc, Cmds

(* The sequences.                                                          *)
LEMMA TailIs ==
  ASSUME NEW S, NEW s \in Seq(S), s # <<>>
  PROVE  /\ Tail(s) \in Seq(S) /\ Head(s) = s[1] /\ 1 \in DOMAIN s /\ s[1] \in S
         /\ \A i \in DOMAIN Tail(s) : i + 1 \in DOMAIN s /\ Tail(s)[i] = s[i + 1] /\ i >= 1
OBVIOUS

LEMMA AppendIs ==
  ASSUME NEW S, NEW s \in Seq(S), NEW e
  PROVE  \A i \in DOMAIN Append(s, e) :
           \/ i \in DOMAIN s /\ i <= Len(s) /\ Append(s, e)[i] = s[i]
           \/ i = Len(s) + 1 /\ Append(s, e)[i] = e
OBVIOUS

LEMMA Facts ==
  ASSUME FewDisturbances, IInv
  PROVE  /\ seqId \in 0..MaxSeq /\ hostNext \in 0..MaxSeq /\ tries \in Nat /\ noise \in Nat
         /\ hostCmd \in 0..MaxCmds /\ connected \in BOOLEAN
         /\ toTarget \in Seq(Frames) /\ toHost \in Seq(Replies)
         /\ Hit \in {0, 1} /\ Harm \in Int /\ (seqId # 0 => seqId \in 1..MaxSeq)
         /\ (hostNext # 0 => hostNext \in 1..MaxSeq /\ Inc(hostNext) \in 1..MaxSeq)
         /\ \A i \in Asked : i \in DOMAIN toTarget /\ toTarget[i] \in Frames
                             /\ toTarget[i].sid \in 0..MaxSeq
         /\ \A i \in Acked : i \in DOMAIN toHost /\ toHost[i] \in Replies
                             /\ toHost[i].sid \in 0..MaxSeq
         /\ lastReply.sid \in 0..MaxSeq
         /\ status \in [Cmds -> {"unsent", "sent", "answered", "failed"}]
         /\ executed \in [Cmds -> Nat]
<1>1. TypeOK BY DEF IInv
<1>2. /\ seqId \in 0..MaxSeq /\ hostNext \in 0..MaxSeq /\ tries \in Nat /\ noise \in Nat
      /\ hostCmd \in 0..MaxCmds /\ connected \in BOOLEAN
      /\ toTarget \in Seq(Frames) /\ toHost \in Seq(Replies)
      /\ status \in [Cmds -> {"unsent", "sent", "answered", "failed"}]
      /\ executed \in [Cmds -> Nat]
  BY <1>1 DEF TypeOK, Ids
<1>3. Hit \in {0, 1} /\ Harm \in Int BY <1>2 DEF Hit, Harm
<1>4. hostNext # 0 => hostNext \in 1..MaxSeq /\ Inc(hostNext) \in 1..MaxSeq
  <2>1. hostNext # 0 => hostNext \in 1..MaxSeq BY <1>2, Sizes
  <2> QED BY <2>1, Ring
<1>5. \A i \in Asked : i \in DOMAIN toTarget /\ toTarget[i] \in Frames
                       /\ toTarget[i].sid \in 0..MaxSeq
  <2> SUFFICES ASSUME NEW i \in Asked PROVE toTarget[i] \in Frames /\ i \in DOMAIN toTarget
    BY DEF Frames, Ids
  <2> QED BY <1>2 DEF Asked
<1>6. \A i \in Acked : i \in DOMAIN toHost /\ toHost[i] \in Replies
                       /\ toHost[i].sid \in 0..MaxSeq
  <2> SUFFICES ASSUME NEW i \in Acked PROVE toHost[i] \in Replies /\ i \in DOMAIN toHost
    BY DEF Replies, Ids
  <2> QED BY <1>2 DEF Acked
<1>7. lastReply.sid \in 0..MaxSeq
  <2>1. lastReply \in Replies \cup {NoReply} BY <1>1 DEF TypeOK
  <2> QED BY <2>1, Sizes DEF Replies, NoReply, Ids
<1>8. seqId # 0 => seqId \in 1..MaxSeq BY <1>2, Sizes
<1> QED BY <1>2, <1>3, <1>4, <1>5, <1>6, <1>7, <1>8

(* A frame has been taken from the line: no other is damaged.              *)
LEMMA Taken ==
  ASSUME FewDisturbances, IInv, Line, toTarget # <<>>, toTarget' = Tail(toTarget), noise' \in Nat
  PROVE  /\ toTarget[1] \in Frames /\ toTarget[1] = Head(toTarget) /\ 1 \in DOMAIN toTarget
         /\ Hit = IF toTarget[1].damaged THEN 1 ELSE 0
         /\ Hit' = 0 /\ Harm' = noise'
         /\ \A i \in Asked' : i + 1 \in Asked /\ i + 1 > 1 /\ toTarget'[i] = toTarget[i + 1]
         /\ \A i \in DOMAIN toTarget' :
              /\ ~toTarget'[i].damaged
              /\ toTarget'[i].type = "ack" => toTarget'[i].sid # 0
<1>1. toTarget \in Seq(Frames) BY Facts
<1>2. /\ Head(toTarget) = toTarget[1] /\ 1 \in DOMAIN toTarget /\ toTarget[1] \in Frames
      /\ \A i \in DOMAIN toTarget' :
           i + 1 \in DOMAIN toTarget /\ toTarget'[i] = toTarget[i + 1] /\ i >= 1
      /\ \A i \in DOMAIN toTarget' : i \in Nat /\ toTarget'[i] \in Frames
  BY <1>1, TailIs
<1>3. \A i \in DOMAIN toTarget' :
        /\ i + 1 # 1 /\ ~toTarget'[i].damaged
        /\ toTarget'[i].type = "ack" => toTarget'[i].sid # 0
  BY <1>2 DEF Line
<1>4. Hit' = 0
  <2>1. CASE toTarget' = <<>> BY <2>1 DEF Hit
  <2>2. CASE toTarget' # <<>>
    <3>1. 1 \in DOMAIN toTarget' BY <1>1, <2>2
    <3> QED BY <1>3, <3>1 DEF Hit
  <2> QED BY <2>1, <2>2
<1>5. Harm' = noise'
  <2>1. Harm' = noise' - Hit' BY DEF Harm
  <2>2. \A n \in Nat : n - 0 = n OBVIOUS
  <2> QED BY <1>4, <2>1, <2>2
<1>6. \A i \in Asked' : i + 1 \in Asked /\ i + 1 > 1 /\ toTarget'[i] = toTarget[i + 1]
  BY <1>2 DEF Asked
<1>7. Hit = IF toTarget[1].damaged THEN 1 ELSE 0 BY <1>1 DEF Hit
<1> QED BY <1>2, <1>3, <1>4, <1>5, <1>6, <1>7

(* One more reply, or several, or one less.                                *)
LEMMA Heard ==
  ASSUME FewDisturbances, IInv, NEW r, toHost' = Append(toHost, r)
  PROVE  /\ \A i \in Acked' :
              \/ i \in Acked /\ i <= Len(toHost) /\ toHost'[i] = toHost[i]
              \/ i = Len(toHost) + 1 /\ toHost'[i] = r /\ r.type = "ACK"
         /\ \A i \in DOMAIN toHost' :
              (i \in DOMAIN toHost /\ toHost'[i] = toHost[i]) \/ toHost'[i] = r
<1>1. toHost \in Seq(Replies) BY Facts
<1>2. \A i \in DOMAIN toHost' :
        \/ i \in DOMAIN toHost /\ i <= Len(toHost) /\ toHost'[i] = toHost[i]
        \/ i = Len(toHost) + 1 /\ toHost'[i] = r
  BY <1>1, AppendIs
<1> QED BY <1>2 DEF Acked

LEMMA Read ==
  ASSUME FewDisturbances, IInv, toHost # <<>>, toHost' = Tail(toHost)
  PROVE  /\ toHost[1] \in Replies /\ toHost[1] = Head(toHost) /\ 1 \in DOMAIN toHost
         /\ \A i \in Acked' : i + 1 \in Acked /\ i + 1 > 1 /\ toHost'[i] = toHost[i + 1]
         /\ \A i \in DOMAIN toHost' : i + 1 \in DOMAIN toHost /\ toHost'[i] = toHost[i + 1]
<1>1. toHost \in Seq(Replies) BY Facts
<1>2. /\ toHost[1] \in Replies /\ toHost[1] = Head(toHost) /\ 1 \in DOMAIN toHost
      /\ \A i \in DOMAIN toHost' :
           i + 1 \in DOMAIN toHost /\ toHost'[i] = toHost[i + 1] /\ i >= 1 /\ i \in Nat
  BY <1>1, TailIs
<1>3. \A i \in Acked' : i + 1 \in Acked /\ i + 1 > 1 /\ toHost'[i] = toHost[i + 1]
  BY <1>2 DEF Acked
<1> QED BY <1>2, <1>3

LEMMA NextFacts ==
  ASSUME IInv'
  PROVE  /\ noise' \in Nat /\ Hit' \in {0, 1} /\ Harm' \in Int /\ Harm' = noise' - Hit'
         /\ toTarget' \in Seq(Frames) /\ toHost' \in Seq(Replies) /\ tries' \in Nat
         /\ executed' \in [Cmds -> Nat]
<1>1. TypeOK' BY DEF IInv
<1>2. noise' \in Nat /\ toTarget' \in Seq(Frames) /\ toHost' \in Seq(Replies)
      /\ tries' \in Nat /\ executed' \in [Cmds -> Nat]
  BY <1>1 DEF TypeOK
<1>3. Hit' \in {0, 1} BY DEF Hit
<1>4. Harm' = noise' - Hit' BY DEF Harm
<1>5. Harm' \in Int BY <1>2, <1>3, <1>4
<1> QED BY <1>2, <1>3, <1>4, <1>5

(* Less on the line, and the target further ahead only by a frame that was *)
(* hit: the numbering stays as it is.                                      *)
Fewer(k, l) ==
  /\ \A i \in Asked' : i + k \in Asked /\ toTarget'[i] = toTarget[i + k]
  /\ \A i \in Acked' : i + l \in Acked /\ toHost'[i] = toHost[i + l]
  /\ UNCHANGED <<hostNext, hostCmd, tries, executed, connected>>
  /\ Harm' >= Harm
  /\ \/ UNCHANGED <<seqId, lastReply>>
     \/ lastReply'.type # "ACK" /\ seqId' = seqId
     \/ lastReply'.type # "ACK" /\ seqId' = Inc(seqId) /\ Harm' >= Harm + 1

(* How the target can get ahead by a frame that was hit.                   *)
LEMMA Ahead ==
  ASSUME FewDisturbances, IInv, IInv', Line', NEW k, NEW l, Fewer(k, l), seqId # 0,
         NEW a \in 1..MaxSeq, NEW n \in {0, 1, 2}, Far(a, seqId) <= n + Harm
  PROVE  /\ seqId' \in 1..MaxSeq /\ Far(a, seqId') <= n + Harm' /\ Far(a, seqId') >= Far(a, seqId)
         /\ Far(a, seqId) \in Nat /\ Far(a, seqId') \in Nat
<1>1. seqId \in 1..MaxSeq /\ Harm \in Int BY Facts
<1>2. Harm' \in Int /\ Harm' <= MaxNoise
  <2>1. noise' <= MaxNoise BY DEF Line
  <2> QED BY <2>1, NextFacts, Sizes
<1>3. /\ Far(a, seqId) \in 0..(MaxSeq - 1) /\ Inc(seqId) \in 1..MaxSeq
      /\ Far(a, Inc(seqId)) = IF Far(a, seqId) = MaxSeq - 1 THEN 0 ELSE Far(a, seqId) + 1
  BY <1>1, Ring
<1>4. CASE seqId' = seqId BY <1>1, <1>2, <1>3, <1>4, Sizes DEF Fewer
<1>5. CASE seqId' = Inc(seqId) /\ Harm' >= Harm + 1
  <2>1. Far(a, seqId) + 1 <= n + Harm' BY <1>1, <1>2, <1>3, <1>5, Sizes
  <2>2. Far(a, seqId) # MaxSeq - 1 BY <1>2, <1>3, <2>1, Sizes
  <2> QED BY <1>1, <1>2, <1>3, <1>5, <2>1, <2>2, Sizes
<1> QED BY <1>4, <1>5 DEF Fewer

LEMMA FewerPinging ==
  ASSUME FewDisturbances, IInv, IInv', Line', NEW k \in {0, 1}, NEW l \in {0, 1}, Fewer(k, l),
         Pinging
  PROVE  Pinging'
<1>0. \A i \in Asked' \cup Acked' : i \in Nat
  <2>1. toTarget' \in Seq(Frames) /\ toHost' \in Seq(Replies) BY NextFacts
  <2> QED BY <2>1 DEF Asked, Acked
<1>1. \A i \in Asked' : toTarget'[i].sid = 0 /\ toTarget'[i].cmd = 0 BY DEF Fewer, Pinging
<1>2. \A i, j \in Asked' : i = j
  <2> SUFFICES ASSUME NEW i \in Asked', NEW j \in Asked' PROVE i = j
    OBVIOUS
  <2>1. i + k = j + k BY DEF Fewer, Pinging
  <2> QED BY <1>0, <2>1
<1>3. ASSUME Acked' # {}
      PROVE  /\ Asked' = {} /\ seqId' # 0 /\ Far(1, seqId') <= 1 + Harm'
             /\ \A i \in Acked' :
                  \/ toHost'[i].sid = 0
                  \/ toHost'[i].sid = 1 /\ toHost'[i].err = "OsError" /\ Far(1, seqId') >= 1
             /\ \A i, j \in Acked' : i < j => toHost'[j].sid = 1
             /\ lastReply'.type = "ACK" =>
                  /\ Inc(lastReply'.sid) = seqId' /\ Far(1, seqId') <= 1
                  /\ Far(1, seqId') = 1 => lastReply'.err = "OsError"
  <2>1. Acked # {} BY <1>3 DEF Fewer
  <2>2. Asked = {} /\ seqId # 0 /\ Far(1, seqId) <= 1 + Harm BY <2>1 DEF Pinging
  <2>3. 1 \in 1..MaxSeq BY Sizes
  <2>4. /\ seqId' \in 1..MaxSeq /\ Far(1, seqId') <= 1 + Harm' /\ Far(1, seqId') >= Far(1, seqId)
        /\ Far(1, seqId) \in Nat /\ Far(1, seqId') \in Nat
    BY <2>2, <2>3, Ahead
  <2>5. Asked' = {} BY <2>2 DEF Fewer
  <2>6. ASSUME NEW i \in Acked'
        PROVE  \/ toHost'[i].sid = 0
               \/ toHost'[i].sid = 1 /\ toHost'[i].err = "OsError" /\ Far(1, seqId') >= 1
    BY <2>1, <2>4 DEF Fewer, Pinging
  <2>7. ASSUME NEW i \in Acked', NEW j \in Acked', i < j PROVE toHost'[j].sid = 1
    BY <1>0, <2>1, <2>7 DEF Fewer, Pinging
  <2>8. lastReply'.type = "ACK" =>
          /\ Inc(lastReply'.sid) = seqId' /\ Far(1, seqId') <= 1
          /\ Far(1, seqId') = 1 => lastReply'.err = "OsError"
    BY <2>1 DEF Fewer, Pinging
  <2> QED BY <2>4, <2>5, <2>6, <2>7, <2>8
<1> QED BY <1>1, <1>2, <1>3 DEF Pinging

LEMMA FewerLevel ==
  ASSUME FewDisturbances, IInv, IInv', Line', NEW k \in {0, 1}, NEW l \in {0, 1}, Fewer(k, l),
         hostNext # 0, Level
  PROVE  Level'
<1>h. /\ hostNext \in 1..MaxSeq /\ seqId \in 1..MaxSeq /\ hostNext' = hostNext /\ tries' = tries
      /\ hostCmd' = hostCmd /\ executed' = executed
  BY Facts DEF Fewer, Level
<1>i. \A i \in Asked' \cup Acked' : i \in Nat
  <2>1. toTarget' \in Seq(Frames) /\ toHost' \in Seq(Replies) BY NextFacts
  <2> QED BY <2>1 DEF Asked, Acked
<1>n. Harm \in Int /\ Harm' \in Int /\ Harm' >= Harm BY Facts, NextFacts DEF Fewer
<1>1. /\ seqId' \in 1..MaxSeq /\ Lead' >= Lead /\ Lead \in Nat /\ Lead' \in Nat
      /\ Lead' <= Harm' + (IF tries' > 0 THEN 2 ELSE 1)
  <2> DEFINE n == IF tries > 0 THEN 2 ELSE 1
  <2>1. n \in {0, 1, 2} /\ Far(hostNext, seqId) <= n + Harm BY <1>n DEF Level, Lead
  <2> HIDE DEF n
  <2>2. /\ seqId' \in 1..MaxSeq /\ Far(hostNext, seqId') <= n + Harm'
        /\ Far(hostNext, seqId') >= Far(hostNext, seqId)
        /\ Far(hostNext, seqId) \in Nat /\ Far(hostNext, seqId') \in Nat
    BY <1>h, <2>1, Ahead
  <2>3. Lead' = Far(hostNext, seqId') BY <1>h DEF Lead, Far
  <2>4. Far(hostNext, seqId') <= Harm' + n BY <1>n, <2>1, <2>2
  <2> QED BY <1>h, <2>2, <2>3, <2>4 DEF Lead, n
<1>2. FramesLevel'
  <2>1. ASSUME NEW i \in Asked', NEW low \in {1, 2},
               Far(toTarget[i + k].sid, seqId) \in low..(2 + Harm)
        PROVE  Far(toTarget[i + k].sid, seqId') \in low..(2 + Harm')
    <3> DEFINE x == toTarget[i + k].sid
    <3>1. x \in 1..MaxSeq
      <4>1. x # 0 /\ x \in 0..MaxSeq BY Facts DEF Fewer, Level, FramesLevel
      <4> QED BY <4>1, Sizes
    <3> HIDE DEF x
    <3>2. /\ Far(x, seqId') <= 2 + Harm' /\ Far(x, seqId') >= Far(x, seqId)
          /\ Far(x, seqId) \in Nat /\ Far(x, seqId') \in Nat
      BY <1>h, <1>n, <2>1, <3>1, Ahead DEF x
    <3> QED BY <1>n, <2>1, <3>2 DEF x
  <2>2. ASSUME NEW i \in Asked'
        PROVE  LET m == toTarget'[i]
               IN  /\ m.sid # 0
                   /\ \/ m.sid = hostNext' /\ tries' > 0 /\ m.cmd = hostCmd'
                      \/ Inc(m.sid) = hostNext' /\ Far(m.sid, seqId') \in 1..(2 + Harm')
                      \/ Inc(Inc(m.sid)) = hostNext' /\ Far(m.sid, seqId') \in 2..(2 + Harm')
    <3>1. i + k \in Asked /\ toTarget'[i] = toTarget[i + k] BY DEF Fewer
    <3> QED BY <1>h, <2>1, <3>1 DEF Level, FramesLevel
  <2>3. ASSUME NEW i \in Asked', NEW j \in Asked', i < j, toTarget'[i].sid = hostNext'
        PROVE  toTarget'[j].sid = hostNext'
    <3>1. i + k < j + k BY <1>i, <2>3
    <3> QED BY <1>h, <2>3, <3>1 DEF Fewer, Level, FramesLevel
  <2>4. FramesLevel' <=>
          /\ \A i \in Asked' :
               LET m == toTarget'[i]
               IN  /\ m.sid # 0
                   /\ \/ m.sid = hostNext' /\ tries' > 0 /\ m.cmd = hostCmd'
                      \/ Inc(m.sid) = hostNext' /\ Far(m.sid, seqId') \in 1..(2 + Harm')
                      \/ Inc(Inc(m.sid)) = hostNext' /\ Far(m.sid, seqId') \in 2..(2 + Harm')
          /\ \A i, j \in Asked' :
               i < j /\ toTarget'[i].sid = hostNext' => toTarget'[j].sid = hostNext'
    BY DEF FramesLevel, Inc, Far
  <2> QED BY <2>2, <2>3, <2>4
<1>e. Earned' <=> Earned BY DEF Fewer, Earned
<1>g. Inc(hostNext') = Inc(hostNext) BY <1>h
<1>3. RepliesLevel'
  <2>1. ASSUME NEW i \in Acked'
        PROVE  LET r == toHost'[i]
               IN  /\ r.sid = hostNext' =>
                        /\ Lead' >= 1 /\ (r.err = "NoError" => Earned')
                        /\ \A j \in Asked' : hostNext' \in {toTarget'[j].sid, Inc(toTarget'[j].sid)}
                   /\ r.sid = Inc(hostNext') =>
                        /\ Lead' >= 2 /\ r.err = "OsError"
                        /\ \A j \in Asked' : toTarget'[j].sid = hostNext'
    <3>1. i + l \in Acked /\ toHost'[i] = toHost[i + l] BY DEF Fewer
    <3>2. \A j \in Asked' : j + k \in Asked /\ toTarget'[j] = toTarget[j + k] BY DEF Fewer
    <3> DEFINE r == toHost[i + l]
    <3>3. /\ r.sid = hostNext =>
               /\ Lead >= 1 /\ (r.err = "NoError" => Earned)
               /\ \A j \in Asked : hostNext \in {toTarget[j].sid, Inc(toTarget[j].sid)}
          /\ r.sid = Inc(hostNext) =>
               /\ Lead >= 2 /\ r.err = "OsError"
               /\ \A j \in Asked : toTarget[j].sid = hostNext
      BY <3>1 DEF Level, RepliesLevel
    <3>4. (Lead >= 1 => Lead' >= 1) /\ (Lead >= 2 => Lead' >= 2) BY <1>1
    <3> QED BY <1>h, <1>e, <1>g, <3>1, <3>2, <3>3, <3>4
  <2>2. ASSUME NEW i \in Acked', NEW j \in Acked', i < j
        PROVE  /\ toHost'[i].sid = hostNext' => toHost'[j].sid \in {hostNext', Inc(hostNext')}
               /\ toHost'[i].sid = Inc(hostNext') => toHost'[j].sid = Inc(hostNext')
    <3>1. i + l < j + l BY <1>i, <2>2
    <3> QED BY <1>h, <1>g, <2>2, <3>1 DEF Fewer, Level, RepliesLevel
  <2> QED BY <2>1, <2>2 DEF RepliesLevel, Inc
<1>4. KeptLevel'
  <2>1. CASE lastReply' = lastReply /\ seqId' = seqId
    <3>1. Lead' = Lead BY <1>h, <2>1 DEF Lead, Far
    <3>2. Inc(lastReply'.sid) = Inc(lastReply.sid) BY <2>1
    <3> QED BY <1>e, <2>1, <3>1, <3>2 DEF Level, KeptLevel, Inc
  <2>2. CASE lastReply'.type # "ACK" BY <2>2 DEF KeptLevel
  <2> QED BY <2>1, <2>2 DEF Fewer
<1>5. seqId' # 0 BY <1>1, Sizes
<1> QED BY <1>1, <1>2, <1>3, <1>4, <1>5 DEF Level

(* The first of the ids that a reconnect leaves behind.                    *)
LEMMA FewerAdrift ==
  ASSUME FewDisturbances, IInv, IInv', Line', NEW k \in {0, 1}, NEW l \in {0, 1}, Fewer(k, l),
         Adrift
  PROVE  Adrift'
<1>1. /\ hostNext' = hostNext /\ tries' = tries /\ hostCmd' = hostCmd /\ connected' = connected
      /\ seqId \in 1..MaxSeq
  BY Facts DEF Fewer, Adrift
<1>2. seqId' # 0
  <2>1. seqId' \in {seqId, Inc(seqId)} BY DEF Fewer
  <2>2. Inc(seqId) \in 1..MaxSeq BY <1>1, Ring
  <2> QED BY <1>1, <2>1, <2>2, Sizes
<1>3. ASSUME ~connected' PROVE Far(2, seqId') <= Harm'
  <2>0. 2 \in 1..MaxSeq BY Sizes
  <2>1. 2 \in 1..MaxSeq /\ Harm \in Int /\ Harm' \in Int BY <2>0, Facts, NextFacts, Zenon
  <2>2. Far(2, seqId) <= 0 + Harm BY <1>1, <1>3, <2>1 DEF Adrift
  <2>3. Far(2, seqId') <= 0 + Harm' BY <1>1, <2>1, <2>2, Ahead, Sizes
  <2> QED BY <2>1, <2>3
<1>4. /\ \A i \in Asked' : toTarget'[i].sid = hostNext' /\ toTarget'[i].cmd = hostCmd'
      /\ \A i \in Acked' :
           toHost'[i].sid # hostNext' /\ (toHost'[i].sid = Inc(hostNext) => hostNext' = MaxSeq)
  BY <1>1 DEF Fewer, Adrift
<1>5. lastReply'.type = "ACK" => Inc(lastReply'.sid) = seqId' /\ lastReply'.sid \in {1, 2}
  <2>1. lastReply'.type = "ACK" => lastReply' = lastReply /\ seqId' = seqId BY DEF Fewer
  <2> QED BY <2>1 DEF Adrift
<1>6. Inc(hostNext') = Inc(hostNext) BY <1>1
<1> QED BY <1>1, <1>2, <1>3, <1>4, <1>5, <1>6 DEF Adrift, Inc, Far

LEMMA FewerNumbering ==
  ASSUME FewDisturbances, IInv, IInv', Line', NEW k \in {0, 1}, NEW l \in {0, 1}, Fewer(k, l),
         Numbering
  PROVE  Numbering'
<1>1. hostNext' = hostNext BY DEF Fewer
<1> QED BY <1>1, FewerPinging, FewerLevel, FewerAdrift DEF Numbering

LEMMA FewerFInv ==
  ASSUME FewDisturbances, FInv, IInv', Line', NEW k \in {0, 1}, NEW l \in {0, 1}, Fewer(k, l),
         status' = status
  PROVE  FInv'
<1>1. IInv /\ Line /\ Turn /\ Once /\ Numbering BY DEF FInv
<1>2. Numbering' BY <1>1, FewerNumbering
<1>3. /\ hostNext' = hostNext /\ hostCmd' = hostCmd /\ tries' = tries /\ executed' = executed
      /\ status' = status
  BY DEF Fewer
<1>4. Turn' BY <1>1, <1>3 DEF Turn
<1>5. ASSUME tries > 0, hostCmd \in Cmds \ Connects, executed[hostCmd] > 0
      PROVE  seqId' # hostNext
  <2>1. seqId # hostNext BY <1>1, <1>5 DEF Once
  <2>2. hostCmd # 0 BY <1>5, BoundAssumption DEF Cmds
  <2>3. hostNext # 0 BY <1>1, <2>2 DEF Turn
  <2>4. Level BY <1>1, <1>5, <2>3 DEF Numbering, Adrift
  <2>5. hostNext \in 1..MaxSeq /\ seqId \in 1..MaxSeq /\ Harm \in Int
    BY <1>1, <2>3, <2>4, Facts DEF Level
  <2>6. Far(hostNext, seqId) \in 0..(MaxSeq - 1) /\ Far(hostNext, seqId) # 0
    BY <2>1, <2>5, Ring
  <2>7. Far(hostNext, seqId) <= 2 + Harm BY <1>5, <2>4, <2>5, <2>6 DEF Level, Lead
  <2>8. /\ seqId' \in 1..MaxSeq /\ Far(hostNext, seqId') >= Far(hostNext, seqId)
        /\ Far(hostNext, seqId') \in Nat
    BY <1>1, <2>3, <2>4, <2>5, <2>7, Ahead DEF Level
  <2>9. Far(hostNext, seqId') # 0 BY <2>6, <2>8
  <2> QED BY <2>5, <2>8, <2>9, Ring
<1>6. Once' BY <1>1, <1>3, <1>5 DEF Once
<1> QED BY <1>1, <1>2, <1>4, <1>6 DEF FInv

LEMMA LineTaken ==
  ASSUME FewDisturbances, IInv, IInv', Line, toTarget # <<>>, toTarget' = Tail(toTarget),
         noise' \in Nat, noise <= noise', noise' <= MaxNoise,
         \A i \in DOMAIN toHost' : toHost'[i].type = "event" => toHost'[i].sid # 0
  PROVE  Line'
<1>1. Hit' = 0 /\ \A i \in DOMAIN toTarget' :
              /\ ~toTarget'[i].damaged
              /\ toTarget'[i].type = "ack" => toTarget'[i].sid # 0
  BY Taken
<1>2. Hit' <= noise' BY <1>1
<1> QED BY <1>1, <1>2 DEF Line

(* A frame has been sent to the target, or the line to it left alone.      *)
LEMMA Sent ==
  ASSUME FewDisturbances, IInv, IInv', Line, NEW m, ~m.damaged, m.type = "ack" => m.sid # 0,
         toTarget' = Append(toTarget, m), noise' = noise,
         \A i \in DOMAIN toHost' : toHost'[i].type = "event" => toHost'[i].sid # 0
  PROVE  /\ Line' /\ Harm' = Harm
         /\ \A i \in Asked' :
              \/ i \in Asked /\ i <= Len(toTarget) /\ toTarget'[i] = toTarget[i]
              \/ i = Len(toTarget) + 1 /\ toTarget'[i] = m /\ m.type = "cmd"
<1>1. toTarget \in Seq(Frames) BY Facts
<1>2. \A i \in DOMAIN toTarget' :
        \/ i \in DOMAIN toTarget /\ i <= Len(toTarget) /\ toTarget'[i] = toTarget[i]
        \/ i = Len(toTarget) + 1 /\ toTarget'[i] = m
  BY <1>1, AppendIs
<1>3. \A i \in Asked' :
        \/ i \in Asked /\ i <= Len(toTarget) /\ toTarget'[i] = toTarget[i]
        \/ i = Len(toTarget) + 1 /\ toTarget'[i] = m /\ m.type = "cmd"
  BY <1>2 DEF Asked, Asks
<1>4. Hit' = Hit
  <2>1. CASE toTarget = <<>>
    <3>1. toTarget' # <<>> /\ toTarget'[1] = m BY <1>1, <2>1
    <3> QED BY <2>1, <3>1 DEF Hit
  <2>2. CASE toTarget # <<>>
    <3>1. toTarget' # <<>> /\ toTarget'[1] = toTarget[1] BY <1>1, <2>2
    <3> QED BY <2>2, <3>1 DEF Hit
  <2> QED BY <2>1, <2>2
<1>5. Harm' = Harm
  <2>1. Harm' = noise' - Hit' BY DEF Harm
  <2> QED BY <1>4, <2>1 DEF Harm
<1>6. noise' <= MaxNoise /\ Hit' <= noise' BY <1>4 DEF Line
<1>7. \A i \in DOMAIN toTarget' :
        /\ toTarget'[i].damaged => i = 1
        /\ toTarget'[i].type = "ack" => toTarget'[i].sid # 0
  BY <1>2 DEF Line
<1> QED BY <1>3, <1>5, <1>6, <1>7 DEF Line

(* The frames the target refuses or ignores.                               *)
LEMMA RefusedFInv ==
  ASSUME FewDisturbances, FInv, IInv', ReceiveDamaged \/ ReceiveUnexpected \/ ReceiveAck
  PROVE  FInv'
<1>1. IInv /\ Line BY DEF FInv
<1>2. /\ toTarget # <<>> /\ toTarget' = Tail(toTarget) /\ noise' = noise /\ noise \in Nat
      /\ noise <= MaxNoise /\ UNCHANGED hostVars
  BY <1>1, Facts DEF ReceiveDamaged, ReceiveUnexpected, ReceiveAck, Take, Line
<1>3. /\ \A i \in Asked' : i + 1 \in Asked /\ toTarget'[i] = toTarget[i + 1]
      /\ Harm' = noise /\ Hit = IF Head(toTarget).damaged THEN 1 ELSE 0
  BY <1>1, <1>2, Taken
<1>4. Harm' >= Harm /\ (Head(toTarget).damaged => Harm' >= Harm + 1)
  BY <1>2, <1>3 DEF Harm
<1>5. UNCHANGED <<hostNext, hostCmd, tries, executed, connected, status>>
  BY <1>2 DEF ReceiveDamaged, ReceiveUnexpected, ReceiveAck, hostVars, targetVars
<1>6. ASSUME NEW err, RespondErr("NAK", err)
      PROVE  /\ \A i \in Acked' : i + 0 \in Acked /\ toHost'[i] = toHost[i + 0]
             /\ \A i \in DOMAIN toHost' : toHost'[i].type = "event" => toHost'[i].sid # 0
             /\ lastReply'.type = "NAK"
  <2> DEFINE r == Reply("NAK", seqId, err)
  <2>1. toHost' = Append(toHost, r) /\ lastReply' = r BY <1>6 DEF RespondErr
  <2>2. r.type = "NAK" BY DEF Reply
  <2> HIDE DEF r
  <2>3. /\ \A i \in Acked' : i \in Acked /\ toHost'[i] = toHost[i]
        /\ \A i \in DOMAIN toHost' :
             (i \in DOMAIN toHost /\ toHost'[i] = toHost[i]) \/ toHost'[i] = r
    BY <1>1, <2>1, <2>2, Heard
  <2>4. \A i \in Acked' : i + 0 = i
    <3>1. toHost' \in Seq(Replies) BY NextFacts
    <3> QED BY <3>1 DEF Acked
  <2> QED BY <1>1, <2>1, <2>2, <2>3, <2>4 DEF Line
<1>7. CASE ReceiveDamaged
  <2>1. RespondErr("NAK", "Damaged") /\ Head(toTarget).damaged BY <1>7 DEF ReceiveDamaged
  <2>2. seqId' = Inc(seqId) BY <2>1 DEF RespondErr
  <2>3. Fewer(1, 0) BY <1>3, <1>4, <1>5, <1>6, <2>1, <2>2 DEF Fewer
  <2>4. Line' BY <1>1, <1>2, <1>6, <2>1, LineTaken
  <2> QED BY <1>5, <2>3, <2>4, FewerFInv
<1>8. CASE ReceiveUnexpected
  <2>1. RespondErr("NAK", "SequenceMissing") BY <1>8 DEF ReceiveUnexpected
  <2>2. seqId' = seqId BY <2>1 DEF RespondErr
  <2>3. Fewer(1, 0) BY <1>3, <1>4, <1>5, <1>6, <2>1, <2>2 DEF Fewer
  <2>4. Line' BY <1>1, <1>2, <1>6, <2>1, LineTaken
  <2> QED BY <1>5, <2>3, <2>4, FewerFInv
<1>9. CASE ReceiveAck
  <2>1. toHost' = toHost /\ UNCHANGED <<seqId, lastReply>> BY <1>9 DEF ReceiveAck, targetVars
  <2>2. \A i \in Acked' : i + 0 \in Acked /\ toHost'[i] = toHost[i + 0]
    <3>1. toHost \in Seq(Replies) BY <1>1, Facts
    <3> QED BY <2>1, <3>1 DEF Acked
  <2>3. Fewer(1, 0) BY <1>3, <1>4, <1>5, <2>1, <2>2 DEF Fewer
  <2>4. Line' BY <1>1, <1>2, <2>1, LineTaken DEF Line
  <2> QED BY <1>5, <2>3, <2>4, FewerFInv
<1> QED BY <1>7, <1>8, <1>9

LEMMA Shift ==
  ASSUME FewDisturbances, IInv, IInv'
  PROVE  /\ toTarget' = toTarget =>
              Hit' = Hit /\ \A i \in Asked' : i + 0 \in Asked /\ toTarget'[i] = toTarget[i + 0]
         /\ toHost' = toHost => \A i \in Acked' : i + 0 \in Acked /\ toHost'[i] = toHost[i + 0]
<1>1. toTarget \in Seq(Frames) /\ toHost \in Seq(Replies) BY Facts
<1>2. \A i \in DOMAIN toTarget : i + 0 = i BY <1>1
<1>3. \A i \in DOMAIN toHost : i + 0 = i BY <1>1
<1> QED BY <1>2, <1>3 DEF Asked, Acked, Hit

LEMMA InformEventFInv ==
  ASSUME FewDisturbances, FInv, IInv', InformEvent
  PROVE  FInv'
<1>1. IInv /\ Line BY DEF FInv
<1> DEFINE r == Reply("event", outSeqId, "NoError")
<1>2. r.type = "event" /\ r.sid # 0
  <2>1. outSeqId \in Ids \ {0} BY <1>1 DEF IInv, TypeOK
  <2> QED BY <2>1 DEF Reply
<1>3. toHost' = Append(toHost, r) BY DEF InformEvent
<1> HIDE DEF r
<1>4. /\ \A i \in Acked' : i \in Acked /\ toHost'[i] = toHost[i]
      /\ \A i \in DOMAIN toHost' : (i \in DOMAIN toHost /\ toHost'[i] = toHost[i]) \/ toHost'[i] = r
  BY <1>1, <1>2, <1>3, Heard
<1>5. \A i \in Acked' : i + 0 \in Acked /\ toHost'[i] = toHost[i + 0]
  <2>1. \A i \in Acked' : i + 0 = i
    <3>1. toHost' \in Seq(Replies) BY NextFacts
    <3> QED BY <3>1 DEF Acked
  <2> QED BY <1>4, <2>1
<1>6. /\ toTarget' = toTarget /\ noise' = noise /\ UNCHANGED <<seqId, lastReply>>
      /\ UNCHANGED <<hostNext, hostCmd, tries, executed, connected, status>>
  BY DEF InformEvent, hostVars
<1>7. Hit' = Hit /\ \A i \in Asked' : i + 0 \in Asked /\ toTarget'[i] = toTarget[i + 0]
  BY <1>1, <1>6, Shift
<1>8. Harm' = Harm /\ Harm \in Int
  <2>1. Harm' = noise' - Hit' BY DEF Harm
  <2> QED BY <1>1, <1>6, <1>7, <2>1, Facts DEF Harm
<1>9. Fewer(0, 0) BY <1>5, <1>6, <1>7, <1>8 DEF Fewer
<1>10. Line' BY <1>1, <1>2, <1>4, <1>6, <1>7 DEF Line
<1> QED BY <1>6, <1>9, <1>10, FewerFInv

LEMMA LoseFInv ==
  ASSUME FewDisturbances, FInv, IInv', Lose
  PROVE  FInv'
<1>1. IInv /\ Line BY DEF FInv
<1>2. /\ noise < MaxNoise /\ noise' = noise + 1 /\ UNCHANGED <<seqId, lastReply>>
      /\ UNCHANGED <<hostNext, hostCmd, tries, executed, connected, status>>
  BY DEF Lose, targetVars, hostVars
<1>3. noise \in Nat /\ noise' \in Nat /\ noise <= noise' /\ noise' <= MaxNoise
      /\ Hit \in {0, 1} /\ Hit <= noise
  <2>1. noise \in Nat /\ Hit \in {0, 1} BY <1>1, Facts
  <2>2. Hit <= noise BY <1>1 DEF Line
  <2> QED BY <1>2, <2>1, <2>2, Sizes
<1>4. CASE toTarget # <<>> /\ toTarget' = Tail(toTarget) /\ toHost' = toHost
  <2>1. /\ \A i \in Asked' : i + 1 \in Asked /\ toTarget'[i] = toTarget[i + 1]
        /\ Harm' = noise'
    BY <1>1, <1>3, <1>4, Taken
  <2>2. Harm' >= Harm BY <1>2, <1>3, <2>1 DEF Harm
  <2>3. Fewer(1, 0)
    <3>1. \A i \in Acked' : i + 0 \in Acked /\ toHost'[i] = toHost[i + 0]
      BY <1>1, <1>4, Shift
    <3> QED BY <1>2, <2>1, <2>2, <3>1 DEF Fewer
  <2>4. Line' BY <1>1, <1>3, <1>4, LineTaken DEF Line
  <2> QED BY <1>2, <2>3, <2>4, FewerFInv
<1>5. CASE toHost # <<>> /\ toHost' = Tail(toHost) /\ toTarget' = toTarget
  <2>1. /\ \A i \in Acked' : i + 1 \in Acked /\ toHost'[i] = toHost[i + 1]
        /\ \A i \in DOMAIN toHost' : i + 1 \in DOMAIN toHost /\ toHost'[i] = toHost[i + 1]
    BY <1>1, <1>5, Read
  <2>2. Hit' = Hit /\ \A i \in Asked' : i + 0 \in Asked /\ toTarget'[i] = toTarget[i + 0]
    BY <1>1, <1>5, Shift
  <2>3. Harm' >= Harm
    <3>1. Harm' = noise' - Hit' BY DEF Harm
    <3> QED BY <1>2, <1>3, <2>2, <3>1 DEF Harm
  <2>4. Fewer(0, 1) BY <1>2, <2>1, <2>2, <2>3 DEF Fewer
  <2>5. Line'
    <3>1. \A i \in DOMAIN toHost' : toHost'[i].type = "event" => toHost'[i].sid # 0
      BY <1>1, <2>1 DEF Line
    <3>2. Hit' <= noise' BY <1>2, <1>3, <2>2
    <3> QED BY <1>1, <1>3, <1>5, <3>1, <3>2 DEF Line
  <2> QED BY <1>2, <2>4, <2>5, FewerFInv
<1> QED BY <1>4, <1>5 DEF Lose

LEMMA DamageFInv ==
  ASSUME FewDisturbances, FInv, IInv', Damage
  PROVE  FInv'
<1>1. IInv /\ Line BY DEF FInv
<1>2. /\ noise < MaxNoise /\ noise' = noise + 1 /\ UNCHANGED <<seqId, lastReply, toHost>>
      /\ UNCHANGED <<hostNext, hostCmd, tries, executed, connected, status>>
      /\ toTarget # <<>> /\ ~Head(toTarget).damaged
      /\ toTarget' = [toTarget EXCEPT ![1].damaged = TRUE]
  BY DEF Damage, targetVars, hostVars
<1>3. toTarget \in Seq(Frames) /\ noise \in Nat BY <1>1, Facts
<1>4. /\ 1 \in DOMAIN toTarget /\ Head(toTarget) = toTarget[1] /\ toTarget[1] \in Frames
      /\ DOMAIN toTarget' = DOMAIN toTarget /\ toTarget' # <<>>
      /\ toTarget'[1] = [toTarget[1] EXCEPT !.damaged = TRUE]
      /\ \A i \in DOMAIN toTarget : i # 1 => toTarget'[i] = toTarget[i]
  <2>1. 1 \in DOMAIN toTarget /\ Head(toTarget) = toTarget[1] /\ toTarget[1] \in Frames
    BY <1>2, <1>3, TailIs
  <2>2. toTarget' = [toTarget EXCEPT ![1] = [toTarget[1] EXCEPT !.damaged = TRUE]]
    BY <1>2
  <2>3. DOMAIN toTarget' = DOMAIN toTarget BY <2>2
  <2>4. toTarget' # <<>> BY <2>1, <2>3
  <2> QED BY <2>1, <2>2, <2>3, <2>4
<1>5. toTarget'[1].damaged /\ toTarget'[1].type = toTarget[1].type
      /\ toTarget'[1].sid = toTarget[1].sid
  BY <1>4 DEF Frames
<1>6. Hit = 0 /\ Hit' = 1 BY <1>2, <1>4, <1>5 DEF Hit
<1>7. Harm' = Harm /\ Harm \in Int
  <2>1. Harm' = noise' - Hit' BY DEF Harm
  <2> QED BY <1>2, <1>3, <1>6, <2>1 DEF Harm
<1>8. \A i \in Asked' : i + 0 \in Asked /\ toTarget'[i] = toTarget[i + 0]
  <2>1. \A i \in Asked' : i \in DOMAIN toTarget /\ i # 1 BY <1>4, <1>5 DEF Asked, Asks
  <2>2. \A i \in DOMAIN toTarget : i + 0 = i BY <1>3
  <2> QED BY <1>4, <2>1, <2>2 DEF Asked
<1>9. Fewer(0, 0)
  <2>1. \A i \in Acked' : i + 0 \in Acked /\ toHost'[i] = toHost[i + 0] BY <1>1, <1>2, Shift
  <2> QED BY <1>2, <1>7, <1>8, <2>1 DEF Fewer
<1>10. Line'
  <2>1. noise' <= MaxNoise /\ Hit' <= noise' BY <1>2, <1>3, <1>6, Sizes
  <2>2. \A i \in DOMAIN toTarget' :
          /\ toTarget'[i].damaged => i = 1
          /\ toTarget'[i].type = "ack" => toTarget'[i].sid # 0
    <3>1. \A i \in DOMAIN toTarget :
            /\ toTarget[i].damaged => i = 1
            /\ toTarget[i].type = "ack" => toTarget[i].sid # 0
      BY <1>1 DEF Line
    <3>2. \A i \in DOMAIN toTarget :
            i # 1 => ~toTarget'[i].damaged /\ (toTarget'[i].type = "ack" => toTarget'[i].sid # 0)
      BY <1>4, <3>1
    <3>3. toTarget'[1].type = "ack" => toTarget'[1].sid # 0 BY <1>4, <1>5, <3>1
    <3> QED BY <1>4, <3>2, <3>3
  <2> QED BY <1>1, <1>2, <2>1, <2>2 DEF Line
<1> QED BY <1>2, <1>9, <1>10, FewerFInv

(* The host takes a reply, and answers it if it is an event.               *)
LEMMA Hears ==
  ASSUME FewDisturbances, IInv, IInv', Line, HostReceive
  PROVE  /\ Line' /\ Harm' = Harm
         /\ \A i \in Asked' : i + 0 \in Asked /\ toTarget'[i] = toTarget[i + 0]
         /\ \A i \in Acked' : i + 1 \in Acked /\ i + 1 > 1 /\ toHost'[i] = toHost[i + 1]
         /\ toHost[1] = Head(toHost) /\ 1 \in DOMAIN toHost /\ toHost[1] \in Replies
<1> DEFINE r == Head(toHost)
<1>1. /\ toHost # <<>> /\ toHost' = Tail(toHost) /\ noise' = noise
      /\ \/ r.type = "event" /\ Send(Frame("ack", r.sid, 0))
         \/ toTarget' = toTarget
  BY DEF HostReceive
<1>2. /\ r = toHost[1] /\ 1 \in DOMAIN toHost /\ toHost[1] \in Replies
      /\ \A i \in Acked' : i + 1 \in Acked /\ i + 1 > 1 /\ toHost'[i] = toHost[i + 1]
      /\ \A i \in DOMAIN toHost' : i + 1 \in DOMAIN toHost /\ toHost'[i] = toHost[i + 1]
  BY <1>1, Read
<1>3. \A i \in DOMAIN toHost' : toHost'[i].type = "event" => toHost'[i].sid # 0
  BY <1>2 DEF Line
<1> HIDE DEF r
<1>4. CASE toTarget' = toTarget
  <2>1. Hit' = Hit /\ \A i \in Asked' : i + 0 \in Asked /\ toTarget'[i] = toTarget[i + 0]
    BY <1>4, Shift
  <2>2. Harm' = Harm
    <3>1. Harm' = noise' - Hit' BY DEF Harm
    <3> QED BY <1>1, <2>1, <3>1 DEF Harm
  <2>3. Line' BY <1>1, <1>3, <1>4, <2>1 DEF Line
  <2> QED BY <1>2, <2>1, <2>2, <2>3 DEF r
<1>5. CASE r.type = "event" /\ Send(Frame("ack", r.sid, 0))
  <2> DEFINE m == Frame("ack", r.sid, 0)
  <2>1. ~m.damaged /\ m.type = "ack" /\ m.sid # 0 BY <1>2, <1>5 DEF Line, Frame
  <2>2. toTarget' = Append(toTarget, m) BY <1>5 DEF Send
  <2> HIDE DEF m
  <2>3. /\ Line' /\ Harm' = Harm /\ \A i \in Asked' : i \in Asked /\ toTarget'[i] = toTarget[i]
    BY <1>1, <1>3, <2>1, <2>2, Sent
  <2>4. \A i \in Asked' : i + 0 = i
    <3>1. toTarget' \in Seq(Frames) BY NextFacts
    <3> QED BY <3>1 DEF Asked
  <2> QED BY <1>2, <2>3, <2>4 DEF r
<1> QED BY <1>1, <1>4, <1>5

(* The ping has been answered: the numbering starts.                       *)
LEMMA PingSettles ==
  ASSUME FewDisturbances, FInv, IInv', HostReceive, Settles(Head(toHost)), hostNext = 0
  PROVE  Level'
<1>1. IInv /\ Line /\ Turn /\ Pinging BY DEF FInv, Numbering
<1>2. /\ Line' /\ Harm' = Harm /\ Harm \in Int
      /\ \A i \in Asked' : i + 0 \in Asked
      /\ \A i \in Acked' : i + 1 \in Acked /\ i + 1 > 1 /\ toHost'[i] = toHost[i + 1]
      /\ toHost[1] = Head(toHost) /\ 1 \in DOMAIN toHost
  BY <1>1, Hears, Facts
<1>3. /\ toHost[1].type = "ACK" /\ tries' = 0 /\ hostNext' = 1 /\ UNCHANGED <<seqId, lastReply>>
  BY <1>2, Sizes DEF HostReceive, Settles, targetVars
<1>4. 1 \in Acked BY <1>2, <1>3 DEF Acked
<1>5. Asked = {} /\ seqId # 0 /\ Far(1, seqId) <= 1 + Harm BY <1>1, <1>4 DEF Pinging
<1>6. Asked' = {} BY <1>2, <1>5
<1>7. Lead' = Far(1, seqId) BY <1>3 DEF Lead, Far
<1>8. ASSUME NEW i \in Acked'
      PROVE  toHost'[i].sid = 1 /\ toHost'[i].err = "OsError" /\ Lead' >= 1
  BY <1>1, <1>2, <1>4, <1>7 DEF Pinging
<1>9. Inc(hostNext') = 2 BY <1>3, Sizes
<1>10. KeptLevel'
  <2>1. lastReply.type = "ACK" =>
          /\ Inc(lastReply.sid) = seqId /\ Far(1, seqId) <= 1
          /\ Far(1, seqId) = 1 => lastReply.err = "OsError"
    BY <1>1, <1>4 DEF Pinging
  <2>2. Inc(lastReply'.sid) = Inc(lastReply.sid) BY <1>3
  <2>3. Lead' \in Nat
    <3>1. seqId \in 1..MaxSeq /\ 1 \in 1..MaxSeq BY <1>1, <1>5, Facts, Sizes
    <3> QED BY <1>7, <3>1, Ring
  <2> QED BY <1>3, <1>7, <2>1, <2>2, <2>3 DEF KeptLevel, Inc
<1>11. RepliesLevel' BY <1>3, <1>6, <1>8, <1>9 DEF RepliesLevel, Inc
<1>12. FramesLevel' BY <1>6 DEF FramesLevel
<1> QED BY <1>2, <1>3, <1>5, <1>7, <1>10, <1>11, <1>12 DEF Level

(* The present command has been answered.                                  *)
LEMMA CommandSettles ==
  ASSUME FewDisturbances, FInv, IInv', HostReceive, Settles(Head(toHost)), hostNext # 0
  PROVE  Level' /\ Level /\ (Head(toHost).err = "NoError" => Earned)
<1>1. IInv /\ Line /\ (Level \/ Adrift) BY DEF FInv, Numbering
<1>2. /\ Line' /\ Harm' = Harm /\ Harm \in Int
      /\ \A i \in Asked' : i + 0 \in Asked /\ toTarget'[i] = toTarget[i + 0]
      /\ \A i \in Acked' : i + 1 \in Acked /\ i + 1 > 1 /\ toHost'[i] = toHost[i + 1]
      /\ toHost[1] = Head(toHost) /\ 1 \in DOMAIN toHost
  BY <1>1, Hears, Facts
<1>3. /\ toHost[1].type = "ACK" /\ toHost[1].sid = hostNext /\ tries > 0
      /\ tries' = 0 /\ hostNext' = Inc(hostNext) /\ UNCHANGED <<seqId, lastReply>>
  BY <1>2 DEF HostReceive, Settles, targetVars
<1>4. 1 \in Acked BY <1>2, <1>3 DEF Acked
<1>5. Level BY <1>1, <1>3, <1>4 DEF Adrift
<1>6. /\ hostNext \in 1..MaxSeq /\ seqId \in 1..MaxSeq /\ hostNext' \in 1..MaxSeq
  BY <1>1, <1>3, <1>5, Facts DEF Level
<1>7. /\ Lead >= 1 /\ (toHost[1].err = "NoError" => Earned)
      /\ \A j \in Asked : hostNext \in {toTarget[j].sid, Inc(toTarget[j].sid)}
  BY <1>3, <1>4, <1>5 DEF Level, RepliesLevel
<1>8. Lead \in 0..(MaxSeq - 1) /\ Lead' = Lead - 1 /\ Lead <= Harm + 2
  <2>1. Lead' = Far(Inc(hostNext), seqId) BY <1>3 DEF Lead, Far
  <2> QED BY <1>3, <1>5, <1>6, <1>7, <2>1, Ring DEF Lead, Level
<1>9. ASSUME NEW i \in Asked'
      PROVE  LET m == toTarget'[i]
             IN  /\ m.sid # 0 /\ m.sid # hostNext'
                 /\ \/ Inc(m.sid) = hostNext' /\ Far(m.sid, seqId) \in 1..(2 + Harm)
                    \/ Inc(Inc(m.sid)) = hostNext' /\ Far(m.sid, seqId) \in 2..(2 + Harm)
  <2> DEFINE x == toTarget'[i].sid
  <2>1. i + 0 \in Asked /\ x = toTarget[i + 0].sid BY <1>2
  <2>2. x \in 1..MaxSeq
    <3>1. x # 0 /\ x \in 0..MaxSeq BY <1>1, <1>5, <2>1, Facts DEF Level, FramesLevel
    <3> QED BY <3>1, Sizes
  <2>3. hostNext \in {x, Inc(x)} BY <1>7, <2>1
  <2> HIDE DEF x
  <2>4. CASE x = hostNext
    <3>1. Inc(x) = hostNext' /\ Far(x, seqId) = Lead /\ x # hostNext'
      BY <1>3, <1>6, <2>4, Ring DEF Lead
    <3> QED BY <1>2, <1>7, <1>8, <2>2, <3>1 DEF x
  <2>5. CASE Inc(x) = hostNext
    <3>1. Inc(Inc(x)) = hostNext' /\ x # hostNext' BY <1>3, <2>2, <2>5, Ring
    <3>2. Far(x, seqId) \in 1..(2 + Harm)
      <4>1. x # hostNext /\ Inc(Inc(x)) # hostNext
        <5>1. Inc(x) \in 1..MaxSeq BY <2>2, Ring
        <5> QED BY <2>2, <2>5, <5>1, Ring
      <4> QED BY <1>5, <2>1, <4>1 DEF Level, FramesLevel, x
    <3>3. Far(Inc(x), seqId) = Lead BY <2>5 DEF Lead
    <3>4. Far(x, seqId) >= 2
      <4>1. /\ Far(x, seqId) \in 0..(MaxSeq - 1)
            /\ Far(Inc(x), seqId) = IF Far(x, seqId) = 0 THEN MaxSeq - 1 ELSE Far(x, seqId) - 1
        BY <1>6, <2>2, Ring
      <4> QED BY <1>2, <1>7, <3>2, <3>3, <4>1
    <3> QED BY <1>2, <2>2, <3>1, <3>2, <3>4 DEF x
  <2> QED BY <2>3, <2>4, <2>5
<1>10. FramesLevel'
  <2>1. FramesLevel' <=>
          /\ \A i \in Asked' :
               LET m == toTarget'[i]
               IN  /\ m.sid # 0
                   /\ \/ m.sid = hostNext' /\ tries' > 0 /\ m.cmd = hostCmd'
                      \/ Inc(m.sid) = hostNext' /\ Far(m.sid, seqId') \in 1..(2 + Harm')
                      \/ Inc(Inc(m.sid)) = hostNext' /\ Far(m.sid, seqId') \in 2..(2 + Harm')
          /\ \A i, j \in Asked' :
               i < j /\ toTarget'[i].sid = hostNext' => toTarget'[j].sid = hostNext'
    BY DEF FramesLevel, Inc, Far
  <2> QED BY <1>2, <1>3, <1>9, <2>1
<1>11. ASSUME NEW i \in Acked'
       PROVE  /\ toHost'[i].sid \in {hostNext, hostNext'}
              /\ toHost'[i].sid # Inc(hostNext')
              /\ toHost'[i].sid = hostNext' =>
                   /\ Lead >= 2 /\ toHost'[i].err = "OsError"
                   /\ \A j \in Asked' : Inc(toTarget'[j].sid) = hostNext'
  <2>1. i + 1 \in Acked /\ 1 < i + 1 /\ toHost'[i] = toHost[i + 1]
    <3>1. i \in Nat
      <4>1. toHost' \in Seq(Replies) BY NextFacts
      <4> QED BY <4>1 DEF Acked
    <3> QED BY <1>2, <3>1
  <2>2. toHost[i + 1].sid \in {hostNext, hostNext'}
    BY <1>3, <1>4, <1>5, <2>1 DEF Level, RepliesLevel
  <2>3. Inc(hostNext') # hostNext /\ Inc(hostNext') # hostNext' BY <1>3, <1>6, Ring
  <2>4. toHost[i + 1].sid = hostNext' =>
          /\ Lead >= 2 /\ toHost[i + 1].err = "OsError"
          /\ \A j \in Asked : toTarget[j].sid = hostNext
    BY <1>3, <1>5, <2>1 DEF Level, RepliesLevel
  <2> QED BY <1>2, <1>3, <2>1, <2>2, <2>3, <2>4
<1>12. RepliesLevel'
  <2>1. ASSUME NEW i \in Acked'
        PROVE  LET r == toHost'[i]
               IN  /\ r.sid = hostNext' =>
                        /\ Lead' >= 1 /\ (r.err = "NoError" => Earned')
                        /\ \A j \in Asked' : hostNext' \in {toTarget'[j].sid, Inc(toTarget'[j].sid)}
                   /\ r.sid # Inc(hostNext')
    <3>1. Lead >= 2 => Lead' >= 1 BY <1>8
    <3> QED BY <1>11, <3>1
  <2>2. ASSUME NEW i \in Acked', NEW j \in Acked', i < j, toHost'[i].sid = hostNext'
        PROVE  toHost'[j].sid = hostNext'
    <3>1. i \in Nat /\ j \in Nat
      <4>1. toHost' \in Seq(Replies) BY NextFacts
      <4> QED BY <4>1 DEF Acked
    <3>2. i + 1 < j + 1 BY <2>2, <3>1
    <3> QED BY <1>2, <1>3, <1>5, <2>2, <3>2 DEF Level, RepliesLevel
  <2> QED BY <2>1, <2>2 DEF RepliesLevel, Inc
<1>13. KeptLevel'
  <2>1. Inc(lastReply'.sid) = Inc(lastReply.sid) BY <1>3
  <2>2. lastReply.type = "ACK" =>
          /\ Inc(lastReply.sid) = seqId /\ Lead <= 2
          /\ Lead = 2 => lastReply.err = "OsError"
    BY <1>5 DEF Level, KeptLevel
  <2>3. Lead' = 1 => Lead = 2 BY <1>8
  <2>4. Lead <= 2 => Lead' <= 2 /\ Lead' # 2 BY <1>8
  <2> QED BY <1>3, <2>1, <2>2, <2>3, <2>4 DEF KeptLevel, Inc
<1>14. Lead' <= Harm' + 1 BY <1>2, <1>8
<1>15. Level' BY <1>3, <1>5, <1>10, <1>12, <1>13, <1>14 DEF Level
<1> QED BY <1>2, <1>5, <1>7, <1>15

LEMMA HostReceiveFInv ==
  ASSUME FewDisturbances, FInv, IInv', HostReceive
  PROVE  FInv'
<1>1. IInv /\ Line /\ Turn /\ Once BY DEF FInv
<1>2. /\ Line' /\ Harm' = Harm /\ Harm \in Int
      /\ \A i \in Asked' : i + 0 \in Asked /\ toTarget'[i] = toTarget[i + 0]
      /\ \A i \in Acked' : i + 1 \in Acked /\ toHost'[i] = toHost[i + 1]
  BY <1>1, Hears, Facts
<1>3. /\ UNCHANGED <<seqId, lastReply, connected, executed, hostCmd>>
  BY DEF HostReceive, targetVars
<1>4. CASE ~Settles(Head(toHost))
  <2>1. UNCHANGED <<tries, hostNext, status>> BY <1>4 DEF HostReceive
  <2>2. Fewer(0, 1) BY <1>2, <1>3, <2>1 DEF Fewer
  <2> QED BY <1>2, <2>1, <2>2, FewerFInv
<1>5. CASE Settles(Head(toHost))
  <2> DEFINE r == Head(toHost)
  <2>1. /\ tries > 0 /\ r.sid = hostNext /\ tries' = 0 /\ hostNext' = Inc(hostNext)
        /\ status' = [c \in Cmds |->
                        IF c # hostCmd THEN status[c]
                        ELSE IF r.err = "NoError" THEN "answered" ELSE "failed"]
    BY <1>5 DEF HostReceive, Settles
  <2>2. Level' BY <1>5, PingSettles, CommandSettles
  <2>3. hostNext' # 0
    <3>1. Inc(hostNext) \in 1..MaxSeq
      <4>1. hostNext # 0 => Inc(hostNext) \in 1..MaxSeq BY <1>1, Facts
      <4>2. Inc(0) \in 1..MaxSeq BY Sizes
      <4> QED BY <4>1, <4>2
    <3> QED BY <2>1, <3>1, Sizes
  <2>4. Turn'
    <3>1. \A c \in Cmds : status'[c] # "sent" BY <1>1, <2>1 DEF Turn
    <3> QED BY <2>1, <2>3, <3>1 DEF Turn
  <2>5. Once'
    <3>1. \A c \in Cmds : executed[c] \in Nat BY <1>1, Facts
    <3>2. hostCmd \in Cmds /\ r.err = "NoError" => Earned
      <4>1. hostCmd \in Cmds => hostCmd # 0 BY BoundAssumption DEF Cmds
      <4>2. hostCmd # 0 => hostNext # 0 BY <1>1 DEF Turn
      <4> QED BY <1>5, <4>1, <4>2, CommandSettles
    <3>3. ASSUME NEW c \in Cmds \ Connects
          PROVE  /\ executed'[c] <= 1
                 /\ status'[c] = "unsent" => executed'[c] = 0
                 /\ status'[c] = "answered" => executed'[c] = 1
      <4>1. executed[c] <= 1 /\ executed[c] \in Nat /\ executed' = executed
        BY <1>1, <1>3, <3>1 DEF Once
      <4>2. CASE c # hostCmd BY <1>1, <1>3, <2>1, <4>2 DEF Once
      <4>3. CASE c = hostCmd
        <5>1. r.err = "NoError" => executed[c] > 0 BY <3>2, <4>3 DEF Earned
        <5> QED BY <2>1, <4>1, <4>3, <5>1
      <4> QED BY <4>2, <4>3
    <3> QED BY <2>1, <3>3 DEF Once
  <2> QED BY <1>2, <2>2, <2>3, <2>4, <2>5 DEF FInv, Numbering
<1> QED BY <1>4, <1>5

(* The host sends a command under its next number, for the first time or   *)
(* once more.                                                              *)
LEMMA SendsLevel ==
  ASSUME FewDisturbances, IInv, IInv', Line, Level, hostNext # 0, NEW m,
         m = Frame("cmd", hostNext, hostCmd'), Send(m), tries' > 0,
         tries > 0 => hostCmd' = hostCmd,
         UNCHANGED <<seqId, lastReply, connected, executed, toHost, hostNext, noise>>
  PROVE  Level' /\ Line'
<1>1. m.type = "cmd" /\ m.sid = hostNext /\ m.cmd = hostCmd' /\ ~m.damaged BY DEF Frame
<1>2. toTarget' = Append(toTarget, m) BY DEF Send
<1>3. /\ Line' /\ Harm' = Harm
      /\ \A i \in Asked' :
           \/ i \in Asked /\ i <= Len(toTarget) /\ toTarget'[i] = toTarget[i]
           \/ i = Len(toTarget) + 1 /\ toTarget'[i] = m
  <2>1. \A i \in DOMAIN toHost' : toHost'[i].type = "event" => toHost'[i].sid # 0 BY DEF Line
  <2> QED BY <1>1, <1>2, <2>1, Sent
<1>4. /\ toTarget \in Seq(Frames) /\ tries \in Nat /\ tries' \in Nat /\ Harm \in Int
      /\ Lead \in Nat
  <2>1. hostNext \in 1..MaxSeq /\ seqId \in 1..MaxSeq BY Facts DEF Level
  <2>2. Far(hostNext, seqId) \in 0..(MaxSeq - 1) /\ MaxSeq \in Nat BY <2>1, Ring
  <2> QED BY <2>2, Facts, NextFacts DEF Lead
<1>5. Lead' = Lead /\ Inc(hostNext') = Inc(hostNext) BY DEF Lead, Far
<1>6. Earned => Earned' BY DEF Earned
<1>7. FramesLevel'
  <2>1. ASSUME NEW i \in Asked'
        PROVE  LET f == toTarget'[i]
               IN  /\ f.sid # 0
                   /\ \/ f.sid = hostNext /\ f.cmd = hostCmd'
                      \/ Inc(f.sid) = hostNext /\ Far(f.sid, seqId) \in 1..(2 + Harm)
                      \/ Inc(Inc(f.sid)) = hostNext /\ Far(f.sid, seqId) \in 2..(2 + Harm)
    BY <1>1, <1>3 DEF Level, FramesLevel
  <2>2. ASSUME NEW i \in Asked', NEW j \in Asked', i < j, toTarget'[i].sid = hostNext
        PROVE  toTarget'[j].sid = hostNext
    <3>1. CASE j = Len(toTarget) + 1 /\ toTarget'[j] = m BY <1>1, <3>1
    <3>2. CASE j \in Asked /\ j <= Len(toTarget) /\ toTarget'[j] = toTarget[j]
      <4>1. i \in Nat /\ j \in Nat /\ Len(toTarget) \in Nat
        <5>1. toTarget' \in Seq(Frames) BY NextFacts
        <5> QED BY <1>4, <5>1 DEF Asked
      <4>2. i # Len(toTarget) + 1 BY <2>2, <3>2, <4>1
      <4>3. i \in Asked /\ toTarget'[i] = toTarget[i] BY <1>3, <4>2
      <4> QED BY <2>2, <3>2, <4>3 DEF Level, FramesLevel
    <3> QED BY <1>3, <3>1, <3>2
  <2>3. FramesLevel' <=>
          /\ \A i \in Asked' :
               LET f == toTarget'[i]
               IN  /\ f.sid # 0
                   /\ \/ f.sid = hostNext' /\ tries' > 0 /\ f.cmd = hostCmd'
                      \/ Inc(f.sid) = hostNext' /\ Far(f.sid, seqId') \in 1..(2 + Harm')
                      \/ Inc(Inc(f.sid)) = hostNext' /\ Far(f.sid, seqId') \in 2..(2 + Harm')
          /\ \A i, j \in Asked' :
               i < j /\ toTarget'[i].sid = hostNext' => toTarget'[j].sid = hostNext'
    BY DEF FramesLevel, Inc, Far
  <2> QED BY <1>3, <2>1, <2>2, <2>3
<1>8. RepliesLevel'
  <2>1. Acked' = Acked BY DEF Acked
  <2>2. ASSUME NEW i \in Acked
        PROVE  LET r == toHost[i]
               IN  /\ r.sid = hostNext =>
                        /\ Lead' >= 1 /\ (r.err = "NoError" => Earned')
                        /\ \A j \in Asked' : hostNext \in {toTarget'[j].sid, Inc(toTarget'[j].sid)}
                   /\ r.sid = Inc(hostNext) =>
                        /\ Lead' >= 2 /\ r.err = "OsError"
                        /\ \A j \in Asked' : toTarget'[j].sid = hostNext
    BY <1>1, <1>3, <1>5, <1>6 DEF Level, RepliesLevel
  <2>3. \A i, j \in Acked : i < j =>
          /\ toHost[i].sid = hostNext => toHost[j].sid \in {hostNext, Inc(hostNext)}
          /\ toHost[i].sid = Inc(hostNext) => toHost[j].sid = Inc(hostNext)
    BY DEF Level, RepliesLevel
  <2> QED BY <2>1, <2>2, <2>3 DEF RepliesLevel, Inc
<1>9. KeptLevel'
  <2>1. Inc(lastReply'.sid) = Inc(lastReply.sid) OBVIOUS
  <2> QED BY <1>5, <1>6, <2>1 DEF Level, KeptLevel, Inc
<1>10. Lead' <= Harm' + (IF tries' > 0 THEN 2 ELSE 1)
  <2>1. Lead <= Harm + (IF tries > 0 THEN 2 ELSE 1) BY DEF Level
  <2>2. Lead <= Harm + 2 BY <1>4, <2>1
  <2> QED BY <1>3, <1>5, <2>2
<1> QED BY <1>3, <1>7, <1>8, <1>9, <1>10 DEF Level

LEMMA HostRepeatFInv ==
  ASSUME FewDisturbances, FInv, IInv', HostRepeat
  PROVE  FInv'
<1>1. IInv /\ Line /\ Turn /\ Once /\ Numbering BY DEF FInv
<1> DEFINE m == Frame("cmd", hostNext, hostCmd)
<1>2. /\ hostCmd # 0 /\ tries > 0 /\ Send(m) /\ tries' = tries + 1 /\ tries \in Nat
      /\ UNCHANGED <<seqId, lastReply, connected, executed, toHost, hostNext, noise>>
      /\ UNCHANGED <<hostCmd, status>>
  BY <1>1, Facts DEF HostRepeat, targetVars
<1>3. tries' > 0 /\ hostNext # 0 BY <1>1, <1>2 DEF Turn
<1>4. CASE Level
  <2>1. m = Frame("cmd", hostNext, hostCmd') BY <1>2
  <2> HIDE DEF m
  <2>2. Level' /\ Line' BY <1>1, <1>2, <1>3, <1>4, <2>1, SendsLevel
  <2>3. Turn' /\ Once' BY <1>1, <1>2, <1>3 DEF Turn, Once
  <2> QED BY <1>2, <1>3, <2>2, <2>3 DEF FInv, Numbering
<1>5. CASE Adrift
  <2>1. ~m.damaged /\ m.type = "cmd" /\ m.sid = hostNext /\ m.cmd = hostCmd BY DEF Frame
  <2>2. toTarget' = Append(toTarget, m) BY <1>2 DEF Send
  <2> HIDE DEF m
  <2>3. \A i \in DOMAIN toHost' : toHost'[i].type = "event" => toHost'[i].sid # 0
    BY <1>1, <1>2 DEF Line
  <2>4. /\ Line' /\ Harm' = Harm
        /\ \A i \in Asked' : \/ i \in Asked /\ toTarget'[i] = toTarget[i]
                             \/ toTarget'[i] = m
    BY <1>1, <1>2, <2>1, <2>2, <2>3, Sent
  <2>5. \A i \in Asked' : toTarget'[i].sid = hostNext' /\ toTarget'[i].cmd = hostCmd'
    BY <1>2, <1>5, <2>1, <2>4 DEF Adrift
  <2>6. \A i \in Acked' :
          toHost'[i].sid # hostNext' /\ (toHost'[i].sid = Inc(hostNext') => hostNext' = MaxSeq)
    <3>1. Acked' = Acked /\ Inc(hostNext') = Inc(hostNext) BY <1>2 DEF Acked
    <3> QED BY <1>2, <1>5, <3>1 DEF Adrift
  <2>7. Inc(lastReply'.sid) = Inc(lastReply.sid) /\ Far(2, seqId') = Far(2, seqId)
    BY <1>2
  <2>8. Adrift' BY <1>2, <1>3, <1>5, <2>4, <2>5, <2>6, <2>7 DEF Adrift, Inc, Far
  <2>9. Turn' /\ Once' BY <1>1, <1>2, <1>3 DEF Turn, Once
  <2> QED BY <1>2, <1>3, <2>4, <2>8, <2>9 DEF FInv, Numbering
<1> QED BY <1>1, <1>3, <1>4, <1>5 DEF Numbering

LEMMA HostIssueFInv ==
  ASSUME FewDisturbances, FInv, IInv', HostIssue
  PROVE  FInv'
<1>1. IInv /\ Line /\ Turn /\ Once /\ Numbering BY DEF FInv
<1>2. PICK c \in Cmds :
        /\ tries = 0 /\ status[c] = "unsent" /\ Send(Frame("cmd", hostNext, c))
        /\ hostCmd' = c /\ tries' = 1 /\ status' = [status EXCEPT ![c] = "sent"]
        /\ UNCHANGED <<targetVars, toHost, hostNext, noise, events>>
  BY DEF HostIssue
<1> DEFINE m == Frame("cmd", hostNext, c)
<1>3. UNCHANGED <<seqId, lastReply, connected, executed, toHost, hostNext, noise>>
  BY <1>2 DEF targetVars
<1>4. hostNext # 0 BY <1>1, <1>2 DEF Turn
<1>5. Level BY <1>1, <1>2, <1>4 DEF Numbering, Adrift
<1>6. Level' /\ Line'
  <2>1. m = Frame("cmd", hostNext, hostCmd') BY <1>2
  <2>2. tries' > 0 /\ ~(tries > 0) /\ Send(m) BY <1>2
  <2> HIDE DEF m
  <2> QED BY <1>1, <1>3, <1>4, <1>5, <2>1, <2>2, SendsLevel
<1>7. status \in [Cmds -> {"unsent", "sent", "answered", "failed"}] BY <1>1, Facts
<1>8. \A d \in Cmds : status[d] # "sent" BY <1>1, <1>2 DEF Turn
<1>9. c # 0 BY BoundAssumption DEF Cmds
<1>10. Turn' BY <1>2, <1>3, <1>4, <1>7, <1>8, <1>9 DEF Turn
<1>11. Once'
  <2>1. c \notin Connects => executed[c] = 0 BY <1>1, <1>2 DEF Once
  <2> QED BY <1>1, <1>2, <1>3, <1>7, <2>1 DEF Once
<1> QED BY <1>3, <1>4, <1>6, <1>10, <1>11 DEF FInv, Numbering

LEMMA HostResetFInv ==
  ASSUME FewDisturbances, FInv, IInv', HostReset
  PROVE  FInv'
<1>1. IInv /\ Line /\ Turn /\ Once BY DEF FInv
<1> DEFINE m == Frame("cmd", 0, 0)
<1>2. /\ toTarget = <<>> /\ toHost = <<>> /\ toTarget' = Append(toTarget, m) /\ toHost' = <<>>
      /\ hostNext' = 0 /\ hostCmd' = 0 /\ tries' = 1 /\ noise' = noise /\ executed' = executed
      /\ status' = [c \in Cmds |-> IF c = hostCmd THEN "failed" ELSE status[c]]
  BY DEF HostReset, Send, targetVars
<1>3. ~m.damaged /\ m.type = "cmd" /\ m.sid = 0 /\ m.cmd = 0 BY DEF Frame
<1> HIDE DEF m
<1>4. Asked = {} /\ Acked' = {} BY <1>2 DEF Asked, Acked
<1>5. \A i \in DOMAIN toHost' : toHost'[i].type = "event" => toHost'[i].sid # 0 BY <1>2
<1>6. Line' /\ \A i \in Asked' : i = Len(toTarget) + 1 /\ toTarget'[i] = m
  BY <1>1, <1>2, <1>3, <1>4, <1>5, Sent
<1>7. Pinging' BY <1>3, <1>4, <1>6 DEF Pinging
<1>8. Turn'
  <2>1. \A c \in Cmds : status'[c] # "sent" BY <1>1, <1>2 DEF Turn
  <2> QED BY <1>2, <2>1 DEF Turn
<1>9. Once'
  <2>1. hostCmd' \notin Cmds BY <1>2, BoundAssumption DEF Cmds
  <2>2. \A c \in Cmds : status'[c] \in {"unsent", "answered"} => status'[c] = status[c] BY <1>2
  <2> QED BY <1>1, <1>2, <2>1, <2>2 DEF Once
<1> QED BY <1>2, <1>6, <1>7, <1>8, <1>9 DEF FInv, Numbering

(* Only replies are kept for a repetition, never an event.                 *)
Kept == lastReply.type # "event"

LEMMA NextKept == Kept /\ [Next]_vars => Kept'
<1> SUFFICES ASSUME Kept, [Next]_vars PROVE Kept'
  OBVIOUS
<1>1. CASE lastReply' = lastReply BY <1>1 DEF Kept
<1>2. CASE \E err : RespondErr("NAK", err) BY <1>2 DEF Kept, RespondErr, Reply
<1>3. ASSUME NEW m, NEW expected, NEW out, Dispatch(m, expected, out) PROVE Kept'
  <2>0. \E ending \in Outcomes, first \in {1, expected} :
          LET answers == Answers(ending, first) IN lastReply' = answers[Len(answers)]
    BY <1>3 DEF Dispatch
  <2>1. PICK ending \in Outcomes, first \in {1, expected} :
          LET answers == Answers(ending, first) IN lastReply' = answers[Len(answers)]
    BY <2>0
  <2>2. CASE ending = "ok" BY <2>1, <2>2 DEF Answers, Reply, Kept
  <2>3. CASE ending = "error" BY <2>1, <2>3 DEF Answers, Reply, Kept
  <2>4. CASE ending = "okThenError" BY <2>1, <2>4 DEF Answers, Reply, Kept
  <2> QED BY <2>2, <2>3, <2>4, OutcomeAssumption
<1>4. CASE ReceiveDamaged \/ ReceiveUnexpected
  BY <1>2, <1>4 DEF ReceiveDamaged, ReceiveUnexpected
<1>5. CASE ReceiveReset \/ ReceiveExpected BY <1>3, <1>5 DEF ReceiveReset, ReceiveExpected
<1>6. CASE ReceiveDuplicate \/ ReceiveAck \/ InformEvent \/ Lose \/ Damage
  BY <1>1, <1>6 DEF ReceiveDuplicate, ReceiveAck, InformEvent, Lose, Damage, targetVars
<1>7. CASE HostIssue \/ HostRepeat \/ HostReset \/ HostReceive
  BY <1>1, <1>7 DEF HostIssue, HostRepeat, HostReset, HostReceive, targetVars
<1>8. CASE UNCHANGED vars BY <1>1, <1>8 DEF vars, targetVars
<1> QED BY <1>4, <1>5, <1>6, <1>7, <1>8 DEF Next, Target

(* The target takes an intact command.                                     *)
LEMMA TakesCommand ==
  ASSUME FewDisturbances, IInv, Line, Take, ~Head(toTarget).damaged, Head(toTarget).type = "cmd"
  PROVE  /\ Head(toTarget) = toTarget[1] /\ 1 \in Asked /\ Harm' = Harm /\ Harm \in Nat
         /\ noise' = noise /\ toTarget # <<>> /\ toTarget' = Tail(toTarget)
         /\ UNCHANGED <<hostNext, hostCmd, tries, status>>
         /\ \A i \in Asked' : i + 1 \in Asked /\ i + 1 > 1 /\ toTarget'[i] = toTarget[i + 1]
<1>1. /\ toTarget # <<>> /\ toTarget' = Tail(toTarget) /\ noise' = noise /\ noise \in Nat
      /\ UNCHANGED <<hostNext, hostCmd, tries, status>>
  BY Facts DEF Take, hostVars
<1>2. /\ toTarget[1] = Head(toTarget) /\ 1 \in DOMAIN toTarget
      /\ Hit = IF toTarget[1].damaged THEN 1 ELSE 0
      /\ Harm' = noise'
      /\ \A i \in Asked' : i + 1 \in Asked /\ i + 1 > 1 /\ toTarget'[i] = toTarget[i + 1]
  BY <1>1, Taken
<1>3. 1 \in Asked BY <1>2 DEF Asked, Asks
<1>4. Harm = noise BY <1>1, <1>2 DEF Harm
<1> QED BY <1>1, <1>2, <1>3, <1>4

LEMMA ReceiveDuplicateFInv ==
  ASSUME FewDisturbances, FInv, Kept, IInv', ReceiveDuplicate
  PROVE  FInv'
<1>1. IInv /\ Line /\ Turn /\ Once /\ Numbering BY DEF FInv
<1> DEFINE m == Head(toTarget)
<1>2. /\ Take /\ ~m.damaged /\ m.sid # 0 /\ m.type = "cmd" /\ m.sid + 1 = seqId
      /\ toHost' = Append(toHost, lastReply)
      /\ UNCHANGED <<seqId, lastReply, connected, executed>>
  BY DEF ReceiveDuplicate, Numbered, targetVars
<1>3. /\ m = toTarget[1] /\ 1 \in Asked /\ Harm' = Harm /\ Harm \in Nat /\ noise' = noise
      /\ toTarget # <<>> /\ toTarget' = Tail(toTarget)
      /\ UNCHANGED <<hostNext, hostCmd, tries, status>>
      /\ \A i \in Asked' : i + 1 \in Asked /\ i + 1 > 1 /\ toTarget'[i] = toTarget[i + 1]
  BY <1>1, <1>2, TakesCommand
<1>4. /\ \A i \in Acked' :
           \/ i \in Acked /\ i <= Len(toHost) /\ toHost'[i] = toHost[i]
           \/ i = Len(toHost) + 1 /\ toHost'[i] = lastReply /\ lastReply.type = "ACK"
      /\ \A i \in DOMAIN toHost' :
           (i \in DOMAIN toHost /\ toHost'[i] = toHost[i]) \/ toHost'[i] = lastReply
  BY <1>1, <1>2, Heard
<1>5. Line'
  <2>1. \A i \in DOMAIN toHost' : toHost'[i].type = "event" => toHost'[i].sid # 0
    BY <1>1, <1>4 DEF Kept, Line
  <2>2. noise' \in Nat /\ noise <= noise' /\ noise' <= MaxNoise BY <1>1, <1>3, Facts DEF Line
  <2> QED BY <1>1, <1>3, <2>1, <2>2, LineTaken
<1>6. CASE lastReply.type # "ACK"
  <2>1. \A i \in Acked' : i + 0 \in Acked /\ toHost'[i] = toHost[i + 0]
    <3>1. \A i \in Acked' : i + 0 = i
      <4>1. toHost' \in Seq(Replies) BY NextFacts
      <4> QED BY <4>1 DEF Acked
    <3> QED BY <1>4, <1>6, <3>1
  <2>2. \A n \in Nat : n >= n OBVIOUS
  <2>3. Fewer(1, 0) BY <1>2, <1>3, <2>1, <2>2 DEF Fewer
  <2> QED BY <1>3, <1>5, <2>3, FewerFInv
<1>7. CASE lastReply.type = "ACK"
  <2>1. hostNext # 0 BY <1>1, <1>2, <1>3 DEF Numbering, Pinging
  <2>2. m.sid \in 1..MaxSeq /\ hostNext \in 1..MaxSeq /\ seqId \in 1..MaxSeq /\ seqId >= 2
    <3>1. m.sid \in 0..MaxSeq /\ seqId \in 0..MaxSeq /\ hostNext \in 0..MaxSeq
      BY <1>1, <1>3, Facts
    <3>2. MaxSeq \in Nat BY Sizes
    <3> HIDE DEF m
    <3>3. m.sid + 1 = seqId /\ m.sid # 0 BY <1>2
    <3> QED BY <2>1, <3>1, <3>2, <3>3
  <2>3. Inc(m.sid) = seqId BY <1>2, <2>2, Sizes DEF Inc
  <2>4. Inc(lastReply.sid) = seqId
    BY <1>1, <1>7, <2>1 DEF Numbering, Level, KeptLevel, Adrift
  <2>5. lastReply.sid = m.sid
    <3>1. lastReply.sid # 0 BY <2>2, <2>4, Sizes
    <3>2. lastReply.sid \in 1..MaxSeq BY <1>1, <3>1, Facts, Sizes
    <3> QED BY <2>2, <2>3, <2>4, <3>2, Ring
  <2>6. ~Adrift
    <3>1. Adrift => m.sid = hostNext /\ hostNext >= 3 /\ lastReply.sid \in {1, 2}
      BY <1>3, <1>7 DEF Adrift
    <3> QED BY <2>2, <2>5, <3>1
  <2>7. Level BY <1>1, <2>1, <2>6 DEF Numbering
  <2> DEFINE h == hostNext
  <2>8. /\ Lead <= 2 /\ (Lead = 2 => lastReply.err = "OsError")
        /\ (Lead = 1 /\ lastReply.err = "NoError" => Earned)
    BY <1>7, <2>7 DEF Level, KeptLevel
  <2>9. \/ m.sid = h /\ Lead = 1
        \/ Inc(m.sid) = h /\ Lead = 0
    <3>1. Far(m.sid, seqId) = 1
      <4>1. Far(m.sid, m.sid) = 0 /\ MaxSeq >= 3 BY <2>2, Ring
      <4> QED BY <2>2, <2>3, <4>1, Ring
    <3>2. m.sid = h \/ Inc(m.sid) = h BY <1>3, <2>7, <3>1 DEF Level, FramesLevel
    <3>3. Inc(m.sid) = h => Lead = 0 BY <2>2, <2>3, Ring DEF Lead
    <3> QED BY <3>1, <3>2, <3>3 DEF Lead
  <2>10. Lead' = Lead /\ Inc(hostNext') = Inc(h) /\ hostNext' = h BY <1>2, <1>3 DEF Lead, Far
  <2>11. Earned' <=> Earned BY <1>2, <1>3 DEF Earned
  <2>12. FramesLevel'
    <3>1. ASSUME NEW i \in Asked', NEW j \in Asked', i < j, toTarget'[i].sid = h
          PROVE  toTarget'[j].sid = h
      <4>1. i \in Nat /\ j \in Nat
        <5>1. toTarget' \in Seq(Frames) BY NextFacts
        <5> QED BY <5>1 DEF Asked
      <4>2. i + 1 < j + 1 BY <3>1, <4>1
      <4>3. i + 1 \in Asked /\ j + 1 \in Asked
            /\ toTarget'[i] = toTarget[i + 1] /\ toTarget'[j] = toTarget[j + 1]
        BY <1>3
      <4>4. \A a, b \in Asked : a < b /\ toTarget[a].sid = h => toTarget[b].sid = h
        BY <2>7 DEF Level, FramesLevel
      <4> QED BY <3>1, <4>2, <4>3, <4>4
    <3>2. FramesLevel' <=>
            /\ \A i \in Asked' :
                 LET f == toTarget'[i]
                 IN  /\ f.sid # 0
                     /\ \/ f.sid = hostNext' /\ tries' > 0 /\ f.cmd = hostCmd'
                        \/ Inc(f.sid) = hostNext' /\ Far(f.sid, seqId') \in 1..(2 + Harm')
                        \/ Inc(Inc(f.sid)) = hostNext' /\ Far(f.sid, seqId') \in 2..(2 + Harm')
            /\ \A i, j \in Asked' :
                 i < j /\ toTarget'[i].sid = hostNext' => toTarget'[j].sid = hostNext'
      BY DEF FramesLevel, Inc, Far
    <3>3. ASSUME NEW i \in Asked'
          PROVE  LET f == toTarget'[i]
                 IN  /\ f.sid # 0
                     /\ \/ f.sid = h /\ tries > 0 /\ f.cmd = hostCmd
                        \/ Inc(f.sid) = h /\ Far(f.sid, seqId) \in 1..(2 + Harm)
                        \/ Inc(Inc(f.sid)) = h /\ Far(f.sid, seqId) \in 2..(2 + Harm)
      <4>1. i + 1 \in Asked /\ toTarget'[i] = toTarget[i + 1] BY <1>3
      <4> QED BY <2>7, <4>1 DEF Level, FramesLevel
    <3> QED BY <1>2, <1>3, <3>1, <3>2, <3>3
  <2>13. m.sid # Inc(h) /\ (Inc(m.sid) = h => m.sid # h) BY <2>2, <2>9, Ring
  <2>14. m.sid = h => \A j \in Asked' : toTarget'[j].sid = h
    BY <1>3, <2>7 DEF Level, FramesLevel
  <2>15. RepliesLevel'
    <3>1. ASSUME NEW i \in Acked'
          PROVE  LET r == toHost'[i]
                 IN  /\ r.sid = hostNext' =>
                          /\ Lead' >= 1 /\ (r.err = "NoError" => Earned')
                          /\ \A j \in Asked' :
                               hostNext' \in {toTarget'[j].sid, Inc(toTarget'[j].sid)}
                     /\ r.sid = Inc(hostNext') =>
                          /\ Lead' >= 2 /\ r.err = "OsError"
                          /\ \A j \in Asked' : toTarget'[j].sid = hostNext'
      <4>1. CASE i \in Acked /\ toHost'[i] = toHost[i]
        BY <1>3, <2>7, <2>10, <2>11, <4>1 DEF Level, RepliesLevel
      <4>2. CASE toHost'[i] = lastReply
        BY <2>5, <2>8, <2>9, <2>10, <2>11, <2>13, <2>14, <4>2
      <4> QED BY <1>4, <4>1, <4>2
    <3>2. ASSUME NEW i \in Acked', NEW j \in Acked', i < j
          PROVE  /\ toHost'[i].sid = hostNext' => toHost'[j].sid \in {hostNext', Inc(hostNext')}
                 /\ toHost'[i].sid = Inc(hostNext') => toHost'[j].sid = Inc(hostNext')
      <4>1. i \in Nat /\ j \in Nat /\ Len(toHost) \in Nat
        <5>1. toHost' \in Seq(Replies) /\ toHost \in Seq(Replies) BY <1>1, NextFacts, Facts
        <5> QED BY <5>1 DEF Acked
      <4>2. i \in Acked /\ toHost'[i] = toHost[i] BY <1>4, <3>2, <4>1
      <4>3. CASE j \in Acked /\ toHost'[j] = toHost[j]
        BY <2>7, <2>10, <3>2, <4>2, <4>3 DEF Level, RepliesLevel
      <4>4. CASE toHost'[j] = lastReply
        <5>1. (toHost[i].sid = h => Lead >= 1) /\ (toHost[i].sid = Inc(h) => Lead >= 2)
          BY <2>7, <4>2 DEF Level, RepliesLevel
        <5> QED BY <2>5, <2>9, <2>10, <4>2, <4>4, <5>1
      <4> QED BY <1>4, <4>3, <4>4
    <3> QED BY <3>1, <3>2 DEF RepliesLevel, Inc
  <2>16. KeptLevel'
    <3>1. Inc(lastReply'.sid) = Inc(lastReply.sid) BY <1>2
    <3> QED BY <1>2, <2>7, <2>10, <2>11, <3>1 DEF Level, KeptLevel, Inc
  <2>17. Level' BY <1>2, <1>3, <2>7, <2>10, <2>12, <2>15, <2>16 DEF Level
  <2>18. Turn' /\ Once' BY <1>1, <1>2, <1>3 DEF Turn, Once
  <2> QED BY <1>3, <1>5, <2>1, <2>17, <2>18 DEF FInv, Numbering
<1> QED BY <1>6, <1>7

(* What is known of a command that has run: it answered "first", or a      *)
(* second time with an error as well.                                      *)
Ran(first, two) ==
  /\ \A i \in Acked' :
       \/ i \in Acked /\ i <= Len(toHost) /\ toHost'[i] = toHost[i]
       \/ i = Len(toHost) + 1 /\ toHost'[i].sid = first
       \/ two /\ i = Len(toHost) + 2 /\ toHost'[i].sid = Inc(first) /\ toHost'[i].err = "OsError"
  /\ seqId' = IF two THEN Inc(Inc(first)) ELSE Inc(first)
  /\ lastReply'.sid = IF two THEN Inc(first) ELSE first
  /\ two => lastReply'.err = "OsError"

LEMMA OneMore ==
  ASSUME NEW S, NEW s \in Seq(S), NEW a
  PROVE  \A i \in DOMAIN (s \o <<a>>) :
           \/ i \in DOMAIN s /\ i <= Len(s) /\ (s \o <<a>>)[i] = s[i]
           \/ i = Len(s) + 1 /\ (s \o <<a>>)[i] = a
OBVIOUS

LEMMA TwoMore ==
  ASSUME NEW S, NEW s \in Seq(S), NEW a, NEW b
  PROVE  \A i \in DOMAIN (s \o <<a, b>>) :
           \/ i \in DOMAIN s /\ i <= Len(s) /\ (s \o <<a, b>>)[i] = s[i]
           \/ i = Len(s) + 1 /\ (s \o <<a, b>>)[i] = a
           \/ i = Len(s) + 2 /\ (s \o <<a, b>>)[i] = b
OBVIOUS

LEMMA Answered ==
  ASSUME FewDisturbances, IInv, Line, NEW m, NEW expected, NEW out, Dispatch(m, expected, out)
  PROVE  LET first == IF m.cmd \in Connects /\ connected THEN 1 ELSE expected
         IN  \E two \in BOOLEAN :
               /\ Ran(first, two)
               /\ \A i \in DOMAIN toHost' : toHost'[i].type = "event" => toHost'[i].sid # 0
               /\ two /\ m.cmd \in Connects => connected'
               /\ m.cmd \notin Connects => connected' = connected
               /\ executed' = [c \in Cmds |-> IF c = m.cmd THEN executed[c] + 1 ELSE executed[c]]
<1> DEFINE first == IF m.cmd \in Connects /\ connected THEN 1 ELSE expected
<1>1. PICK ending \in Outcomes :
        LET answers == Answers(ending, first)
        IN  /\ toHost' = toHost \o answers
            /\ lastReply' = answers[Len(answers)]
            /\ seqId' = IF Len(answers) = 1 THEN Inc(first) ELSE Inc(Inc(first))
            /\ connected' = IF m.cmd \in Connects THEN ending # "error" ELSE connected
            /\ executed' = [c \in Cmds |-> IF c = m.cmd THEN executed[c] + 1 ELSE executed[c]]
  BY DEF Dispatch
<1> HIDE DEF first
<1>2. toHost \in Seq(Replies) BY Facts
<1>3. \A i \in DOMAIN toHost : toHost[i].type = "event" => toHost[i].sid # 0 BY DEF Line
<1>4. CASE ending # "okThenError"
  <2>1. PICK a : Answers(ending, first) = <<a>> /\ a.type = "ACK" /\ a.sid = first
    BY <1>4, OutcomeAssumption DEF Answers, Reply
  <2>2. /\ toHost' = toHost \o <<a>> /\ lastReply' = a /\ seqId' = Inc(first)
    BY <1>1, <2>1
  <2>3. \A i \in DOMAIN toHost' :
          \/ i \in DOMAIN toHost /\ i <= Len(toHost) /\ toHost'[i] = toHost[i]
          \/ i = Len(toHost) + 1 /\ toHost'[i] = a
    BY <1>2, <2>2, OneMore
  <2>4. Ran(first, FALSE) BY <2>1, <2>2, <2>3 DEF Ran, Acked
  <2> QED BY <1>1, <1>3, <2>1, <2>3, <2>4 DEF first
<1>5. CASE ending = "okThenError"
  <2>1. PICK a, b : /\ Answers(ending, first) = <<a, b>> /\ a.type = "ACK" /\ a.sid = first
                    /\ b.type = "ACK" /\ b.sid = Inc(first) /\ b.err = "OsError"
    BY <1>5 DEF Answers, Reply
  <2>2. /\ toHost' = toHost \o <<a, b>> /\ lastReply' = b /\ seqId' = Inc(Inc(first))
    BY <1>1, <2>1
  <2>3. \A i \in DOMAIN toHost' :
          \/ i \in DOMAIN toHost /\ i <= Len(toHost) /\ toHost'[i] = toHost[i]
          \/ i = Len(toHost) + 1 /\ toHost'[i] = a
          \/ i = Len(toHost) + 2 /\ toHost'[i] = b
    BY <1>2, <2>2, TwoMore
  <2>4. Ran(first, TRUE) BY <2>1, <2>2, <2>3 DEF Ran, Acked
  <2>5. m.cmd \in Connects => connected' BY <1>1, <1>5
  <2> QED BY <1>1, <1>3, <2>1, <2>3, <2>4, <2>5 DEF first
<1> QED BY <1>4, <1>5

(* The ping arrives: there is nothing else on the line that matters.       *)
LEMMA ReceiveResetRuns ==
  ASSUME FewDisturbances, FInv, IInv', ReceiveReset
  PROVE  /\ hostNext = 0 /\ Acked = {} /\ Asked' = {} /\ executed' = executed
         /\ Harm' \in Nat /\ noise' = noise /\ toTarget # <<>> /\ toTarget' = Tail(toTarget)
         /\ UNCHANGED <<hostNext, hostCmd, tries, status>>
         /\ \E two \in BOOLEAN : Ran(0, two)
         /\ \A i \in DOMAIN toHost' : toHost'[i].type = "event" => toHost'[i].sid # 0
<1>1. IInv /\ Line /\ Turn /\ Once /\ Numbering BY DEF FInv
<1> DEFINE m == Head(toTarget)
<1>2. Take /\ ~m.damaged /\ m.sid = 0 /\ Dispatch(m, 0, 1) BY DEF ReceiveReset
<1>3. m.type = "cmd"
  <2>1. toTarget # <<>> /\ toTarget \in Seq(Frames) BY <1>1, <1>2, Facts DEF Take
  <2>2. m = toTarget[1] /\ 1 \in DOMAIN toTarget /\ m \in Frames BY <2>1, TailIs
  <2>3. m.type # "ack" BY <1>1, <1>2, <2>2 DEF Line
  <2> QED BY <2>2, <2>3 DEF Frames
<1>4. /\ m = toTarget[1] /\ 1 \in Asked /\ Harm' = Harm /\ Harm \in Nat /\ noise' = noise
      /\ toTarget # <<>> /\ toTarget' = Tail(toTarget)
      /\ UNCHANGED <<hostNext, hostCmd, tries, status>>
      /\ \A i \in Asked' : i + 1 \in Asked /\ i + 1 > 1 /\ toTarget'[i] = toTarget[i + 1]
  BY <1>1, <1>2, <1>3, TakesCommand
<1>5. hostNext = 0 /\ Pinging
  <2>1. ~Adrift
    <3>1. Adrift => m.sid = hostNext /\ hostNext >= 3 /\ hostNext \in 0..MaxSeq
      BY <1>1, <1>4, Facts DEF Adrift
    <3> QED BY <1>2, <3>1, Sizes
  <2>2. ~Level BY <1>2, <1>4 DEF Level, FramesLevel
  <2> QED BY <1>1, <2>1, <2>2 DEF Numbering
<1>6. m.cmd = 0 /\ Acked = {} /\ Asked' = {}
  <2>1. m.cmd = 0 /\ Acked = {} BY <1>4, <1>5 DEF Pinging
  <2>2. \A i \in Asked' : i + 1 = 1 BY <1>4, <1>5 DEF Pinging
  <2>3. \A i \in Asked' : i + 1 > 1 BY <1>4
  <2>4. \A i \in Asked' : i \in Nat
    <3>1. toTarget' \in Seq(Frames) BY NextFacts
    <3> QED BY <3>1 DEF Asked
  <2> QED BY <2>1, <2>2, <2>3, <2>4
<1>7. m.cmd \notin Connects /\ m.cmd \notin Cmds
  BY <1>6, Sizes, BoundAssumption DEF Cmds
<1> HIDE DEF m
<1>8. PICK two \in BOOLEAN :
        /\ Ran(0, two)
        /\ \A i \in DOMAIN toHost' : toHost'[i].type = "event" => toHost'[i].sid # 0
        /\ executed' = [c \in Cmds |-> IF c = m.cmd THEN executed[c] + 1 ELSE executed[c]]
  BY <1>1, <1>2, <1>7, Answered
<1>9. executed' = executed
  <2>1. executed \in [Cmds -> Nat] BY <1>1, Facts
  <2>2. \A c \in Cmds : c # m.cmd BY <1>7
  <2> QED BY <1>8, <2>1, <2>2
<1> QED BY <1>4, <1>5, <1>6, <1>8, <1>9

LEMMA ReceiveResetFInv ==
  ASSUME FewDisturbances, FInv, IInv', ReceiveReset
  PROVE  FInv'
<1>1. IInv /\ Line /\ Turn /\ Once BY DEF FInv
<1>2. /\ hostNext = 0 /\ Acked = {} /\ Asked' = {} /\ executed' = executed
      /\ Harm' \in Nat /\ noise' = noise /\ toTarget # <<>> /\ toTarget' = Tail(toTarget)
      /\ UNCHANGED <<hostNext, hostCmd, tries, status>>
      /\ \A i \in DOMAIN toHost' : toHost'[i].type = "event" => toHost'[i].sid # 0
  BY ReceiveResetRuns
<1>3. PICK two \in BOOLEAN : Ran(0, two) BY ReceiveResetRuns
<1>4. Line'
  <2>1. noise' \in Nat /\ noise <= noise' /\ noise' <= MaxNoise BY <1>1, <1>2, Facts DEF Line
  <2> QED BY <1>1, <1>2, <2>1, LineTaken
<1>5. Pinging'
  <2>1. /\ seqId' = (IF two THEN 2 ELSE 1) /\ Inc(lastReply'.sid) = seqId'
        /\ two => lastReply'.err = "OsError"
    BY <1>3, Sizes DEF Ran
  <2>2. Far(1, seqId') = IF two THEN 1 ELSE 0 BY <2>1, Sizes DEF Far
  <2>3. \A i \in Acked' :
          \/ i = Len(toHost) + 1 /\ toHost'[i].sid = 0
          \/ two /\ i = Len(toHost) + 2 /\ toHost'[i].sid = 1 /\ toHost'[i].err = "OsError"
    BY <1>2, <1>3, Sizes DEF Ran
  <2>4. \A i, j \in Acked' : i < j => toHost'[j].sid = 1
    <3>1. Len(toHost) \in Nat
      <4>1. toHost \in Seq(Replies) BY <1>1, Facts
      <4> QED BY <4>1
    <3> QED BY <2>3, <3>1
  <2>5. Far(1, seqId') <= 1 + Harm' /\ Far(1, seqId') <= 1 /\ seqId' # 0
    BY <1>2, <2>1, <2>2
  <2>6. Pinging' <=>
          /\ \A i \in Asked' : toTarget'[i].sid = 0 /\ toTarget'[i].cmd = 0
          /\ \A i, j \in Asked' : i = j
          /\ Acked' # {} =>
               /\ Asked' = {} /\ seqId' # 0 /\ Far(1, seqId') <= 1 + Harm'
               /\ \A i \in Acked' :
                    \/ toHost'[i].sid = 0
                    \/ toHost'[i].sid = 1 /\ toHost'[i].err = "OsError" /\ Far(1, seqId') >= 1
               /\ \A i, j \in Acked' : i < j => toHost'[j].sid = 1
               /\ lastReply'.type = "ACK" =>
                    /\ Inc(lastReply'.sid) = seqId' /\ Far(1, seqId') <= 1
                    /\ Far(1, seqId') = 1 => lastReply'.err = "OsError"
    BY DEF Pinging, Inc, Far
  <2> QED BY <1>2, <2>1, <2>2, <2>3, <2>4, <2>5, <2>6
<1>6. Turn' BY <1>1, <1>2 DEF Turn
<1>7. Once'
  <2>1. hostCmd = 0 /\ 0 \notin Cmds BY <1>1, <1>2, BoundAssumption DEF Turn, Cmds
  <2> QED BY <1>1, <1>2, <2>1 DEF Once
<1> QED BY <1>1, <1>2, <1>4, <1>5, <1>6, <1>7 DEF FInv, Numbering

(* The command under the expected number has run, and answered under that  *)
(* number or the one before it.                                            *)
LEMMA RunLevel ==
  ASSUME FewDisturbances, IInv, IInv', hostNext \in 1..MaxSeq, tries > 0, Harm' \in Nat,
         UNCHANGED <<hostNext, hostCmd, tries>>,
         \A i \in Asked' : toTarget'[i].sid = hostNext /\ toTarget'[i].cmd = hostCmd,
         \A i \in Acked : toHost[i].sid \notin {hostNext, Inc(hostNext)},
         Earned', NEW first \in 1..MaxSeq, NEW two \in BOOLEAN, Ran(first, two),
         first = hostNext \/ Inc(first) = hostNext
  PROVE  Level'
<1> DEFINE h == hostNext
<1>1. /\ h \in 1..MaxSeq /\ Inc(h) \in 1..MaxSeq /\ Inc(first) \in 1..MaxSeq
      /\ Inc(Inc(first)) \in 1..MaxSeq /\ Inc(Inc(h)) \in 1..MaxSeq
      /\ Inc(h) # h /\ Inc(Inc(h)) # h /\ Inc(Inc(h)) # Inc(h)
  <2>1. Inc(h) \in 1..MaxSeq /\ Inc(first) \in 1..MaxSeq BY Ring
  <2> QED BY <2>1, Ring
<1>2. /\ seqId' = (IF two THEN Inc(Inc(first)) ELSE Inc(first)) /\ seqId' # 0
      /\ lastReply'.sid = (IF two THEN Inc(first) ELSE first)
      /\ two => lastReply'.err = "OsError"
  BY <1>1, Sizes DEF Ran
<1>3. Far(h, h) = 0 /\ Far(h, Inc(h)) = 1 /\ Far(h, Inc(Inc(h))) = 2
  <2>1. Far(h, h) = 0 /\ MaxSeq >= 3 /\ MaxSeq \in Nat BY <1>1, Ring
  <2>2. Far(h, Inc(h)) = 1 BY <1>1, <2>1, Ring
  <2>3. Far(h, Inc(Inc(h))) = IF Far(h, Inc(h)) = MaxSeq - 1 THEN 0 ELSE Far(h, Inc(h)) + 1
    BY <1>1, Ring
  <2>4. MaxSeq - 1 # 1 BY <2>1
  <2> QED BY <2>1, <2>2, <2>3, <2>4
<1>4. /\ Lead' = Far(h, seqId') /\ Inc(hostNext') = Inc(h) /\ hostNext' = h
      /\ Inc(lastReply'.sid) = seqId'
  BY <1>2 DEF Lead, Far
<1>5. /\ Lead' = IF first = h THEN IF two THEN 2 ELSE 1 ELSE IF two THEN 1 ELSE 0
      /\ first # h => first # Inc(h)
  <2>1. first # h => Inc(first) = h /\ first # Inc(h) BY Ring
  <2> QED BY <1>2, <1>3, <1>4, <2>1
<1>6. \A i \in Acked' :
        \/ toHost'[i].sid \notin {h, Inc(h)} /\ i <= Len(toHost)
        \/ i = Len(toHost) + 1 /\ toHost'[i].sid = first
        \/ two /\ i = Len(toHost) + 2 /\ toHost'[i].sid = Inc(first) /\ toHost'[i].err = "OsError"
  BY DEF Ran
<1>7. FramesLevel'
  <2>1. FramesLevel' <=>
          /\ \A i \in Asked' :
               LET f == toTarget'[i]
               IN  /\ f.sid # 0
                   /\ \/ f.sid = hostNext' /\ tries' > 0 /\ f.cmd = hostCmd'
                      \/ Inc(f.sid) = hostNext' /\ Far(f.sid, seqId') \in 1..(2 + Harm')
                      \/ Inc(Inc(f.sid)) = hostNext' /\ Far(f.sid, seqId') \in 2..(2 + Harm')
          /\ \A i, j \in Asked' :
               i < j /\ toTarget'[i].sid = hostNext' => toTarget'[j].sid = hostNext'
    BY DEF FramesLevel, Inc, Far
  <2>2. h # 0 BY <1>1, Sizes
  <2> QED BY <2>1, <2>2
<1>8. RepliesLevel'
  <2>1. ASSUME NEW i \in Acked'
        PROVE  LET r == toHost'[i]
               IN  /\ r.sid = h => Lead' >= 1 /\ (r.err = "NoError" => Earned')
                   /\ r.sid = Inc(h) => Lead' >= 2 /\ r.err = "OsError"
    <3>1. CASE first = h BY <1>1, <1>5, <1>6, <3>1
    <3>2. CASE first # h /\ Inc(first) = h BY <1>1, <1>5, <1>6, <3>2
    <3> QED BY <3>1, <3>2
  <2>2. ASSUME NEW i \in Acked', NEW j \in Acked', i < j
        PROVE  /\ toHost'[i].sid = h => toHost'[j].sid \in {h, Inc(h)}
               /\ toHost'[i].sid = Inc(h) => toHost'[j].sid = Inc(h)
    <3>1. i \in Nat /\ j \in Nat /\ Len(toHost) \in Nat
      <4>1. toHost' \in Seq(Replies) /\ toHost \in Seq(Replies) BY NextFacts, Facts
      <4> QED BY <4>1 DEF Acked
    <3>2. CASE i <= Len(toHost) BY <1>6, <3>1, <3>2
    <3>3. CASE i > Len(toHost)
      <4>1. i = Len(toHost) + 1 /\ toHost'[i].sid = first /\ j = Len(toHost) + 2
            /\ toHost'[j].sid = Inc(first)
        BY <1>6, <2>2, <3>1, <3>3
      <4> QED BY <1>1, <1>5, <4>1
    <3> QED BY <3>1, <3>2, <3>3
  <2>3. RepliesLevel' <=>
          /\ \A i \in Acked' :
               LET r == toHost'[i]
               IN  /\ r.sid = hostNext' =>
                        /\ Lead' >= 1 /\ (r.err = "NoError" => Earned')
                        /\ \A j \in Asked' : hostNext' \in {toTarget'[j].sid, Inc(toTarget'[j].sid)}
                   /\ r.sid = Inc(hostNext') =>
                        /\ Lead' >= 2 /\ r.err = "OsError"
                        /\ \A j \in Asked' : toTarget'[j].sid = hostNext'
          /\ \A i, j \in Acked' : i < j =>
               /\ toHost'[i].sid = hostNext' => toHost'[j].sid \in {hostNext', Inc(hostNext')}
               /\ toHost'[i].sid = Inc(hostNext') => toHost'[j].sid = Inc(hostNext')
    BY DEF RepliesLevel, Inc
  <2> QED BY <1>4, <2>1, <2>2, <2>3
<1>9. KeptLevel'
  <2>1. Lead' <= 2 /\ (Lead' = 2 => two) BY <1>5
  <2> QED BY <1>2, <1>4, <2>1 DEF KeptLevel, Inc
<1>10. Lead' <= Harm' + (IF tries' > 0 THEN 2 ELSE 1)
  <2>1. Lead' \in {0, 1, 2} BY <1>5
  <2>2. \A n \in Nat, l \in {0, 1, 2} : l <= n + 2 OBVIOUS
  <2> QED BY <2>1, <2>2
<1> QED BY <1>2, <1>7, <1>8, <1>9, <1>10 DEF Level

(* A reconnect has run, and answered under the first number of all.        *)
LEMMA RunAdrift ==
  ASSUME FewDisturbances, IInv, IInv', hostNext \in 3..MaxSeq, tries > 0, Harm' \in Nat,
         UNCHANGED <<hostNext, hostCmd, tries>>, hostCmd \in Connects,
         \A i \in Asked' : toTarget'[i].sid = hostNext /\ toTarget'[i].cmd = hostCmd,
         \A i \in Acked :
           toHost[i].sid # hostNext /\ (toHost[i].sid = Inc(hostNext) => hostNext = MaxSeq),
         NEW two \in BOOLEAN, Ran(1, two), two => connected'
  PROVE  Adrift'
<1>1. /\ seqId' = (IF two THEN 3 ELSE 2) /\ lastReply'.sid = (IF two THEN 2 ELSE 1)
      /\ Inc(lastReply'.sid) = seqId'
  BY Sizes DEF Ran
<1>2. ~connected' => Far(2, seqId') <= Harm' BY <1>1 DEF Far
<1>3. hostNext # MaxSeq => Inc(hostNext) \notin {1, 2}
  BY Sizes DEF Inc
<1>4. hostNext \notin {1, 2}
  <2>1. MaxSeq \in Nat BY Sizes
  <2> QED BY <2>1
<1>5. \A i \in Acked' :
        toHost'[i].sid # hostNext /\ (toHost'[i].sid = Inc(hostNext) => hostNext = MaxSeq)
  BY <1>3, <1>4, Sizes DEF Ran
<1>6. hostNext >= 3
  <2>1. MaxSeq \in Nat BY Sizes
  <2> QED BY <2>1
<1>7. Inc(hostNext') = Inc(hostNext) OBVIOUS
<1> QED BY <1>1, <1>2, <1>5, <1>6, <1>7 DEF Adrift, Inc, Far

(* The frame that the target executes carries the host's present command   *)
(* under the host's present number, and nothing has been answered yet.     *)
LEMMA Expected ==
  ASSUME FewDisturbances, FInv, IInv', ReceiveExpected
  PROVE  LET m == Head(toTarget)
         IN  /\ m.cmd = hostCmd /\ seqId = hostNext /\ hostNext \in 1..MaxSeq /\ tries > 0
             /\ hostCmd \in Cmds /\ status[hostCmd] = "sent"
             /\ \A i \in Asked' : toTarget'[i].sid = hostNext /\ toTarget'[i].cmd = hostCmd
             /\ \/ Level /\ \A i \in Acked : toHost[i].sid \notin {hostNext, Inc(hostNext)}
                \/ Adrift
             /\ hostCmd \notin Connects => executed[hostCmd] = 0
<1>1. IInv /\ Line /\ Turn /\ Once /\ Numbering BY DEF FInv
<1> DEFINE m == Head(toTarget)
<1>2. Take /\ ~m.damaged /\ m.sid # 0 /\ m.type = "cmd" /\ m.sid = seqId
  BY DEF ReceiveExpected, Numbered
<1>3. /\ m = toTarget[1] /\ 1 \in Asked
      /\ \A i \in Asked' : i + 1 \in Asked /\ i + 1 > 1 /\ toTarget'[i] = toTarget[i + 1]
  BY <1>1, <1>2, TakesCommand
<1>4. hostNext # 0 BY <1>1, <1>2, <1>3 DEF Numbering, Pinging
<1>5. hostNext \in 1..MaxSeq /\ seqId \in 1..MaxSeq /\ Far(seqId, seqId) = 0
  <2>1. hostNext \in 1..MaxSeq /\ seqId \in 1..MaxSeq BY <1>1, <1>2, <1>4, Facts
  <2> QED BY <2>1, Ring
<1>6. /\ m.cmd = hostCmd /\ seqId = hostNext /\ tries > 0
      /\ \A i \in Asked' : toTarget'[i].sid = hostNext /\ toTarget'[i].cmd = hostCmd
  <2>1. CASE Level
    <3>1. m.sid = hostNext /\ tries > 0 /\ m.cmd = hostCmd
      BY <1>2, <1>3, <1>5, <2>1 DEF Level, FramesLevel
    <3>2. ASSUME NEW i \in Asked' PROVE toTarget'[i].sid = hostNext /\ toTarget'[i].cmd = hostCmd
      <4>1. i + 1 \in Asked /\ 1 < i + 1 /\ toTarget'[i] = toTarget[i + 1]
        <5>1. i \in Nat
          <6>1. toTarget' \in Seq(Frames) BY NextFacts
          <6> QED BY <6>1 DEF Asked
        <5> QED BY <1>3, <5>1
      <4>2. toTarget[i + 1].sid = hostNext BY <1>3, <2>1, <3>1, <4>1 DEF Level, FramesLevel
      <4>3. Inc(hostNext) # hostNext /\ Inc(Inc(hostNext)) # hostNext BY <1>5, Ring
      <4> QED BY <2>1, <4>1, <4>2, <4>3 DEF Level, FramesLevel
    <3> QED BY <1>2, <3>1, <3>2
  <2>2. CASE Adrift BY <1>2, <1>3, <2>2 DEF Adrift
  <2> QED BY <1>1, <1>4, <2>1, <2>2 DEF Numbering
<1>7. Level => \A i \in Acked : toHost[i].sid \notin {hostNext, Inc(hostNext)}
  <2>1. Lead = 0 BY <1>5, <1>6 DEF Lead
  <2> QED BY <2>1 DEF Level, RepliesLevel
<1>8. hostCmd \in Cmds /\ status[hostCmd] = "sent"
  <2>1. hostCmd \in 0..MaxCmds /\ hostCmd # 0 BY <1>1, <1>4, <1>6, Facts DEF Turn
  <2>2. hostCmd \in Cmds BY <2>1, BoundAssumption DEF Cmds
  <2> QED BY <1>1, <1>6, <2>1, <2>2 DEF Turn
<1>9. hostCmd \notin Connects => executed[hostCmd] = 0
  <2>1. executed[hostCmd] \in Nat BY <1>1, <1>8, Facts
  <2> QED BY <1>1, <1>6, <1>8, <2>1 DEF Once
<1> QED BY <1>1, <1>4, <1>5, <1>6, <1>7, <1>8, <1>9 DEF Numbering

LEMMA ReceiveExpectedFInv ==
  ASSUME FewDisturbances, FInv, IInv', ReceiveExpected
  PROVE  FInv'
<1>1. IInv /\ Line /\ Turn /\ Once /\ Numbering BY DEF FInv
<1> DEFINE m == Head(toTarget)
           reconnect == hostCmd \in Connects /\ connected
           first == IF reconnect THEN 1 ELSE hostNext
<1>2. /\ Take /\ ~m.damaged /\ m.type = "cmd" /\ Dispatch(m, seqId, outSeqId)
  BY DEF ReceiveExpected, Numbered
<1>3. /\ m.cmd = hostCmd /\ seqId = hostNext /\ hostNext \in 1..MaxSeq /\ tries > 0
      /\ hostCmd \in Cmds /\ status[hostCmd] = "sent"
      /\ \A i \in Asked' : toTarget'[i].sid = hostNext /\ toTarget'[i].cmd = hostCmd
      /\ \/ Level /\ \A i \in Acked : toHost[i].sid \notin {hostNext, Inc(hostNext)}
         \/ Adrift
      /\ hostCmd \notin Connects => executed[hostCmd] = 0
  BY Expected
<1>4. /\ Harm' = Harm /\ Harm \in Nat /\ noise' = noise /\ toTarget # <<>>
      /\ toTarget' = Tail(toTarget) /\ UNCHANGED <<hostNext, hostCmd, tries, status>>
  BY <1>1, <1>2, TakesCommand
<1>5. PICK two \in BOOLEAN :
        /\ Ran(first, two)
        /\ \A i \in DOMAIN toHost' : toHost'[i].type = "event" => toHost'[i].sid # 0
        /\ two /\ hostCmd \in Connects => connected'
        /\ hostCmd \notin Connects => connected' = connected
        /\ executed' = [c \in Cmds |-> IF c = hostCmd THEN executed[c] + 1 ELSE executed[c]]
  BY <1>1, <1>2, <1>3, Answered
<1> HIDE DEF m
<1>6. Line'
  <2>1. noise' \in Nat /\ noise <= noise' /\ noise' <= MaxNoise BY <1>1, <1>4, Facts DEF Line
  <2> QED BY <1>1, <1>4, <1>5, <2>1, LineTaken
<1>7. /\ executed'[hostCmd] = executed[hostCmd] + 1 /\ executed[hostCmd] \in Nat
      /\ \A c \in Cmds : c # hostCmd => executed'[c] = executed[c]
  BY <1>1, <1>3, <1>5, Facts
<1>8. Earned'
  <2>1. executed'[hostCmd] > 0 BY <1>7
  <2> QED BY <1>3, <1>4, <2>1 DEF Earned
<1>9. Level' \/ Adrift'
  <2>1. CASE first = hostNext
    <3>1. \A i \in Acked : toHost[i].sid \notin {hostNext, Inc(hostNext)}
      <4>1. ASSUME Adrift, ~connected
            PROVE  \A i \in Acked : toHost[i].sid \notin {hostNext, Inc(hostNext)}
        <5>1. Far(2, hostNext) <= Harm /\ hostNext >= 3 BY <1>3, <4>1 DEF Adrift
        <5>2. Harm <= MaxNoise
          <6>1. noise <= MaxNoise /\ noise \in Nat /\ Hit \in {0, 1} BY <1>1, Facts DEF Line
          <6> QED BY <6>1, Sizes DEF Harm
        <5>3. Far(2, hostNext) = hostNext - 2 BY <1>3, <5>1, Sizes DEF Far
        <5>4. hostNext # MaxSeq BY <1>3, <1>4, <5>1, <5>2, <5>3, Sizes
        <5> QED BY <4>1, <5>4 DEF Adrift
      <4>2. Adrift => hostCmd \in Connects /\ hostNext >= 3 BY DEF Adrift
      <4>3. Adrift => ~connected
        <5>1. hostNext >= 3 => hostNext # 1 BY <1>3, Sizes
        <5> QED BY <2>1, <4>2, <5>1
      <4> QED BY <1>3, <4>1, <4>3
    <3>2. Level' BY <1>1, <1>3, <1>4, <1>5, <1>8, <2>1, <3>1, RunLevel
    <3> QED BY <3>2
  <2>2. CASE first # hostNext
    <3>1. reconnect /\ first = 1 /\ hostNext # 1 BY <2>2
    <3>2. CASE hostNext = 2
      <4>1. Level /\ \A i \in Acked : toHost[i].sid \notin {hostNext, Inc(hostNext)}
        BY <1>3, <3>2 DEF Adrift
      <4>2. 1 \in 1..MaxSeq /\ Inc(1) = hostNext BY <3>2, Sizes
      <4>3. Ran(1, two) BY <1>5, <3>1
      <4>4. Level' BY <1>1, <1>3, <1>4, <1>8, <4>1, <4>2, <4>3, RunLevel
      <4> QED BY <4>4
    <3>3. CASE hostNext # 2
      <4>1. hostNext \in 3..MaxSeq BY <1>3, <3>1, <3>3, Sizes
      <4>2. \A i \in Acked :
              toHost[i].sid # hostNext /\ (toHost[i].sid = Inc(hostNext) => hostNext = MaxSeq)
        BY <1>3 DEF Adrift
      <4>3. Ran(1, two) /\ (two => connected') /\ hostCmd \in Connects BY <1>5, <3>1
      <4>4. Adrift' BY <1>1, <1>3, <1>4, <4>1, <4>2, <4>3, RunAdrift
      <4> QED BY <4>4
    <3> QED BY <3>2, <3>3
  <2> QED BY <2>1, <2>2
<1>10. Turn' BY <1>1, <1>4 DEF Turn
<1>11. Once'
  <2>1. ASSUME NEW c \in Cmds \ Connects
        PROVE  /\ executed'[c] <= 1
               /\ status'[c] = "unsent" => executed'[c] = 0
               /\ status'[c] = "answered" => executed'[c] = 1
    <3>1. CASE c = hostCmd BY <1>3, <1>4, <1>7, <3>1
    <3>2. CASE c # hostCmd BY <1>1, <1>4, <1>7, <3>2 DEF Once
    <3> QED BY <3>1, <3>2
  <2>2. ASSUME hostCmd \notin Connects PROVE seqId' # hostNext
    <3>1. seqId' \in {Inc(hostNext), Inc(Inc(hostNext))} BY <1>5, <2>2 DEF Ran
    <3> QED BY <1>3, <3>1, Ring
  <2> QED BY <1>4, <2>1, <2>2 DEF Once
<1> QED BY <1>3, <1>4, <1>6, <1>9, <1>10, <1>11, Sizes DEF FInv, Numbering

LEMMA InitFInv == FewDisturbances /\ Init => FInv /\ Kept
<1> SUFFICES ASSUME FewDisturbances, Init PROVE FInv /\ Kept
  OBVIOUS
<1>1. IInv BY InitIInv
<1>2. Line BY Sizes DEF Init, Line, Hit
<1>3. hostCmd = 0 /\ 0 \notin Cmds BY BoundAssumption DEF Init, Cmds
<1>4. Turn BY <1>3 DEF Init, Turn
<1>5. Once BY <1>3 DEF Init, Once
<1>6. Numbering
  <2>1. Asked = {} /\ Acked = {} BY DEF Init, Asked, Acked
  <2> QED BY <2>1 DEF Init, Numbering, Pinging
<1>7. Kept BY DEF Init, Kept, NoReply
<1> QED BY <1>1, <1>2, <1>4, <1>5, <1>6, <1>7 DEF FInv

LEMMA NextFInv == FewDisturbances /\ FInv /\ Kept /\ [Next]_vars => FInv' /\ Kept'
<1> SUFFICES ASSUME FewDisturbances, FInv, Kept, [Next]_vars PROVE FInv'
  BY NextKept
<1>1. IInv' BY NextIInv DEF FInv
<1>2. CASE UNCHANGED vars
  <2>1. UNCHANGED <<seqId, lastReply, connected, executed, hostNext, hostCmd, tries, status,
                    toTarget, toHost, noise>>
    BY <1>2 DEF vars, targetVars, hostVars
  <2>2. IInv /\ Line /\ Turn /\ Once /\ Numbering BY DEF FInv
  <2>3. /\ Hit' = Hit /\ \A i \in Asked' : i + 0 \in Asked /\ toTarget'[i] = toTarget[i + 0]
        /\ \A i \in Acked' : i + 0 \in Acked /\ toHost'[i] = toHost[i + 0]
    BY <1>1, <2>1, <2>2, Shift
  <2>4. Harm' = Harm /\ Harm \in Int
    <3>1. Harm' = noise' - Hit' BY DEF Harm
    <3> QED BY <2>1, <2>2, <2>3, <3>1, Facts DEF Harm
  <2>5. Fewer(0, 0) BY <2>1, <2>3, <2>4 DEF Fewer
  <2>6. Line' BY <2>1, <2>2, <2>3 DEF Line
  <2> QED BY <1>1, <2>1, <2>5, <2>6, FewerFInv
<1>3. CASE Target
  BY <1>1, <1>3, RefusedFInv, ReceiveResetFInv, ReceiveExpectedFInv, ReceiveDuplicateFInv
     DEF Target
<1>4. CASE InformEvent \/ Lose \/ Damage
  BY <1>1, <1>4, InformEventFInv, LoseFInv, DamageFInv
<1>5. CASE HostIssue \/ HostRepeat \/ HostReset \/ HostReceive
  BY <1>1, <1>5, HostIssueFInv, HostRepeatFInv, HostResetFInv, HostReceiveFInv
<1> QED BY <1>2, <1>3, <1>4, <1>5 DEF Next

LEMMA SpecFInv == ASSUME FewDisturbances PROVE Spec => [](FInv /\ Kept)
<1>1. Init => FInv /\ Kept BY InitFInv
<1>2. FInv /\ Kept /\ [Next]_vars => FInv' /\ Kept' BY NextFInv
<1> QED BY <1>1, <1>2, PTL DEF Spec

(* Duplicates are not re-processed: on a line that disturbs fewer frames   *)
(* than would carry the expected id once round, no command but a reconnect *)
(* is executed twice, however early and often the host repeats itself.     *)
THEOREM RunsOnce == ASSUME FewDisturbances PROVE Spec => []AtMostOnce
<1>1. FInv /\ Kept => AtMostOnce BY DEF FInv, Once, AtMostOnce
<1> QED BY <1>1, SpecFInv, PTL

(* What the host takes for an answer is one: the command was executed, and *)
(* no reply to an earlier command, kept or on the line, passes for its own.*)
THEOREM AnsweredMeansExecuted == ASSUME FewDisturbances PROVE Spec => []NoFalseAck
<1>1. FInv /\ Kept => NoFalseAck BY DEF FInv, Once, NoFalseAck
<1> QED BY <1>1, SpecFInv, PTL

-------------------------------------------------------------------------------
(* The refinement: each step is one of TrkCommand, or leaves it unchanged. *)

fates == [c \in Cmds |-> Fate(c)]

LEMMA SameFates ==
  ASSUME \A c \in Cmds \ Connects : status'[c] = status[c] /\ executed'[c] = executed[c]
  PROVE  fates' = fates
<1>1. ASSUME NEW c \in Cmds PROVE Fate(c)' = Fate(c)
  <2>1. CASE c \in Connects BY <2>1 DEF Fate
  <2>2. CASE c \notin Connects
    <3>1. status'[c] = status[c] /\ executed'[c] = executed[c] BY <2>2
    <3> QED BY <3>1 DEF Fate
  <2> QED BY <2>1, <2>2
<1> QED BY <1>1 DEF fates

LEMMA OneMoves ==
  ASSUME NEW c \in Cmds \ Connects, NEW from, NEW to,
         \A d \in Cmds : d # c => status'[d] = status[d] /\ executed'[d] = executed[d],
         Fate(c) \in from, Fate(c)' = to
  PROVE  Command!Move(c, from, to)
<1>1. \A d \in Cmds : d # c => Fate(d)' = Fate(d) BY DEF Fate
<1>2. fates' = [fates EXCEPT ![c] = to] BY <1>1 DEF fates
<1>3. fates[c] \in from BY DEF fates
<1> QED BY <1>2, <1>3 DEF Command!Move, fates

LEMMA InitCommand == Init => Command!Init
<1> SUFFICES ASSUME Init PROVE Command!Init
  OBVIOUS
<1>1. \A c \in Cmds : Fate(c) = "unsent" BY DEF Init, Fate
<1> QED BY <1>1 DEF Command!Init

LEMMA NextCommand ==
  FewDisturbances /\ FInv /\ FInv' /\ [Next]_vars => Command!Next \/ fates' = fates
<1> SUFFICES ASSUME FewDisturbances, FInv, FInv', [Next]_vars
             PROVE  Command!Next \/ fates' = fates
  OBVIOUS
<1>1. IInv /\ IInv' /\ Turn /\ Once BY DEF FInv
<1>2. /\ status \in [Cmds -> {"unsent", "sent", "answered", "failed"}]
      /\ executed \in [Cmds -> Nat] /\ executed' \in [Cmds -> Nat]
  BY <1>1, Facts, NextFacts
<1>3. ASSUME NEW c \in Cmds \ Connects, status[c] = "sent"
      PROVE  Fate(c) = IF executed[c] > 0 THEN "executed" ELSE "sent"
  BY <1>3 DEF Fate
<1>4. CASE status' = status /\ executed' = executed BY <1>4, SameFates
<1>5. CASE ReceiveDamaged \/ ReceiveUnexpected \/ ReceiveAck \/ ReceiveDuplicate
  BY <1>4, <1>5 DEF ReceiveDamaged, ReceiveUnexpected, ReceiveAck, ReceiveDuplicate,
                    Take, targetVars, hostVars
<1>6. CASE InformEvent \/ Lose \/ Damage \/ HostRepeat \/ UNCHANGED vars
  BY <1>4, <1>6 DEF InformEvent, Lose, Damage, HostRepeat, vars, targetVars, hostVars
<1>7. CASE ReceiveReset
  <2>1. status' = status BY <1>7 DEF ReceiveReset, Take, hostVars
  <2>2. hostNext = 0 /\ hostNext' = 0 /\ executed' = executed
    BY <1>7, <1>1, ReceiveResetRuns
  <2> QED BY <1>4, <2>1, <2>2
<1>8. CASE ReceiveExpected
  <2>1. /\ hostCmd \in Cmds /\ status[hostCmd] = "sent" /\ Head(toTarget).cmd = hostCmd
        /\ hostCmd \notin Connects => executed[hostCmd] = 0
    BY <1>1, <1>8, Expected
  <2>2. /\ status' = status
        /\ executed' = [c \in Cmds |-> IF c = hostCmd THEN executed[c] + 1 ELSE executed[c]]
    BY <1>8, <2>1 DEF ReceiveExpected, Dispatch, Take, hostVars
  <2>3. CASE hostCmd \in Connects BY <2>2, <2>3, SameFates
  <2>4. CASE hostCmd \notin Connects
    <3>1. PICK c \in Cmds \ Connects : c = hostCmd BY <2>1, <2>4
    <3>2. executed[c] = 0 /\ executed'[c] = 1 /\ status[c] = "sent" /\ status'[c] = "sent"
      BY <2>1, <2>2, <3>1
    <3>3. Fate(c) = "sent" /\ Fate(c)' = "executed" BY <3>2 DEF Fate
    <3>4. \A d \in Cmds : d # c => status'[d] = status[d] /\ executed'[d] = executed[d]
      BY <2>2, <3>1
    <3>5. Command!Execute(c) BY <3>3, <3>4, OneMoves DEF Command!Execute
    <3> QED BY <3>5 DEF Command!Next
  <2> QED BY <2>3, <2>4
<1>9. CASE HostIssue
  <2>1. PICK c \in Cmds :
          /\ tries = 0 /\ status[c] = "unsent" /\ status' = [status EXCEPT ![c] = "sent"]
          /\ executed' = executed
    BY <1>9 DEF HostIssue, targetVars
  <2>2. CASE c \in Connects BY <1>2, <2>1, <2>2, SameFates
  <2>3. CASE c \notin Connects
    <3>1. executed[c] = 0 /\ status'[c] = "sent" BY <1>1, <1>2, <2>1, <2>3 DEF Once
    <3>2. Fate(c) = "unsent" /\ Fate(c)' = "sent" BY <2>1, <2>3, <3>1 DEF Fate
    <3>3. \A d \in Cmds : d # c => status'[d] = status[d] /\ executed'[d] = executed[d]
      BY <1>2, <2>1
    <3>4. \A d \in Cmds : status[d] # "sent" BY <1>1, <2>1 DEF Turn
    <3>5. \A d \in Cmds : Fate(d) \notin {"sent", "executed"}
      BY <1>2, <3>4 DEF Fate
    <3>6. \A d \in Cmds : ~Command!Open(d) BY <3>5 DEF Command!Open
    <3>7. Command!Issue(c) BY <2>3, <3>2, <3>3, <3>6, OneMoves DEF Command!Issue
    <3> QED BY <3>7 DEF Command!Next
  <2> QED BY <2>2, <2>3
<1>10. CASE HostReset
  <2>1. /\ tries > 0 /\ executed' = executed
        /\ status' = [c \in Cmds |-> IF c = hostCmd THEN "failed" ELSE status[c]]
    BY <1>10 DEF HostReset, targetVars
  <2>2. CASE hostCmd \notin Cmds \ Connects BY <1>2, <2>1, <2>2, SameFates
  <2>3. CASE hostCmd \in Cmds \ Connects
    <3>1. status[hostCmd] = "sent"
      <4>1. hostCmd # 0 BY <2>3, BoundAssumption DEF Cmds
      <4> QED BY <1>1, <2>1, <4>1 DEF Turn
    <3>2. PICK c \in Cmds \ Connects : c = hostCmd BY <2>3
    <3>3. Fate(c) \in {"sent", "executed"} BY <1>3, <3>1, <3>2
    <3>4. status'[c] = "failed" BY <2>1, <3>2
    <3>5. Fate(c)' = "abandoned" BY <3>4 DEF Fate
    <3>6. \A d \in Cmds : d # c => status'[d] = status[d] /\ executed'[d] = executed[d]
      BY <2>1, <3>2
    <3>7. Command!Abandon(c) BY <3>3, <3>5, <3>6, OneMoves DEF Command!Abandon
    <3> QED BY <3>7 DEF Command!Next
  <2> QED BY <2>2, <2>3
<1>11. CASE HostReceive
  <2> DEFINE r == Head(toHost)
  <2>1. executed' = executed BY <1>11 DEF HostReceive, targetVars
  <2>2. CASE ~Settles(r) BY <1>4, <1>11, <2>1, <2>2 DEF HostReceive
  <2>3. CASE Settles(r)
    <3>1. /\ tries > 0
          /\ status' = [c \in Cmds |->
                          IF c # hostCmd THEN status[c]
                          ELSE IF r.err = "NoError" THEN "answered" ELSE "failed"]
      BY <1>11, <2>3 DEF HostReceive, Settles
    <3>2. CASE hostCmd \notin Cmds \ Connects BY <2>1, <3>1, <3>2, SameFates
    <3>3. CASE hostCmd \in Cmds \ Connects
      <4>1. hostCmd # 0 BY <3>3, BoundAssumption DEF Cmds
      <4>2. status[hostCmd] = "sent" /\ hostNext # 0 BY <1>1, <3>1, <4>1 DEF Turn
      <4>3. PICK c \in Cmds \ Connects : c = hostCmd BY <3>3
      <4>4. \A d \in Cmds : d # c => status'[d] = status[d] /\ executed'[d] = executed[d]
        BY <2>1, <3>1, <4>3
      <4>5. Fate(c) = IF executed[c] > 0 THEN "executed" ELSE "sent" BY <1>3, <4>2, <4>3
      <4>6. CASE r.err = "NoError"
        <5>1. executed[c] > 0
          BY <1>1, <1>11, <2>3, <3>3, <4>2, <4>3, <4>6, CommandSettles DEF Earned
        <5>2. status'[c] = "answered" BY <3>1, <4>3, <4>6
        <5>3. Fate(c)' = "answered" BY <5>2 DEF Fate
        <5>4. Command!Answer(c) BY <4>4, <4>5, <5>1, <5>3, OneMoves DEF Command!Answer
        <5> QED BY <5>4 DEF Command!Next
      <4>7. CASE r.err # "NoError"
        <5>1. status'[c] = "failed" BY <3>1, <4>3, <4>7
        <5>2. Fate(c)' = "abandoned" BY <5>1 DEF Fate
        <5>3. Fate(c) \in {"sent", "executed"} BY <4>5
        <5>4. Command!Abandon(c) BY <4>4, <5>2, <5>3, OneMoves DEF Command!Abandon
        <5> QED BY <5>4 DEF Command!Next
      <4> QED BY <4>6, <4>7
    <3> QED BY <3>2, <3>3
  <2> QED BY <2>2, <2>3
<1> QED BY <1>5, <1>6, <1>7, <1>8, <1>9, <1>10, <1>11 DEF Next, Target

(* The exchange implements TrkCommand: one command at a time, executed at  *)
(* most once, "answered" only when executed, and never executed behind the *)
(* back of a host that has given it up.                                    *)
THEOREM Implements == ASSUME FewDisturbances PROVE Spec => CommandSpec
<1>1. Init => Command!Init BY InitCommand
<1>2. FInv /\ FInv' /\ [Next]_vars => [Command!Next]_fates BY NextCommand
<1>3. Spec => []FInv BY SpecFInv, PTL
<1> QED BY <1>1, <1>2, <1>3, PTL DEF Spec, CommandSpec, Command!Spec, fates

===============================================================================
