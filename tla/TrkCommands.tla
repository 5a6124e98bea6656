------------------------------ MODULE TrkCommands ------------------------------
(***************************************************************************)
(* How a command of the host is taken apart, checked and answered          *)
(* (HandleMsg and DispatchMsgL of CTrkDispatchLayer and the beginning and  *)
(* the end of its handlers).  What a command does is the matter of the     *)
(* other modules: here it succeeds or fails.  That the sending of an       *)
(* answer can fail is the matter of TrkFraming.                            *)
(***************************************************************************)
EXTENDS Naturals, Sequences, FiniteSets, SequencesExt

CONSTANT MaxMessages \* bound

VARIABLES
  connected,   \* iIsConnected
  host,        \* iHostVersion: the message that each half comes from
  phone,       \* what is known of the phone: iPhoneVersion, iPhoneModel
  reply,       \* iReplyBuffer: the messages whose data are in it, or NoBuffer
  alive,       \* the agent has not run into a NULL iReplyBuffer
  message,     \* the last message
  answers,     \* what the host has got for it
  done,        \* what it has changed
  limits,      \* what has gone wrong by itself
  count        \* messages and events so far

vars == <<connected, host, phone, reply, alive, message, answers, done, limits, count>>

-------------------------------------------------------------------------------
(* MessageCommandID and the support mask.                                  *)
Code ==
  [ping |-> 0, connect |-> 1, disconnect |-> 2, reset |-> 3, versions |-> 4, supportMask |-> 5,
   cpuType |-> 6, versions2 |-> 8, hostVersions |-> 9, readMemory |-> 16, writeMemory |-> 17,
   readRegisters |-> 18, writeRegisters |-> 19, fillMemory |-> 20, copyMemory |-> 21,
   flushCache |-> 22, continue |-> 24, step |-> 25, stop |-> 26, setBreak |-> 27,
   clearBreak |-> 28, download |-> 29, modifyBreakThread |-> 30, notifyFileInput |-> 32,
   createItem |-> 64, deleteItem |-> 65, readInfo |-> 66, writeInfo |-> 67, writeFile |-> 72,
   readFile |-> 73, openFile |-> 74, closeFile |-> 75, positionFile |-> 76, installFile |-> 77,
   installFile2 |-> 78, phoneSWVersion |-> 79, phoneName |-> 80, versions3 |-> 81,
   replyACK |-> 128, replyNAK |-> 255]

Cmds == DOMAIN Code

(* DS_SUPPORT_MASK: the bytes that are not zero and have to do with what   *)
(* the host sends.                                                         *)
MaskByte ==
  [i \in 0..31 |-> CASE i = 0 -> 126 [] i = 2 -> 79 [] i = 3 -> 95 [] i = 4 -> 1 [] i = 8 -> 15
                     [] i = 9 -> 31 [] i = 16 -> 1 [] i = 31 -> 128 [] OTHER -> 0]

(* Mutant: the bits of a byte in the opposite order.                       *)
AdvertisedFromTop(cmd) == (MaskByte[Code[cmd] \div 8] \div 2^(7 - (Code[cmd] % 8))) % 2 = 1

Advertised(cmd) == (MaskByte[Code[cmd] \div 8] \div 2^(Code[cmd] % 8)) % 2 = 1

-------------------------------------------------------------------------------
(* The checks of each handler, in their order.  GetDataFromBufferL takes   *)
(* bytes from the message and finds it too short.                          *)
Check(what) == [is |-> what, n |-> 0]
Take(n) == [is |-> "take", n |-> n]
Left(n) == [is |-> "left", n |-> n]    \* exactly so many bytes are left

Link == Check("connected")
Option == Check("option")
Rest == Check("rest")                  \* the name or the data has the length it says

DoContinue == <<Link, Take(8)>>
DoStep == <<Link, Take(1), Option, Take(16)>>
DoStop == <<Link, Take(1), Option, Take(8)>>
DoCreateItem == <<Link, Take(2), Option, Take(3), Rest>>
DoDeleteItem == <<Link, Take(2), Option, Take(4)>>
DoReadInfo == <<Link, Take(6), Option, Take(2), Rest>>
DoWriteInfo == <<Take(6), Check("never")>>
DoInstallFile == <<Link, Take(3), Rest>>
DoInstallFile2 == <<Link, Take(2), Rest>>

Unchecked == {"connect", "disconnect", "versions", "versions2", "versions3", "supportMask",
              "cpuType", "phoneSWVersion", "phoneName"}

Checked ==
  {"hostVersions", "readMemory", "writeMemory", "readRegisters", "writeRegisters", "continue",
   "step", "stop", "setBreak", "clearBreak", "modifyBreakThread", "createItem", "deleteItem",
   "readInfo", "writeInfo", "openFile", "readFile", "writeFile", "positionFile", "closeFile",
   "installFile", "installFile2"}

Handled == Unchecked \cup Checked

Checks(cmd) ==
  CASE cmd \in Unchecked -> <<>>
    [] cmd = "hostVersions" -> <<Take(1), Take(1)>>
    [] cmd \in {"readMemory", "writeMemory"} ->
         <<Link, Take(1), Option, Take(2), Check("parameter"), Take(12)>>
    [] cmd \in {"readRegisters", "writeRegisters"} ->
         <<Link, Take(1), Option, Take(4), Check("range"), Take(8)>>
    [] cmd = "continue" -> DoContinue
    [] cmd = "step" -> DoStep
    [] cmd = "stop" -> DoStop
    [] cmd = "setBreak" -> <<Link, Take(22)>>
    [] cmd = "clearBreak" -> <<Link, Take(4)>>
    [] cmd = "modifyBreakThread" -> <<Link, Take(8)>>
    [] cmd = "createItem" -> DoCreateItem
    [] cmd = "deleteItem" -> DoDeleteItem
    [] cmd = "readInfo" -> DoReadInfo
    [] cmd = "writeInfo" -> DoWriteInfo
    [] cmd = "openFile" -> <<Take(3), Rest>>
    [] cmd = "readFile" -> <<Left(6)>>
    [] cmd = "writeFile" -> <<Take(4), Check("parameter"), Take(2), Rest>>
    [] cmd = "positionFile" -> <<Left(9)>>
    [] cmd = "closeFile" -> <<Left(8)>>
    [] cmd = "installFile" -> DoInstallFile
    [] cmd = "installFile2" -> DoInstallFile2

Taken(checks) == FoldSeq(LAMBDA c, sum : sum + c.n, 0, checks)
Bytes(cmd) == Taken(Checks(cmd))

(* The messages: of the right length, without the last byte of it, one     *)
(* byte long or with one too many; and with what may be wrong in them.     *)
Oddities(cmd) ==
  {"none"}
  \cup ({Checks(cmd)[i].is : i \in DOMAIN Checks(cmd)}
        \cap {"option", "parameter", "range", "rest"})
  \cup (IF cmd = "readRegisters" THEN {"empty"} ELSE {})
Lengths(cmd) ==
  IF cmd \in Handled
  THEN LET all == Bytes(cmd) IN {n \in {1, all - 1, all, all + 1} : n >= 0} ELSE {0}
Sound(cmd) == [cmd |-> cmd, bytes |-> 0, odd |-> "none", id |-> count + 1]

(* What a check finds when those before it have passed.                    *)
Error(m, checks, i) ==
  LET c == checks[i]
      left == m.bytes - Taken(SubSeq(checks, 1, i - 1))
  IN  CASE c.is = "connected" -> IF connected THEN "none" ELSE "os"
        [] c.is = "take" -> IF c.n <= left THEN "none" ELSE "size"
        [] c.is = "left" -> IF c.n = left THEN "none" ELSE "size"
        [] c.is = "rest" -> IF m.odd = "rest" THEN "size" ELSE "none"
        [] c.is = "never" -> "option"
        [] OTHER -> IF m.odd = c.is THEN c.is ELSE "none"

(* The first check that finds something leaves.                            *)
Verdict(m) ==
  LET checks == Checks(m.cmd)
      found == {i \in DOMAIN checks : Error(m, checks, i) # "none"}
  IN  IF found = {} THEN "none" ELSE Error(m, checks, Min(found))

-------------------------------------------------------------------------------
(* Answers.  An error of the packet is a NAK, after which the host sends   *)
(* the message again.                                                      *)
NoBuffer == {0}
Ok(data) == [is |-> "ok", error |-> "none", data |-> data]
Err(error) == [is |-> IF error = "size" THEN "nak" ELSE "err", error |-> error, data |-> {}]

Init ==
  /\ connected = FALSE /\ host = <<0, 0>> /\ phone \in {{}, {"version"}}
  /\ reply = NoBuffer /\ alive = TRUE
  /\ message = [cmd |-> "ping", bytes |-> 0, odd |-> "none", id |-> 0] /\ answers = <<Ok({})>>
  /\ done = {} /\ limits = {} /\ count = 0

Because(why, holds) == IF holds THEN {why} ELSE {}
Limit(new) == limits' = limits \cup new

Comes(m) ==
  /\ alive /\ count < MaxMessages /\ count' = count + 1 /\ message' = m

(* Mutant: the answer is sent before the checks.                           *)
AnswersFirst(error) == answers' = <<Ok({}), Err(error)>>

Refuses(error) == answers' = <<Err(error)>>

Simple == {"ping", "hostVersions", "connect", "disconnect", "writeRegisters", "continue", "step",
           "stop", "clearBreak", "modifyBreakThread", "deleteItem"}

(* Mutant: the data are added to what is in the buffer.                    *)
AddedTo == IF reply = NoBuffer THEN {count + 1} ELSE reply \cup {count + 1}

Only == {count + 1}

(* RespondOkL says nothing when there is no buffer.                        *)
Answer(m) ==
  CASE m.cmd \in Simple -> answers' = <<Ok({})>> /\ UNCHANGED <<reply, alive, limits>>
    [] m.cmd = "readRegisters" /\ m.odd = "empty" ->
         /\ answers' = IF reply = NoBuffer THEN <<>> ELSE <<Ok(reply)>>
         /\ Limit({"empty"}) /\ UNCHANGED <<reply, alive>>
    [] m.cmd = "installFile2" ->
         /\ alive' = (reply # NoBuffer)
         /\ reply' = IF alive' THEN reply \cup {count + 1} ELSE reply
         /\ answers' = IF alive' THEN <<Ok(reply')>> ELSE <<>>
         /\ Limit({"appended"})
    [] OTHER -> reply' = Only /\ answers' = <<Ok(Only)>> /\ UNCHANGED <<alive, limits>>

(* A command that changes nothing.                                         *)
Looks == {"versions", "versions2", "versions3", "supportMask", "cpuType", "phoneSWVersion",
          "phoneName", "readMemory", "readRegisters", "readInfo"}

Acts(m) == done' = IF m.cmd \in Looks THEN {} ELSE {m.cmd}

(* Mutant: it is done all the same.                                        *)
DoneAnyway(m) == {m.cmd}

(* What the checks refuse has not been done, but for half a version.       *)
HalfTaken(m) == m.cmd = "hostVersions" /\ m.bytes = 1
DoneInPart(m) == IF HalfTaken(m) THEN {"major"} ELSE {}

Refused(m, error) ==
  /\ error # "none"
  /\ Refuses(error)
  /\ done' = DoneInPart(m)
  /\ host' = IF HalfTaken(m) THEN <<count + 1, host[2]>> ELSE host
  /\ Limit(Because("half", HalfTaken(m)))
  /\ UNCHANGED <<connected, phone, reply, alive>>

(* A connection that was there is gone when a connect fails.               *)
Connects(m, works) ==
  connected' = CASE m.cmd = "connect" -> works
                 [] m.cmd = "disconnect" -> connected /\ ~works
                 [] OTHER -> connected

Disconnects(m) == m.cmd = "disconnect" => connected

(* DoGetPhoneSWVersionL and DoGetPhoneNameL.                               *)
Known(m) ==
  /\ m.cmd = "phoneSWVersion" => "version" \in phone
  /\ m.cmd = "phoneName" => "name" \in phone

(* What the command does works.                                            *)
Succeeds(m) ==
  /\ Disconnects(m) /\ Known(m)
  /\ Acts(m)
  /\ host' = IF m.cmd = "hostVersions" THEN <<count + 1, count + 1>> ELSE host
  /\ Connects(m, TRUE)
  /\ UNCHANGED phone
  /\ \/ Answer(m)
     \/ /\ m.cmd = "stop"           \* the registers cannot be read
        /\ answers' = <<Ok({}), Err("os")>> /\ Limit({"twice"})
        /\ UNCHANGED <<reply, alive>>

(* What the command does fails.                                            *)
CanFail ==
  Handled \ {"versions", "versions2", "versions3", "supportMask", "cpuType", "hostVersions"}

Fails(m) ==
  /\ m.cmd \in CanFail
  /\ m.cmd = "disconnect" => ~Disconnects(m)
  /\ m.cmd \in {"phoneName", "phoneSWVersion"} => ~Known(m)
  /\ Refuses("os") /\ done' \in {{}, {m.cmd}} /\ (m.cmd \in Looks => done' = {})
  /\ Connects(m, FALSE)
  /\ UNCHANGED <<host, phone, reply, alive, limits>>

Command(m) ==
  /\ Comes(m)
  /\ LET error == Verdict(m)
     IN  Refused(m, error) \/ (error = "none" /\ (Succeeds(m) \/ Fails(m)))

(* Ping, the answers of the host, and what DispatchMsgL does not know.     *)
Other(cmd) ==
  /\ Comes(Sound(cmd)) /\ cmd \notin Handled
  /\ answers' = CASE cmd = "ping" -> <<Ok({})>>
                  [] cmd \in {"replyACK", "replyNAK"} -> <<>>
                  [] OTHER -> <<Err("unsupported")>>
  /\ done' = {}
  /\ UNCHANGED <<connected, host, phone, reply, alive, limits>>

(* An event of the kernel driver is sent from the same buffer.             *)
Event ==
  /\ alive /\ connected /\ count < MaxMessages /\ count' = count + 1 /\ reply' = Only
  /\ UNCHANGED <<connected, host, phone, alive, message, answers, done, limits>>

(* UpdatePhoneNameInfo.                                                    *)
PhoneKnown ==
  /\ "name" \notin phone /\ phone' = phone \cup {"name"}
  /\ UNCHANGED <<connected, host, reply, alive, message, answers, done, limits, count>>

(* Bound: a behaviour is followed until the first limit.                   *)
Goes == limits = {}

Steps ==
  \/ \E cmd \in Handled : \E odd \in Oddities(cmd), n \in Lengths(cmd) :
       Command([cmd |-> cmd, bytes |-> n, odd |-> odd, id |-> count + 1])
  \/ \E cmd \in Cmds \ Handled : Other(cmd)
  \/ Event \/ PhoneKnown

Next == Goes /\ Steps

-------------------------------------------------------------------------------
(* Every message but an answer of the host is answered once, unless a      *)
(* stopped thread's registers cannot be read, or no register is asked for  *)
(* and nothing has ever been answered.                                     *)
AnsweredOnce ==
  Goes /\ message.cmd \notin {"replyACK", "replyNAK"} => Len(answers) = 1

(* An answer has no data but those of its own message, unless it tells the *)
(* end of DoInstallFile2L or no register was asked for.                    *)
OwnData ==
  Goes => \A i \in DOMAIN answers : answers[i].data \subseteq {message.id}

(* The host sends a message again that it gets a NAK for: nothing has been *)
(* done, but for half a version.                                           *)
HarmlessNak ==
  Goes => \A i \in DOMAIN answers : answers[i].is = "nak" => done = {}

(* What the support mask says is carried out, but for reset, flush cache   *)
(* and notify file input.                                                  *)
MaskTrue ==
  \A i \in DOMAIN answers :
    answers[i].error = "unsupported" /\ Advertised(message.cmd) =>
      message.cmd \in {"reset", "flushCache", "notifyFileInput"}
===============================================================================
