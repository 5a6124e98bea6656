---------------------------- MODULE FtpServerProofs ----------------------------
(* Proofs about FtpServer, for any addresses, file, restart points and     *)
(* bounds.  There are three invariants, one for each promise: what a RNFR  *)
(* and a REST leave behind needs a login, so that no refused line can come *)
(* between; the flags of the data connection follow from what has been     *)
(* agreed; and a transfer accounts at every unit for what has gone.        *)
EXTENDS FtpServer, SequenceTheorems, TLAPS

Units == STRING \cup {"0", "u"}   \* which is STRING: no prover here knows that "0" is one
Stages == {"connect", "move"}
Peers == Ports \cup {None, "pasv", "peer"}
Paths == Dirs \X Bases
Jobs ==
  {NoJob}
    \cup [kind : {"retr"}, way : {"text", "mapped", "blocks"}, stage : Stages, peer : Peers,
          lost : BOOLEAN, todo : Seq(Units)]
    \cup [kind : {"store"}, stage : Stages, peer : Peers, path : Paths, at : Nat]
    \cup [kind : {"list"}, stage : Stages, peer : Peers]

Shape ==
  /\ restart \in Nat /\ cwd \in Dirs /\ dest \in Peers
  /\ fs \in [DOMAIN fs -> Seq(Units)] /\ DOMAIN fs \subseteq Paths
  /\ job \in Jobs /\ got \in Seq(Units) /\ want.text \in Seq(Units)

(* What RNFR and REST name is there for the next line of one logged in.    *)
Remembered == NextOnly /\ (~logged => fromname = None /\ restart = 0)

(* The flags are what has been agreed; a connection made uses it up.       *)
Agreement ==
  spoilt \cap {"stray", "again", "forgotten"} = {} =>
    /\ agreed \in Ports \cup {"default", "pasv"}
    /\ Moving => /\ ~passive /\ job.peer = IF agreed = "default" THEN "peer" ELSE agreed
                 /\ agreed # "pasv" => usedefault
    /\ ~Moving => /\ passive <=> agreed = "pasv"
                  /\ agreed = "default" => usedefault
                  /\ agreed \in Ports => ~usedefault /\ dest = agreed

(* What has gone and what is still to go make up what is wanted.           *)
Accounted ==
  spoilt \cap {"silent", "newlines", "holed"} = {} =>
    /\ job.kind = "retr" /\ ~job.lost => want.text = got \o job.todo
    /\ job.kind = "store" =>
         /\ want.path = job.path /\ job.path \in DOMAIN fs
         /\ fs[job.path] = want.text \o got /\ job.at = Len(fs[job.path])
    /\ job.kind = "list" => want.path = None

IInv == Shape /\ Remembered /\ Agreement /\ Accounted /\ Truthful

LEMMA Wider ==
  ASSUME NEW S, NEW T, S \subseteq T, NEW text \in Seq(S)
  PROVE  text \in Seq(T)
OBVIOUS

LEMMA Constants ==
  /\ Ports \cap {"default", "pasv", "peer"} = {}
  /\ Offsets \subseteq Nat \ {0} /\ Original \in Seq(Units) /\ "0" \in Units /\ "u" \in Units
<1>1. Original \in Seq(Units)
  <2>1. STRING \subseteq Units /\ Original \in Seq(STRING) BY FtpAssumption DEF Units
  <2> QED BY <2>1, Wider
<1>2. "0" \in Units /\ "u" \in Units BY DEF Units
<1> QED BY <1>1, <1>2, FtpAssumption

(* Of sequences of any units. *)
LEMMA MoveOne ==
  ASSUME NEW S, NEW sent \in Seq(S), NEW todo \in Seq(S), todo # <<>>
  PROVE  /\ Append(sent, Head(todo)) \in Seq(S) /\ Tail(todo) \in Seq(S)
         /\ Append(sent, Head(todo)) \o Tail(todo) = sent \o todo
OBVIOUS

LEMMA AppendBehind ==
  ASSUME NEW S, NEW old \in Seq(S), NEW sent \in Seq(S), NEW unit \in S
  PROVE  /\ Append(old \o sent, unit) = old \o Append(sent, unit)
         /\ Len(Append(old \o sent, unit)) = Len(old \o sent) + 1
OBVIOUS

(* Every unit of a file written at a place beyond its end is a unit.       *)
LEMMA WrittenType ==
  ASSUME NEW S, "0" \in S, NEW text \in Seq(S), NEW at \in Nat, NEW unit \in S
  PROVE  Written(text, at + 1, unit) \in Seq(S)
<1> DEFINE n == Longest(Len(text), at + 1)
           w == Written(text, at + 1, unit)
<1>1. n \in Nat /\ n >= Len(text) BY DEF Longest
<1>2. w = [i \in 1..n |-> IF i = at + 1 THEN unit ELSE IF i <= Len(text) THEN text[i] ELSE "0"]
  BY DEF Written
<1>3. \A i \in 1..n : w[i] \in S
  <2> HIDE DEF n, w
  <2> QED BY <1>1, <1>2
<1>4. w \in [1..n -> S]
  <2> HIDE DEF w
  <2> QED BY <1>2, <1>3
<1> QED
  <2> HIDE DEF w, n
  <2>1. w \in Seq(S) BY <1>1, <1>4, SeqDef
  <2> QED BY <2>1 DEF w

LEMMA WrittenAtEnd ==
  ASSUME NEW S, "0" \in S, NEW text \in Seq(S), NEW unit \in S
  PROVE  Written(text, Len(text) + 1, unit) = Append(text, unit)
<1> DEFINE w == Written(text, Len(text) + 1, unit)
           v == Append(text, unit)
<1>1. Longest(Len(text), Len(text) + 1) = Len(text) + 1 BY DEF Longest
<1>2. w \in Seq(S) BY WrittenType
<1>3. w = [i \in 1..(Len(text) + 1) |->
             IF i = Len(text) + 1 THEN unit ELSE IF i <= Len(text) THEN text[i] ELSE "0"]
  BY <1>1 DEF Written
<1>4. v \in Seq(S) /\ Len(v) = Len(text) + 1
      /\ \A i \in 1..Len(v) : v[i] = IF i = Len(text) + 1 THEN unit ELSE text[i]
  OBVIOUS
<1>5. Len(w) = Len(text) + 1
  <2> HIDE DEF w
  <2>1. DOMAIN w = 1..(Len(text) + 1) BY <1>3
  <2> QED BY <1>2, <2>1
<1>6. ASSUME NEW i \in 1..Len(w) PROVE w[i] = v[i]
  <2> HIDE DEF w, v
  <2> QED BY <1>3, <1>4, <1>5
<1> HIDE DEF w, v
<1>7. w = v BY <1>2, <1>4, <1>5, <1>6, SeqEqual
<1> QED BY <1>7 DEF w, v

(***************************************************************************)
(* Transfers and files have their shape                                    *)
(***************************************************************************)
LEMMA Whither == ASSUME Shape, NEW name \in Names PROVE Where(name) \in Paths
BY DEF Shape, Names, Where, Paths, Dirs, Bases, Here

LEMMA Kinds ==
  ASSUME NEW j \in Jobs, j # NoJob
  PROVE  /\ j.kind \in {"retr", "store", "list"} /\ j.stage \in Stages /\ j.peer \in Peers
         /\ j.kind = "retr" => j.lost \in BOOLEAN /\ j.todo \in Seq(Units)
         /\ j.kind = "store" => j.path \in Paths /\ j.at \in Nat
BY DEF Jobs, NoJob

LEMMA Connected ==
  ASSUME NEW j \in Jobs, j # NoJob, NEW to \in Peers
  PROVE  LET k == [j EXCEPT !.stage = "move", !.peer = to] IN
         /\ k \in Jobs /\ k # NoJob /\ k.kind = j.kind /\ k.stage = "move" /\ k.peer = to
         /\ j.kind = "retr" => k.lost = j.lost /\ k.todo = j.todo
         /\ j.kind = "store" => k.path = j.path /\ k.at = j.at
BY DEF Jobs, NoJob, Stages

LEMMA OneSent ==
  ASSUME NEW j \in Jobs, j # NoJob, j.kind = "retr", j.todo # <<>>, NEW k,
         k = [j EXCEPT !.todo = Tail(@)] \/ k = [j EXCEPT !.todo = Tail(@), !.lost = TRUE]
  PROVE  /\ k \in Jobs /\ k # NoJob /\ k.kind = "retr" /\ k.stage = j.stage
         /\ k.peer = j.peer /\ k.todo = Tail(j.todo)
         /\ k = [j EXCEPT !.todo = Tail(@)] => k.lost = j.lost
         /\ k = [j EXCEPT !.todo = Tail(@), !.lost = TRUE] => k.lost = TRUE
<1>1. j.todo \in Seq(Units) BY Kinds
<1>2. Tail(j.todo) \in Seq(Units) BY <1>1, MoveOne
<1> QED BY <1>2 DEF Jobs, NoJob

LEMMA OneReceived ==
  ASSUME NEW j \in Jobs, j # NoJob, j.kind = "store"
  PROVE  LET k == [j EXCEPT !.at = @ + 1] IN
         /\ k \in Jobs /\ k # NoJob /\ k.kind = "store" /\ k.stage = j.stage
         /\ k.peer = j.peer /\ k.path = j.path /\ k.at = j.at + 1
BY DEF Jobs, NoJob

(***************************************************************************)
(* RNFR and REST                                                           *)
(***************************************************************************)
LEMMA ForgetOrKeep ==
  ASSUME Remembered,
         \/ \E name : Reduced(name)
         \/ UNCHANGED <<fromname, restart, last>> /\ (logged' = logged)
  PROVE  Remembered'
BY DEF Remembered, NextOnly, Reduced

LEMMA RememberedStep == ASSUME Remembered, [Next]_vars PROVE Remembered'
<1> USE ForgetOrKeep
<1>1. CASE BadLine BY <1>1 DEF BadLine, GivenUp, session
<1>2. CASE Refused("refused") \/ User \/ Pass \/ Quit \/ Setting
  BY <1>2 DEF Refused, User, Pass, Quit, Setting
<1>3. CASE Pwd \/ Stat \/ Size \/ Site \/ Help BY <1>3 DEF Pwd, Stat, Size, Site, Help, Answers
<1>4. ASSUME NEW address \in Ports, Port(address) \/ PortLost(address) PROVE Remembered'
  BY <1>4 DEF Port, PortLost, GivenUp, session
<1>5. CASE PortOutOfRange \/ Pasv \/ Mkd \/ Rmd BY <1>5 DEF PortOutOfRange, Pasv, Mkd, Rmd
<1>6. ASSUME NEW target, Cwd(target) PROVE Remembered' BY <1>6 DEF Cwd
<1>7. ASSUME NEW name \in Names, Dele(name) \/ Rnto(name) PROVE Remembered'
  BY <1>7 DEF Dele, Rnto
<1>8. ASSUME NEW name \in Names, Rnfr(name) PROVE Remembered'
  BY <1>8 DEF Rnfr, Remembered, NextOnly, session
<1>9. ASSUME NEW n \in Offsets, Rest(n) PROVE Remembered'
  BY <1>9 DEF Rest, Remembered, NextOnly, session
<1>10. ASSUME NEW name \in Names, Retr(name) \/ Stou(name) \/ ListFile(name)
                                  \/ \E mode \in {"w", "a"} : Store(name, mode)
       PROVE  Remembered'
  BY <1>10 DEF Retr, Stou, ListFile, Store, StoreIn, Ends, Goes, session
<1>11. ASSUME NEW target, List(target) PROVE Remembered'
  BY <1>11 DEF List, NothingToList, Ends, Goes, session
<1>12. CASE Accept \/ Connect BY <1>12 DEF Accept, Connect, Closes, session
<1>13. CASE Cut BY <1>13 DEF Cut, session
<1>14. CASE Send \/ Receive \/ SendList
  BY <1>14 DEF Send, Receive, SendList, SendEnds, Moves, GoesOn, Stops, Closes, session
<1>15. CASE UNCHANGED vars BY <1>15 DEF vars, session
<1> QED
  BY <1>1, <1>2, <1>3, <1>4, <1>5, <1>6, <1>7, <1>8, <1>9, <1>10, <1>11, <1>12, <1>13, <1>14, <1>15
  DEF Next, Transfers

(***************************************************************************)
(* The other promises, for one kind of step after the other.  First, what  *)
(* most lines have in common: no transfer, and nothing of it changes.      *)
(***************************************************************************)
Quiet ==
  /\ job = NoJob /\ job' = NoJob /\ got' = <<>> /\ want' = NoWant
  /\ agreed' = agreed /\ spoilt' = spoilt
  /\ passive' = passive /\ usedefault' = usedefault /\ dest' = dest

LEMMA QuietLine ==
  ASSUME IInv, Quiet, OneAnswer'
  PROVE  Agreement' /\ Accounted' /\ Truthful'
BY DEF IInv, Quiet, OneAnswer, Agreement, Accounted, Truthful, Moving, NoJob, NoWant

(* What is answered to a refused line, with and without check_login.       *)
Refusing == {<<500>>, <<502>>, Twice, Checked(<<500>>), Checked(Twice)}

LEMMA OnlyRefusals ==
  ASSUME NEW answers \in Refusing, said' = answers, logged' = logged
  PROVE  OneAnswer'
<1> USE DEF Refusing
<1>1. \A one \in {<<500>>, <<502>>, Twice} : one[1] # 530 BY DEF Twice
<1>2. CASE answers \in {<<500>>, <<502>>, Twice}
  <2>1. answers \in Refusals /\ answers[1] # 530 BY <1>1, <1>2 DEF Refusals
  <2> QED BY <2>1 DEF OneAnswer
<1>3. CASE answers \in {Checked(<<500>>), Checked(Twice)} /\ logged
  <2>1. answers \in {<<500>>, Twice} BY <1>3 DEF Checked
  <2> QED BY <1>2, <2>1
<1>4. CASE answers \in {Checked(<<500>>), Checked(Twice)} /\ ~logged
  <2>1. answers \in {<<530>> \o <<500>>, <<530>> \o Twice} BY <1>4 DEF Checked
  <2>2. answers \in Refusals BY <2>1 DEF Refusals
  <2> QED BY <1>4, <2>2 DEF OneAnswer
<1> QED BY <1>2, <1>3, <1>4

LEMMA PlainLines ==
  ASSUME IInv,
         \/ BadLine \/ Refused("refused") \/ User \/ Pass \/ Quit \/ Setting
         \/ Pwd \/ Stat \/ Size \/ Site \/ Help \/ Mkd \/ Rmd
         \/ \E target \in Dirs \cup {"..", ".", "/"} : Cwd(target)
         \/ \E name \in Names : Dele(name) \/ Rnfr(name) \/ Rnto(name)
         \/ \E n \in Offsets : Rest(n)
  PROVE  Quiet /\ OneAnswer'
<1>1. CASE BadLine
  <2>1. Quiet BY <1>1 DEF BadLine, Quiet, Line, Begins, data
  <2>2. logged' = logged BY <1>1 DEF BadLine, session
  <2>3. PICK answers \in Refusing : said' = answers BY <1>1 DEF BadLine, GivenUp, Refusing
  <2> QED BY <2>1, <2>2, <2>3, OnlyRefusals
<1>2. CASE Refused("refused") \/ User \/ Pass \/ Quit \/ Setting
  BY <1>2 DEF Refused, User, Pass, Quit, Setting, Quiet, OneAnswer, Line, Begins, data
<1>3. CASE Pwd \/ Stat \/ Size \/ Site \/ Help
  BY <1>3 DEF Pwd, Stat, Size, Site, Help, Answers, Quiet, OneAnswer, Line, Begins, data
<1>4. CASE Mkd \/ Rmd BY <1>4 DEF Mkd, Rmd, Quiet, OneAnswer, Line, Begins, data
<1>5. ASSUME NEW target, Cwd(target) PROVE Quiet /\ OneAnswer'
  BY <1>5 DEF Cwd, Quiet, OneAnswer, Line, Begins, data
<1>6. ASSUME NEW name \in Names, Dele(name) \/ Rnfr(name) \/ Rnto(name)
      PROVE  Quiet /\ OneAnswer'
  BY <1>6 DEF Dele, Rnfr, Rnto, Quiet, OneAnswer, Line, Begins, data
<1>7. ASSUME NEW n \in Offsets, Rest(n) PROVE Quiet /\ OneAnswer'
  BY <1>7 DEF Rest, Quiet, OneAnswer, Line, Begins, data
<1> QED BY <1>1, <1>2, <1>3, <1>4, <1>5, <1>6, <1>7

(***************************************************************************)
(* PORT and PASV                                                           *)
(***************************************************************************)
Addressed ==
  /\ job = NoJob /\ job' = NoJob /\ got' = <<>> /\ want' = NoWant
  /\ OneAnswer' /\ spoilt \subseteq spoilt'

LEMMA AddressedLine ==
  ASSUME IInv, Addressed
  PROVE  Accounted' /\ Truthful'
BY DEF IInv, Addressed, OneAnswer, Accounted, Truthful, NoJob, NoWant

LEMMA Addresses ==
  ASSUME IInv,
         \/ \E address \in Ports : Port(address) \/ PortLost(address)
         \/ PortOutOfRange \/ Pasv
  PROVE  Addressed /\ Agreement'
<1> USE Constants DEF Line, Begins, Addressed, OneAnswer
<1>0. Agreement BY DEF IInv
<1>1. ASSUME NEW address \in Ports, Port(address) PROVE Addressed /\ Agreement'
  BY <1>0, <1>1 DEF Port, Agreement, Moving, NoJob
<1>2. ASSUME NEW address \in Ports, PortLost(address) PROVE Addressed /\ Agreement'
  <2>1. OneAnswer'
    <3>1. \/ said' = <<530>>
          \/ said' \in {Checked(<<500>>), Checked(Twice)} /\ logged' = logged
      BY <1>2 DEF PortLost, GivenUp, session
    <3>2. CASE said' = <<530>> BY <3>2
    <3>3. CASE said' \in {Checked(<<500>>), Checked(Twice)} /\ logged' = logged
      BY <3>3, OnlyRefusals DEF Refusing
    <3> QED BY <3>1, <3>2, <3>3
  <2>2. job = NoJob /\ job' = NoJob /\ got' = <<>> /\ want' = NoWant BY <1>2 DEF PortLost
  <2>3. spoilt \subseteq spoilt' BY <1>2 DEF PortLost
  <2>4. Agreement' BY <1>0, <1>2 DEF PortLost, Agreement, Moving, NoJob
  <2> HIDE DEF OneAnswer
  <2> QED BY <2>1, <2>2, <2>3, <2>4
<1>3. CASE PortOutOfRange BY <1>0, <1>3 DEF PortOutOfRange, Agreement, Moving, NoJob
<1>4. CASE Pasv BY SMTT(30), <1>0, <1>4 DEF Pasv, Agreement, Moving, NoJob, Superseded
<1> QED BY <1>1, <1>2, <1>3, <1>4

(***************************************************************************)
(* A transfer begins                                                       *)
(***************************************************************************)
Promises == Agreement /\ Accounted /\ Truthful

\* It is over before it has asked for a connection
Over ==
  /\ job = NoJob /\ job' = NoJob /\ want' = NoWant /\ OneAnswer'
  /\ UNCHANGED <<passive, usedefault, dest, agreed>> /\ spoilt \subseteq spoilt'

LEMMA OverAtOnce == ASSUME IInv, Over PROVE Promises'
BY DEF IInv, Over, OneAnswer, Promises, Agreement, Accounted, Truthful, Moving, NoJob, NoWant

Started ==
  /\ job = NoJob /\ job' # NoJob /\ job'.stage = "connect" /\ said' = <<>>
  /\ UNCHANGED <<passive, usedefault, dest, agreed>> /\ spoilt \subseteq spoilt'

LEMMA StartedWell == ASSUME IInv, Started, Accounted' PROVE Promises'
BY DEF IInv, Started, Promises, Agreement, Truthful, Moving

LEMMA Nothing == ASSUME NEW S, NEW text \in Seq(S) PROVE text \o <<>> = text /\ <<>> \o text = text
OBVIOUS

LEMMA Parts ==
  ASSUME NEW S, NEW text \in Seq(S), NEW n \in Nat
  PROVE  SubSeq(text, n + 1, Len(text)) \in Seq(S)
OBVIOUS

LEMMA Places == ASSUME Shape, NEW text \in Seq(Units) PROVE Position(text) \subseteq Nat
BY DEF Shape, Position, TextPositions

LEMMA RetrStep ==
  ASSUME IInv, NEW name \in Names, Retr(name)
  PROVE  Promises' /\ job' \in Jobs /\ want'.text \in Seq(Units)
<1> DEFINE path == Where(name)
<1>1. CASE Ends("retr", 550) /\ want' = NoWant /\ UNCHANGED spoilt
  <2>1. Over BY <1>1 DEF Retr, Begins, Ends, Over, OneAnswer, data
  <2>2. job' \in Jobs /\ want'.text \in Seq(Units) BY <1>1, <2>1 DEF Over, Jobs, NoWant
  <2> QED BY <2>1, <2>2, OverAtOnce
<1>2. CASE Exists(path) /\ ~(Ends("retr", 550) /\ want' = NoWant /\ UNCHANGED spoilt)
  <2>1. PICK at \in Position(fs[path]), way \in WaysToSend :
          /\ Goes([kind |-> "retr", way |-> way, stage |-> "connect", peer |-> None,
                   lost |-> FALSE, todo |-> SubSeq(fs[path], at + 1, Len(fs[path]))])
          /\ spoilt' = IF at = restart THEN spoilt ELSE spoilt \cup {"newlines"}
    BY <1>2 DEF Retr
  <2>2. want' = [path |-> path, text |-> SubSeq(fs[path], restart + 1, Len(fs[path]))]
    BY <1>2 DEF Retr
  <2> DEFINE all == fs[path]
             todo == SubSeq(all, at + 1, Len(all))
  <2>3. all \in Seq(Units) BY <1>2 DEF IInv, Shape, Exists
  <2>4. at \in Nat /\ restart \in Nat BY <2>3, Places DEF IInv, Shape
  <2>5. todo \in Seq(Units) /\ want'.text \in Seq(Units) BY <2>2, <2>3, <2>4, Parts
  <2>6. way \in {"text", "mapped", "blocks"} BY DEF WaysToSend
  <2>7. job' = [kind |-> "retr", way |-> way, stage |-> "connect", peer |-> None,
                lost |-> FALSE, todo |-> todo]
    BY <2>1 DEF Goes
  <2>8. job' \in Jobs
    <3> HIDE DEF todo
    <3> QED BY <2>5, <2>6, <2>7 DEF Jobs, Stages, Peers
  <2>9. Started
    <3>1. job = NoJob BY DEF Retr, Begins
    <3>2. said' = <<>> /\ UNCHANGED <<passive, usedefault, dest, agreed>>
      BY <2>1 DEF Goes, data
    <3>3. spoilt \subseteq spoilt' BY <2>1
    <3>4. job' # NoJob /\ job'.stage = "connect" BY <2>7 DEF NoJob
    <3> QED BY <3>1, <3>2, <3>3, <3>4 DEF Started
  <2>10. Accounted'
    <3>1. CASE at = restart
      <4>1. want'.text = todo /\ got' = <<>> BY <2>2, <3>1 DEF Retr, Begins
      <4>2. <<>> \o todo = todo
        <5> HIDE DEF todo
        <5> QED BY <2>5, Nothing
      <4>3. job'.kind = "retr" /\ job'.todo = todo BY <2>7
      <4> HIDE DEF todo
      <4> QED BY <4>1, <4>2, <4>3 DEF Accounted
    <3>2. CASE at # restart
      <4>1. "newlines" \in spoilt' BY <2>1, <3>2
      <4> QED BY <4>1 DEF Accounted
    <3> QED BY <3>1, <3>2
  <2> QED BY <2>5, <2>8, <2>9, <2>10, StartedWell
<1> QED BY <1>1, <1>2 DEF Retr

LEMMA Contents ==
  ASSUME fs \in [DOMAIN fs -> Seq(Units)], DOMAIN fs \subseteq Paths, NEW path \in Paths,
         NEW text \in Seq(Units)
  PROVE  /\ With(path, text) \in [DOMAIN With(path, text) -> Seq(Units)]
         /\ DOMAIN With(path, text) \subseteq Paths
         /\ path \in DOMAIN With(path, text) /\ With(path, text)[path] = text
BY DEF With

Files == fs' \in [DOMAIN fs' -> Seq(Units)] /\ DOMAIN fs' \subseteq Paths

LEMMA StoreInStep ==
  ASSUME IInv, NEW path \in Paths, NEW mode \in {"w", "a"}, Begins, StoreIn(path, mode)
  PROVE  Promises' /\ job' \in Jobs /\ want'.text \in Seq(Units) /\ Files
<1> DEFINE text == Opened(path, mode)
           at == IF mode = "a" THEN Len(text) ELSE restart
<1>0. job = NoJob /\ got' = <<>> BY DEF Begins
<1>1. text \in Seq(Units)
  <2>1. <<>> \in Seq(Units) OBVIOUS
  <2>2. Exists(path) => fs[path] \in Seq(Units) BY DEF IInv, Shape, Exists
  <2> QED BY <2>1, <2>2 DEF Opened
<1>2. fs' = With(path, text) BY DEF StoreIn
<1>3. Files /\ path \in DOMAIN fs' /\ fs'[path] = text
  <2> HIDE DEF text
  <2> QED BY <1>1, <1>2, Contents DEF IInv, Shape, Files
<1>4. CASE type = "A" /\ restart > 0
  <2>1. Ends("store", 550) /\ want' = NoWant /\ UNCHANGED spoilt BY <1>4 DEF StoreIn
  <2>2. Over BY <1>0, <2>1 DEF Ends, Over, OneAnswer, data
  <2>3. job' \in Jobs /\ want'.text \in Seq(Units) BY <2>1, <2>2 DEF Over, Jobs, NoWant
  <2> QED BY <1>3, <2>2, <2>3, OverAtOnce
<1>5. CASE ~(type = "A" /\ restart > 0)
  <2>1. /\ Goes([kind |-> "store", stage |-> "connect", peer |-> None, path |-> path,
                 at |-> IF mode = "a" THEN Len(text) ELSE restart])
        /\ want' = [path |-> path, text |-> text]
        /\ spoilt' = IF restart > 0 THEN spoilt \cup {"holed"} ELSE spoilt
    BY <1>5 DEF StoreIn
  <2>2. at \in Nat BY <1>1 DEF IInv, Shape
  <2>3. job' = [kind |-> "store", stage |-> "connect", peer |-> None, path |-> path, at |-> at]
    BY <2>1 DEF Goes
  <2> HIDE DEF text, at
  <2>4. job' \in Jobs BY <2>2, <2>3 DEF Jobs, Stages, Peers
  <2>5. Started
    <3>1. said' = <<>> /\ UNCHANGED <<passive, usedefault, dest, agreed>>
      BY <2>1 DEF Goes, data
    <3>2. spoilt \subseteq spoilt' BY <2>1
    <3>3. job' # NoJob /\ job'.stage = "connect" BY <2>3 DEF NoJob
    <3> QED BY <1>0, <3>1, <3>2, <3>3 DEF Started
  <2>6. Accounted'
    <3>1. CASE restart > 0
      <4>1. "holed" \in spoilt' BY <2>1, <3>1
      <4> QED BY <4>1 DEF Accounted
    <3>2. CASE ~(restart > 0)
      <4>1. restart = 0 BY <3>2 DEF IInv, Shape
      <4>2. at = Len(text)
        <5>1. CASE mode = "a" BY <5>1 DEF at
        <5>2. CASE mode = "w" BY <4>1, <5>2 DEF at, text, Opened
        <5> QED BY <5>1, <5>2
      <4>3. text \o <<>> = text BY <1>1, Nothing
      <4>4. job'.kind = "store" /\ job'.path = path /\ job'.at = at BY <2>3
      <4>5. want'.path = path /\ want'.text = text BY <2>1
      <4> QED BY <1>0, <1>3, <4>2, <4>3, <4>4, <4>5 DEF Accounted
    <3> QED BY <3>1, <3>2
  <2>7. want'.text \in Seq(Units) BY <1>1, <2>1
  <2> QED BY <1>3, <2>4, <2>5, <2>6, <2>7, StartedWell
<1> QED BY <1>4, <1>5

LEMMA OverBeforeStore ==
  ASSUME IInv, Begins, want' = NoWant, UNCHANGED <<fs, job, passive, usedefault, dest, agreed>>,
         OneAnswer' \/ ("silent" \in spoilt' /\ said' = <<>>), spoilt \subseteq spoilt'
  PROVE  Promises' /\ job' \in Jobs /\ want'.text \in Seq(Units) /\ Files
<1>1. job = NoJob /\ job' = NoJob BY DEF Begins
<1>2. job' \in Jobs /\ want'.text \in Seq(Units) BY <1>1 DEF Jobs, NoWant
<1>3. Files BY DEF IInv, Shape, Files
<1>4. CASE OneAnswer'
  <2>1. Over BY <1>1, <1>4 DEF Over
  <2> QED BY <1>2, <1>3, <2>1, OverAtOnce
<1>5. CASE "silent" \in spoilt'
  <2>1. Agreement' BY <1>1 DEF IInv, Agreement, Moving
  <2> QED BY <1>2, <1>3, <1>5, <2>1 DEF Promises, Accounted, Truthful
<1> QED BY <1>4, <1>5

LEMMA StoreStep ==
  ASSUME IInv, NEW name \in Names, Stou(name) \/ \E mode \in {"w", "a"} : Store(name, mode)
  PROVE  Promises' /\ job' \in Jobs /\ want'.text \in Seq(Units) /\ Files
<1> DEFINE path == Where(name)
           other == <<path[1], "file.1">>
<1>1. path \in Paths /\ other \in Paths
  <2>1. path \in Paths BY Whither DEF IInv
  <2> QED BY <2>1 DEF Paths, Bases
<1>2. Begins BY DEF Stou, Store
<1>3. CASE \/ \E code \in {553, 452} :
                Ends("store", code) /\ want' = NoWant /\ UNCHANGED <<fs, spoilt>>
           \/ /\ said' = <<>> /\ spoilt' = spoilt \cup {"silent"}
              /\ want' = NoWant /\ UNCHANGED <<fs, data, job, agreed>>
  BY <1>2, <1>3, OverBeforeStore DEF Ends, OneAnswer, data
<1>4. CASE StoreIn(path, "w") \/ StoreIn(path, "a") \/ StoreIn(other, "w")
  <2> HIDE DEF path, other
  <2> QED BY <1>1, <1>2, <1>4, StoreInStep
<1> QED BY <1>3, <1>4 DEF Stou, Store

LEMMA ListStep ==
  ASSUME IInv,
         \/ \E target \in Dirs \cup {".", "/"} : List(target)
         \/ \E name \in Names : ListFile(name)
  PROVE  Promises' /\ job' \in Jobs
<1>1. Line BY DEF List, ListFile
<1>2. job = NoJob /\ got' = <<>> /\ want' = NoWant BY <1>1 DEF Line, Begins
<1>3. CASE Goes(Listed) /\ UNCHANGED spoilt
  <2>1. job' = Listed /\ said' = <<>> /\ UNCHANGED <<passive, usedefault, dest, agreed>>
    BY <1>3 DEF Goes, data
  <2>2. job' \in Jobs BY <2>1 DEF Listed, Jobs, Stages, Peers
  <2>3. Started BY <1>2, <1>3, <2>1 DEF Started, Listed, NoJob
  <2>4. Accounted' BY <1>2, <2>1 DEF Accounted, Listed, NoWant
  <2> QED BY <2>2, <2>3, <2>4, StartedWell
<1>4. CASE Ends("list", 550) /\ UNCHANGED spoilt
  <2>1. Over BY <1>2, <1>4 DEF Ends, Over, OneAnswer, data
  <2> QED BY <1>2, <2>1, OverAtOnce DEF Over, Jobs
<1>5. CASE NothingToList
  <2>1. job' = NoJob /\ said' = <<550>> /\ passive' = FALSE
        /\ UNCHANGED <<usedefault, dest, agreed>>
        /\ spoilt' = IF passive THEN spoilt \cup {"forgotten"} ELSE spoilt
    BY <1>2, <1>5 DEF NothingToList
  <2>2. Agreement' BY <1>2, <2>1 DEF IInv, Agreement, Moving
  <2>3. Accounted' /\ Truthful' BY <1>2, <2>1 DEF Accounted, Truthful, OneAnswer, NoJob, NoWant
  <2> QED BY <2>1, <2>2, <2>3 DEF Promises, Jobs
<1> QED BY <1>3, <1>4, <1>5 DEF List, ListFile

(***************************************************************************)
(* A transfer goes on                                                      *)
(***************************************************************************)
LEMMA StepsOfATransfer ==
  ASSUME IInv, job # NoJob
  PROVE  /\ said = <<>> \/ spoilt \cap {"silent", "newlines", "holed"} # {}
         /\ job.kind \in {"retr", "store", "list"} /\ job.stage \in Stages
         /\ job.kind = "retr" => job.lost \in BOOLEAN /\ job.todo \in Seq(Units)
         /\ job.kind = "store" => job.path \in Paths /\ job.at \in Nat
BY Kinds DEF IInv, Shape, Truthful

\* The connection is made: nothing that is accounted for has changed
LEMMA Made ==
  ASSUME IInv, job # NoJob, NEW to \in Peers,
         job' = [job EXCEPT !.stage = "move", !.peer = to],
         UNCHANGED <<got, want, said, fs, last, spoilt>>
  PROVE  Accounted' /\ Truthful' /\ job' \in Jobs /\ Moving' /\ job'.peer = to
<1>1. /\ job' \in Jobs /\ job' # NoJob /\ job'.kind = job.kind /\ job'.stage = "move"
      /\ job'.peer = to
      /\ job.kind = "retr" => job'.lost = job.lost /\ job'.todo = job.todo
      /\ job.kind = "store" => job'.path = job.path /\ job'.at = job.at
  BY ZenonT(30), Connected DEF IInv, Shape
<1>2. Accounted' BY <1>1 DEF IInv, Accounted
<1>3. Truthful' BY <1>1 DEF IInv, Truthful
<1> QED BY <1>1, <1>2, <1>3 DEF Moving

\* The transfer ends with an answer which is not 226
LEMMA EndsOtherwise ==
  ASSUME IInv, job # NoJob, NEW code \in Int, code # 226, Closes(code), spoilt \subseteq spoilt'
  PROVE  Accounted' /\ Truthful' /\ job' \in Jobs /\ ~Moving'
<1>1. job' = NoJob /\ said' = <<code>> BY DEF Closes
<1>2. Len(said') = 1 /\ said' # <<226>> BY <1>1
<1>3. Accounted' /\ ~Moving' /\ job' \in Jobs BY <1>1 DEF Accounted, NoJob, Moving, Jobs
<1>4. Truthful' BY <1>1, <1>2 DEF Truthful, OneAnswer
<1> QED BY <1>3, <1>4

LEMMA AcceptStep ==
  ASSUME IInv, Accept
  PROVE  Promises' /\ job' \in Jobs
<1> USE Constants
<1>0. Agreement /\ ~Moving /\ job # NoJob BY DEF IInv, Accept, Moving
<1>1. passive = TRUE \/ passive BY DEF Accept
<1>2. passive' = FALSE /\ UNCHANGED <<usedefault, dest, fs, got, want>>
  BY DEF Accept, disk, moved
<1>3. CASE /\ job' = [job EXCEPT !.stage = "move", !.peer = "pasv"]
           /\ UNCHANGED <<said, fromname, restart, last, agreed, spoilt>>
  <2>1. Accounted' /\ Truthful' /\ job' \in Jobs /\ Moving' /\ job'.peer = "pasv"
    BY <1>0, <1>2, <1>3, Made DEF Peers
  <2>2. Agreement' BY <1>0, <1>1, <1>2, <1>3, <2>1 DEF Agreement
  <2> QED BY <2>1, <2>2 DEF Promises
<1>4. ASSUME NEW code \in {425, 435}, Closes(code), spoilt' = Superseded
      PROVE  Promises' /\ job' \in Jobs
  <2>1. spoilt \subseteq spoilt' BY <1>4 DEF Superseded
  <2>2. Accounted' /\ Truthful' /\ job' \in Jobs /\ ~Moving'
    BY <1>0, <1>4, <2>1, EndsOtherwise
  <2>3. Agreement'
    <3>1. CASE usedefault BY <1>2, <1>4, <2>2, <3>1 DEF Agreement, Closes
    <3>2. CASE ~usedefault BY ZenonT(30), <1>4, <3>2 DEF Agreement, Superseded
    <3> QED BY <3>1, <3>2
  <2> QED BY <2>2, <2>3 DEF Promises
<1> QED BY <1>3, <1>4 DEF Accept

LEMMA ConnectStep ==
  ASSUME IInv, Connect
  PROVE  Promises' /\ job' \in Jobs /\ dest' \in Peers
<1> USE Constants
<1> DEFINE to == IF usedefault THEN "peer" ELSE dest
<1>0. Agreement /\ ~Moving /\ job # NoJob BY DEF IInv, Connect, Moving
<1>1. ~passive /\ passive' = passive /\ dest' = to /\ usedefault' = TRUE
      /\ UNCHANGED <<fs, got, want, spoilt>>
  BY DEF Connect, disk, moved
<1>2. to \in Peers BY DEF IInv, Shape, Peers
<1>3. ASSUME NEW code \in {425, 435}, Closes(code)
      PROVE  Promises' /\ job' \in Jobs /\ dest' \in Peers
  <2>1. Accounted' /\ Truthful' /\ job' \in Jobs /\ ~Moving'
    BY <1>0, <1>1, <1>3, EndsOtherwise
  <2>2. Agreement' BY <1>1, <1>3, <2>1 DEF Agreement, Closes
  <2> QED BY <1>1, <1>2, <2>1, <2>2 DEF Promises
<1>4. CASE /\ job' = [job EXCEPT !.stage = "move", !.peer = to]
           /\ UNCHANGED <<said, fromname, restart, last, agreed>>
  <2>1. Accounted' /\ Truthful' /\ job' \in Jobs /\ Moving' /\ job'.peer = to
    <3> HIDE DEF to
    <3> QED BY <1>0, <1>1, <1>2, <1>4, Made
  <2>2. Agreement' BY <1>0, <1>1, <1>4, <2>1 DEF Agreement
  <2> QED BY <1>1, <1>2, <2>1, <2>2 DEF Promises
<1> QED BY <1>3, <1>4 DEF Connect

\* One unit more, or none because it was lost
LEMMA StillMoving ==
  ASSUME IInv, Moves, NEW j, job' = j, j # NoJob, j.stage = job.stage, j.peer = job.peer, GoesOn
  PROVE  Agreement' /\ Truthful'
<1>1. Moving /\ Moving' BY DEF Moves, Moving
<1>2. /\ UNCHANGED <<passive, usedefault, dest, agreed, spoilt, said>> /\ job # NoJob
  BY DEF Moves, GoesOn, data, Moving
<1>3. Agreement' BY <1>1, <1>2 DEF IInv, Agreement
<1>4. Truthful' BY <1>2 DEF IInv, Truthful
<1> QED BY <1>3, <1>4

LEMMA StopsAgreed == ASSUME IInv, Moves, NEW code, Stops(code) PROVE Agreement'
<1>1. Moving /\ ~Moving' BY DEF Moves, Stops, Closes, Moving
<1>2. /\ UNCHANGED <<passive, usedefault, dest>> /\ agreed' = "default" /\ spoilt' = Superseded
  BY DEF Moves, Stops, Closes, data
<1>3. CASE usedefault BY Constants, <1>1, <1>2, <1>3 DEF IInv, Agreement, Superseded
<1>4. CASE ~usedefault BY <1>2, <1>4 DEF Agreement, Superseded
<1> QED BY <1>3, <1>4

LEMMA StopsOtherwise ==
  ASSUME IInv, Moves, NEW code \in Int, code # 226, Stops(code)
  PROVE  Promises' /\ job' \in Jobs
<1>1. spoilt \subseteq spoilt' /\ Closes(code) /\ job # NoJob
  BY DEF Stops, Superseded, Moves, Moving
<1> QED BY <1>1, StopsAgreed, EndsOtherwise DEF Promises

LEMMA StopsWell ==
  ASSUME IInv, Moves, Stops(226), fs' = fs,
         (spoilt \cap {"silent", "newlines", "holed"} = {} /\ want.path # None) =>
            IF job.kind = "retr" THEN got = want.text
            ELSE broken \/ fs[want.path] = want.text \o got
  PROVE  Promises' /\ job' \in Jobs
<1>1. /\ spoilt \subseteq spoilt' /\ job # NoJob /\ job' = NoJob /\ said' = <<226>>
      /\ last' = <<job.kind>> /\ UNCHANGED <<got, want, broken>>
  BY DEF Stops, Superseded, Moves, Moving, Closes, Reduced
<1>2. Len(said') = 1 BY <1>1
<1>3. Accounted' /\ job' \in Jobs BY <1>1 DEF Accounted, NoJob, Jobs
<1>4. last' = <<"retr">> <=> job.kind = "retr" BY <1>1
<1>5. Truthful' BY <1>1, <1>2, <1>4 DEF Truthful, OneAnswer
<1> QED BY <1>3, <1>5, StopsAgreed DEF Promises

LEMMA SendStep ==
  ASSUME IInv, Send
  PROVE  Promises' /\ job' \in Jobs /\ got' \in Seq(Units)
<1>1. Moves /\ job # NoJob /\ job.kind = "retr" /\ fs' = fs /\ want' = want /\ job \in Jobs
  BY DEF Send, Moves, Moving, IInv, Shape
<1>2. got \in Seq(Units) /\ job.todo \in Seq(Units) BY <1>1, Kinds DEF IInv, Shape
<1>3. CASE /\ job.todo # <<>> /\ ~broken
           /\ job' = [job EXCEPT !.todo = Tail(@)]
           /\ got' = Append(got, Head(job.todo)) /\ GoesOn
  <2> DEFINE k == [job EXCEPT !.todo = Tail(@)]
  <2>1. /\ k \in Jobs /\ k # NoJob /\ k.kind = "retr" /\ k.stage = job.stage
        /\ k.peer = job.peer /\ k.todo = Tail(job.todo) /\ k.lost = job.lost
    BY <1>1, <1>3, OneSent
  <2>2. job' = k BY <1>3
  <2> HIDE DEF k
  <2>3. Agreement' /\ Truthful' BY <1>1, <1>3, <2>1, <2>2, StillMoving
  <2>4. got' \in Seq(Units) /\ got' \o Tail(job.todo) = got \o job.todo
    BY ZenonT(30), <1>2, <1>3, MoveOne
  <2>5. spoilt' = spoilt BY <1>3 DEF GoesOn
  <2>6. Accounted' BY <1>1, <2>1, <2>2, <2>4, <2>5 DEF IInv, Accounted
  <2> QED BY <2>1, <2>2, <2>3, <2>4, <2>6 DEF Promises
<1>4. CASE /\ job.todo # <<>> /\ broken /\ job.way = "text"
           /\ job' = [job EXCEPT !.todo = Tail(@), !.lost = TRUE]
           /\ UNCHANGED got /\ GoesOn
  <2> DEFINE k == [job EXCEPT !.todo = Tail(@), !.lost = TRUE]
  <2>1. /\ k \in Jobs /\ k # NoJob /\ k.kind = "retr" /\ k.stage = job.stage
        /\ k.peer = job.peer /\ k.lost = TRUE
    BY <1>1, <1>4, OneSent
  <2>2. job' = k BY <1>4
  <2> HIDE DEF k
  <2>3. Agreement' /\ Truthful' BY <1>1, <1>4, <2>1, <2>2, StillMoving
  <2>4. Accounted' BY <2>1, <2>2 DEF Accounted
  <2> QED BY <1>2, <1>4, <2>1, <2>2, <2>3, <2>4 DEF Promises
<1>5. CASE SendEnds
  <2>1. got' = got BY <1>5 DEF SendEnds, Stops
  <2>2. CASE job.todo = <<>> /\ ~job.lost /\ Stops(226)
    <3>1. got \o job.todo = got BY <1>2, <2>2, Nothing
    <3>2. spoilt \cap {"silent", "newlines", "holed"} = {} => got = want.text
      BY <1>1, <2>2, <3>1 DEF IInv, Accounted
    <3> QED BY <1>1, <1>2, <2>1, <2>2, <3>2, StopsWell
  <2>3. ASSUME NEW code \in {426, 551, 451}, Stops(code)
        PROVE  Promises' /\ job' \in Jobs
    BY <1>1, <2>3, StopsOtherwise
  <2> QED BY <1>2, <1>5, <2>1, <2>2, <2>3 DEF SendEnds
<1> QED BY <1>3, <1>4, <1>5 DEF Send

LEMMA ReceiveStep ==
  ASSUME IInv, Receive
  PROVE  Promises' /\ job' \in Jobs /\ got' \in Seq(Units) /\ Files
<1>1. Moves /\ job # NoJob /\ job.kind = "store" /\ want' = want /\ job \in Jobs
  BY DEF Receive, Moves, Moving, IInv, Shape
<1>2. /\ got \in Seq(Units) /\ want.text \in Seq(Units) /\ job.path \in Paths
      /\ job.at \in Nat /\ fs \in [DOMAIN fs -> Seq(Units)] /\ DOMAIN fs \subseteq Paths
  BY <1>1, Kinds DEF IInv, Shape
<1>3. CASE /\ ~broken /\ Len(got) < MaxUnits
           /\ got' = Append(got, "u")
           /\ fs' = [fs EXCEPT ![job.path] = Written(@, job.at + 1, "u")]
           /\ job' = [job EXCEPT !.at = @ + 1] /\ GoesOn
  <2> DEFINE k == [job EXCEPT !.at = @ + 1]
  <2>1. /\ k \in Jobs /\ k # NoJob /\ k.kind = "store" /\ k.stage = job.stage
        /\ k.peer = job.peer /\ k.path = job.path /\ k.at = job.at + 1
    BY <1>1, OneReceived
  <2>2. job' = k BY <1>3
  <2> HIDE DEF k
  <2>3. Agreement' /\ Truthful' BY <1>1, <1>3, <2>1, <2>2, StillMoving
  <2>4. got' \in Seq(Units) BY <1>2, <1>3, Constants, AppendProperties
  <2> DEFINE path == job.path
             new == Written(fs[path], job.at + 1, "u")
  <2>5. path \in DOMAIN fs => new \in Seq(Units) BY <1>2, Constants, WrittenType
  <2>6. fs' = [fs EXCEPT ![path] = new] BY <1>3
  <2>7. Files
    <3> HIDE DEF path, new
    <3> QED BY <1>2, <2>5, <2>6 DEF Files
  <2>8. ASSUME spoilt \cap {"silent", "newlines", "holed"} = {}
        PROVE  /\ want.path = path /\ path \in DOMAIN fs'
               /\ fs'[path] = want.text \o got' /\ job.at + 1 = Len(fs'[path])
    <3>1. /\ want.path = path /\ path \in DOMAIN fs
          /\ fs[path] = want.text \o got /\ job.at = Len(fs[path])
      BY <1>1, <2>8 DEF IInv, Accounted
    <3>2. path \in DOMAIN fs' /\ fs'[path] = new BY <1>2, <2>6, <3>1
    <3>3. new = Append(fs[path], "u") BY ZenonT(30), <1>2, <3>1, Constants, WrittenAtEnd
    <3>4. /\ Append(want.text \o got, "u") = want.text \o Append(got, "u")
          /\ Len(Append(want.text \o got, "u")) = Len(want.text \o got) + 1
      <4> DEFINE old == want.text
      <4>1. old \in Seq(Units) /\ "u" \in Units BY <1>2, Constants
      <4> HIDE DEF old
      <4>2. /\ Append(old \o got, "u") = old \o Append(got, "u")
            /\ Len(Append(old \o got, "u")) = Len(old \o got) + 1
        BY <1>2, <4>1, AppendBehind
      <4> QED BY <4>2 DEF old
    <3> QED
      <4> HIDE DEF path, new
      <4> QED BY <1>3, <3>1, <3>2, <3>3, <3>4
  <2>9. spoilt' = spoilt BY <1>3 DEF GoesOn
  <2>10. Accounted' BY <1>1, <2>1, <2>2, <2>8, <2>9 DEF Accounted
  <2> QED BY <2>1, <2>2, <2>3, <2>4, <2>7, <2>10 DEF Promises
<1>4. ASSUME NEW code \in {226, 452}, Stops(code), fs' = fs
      PROVE  Promises' /\ job' \in Jobs /\ got' \in Seq(Units) /\ Files
  <2>1. got' \in Seq(Units) /\ Files BY <1>2, <1>4 DEF Stops, Files
  <2>2. CASE code = 226
    <3>1. spoilt \cap {"silent", "newlines", "holed"} = {} => fs[want.path] = want.text \o got
      BY <1>1 DEF IInv, Accounted
    <3>2. Stops(226) /\ job.kind # "retr" BY <1>1, <1>4, <2>2
    <3> QED BY <1>1, <1>4, <2>1, <3>1, <3>2, StopsWell
  <2>3. CASE code = 452 BY <1>1, <1>4, <2>1, <2>3, StopsOtherwise
  <2> QED BY <2>2, <2>3
<1> QED BY <1>3, <1>4 DEF Receive

LEMMA SendListStep ==
  ASSUME IInv, SendList
  PROVE  Promises' /\ job' \in Jobs /\ got' = got
<1>1. Moves /\ job # NoJob /\ job.kind = "list" /\ fs' = fs
  BY DEF SendList, Moves, Moving
<1>2. spoilt \cap {"silent", "newlines", "holed"} = {} => want.path = None
  BY <1>1 DEF IInv, Accounted
<1>3. CASE Stops(226) BY <1>1, <1>2, <1>3, StopsWell DEF Stops
<1>4. CASE Stops(550) BY <1>1, <1>4, StopsOtherwise DEF Stops
<1> QED BY <1>3, <1>4 DEF SendList

(***************************************************************************)
(* The shape                                                               *)
(***************************************************************************)
LEMMA RestartStep == ASSUME restart \in Nat, Next PROVE restart' \in Nat
<1> USE DEF Reduced
<1>1. CASE BadLine BY <1>1 DEF BadLine, GivenUp
<1>2. CASE Refused("refused") \/ User \/ Pass \/ Quit \/ Setting
  BY <1>2 DEF Refused, User, Pass, Quit, Setting
<1>3. CASE Pwd \/ Stat \/ Size \/ Site \/ Help BY <1>3 DEF Pwd, Stat, Size, Site, Help, Answers
<1>4. ASSUME NEW address \in Ports, Port(address) \/ PortLost(address) PROVE restart' \in Nat
  BY <1>4 DEF Port, PortLost, GivenUp
<1>5. CASE PortOutOfRange \/ Pasv \/ Mkd \/ Rmd BY <1>5 DEF PortOutOfRange, Pasv, Mkd, Rmd
<1>6. ASSUME NEW target, Cwd(target) PROVE restart' \in Nat BY <1>6 DEF Cwd
<1>7. ASSUME NEW name \in Names, Dele(name) \/ Rnto(name) \/ Rnfr(name) PROVE restart' \in Nat
  BY <1>7 DEF Dele, Rnto, Rnfr
<1>8. ASSUME NEW n \in Offsets, Rest(n) PROVE restart' \in Nat
  BY <1>8, Constants DEF Rest
<1>9. ASSUME NEW name \in Names, Retr(name) \/ Stou(name) \/ ListFile(name)
                                 \/ \E mode \in {"w", "a"} : Store(name, mode)
      PROVE  restart' \in Nat
  BY <1>9 DEF Retr, Stou, ListFile, Store, StoreIn, Ends, Goes
<1>10. ASSUME NEW target, List(target) PROVE restart' \in Nat
  BY <1>10 DEF List, NothingToList, Ends, Goes
<1>11. CASE Accept \/ Connect \/ Cut BY <1>11 DEF Accept, Connect, Cut, Closes
<1>12. CASE Send \/ Receive \/ SendList
  BY <1>12 DEF Send, Receive, SendList, SendEnds, Moves, GoesOn, Stops, Closes
<1> QED
  BY <1>1, <1>2, <1>3, <1>4, <1>5, <1>6, <1>7, <1>8, <1>9, <1>10, <1>11, <1>12
  DEF Next, Transfers

LEMMA PlaceStep == ASSUME cwd \in Dirs, Next PROVE cwd' \in Dirs
<1> USE DEF place, Dirs
<1>1. CASE BadLine BY <1>1 DEF BadLine, GivenUp
<1>2. CASE Refused("refused") \/ User \/ Pass \/ Quit \/ Setting
  BY <1>2 DEF Refused, User, Pass, Quit, Setting
<1>3. CASE Pwd \/ Stat \/ Size \/ Site \/ Help BY <1>3 DEF Pwd, Stat, Size, Site, Help, Answers
<1>4. ASSUME NEW address \in Ports, Port(address) \/ PortLost(address) PROVE cwd' \in Dirs
  BY <1>4 DEF Port, PortLost, GivenUp
<1>5. CASE PortOutOfRange \/ Pasv \/ Mkd \/ Rmd BY <1>5 DEF PortOutOfRange, Pasv, Mkd, Rmd
<1>6. ASSUME NEW target \in Dirs \cup {"..", ".", "/"}, Cwd(target) PROVE cwd' \in Dirs
  BY <1>6 DEF Cwd
<1>7. ASSUME NEW name \in Names, Dele(name) \/ Rnto(name) \/ Rnfr(name) PROVE cwd' \in Dirs
  BY <1>7 DEF Dele, Rnto, Rnfr
<1>8. ASSUME NEW n \in Offsets, Rest(n) PROVE cwd' \in Dirs BY <1>8 DEF Rest
<1>9. ASSUME NEW name \in Names, Retr(name) \/ Stou(name) \/ ListFile(name)
                                 \/ \E mode \in {"w", "a"} : Store(name, mode)
      PROVE  cwd' \in Dirs
  BY <1>9 DEF Retr, Stou, ListFile, Store
<1>10. ASSUME NEW target, List(target) PROVE cwd' \in Dirs BY <1>10 DEF List
<1>11. CASE Accept \/ Connect \/ Cut BY <1>11 DEF Accept, Connect, Cut
<1>12. CASE Send \/ Receive \/ SendList BY <1>12 DEF Send, Receive, SendList, Moves
<1> QED
  BY <1>1, <1>2, <1>3, <1>4, <1>5, <1>6, <1>7, <1>8, <1>9, <1>10, <1>11, <1>12
  DEF Next, Transfers

LEMMA DestStep == ASSUME IInv, Next PROVE dest' \in Peers
<1>0. dest \in Peers BY DEF IInv, Shape
<1>1. CASE Connect BY <1>1, ConnectStep
<1> USE <1>0 DEF data
<1>2. CASE \/ BadLine \/ Refused("refused") \/ User \/ Pass \/ Quit \/ Setting
           \/ Pwd \/ Stat \/ Size \/ Site \/ Help \/ Mkd \/ Rmd
           \/ \E target \in Dirs \cup {"..", ".", "/"} : Cwd(target)
           \/ \E name \in Names : Dele(name) \/ Rnfr(name) \/ Rnto(name)
           \/ \E n \in Offsets : Rest(n)
  BY <1>2, PlainLines DEF Quiet
<1>3. ASSUME NEW address \in Ports, Port(address) \/ PortLost(address) PROVE dest' \in Peers
  BY <1>3 DEF Port, PortLost, Peers
<1>4. CASE PortOutOfRange \/ Pasv BY <1>4 DEF PortOutOfRange, Pasv
<1>5. ASSUME NEW name \in Names, Retr(name) \/ Stou(name) \/ ListFile(name)
                                 \/ \E mode \in {"w", "a"} : Store(name, mode)
      PROVE  dest' \in Peers
  BY <1>5 DEF Retr, Stou, ListFile, Store, StoreIn, Ends, Goes
<1>6. ASSUME NEW target, List(target) PROVE dest' \in Peers
  BY <1>6 DEF List, NothingToList, Ends, Goes
<1>7. CASE Accept \/ Cut \/ Send \/ Receive \/ SendList
  BY <1>7 DEF Accept, Cut, Send, Receive, SendList, Moves
<1> QED BY <1>1, <1>2, <1>3, <1>4, <1>5, <1>6, <1>7 DEF Next, Transfers

LEMMA FilesStep == ASSUME IInv, Next PROVE Files
<1>0. Shape BY DEF IInv
<1> USE DEF disk
<1>1. ASSUME fs' = fs PROVE Files BY <1>0, <1>1 DEF Shape, Files
<1>2. ASSUME NEW name \in Names, Dele(name) PROVE Files
  BY <1>0, <1>1, <1>2 DEF Dele, Without, Shape, Files
<1>3. ASSUME NEW name \in Names, Rnto(name) PROVE Files
  <2>1. Where(name) \in Paths BY <1>0, Whither
  <2>2. CASE fs' = fs BY <1>1, <2>2
  <2> DEFINE from == Where(fromname)
             to == Where(name)
  <2>3. CASE fs' # fs
    <3>1. /\ from \in DOMAIN fs
          /\ fs' = [p \in (DOMAIN fs \ {from}) \cup {to} |-> IF p = to THEN fs[from] ELSE fs[p]]
      BY <1>3, <2>3 DEF Rnto, Exists
    <3> HIDE DEF from, to
    <3>2. to \in Paths BY <2>1 DEF to
    <3> QED BY <1>0, <3>1, <3>2 DEF Shape, Files
  <2> QED BY <2>2, <2>3
<1>4. ASSUME NEW name \in Names, Stou(name) \/ \E mode \in {"w", "a"} : Store(name, mode)
      PROVE  Files
  BY <1>4, StoreStep
<1>5. CASE Receive BY <1>5, ReceiveStep
<1>6. CASE \/ BadLine \/ Refused("refused") \/ User \/ Pass \/ Quit \/ Setting
           \/ Pwd \/ Stat \/ Size \/ Site \/ Help \/ Mkd \/ Rmd
  BY <1>1, <1>6 DEF BadLine, Refused, User, Pass, Quit, Setting, Pwd, Stat, Size, Site, Help,
                    Answers, Mkd, Rmd
<1>7. ASSUME NEW address \in Ports, Port(address) \/ PortLost(address) PROVE Files
  BY <1>1, <1>7 DEF Port, PortLost
<1>8. CASE PortOutOfRange \/ Pasv BY <1>1, <1>8 DEF PortOutOfRange, Pasv
<1>9. ASSUME NEW target, Cwd(target) \/ List(target) PROVE Files BY <1>1, <1>9 DEF Cwd, List
<1>10. ASSUME NEW name \in Names, Rnfr(name) \/ Retr(name) \/ ListFile(name) PROVE Files
  BY <1>1, <1>10 DEF Rnfr, Retr, ListFile
<1>11. ASSUME NEW n \in Offsets, Rest(n) PROVE Files BY <1>1, <1>11 DEF Rest
<1>12. CASE Accept \/ Connect \/ Cut \/ Send \/ SendList
  BY <1>1, <1>12 DEF Accept, Connect, Cut, Send, SendList
<1> QED
  BY <1>2, <1>3, <1>4, <1>5, <1>6, <1>7, <1>8, <1>9, <1>10, <1>11, <1>12 DEF Next, Transfers

LEMMA CutStep ==
  ASSUME IInv, Cut
  PROVE  Promises' /\ UNCHANGED <<job, got, want>>
<1>1. UNCHANGED <<job, got, want, said, fs, last, agreed, spoilt>> /\ job # NoJob
  BY DEF Cut, disk, Moving
<1>2. UNCHANGED <<passive, usedefault, dest>> BY DEF Cut, data
<1>3. Agreement' BY <1>1, <1>2 DEF IInv, Agreement, Moving
<1> QED BY <1>1, <1>3 DEF IInv, Promises, Accounted, Truthful

LEMMA NothingMoved ==
  ASSUME IInv, UNCHANGED vars PROVE IInv'
<1>1. UNCHANGED <<fromname, restart, passive, usedefault, dest, cwd, fs, job, said, last, agreed,
                  got, want, broken, spoilt, logged>>
  BY DEF vars, session, data, place, disk, moved
<1>2. Remembered' BY RememberedStep DEF IInv
<1>3. Shape' BY <1>1 DEF IInv, Shape
<1>4. Agreement' BY <1>1 DEF IInv, Agreement, Moving
<1>5. Accounted' /\ Truthful' BY <1>1 DEF IInv, Accounted, Truthful, OneAnswer
<1> QED BY <1>2, <1>3, <1>4, <1>5 DEF IInv

Transported == job' \in Jobs /\ got' \in Seq(Units) /\ want'.text \in Seq(Units)

LEMMA TransferStep == ASSUME IInv, Next PROVE Promises' /\ Transported
<1>0. /\ job \in Jobs /\ got \in Seq(Units) /\ want.text \in Seq(Units)
      /\ NoJob \in Jobs /\ <<>> \in Seq(Units) /\ NoWant.text \in Seq(Units)
  BY DEF IInv, Shape, Jobs, NoWant
<1>1. CASE \/ BadLine \/ Refused("refused") \/ User \/ Pass \/ Quit \/ Setting
           \/ Pwd \/ Stat \/ Size \/ Site \/ Help \/ Mkd \/ Rmd
           \/ \E target \in Dirs \cup {"..", ".", "/"} : Cwd(target)
           \/ \E name \in Names : Dele(name) \/ Rnfr(name) \/ Rnto(name)
           \/ \E n \in Offsets : Rest(n)
  <2>1. Quiet /\ OneAnswer' BY <1>1, PlainLines
  <2>2. Promises' BY <2>1, QuietLine DEF Promises
  <2> QED BY <1>0, <2>1, <2>2 DEF Quiet, Transported
<1>2. CASE \/ \E address \in Ports : Port(address) \/ PortLost(address)
           \/ PortOutOfRange \/ Pasv
  <2>1. Addressed /\ Agreement' BY <1>2, Addresses
  <2>2. Promises' BY <2>1, AddressedLine DEF Promises
  <2> QED BY <1>0, <2>1, <2>2 DEF Addressed, Transported
<1>3. ASSUME NEW name \in Names, Retr(name) PROVE Promises' /\ Transported
  BY <1>0, <1>3, RetrStep DEF Transported, Retr, Begins
<1>4. ASSUME NEW name \in Names, Stou(name) \/ \E mode \in {"w", "a"} : Store(name, mode)
      PROVE  Promises' /\ Transported
  BY <1>0, <1>4, StoreStep DEF Transported, Stou, Store, Begins
<1>5. CASE \/ \E target \in Dirs \cup {".", "/"} : List(target)
           \/ \E name \in Names : ListFile(name)
  <2>1. got' = <<>> /\ want' = NoWant BY <1>5 DEF List, ListFile, Line, Begins
  <2> QED BY <1>0, <1>5, <2>1, ListStep DEF Transported
<1>6. CASE Accept \/ Connect
  <2>1. UNCHANGED <<got, want>> BY <1>6 DEF Accept, Connect, moved
  <2> QED BY <1>0, <1>6, <2>1, AcceptStep, ConnectStep DEF Transported
<1>7. CASE Cut BY <1>0, <1>7, CutStep DEF Transported
<1>8. CASE Send \/ Receive \/ SendList
  <2>1. UNCHANGED want BY <1>8 DEF Send, Receive, SendList, Moves
  <2> QED BY <1>0, <1>8, <2>1, SendStep, ReceiveStep, SendListStep DEF Transported
<1> QED BY <1>1, <1>2, <1>3, <1>4, <1>5, <1>6, <1>7, <1>8 DEF Next, Transfers

(***************************************************************************)
(* The invariant and what follows from it                                  *)
(***************************************************************************)
LEMMA Begun == Init => IInv
<1> SUFFICES ASSUME Init PROVE IInv OBVIOUS
<1> USE DEF Init
<1>1. Shape
  <2> DEFINE path == <<"drive", "file">>
  <2>1. fs = [p \in {path} |-> Original] OBVIOUS
  <2>2. path \in Paths BY DEF Paths, Dirs, Bases
  <2>3. fs \in [DOMAIN fs -> Seq(Units)] /\ DOMAIN fs \subseteq Paths
    <3> HIDE DEF path
    <3> QED BY Constants, <2>1, <2>2
  <2>4. job \in Jobs /\ got \in Seq(Units) /\ want.text \in Seq(Units) BY DEF Jobs, NoWant
  <2>5. restart \in Nat /\ cwd \in Dirs /\ dest \in Peers BY DEF Dirs, Peers
  <2> QED BY <2>3, <2>4, <2>5 DEF Shape
<1>2. Remembered BY DEF Remembered, NextOnly
<1>3. Agreement BY Constants DEF Agreement, Moving
<1>4. Accounted /\ Truthful BY DEF Accounted, Truthful, OneAnswer, NoJob, NoWant
<1> QED BY <1>1, <1>2, <1>3, <1>4 DEF IInv

LEMMA Kept == IInv /\ [Next]_vars => IInv'
<1> SUFFICES ASSUME IInv, [Next]_vars PROVE IInv' OBVIOUS
<1>1. CASE UNCHANGED vars BY <1>1, NothingMoved
<1>2. CASE Next
  <2>1. Remembered' BY RememberedStep DEF IInv
  <2>2. Promises' /\ Transported BY <1>2, TransferStep
  <2>3. restart' \in Nat /\ cwd' \in Dirs /\ dest' \in Peers /\ Files
    BY <1>2, RestartStep, PlaceStep, DestStep, FilesStep DEF IInv, Shape
  <2>4. Shape' BY <2>2, <2>3 DEF Shape, Transported, Files
  <2> QED BY <2>1, <2>2, <2>4 DEF IInv, Promises
<1> QED BY <1>1, <1>2

LEMMA Holds == Spec => []IInv
BY Begun, Kept, PTL DEF Spec

\* A name to rename and a restart point are only there for the next line that the parser
\* reduces: with nobody logged in there is none, so no refused line comes in between.
THEOREM RenamePairs == Spec => []NextOnly
<1>1. IInv => NextOnly BY DEF IInv, Remembered
<1> QED BY Holds, <1>1, PTL

\* Data goes to the socket of PASV, the address of PORT or the client itself, whichever
\* the client was told last, whatever addresses there are.
THEOREM DataGoesWhereAgreed == Spec => []WhereAgreed
<1>1. IInv => WhereAgreed BY DEF IInv, Agreement, WhereAgreed
<1> QED BY Holds, <1>1, PTL

\* A line that is run has one final answer, one that is refused has refusals, and 226 says
\* that all of a file of any length was sent or stands in the file.
THEOREM AnswersAreTruthful == Spec => []Truthful
<1>1. IInv => Truthful BY DEF IInv
<1> QED BY Holds, <1>1, PTL

===============================================================================
