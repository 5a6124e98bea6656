---------------------------- MODULE OstRouterProofs ----------------------------
(* Proofs about OstRouter, for any sessions and protocols, any feed and any*)
(* number of writes: about the writes, about who is heard and, of a feed   *)
(* that is clear, about what the sessions get.                             *)
EXTENDS OstRouter, WellFoundedInduction, FiniteSetTheorems, SequenceTheorems, TLAPS

Sent == [of : 1..MaxWrites, data : 0..MaxWrites]
Entries == [msg : 1..MaxWrites, by : Sessions]
Flights == [of : 0..MaxWrites, src : {"none", "buffer", "entry", "done"}, data : 0..MaxWrites]

(* The part of TypeOK that the writes need.                                *)
Typed ==
  /\ asked \in [Sessions -> 0..MaxWrites] /\ writes \in 0..MaxWrites
  /\ sendbuf \in 0..MaxWrites /\ queue \in Seq(Entries)
  /\ listener \in Sessions \cup {NoSession} /\ flight \in Flights
  /\ flight.of = 0 <=> flight.src = "none"
  /\ line \in Seq(Sent)
  /\ ended \in [1..MaxWrites -> {"no", "cancelled", "done"}]

(* What is on the line, what the writer works on and what waits were       *)
(* issued in this order; when the writer is idle nothing waits.            *)
Ordered ==
  /\ \A i \in DOMAIN line : line[i].of <= writes /\ (Busy => line[i].of < flight.of)
  /\ \A i, j \in DOMAIN queue : i < j => queue[i].msg < queue[j].msg
  /\ \A i \in DOMAIN queue : flight.of < queue[i].msg /\ queue[i].msg <= writes
  /\ flight.of <= writes
  /\ ~Busy => queue = <<>> /\ listener = NoSession

(* A session waits for one write, which has not ended, and no two wait for *)
(* the same.                                                               *)
Waiting ==
  /\ \A c \in Sessions : asked[c] <= writes /\ (asked[c] # 0 => ended[asked[c]] = "no")
  /\ \A c, d \in Sessions : asked[c] = asked[d] => c = d \/ asked[c] = 0
  /\ \A m \in 1..MaxWrites : m > writes => ended[m] = "no"

NoneCancelled == \A m \in 1..MaxWrites : ended[m] # "cancelled"

(* While nobody cancels, the listener waits for the write the writer works *)
(* on, and so will the next ones.                                          *)
Matched ==
  NoneCancelled =>
    /\ Busy => listener \in Sessions /\ asked[listener] = flight.of
    /\ \A i \in DOMAIN queue : asked[queue[i].by] = queue[i].msg

IInv == Typed /\ WritesInOrder /\ (Limit => Ordered /\ Waiting /\ Matched)

LEMMA Constants == MaxWrites \in Nat /\ NoSession \notin Sessions
BY SizesAssumption, IdsAssumption

LEMMA Shapes ==
  ASSUME Typed
  PROVE  /\ flight.of \in 0..MaxWrites /\ flight.data \in 0..MaxWrites /\ writes \in Nat
         /\ queue \in Seq(Entries) /\ Len(queue) \in Nat /\ DOMAIN queue = 1..Len(queue)
         /\ \A i \in DOMAIN queue : queue[i] \in Entries
         /\ \A e \in Entries : e.msg \in 1..MaxWrites /\ e.by \in Sessions
         /\ Len(line) \in Nat /\ DOMAIN line = 1..Len(line)
         /\ \A i \in DOMAIN line : line[i].of \in 1..MaxWrites
<1>1. flight.of \in 0..MaxWrites /\ flight.data \in 0..MaxWrites BY DEF Typed, Flights
<1>2. writes \in Nat BY DEF Typed
<1>3. queue \in Seq(Entries) BY DEF Typed
<1>4. Len(queue) \in Nat /\ DOMAIN queue = 1..Len(queue) BY <1>3
<1>5. \A i \in DOMAIN queue : queue[i] \in Entries BY <1>3
<1>6. \A e \in Entries : e.msg \in 1..MaxWrites /\ e.by \in Sessions BY DEF Entries
<1>7. Len(line) \in Nat /\ DOMAIN line = 1..Len(line) BY DEF Typed
<1>8. \A i \in DOMAIN line : line[i].of \in 1..MaxWrites
  <2>1. line \in Seq(Sent) BY DEF Typed
  <2>2. \A i \in DOMAIN line : line[i] \in Sent BY <2>1
  <2> QED BY <2>2 DEF Sent
<1> QED BY <1>1, <1>2, <1>3, <1>4, <1>5, <1>6, <1>7, <1>8

(* Steps that have nothing to do with the writes.                          *)
LEMMA Elsewhere ==
  ASSUME IInv, Limit, flight' = flight, queue' = queue, listener' = listener,
         asked' = asked, ended' = ended, line' = line, writes' = writes, sendbuf' = sendbuf
  PROVE  IInv'
<1>1. Typed' BY DEF IInv, Typed
<1>2. WritesInOrder' BY DEF IInv, WritesInOrder
<1>3. Ordered' BY DEF IInv, Ordered, Busy
<1>4. Waiting' BY DEF IInv, Waiting
<1>5. Matched' BY DEF IInv, Matched, Busy, NoneCancelled
<1> QED BY <1>1, <1>2, <1>3, <1>4, <1>5 DEF IInv

LEMMA Stutters == ASSUME IInv, UNCHANGED vars PROVE IInv'
<1>1. /\ flight' = flight /\ queue' = queue /\ listener' = listener /\ asked' = asked
      /\ ended' = ended /\ line' = line /\ writes' = writes /\ sendbuf' = sendbuf
      /\ spoilt' = spoilt
  BY DEF vars, clientVars, routerVars, portVars, ghostVars
<1>2. Typed' BY <1>1 DEF IInv, Typed
<1>3. WritesInOrder' BY <1>1 DEF IInv, WritesInOrder
<1>4. Ordered => Ordered' BY <1>1 DEF Ordered, Busy
<1>5. Waiting => Waiting' BY <1>1 DEF Waiting
<1>6. Matched => Matched' BY <1>1 DEF Matched, Busy, NoneCancelled
<1>7. Limit' = Limit BY <1>1 DEF Limit
<1> QED BY <1>2, <1>3, <1>4, <1>5, <1>6, <1>7 DEF IInv

(* The request of a client is given up: its session ends or it cancels.    *)
LEMMA GivenUp ==
  ASSUME IInv, Limit, NEW c \in Sessions, asked' = [asked EXCEPT ![c] = 0],
         ended' = IF asked[c] = 0 THEN ended ELSE [ended EXCEPT ![asked[c]] = "cancelled"],
         flight' = flight, queue' = queue, listener' = listener, line' = line,
         writes' = writes, sendbuf' = sendbuf
  PROVE  IInv'
<1> USE Constants
<1>0. Typed /\ Ordered /\ Waiting /\ Matched /\ WritesInOrder BY DEF IInv
<1>1. CASE asked[c] = 0
  <2>1. asked' = asked BY <1>0, <1>1 DEF Typed
  <2> QED BY <1>1, <2>1, Elsewhere
<1>2. CASE asked[c] # 0
  <2>1. asked[c] \in 1..MaxWrites /\ ended[asked[c]] = "no" BY <1>0, <1>2 DEF Typed, Waiting
  <2>2. /\ ended'[asked[c]] = "cancelled"
        /\ \A m \in 1..MaxWrites : m # asked[c] => ended'[m] = ended[m]
    BY <1>0, <1>2, <2>1 DEF Typed
  <2>3. asked'[c] = 0 /\ \A d \in Sessions : d # c => asked'[d] = asked[d] BY <1>0 DEF Typed
  <2>4. ~NoneCancelled' BY <2>1, <2>2 DEF NoneCancelled
  <2>5. Typed' BY <1>0, <1>2, <2>1 DEF Typed
  <2>6. WritesInOrder' BY <1>0, <2>4 DEF WritesInOrder, NoneCancelled
  <2>7. Ordered' BY <1>0 DEF Ordered, Busy
  <2>8. Waiting' BY <1>0, <2>1, <2>2, <2>3 DEF Waiting, Typed
  <2>9. Matched' BY <2>4 DEF Matched
  <2> QED BY <2>5, <2>6, <2>7, <2>8, <2>9 DEF IInv
<1> QED BY <1>1, <1>2

(* The port or the server is gone, and with it the write in flight.        *)
LEMMA Emptied ==
  ASSUME IInv, Limit, flight' = NoFlight, queue' = <<>>, sendbuf' \in 0..MaxWrites,
         listener' = NoSession, asked' = asked, ended' = ended, line' = line, writes' = writes
  PROVE  IInv'
<1> USE Constants
<1>1. NoFlight \in Flights /\ ~Busy' /\ NoFlight.of = 0 /\ NoFlight.src = "none"
  BY DEF NoFlight, Flights, Busy
<1>2. Typed' BY <1>1 DEF IInv, Typed
<1>3. WritesInOrder' BY DEF IInv, WritesInOrder
<1>4. Ordered' BY <1>1 DEF IInv, Ordered, Typed
<1>5. Waiting' BY DEF IInv, Waiting
<1>6. Matched' BY <1>1 DEF Matched
<1> QED BY <1>2, <1>3, <1>4, <1>5, <1>6 DEF IInv

LEMMA WriteMsgStep ==
  ASSUME IInv, Limit, NEW c \in Sessions, WriteMsg(c)
  PROVE  IInv'
<1> USE Constants
<1>0. Typed /\ Ordered /\ Waiting /\ Matched /\ WritesInOrder BY DEF IInv
<1> DEFINE m == writes + 1
<1>1. /\ asked[c] = 0 /\ writes < MaxWrites /\ writes' = m /\ sendbuf' = m
      /\ asked' = [asked EXCEPT ![c] = m] /\ DoWriteMessage(c, m)
      /\ line' = line /\ ended' = ended /\ spoilt' = spoilt
  BY DEF WriteMsg, ghostVars
<1>2. m \in 1..MaxWrites /\ writes \in Nat BY <1>0, <1>1 DEF Typed
<1>3. asked'[c] = m /\ \A d \in Sessions : d # c => asked'[d] = asked[d]
  BY <1>0, <1>1 DEF Typed
<1>4. \A d \in Sessions : asked[d] \in Nat /\ asked[d] < m
  BY <1>0, <1>2 DEF Waiting, Typed
<1>5. /\ writes' \in 0..MaxWrites /\ sendbuf' \in 0..MaxWrites
      /\ asked' \in [Sessions -> 0..MaxWrites]
  BY <1>0, <1>1, <1>2 DEF Typed
<1>6. WritesInOrder' BY <1>0, <1>1 DEF WritesInOrder
<1>7. Waiting'
  <2>1. \A d, e \in Sessions : asked'[d] = asked'[e] => d = e \/ asked'[d] = 0
    BY <1>0, <1>3, <1>4 DEF Waiting
  <2>2. \A k \in 1..MaxWrites : k > m => ended'[k] = "no" BY <1>0, <1>1, <1>2 DEF Waiting
  <2>3. \A d \in Sessions : asked'[d] <= m /\ (asked'[d] # 0 => ended'[asked'[d]] = "no")
    BY <1>0, <1>1, <1>2, <1>3, <1>4 DEF Waiting
  <2> QED BY <1>1, <2>1, <2>2, <2>3 DEF Waiting
<1>8. NoneCancelled' = NoneCancelled BY <1>1 DEF NoneCancelled
<1>9. /\ flight.of \in Nat /\ Len(queue) \in Nat /\ queue \in Seq(Entries)
      /\ \A i \in DOMAIN queue : queue[i].msg \in Nat /\ queue[i].by \in Sessions
      /\ \A i \in DOMAIN line : line[i].of \in Nat
  BY <1>0, Shapes
<1>10. CASE Busy
  <2> DEFINE e == [msg |-> m, by |-> c]
  <2>1. queue' = Append(queue, e) /\ listener' = listener /\ flight' = flight
    BY <1>1, <1>10 DEF DoWriteMessage
  <2>2. e \in Entries /\ e.msg = m /\ e.by = c BY <1>2 DEF Entries
  <2> HIDE DEF e, m
  <2>3. /\ queue' \in Seq(Entries) /\ DOMAIN queue' = 1..(Len(queue) + 1)
        /\ DOMAIN queue = 1..Len(queue)
        /\ queue'[Len(queue) + 1] = e /\ \A i \in DOMAIN queue : queue'[i] = queue[i]
    BY <1>9, <2>1, <2>2
  <2>4. Typed' BY <1>0, <1>1, <1>5, <2>1, <2>3 DEF Typed
  <2>5. \A i \in DOMAIN queue' : i \in DOMAIN queue \/ (i = Len(queue) + 1 /\ queue'[i] = e)
    BY <2>3
  <2>6. Ordered'
    <3>1. \A i, j \in DOMAIN queue' : i < j => queue'[i].msg < queue'[j].msg
      <4>1. SUFFICES ASSUME NEW i \in DOMAIN queue', NEW j \in DOMAIN queue', i < j
                     PROVE  queue'[i].msg < queue'[j].msg
        OBVIOUS
      <4>2. i \in DOMAIN queue BY <2>3, <4>1
      <4>3. CASE j \in DOMAIN queue BY <1>0, <2>3, <4>1, <4>2, <4>3 DEF Ordered
      <4>4. CASE j \notin DOMAIN queue
        <5>1. queue[i].msg <= writes BY <1>0, <4>2 DEF Ordered
        <5> QED BY <1>2, <1>9, <2>2, <2>3, <2>5, <4>2, <4>4, <5>1 DEF m
      <4> QED BY <4>3, <4>4
    <3>2. \A i \in DOMAIN queue' : flight.of < queue'[i].msg /\ queue'[i].msg <= m
      BY <1>0, <1>2, <1>9, <2>2, <2>3, <2>5 DEF Ordered, m
    <3>3. flight.of <= m /\ \A i \in DOMAIN line : line[i].of <= m
      BY <1>0, <1>2, <1>9 DEF Ordered, m
    <3> QED BY <1>0, <1>1, <1>10, <2>1, <3>1, <3>2, <3>3 DEF Ordered, Busy
  <2>7. Matched'
    <3>1. SUFFICES ASSUME NoneCancelled
                   PROVE  /\ listener \in Sessions /\ asked'[listener] = flight.of
                          /\ \A i \in DOMAIN queue' : asked'[queue'[i].by] = queue'[i].msg
      BY <1>8, <2>1 DEF Matched, Busy
    <3>2. listener \in Sessions /\ asked[listener] = flight.of /\ listener # c
      BY <1>0, <1>1, <1>10, <3>1 DEF Matched, Busy
    <3>3. \A i \in DOMAIN queue : asked[queue[i].by] = queue[i].msg /\ queue[i].by # c
      BY <1>0, <1>1, <1>9, <3>1 DEF Matched, Ordered
    <3> QED BY <1>3, <1>9, <2>2, <2>3, <2>5, <3>2, <3>3
  <2> QED BY <1>6, <1>7, <2>4, <2>6, <2>7 DEF IInv
<1>11. CASE ~Busy
  <2>1. /\ listener' = c /\ queue' = queue /\ queue = <<>>
        /\ flight' = [of |-> m, src |-> "buffer", data |-> 0]
    BY <1>0, <1>1, <1>11 DEF DoWriteMessage, Ordered
  <2>2. flight' \in Flights /\ flight'.of = m /\ flight'.src = "buffer"
    BY <1>2, <2>1 DEF Flights
  <2>3. Typed' BY <1>0, <1>1, <1>2, <1>5, <2>1, <2>2 DEF Typed
  <2>4. Ordered' BY <1>0, <1>1, <1>2, <1>9, <2>1, <2>2 DEF Ordered, Busy
  <2>5. Matched' BY <1>3, <2>1, <2>2 DEF Matched, Busy
  <2> QED BY <1>6, <1>7, <2>3, <2>4, <2>5 DEF IInv
<1> QED BY <1>10, <1>11

LEMMA FetchStep == ASSUME IInv, Limit, Fetch PROVE IInv'
<1> USE Constants
<1>0. Typed /\ Ordered /\ Waiting /\ Matched /\ WritesInOrder BY DEF IInv
<1>1. /\ listener' = listener /\ queue' = queue /\ asked' = asked /\ ended' = ended
      /\ line' = line /\ writes' = writes /\ sendbuf' = sendbuf /\ spoilt' = spoilt
  BY DEF Fetch, clientVars, routerVars, ghostVars
<1>2. /\ flight.src # "none" /\ flight' \in Flights /\ flight'.of = flight.of
      /\ flight'.src = "done"
  <2>1. PICK d \in 0..MaxWrites :
          /\ flight.src \in {"buffer", "entry"}
          /\ flight' = [flight EXCEPT !.src = "done", !.data = d]
    <3>1. flight.of \in 0..MaxWrites /\ sendbuf \in 0..MaxWrites /\ 0 \in 0..MaxWrites
      BY <1>0, Shapes DEF Typed
    <3> QED BY <3>1 DEF Fetch
  <2> QED BY <1>0, <2>1 DEF Typed, Flights
<1>3. Busy' = Busy BY <1>2 DEF Busy
<1>4. Typed' BY <1>0, <1>1, <1>2 DEF Typed
<1>5. WritesInOrder' BY <1>0, <1>1 DEF WritesInOrder
<1>6. Ordered' BY <1>0, <1>1, <1>2, <1>3 DEF Ordered
<1>7. Waiting' BY <1>0, <1>1 DEF Waiting
<1>8. Matched' BY <1>0, <1>1, <1>2, <1>3 DEF Matched, NoneCancelled
<1> QED BY <1>4, <1>5, <1>6, <1>7, <1>8 DEF IInv

LEMMA WriteCompleteStep == ASSUME IInv, Limit, WriteComplete PROVE IInv'
<1> USE Constants
<1>0. Typed /\ Ordered /\ Waiting /\ Matched /\ WritesInOrder BY DEF IInv
<1> DEFINE m == IF listener = NoSession THEN 0 ELSE asked[listener]
           w == flight.of
           sent == [of |-> w, data |-> flight.data]
<1>1. /\ flight.src = "done" /\ line' = Append(line, sent) /\ NextWrite
      /\ asked' = IF m = 0 THEN asked ELSE [asked EXCEPT ![listener] = 0]
      /\ ended' = IF m = 0 THEN ended ELSE [ended EXCEPT ![m] = "done"]
      /\ writes' = writes /\ sendbuf' = sendbuf
  BY DEF WriteComplete
<1>2. /\ w \in 1..MaxWrites /\ flight.data \in 0..MaxWrites /\ Busy
      /\ sent \in Sent /\ sent.of = w
  BY <1>0, <1>1 DEF Typed, Flights, Busy, Sent
<1>3. /\ m \in 0..MaxWrites /\ (m # 0 => listener \in Sessions /\ asked[listener] = m)
  BY <1>0 DEF Typed
<1>4. /\ m # 0 => asked'[listener] = 0
      /\ \A d \in Sessions : m = 0 \/ d # listener => asked'[d] = asked[d]
      /\ asked' \in [Sessions -> 0..MaxWrites]
  BY <1>0, <1>1, <1>3 DEF Typed
<1>5. /\ m # 0 => ended'[m] = "done" /\ ended[m] = "no"
      /\ \A k \in 1..MaxWrites : k # m => ended'[k] = ended[k]
      /\ ended' \in [1..MaxWrites -> {"no", "cancelled", "done"}]
  BY <1>0, <1>1, <1>3 DEF Typed, Waiting
<1>6. NoneCancelled' <=> NoneCancelled
  BY <1>3, <1>5 DEF NoneCancelled
<1> HIDE DEF m, w, sent
<1>7. /\ line' \in Seq(Sent) /\ Len(line) \in Nat
      /\ DOMAIN line' = 1..(Len(line) + 1) /\ DOMAIN line = 1..Len(line)
      /\ line'[Len(line) + 1] = sent /\ \A i \in DOMAIN line : line'[i] = line[i]
      /\ \A i \in DOMAIN line : line[i].of \in Nat
  <2>1. line \in Seq(Sent) BY <1>0 DEF Typed
  <2>2. \A i \in DOMAIN line : line[i].of \in Nat BY <1>0, Shapes
  <2> QED BY <1>1, <1>2, <2>1, <2>2
<1>8. \A i \in DOMAIN line' : i \in DOMAIN line \/ (i = Len(line) + 1 /\ line'[i] = sent)
  BY <1>7
<1>9. /\ Len(queue) \in Nat /\ queue \in Seq(Entries) /\ writes \in Nat
      /\ \A i \in DOMAIN queue : queue[i] \in Entries /\ queue[i].msg \in 1..MaxWrites
                                /\ queue[i].by \in Sessions
  BY <1>0, Shapes
<1>10. WritesInOrder'
  <2>1. \A i, j \in DOMAIN line' : i < j => line'[i].of < line'[j].of
    <3>1. SUFFICES ASSUME NEW i \in DOMAIN line', NEW j \in DOMAIN line', i < j
                   PROVE  line'[i].of < line'[j].of
      OBVIOUS
    <3>2. i \in DOMAIN line BY <1>7, <3>1
    <3>3. CASE j \in DOMAIN line BY <1>0, <1>7, <3>1, <3>2, <3>3 DEF WritesInOrder
    <3>4. CASE j \notin DOMAIN line
      <4>1. line[i].of < w BY <1>0, <1>2, <3>2 DEF Ordered, w
      <4> QED BY <1>2, <1>7, <1>8, <3>2, <3>4, <4>1
    <3> QED BY <3>3, <3>4
  <2>2. ASSUME NoneCancelled', NEW k \in 1..MaxWrites, ended'[k] = "done"
        PROVE  \E i \in DOMAIN line' : line'[i].of = k
    <3>1. CASE k = m
      <4>1. listener \in Sessions /\ asked[listener] = k BY <1>3, <3>1
      <4>2. k = w BY <1>0, <1>2, <1>6, <2>2, <4>1 DEF Matched, w
      <4> QED BY <1>2, <1>7, <4>2
    <3>2. CASE k # m
      <4>1. ended[k] = "done" BY <1>5, <2>2, <3>2
      <4>2. PICK i \in DOMAIN line : line[i].of = k
        BY <1>0, <1>6, <2>2, <4>1 DEF WritesInOrder, NoneCancelled
      <4> QED BY <1>7, <4>2
    <3> QED BY <3>1, <3>2
  <2> QED BY <2>1, <2>2 DEF WritesInOrder, NoneCancelled
<1>11. Waiting'
  <2>1. \A d \in Sessions : asked'[d] = asked[d] \/ asked'[d] = 0
    BY <1>4
  <2>2. \A d \in Sessions : asked'[d] # 0 => asked'[d] # m
    <3>1. SUFFICES ASSUME NEW d \in Sessions, asked'[d] # 0, asked'[d] = m PROVE FALSE
      OBVIOUS
    <3>2. m # 0 /\ d # listener BY <1>4, <3>1
    <3>3. asked[d] = m /\ asked[listener] = m /\ listener \in Sessions BY <1>3, <1>4, <3>1, <3>2
    <3> QED BY <1>0, <3>2, <3>3 DEF Waiting
  <2>3. \A d \in Sessions : asked'[d] \in 0..MaxWrites BY <1>4
  <2>4. \A d, e \in Sessions : asked'[d] = asked'[e] => d = e \/ asked'[d] = 0
    BY <1>0, <2>1 DEF Waiting
  <2>5. \A d \in Sessions : asked'[d] # 0 => ended'[asked'[d]] = "no"
    BY <1>0, <1>5, <2>1, <2>2, <2>3 DEF Waiting
  <2>6. \A k \in 1..MaxWrites : k > writes => ended'[k] = "no"
    <3>1. m <= writes BY <1>0, <1>3, <1>9 DEF Waiting
    <3> QED BY <1>0, <1>3, <1>5, <1>9, <3>1 DEF Waiting
  <2>7. \A d \in Sessions : asked'[d] <= writes BY <1>0, <1>9, <2>1, <2>3 DEF Waiting
  <2> QED BY <1>1, <2>4, <2>5, <2>6, <2>7 DEF Waiting
<1>12. CASE queue = <<>>
  <2>1. listener' = NoSession /\ flight' = NoFlight /\ queue' = queue
    BY <1>1, <1>12 DEF NextWrite
  <2>2. /\ flight' \in Flights /\ flight'.of = 0 /\ flight'.src = "none" /\ ~Busy'
    BY <2>1 DEF NoFlight, Flights, Busy
  <2>3. Typed' BY <1>0, <1>1, <1>4, <1>5, <1>7, <2>1, <2>2 DEF Typed
  <2>4. Ordered' 
    <3>1. \A i \in DOMAIN line' : line'[i].of <= writes
      BY <1>0, <1>2, <1>7, <1>8, <1>9 DEF Ordered, w
    <3> QED BY <1>1, <1>9, <1>12, <2>1, <2>2, <3>1 DEF Ordered
  <2>5. Matched' BY <1>12, <2>1, <2>2 DEF Matched
  <2> QED BY <1>10, <1>11, <2>3, <2>4, <2>5 DEF IInv
<1>13. CASE queue # <<>>
  <2>1. /\ listener' = Head(queue).by /\ queue' = Tail(queue)
        /\ flight' = [of |-> Head(queue).msg, src |-> "entry", data |-> 0]
    BY <1>1, <1>13 DEF NextWrite
  <2>2. /\ Len(queue) >= 1 /\ 1 \in DOMAIN queue /\ Head(queue) = queue[1]
        /\ DOMAIN queue = 1..Len(queue)
        /\ queue' \in Seq(Entries) /\ DOMAIN queue' = 1..(Len(queue) - 1)
        /\ \A i \in DOMAIN queue' : i + 1 \in DOMAIN queue /\ queue'[i] = queue[i + 1]
    BY <1>9, <1>13, <2>1
  <2>3. /\ flight' \in Flights /\ flight'.of = queue[1].msg /\ flight'.src = "entry"
        /\ listener' = queue[1].by /\ listener' \in Sessions /\ flight'.of \in 1..MaxWrites
        /\ Busy'
    BY <1>9, <2>1, <2>2 DEF Flights, Busy
  <2>4. Typed'
    <3>1. flight'.of = 0 <=> flight'.src = "none" BY <2>3
    <3> QED BY <1>0, <1>1, <1>4, <1>5, <1>7, <2>2, <2>3, <3>1 DEF Typed
  <2>5. Ordered'
    <3>1. w < queue[1].msg /\ queue[1].msg <= writes BY <1>0, <2>2 DEF Ordered, w
    <3>2. \A i \in DOMAIN line' : line'[i].of <= writes /\ line'[i].of < queue[1].msg
      <4>1. ASSUME NEW i \in DOMAIN line PROVE line[i].of <= writes /\ line[i].of < queue[1].msg
        <5>1. line[i].of < w BY <1>0, <1>2, <4>1 DEF Ordered, w
        <5>2. queue[1].msg \in Nat /\ line[i].of \in Nat /\ w \in Nat
          BY SMTT(30), <1>2, <1>7, <1>9, <2>2, <4>1
        <5> QED BY <1>9, <3>1, <5>1, <5>2
      <4>2. ASSUME NEW i \in DOMAIN line' PROVE line'[i].of <= writes /\ line'[i].of < queue[1].msg
        <5>1. CASE i \in DOMAIN line BY <1>7, <4>1, <5>1
        <5>2. CASE i \notin DOMAIN line
          <6>1. line'[i].of = w BY <1>2, <1>8, <4>2, <5>2
          <6>2. queue[1].msg \in Nat /\ w \in Nat BY <1>2, <1>9, <2>2
          <6> QED BY <1>9, <3>1, <6>1, <6>2
        <5> QED BY <5>1, <5>2
      <4> QED BY <4>2
    <3>3. \A i, j \in DOMAIN queue' : i < j => queue'[i].msg < queue'[j].msg
      BY <1>0, <2>2 DEF Ordered
    <3>4. \A i \in DOMAIN queue' : queue[1].msg < queue'[i].msg /\ queue'[i].msg <= writes
      BY <1>0, <2>2 DEF Ordered
    <3> QED BY <1>1, <2>3, <3>1, <3>2, <3>3, <3>4 DEF Ordered
  <2>6. Matched'
    <3>1. SUFFICES ASSUME NoneCancelled
                   PROVE  /\ asked'[queue[1].by] = queue[1].msg
                          /\ \A i \in DOMAIN queue' : asked'[queue'[i].by] = queue'[i].msg
      BY <1>6, <2>3 DEF Matched
    <3>2. listener \in Sessions /\ asked[listener] = w /\ m = w
      BY <1>0, <1>2, <3>1 DEF Matched, w, m
    <3>3. \A i \in DOMAIN queue : asked[queue[i].by] = queue[i].msg /\ queue[i].by # listener
      <4>1. \A i \in DOMAIN queue : asked[queue[i].by] = queue[i].msg /\ w < queue[i].msg
        BY <1>0, <3>1 DEF Matched, Ordered, w
      <4> QED BY <1>2, <1>9, <3>2, <4>1
    <3>4. \A i \in DOMAIN queue : asked'[queue[i].by] = queue[i].msg BY <1>4, <1>9, <3>3
    <3> QED BY <2>2, <3>4
  <2> QED BY <1>10, <1>11, <2>4, <2>5, <2>6 DEF IInv
<1> QED BY <1>12, <1>13

LEMMA Starts == Init => IInv
<1> SUFFICES ASSUME Init PROVE IInv OBVIOUS
<1> USE Constants
<1>1. /\ asked = [c \in Sessions |-> 0] /\ sendbuf = 0 /\ queue = <<>> /\ listener = NoSession
      /\ flight = NoFlight /\ writes = 0 /\ line = <<>>
      /\ ended = [m \in 1..MaxWrites |-> "no"]
  BY DEF Init
<1>2. flight \in Flights /\ flight.of = 0 /\ flight.src = "none" /\ ~Busy
  BY <1>1 DEF NoFlight, Flights, Busy
<1>3. Typed BY <1>1, <1>2 DEF Typed
<1>4. WritesInOrder BY <1>1 DEF WritesInOrder
<1>5. Ordered BY <1>1, <1>2 DEF Ordered
<1>6. Waiting BY <1>1 DEF Waiting
<1>7. Matched BY <1>1, <1>2 DEF Matched
<1> QED BY <1>3, <1>4, <1>5, <1>6, <1>7 DEF IInv

LEMMA Kept == IInv /\ [Next]_vars => IInv'
<1> SUFFICES ASSUME IInv, [Next]_vars PROVE IInv' OBVIOUS
<1> USE DEF clientVars, routerVars, portVars, ghostVars
<1>1. ASSUME NEW c \in Sessions, Limit, Connect(c) PROVE IInv' BY <1>1, Elsewhere DEF Connect
<1>2. ASSUME NEW c \in Sessions, Limit, EndSession(c) PROVE IInv'
  BY <1>2, GivenUp DEF EndSession, UnRegister
<1>3. ASSUME NEW c \in Sessions, Limit, OpenPort(c) PROVE IInv' BY <1>3, Elsewhere DEF OpenPort
<1>4. ASSUME NEW c \in Sessions, Limit, ClosePort(c) PROVE IInv'
  <2>1. /\ queue' = queue /\ listener' = listener /\ asked' = asked /\ ended' = ended
        /\ line' = line /\ writes' = writes /\ sendbuf' = sendbuf
    BY <1>4 DEF ClosePort
  <2>2. CASE flight' = flight BY <1>4, <2>1, <2>2, Elsewhere
  <2>3. CASE flight' # flight
    <3>1. flight' = NoFlight /\ flight # NoFlight BY <1>4, <2>3 DEF ClosePort
    <3>2. spoilt' = "cutoff" BY <1>4, <2>3, <3>1 DEF ClosePort
    <3>3. ~Limit' BY <3>2 DEF Limit
    <3>4. NoFlight \in Flights /\ NoFlight.of = 0 /\ NoFlight.src = "none"
      BY Constants DEF NoFlight, Flights
    <3>5. Typed' BY <2>1, <3>1, <3>4 DEF IInv, Typed
    <3>6. WritesInOrder' BY <2>1 DEF IInv, WritesInOrder
    <3> QED BY <3>3, <3>5, <3>6 DEF IInv
  <2> QED BY <2>2, <2>3
<1>5. ASSUME NEW c \in Sessions, NEW p \in Protocols, Limit, Register(c, p) PROVE IInv'
  BY <1>5, Elsewhere DEF Register
<1>6. ASSUME NEW c \in Sessions, NEW p \in Protocols, Limit, UnRegisterProtocol(c, p) PROVE IInv'
  BY <1>6, Elsewhere DEF UnRegisterProtocol
<1>7. ASSUME NEW c \in Sessions, Limit, ReadMsg(c) PROVE IInv' BY <1>7, Elsewhere DEF ReadMsg
<1>8. ASSUME NEW c \in Sessions, Limit, ReadCancel(c) PROVE IInv'
  BY <1>8, Elsewhere DEF ReadCancel
<1>9. ASSUME NEW c \in Sessions, Limit, WriteMsg(c) PROVE IInv' BY <1>9, WriteMsgStep
<1>10. ASSUME NEW c \in Sessions, Limit, WriteCancel(c) PROVE IInv'
  <2>1. asked[c] # 0 /\ asked' = [asked EXCEPT ![c] = 0]
        /\ ended' = [ended EXCEPT ![asked[c]] = "cancelled"]
    BY <1>10 DEF WriteCancel
  <2> QED BY <1>10, <2>1, GivenUp DEF WriteCancel
<1>11. CASE Limit /\ Shutdown
  <2>1. sendbuf' \in 0..MaxWrites BY <1>11, Constants DEF Shutdown
  <2> QED BY <1>11, <2>1, Emptied DEF Shutdown
<1>12. CASE Limit /\ DataAvailable BY <1>12, Elsewhere DEF DataAvailable
<1>13. CASE Limit /\ (Fetch \/ WriteComplete) BY <1>13, FetchStep, WriteCompleteStep
<1>14. CASE UNCHANGED vars BY <1>14, Stutters
<1> QED
  BY <1>1, <1>2, <1>3, <1>4, <1>5, <1>6, <1>7, <1>8, <1>9, <1>10, <1>11, <1>12, <1>13, <1>14
  DEF Next

(* CmdWriteMsgL, DataWriteComplete and WriteComplete: writes reach the     *)
(* line once each and as they were issued; a client that does not cancel   *)
(* is told of success only after its own write.                            *)
THEOREM LineInOrder == Spec => []WritesInOrder
<1>1. Init => IInv BY Starts
<1>2. IInv /\ [Next]_vars => IInv' BY Kept
<1>3. IInv => WritesInOrder BY DEF IInv
<1> QED BY <1>1, <1>2, <1>3, PTL DEF Spec

-------------------------------------------------------------------------------
(* Who is heard.                                                           *)

Registrations == [prot : Protocols, by : Sessions]

(* The port is open as long as a session that has opened it is left, a     *)
(* session finds its protocols in the registry, and the reader works for   *)
(* everybody who waits.                                                    *)
Connected ==
  /\ session \in [Sessions -> {"none", "open", "closing", "closed"}]
  /\ using \subseteq {c \in Sessions : session[c] = "open"} /\ IsFiniteSet(using)
  /\ port \in [open : BOOLEAN, connections : Nat] /\ Cardinality(using) <= port.connections
  /\ using # {} => port.open
  /\ server.timer => \A c \in Sessions : ~Alive(c)
  /\ server \in [up : BOOLEAN, timer : BOOLEAN]

Registered ==
  /\ registry \in Seq(Registrations) /\ ids \in [Sessions -> Seq(Protocols)]
  /\ \A e, f \in ToSet(registry) : e.prot = f.prot => e = f
  /\ \A c \in Sessions : \A i \in DOMAIN ids[c] :
       Alive(c) /\ [prot |-> ids[c][i], by |-> c] \in ToSet(registry)
  /\ \A c \in Sessions : \A i, j \in DOMAIN ids[c] : ids[c][i] = ids[c][j] => i = j

Served ==
  /\ reads \in [Sessions -> {"no", "small", "large"}] /\ reading \in BOOLEAN
  /\ \A c \in Sessions :
       /\ session[c] = "open" /\ reads[c] # "no" => c \in using /\ ids[c] # <<>> /\ reading
       /\ session[c] = "none" => reads[c] = "no"

HInv == Limit => Connected /\ Registered /\ Served

LEMMA FirstIn ==
  ASSUME NEW S \in SUBSET Nat, S # {}
  PROVE  \E i \in S : \A j \in S : i <= j
<1> DEFINE R == {ss \in Nat \X Nat : ss[1] < ss[2]}
<1>1. IsWellFoundedOn(R, Nat) BY NatLessThanWellFounded DEF OpToRel
<1>2. PICK x \in S : \A y \in S : ~(<<y, x>> \in R)
  <2> HIDE DEF R
  <2> QED BY <1>1, WFMin
<1>3. ASSUME NEW y \in S PROVE x <= y
  <2>1. <<y, x>> \notin R BY <1>2
  <2> QED BY <2>1
<1> QED BY <1>3

LEMMA WithoutAllIs ==
  ASSUME NEW reg, NEW ps \in Seq(Protocols)
  PROVE  \E left : /\ left[0] = reg /\ WithoutAll(reg, ps) = left[Len(ps)]
                   /\ \A n \in 1..Len(ps) : left[n] = Without(left[n - 1], ps[n])
<1> DEFINE N == Len(ps)
           Is(f, k) == f = [n \in 0..k |-> IF n = 0 THEN reg ELSE Without(f[n - 1], ps[n])]
           Bad == {k \in 0..N : ~\E f : Is(f, k)}
<1>0. N \in Nat OBVIOUS
<1> HIDE DEF N
<1>1. Bad = {}
  <2>1. SUFFICES ASSUME Bad # {} PROVE FALSE OBVIOUS
  <2>2. PICK k \in Bad : \A j \in Bad : k <= j
    <3>1. Bad \in SUBSET Nat BY <1>0
    <3> HIDE DEF Bad
    <3> QED BY <2>1, <3>1, FirstIn
  <2>3. k # 0
    <3> DEFINE g == [n \in 0..0 |-> reg]
    <3>1. Is(g, 0) BY DEF Is
    <3> QED BY <3>1
  <2>4. k - 1 \in 0..N /\ k - 1 \notin Bad BY <1>0, <2>2, <2>3
  <2>5. PICK f : Is(f, k - 1) BY <2>4
  <2> DEFINE g == [n \in 0..k |-> IF n = k THEN Without(f[k - 1], ps[k]) ELSE f[n]]
  <2>6. k \in Nat /\ k >= 1 BY <1>0, <2>2, <2>3
  <2>7. /\ \A n \in 0..(k - 1) : g[n] = f[n]
        /\ g[k] = Without(f[k - 1], ps[k])
    BY <2>6
  <2>8. f[0] = reg /\ \A n \in 1..(k - 1) : f[n] = Without(f[n - 1], ps[n])
    BY <2>5, <2>6 DEF Is
  <2>9. \A n \in 0..k : g[n] = IF n = 0 THEN reg ELSE Without(g[n - 1], ps[n])
    BY <2>6, <2>7, <2>8
  <2>10. g = [n \in 0..k |-> g[n]] OBVIOUS
  <2> HIDE DEF g
  <2>11. Is(g, k) BY <2>9, <2>10
  <2> QED BY <2>2, <2>11
<1>2. N \notin Bad BY <1>1
<1>3. PICK f : Is(f, N) BY <1>0, <1>2
<1> DEFINE left == CHOOSE h : Is(h, N)
<1>4. Is(left, N) BY <1>3
<1>5. WithoutAll(reg, ps) = left[N] BY DEF WithoutAll, N
<1> HIDE DEF left
<1>6. left[0] = reg /\ \A n \in 1..N : left[n] = Without(left[n - 1], ps[n])
  BY <1>0, <1>4 DEF Is
<1> QED BY <1>5, <1>6 DEF N

LEMMA RemovedAt ==
  ASSUME NEW R, NEW s \in Seq(R), NEW i \in 1..Len(s)
  PROVE  /\ RemoveAt(s, i) \in Seq(R) /\ Len(RemoveAt(s, i)) = Len(s) - 1
         /\ \A j \in 1..(Len(s) - 1) : RemoveAt(s, i)[j] = IF j < i THEN s[j] ELSE s[j + 1]
<1> DEFINE a == SubSeq(s, 1, i - 1)
           b == SubSeq(s, i + 1, Len(s))
<1>1. /\ a \in Seq(R) /\ Len(a) = i - 1
      /\ \A j \in 1..(i - 1) : a[j] = s[j]
  OBVIOUS
<1>2. /\ b \in Seq(R) /\ Len(b) = Len(s) - i
      /\ \A j \in 1..(Len(s) - i) : b[j] = s[i + j]
  OBVIOUS
<1> HIDE DEF a, b
<1>3. /\ a \o b \in Seq(R) /\ Len(a \o b) = Len(s) - 1
      /\ \A j \in 1..(Len(s) - 1) : (a \o b)[j] = IF j < i THEN a[j] ELSE b[j - (i - 1)]
  BY <1>1, <1>2
<1>4. \A j \in 1..(Len(s) - 1) : (a \o b)[j] = IF j < i THEN s[j] ELSE s[j + 1]
  BY <1>1, <1>2, <1>3
<1>5. RemoveAt(s, i) = a \o b BY DEF RemoveAt, a, b
<1> QED BY <1>3, <1>4, <1>5

LEMMA WithoutKeeps ==
  ASSUME NEW reg \in Seq(Registrations), NEW p
  PROVE  /\ Without(reg, p) \in Seq(Registrations)
         /\ ToSet(Without(reg, p)) \subseteq ToSet(reg)
         /\ \A e \in ToSet(reg) : e.prot # p => e \in ToSet(Without(reg, p))
<1> DEFINE I == {k \in 1..Len(reg) : reg[k].prot = p}
           i == IF I # {} THEN Min(I) ELSE 0
<1>1. Without(reg, p) = IF i = 0 THEN reg ELSE RemoveAt(reg, i) BY DEF Without, SelectInSeq
<1>2. i = 0 \/ i \in I
  <2>1. CASE I # {}
    <3>1. \E x \in I : \A y \in I : x <= y
      <4>1. I \in SUBSET Nat OBVIOUS
      <4> HIDE DEF I
      <4> QED BY <2>1, <4>1, FirstIn
    <3> QED BY <2>1, <3>1 DEF Min
  <2> QED BY <2>1
<1>3. i = 0 \/ (i \in 1..Len(reg) /\ reg[i].prot = p) BY <1>2
<1> HIDE DEF i
<1>4. CASE i = 0 BY <1>1, <1>4
<1>5. CASE i # 0
  <2> DEFINE r == RemoveAt(reg, i)
  <2>1. /\ r \in Seq(Registrations) /\ Len(r) = Len(reg) - 1 /\ i \in 1..Len(reg)
        /\ \A j \in 1..(Len(reg) - 1) : r[j] = IF j < i THEN reg[j] ELSE reg[j + 1]
    BY <1>3, <1>5, RemovedAt
  <2> HIDE DEF r
  <2>2. ToSet(r) \subseteq ToSet(reg) BY <2>1 DEF ToSet
  <2>3. ASSUME NEW e \in ToSet(reg), e.prot # p PROVE e \in ToSet(r)
    <3>1. PICK k \in 1..Len(reg) : e = reg[k] BY DEF ToSet
    <3>2. k # i BY <1>3, <2>3, <3>1, <1>5
    <3>3. CASE k < i
      <4>1. k \in 1..(Len(reg) - 1) /\ r[k] = e BY <2>1, <3>1, <3>3
      <4> QED BY <2>1, <4>1 DEF ToSet
    <3>4. CASE k > i
      <4>1. k - 1 \in 1..(Len(reg) - 1) /\ r[k - 1] = e BY <2>1, <3>1, <3>4
      <4> QED BY <2>1, <4>1 DEF ToSet
    <3> QED BY <2>1, <3>2, <3>3, <3>4
  <2> QED BY <1>1, <1>5, <2>1, <2>2, <2>3 DEF r
<1> QED BY <1>4, <1>5

LEMMA WithoutAllKeeps ==
  ASSUME NEW reg \in Seq(Registrations), NEW ps \in Seq(Protocols)
  PROVE  /\ WithoutAll(reg, ps) \in Seq(Registrations)
         /\ ToSet(WithoutAll(reg, ps)) \subseteq ToSet(reg)
         /\ \A e \in ToSet(reg) :
              (\A n \in DOMAIN ps : ps[n] # e.prot) => e \in ToSet(WithoutAll(reg, ps))
<1>1. PICK left : /\ left[0] = reg /\ WithoutAll(reg, ps) = left[Len(ps)]
                  /\ \A n \in 1..Len(ps) : left[n] = Without(left[n - 1], ps[n])
  BY WithoutAllIs
<1> DEFINE Fine(n) ==
             /\ left[n] \in Seq(Registrations) /\ ToSet(left[n]) \subseteq ToSet(reg)
             /\ \A e \in ToSet(reg) :
                  (\A k \in DOMAIN ps : ps[k] # e.prot) => e \in ToSet(left[n])
           Bad == {n \in 0..Len(ps) : ~Fine(n)}
<1>2. Bad = {}
  <2>1. SUFFICES ASSUME Bad # {} PROVE FALSE OBVIOUS
  <2>2. PICK k \in Bad : \A j \in Bad : k <= j
    <3>1. Bad \in SUBSET Nat OBVIOUS
    <3> HIDE DEF Bad
    <3> QED BY <2>1, <3>1, FirstIn
  <2>3. k # 0 BY <1>1
  <2>4. k \in 1..Len(ps) /\ Fine(k - 1) BY <2>2, <2>3
  <2>5. left[k] = Without(left[k - 1], ps[k]) /\ k \in DOMAIN ps BY <1>1, <2>4
  <2>6. Fine(k) BY <2>4, <2>5, WithoutKeeps
  <2> QED BY <2>2, <2>6
<1>3. Fine(Len(ps)) BY <1>2
<1> QED BY <1>1, <1>3

LEMMA ConnectHeard ==
  ASSUME Limit, HInv, NEW c \in Sessions, Connect(c)
  PROVE  HInv'
<1>0. Connected /\ Registered /\ Served BY DEF HInv
<1>1. /\ session[c] = "none" /\ session' = [session EXCEPT ![c] = "open"]
      /\ server' = [up |-> TRUE, timer |-> FALSE]
      /\ using' = using /\ ids' = ids /\ reads' = reads /\ registry' = registry
      /\ port' = port /\ reading' = reading
  BY DEF Connect, routerVars, portVars
<1>2. session'[c] = "open" /\ \A d \in Sessions : d # c => session'[d] = session[d]
  BY <1>0, <1>1 DEF Connected
<1>3. Connected'
  <2>1. session' \in [Sessions -> {"none", "open", "closing", "closed"}]
    BY <1>0, <1>1 DEF Connected
  <2>2. using' \subseteq {d \in Sessions : session'[d] = "open"} BY <1>0, <1>1, <1>2 DEF Connected
  <2>3. server' \in [up : BOOLEAN, timer : BOOLEAN] /\ ~server'.timer BY <1>1
  <2> QED BY <1>0, <1>1, <2>1, <2>2, <2>3 DEF Connected
<1>4. Registered' BY <1>0, <1>1, <1>2 DEF Registered, Alive
<1>5. Served' BY <1>0, <1>1, <1>2 DEF Served
<1> QED BY <1>3, <1>4, <1>5 DEF HInv

(* The registrations of others survive when a session withdraws its own.   *)
LEMMA OthersStay ==
  ASSUME Registered, NEW c \in Sessions, NEW d \in Sessions, c # d,
         NEW i \in DOMAIN ids[c], NEW j \in DOMAIN ids[d]
  PROVE  ids[c][i] # ids[d][j]
<1>1. /\ [prot |-> ids[c][i], by |-> c] \in ToSet(registry)
      /\ [prot |-> ids[d][j], by |-> d] \in ToSet(registry)
  BY DEF Registered
<1> SUFFICES ASSUME ids[c][i] = ids[d][j] PROVE FALSE OBVIOUS
<1>2. [prot |-> ids[c][i], by |-> c] = [prot |-> ids[d][j], by |-> d]
  BY <1>1 DEF Registered
<1> QED BY <1>2

LEMMA EndSessionHeard ==
  ASSUME Limit, HInv, NEW c \in Sessions, EndSession(c)
  PROVE  HInv'
<1>0. Connected /\ Registered /\ Served BY DEF HInv
<1> DEFINE rest == WithoutAll(registry, ids[c])
<1>1. /\ Alive(c) /\ session' = [session EXCEPT ![c] = "closed"] /\ using' = using \ {c}
      /\ ids' = [ids EXCEPT ![c] = <<>>] /\ reads' = [reads EXCEPT ![c] = "no"]
      /\ registry' = rest /\ reading' = (reading /\ rest # <<>>) /\ port' = port
      /\ server' = [server EXCEPT !.timer = @ \/ \A d \in Sessions \ {c} : ~Alive(d)]
  BY DEF EndSession, UnRegister
<1>2. ids[c] \in Seq(Protocols) /\ registry \in Seq(Registrations) BY <1>0 DEF Registered
<1>3. /\ rest \in Seq(Registrations) /\ ToSet(rest) \subseteq ToSet(registry)
      /\ \A e \in ToSet(registry) :
           (\A n \in DOMAIN ids[c] : ids[c][n] # e.prot) => e \in ToSet(rest)
  BY <1>2, WithoutAllKeeps
<1> HIDE DEF rest
<1>4. /\ session'[c] = "closed" /\ ids'[c] = <<>> /\ reads'[c] = "no"
      /\ \A d \in Sessions : d # c => /\ session'[d] = session[d] /\ ids'[d] = ids[d]
                                      /\ reads'[d] = reads[d]
      /\ ids' \in [Sessions -> Seq(Protocols)]
      /\ reads' \in [Sessions -> {"no", "small", "large"}]
      /\ session' \in [Sessions -> {"none", "open", "closing", "closed"}]
  BY <1>0, <1>1 DEF Connected, Registered, Served
<1>5. Connected'
  <2>1. IsFiniteSet(using') /\ Cardinality(using') <= Cardinality(using)
    BY <1>0, <1>1, FS_Subset DEF Connected
  <2>2. Cardinality(using) \in Nat /\ Cardinality(using') \in Nat
    BY <1>0, <2>1, FS_CardinalityType DEF Connected
  <2>3. port' \in [open : BOOLEAN, connections : Nat] /\ Cardinality(using') <= port'.connections
        /\ (using' # {} => port'.open)
    BY <1>0, <1>1, <2>1, <2>2 DEF Connected
  <2>4. using' \subseteq {d \in Sessions : session'[d] = "open"}
    BY <1>0, <1>1, <1>4 DEF Connected
  <2>5. server' \in [up : BOOLEAN, timer : BOOLEAN]
        /\ (server'.timer <=> server.timer \/ \A d \in Sessions \ {c} : ~Alive(d))
    <3> DEFINE b == \A d \in Sessions \ {c} : ~Alive(d)
    <3> HIDE DEF b
    <3>1. server' = [server EXCEPT !.timer = @ \/ b] BY <1>1 DEF b
    <3>2. server' \in [up : BOOLEAN, timer : BOOLEAN] /\ (server'.timer <=> server.timer \/ b)
      BY <1>0, <3>1 DEF Connected
    <3> QED BY <3>2 DEF b
  <2>6. server'.timer => \A d \in Sessions : ~Alive(d)'
    BY <1>0, <1>1, <1>4, <2>5 DEF Connected, Alive
  <2> QED BY <1>4, <2>1, <2>3, <2>4, <2>5, <2>6 DEF Connected
<1>6. Registered'
  <2>1. ASSUME NEW d \in Sessions, NEW i \in DOMAIN ids'[d]
        PROVE  Alive(d)' /\ [prot |-> ids'[d][i], by |-> d] \in ToSet(registry')
    <3>1. d # c BY <1>4
    <3>2. /\ i \in DOMAIN ids[d] /\ ids'[d][i] = ids[d][i] /\ Alive(d)
          /\ [prot |-> ids[d][i], by |-> d] \in ToSet(registry)
      BY <1>0, <1>4, <2>1, <3>1 DEF Registered
    <3>3. \A n \in DOMAIN ids[c] : ids[c][n] # ids[d][i] BY <1>0, <3>1, <3>2, OthersStay
    <3> QED BY <1>1, <1>3, <1>4, <3>1, <3>2, <3>3 DEF Alive
  <2>2. ASSUME NEW d \in Sessions, NEW i \in DOMAIN ids'[d], NEW j \in DOMAIN ids'[d],
               ids'[d][i] = ids'[d][j]
        PROVE  i = j
    <3>1. d # c BY <1>4
    <3>2. ids'[d] = ids[d] BY <1>4, <3>1
    <3> QED BY <1>0, <2>2, <3>2 DEF Registered
  <2>3. \A e, f \in ToSet(registry') : e.prot = f.prot => e = f
    BY <1>0, <1>1, <1>3 DEF Registered
  <2> QED BY <1>1, <1>3, <1>4, <2>1, <2>2, <2>3 DEF Registered
<1>7. Served'
  <2>1. ASSUME NEW d \in Sessions, session'[d] = "open", reads'[d] # "no"
        PROVE  d \in using' /\ ids'[d] # <<>> /\ reading'
    <3>1. d # c /\ d \in using /\ ids[d] # <<>> /\ reading BY <1>0, <1>4, <2>1 DEF Served
    <3>2. 1 \in DOMAIN ids[d] BY <1>0, <3>1 DEF Registered
    <3>3. \A n \in DOMAIN ids[c] : ids[c][n] # ids[d][1] BY <1>0, <3>1, <3>2, OthersStay
    <3>4. [prot |-> ids[d][1], by |-> d] \in ToSet(rest) BY <1>0, <1>3, <3>2, <3>3 DEF Registered
    <3>5. rest # <<>> BY <3>4 DEF ToSet
    <3> QED BY <1>1, <1>4, <3>1, <3>5
  <2>2. reading' \in BOOLEAN BY <1>1
  <2>3. \A d \in Sessions : session'[d] = "none" => reads'[d] = "no" BY <1>0, <1>4 DEF Served
  <2> QED BY <1>4, <2>1, <2>2, <2>3 DEF Served
<1> QED BY <1>5, <1>6, <1>7 DEF HInv

LEMMA OpenPortHeard ==
  ASSUME Limit, HInv, NEW c \in Sessions, OpenPort(c)
  PROVE  HInv'
<1>0. Connected /\ Registered /\ Served BY DEF HInv
<1>1. /\ session[c] = "open" /\ c \notin using /\ using' = using \cup {c}
      /\ port' = [open |-> TRUE, connections |-> port.connections + 1]
      /\ session' = session /\ ids' = ids /\ reads' = reads /\ registry' = registry
      /\ reading' = reading /\ server' = server
  BY DEF OpenPort, routerVars
<1>2. Connected'
  <2>1. IsFiniteSet(using') /\ Cardinality(using') = Cardinality(using) + 1
    BY <1>0, <1>1, FS_AddElement DEF Connected
  <2>2. Cardinality(using) \in Nat BY <1>0, FS_CardinalityType DEF Connected
  <2>3. /\ port' \in [open : BOOLEAN, connections : Nat] /\ port'.open
        /\ Cardinality(using') <= port'.connections
    BY <1>0, <1>1, <2>1, <2>2 DEF Connected
  <2>4. using' \subseteq {d \in Sessions : session'[d] = "open"} BY <1>0, <1>1 DEF Connected
  <2> QED BY <1>0, <1>1, <2>1, <2>3, <2>4 DEF Connected, Alive
<1>3. Registered' BY <1>0, <1>1 DEF Registered, Alive
<1>4. Served' BY <1>0, <1>1 DEF Served
<1> QED BY <1>2, <1>3, <1>4 DEF HInv

LEMMA ClosePortHeard ==
  ASSUME Limit, HInv, NEW c \in Sessions, ClosePort(c)
  PROVE  HInv'
<1>0. Connected /\ Registered /\ Served BY DEF HInv
<1>1. /\ session[c] = "open" /\ c \in using /\ using' = using \ {c}
      /\ session' = [session EXCEPT ![c] = "closing"]
      /\ ids' = ids /\ reads' = reads /\ registry' = registry /\ server' = server
  BY DEF ClosePort, routerVars
<1>2. /\ session'[c] = "closing" /\ \A d \in Sessions : d # c => session'[d] = session[d]
      /\ session' \in [Sessions -> {"none", "open", "closing", "closed"}]
  BY <1>0, <1>1 DEF Connected
<1>3. /\ IsFiniteSet(using') /\ Cardinality(using') = Cardinality(using) - 1
      /\ Cardinality(using) \in Nat /\ Cardinality(using') \in Nat
      /\ (using' # {} => Cardinality(using') # 0)
  <2>1. IsFiniteSet(using') /\ Cardinality(using') = Cardinality(using) - 1
    BY <1>0, <1>1, FS_RemoveElement DEF Connected
  <2>2. Cardinality(using) \in Nat BY <1>0, FS_CardinalityType DEF Connected
  <2>3. Cardinality(using') \in Nat BY <2>1, FS_CardinalityType
  <2>4. using' # {} => Cardinality(using') # 0 BY <2>1, FS_EmptySet
  <2> QED BY <2>1, <2>2, <2>3, <2>4
<1>4. port \in [open : BOOLEAN, connections : Nat] /\ Cardinality(using) <= port.connections
      /\ port.open
  BY <1>0, <1>1 DEF Connected
<1>5. \/ /\ port.connections > 1 /\ reading' = reading
         /\ port' = [port EXCEPT !.connections = @ - 1]
      \/ port.connections <= 1 /\ port' = Closed /\ reading' = FALSE
  BY <1>4 DEF ClosePort
<1>6. /\ port' \in [open : BOOLEAN, connections : Nat] /\ Cardinality(using') <= port'.connections
      /\ (using' # {} => port'.open /\ reading' = reading)
  <2>1. CASE port.connections > 1 /\ port' = [port EXCEPT !.connections = @ - 1]
    BY <1>3, <1>4, <1>5, <2>1
  <2>2. CASE port.connections <= 1 /\ port' = Closed
    <3>1. Cardinality(using') = 0 BY <1>3, <1>4, <2>2
    <3> QED BY <1>3, <2>2, <3>1 DEF Closed
  <2> QED BY <1>5, <2>1, <2>2
<1>7. Connected'
  <2>1. using' \subseteq {d \in Sessions : session'[d] = "open"} BY <1>0, <1>1, <1>2 DEF Connected
  <2>2. \A d \in Sessions : Alive(d)' <=> Alive(d) BY <1>1, <1>2 DEF Alive
  <2> QED BY <1>0, <1>1, <1>2, <1>3, <1>6, <2>1, <2>2 DEF Connected
<1>8. Registered' BY <1>0, <1>1, <1>2 DEF Registered, Alive
<1>9. Served'
  <2>1. reading' \in BOOLEAN BY <1>0, <1>5 DEF Served
  <2>2. ASSUME NEW d \in Sessions, session'[d] = "open", reads'[d] # "no"
        PROVE  d \in using' /\ ids'[d] # <<>> /\ reading'
    <3>1. d # c /\ d \in using /\ ids[d] # <<>> /\ reading BY <1>0, <1>1, <1>2, <2>2 DEF Served
    <3> QED BY <1>1, <1>6, <3>1
  <2>3. \A d \in Sessions : session'[d] = "none" => reads'[d] = "no"
    BY <1>0, <1>1, <1>2 DEF Served
  <2> QED BY <1>0, <1>1, <2>1, <2>2, <2>3 DEF Served
<1> QED BY <1>7, <1>8, <1>9 DEF HInv

LEMMA RegisterHeard ==
  ASSUME Limit, Limit', HInv, NEW c \in Sessions, NEW p \in Protocols, Register(c, p)
  PROVE  HInv'
<1>0. Connected /\ Registered /\ Served BY DEF HInv
<1> DEFINE e == [prot |-> p, by |-> c]
<1>1. /\ session[c] = "open" /\ registry' = Append(registry, e)
      /\ ids' = [ids EXCEPT ![c] = Append(@, p)]
      /\ session' = session /\ using' = using /\ reads' = reads /\ reading' = reading
      /\ port' = port /\ server' = server
  BY DEF Register, portVars
<1>2. e \in Registrations /\ e.prot = p /\ e.by = c BY DEF Registrations
<1> HIDE DEF e
<1>3. registry \in Seq(Registrations) /\ ids[c] \in Seq(Protocols) BY <1>0 DEF Registered
<1>4. \A i \in DOMAIN registry : registry[i].prot # p
  <2> DEFINE at == {i \in DOMAIN registry : registry[i].prot = p}
  <2>1. ListenerOf(p) = NoSession BY DEF Register, Limit
  <2>2. SUFFICES ASSUME at # {} PROVE FALSE OBVIOUS
  <2>3. \E i \in at : \A j \in at : i <= j
    <3>1. at \in SUBSET Nat BY <1>3
    <3> HIDE DEF at
    <3> QED BY <2>2, <3>1, FirstIn
  <2>4. PICK i \in at : ListenerOf(p) = registry[i].by BY <2>2, <2>3 DEF ListenerOf
  <2>5. registry[i] \in Registrations BY <1>3, <2>4
  <2> QED BY <2>1, <2>4, <2>5, Constants DEF Registrations
<1>5. registry' \in Seq(Registrations) /\ ToSet(registry') = ToSet(registry) \cup {e}
  <2>1. /\ registry' \in Seq(Registrations) /\ DOMAIN registry' = 1..(Len(registry) + 1)
        /\ DOMAIN registry = 1..Len(registry) /\ Len(registry) \in Nat
        /\ registry'[Len(registry) + 1] = e
        /\ \A i \in DOMAIN registry : registry'[i] = registry[i]
    BY <1>1, <1>2, <1>3
  <2>2. \A i \in DOMAIN registry' : i \in DOMAIN registry \/ i = Len(registry) + 1 BY <2>1
  <2>3. \A i \in DOMAIN registry : i \in DOMAIN registry' BY <2>1
  <2>4. Len(registry) + 1 \in DOMAIN registry' BY <2>1
  <2> QED BY <2>1, <2>2, <2>3, <2>4 DEF ToSet
<1>6. \A f \in ToSet(registry) : f.prot # p BY <1>4 DEF ToSet
<1>7. /\ ids' \in [Sessions -> Seq(Protocols)] /\ ids'[c] = Append(ids[c], p)
      /\ \A d \in Sessions : d # c => ids'[d] = ids[d]
  BY <1>0, <1>1, <1>3 DEF Registered
<1>8. /\ Len(ids[c]) \in Nat /\ DOMAIN ids[c] = 1..Len(ids[c])
      /\ DOMAIN ids'[c] = 1..(Len(ids[c]) + 1) /\ ids'[c][Len(ids[c]) + 1] = p
      /\ \A i \in DOMAIN ids[c] : ids'[c][i] = ids[c][i]
      /\ \A i \in DOMAIN ids'[c] : i \in DOMAIN ids[c] \/ i = Len(ids[c]) + 1
  BY <1>3, <1>7
<1>9. Registered'
  <2>1. \A f, g \in ToSet(registry') : f.prot = g.prot => f = g
    BY <1>0, <1>2, <1>5, <1>6 DEF Registered
  <2>2. ASSUME NEW d \in Sessions, NEW i \in DOMAIN ids'[d]
        PROVE  Alive(d)' /\ [prot |-> ids'[d][i], by |-> d] \in ToSet(registry')
    <3>1. Alive(d) => Alive(d)' BY <1>1 DEF Alive
    <3>2. CASE d # c BY <1>0, <1>5, <1>7, <2>2, <3>1, <3>2 DEF Registered
    <3>3. CASE d = c
      <4>1. Alive(d) BY <1>1, <3>3 DEF Alive
      <4>2. CASE i \in DOMAIN ids[c]
        BY <1>0, <1>5, <1>8, <3>1, <3>3, <4>1, <4>2 DEF Registered
      <4>3. CASE i = Len(ids[c]) + 1
        BY <1>5, <1>8, <3>1, <3>3, <4>1, <4>3 DEF e
      <4> QED BY <1>8, <2>2, <3>3, <4>2, <4>3
    <3> QED BY <3>2, <3>3
  <2>3. ASSUME NEW d \in Sessions, NEW i \in DOMAIN ids'[d], NEW j \in DOMAIN ids'[d],
               ids'[d][i] = ids'[d][j]
        PROVE  i = j
    <3>1. CASE d # c BY <1>0, <1>7, <2>3, <3>1 DEF Registered
    <3>2. CASE d = c
      <4>1. \A k \in DOMAIN ids[c] : ids[c][k] # p
        <5>1. SUFFICES ASSUME NEW k \in DOMAIN ids[c], ids[c][k] = p PROVE FALSE OBVIOUS
        <5>2. [prot |-> p, by |-> c] \in ToSet(registry) BY <1>0, <5>1 DEF Registered
        <5> QED BY <1>6, <5>2
      <4>2. i \in DOMAIN ids'[c] /\ j \in DOMAIN ids'[c] /\ ids'[c][i] = ids'[c][j] BY <2>3, <3>2
      <4>3. CASE i \in DOMAIN ids[c] /\ j \in DOMAIN ids[c]
        BY <1>0, <1>8, <4>2, <4>3 DEF Registered
      <4> QED BY <1>8, <4>1, <4>2, <4>3
    <3> QED BY <3>1, <3>2
  <2> QED BY <1>5, <1>7, <2>1, <2>2, <2>3 DEF Registered
<1>10. Connected' BY <1>0, <1>1 DEF Connected, Alive
<1>11. Served'
  <2>1. ids'[c] # <<>> BY <1>8
  <2> QED BY <1>0, <1>1, <1>7, <2>1 DEF Served
<1> QED BY <1>9, <1>10, <1>11 DEF HInv

LEMMA FirstRemoved ==
  ASSUME NEW R, NEW s \in Seq(R), NEW v,
         \A i, j \in DOMAIN s : s[i] = s[j] => i = j
  PROVE  LET r == RemoveFirst(s, v)
         IN  /\ r \in Seq(R)
             /\ \A k \in DOMAIN r : r[k] # v /\ \E i \in DOMAIN s : s[i] = r[k]
             /\ \A k, l \in DOMAIN r : r[k] = r[l] => k = l
<1> DEFINE r == RemoveFirst(s, v)
           I == {i \in 1..Len(s) : s[i] = v}
<1>1. Len(s) \in Nat /\ DOMAIN s = 1..Len(s) OBVIOUS
<1>2. CASE I = {}
  <2>1. r = s BY <1>2 DEF RemoveFirst
  <2> QED BY <1>1, <1>2, <2>1
<1>3. CASE I # {}
  <2> DEFINE i == Min(I)
  <2>1. r = RemoveAt(s, i) BY <1>3 DEF RemoveFirst, SelectInSeq
  <2>2. i \in I
    <3>1. \E x \in I : \A y \in I : x <= y
      <4>1. I \in SUBSET Nat BY <1>1
      <4> HIDE DEF I
      <4> QED BY <1>3, <4>1, FirstIn
    <3> QED BY <1>3, <3>1 DEF Min
  <2>3. i \in 1..Len(s) /\ s[i] = v BY <2>2
  <2> HIDE DEF i, r
  <2>4. /\ r \in Seq(R) /\ Len(r) = Len(s) - 1
        /\ \A j \in 1..(Len(s) - 1) : r[j] = IF j < i THEN s[j] ELSE s[j + 1]
    <3>1. /\ RemoveAt(s, i) \in Seq(R) /\ Len(RemoveAt(s, i)) = Len(s) - 1
          /\ \A j \in 1..(Len(s) - 1) : RemoveAt(s, i)[j] = IF j < i THEN s[j] ELSE s[j + 1]
      BY <2>3, RemovedAt
    <3> QED BY <2>1, <3>1
  <2> DEFINE at(j) == IF j < i THEN j ELSE j + 1
  <2>5. DOMAIN r = 1..(Len(s) - 1) BY <2>4
  <2>6. \A j \in DOMAIN r : at(j) \in DOMAIN s /\ at(j) # i /\ r[j] = s[at(j)]
    BY <1>1, <2>3, <2>4, <2>5
  <2>7. \A k \in DOMAIN r : r[k] # v /\ \E x \in DOMAIN s : s[x] = r[k]
    BY <1>1, <2>3, <2>6
  <2>8. \A k, l \in DOMAIN r : at(k) = at(l) => k = l BY <1>1, <2>3, <2>5
  <2>9. \A k, l \in DOMAIN r : r[k] = r[l] => k = l BY <2>6, <2>8
  <2> QED BY <2>4, <2>7, <2>9 DEF r
<1> QED BY <1>2, <1>3

LEMMA UnRegisterHeard ==
  ASSUME Limit, HInv, NEW c \in Sessions, NEW p \in Protocols, UnRegisterProtocol(c, p)
  PROVE  HInv'
<1>0. Connected /\ Registered /\ Served BY DEF HInv
<1> DEFINE rest == Without(registry, p)
           left == RemoveFirst(ids[c], p)
<1>1. /\ session[c] = "open" /\ reads[c] = "no" /\ Contains(ids[c], p)
      /\ ids' = [ids EXCEPT ![c] = left]
      /\ registry' = rest /\ reading' = (reading /\ rest # <<>>)
      /\ session' = session /\ using' = using /\ reads' = reads /\ port' = port
      /\ server' = server
  BY DEF UnRegisterProtocol, UnRegister
<1>2. registry \in Seq(Registrations) /\ ids[c] \in Seq(Protocols) BY <1>0 DEF Registered
<1>3. /\ rest \in Seq(Registrations) /\ ToSet(rest) \subseteq ToSet(registry)
      /\ \A e \in ToSet(registry) : e.prot # p => e \in ToSet(rest)
  BY <1>2, WithoutKeeps
<1>4. /\ left \in Seq(Protocols)
      /\ \A k \in DOMAIN left : left[k] # p /\ \E i \in DOMAIN ids[c] : ids[c][i] = left[k]
      /\ \A k, l \in DOMAIN left : left[k] = left[l] => k = l
  <2>1. \A i, j \in DOMAIN ids[c] : ids[c][i] = ids[c][j] => i = j BY <1>0 DEF Registered
  <2> QED BY <1>2, <2>1, FirstRemoved
<1> HIDE DEF rest, left
<1>5. /\ ids' \in [Sessions -> Seq(Protocols)] /\ ids'[c] = left
      /\ \A d \in Sessions : d # c => ids'[d] = ids[d]
  BY <1>0, <1>1, <1>4 DEF Registered
<1>6. PICK n \in DOMAIN ids[c] : ids[c][n] = p BY <1>1, <1>2 DEF Contains
<1>7. \A d \in Sessions : d # c => \A i \in DOMAIN ids[d] : ids[d][i] # p
  BY <1>0, <1>6, OthersStay
<1>8. Connected' BY <1>0, <1>1 DEF Connected, Alive
<1>9. Registered'
  <2>1. ASSUME NEW d \in Sessions, NEW i \in DOMAIN ids'[d]
        PROVE  Alive(d)' /\ [prot |-> ids'[d][i], by |-> d] \in ToSet(registry')
    <3>1. PICK j \in DOMAIN ids[d] : ids[d][j] = ids'[d][i] /\ ids'[d][i] # p
      <4>1. CASE d = c BY <1>4, <1>5, <2>1, <4>1
      <4>2. CASE d # c BY <1>5, <1>7, <2>1, <4>2
      <4> QED BY <4>1, <4>2
    <3>2. Alive(d) /\ [prot |-> ids[d][j], by |-> d] \in ToSet(registry)
      BY <1>0, <3>1 DEF Registered
    <3> QED BY <1>1, <1>3, <3>1, <3>2 DEF Alive
  <2>2. ASSUME NEW d \in Sessions, NEW i \in DOMAIN ids'[d], NEW j \in DOMAIN ids'[d],
               ids'[d][i] = ids'[d][j]
        PROVE  i = j
    <3>1. CASE d = c BY <1>4, <1>5, <2>2, <3>1
    <3>2. CASE d # c BY <1>0, <1>5, <2>2, <3>2 DEF Registered
    <3> QED BY <3>1, <3>2
  <2>3. \A e, f \in ToSet(registry') : e.prot = f.prot => e = f
    BY <1>0, <1>1, <1>3 DEF Registered
  <2> QED BY <1>1, <1>3, <1>5, <2>1, <2>2, <2>3 DEF Registered
<1>10. Served'
  <2>1. ASSUME NEW d \in Sessions, session'[d] = "open", reads'[d] # "no"
        PROVE  d \in using' /\ ids'[d] # <<>> /\ reading'
    <3>1. d # c /\ d \in using /\ ids[d] # <<>> /\ reading BY <1>0, <1>1, <2>1 DEF Served
    <3>2. 1 \in DOMAIN ids[d] BY <1>0, <3>1 DEF Registered
    <3>3. ids[d][1] # p BY <1>7, <3>1, <3>2
    <3>4. [prot |-> ids[d][1], by |-> d] \in ToSet(rest) BY <1>0, <1>3, <3>2, <3>3 DEF Registered
    <3>5. rest # <<>> BY <3>4 DEF ToSet
    <3> QED BY <1>1, <1>5, <3>1, <3>5
  <2>2. reading' \in BOOLEAN BY <1>1
  <2> QED BY <1>0, <1>1, <2>1, <2>2 DEF Served
<1> QED BY <1>8, <1>9, <1>10 DEF HInv

LEMMA ReadMsgHeard ==
  ASSUME Limit, HInv, NEW c \in Sessions, ReadMsg(c)
  PROVE  HInv'
<1>0. Connected /\ Registered /\ Served BY DEF HInv
<1>1. PICK size \in {"small", "large"} :
        /\ session[c] = "open" /\ c \in using /\ ids[c] # <<>>
        /\ \/ reads' = reads /\ reading' = reading
           \/ reads' = [reads EXCEPT ![c] = size] /\ reading' = (reading \/ port.open)
        /\ session' = session /\ using' = using /\ ids' = ids /\ registry' = registry
        /\ port' = port /\ server' = server
  BY DEF ReadMsg, routerVars
<1>2. port.open BY <1>0, <1>1 DEF Connected
<1>3. Connected' BY <1>0, <1>1 DEF Connected, Alive
<1>4. Registered' BY <1>0, <1>1 DEF Registered, Alive
<1>5. Served'
  <2>1. CASE reads' = reads /\ reading' = reading BY <1>0, <1>1, <2>1 DEF Served
  <2>2. CASE reads' = [reads EXCEPT ![c] = size] /\ reading' = TRUE
    <3>1. /\ reads' \in [Sessions -> {"no", "small", "large"}]
          /\ \A d \in Sessions : d # c => reads'[d] = reads[d]
      BY <1>0, <2>2 DEF Served
    <3> QED BY <1>0, <1>1, <2>2, <3>1 DEF Served
  <2> QED BY <1>1, <1>2, <2>1, <2>2
<1> QED BY <1>3, <1>4, <1>5 DEF HInv

(* A read ends: cancelled, or with the messages that arrive.               *)
LEMMA ReadEnded ==
  ASSUME Limit, HInv, reads' \in [Sessions -> {"no", "small", "large"}],
         \A c \in Sessions : reads'[c] = "no" \/ reads'[c] = reads[c],
         session' = session, using' = using, ids' = ids, registry' = registry, port' = port,
         reading' = reading, server' = server
  PROVE  HInv'
<1>0. Connected /\ Registered /\ Served BY DEF HInv
<1>1. Connected' BY <1>0 DEF Connected, Alive
<1>2. Registered' BY <1>0 DEF Registered, Alive
<1>3. Served' BY <1>0 DEF Served
<1> QED BY <1>1, <1>2, <1>3 DEF HInv

LEMMA NothingHeard ==
  ASSUME Limit, HInv, reads' = reads, session' = session, using' = using, ids' = ids,
         registry' = registry, port' = port, reading' = reading, server' = server
  PROVE  HInv'
<1>1. reads \in [Sessions -> {"no", "small", "large"}] BY DEF HInv, Served
<1> QED BY <1>1, ReadEnded

LEMMA ShutdownHeard ==
  ASSUME Limit, HInv, Shutdown
  PROVE  HInv'
<1>0. Connected /\ Registered /\ Served BY DEF HInv
<1>1. /\ server.timer /\ server' = [up |-> FALSE, timer |-> FALSE] /\ registry' = <<>>
      /\ port' = Closed /\ reading' = FALSE
      /\ session' = session /\ using' = using /\ ids' = ids /\ reads' = reads
  BY DEF Shutdown, clientVars
<1>2. \A c \in Sessions : ~Alive(c) BY <1>0, <1>1 DEF Connected
<1>3. using = {} BY <1>0, <1>2 DEF Connected, Alive
<1>4. Connected'
  <2>1. IsFiniteSet(using') /\ Cardinality(using') = 0 BY <1>1, <1>3, FS_EmptySet
  <2>2. port' \in [open : BOOLEAN, connections : Nat] /\ port'.connections = 0
    BY <1>1 DEF Closed
  <2>3. server' \in [up : BOOLEAN, timer : BOOLEAN] /\ ~server'.timer BY <1>1
  <2> QED BY <1>0, <1>1, <1>3, <2>1, <2>2, <2>3 DEF Connected
<1>5. Registered' BY <1>0, <1>1, <1>2 DEF Registered, ToSet
<1>6. Served'
  <2>1. \A c \in Sessions : session[c] # "open" BY <1>2 DEF Alive
  <2> QED BY <1>0, <1>1, <2>1 DEF Served
<1> QED BY <1>4, <1>5, <1>6 DEF HInv

LEMMA HeardStarts == Init => HInv
<1> SUFFICES ASSUME Init PROVE HInv OBVIOUS
<1>1. /\ session = [c \in Sessions |-> "none"] /\ using = {} /\ ids = [c \in Sessions |-> <<>>]
      /\ reads = [c \in Sessions |-> "no"] /\ registry = <<>> /\ port = Closed
      /\ reading = FALSE /\ server = [up |-> FALSE, timer |-> FALSE]
  BY DEF Init
<1>2. Connected
  <2>1. IsFiniteSet(using) /\ Cardinality(using) = 0 BY <1>1, FS_EmptySet
  <2>2. port \in [open : BOOLEAN, connections : Nat] /\ port.connections = 0
    BY <1>1 DEF Closed
  <2>3. server \in [up : BOOLEAN, timer : BOOLEAN] /\ ~server.timer BY <1>1
  <2> QED BY <1>1, <2>1, <2>2, <2>3 DEF Connected
<1>3. Registered BY <1>1 DEF Registered, ToSet
<1>4. Served BY <1>1 DEF Served
<1> QED BY <1>2, <1>3, <1>4 DEF HInv

LEMMA HeardKept == HInv /\ [Next]_vars => HInv'
<1> SUFFICES ASSUME HInv, [Next]_vars, Limit' PROVE HInv' BY DEF HInv
<1> USE DEF clientVars, routerVars, portVars, ghostVars
<1>1. ASSUME NEW c \in Sessions, Limit, Connect(c) PROVE HInv' BY <1>1, ConnectHeard
<1>2. ASSUME NEW c \in Sessions, Limit, EndSession(c) PROVE HInv' BY <1>2, EndSessionHeard
<1>3. ASSUME NEW c \in Sessions, Limit, OpenPort(c) PROVE HInv' BY <1>3, OpenPortHeard
<1>4. ASSUME NEW c \in Sessions, Limit, ClosePort(c) PROVE HInv' BY <1>4, ClosePortHeard
<1>5. ASSUME NEW c \in Sessions, NEW p \in Protocols, Limit, Register(c, p) PROVE HInv'
  BY <1>5, RegisterHeard
<1>6. ASSUME NEW c \in Sessions, NEW p \in Protocols, Limit, UnRegisterProtocol(c, p) PROVE HInv'
  BY <1>6, UnRegisterHeard
<1>7. ASSUME NEW c \in Sessions, Limit, ReadMsg(c) PROVE HInv' BY <1>7, ReadMsgHeard
<1>8. ASSUME NEW c \in Sessions, Limit, ReadCancel(c) PROVE HInv'
  <2>1. reads \in [Sessions -> {"no", "small", "large"}] BY <1>8 DEF HInv, Served
  <2>2. reads' = [reads EXCEPT ![c] = "no"] BY <1>8 DEF ReadCancel
  <2>3. /\ reads' \in [Sessions -> {"no", "small", "large"}]
        /\ \A d \in Sessions : reads'[d] = "no" \/ reads'[d] = reads[d]
    BY <2>1, <2>2
  <2> QED BY <1>8, <2>3, ReadEnded DEF ReadCancel
<1>9. ASSUME NEW c \in Sessions, Limit, WriteMsg(c) PROVE HInv'
  BY <1>9, NothingHeard DEF WriteMsg
<1>10. ASSUME NEW c \in Sessions, Limit, WriteCancel(c) PROVE HInv'
  BY <1>10, NothingHeard DEF WriteCancel
<1>11. CASE Limit /\ Shutdown BY <1>11, ShutdownHeard
<1>12. CASE Limit /\ DataAvailable
  <2>1. reads \in [Sessions -> {"no", "small", "large"}] BY <1>12 DEF HInv, Served
  <2>2. PICK heard \in [Sessions -> BOOLEAN] :
          reads' = [c \in Sessions |-> IF heard[c] THEN "no" ELSE reads[c]]
    <3>1. PICK k \in 1..MaxChunk :
            LET r == Received(SubSeq(Bytes, pos + 1, pos + k))
            IN  reads' = [c \in Sessions |->
                  IF \E i \in DOMAIN r.out : ListenerOf(r.out[i].prot) = c THEN "no" ELSE reads[c]]
      BY <1>12 DEF DataAvailable
    <3> DEFINE r == Received(SubSeq(Bytes, pos + 1, pos + k))
               h == [c \in Sessions |-> \E i \in DOMAIN r.out : ListenerOf(r.out[i].prot) = c]
    <3>2. h \in [Sessions -> BOOLEAN] OBVIOUS
    <3>3. reads' = [c \in Sessions |-> IF h[c] THEN "no" ELSE reads[c]] BY <3>1
    <3> HIDE DEF h
    <3> QED BY <3>2, <3>3
  <2>3. /\ reads' \in [Sessions -> {"no", "small", "large"}]
        /\ \A d \in Sessions : reads'[d] = "no" \/ reads'[d] = reads[d]
    BY <2>1, <2>2
  <2> QED BY <1>12, <2>3, ReadEnded DEF DataAvailable
<1>13. CASE Limit /\ (Fetch \/ WriteComplete)
  BY <1>13, NothingHeard DEF Fetch, WriteComplete
<1>14. CASE UNCHANGED vars
  <2>1. /\ reads' = reads /\ session' = session /\ using' = using /\ ids' = ids
        /\ registry' = registry /\ port' = port /\ reading' = reading /\ server' = server
        /\ spoilt' = spoilt
    BY <1>14 DEF vars
  <2>2. Limit BY <2>1 DEF Limit
  <2> QED BY <2>1, <2>2, NothingHeard
<1> QED
  BY <1>1, <1>2, <1>3, <1>4, <1>5, <1>6, <1>7, <1>8, <1>9, <1>10, <1>11, <1>12, <1>13, <1>14
  DEF Next

(* UnRegisterProtocol, DoDisconnect, ClosePort and Shutdown stop the       *)
(* reader only when nobody is left who waits for a message.                *)
THEOREM NobodyDeaf == Spec => []NotDeaf
<1>1. HInv => NotDeaf
  <2> SUFFICES ASSUME HInv, Limit, NEW c \in Sessions, c \in using, ids[c] # <<>>,
                      reads[c] # "no"
               PROVE  port.open /\ reading
    BY DEF NotDeaf
  <2> QED BY DEF HInv, Connected, Served
<1> QED BY <1>1, HeardStarts, HeardKept, PTL DEF Spec

-------------------------------------------------------------------------------
(* What a session gets.                                                    *)

P == [prot : KnownIds, body : Seq(Nat)]

(* What is left to read of one packet, or of several, in order.            *)
ClearFeed ==
  \A i \in 1..Len(Feed) :
    Feed[i].junk = <<>> /\ Feed[i].body # <<>> /\ HEADER + Len(Feed[i].body) <= BufSize

At(i) == Len(Upto[i])
Slice(a, b) == [i \in 1..(b - a) |-> Packet(Feed[a + i])]
Between(i, n) == i \in 0..Len(Feed) /\ At(i) <= n /\ (i < Len(Feed) => n < At(i + 1))

LEMMA PartOf ==
  ASSUME NEW S, NEW s \in Seq(S), NEW lo \in Nat, NEW hi \in Nat, lo <= hi, hi <= Len(s)
  PROVE  /\ SubSeq(s, lo + 1, hi) \in Seq(S) /\ Len(SubSeq(s, lo + 1, hi)) = hi - lo
         /\ \A j \in 1..(hi - lo) : SubSeq(s, lo + 1, hi)[j] = s[lo + j]
OBVIOUS

LEMMA PartOfPart ==
  ASSUME NEW S, NEW s \in Seq(S), NEW lo \in Nat, NEW hi \in Nat, lo <= hi, hi <= Len(s),
         NEW x \in Nat, NEW y \in Nat, x <= y, y <= hi - lo
  PROVE  SubSeq(SubSeq(s, lo + 1, hi), x + 1, y) = SubSeq(s, lo + x + 1, lo + y)
<1> DEFINE t == SubSeq(s, lo + 1, hi)
           u == SubSeq(t, x + 1, y)
           v == SubSeq(s, lo + x + 1, lo + y)
<1>1. t \in Seq(S) /\ Len(t) = hi - lo /\ \A j \in 1..(hi - lo) : t[j] = s[lo + j] BY PartOf
<1> HIDE DEF t
<1>2. u \in Seq(S) /\ Len(u) = y - x /\ \A j \in 1..(y - x) : u[j] = t[x + j]
  BY <1>1, PartOf
<1>3. v \in Seq(S) /\ Len(v) = y - x /\ \A j \in 1..(y - x) : v[j] = s[lo + x + j]
  <2>1. lo + x \in Nat /\ lo + y \in Nat /\ lo + x <= lo + y /\ lo + y <= Len(s)
        /\ (lo + y) - (lo + x) = y - x
    OBVIOUS
  <2> QED BY <2>1, PartOf
<1> HIDE DEF u, v
<1>4. \A j \in 1..(y - x) : u[j] = v[j]
  <2> TAKE j \in 1..(y - x)
  <2>1. x + j \in 1..(hi - lo) OBVIOUS
  <2>2. t[x + j] = s[lo + (x + j)] BY <1>1, <2>1
  <2>3. lo + (x + j) = lo + x + j OBVIOUS
  <2> QED BY <1>2, <1>3, <2>2, <2>3
<1>5. u = v BY <1>2, <1>3, <1>4, SeqEqual
<1> QED BY <1>5 DEF t, u, v

Longer(u, n) == u \o Encode(Feed[n])

LEMMA UptoIs ==
  /\ Upto[0] = <<>>
  /\ \A n \in 1..Len(Feed) : Upto[n] = Upto[n - 1] \o Encode(Feed[n])
<1> DEFINE N == Len(Feed)
           Is(f, k) == f = [n \in 0..k |-> IF n = 0 THEN <<>> ELSE Longer(f[n - 1], n)]
           Bad == {k \in 0..N : ~\E f : Is(f, k)}
<1>0. N \in Nat BY FeedAssumption
<1>1. Upto = CHOOSE h : Is(h, N) BY DEF Upto, Longer
<1> HIDE DEF N, Is
<1>2. Bad = {}
  <2>1. SUFFICES ASSUME Bad # {} PROVE FALSE OBVIOUS
  <2>2. PICK k \in Bad : \A j \in Bad : k <= j
    <3>1. Bad \in SUBSET Nat BY <1>0
    <3> HIDE DEF Bad
    <3> QED BY <2>1, <3>1, FirstIn
  <2>3. k # 0
    <3> DEFINE g == [n \in 0..0 |-> <<>>]
    <3>1. Is(g, 0) BY DEF Is
    <3> QED BY <3>1
  <2>4. k - 1 \in 0..N /\ k - 1 \notin Bad BY <1>0, <2>2, <2>3
  <2>5. PICK f : Is(f, k - 1) BY <2>4
  <2> DEFINE g == [n \in 0..k |-> IF n = k THEN Longer(f[k - 1], k) ELSE f[n]]
  <2>6. k \in Nat /\ k >= 1 BY <1>0, <2>2, <2>3
  <2>7. /\ \A n \in 0..(k - 1) : g[n] = f[n]
        /\ g[k] = Longer(f[k - 1], k)
    BY <2>6
  <2>8. f[0] = <<>> /\ \A n \in 1..(k - 1) : f[n] = Longer(f[n - 1], n)
    BY <2>5, <2>6 DEF Is
  <2>9. \A n \in 0..k : g[n] = IF n = 0 THEN <<>> ELSE Longer(g[n - 1], n)
    BY <2>6, <2>7, <2>8
  <2>10. g = [n \in 0..k |-> g[n]] OBVIOUS
  <2> HIDE DEF g
  <2>11. Is(g, k) BY <2>9, <2>10 DEF Is
  <2> QED BY <2>2, <2>11
<1>3. PICK f : Is(f, N) BY <1>0, <1>2
<1>4. Is(Upto, N) BY <1>1, <1>3
<1>5. Upto[0] = <<>> /\ \A n \in 1..N : Upto[n] = Longer(Upto[n - 1], n)
  BY <1>0, <1>4 DEF Is
<1> QED BY <1>5 DEF N, Longer

LEMMA Encoded ==
  ASSUME NEW n \in 1..Len(Feed)
  PROVE  /\ Feed[n] \in [prot : KnownIds, body : Seq(Nat), junk : Seq(Nat)]
         /\ Encode(Feed[n]) \in Seq(Nat)
         /\ Len(Encode(Feed[n])) = Len(Feed[n].junk) + HEADER + Len(Feed[n].body)
         /\ Len(Feed[n].junk) \in Nat /\ Len(Feed[n].body) \in Nat
<1>1. Feed[n] \in [prot : KnownIds, body : Seq(Nat), junk : Seq(Nat)]
  BY FeedAssumption, ElementOfSeq
<1> DEFINE p == Feed[n]
           h == <<VERSION, p.prot, Len(p.body)>>
<1>2. /\ p.prot \in Nat /\ p.body \in Seq(Nat) /\ p.junk \in Seq(Nat) /\ VERSION \in Nat
  BY <1>1, IdsAssumption
<1> HIDE DEF p
<1>3. h \in Seq(Nat) /\ Len(h) = 3 BY <1>2
<1> DEFINE j == p.junk
           b == p.body
<1> HIDE DEF h, j, b
<1>4. /\ j \o h \o b \in Seq(Nat) /\ Len(j \o h \o b) = Len(j) + 3 + Len(b)
      /\ Len(j) \in Nat /\ Len(b) \in Nat
  <2>1. j \in Seq(Nat) /\ b \in Seq(Nat) BY <1>2 DEF j, b
  <2>2. j \o h \in Seq(Nat) /\ Len(j \o h) = Len(j) + Len(h) BY <1>3, <2>1, ConcatProperties
  <2>3. j \o h \o b \in Seq(Nat) /\ Len(j \o h \o b) = Len(j \o h) + Len(b)
    BY <2>1, <2>2, ConcatProperties
  <2>4. Len(j) \in Nat /\ Len(b) \in Nat BY <2>1
  <2> QED BY <1>3, <2>2, <2>3, <2>4
<1>5. Encode(p) = j \o h \o b BY DEF Encode, h, j, b
<1>6. Encode(p) \in Seq(Nat) /\ Len(Encode(p)) = Len(j) + 3 + Len(b) BY <1>4, <1>5
<1> QED BY <1>1, <1>4, <1>6 DEF p, j, b, HEADER

LEMMA UptoGrows ==
  ASSUME NEW n \in 0..Len(Feed)
  PROVE  /\ Upto[n] \in Seq(Nat) /\ At(n) \in Nat
         /\ \A m \in 0..n : /\ (m < n => At(m) < At(n)) /\ At(m) \in Nat
                            /\ \A j \in 1..At(m) : Upto[n][j] = Upto[m][j]
<1> DEFINE Fine(k) ==
             /\ Upto[k] \in Seq(Nat)
             /\ \A m \in 0..k : /\ (m < k => At(m) < At(k)) /\ At(m) \in Nat
                                /\ \A j \in 1..At(m) : Upto[k][j] = Upto[m][j]
           Bad == {k \in 0..Len(Feed) : ~Fine(k)}
<1>0. Len(Feed) \in Nat BY FeedAssumption
<1>1. Bad = {}
  <2>1. SUFFICES ASSUME Bad # {} PROVE FALSE OBVIOUS
  <2>2. PICK k \in Bad : \A j \in Bad : k <= j
    <3>1. Bad \in SUBSET Nat BY <1>0
    <3> HIDE DEF Bad
    <3> QED BY <2>1, <3>1, FirstIn
  <2>3. k # 0
    <3>1. Fine(0) BY UptoIs DEF At
    <3> QED BY <2>2, <3>1
  <2>4. k - 1 \in 0..Len(Feed) /\ Fine(k - 1) /\ k \in 1..Len(Feed) BY <1>0, <2>2, <2>3
  <2> DEFINE e == Encode(Feed[k])
             u == Upto[k - 1]
  <2>5. e \in Seq(Nat) /\ Len(e) >= 3 /\ Len(e) \in Nat
    <3> DEFINE a == Len(Feed[k].junk)
               b == Len(Feed[k].body)
    <3>1. e \in Seq(Nat) /\ Len(e) = a + 3 + b /\ a \in Nat /\ b \in Nat
      BY <2>4, Encoded DEF HEADER
    <3> HIDE DEF a, b, e
    <3> QED BY <3>1
  <2>6. u \in Seq(Nat) /\ Len(u) = At(k - 1) BY <2>4 DEF At
  <2>7. Upto[k] = u \o e BY <2>4, UptoIs
  <2> HIDE DEF e, u
  <2>8. /\ Upto[k] \in Seq(Nat) /\ At(k) = At(k - 1) + Len(e) /\ At(k - 1) \in Nat
        /\ \A j \in 1..At(k - 1) : Upto[k][j] = u[j]
    <3>1. u \o e \in Seq(Nat) /\ Len(u \o e) = Len(u) + Len(e)
          /\ \A j \in 1..Len(u) + Len(e) : (u \o e)[j] = IF j <= Len(u) THEN u[j] ELSE e[j - Len(u)]
      BY <2>5, <2>6, ConcatProperties
    <3>2. Len(u) \in Nat BY <2>6
    <3> QED BY <2>5, <2>6, <2>7, <3>1, <3>2 DEF At
  <2>9. ASSUME NEW m \in 0..k
        PROVE  /\ (m < k => At(m) < At(k)) /\ At(m) \in Nat
               /\ \A j \in 1..At(m) : Upto[k][j] = Upto[m][j]
    <3>1. CASE m = k
      <4>1. At(k) \in Nat BY <2>5, <2>8
      <4> QED BY <3>1, <4>1
    <3>2. CASE m # k
      <4>1. m \in 0..(k - 1) BY <2>4, <3>2
      <4>2. /\ (m < k - 1 => At(m) < At(k - 1)) /\ At(m) \in Nat
            /\ \A j \in 1..At(m) : u[j] = Upto[m][j]
        BY <2>4, <4>1 DEF u
      <4>3. At(m) <= At(k - 1) BY <2>4, <2>8, <4>1, <4>2
      <4>4. At(m) < At(k) BY <2>5, <2>8, <4>2, <4>3
      <4>5. \A j \in 1..At(m) : j \in 1..At(k - 1) BY <2>8, <4>2, <4>3
      <4> QED BY <2>8, <4>2, <4>4, <4>5
    <3> QED BY <3>1, <3>2
  <2>10. Fine(k) BY <2>8, <2>9
  <2> QED BY <2>2, <2>10
<1>2. Fine(n) BY <1>1
<1> QED BY <1>2

LEMMA CompleteIs ==
  ASSUME NEW n \in Nat, NEW i \in 0..Len(Feed), Between(i, n)
  PROVE  Complete(n) = i
<1>0. Len(Feed) \in Nat BY FeedAssumption
<1> DEFINE C(k) == At(k) <= n /\ \A j \in 0..Len(Feed) : j > k => At(j) > n
<1>1. \A k \in 0..Len(Feed) : At(k) \in Nat BY UptoGrows
<1>2. \A k, j \in 0..Len(Feed) : k < j => At(k) < At(j) BY <1>0, UptoGrows
<1>3. C(i)
  <2>1. ASSUME NEW j \in 0..Len(Feed), j > i PROVE At(j) > n
    <3>1. i + 1 \in 0..Len(Feed) /\ n < At(i + 1) BY <1>0, <2>1 DEF Between
    <3>2. At(i + 1) <= At(j) BY <1>0, <1>1, <1>2, <2>1, <3>1
    <3> QED BY <1>1, <2>1, <3>1, <3>2
  <2> QED BY <2>1 DEF Between
<1>4. \A k \in 0..Len(Feed) : C(k) => k = i BY <1>0, <1>1, <1>3
<1>5. Complete(n) = CHOOSE k \in 0..Len(Feed) : C(k) BY DEF Complete, At
<1> HIDE DEF C
<1> QED BY <1>3, <1>4, <1>5

(* The bytes of a packet, where they are in the stream.                    *)
LEMMA PacketBytes ==
  ASSUME ClearFeed, NEW i \in 1..Len(Feed)
  PROVE  /\ Bytes \in Seq(Nat) /\ At(i - 1) \in Nat /\ At(i) <= Len(Bytes)
         /\ At(i) = At(i - 1) + HEADER + Len(Feed[i].body)
         /\ Bytes[At(i - 1) + 1] = VERSION /\ Bytes[At(i - 1) + 2] = Feed[i].prot
         /\ Bytes[At(i - 1) + 3] = Len(Feed[i].body)
         /\ \A j \in 1..Len(Feed[i].body) : Bytes[At(i - 1) + HEADER + j] = Feed[i].body[j]
<1>0. Len(Feed) \in Nat /\ Len(Feed) \in 0..Len(Feed) /\ i \in 0..Len(Feed) /\ i - 1 \in 0..Len(Feed)
  BY FeedAssumption
<1> DEFINE p == Feed[i]
           h == <<VERSION, p.prot, Len(p.body)>>
           e == Encode(p)
           u == Upto[i - 1]
<1>1. /\ p.prot \in Nat /\ p.body \in Seq(Nat) /\ p.junk = <<>> /\ VERSION \in Nat
      /\ Len(p.body) \in Nat
  BY Encoded, IdsAssumption DEF ClearFeed
<1>2. u \in Seq(Nat) /\ Len(u) = At(i - 1) /\ At(i - 1) \in Nat BY <1>0, UptoGrows DEF At
<1>3. Upto[i] = u \o e BY UptoIs
<1>4. /\ Bytes \in Seq(Nat) /\ At(i) <= Len(Bytes) /\ At(i) \in Nat
      /\ \A j \in 1..At(i) : Bytes[j] = Upto[i][j]
  <2>1. Upto[Len(Feed)] \in Seq(Nat) /\ At(i) \in Nat /\ (i < Len(Feed) => At(i) < At(Len(Feed)))
        /\ \A j \in 1..At(i) : Upto[Len(Feed)][j] = Upto[i][j]
    BY <1>0, UptoGrows
  <2> QED BY <1>0, <2>1 DEF Bytes, At
<1>5. e = <<>> \o h \o p.body BY <1>1 DEF Encode
<1> DEFINE b == p.body
           w == Len(b)
<1>6. h \in Seq(Nat) /\ Len(h) = 3 /\ h[1] = VERSION /\ h[2] = p.prot /\ h[3] = w
  BY <1>1
<1>7. b \in Seq(Nat) /\ w \in Nat BY <1>1
<1> HIDE DEF p, u, h, e, b
<1>8. /\ e \in Seq(Nat) /\ Len(e) = 3 + w
      /\ \A j \in 1..3 : e[j] = h[j]
      /\ \A j \in 1..w : e[3 + j] = b[j]
  <2>1. <<>> \o h = h BY <1>6, ConcatEmptySeq
  <2>2. e = h \o b BY <1>5, <2>1 DEF b
  <2>3. /\ e \in Seq(Nat) /\ Len(e) = Len(h) + Len(b)
        /\ \A j \in 1..Len(h) + Len(b) : e[j] = IF j <= Len(h) THEN h[j] ELSE b[j - Len(h)]
    BY <1>6, <1>7, <2>2, ConcatProperties
  <2>4. \A j \in 1..3 + w : e[j] = IF j <= 3 THEN h[j] ELSE b[j - 3] BY <1>6, <2>3
  <2>5. \A j \in 1..w : e[3 + j] = b[j]
    <3> TAKE j \in 1..w
    <3>1. 3 + j \in 1..3 + w /\ ~(3 + j <= 3) /\ (3 + j) - 3 = j BY <1>7
    <3> QED BY <2>4, <3>1
  <2>6. Len(e) = 3 + w BY <1>6, <2>3
  <2>7. \A j \in 1..3 : e[j] = h[j] BY <1>7, <2>4
  <2> QED BY <2>3, <2>5, <2>6, <2>7
<1> HIDE DEF w
<1>9. /\ At(i) = At(i - 1) + 3 + w
      /\ \A j \in 1..3 + w : Upto[i][At(i - 1) + j] = e[j]
  <2> DEFINE a == Len(u)
  <2>1. /\ Len(u \o e) = a + Len(e)
        /\ \A j \in 1..a + Len(e) : (u \o e)[j] = IF j <= a THEN u[j] ELSE e[j - a]
    BY <1>2, <1>8, ConcatProperties
  <2>2. a \in Nat /\ a = At(i - 1) BY <1>2
  <2> HIDE DEF a
  <2>3. \A j \in 1..a + (3 + w) : (u \o e)[j] = IF j <= a THEN u[j] ELSE e[j - a]
    BY <1>8, <2>1
  <2>4. \A j \in 1..3 + w : (u \o e)[a + j] = e[j]
    <3> TAKE j \in 1..3 + w
    <3>1. a + j \in 1..a + (3 + w) /\ ~(a + j <= a) /\ (a + j) - a = j BY <1>7, <2>2
    <3> QED BY <2>3, <3>1
  <2>5. Len(u \o e) = a + 3 + w BY <1>7, <1>8, <2>1, <2>2
  <2> QED BY <1>3, <2>2, <2>4, <2>5 DEF At
<1>10. \A j \in 1..3 + w : Bytes[At(i - 1) + j] = e[j]
  <2> TAKE j \in 1..3 + w
  <2>1. At(i - 1) + j \in 1..At(i) BY <1>2, <1>7, <1>9
  <2> QED BY <1>4, <1>9, <2>1
<1>11. \A j \in 1..w : Bytes[At(i - 1) + 3 + j] = b[j]
  <2> TAKE j \in 1..w
  <2>1. 3 + j \in 1..3 + w /\ At(i - 1) + (3 + j) = At(i - 1) + 3 + j BY <1>2, <1>7
  <2> QED BY <1>8, <1>10, <2>1
<1>12. Bytes[At(i - 1) + 1] = VERSION /\ Bytes[At(i - 1) + 2] = p.prot
       /\ Bytes[At(i - 1) + 3] = w
  <2>1. 1 \in 1..3 + w /\ 2 \in 1..3 + w /\ 3 \in 1..3 + w BY <1>7
  <2> QED BY <1>6, <1>8, <1>10, <2>1
<1> QED BY <1>2, <1>4, <1>9, <1>11, <1>12 DEF p, b, w, HEADER

LEMMA ReceivedIs ==
  ASSUME NEW chunk \in Seq(Nat), rxbuf \in Seq(Nat)
  PROVE  \E round :
           /\ round[0] = [buf |-> rxbuf, rest |-> chunk, out |-> <<>>]
           /\ Received(chunk) = round[Len(rxbuf) + 2 * Len(chunk)]
           /\ \A n \in 1..(Len(rxbuf) + 2 * Len(chunk)) : round[n] = Absorb(round[n - 1])
<1> DEFINE N == Len(rxbuf) + 2 * Len(chunk)
           first == [buf |-> rxbuf, rest |-> chunk, out |-> <<>>]
           Is(f, k) == f = [n \in 0..k |-> IF n = 0 THEN first ELSE Absorb(f[n - 1])]
           Bad == {k \in 0..N : ~\E f : Is(f, k)}
           round == CHOOSE h : Is(h, N)
<1>0. N \in Nat OBVIOUS
<1>1. Received(chunk) = round[N] BY DEF Received
<1> HIDE DEF N, first, Is, round
<1>2. Bad = {}
  <2>1. SUFFICES ASSUME Bad # {} PROVE FALSE OBVIOUS
  <2>2. PICK k \in Bad : \A j \in Bad : k <= j
    <3>1. Bad \in SUBSET Nat BY <1>0
    <3> HIDE DEF Bad
    <3> QED BY <2>1, <3>1, FirstIn
  <2>3. k # 0
    <3> DEFINE g == [n \in 0..0 |-> first]
    <3>1. Is(g, 0) BY DEF Is
    <3> QED BY <3>1
  <2>4. k - 1 \in 0..N /\ k - 1 \notin Bad BY <1>0, <2>2, <2>3
  <2>5. PICK f : Is(f, k - 1) BY <2>4
  <2> DEFINE g == [n \in 0..k |-> IF n = k THEN Absorb(f[k - 1]) ELSE f[n]]
  <2>6. k \in Nat /\ k >= 1 BY <1>0, <2>2, <2>3
  <2>7. (\A n \in 0..(k - 1) : g[n] = f[n]) /\ g[k] = Absorb(f[k - 1])
    BY <2>6
  <2>8. f[0] = first /\ \A n \in 1..(k - 1) : f[n] = Absorb(f[n - 1])
    BY <2>5, <2>6 DEF Is
  <2>9. \A n \in 0..k : g[n] = IF n = 0 THEN first ELSE Absorb(g[n - 1])
    BY <2>6, <2>7, <2>8
  <2>10. g = [n \in 0..k |-> g[n]] OBVIOUS
  <2> HIDE DEF g
  <2>11. Is(g, k) BY <2>9, <2>10 DEF Is
  <2> QED BY <2>2, <2>11
<1>3. PICK f : Is(f, N)
  <2>0. N \in 0..N BY <1>0
  <2>1. N \in 0..N /\ N \notin Bad BY <1>2, <2>0
  <2> QED BY <2>1
<1>4. Is(round, N) BY <1>3 DEF round
<1>5. round[0] = first /\ \A n \in 1..N : round[n] = Absorb(round[n - 1])
  BY <1>0, <1>4 DEF Is
<1> QED BY <1>1, <1>5 DEF N, first

(* What a round of DataAvailable works on: the bytes of the feed from the  *)
(* packet after i to q are in the buffer, those to e in the chunk, and the *)
(* packets since a have been taken off.                                    *)
Buffer(i, q) == SubSeq(Bytes, At(i) + 1, q)

Work(a, i, q, e) ==
  [buf |-> Buffer(i, q), rest |-> SubSeq(Bytes, q + 1, e), out |-> Slice(a, i)]

Within(a, i, q, e) ==
  /\ a \in 0..Len(Feed) /\ i \in a..Len(Feed) /\ At(i) \in Nat /\ q \in Nat /\ e \in Nat
  /\ At(i) <= q /\ q <= e /\ e <= Len(Bytes)

LEMMA Facts ==
  /\ Len(Feed) \in Nat /\ Bytes \in Seq(Nat) /\ Len(Bytes) \in Nat /\ At(Len(Feed)) = Len(Bytes)
  /\ \A i \in 0..Len(Feed) : At(i) \in Nat /\ At(i) <= Len(Bytes)
  /\ At(0) = 0
<1>1. Len(Feed) \in Nat BY FeedAssumption
<1>2. Len(Feed) \in 0..Len(Feed) BY <1>1
<1>3. Bytes \in Seq(Nat) /\ At(Len(Feed)) = Len(Bytes) BY <1>2, UptoGrows DEF Bytes, At
<1>4. \A i \in 0..Len(Feed) : At(i) \in Nat /\ (i < Len(Feed) => At(i) < Len(Bytes))
  BY <1>2, <1>3, UptoGrows
<1>5. At(0) = 0 BY UptoIs DEF At
<1> QED BY <1>1, <1>3, <1>4, <1>5

LEMMA FunctionIsSeq ==
  ASSUME NEW S, NEW m \in Nat, NEW f \in [1..m -> S]
  PROVE  f \in Seq(S) /\ Len(f) = m
OBVIOUS

LEMMA SliceGrows ==
  ASSUME NEW a \in 0..Len(Feed), NEW i \in a..Len(Feed), i < Len(Feed)
  PROVE  /\ Slice(a, i) \in Seq(P)
         /\ Slice(a, i + 1) = Append(Slice(a, i), Packet(Feed[i + 1]))
<1>0. Len(Feed) \in Nat BY FeedAssumption
<1>1. \A n \in 1..Len(Feed) : Packet(Feed[n]) \in P
  <2> TAKE n \in 1..Len(Feed)
  <2>1. Feed[n].prot \in KnownIds /\ Feed[n].body \in Seq(Nat) BY Encoded
  <2> QED BY <2>1 DEF Packet, P
<1>2. ASSUME NEW j \in a..Len(Feed)
      PROVE  /\ Slice(a, j) \in Seq(P) /\ Len(Slice(a, j)) = j - a
             /\ \A n \in 1..(j - a) : Slice(a, j)[n] = Packet(Feed[a + n])
  <2>1. \A n \in 1..(j - a) : a + n \in 1..Len(Feed) BY <1>0
  <2>2. \A n \in 1..(j - a) : Packet(Feed[a + n]) \in P BY <1>1, <2>1
  <2>3. j - a \in Nat BY <1>0
  <2> DEFINE f == Slice(a, j)
             m == j - a
  <2>4. f = [n \in 1..m |-> Packet(Feed[a + n])] BY DEF Slice
  <2> HIDE DEF f, m
  <2>5. f \in [1..m -> P] /\ \A n \in 1..m : f[n] = Packet(Feed[a + n])
    BY <2>2, <2>4 DEF m
  <2>6. f \in Seq(P) /\ Len(f) = m BY <2>3, <2>5, FunctionIsSeq DEF m
  <2> QED BY <2>5, <2>6 DEF f, m
<1>3. i + 1 \in a..Len(Feed) /\ i + 1 \in 1..Len(Feed) BY <1>0
<1> DEFINE s == Slice(a, i)
           t == Slice(a, i + 1)
           x == Packet(Feed[i + 1])
<1>4. s \in Seq(P) /\ Len(s) = i - a /\ \A n \in 1..(i - a) : s[n] = Packet(Feed[a + n])
  BY <1>2
<1>5. t \in Seq(P) /\ Len(t) = (i + 1) - a
      /\ \A n \in 1..((i + 1) - a) : t[n] = Packet(Feed[a + n])
  BY <1>2, <1>3
<1>6. x \in P BY <1>1, <1>3
<1>7. t[(i - a) + 1] = x
  <2>1. (i - a) + 1 \in 1..((i + 1) - a) /\ a + ((i - a) + 1) = i + 1 BY <1>0
  <2> QED BY <1>5, <2>1
<1> HIDE DEF s, t, x
<1>8. /\ Append(s, x) \in Seq(P) /\ Len(Append(s, x)) = Len(s) + 1
      /\ \A n \in 1..Len(s) : Append(s, x)[n] = s[n]
      /\ Append(s, x)[Len(s) + 1] = x
  BY <1>4, <1>6, AppendProperties
<1>9. \A n \in 1..Len(t) : t[n] = Append(s, x)[n]
  <2> TAKE n \in 1..Len(t)
  <2>1. CASE n = (i - a) + 1 BY <1>4, <1>7, <1>8, <2>1
  <2>2. CASE n # (i - a) + 1
    <3>1. n \in 1..(i - a) /\ n \in 1..((i + 1) - a) BY <1>0, <1>5, <2>2
    <3> QED BY <1>4, <1>5, <1>8, <3>1
  <2> QED BY <2>1, <2>2
<1>10. Len(t) = Len(Append(s, x)) BY <1>0, <1>4, <1>5, <1>8
<1>11. t = Append(s, x) BY <1>5, <1>8, <1>9, <1>10, SeqEqual
<1> QED BY <1>4, <1>11 DEF s, t, x

(* How much of the work is left, and when there is none.                   *)
Todo(i, q, e) == 2 * (e - q) + (q - At(i))
Idle(i, q, e) == q = e /\ (i < Len(Feed) => q < At(i + 1))

(* The buffer begins with a packet, and the packet is whole when its bytes *)
(* have been read.                                                         *)
LEMMA Leading ==
  ASSUME ClearFeed, NEW a, NEW i, NEW q, NEW e, Within(a, i, q, e)
  PROVE  /\ Buffer(i, q) \in Seq(Nat) /\ Len(Buffer(i, q)) = q - At(i)
         /\ Len(Buffer(i, q)) > HEADER => Leads(Buffer(i, q))
         /\ Whole(Buffer(i, q)) <=> i < Len(Feed) /\ At(i + 1) <= q
         /\ Whole(Buffer(i, q)) =>
              Buffer(i, q)[2] = Feed[i + 1].prot /\ Buffer(i, q)[3] = Len(Feed[i + 1].body)
         /\ ~Whole(Buffer(i, q)) =>
              Len(Buffer(i, q)) <= BufSize /\ (q < e => Len(Buffer(i, q)) < BufSize)
<1> DEFINE b == Buffer(i, q)
           A == At(i)
<1>1. /\ Len(Feed) \in Nat /\ Bytes \in Seq(Nat) /\ Len(Bytes) \in Nat
      /\ At(Len(Feed)) = Len(Bytes)
  BY Facts
<1>2. /\ a \in 0..Len(Feed) /\ i \in a..Len(Feed) /\ A \in Nat /\ q \in Nat /\ e \in Nat
      /\ A <= q /\ q <= e /\ e <= Len(Bytes)
  BY DEF Within
<1>3. q <= Len(Bytes) BY <1>1, <1>2
<1>4. /\ b \in Seq(Nat) /\ Len(b) = q - A
      /\ \A j \in 1..(q - A) : b[j] = Bytes[A + j]
  <2> HIDE DEF A
  <2>1. b = SubSeq(Bytes, A + 1, q) BY DEF Buffer, A
  <2> HIDE DEF b
  <2> QED BY <1>1, <1>2, <1>3, <2>1, PartOf
<1> HIDE DEF b
<1>5. BufSize \in Nat BY SizesAssumption
<1>6. CASE i = Len(Feed)
  <2>1. q = A /\ q = e /\ Len(b) = 0 BY <1>1, <1>2, <1>3, <1>4, <1>6
  <2> QED BY <1>2, <1>4, <1>5, <1>6, <2>1 DEF Whole, HEADER, b
<1>7. CASE i # Len(Feed)
  <2> DEFINE n == i + 1
             w == Len(Feed[n].body)
             B == At(n)
  <2>1. n \in 1..Len(Feed) /\ n - 1 = i /\ i < Len(Feed) BY <1>1, <1>2, <1>7
  <2>2. /\ B = A + 3 + w /\ Bytes[A + 1] = VERSION
        /\ Bytes[A + 2] = Feed[n].prot /\ Bytes[A + 3] = w
    BY <2>1, PacketBytes DEF HEADER
  <2>3. w \in Nat /\ Feed[n].prot \in KnownIds /\ Feed[n].body # <<>> /\ 3 + w <= BufSize
    BY <2>1, Encoded DEF ClearFeed, HEADER
  <2>4. w # 0
    <3>1. Feed[n].body \in Seq(Nat) BY <2>1, Encoded
    <3> QED BY <2>3, <3>1, EmptySeq
  <2> HIDE DEF n, w, A, B
  <2>5. ASSUME Len(b) > 3
        PROVE  b[1] = VERSION /\ b[2] = Feed[n].prot /\ b[3] = w
    <3>1. 1 \in 1..(q - A) /\ 2 \in 1..(q - A) /\ 3 \in 1..(q - A)
      BY <1>2, <1>4, <2>5
    <3> QED BY <1>4, <2>2, <3>1
  <2>6. Len(b) > HEADER => Leads(b) BY <2>3, <2>5 DEF Leads, HEADER
  <2>7. Whole(b) <=> B <= q
    <3>1. CASE Len(b) > 3
      <4>1. Whole(b) <=> q - A >= 3 + w BY <1>4, <2>5, <3>1 DEF Whole, HEADER
      <4> QED BY <1>2, <2>2, <2>3, <4>1
    <3>2. CASE ~(Len(b) > 3)
      <4>1. ~Whole(b) BY <3>2 DEF Whole, HEADER
      <4> QED BY <1>2, <1>4, <2>2, <2>3, <2>4, <3>2, <4>1
    <3> QED BY <3>1, <3>2
  <2>8. Whole(b) => b[2] = Feed[n].prot /\ b[3] = w BY <2>5 DEF Whole, HEADER
  <2>9. ~Whole(b) => Len(b) < BufSize /\ Len(b) <= BufSize
    <3>1. SUFFICES ASSUME q < A + 3 + w PROVE Len(b) < BufSize /\ Len(b) <= BufSize
      BY <1>2, <2>2, <2>3, <2>7
    <3>2. Len(b) = q - A BY <1>4
    <3> QED BY <1>2, <1>5, <2>3, <3>1, <3>2
  <2> QED BY <1>4, <2>1, <2>6, <2>7, <2>8, <2>9 DEF n, w, A, B, b
<1> QED BY <1>6, <1>7

LEMMA TakesPacket ==
  ASSUME ClearFeed, NEW a, NEW i, NEW q, NEW e, Within(a, i, q, e),
         i < Len(Feed), At(i + 1) <= q
  PROVE  /\ Within(a, i + 1, q, e) /\ Todo(i + 1, q, e) < Todo(i, q, e)
         /\ Absorb(Work(a, i, q, e)) = Work(a, i + 1, q, e)
<1> DEFINE s == Work(a, i, q, e)
           b == Buffer(i, q)
           n == i + 1
           w == Len(Feed[n].body)
           A == At(i)
           B == At(n)
<1>1. Len(Feed) \in Nat /\ Bytes \in Seq(Nat) /\ Len(Bytes) \in Nat BY Facts
<1>2. /\ a \in 0..Len(Feed) /\ i \in a..Len(Feed) /\ A \in Nat /\ q \in Nat /\ e \in Nat
      /\ A <= q /\ q <= e /\ e <= Len(Bytes)
  BY DEF Within
<1>3. n \in 1..Len(Feed) /\ n - 1 = i /\ n \in a..Len(Feed) BY <1>1, <1>2
<1>4. /\ b \in Seq(Nat) /\ Len(b) = q - A /\ Whole(b)
      /\ b[2] = Feed[n].prot /\ b[3] = w /\ (Len(b) > HEADER => Leads(b))
  <2>1. Whole(b) BY Leading
  <2> QED BY <2>1, Leading
<1>5. B = A + 3 + w BY <1>3, PacketBytes DEF HEADER
<1>0. \A j \in 1..w : Bytes[A + 3 + j] = Feed[n].body[j] BY <1>3, PacketBytes DEF HEADER
<1>6. w \in Nat /\ Feed[n].body \in Seq(Nat) BY <1>3, Encoded
<1>7. /\ B \in Nat /\ B <= q /\ q <= Len(Bytes) /\ 3 + w \in Nat /\ q - A \in Nat
      /\ 3 + w <= q - A /\ A + (q - A) = q /\ A + (3 + w) = B
  <2>1. B <= q OBVIOUS
  <2> HIDE DEF A, B, n, w
  <2> QED BY <1>1, <1>2, <1>5, <1>6, <2>1
<1>8. s.buf = b /\ s.rest = SubSeq(Bytes, q + 1, e) /\ s.out = Slice(a, i) BY DEF Work
<1>9. Work(a, n, q, e) = [buf |-> Buffer(n, q), rest |-> SubSeq(Bytes, q + 1, e),
                          out |-> Slice(a, n)]
  BY DEF Work
<1> HIDE DEF A, B
<1>10. SubSeq(b, 3 + w + 1, Len(b)) = Buffer(n, q)
  <2> DEFINE x == 3 + w
             y == q - A
  <2>1. x \in Nat /\ y \in Nat /\ x <= y /\ A + y = q /\ A + x = B /\ y <= q - A
    BY <1>7
  <2>2. b = SubSeq(Bytes, A + 1, q) /\ Len(b) = y BY <1>4 DEF A, Buffer
  <2>4. Buffer(n, q) = SubSeq(Bytes, B + 1, q) BY DEF B, Buffer
  <2> HIDE DEF x, y, b
  <2>3. SubSeq(SubSeq(Bytes, A + 1, q), x + 1, y) = SubSeq(Bytes, A + x + 1, A + y)
    BY <1>1, <1>2, <1>7, <2>1, PartOfPart
  <2> QED BY <2>1, <2>2, <2>3, <2>4 DEF x
<1>11. SubSeq(b, 3 + 1, 3 + w) = Feed[n].body
  <2> DEFINE y == 3 + w
             l == A + 3
             h == A + y
             t == SubSeq(Bytes, l + 1, h)
  <2> HIDE DEF w, b
  <2>1. /\ 3 \in Nat /\ y \in Nat /\ 3 <= y /\ y <= q - A /\ l \in Nat /\ h \in Nat /\ l <= h
        /\ h <= Len(Bytes) /\ h - l = w
    BY <1>1, <1>2, <1>6, <1>7
  <2>2. \A j \in 1..w : Bytes[l + j] = Feed[n].body[j] BY <1>0 DEF w
  <2>3. b = SubSeq(Bytes, A + 1, q) BY DEF b, A, Buffer
  <2> HIDE DEF y
  <2>4. SubSeq(SubSeq(Bytes, A + 1, q), 3 + 1, y) = SubSeq(Bytes, A + 3 + 1, A + y)
    BY <1>1, <1>2, <1>7, <2>1, PartOfPart
  <2>5. t = SubSeq(b, 3 + 1, y) BY <2>3, <2>4
  <2> HIDE DEF l, h
  <2>6. t \in Seq(Nat) /\ Len(t) = h - l /\ \A j \in 1..(h - l) : t[j] = Bytes[l + j]
    BY <1>1, <2>1, PartOf
  <2> HIDE DEF t
  <2>7. w = Len(Feed[n].body) BY DEF w
  <2>8. t = Feed[n].body BY <1>6, <2>1, <2>2, <2>6, <2>7, SeqEqual
  <2> QED BY <2>5, <2>8 DEF y
<1>12. Packet(Feed[n]) = [prot |-> Feed[n].prot, body |-> Feed[n].body] BY DEF Packet
<1>13. Slice(a, n) = Append(Slice(a, i), Packet(Feed[n])) BY <1>1, <1>2, SliceGrows DEF n
<1> HIDE DEF s, b, n, w
<1>14. Absorb(s) = [buf |-> SubSeq(b, 3 + w + 1, Len(b)), rest |-> s.rest,
                    out |-> Append(s.out, [prot |-> b[2], body |-> SubSeq(b, 3 + 1, 3 + w)])]
  <2>1. (IF Len(s.buf) <= HEADER \/ Leads(s.buf) THEN s.buf ELSE Clean[s.buf]) = b
    BY <1>4, <1>8 DEF HEADER
  <2> QED BY <1>4, <1>8, <2>1 DEF Absorb, HEADER
<1>15. Absorb(s) = Work(a, n, q, e)
  BY <1>4, <1>8, <1>9, <1>10, <1>11, <1>12, <1>13, <1>14
<1>16. Within(a, n, q, e) BY <1>2, <1>3, <1>7 DEF Within, B
<1>17. Todo(n, q, e) < Todo(i, q, e)
  <2>1. Todo(n, q, e) = 2 * (e - q) + (q - B) /\ Todo(i, q, e) = 2 * (e - q) + (q - A)
    BY DEF Todo, A, B
  <2> QED BY <1>2, <1>5, <1>6, <1>7, <2>1
<1> QED BY <1>15, <1>16, <1>17 DEF n, s

LEMMA TakesBytes ==
  ASSUME ClearFeed, NEW a, NEW i, NEW q, NEW e, Within(a, i, q, e),
         ~(i < Len(Feed) /\ At(i + 1) <= q)
  PROVE  \E k \in Nat :
           /\ Within(a, i, q + k, e) /\ Absorb(Work(a, i, q, e)) = Work(a, i, q + k, e)
           /\ IF q < e THEN Todo(i, q + k, e) < Todo(i, q, e) ELSE k = 0
<1> DEFINE s == Work(a, i, q, e)
           b == Buffer(i, q)
           c == SubSeq(Bytes, q + 1, e)
           room == BufSize - Len(b)
           k == IF Len(c) < room THEN Len(c) ELSE room
<1>1. /\ Len(Feed) \in Nat /\ Bytes \in Seq(Nat) /\ Len(Bytes) \in Nat /\ BufSize \in Nat
  BY Facts, SizesAssumption
<1>2. /\ a \in 0..Len(Feed) /\ i \in a..Len(Feed) /\ At(i) \in Nat /\ q \in Nat /\ e \in Nat
      /\ At(i) <= q /\ q <= e /\ e <= Len(Bytes)
  BY DEF Within
<1>3. /\ b \in Seq(Nat) /\ Len(b) = q - At(i) /\ ~Whole(b) /\ (Len(b) > HEADER => Leads(b))
      /\ Len(b) <= BufSize /\ (q < e => Len(b) < BufSize)
  BY Leading
<1>4. c \in Seq(Nat) /\ Len(c) = e - q
  <2>1. q \in Nat /\ e \in Nat /\ q <= e /\ e <= Len(Bytes) /\ Bytes \in Seq(Nat)
    BY <1>1, <1>2
  <2> QED BY <2>1, PartOf
<1>5. s.buf = b /\ s.rest = c /\ s.out = Slice(a, i) BY DEF Work
<1> HIDE DEF s, b, c
<1>6. room \in Nat /\ (q < e => room # 0) BY <1>1, <1>2, <1>3
<1>7. k \in Nat /\ k <= e - q /\ (q < e => k # 0) BY <1>2, <1>4, <1>6
<1>8. Absorb(s) = [buf |-> b \o SubSeq(c, 1, k), rest |-> SubSeq(c, k + 1, Len(c)),
                   out |-> s.out]
  <2>1. (IF Len(s.buf) <= HEADER \/ Leads(s.buf) THEN s.buf ELSE Clean[s.buf]) = b
    BY <1>3, <1>5 DEF HEADER
  <2> QED BY <1>3, <1>5, <2>1 DEF Absorb
<1> HIDE DEF room, k
<1>9. q + k \in Nat /\ q + k <= e /\ q <= q + k /\ q + k <= Len(Bytes) BY <1>1, <1>2, <1>7
<1>10. SubSeq(c, 1, k) = SubSeq(Bytes, q + 1, q + k)
  <2>1. SubSeq(SubSeq(Bytes, q + 1, e), 0 + 1, k) = SubSeq(Bytes, q + 0 + 1, q + k)
    <3>1. 0 \in Nat /\ 0 <= k /\ k <= e - q BY <1>7
    <3> QED BY <1>1, <1>2, <1>7, <3>1, PartOfPart
  <2>2. 0 + 1 = 1 /\ q + 0 + 1 = q + 1 BY <1>2
  <2> QED BY <2>1, <2>2 DEF c
<1>11. b \o SubSeq(Bytes, q + 1, q + k) = Buffer(i, q + k)
  <2> DEFINE m == At(i) + 1
             h == q + k
  <2>1. m \in 1..(Len(Bytes) + 1) /\ q \in (m - 1)..Len(Bytes) /\ h \in q..Len(Bytes)
    BY <1>1, <1>2, <1>9
  <2>3. b = SubSeq(Bytes, m, q) /\ Buffer(i, h) = SubSeq(Bytes, m, h) BY DEF b, Buffer
  <2> HIDE DEF m, h
  <2>2. SubSeq(Bytes, m, q) \o SubSeq(Bytes, q + 1, h) = SubSeq(Bytes, m, h)
    BY <1>1, <2>1, ConcatAdjacentSubSeq
  <2> QED BY <2>2, <2>3 DEF h
<1>12. SubSeq(c, k + 1, Len(c)) = SubSeq(Bytes, q + k + 1, e)
  <2> DEFINE y == e - q
  <2>1. y \in Nat /\ k <= y /\ y <= e - q /\ q + y = e BY <1>2, <1>7
  <2> HIDE DEF y
  <2>2. SubSeq(SubSeq(Bytes, q + 1, e), k + 1, y) = SubSeq(Bytes, q + k + 1, q + y)
    BY <1>1, <1>2, <1>7, <2>1, PartOfPart
  <2> QED BY <1>4, <2>1, <2>2 DEF c, y
<1>13. Absorb(s) = Work(a, i, q + k, e)
  BY <1>5, <1>8, <1>10, <1>11, <1>12 DEF Work
<1>14. Within(a, i, q + k, e) BY <1>2, <1>9 DEF Within
<1>15. IF q < e THEN Todo(i, q + k, e) < Todo(i, q, e) ELSE k = 0
  BY <1>2, <1>7, <1>9 DEF Todo
<1> QED BY <1>7, <1>13, <1>14, <1>15 DEF s

(* DataAvailable leaves in the buffer what has been read of the packet in  *)
(* progress and takes off the packets that have become complete.           *)
LEMMA ReceivedInOrder ==
  ASSUME ClearFeed, NEW a, pos \in Nat, Between(a, pos), rxbuf = Buffer(a, pos),
         NEW k \in Nat, pos + k <= Len(Bytes)
  PROVE  \E i \in a..Len(Feed) :
           /\ Between(i, pos + k)
           /\ Received(SubSeq(Bytes, pos + 1, pos + k)).buf = Buffer(i, pos + k)
           /\ Received(SubSeq(Bytes, pos + 1, pos + k)).out = Slice(a, i)
<1> DEFINE e == pos + k
           chunk == SubSeq(Bytes, pos + 1, e)
           N == Len(rxbuf) + 2 * Len(chunk)
<1>1. /\ Len(Feed) \in Nat /\ Bytes \in Seq(Nat) /\ Len(Bytes) \in Nat
      /\ At(Len(Feed)) = Len(Bytes)
      /\ a \in 0..Len(Feed) /\ At(a) \in Nat /\ At(a) <= pos
  BY Facts DEF Between
<1>2. e \in Nat /\ pos <= e /\ e <= Len(Bytes) /\ e - pos = k OBVIOUS
<1> HIDE DEF e
<1>3. Within(a, a, pos, e) BY <1>1, <1>2 DEF Within
<1>4. chunk \in Seq(Nat) /\ Len(chunk) = k BY <1>1, <1>2, PartOf
<1>5. rxbuf \in Seq(Nat) /\ Len(rxbuf) = pos - At(a) BY <1>3, Leading
<1>6. N = Todo(a, pos, e) /\ N \in Nat BY <1>1, <1>2, <1>4, <1>5 DEF Todo
<1>7. PICK round :
        /\ round[0] = [buf |-> rxbuf, rest |-> chunk, out |-> <<>>]
        /\ Received(chunk) = round[N]
        /\ \A n \in 1..N : round[n] = Absorb(round[n - 1])
  BY <1>4, <1>5, ReceivedIs
<1>8. round[0] = Work(a, a, pos, e)
  <2>1. Slice(a, a) = <<>>
    <3>1. a - a = 0 BY <1>1
    <3> QED BY <3>1 DEF Slice
  <2> QED BY <1>7, <2>1 DEF Work
<1> HIDE DEF N, chunk
<1> DEFINE Fine(n) == \E i, q : /\ Within(a, i, q, e) /\ round[n] = Work(a, i, q, e)
                                /\ Todo(i, q, e) <= N - n \/ Idle(i, q, e)
           Bad == {n \in 0..N : ~Fine(n)}
<1>9. ASSUME NEW i, NEW q, Within(a, i, q, e) PROVE Todo(i, q, e) \in Nat
  BY <1>9 DEF Within, Todo
<1>10. Bad = {}
  <2>1. SUFFICES ASSUME Bad # {} PROVE FALSE OBVIOUS
  <2>2. PICK n \in Bad : \A j \in Bad : n <= j
    <3>1. Bad \in SUBSET Nat BY <1>6
    <3> HIDE DEF Bad
    <3> QED BY <2>1, <3>1, FirstIn
  <2>3. n # 0
    <3>1. Todo(a, pos, e) <= N - 0 BY <1>6
    <3>2. Fine(0) BY <1>3, <1>8, <3>1
    <3> QED BY <2>2, <3>2
  <2>4. n \in 1..N /\ n - 1 \in 0..N /\ n - 1 < n BY <1>6, <2>2, <2>3
  <2>5. Fine(n - 1) BY <2>2, <2>4
  <2>6. PICK i, q : /\ Within(a, i, q, e) /\ round[n - 1] = Work(a, i, q, e)
                    /\ Todo(i, q, e) <= N - (n - 1) \/ Idle(i, q, e)
    BY <2>5
  <2>7. round[n] = Absorb(Work(a, i, q, e)) BY <1>7, <2>4, <2>6
  <2>8. i \in a..Len(Feed) /\ q \in Nat /\ e \in Nat /\ q <= e /\ At(i) \in Nat BY <2>6 DEF Within
  <2>9. CASE i < Len(Feed) /\ At(i + 1) <= q
    <3>1. /\ Within(a, i + 1, q, e) /\ Todo(i + 1, q, e) < Todo(i, q, e)
          /\ round[n] = Work(a, i + 1, q, e)
      BY <2>6, <2>7, <2>9, TakesPacket
    <3>2. ~Idle(i, q, e)
      <4>1. i + 1 \in 0..Len(Feed) BY <1>1, <2>8, <2>9
      <4>2. At(i + 1) \in Nat BY <4>1, Facts
      <4> QED BY <2>8, <2>9, <4>2 DEF Idle
    <3>3. Todo(i + 1, q, e) <= N - n
      BY <1>6, <1>9, <2>4, <2>6, <3>1, <3>2
    <3> QED BY <2>2, <3>1, <3>3
  <2>10. CASE ~(i < Len(Feed) /\ At(i + 1) <= q)
    <3>1. PICK m \in Nat :
            /\ Within(a, i, q + m, e) /\ round[n] = Work(a, i, q + m, e)
            /\ IF q < e THEN Todo(i, q + m, e) < Todo(i, q, e) ELSE m = 0
      BY <2>6, <2>7, <2>10, TakesBytes
    <3>2. CASE q < e
      <4>1. Todo(i, q + m, e) < Todo(i, q, e) BY <3>1, <3>2
      <4>2. ~Idle(i, q, e) BY <2>8, <3>2 DEF Idle
      <4>3. Todo(i, q + m, e) <= N - n BY <1>6, <1>9, <2>4, <2>6, <3>1, <4>1, <4>2
      <4> QED BY <2>2, <3>1, <4>3
    <3>3. CASE ~(q < e)
      <4>1. q = e /\ q + m = q BY <2>8, <3>1, <3>3
      <4>2. Idle(i, q, e)
        <5>1. ASSUME i < Len(Feed) PROVE q < At(i + 1)
          <6>1. i + 1 \in 0..Len(Feed) BY <1>1, <2>8, <5>1
          <6>2. At(i + 1) \in Nat BY <6>1, Facts
          <6> QED BY <2>8, <2>10, <5>1, <6>2
        <5> QED BY <4>1, <5>1 DEF Idle
      <4> QED BY <2>2, <3>1, <4>1, <4>2
    <3> QED BY <3>2, <3>3
  <2> QED BY <2>9, <2>10
<1>11. PICK i, q : /\ Within(a, i, q, e) /\ round[N] = Work(a, i, q, e)
                   /\ Todo(i, q, e) <= N - N \/ Idle(i, q, e)
  <2>1. N \in 0..N BY <1>6
  <2>2. Fine(N) BY <1>10, <2>1
  <2> QED BY <2>2
<1>12. i \in a..Len(Feed) /\ q \in Nat /\ e \in Nat /\ At(i) <= q /\ q <= e /\ At(i) \in Nat
  BY <1>11 DEF Within
<1>13. Idle(i, q, e)
  <2>1. SUFFICES ASSUME Todo(i, q, e) <= N - N PROVE Idle(i, q, e) BY <1>11
  <2>2. q = e /\ q = At(i) BY <1>6, <1>12, <2>1 DEF Todo
  <2>3. ASSUME i < Len(Feed) PROVE At(i) < At(i + 1)
    <3>1. i + 1 \in 0..Len(Feed) /\ i \in 0..(i + 1) /\ i < i + 1 BY <1>1, <1>12, <2>3
    <3> QED BY <3>1, UptoGrows
  <2> QED BY <2>2, <2>3 DEF Idle
<1>14. q = e /\ Between(i, e) BY <1>1, <1>12, <1>13 DEF Idle, Between
<1>15. Received(chunk).buf = Buffer(i, e) /\ Received(chunk).out = Slice(a, i)
  BY <1>7, <1>11, <1>14 DEF Work
<1> QED BY <1>12, <1>14, <1>15 DEF e, chunk

LEMMA DeliveredIs ==
  ASSUME NEW S, NEW out \in Seq(S)
  PROVE  \E after :
           /\ after[0] = [reads |-> reads, mailbox |-> mailbox, got |-> got]
           /\ Delivered(out) = after[Len(out)]
           /\ \A n \in 1..Len(out) : after[n] = MessageAvailable(after[n - 1], out[n])
<1> DEFINE N == Len(out)
           first == [reads |-> reads, mailbox |-> mailbox, got |-> got]
           Is(f, k) == f = [n \in 0..k |->
                         IF n = 0 THEN first ELSE MessageAvailable(f[n - 1], out[n])]
           Bad == {k \in 0..N : ~\E f : Is(f, k)}
           after == CHOOSE h : Is(h, N)
<1>0. N \in Nat OBVIOUS
<1>1. Delivered(out) = after[N] BY DEF Delivered
<1> HIDE DEF N, first, Is, after
<1>2. Bad = {}
  <2>1. SUFFICES ASSUME Bad # {} PROVE FALSE OBVIOUS
  <2>2. PICK k \in Bad : \A j \in Bad : k <= j
    <3>1. Bad \in SUBSET Nat BY <1>0
    <3> HIDE DEF Bad
    <3> QED BY <2>1, <3>1, FirstIn
  <2>3. k # 0
    <3> DEFINE g == [n \in 0..0 |-> first]
    <3>1. Is(g, 0) BY DEF Is
    <3> QED BY <3>1
  <2>4. k - 1 \in 0..N /\ k - 1 \notin Bad BY <1>0, <2>2, <2>3
  <2>5. PICK f : Is(f, k - 1) BY <2>4
  <2> DEFINE g == [n \in 0..k |-> IF n = k THEN MessageAvailable(f[k - 1], out[k]) ELSE f[n]]
  <2>6. k \in Nat /\ k >= 1 BY <1>0, <2>2, <2>3
  <2>7. (\A n \in 0..(k - 1) : g[n] = f[n]) /\ g[k] = MessageAvailable(f[k - 1], out[k])
    BY <2>6
  <2>8. f[0] = first /\ \A n \in 1..(k - 1) : f[n] = MessageAvailable(f[n - 1], out[n])
    BY <2>5, <2>6 DEF Is
  <2>9. \A n \in 0..k : g[n] = IF n = 0 THEN first ELSE MessageAvailable(g[n - 1], out[n])
    BY <2>6, <2>7, <2>8
  <2>10. g = [n \in 0..k |-> g[n]] OBVIOUS
  <2> HIDE DEF g
  <2>11. Is(g, k) BY <2>9, <2>10 DEF Is
  <2> QED BY <2>2, <2>11
<1>3. PICK f : Is(f, N)
  <2>1. N \in 0..N BY <1>0
  <2>2. N \notin Bad BY <1>2
  <2> QED BY <2>1, <2>2
<1>4. Is(after, N) BY <1>3 DEF after
<1>5. after[0] = first /\ \A n \in 1..N : after[n] = MessageAvailable(after[n - 1], out[n])
  BY <1>0, <1>4 DEF Is
<1> QED BY <1>1, <1>5 DEF N, first

Counted(of, ps, p, n) == IF ps[n].prot = p THEN Append(of[n - 1], ps[n]) ELSE of[n - 1]

LEMMA OfIs ==
  ASSUME NEW S, NEW ps \in Seq(S), NEW p
  PROVE  \E of : /\ of[0] = <<>> /\ Of(ps, p) = of[Len(ps)]
                 /\ \A n \in 1..Len(ps) : of[n] = Counted(of, ps, p, n)
<1> DEFINE N == Len(ps)
           Is(f, k) == f = [n \in 0..k |-> IF n = 0 THEN <<>> ELSE Counted(f, ps, p, n)]
           Bad == {k \in 0..N : ~\E f : Is(f, k)}
           of == CHOOSE h : Is(h, N)
<1>0. N \in Nat OBVIOUS
<1>1. Of(ps, p) = of[N] BY DEF Of, Counted
<1> HIDE DEF N, Is, of
<1>2. Bad = {}
  <2>1. SUFFICES ASSUME Bad # {} PROVE FALSE OBVIOUS
  <2>2. PICK k \in Bad : \A j \in Bad : k <= j
    <3>1. Bad \in SUBSET Nat BY <1>0
    <3> HIDE DEF Bad
    <3> QED BY <2>1, <3>1, FirstIn
  <2>3. k # 0
    <3> DEFINE g == [n \in 0..0 |-> <<>>]
    <3>1. Is(g, 0) BY DEF Is
    <3> QED BY <3>1
  <2>4. k - 1 \in 0..N /\ k - 1 \notin Bad BY <1>0, <2>2, <2>3
  <2>5. PICK f : Is(f, k - 1) BY <2>4
  <2> DEFINE g == [n \in 0..k |-> IF n = k THEN Counted(f, ps, p, k) ELSE f[n]]
  <2>6. k \in Nat /\ k >= 1 BY <1>0, <2>2, <2>3
  <2>7. (\A n \in 0..(k - 1) : g[n] = f[n]) /\ g[k] = Counted(f, ps, p, k)
    BY <2>6
  <2>8. f[0] = <<>> /\ \A n \in 1..(k - 1) : f[n] = Counted(f, ps, p, n)
    BY <2>5, <2>6 DEF Is
  <2> HIDE DEF g
  <2>9. \A n \in 1..k : Counted(g, ps, p, n) = Counted(f, ps, p, n)
    BY <2>6, <2>7 DEF Counted
  <2>10. \A n \in 0..k : g[n] = IF n = 0 THEN <<>> ELSE Counted(g, ps, p, n)
    BY <2>6, <2>7, <2>8, <2>9
  <2>11. g = [n \in 0..k |-> g[n]] BY DEF g
  <2>12. Is(g, k) BY <2>10, <2>11 DEF Is
  <2> QED BY <2>2, <2>12
<1>3. PICK f : Is(f, N)
  <2>1. N \in 0..N BY <1>0
  <2>2. N \notin Bad BY <1>2
  <2> QED BY <2>1, <2>2
<1>4. Is(of, N) BY <1>3 DEF of
<1>5. of[0] = <<>> /\ \A n \in 1..N : of[n] = Counted(of, ps, p, n)
  BY <1>0, <1>4 DEF Is
<1> QED BY <1>1, <1>5 DEF N

LEMMA OfNothing == ASSUME NEW p PROVE Of(<<>>, p) = <<>>
<1>1. <<>> \in Seq({}) /\ Len(<<>>) = 0 BY EmptySeq
<1>2. PICK of : of[0] = <<>> /\ Of(<<>>, p) = of[Len(<<>>)] BY <1>1, OfIs
<1> QED BY <1>1, <1>2

LEMMA OfAppend ==
  ASSUME NEW S, NEW ps \in Seq(S), NEW x \in S, NEW p
  PROVE  Of(Append(ps, x), p) = IF x.prot = p THEN Append(Of(ps, p), x) ELSE Of(ps, p)
<1> DEFINE qs == Append(ps, x)
           N == Len(ps)
<1>1. /\ qs \in Seq(S) /\ Len(qs) = N + 1 /\ qs[N + 1] = x
      /\ \A n \in 1..N : qs[n] = ps[n]
  BY AppendProperties
<1>2. N \in Nat OBVIOUS
<1>3. PICK f : /\ f[0] = <<>> /\ Of(ps, p) = f[N]
               /\ \A n \in 1..N : f[n] = Counted(f, ps, p, n)
  BY OfIs
<1> HIDE DEF qs, N
<1>4. qs \in Seq(S) BY <1>1
<1>5. PICK g : /\ g[0] = <<>> /\ Of(qs, p) = g[Len(qs)]
               /\ \A n \in 1..Len(qs) : g[n] = Counted(g, qs, p, n)
  BY <1>4, OfIs
<1>6. /\ g[0] = <<>> /\ Of(qs, p) = g[N + 1]
      /\ \A n \in 1..(N + 1) : g[n] = Counted(g, qs, p, n)
  BY <1>1, <1>5
<1> DEFINE Bad == {n \in 0..N : g[n] # f[n]}
<1>7. Bad = {}
  <2>1. SUFFICES ASSUME Bad # {} PROVE FALSE OBVIOUS
  <2>2. PICK n \in Bad : \A j \in Bad : n <= j
    <3>1. Bad \in SUBSET Nat BY <1>2
    <3> HIDE DEF Bad
    <3> QED BY <2>1, <3>1, FirstIn
  <2>3. n # 0 BY <1>3, <1>6, <2>2
  <2>4. n \in 1..N /\ n \in 1..(N + 1) /\ g[n - 1] = f[n - 1] BY <1>2, <2>2, <2>3
  <2>5. g[n] = Counted(g, qs, p, n) /\ f[n] = Counted(f, ps, p, n) /\ qs[n] = ps[n]
    BY <1>1, <1>3, <1>6, <2>4
  <2>6. g[n] = f[n] BY <2>4, <2>5 DEF Counted
  <2> QED BY <2>2, <2>6
<1>8. g[N] = f[N]
  <2>1. N \in 0..N BY <1>2
  <2> QED BY <1>7, <2>1
<1>9. g[N + 1] = Counted(g, qs, p, N + 1) /\ (N + 1) - 1 = N BY <1>2, <1>6
<1>10. g[N + 1] = IF x.prot = p THEN Append(f[N], x) ELSE f[N]
  BY <1>1, <1>8, <1>9 DEF Counted
<1> QED BY <1>3, <1>6, <1>10 DEF qs

Deliveries == [reads : [Sessions -> {"no", "small", "large"}],
               mailbox : [Sessions -> Packets], got : [Sessions -> Packets]]

(* What has come for a client, whether it has been read or not.            *)
Come(st, c) == st.got[c] \o st.mailbox[c]

(* A client that waits has read all that has come for it.                  *)
Read(st) == \A c \in Sessions : st.reads[c] # "no" => st.mailbox[c] = <<>>

LEMMA ConcatAppend ==
  ASSUME NEW S, NEW s \in Seq(S), NEW t \in Seq(S), NEW x \in S
  PROVE  s \o Append(t, x) = Append(s \o t, x)
<1>1. <<x>> \in Seq(S) OBVIOUS
<1>2. Append(t, x) = t \o <<x>> BY AppendIsConcat
<1>3. s \o t \in Seq(S) BY ConcatProperties
<1>4. Append(s \o t, x) = (s \o t) \o <<x>> BY <1>3, AppendIsConcat
<1>5. (s \o t) \o <<x>> = s \o (t \o <<x>>) BY <1>1, ConcatAssociative
<1> QED BY <1>2, <1>4, <1>5

LEMMA ListenerFound ==
  ASSUME Registered, NEW p
  PROVE  /\ \/ ListenerOf(p) = NoSession
            \/ /\ ListenerOf(p) \in Sessions
               /\ [prot |-> p, by |-> ListenerOf(p)] \in ToSet(registry)
         /\ \A c \in Sessions :
              [prot |-> p, by |-> c] \in ToSet(registry) => ListenerOf(p) = c
<1> DEFINE at == {i \in DOMAIN registry : registry[i].prot = p}
<1>1. /\ registry \in Seq(Registrations) /\ Len(registry) \in Nat
      /\ DOMAIN registry = 1..Len(registry)
      /\ \A i \in DOMAIN registry : /\ registry[i] \in Registrations
                                    /\ registry[i] \in ToSet(registry)
  BY DEF Registered, ToSet
<1>2. CASE at = {}
  <2>1. ListenerOf(p) = NoSession BY <1>2 DEF ListenerOf
  <2>2. ASSUME NEW c \in Sessions, [prot |-> p, by |-> c] \in ToSet(registry) PROVE FALSE
    <3>1. PICK i \in DOMAIN registry : registry[i] = [prot |-> p, by |-> c]
      BY <2>2 DEF ToSet
    <3> QED BY <1>2, <3>1
  <2> QED BY <2>1, <2>2
<1>3. CASE at # {}
  <2>1. \E i \in at : \A j \in at : i <= j
    <3>1. at \in SUBSET Nat BY <1>1
    <3> HIDE DEF at
    <3> QED BY <1>3, <3>1, FirstIn
  <2>2. PICK i \in at : ListenerOf(p) = registry[i].by BY <1>3, <2>1 DEF ListenerOf
  <2>3. /\ registry[i] \in Registrations /\ registry[i].prot = p
        /\ registry[i] \in ToSet(registry)
    BY <1>1, <2>2
  <2>4. registry[i] = [prot |-> p, by |-> ListenerOf(p)] /\ ListenerOf(p) \in Sessions
    BY <2>2, <2>3 DEF Registrations
  <2>5. ASSUME NEW c \in Sessions, [prot |-> p, by |-> c] \in ToSet(registry)
        PROVE  ListenerOf(p) = c
    <3>1. [prot |-> p, by |-> c] = registry[i] BY <2>3, <2>5 DEF Registered
    <3> QED BY <2>4, <3>1
  <2> QED BY <2>3, <2>4, <2>5
<1> QED BY <1>2, <1>3

(* A message goes to the client that listens, and to nobody else.          *)
LEMMA MessageComes ==
  ASSUME Registered, NEW st \in Deliveries, Read(st), NEW x \in P
  PROVE  /\ MessageAvailable(st, x) \in Deliveries /\ Read(MessageAvailable(st, x))
         /\ \A c \in Sessions :
              IF ListenerOf(x.prot) = c
              THEN Come(MessageAvailable(st, x), c) = Append(Come(st, c), x)
              ELSE /\ Come(MessageAvailable(st, x), c) = Come(st, c)
                   /\ MessageAvailable(st, x).mailbox[c] = st.mailbox[c]
<1> DEFINE c == ListenerOf(x.prot)
           t == MessageAvailable(st, x)
<1>1. c = NoSession \/ c \in Sessions BY ListenerFound
<1>2. /\ st.reads \in [Sessions -> {"no", "small", "large"}]
      /\ st.mailbox \in [Sessions -> Seq(P)] /\ st.got \in [Sessions -> Seq(P)]
  BY DEF Deliveries, Packets, P
<1>3. NoSession \notin Sessions BY Constants
<1> HIDE DEF c, t
<1>4. CASE c = NoSession
  <2>1. t = st BY <1>4 DEF t, c, MessageAvailable
  <2> QED BY <1>3, <1>4, <2>1 DEF t, c
<1>5. CASE c \in Sessions /\ st.reads[c] = "large"
  <2>1. t = [st EXCEPT !.reads[c] = "no", !.got[c] = Append(@, x)]
    BY <1>3, <1>5 DEF t, c, MessageAvailable
  <2>2. Append(st.got[c], x) \in Seq(P) BY <1>2, <1>5
  <2>3. /\ t.reads = [st.reads EXCEPT ![c] = "no"] /\ t.mailbox = st.mailbox
        /\ t.got = [st.got EXCEPT ![c] = Append(st.got[c], x)]
        /\ t = [reads |-> t.reads, mailbox |-> t.mailbox, got |-> t.got]
    BY <2>1 DEF Deliveries
  <2>4. t \in Deliveries
    <3>1. /\ t.reads \in [Sessions -> {"no", "small", "large"}]
          /\ t.mailbox \in [Sessions -> Seq(P)] /\ t.got \in [Sessions -> Seq(P)]
      BY <1>2, <1>5, <2>2, <2>3
    <3> QED BY <2>3, <3>1 DEF Deliveries, Packets, P
  <2>5. /\ t.reads[c] = "no" /\ t.got[c] = Append(st.got[c], x)
        /\ \A d \in Sessions : d # c => t.reads[d] = st.reads[d] /\ t.got[d] = st.got[d]
    BY <1>2, <1>5, <2>3
  <2>6. Read(t) BY <2>3, <2>5 DEF Read
  <2>7. Come(t, c) = Append(Come(st, c), x)
    <3>1. st.mailbox[c] = <<>> BY <1>5 DEF Read
    <3>2. Come(st, c) = st.got[c] BY <1>2, <1>5, <3>1, ConcatEmptySeq DEF Come
    <3>3. Come(t, c) = t.got[c] BY <2>2, <2>3, <2>5, <3>1, ConcatEmptySeq DEF Come
    <3> QED BY <2>5, <3>2, <3>3
  <2>8. \A d \in Sessions : d # c => Come(t, d) = Come(st, d) BY <2>3, <2>5 DEF Come
  <2> QED BY <2>3, <2>4, <2>6, <2>7, <2>8 DEF t, c
<1>6. CASE c \in Sessions /\ st.reads[c] # "large"
  <2>1. t = [st EXCEPT !.reads[c] = "no", !.mailbox[c] = Append(@, x)]
    BY <1>3, <1>6 DEF t, c, MessageAvailable
  <2>2. Append(st.mailbox[c], x) \in Seq(P) BY <1>2, <1>6
  <2>3. /\ t.reads = [st.reads EXCEPT ![c] = "no"] /\ t.got = st.got
        /\ t.mailbox = [st.mailbox EXCEPT ![c] = Append(st.mailbox[c], x)]
        /\ t = [reads |-> t.reads, mailbox |-> t.mailbox, got |-> t.got]
    BY <2>1 DEF Deliveries
  <2>4. t \in Deliveries
    <3>1. /\ t.reads \in [Sessions -> {"no", "small", "large"}]
          /\ t.mailbox \in [Sessions -> Seq(P)] /\ t.got \in [Sessions -> Seq(P)]
      BY <1>2, <1>6, <2>2, <2>3
    <3> QED BY <2>3, <3>1 DEF Deliveries, Packets, P
  <2>5. /\ t.reads[c] = "no" /\ t.mailbox[c] = Append(st.mailbox[c], x)
        /\ \A d \in Sessions : d # c =>
             t.reads[d] = st.reads[d] /\ t.mailbox[d] = st.mailbox[d]
    BY <1>2, <1>6, <2>3
  <2>6. Read(t) BY <2>5 DEF Read
  <2>7. Come(t, c) = Append(Come(st, c), x)
    <3> DEFINE g == st.got[c]
               m == st.mailbox[c]
    <3>1. g \in Seq(P) /\ m \in Seq(P) /\ x \in P BY <1>2, <1>6
    <3> HIDE DEF g, m
    <3>2. g \o Append(m, x) = Append(g \o m, x) BY <3>1, ConcatAppend
    <3> QED BY <2>3, <2>5, <3>2 DEF Come, g, m
  <2>8. \A d \in Sessions : d # c => Come(t, d) = Come(st, d) BY <2>3, <2>5 DEF Come
  <2> QED BY <2>4, <2>5, <2>6, <2>7, <2>8 DEF t, c
<1> QED BY <1>1, <1>4, <1>5, <1>6

(* What has come of a protocol is what the host sent of it, from the packet *)
(* after s to packet i.                                                     *)
Has(ps, p, s, i) == Of(ps, p) = Of(Slice(s, i), p)

Before == [reads |-> reads, mailbox |-> mailbox, got |-> got]

LEMMA ComeIs ==
  ASSUME NEW st \in Deliveries, NEW c \in Sessions
  PROVE  Come(st, c) \in Seq(P)
<1> DEFINE g == st.got[c]
           m == st.mailbox[c]
<1>1. g \in Seq(P) /\ m \in Seq(P) BY DEF Deliveries, Packets, P
<1> HIDE DEF g, m
<1>2. g \o m \in Seq(P) BY <1>1, ConcatProperties
<1> QED BY <1>2 DEF Come, g, m

(* One more packet of the feed.                                            *)
LEMMA OneMore ==
  ASSUME NEW s \in 0..Len(Feed), NEW i \in s..Len(Feed), i < Len(Feed), NEW p,
         NEW ps \in Seq(P), Has(ps, p, s, i)
  PROVE  /\ Packet(Feed[i + 1]) \in P
         /\ Has(Append(ps, Packet(Feed[i + 1])), p, s, i + 1)
         /\ Packet(Feed[i + 1]).prot # p => Has(ps, p, s, i + 1)
<1> DEFINE x == Packet(Feed[i + 1])
           t == Slice(s, i)
<1>1. x \in P
  <2>1. i + 1 \in 1..Len(Feed) BY FeedAssumption
  <2>2. Feed[i + 1].prot \in KnownIds /\ Feed[i + 1].body \in Seq(Nat) BY <2>1, Encoded
  <2> QED BY <2>2 DEF Packet, P
<1>2. t \in Seq(P) /\ Slice(s, i + 1) = Append(t, x) BY SliceGrows
<1>3. Of(ps, p) = Of(t, p) BY DEF Has
<1> DEFINE u == Slice(s, i + 1)
           qs == Append(ps, x)
<1> HIDE DEF x, t
<1>4. Of(Append(t, x), p) = IF x.prot = p THEN Append(Of(t, p), x) ELSE Of(t, p)
  BY <1>1, <1>2, OfAppend
<1>5. Of(Append(ps, x), p) = IF x.prot = p THEN Append(Of(ps, p), x) ELSE Of(ps, p)
  BY <1>1, OfAppend
<1>6. u = Append(t, x) BY <1>2
<1> HIDE DEF u, qs
<1>7. Of(u, p) = IF x.prot = p THEN Append(Of(t, p), x) ELSE Of(t, p) BY <1>4, <1>6
<1>8. Of(qs, p) = IF x.prot = p THEN Append(Of(ps, p), x) ELSE Of(ps, p) BY <1>5 DEF qs
<1>9. Of(qs, p) = Of(u, p) /\ (x.prot # p => Of(ps, p) = Of(u, p)) BY <1>3, <1>7, <1>8
<1>10. Has(Append(ps, x), p, s, i + 1) BY <1>9 DEF Has, qs, u
<1>11. x.prot # p => Has(ps, p, s, i + 1) BY <1>9 DEF Has, u
<1> QED BY <1>1, <1>10, <1>11 DEF x

(* How far n packets have got.                                             *)
Arrived(st, a, n) ==
  /\ st \in Deliveries /\ Read(st)
  /\ \A c \in Sessions, p \in Protocols :
       IF ListenerOf(p) = c
       THEN \A s \in 0..a : Has(Come(Before, c), p, s, a) => Has(Come(st, c), p, s, a + n)
       ELSE Of(Come(st, c), p) = Of(Come(Before, c), p)
  /\ \A c \in Sessions :
       (\A m \in 1..n : ListenerOf(Feed[a + m].prot) # c) => st.mailbox[c] = mailbox[c]

LEMMA OneArrives ==
  ASSUME Registered, NEW a \in 0..Len(Feed), NEW n \in Nat, a + n < Len(Feed),
         NEW st, Arrived(st, a, n)
  PROVE  Arrived(MessageAvailable(st, Packet(Feed[a + n + 1])), a, n + 1)
<1> DEFINE x == Packet(Feed[a + n + 1])
           t == MessageAvailable(st, x)
<1>0. Len(Feed) \in Nat BY FeedAssumption
<1>1. st \in Deliveries /\ Read(st) BY DEF Arrived
<1>2. x \in P /\ x.prot = Feed[a + n + 1].prot
  <2>1. a + n + 1 \in 1..Len(Feed) BY <1>0
  <2>2. Feed[a + n + 1].prot \in KnownIds /\ Feed[a + n + 1].body \in Seq(Nat) BY <2>1, Encoded
  <2> QED BY <2>2 DEF Packet, P
<1>3. /\ t \in Deliveries /\ Read(t)
      /\ \A c \in Sessions :
           IF ListenerOf(x.prot) = c
           THEN Come(t, c) = Append(Come(st, c), x)
           ELSE Come(t, c) = Come(st, c) /\ t.mailbox[c] = st.mailbox[c]
  BY <1>1, <1>2, MessageComes
<1> HIDE DEF t
<1>4. ASSUME NEW c \in Sessions, NEW p \in Protocols, ListenerOf(p) = c, NEW s \in 0..a,
             Has(Come(Before, c), p, s, a)
      PROVE  Has(Come(t, c), p, s, a + (n + 1))
  <2> DEFINE i == a + n
             ps == Come(st, c)
  <2>1. Has(ps, p, s, i) BY <1>4 DEF Arrived
  <2>2. ps \in Seq(P) BY <1>1, ComeIs
  <2>3. s \in 0..Len(Feed) /\ i \in s..Len(Feed) /\ i < Len(Feed) /\ a + (n + 1) = i + 1
    BY <1>0
  <2>4. x = Packet(Feed[i + 1]) OBVIOUS
  <2> HIDE DEF ps, i, x
  <2>5. Has(Append(ps, x), p, s, i + 1) /\ (x.prot # p => Has(ps, p, s, i + 1))
    BY <2>1, <2>2, <2>3, <2>4, OneMore
  <2>6. Come(t, c) = Append(ps, x) \/ (Come(t, c) = ps /\ x.prot # p)
    BY <1>3, <1>4 DEF ps
  <2> QED BY <2>3, <2>5, <2>6
<1>5. ASSUME NEW c \in Sessions, NEW p \in Protocols, ListenerOf(p) # c
      PROVE  Of(Come(t, c), p) = Of(Come(Before, c), p)
  <2> DEFINE ps == Come(st, c)
  <2>1. Of(ps, p) = Of(Come(Before, c), p) BY <1>5 DEF Arrived
  <2>2. ps \in Seq(P) BY <1>1, ComeIs
  <2> HIDE DEF ps, x
  <2>3. CASE ListenerOf(x.prot) = c
    <3>1. x.prot # p BY <1>5, <2>3
    <3>2. Of(Append(ps, x), p) = Of(ps, p) BY <1>2, <2>2, <3>1, OfAppend
    <3> QED BY <1>3, <2>1, <2>3, <3>2 DEF ps
  <2>4. CASE ListenerOf(x.prot) # c BY <1>3, <2>1, <2>4 DEF ps
  <2> QED BY <2>3, <2>4
<1>6. ASSUME NEW c \in Sessions, \A m \in 1..(n + 1) : ListenerOf(Feed[a + m].prot) # c
      PROVE  t.mailbox[c] = mailbox[c]
  <2>1. \A m \in 1..n : ListenerOf(Feed[a + m].prot) # c BY <1>6
  <2>2. st.mailbox[c] = mailbox[c] BY <2>1 DEF Arrived
  <2>3. n + 1 \in 1..(n + 1) /\ a + (n + 1) = a + n + 1 OBVIOUS
  <2>4. ListenerOf(x.prot) # c BY <1>2, <1>6, <2>3
  <2> QED BY <1>3, <2>2, <2>4
<1>7. Arrived(t, a, n + 1) BY <1>3, <1>4, <1>5, <1>6 DEF Arrived
<1> QED BY <1>7 DEF t

(* The packets that DataAvailable takes off reach those who have asked for *)
(* them, in order.                                                         *)
LEMMA DeliveredInOrder ==
  ASSUME Registered, NEW a \in 0..Len(Feed), NEW i \in a..Len(Feed),
         Before \in Deliveries, Read(Before)
  PROVE  Arrived(Delivered(Slice(a, i)), a, i - a)
<1> DEFINE out == Slice(a, i)
           N == i - a
<1>0. Len(Feed) \in Nat BY FeedAssumption
<1>1. out \in Seq(P) /\ Len(out) = N /\ \A n \in 1..N : out[n] = Packet(Feed[a + n])
  <2>1. \A n \in 1..N : Packet(Feed[a + n]) \in P
    <3> TAKE n \in 1..N
    <3>1. a + n \in 1..Len(Feed) BY <1>0
    <3>2. Feed[a + n].prot \in KnownIds /\ Feed[a + n].body \in Seq(Nat) BY <3>1, Encoded
    <3> QED BY <3>2 DEF Packet, P
  <2>2. N \in Nat BY <1>0
  <2>3. out = [n \in 1..N |-> Packet(Feed[a + n])] BY DEF Slice
  <2> HIDE DEF out, N
  <2>4. out \in [1..N -> P] /\ \A n \in 1..N : out[n] = Packet(Feed[a + n]) BY <2>1, <2>3
  <2> QED BY <2>2, <2>4, FunctionIsSeq
<1>2. N \in Nat /\ a + N = i BY <1>0
<1> HIDE DEF out, N
<1>3. PICK after :
        /\ after[0] = Before /\ Delivered(out) = after[Len(out)]
        /\ \A n \in 1..Len(out) : after[n] = MessageAvailable(after[n - 1], out[n])
  <2> DEFINE D(after) ==
               /\ after[0] = [reads |-> reads, mailbox |-> mailbox, got |-> got]
               /\ Delivered(out) = after[Len(out)]
               /\ \A n \in 1..Len(out) : after[n] = MessageAvailable(after[n - 1], out[n])
  <2>1. \E after : D(after) BY <1>1, DeliveredIs
  <2>2. PICK after : D(after) BY <2>1
  <2> QED BY <2>2 DEF Before
<1> DEFINE Bad == {n \in 0..N : ~Arrived(after[n], a, n)}
<1>4. Arrived(after[0], a, 0)
  <2>1. a + 0 = a /\ 1..0 = {} BY <1>0
  <2>2. Before.mailbox = mailbox BY DEF Before
  <2> QED BY <1>3, <2>1, <2>2 DEF Arrived
<1>5. Bad = {}
  <2>1. SUFFICES ASSUME Bad # {} PROVE FALSE OBVIOUS
  <2>2. PICK n \in Bad : \A j \in Bad : n <= j
    <3>1. Bad \in SUBSET Nat BY <1>2
    <3> HIDE DEF Bad
    <3> QED BY <2>1, <3>1, FirstIn
  <2>3. n # 0 BY <1>4, <2>2
  <2>4. n \in 1..N /\ n - 1 \in Nat /\ n - 1 \in 0..N /\ n - 1 < n BY <1>2, <2>2, <2>3
  <2>5. Arrived(after[n - 1], a, n - 1)
    <3>1. n - 1 \notin Bad BY <1>2, <2>2, <2>4
    <3> QED BY <2>4, <3>1
  <2>6. a + (n - 1) < Len(Feed) /\ (n - 1) + 1 = n /\ a + (n - 1) + 1 = a + n
    BY <1>0, <1>2, <2>4
  <2>7. Arrived(MessageAvailable(after[n - 1], Packet(Feed[a + (n - 1) + 1])), a, (n - 1) + 1)
    BY <2>4, <2>5, <2>6, OneArrives
  <2>8. after[n] = MessageAvailable(after[n - 1], Packet(Feed[a + n])) BY <1>1, <1>3, <2>4
  <2>9. Arrived(after[n], a, n) BY <2>6, <2>7, <2>8
  <2> QED BY <2>2, <2>9
<1>6. Arrived(after[N], a, N)
  <2>1. N \in 0..N BY <1>2
  <2> QED BY <1>5, <2>1
<1> QED BY <1>1, <1>3, <1>6 DEF out, N

(* The buffer holds what has been read of the packet in progress.          *)
Fed ==
  /\ pos \in Nat /\ pos <= Len(Bytes) /\ Between(Complete(pos), pos)
  /\ rxbuf = Buffer(Complete(pos), pos)

(* A client that waits has nothing in its queue.                           *)
Boxed ==
  /\ mailbox \in [Sessions -> Packets] /\ got \in [Sessions -> Packets]
  /\ \A c \in Sessions : reads[c] # "no" => mailbox[c] = <<>>

(* A registration has its date, and nothing came before it.                *)
Dated ==
  /\ since \in [Sessions -> [Protocols -> 0..Never]]
  /\ \A e \in ToSet(registry) : since[e.by][e.prot] \in 0..Complete(pos)
  /\ \A c \in Sessions : \A p \in Protocols :
       since[c][p] = Never => Of(got[c] \o mailbox[c], p) = <<>>

CInv == Fed /\ Boxed /\ Dated /\ PacketsInOrder

(* Steps that bring nothing and register nothing.                          *)
LEMMA NothingMoves ==
  ASSUME CInv, Boxed', since' = since, pos' = pos, rxbuf' = rxbuf,
         \A c \in Sessions : got'[c] \o mailbox'[c] = got[c] \o mailbox[c],
         ToSet(registry') \subseteq ToSet(registry),
         \A c \in Sessions : \A p \in Protocols : Contains(ids'[c], p) => Contains(ids[c], p)
  PROVE  CInv'
<1>1. Fed' BY DEF CInv, Fed
<1>2. Dated'
  <2>1. \A c \in Sessions : \A p \in Protocols :
          since[c][p] = Never => Of(got'[c] \o mailbox'[c], p) = <<>>
    BY DEF CInv, Dated
  <2>2. \A e \in ToSet(registry') : since[e.by][e.prot] \in 0..Complete(pos)
    BY DEF CInv, Dated
  <2> QED BY <2>1, <2>2 DEF CInv, Dated
<1>3. PacketsInOrder'
  <2> SUFFICES ASSUME NEW c \in Sessions, NEW p \in Protocols, Contains(ids'[c], p)
               PROVE  Of(got'[c] \o mailbox'[c], p) =
                        Of([i \in 1..(Complete(pos) - since[c][p]) |->
                              Packet(Feed[since[c][p] + i])], p)
    BY DEF PacketsInOrder
  <2>1. Contains(ids[c], p) OBVIOUS
  <2> QED BY <2>1 DEF CInv, PacketsInOrder
<1> QED BY <1>1, <1>2, <1>3 DEF CInv

LEMMA NothingComes ==
  ASSUME CInv, got' = got, mailbox' = mailbox, since' = since, pos' = pos, rxbuf' = rxbuf,
         \A c \in Sessions : reads'[c] = "no" \/ reads'[c] = reads[c],
         ToSet(registry') \subseteq ToSet(registry),
         \A c \in Sessions : \A p \in Protocols : Contains(ids'[c], p) => Contains(ids[c], p)
  PROVE  CInv'
<1>1. Boxed' BY DEF CInv, Boxed
<1> QED BY <1>1, NothingMoves

LEMMA EndSessionOrder ==
  ASSUME Registered, Served, CInv, NEW c \in Sessions, EndSession(c)
  PROVE  CInv'
<1> DEFINE rest == WithoutAll(registry, ids[c])
<1>1. /\ ids' = [ids EXCEPT ![c] = <<>>] /\ reads' = [reads EXCEPT ![c] = "no"]
      /\ registry' = rest
      /\ got' = got /\ mailbox' = mailbox /\ since' = since /\ pos' = pos /\ rxbuf' = rxbuf
  BY DEF EndSession, UnRegister
<1>2. ids[c] \in Seq(Protocols) /\ registry \in Seq(Registrations) BY DEF Registered
<1>3. ToSet(registry') \subseteq ToSet(registry) BY <1>1, <1>2, WithoutAllKeeps
<1>4. \A d \in Sessions : reads'[d] = "no" \/ reads'[d] = reads[d] BY <1>1 DEF Served
<1>5. ASSUME NEW d \in Sessions, NEW p \in Protocols, Contains(ids'[d], p)
      PROVE  Contains(ids[d], p)
  <2>1. ids'[d] = IF d = c THEN <<>> ELSE ids[d] BY <1>1 DEF Registered
  <2>2. ~Contains(<<>>, p) BY DEF Contains
  <2> QED BY <1>5, <2>1, <2>2
<1> HIDE DEF rest
<1> QED BY <1>1, <1>3, <1>4, <1>5, NothingComes

LEMMA UnRegisterOrder ==
  ASSUME Registered, CInv, NEW c \in Sessions, NEW p \in Protocols, UnRegisterProtocol(c, p)
  PROVE  CInv'
<1> DEFINE rest == Without(registry, p)
           left == RemoveFirst(ids[c], p)
<1>1. /\ ids' = [ids EXCEPT ![c] = left] /\ registry' = rest /\ reads' = reads
      /\ got' = got /\ mailbox' = mailbox /\ since' = since /\ pos' = pos /\ rxbuf' = rxbuf
  BY DEF UnRegisterProtocol, UnRegister, ghostVars
<1>2. ids[c] \in Seq(Protocols) /\ registry \in Seq(Registrations) BY DEF Registered
<1>3. ToSet(registry') \subseteq ToSet(registry) BY <1>1, <1>2, WithoutKeeps
<1>4. left \in Seq(Protocols)
      /\ \A k \in DOMAIN left : \E i \in DOMAIN ids[c] : ids[c][i] = left[k]
  <2>1. \A i, j \in DOMAIN ids[c] : ids[c][i] = ids[c][j] => i = j BY DEF Registered
  <2> QED BY <1>2, <2>1, FirstRemoved
<1> HIDE DEF rest, left
<1>5. ASSUME NEW d \in Sessions, NEW q \in Protocols, Contains(ids'[d], q)
      PROVE  Contains(ids[d], q)
  <2>1. ids'[d] = IF d = c THEN left ELSE ids[d] BY <1>1 DEF Registered
  <2>2. CASE d = c
    <3>1. PICK k \in 1..Len(left) : left[k] = q BY <1>5, <2>1, <2>2 DEF Contains
    <3>2. k \in DOMAIN left BY <1>4, <3>1
    <3>3. PICK i \in DOMAIN ids[c] : ids[c][i] = q BY <1>4, <3>1, <3>2
    <3>4. i \in 1..Len(ids[c]) BY <1>2, <3>3
    <3> QED BY <2>2, <3>3, <3>4 DEF Contains
  <2> QED BY <1>5, <2>1, <2>2
<1> QED BY <1>1, <1>3, <1>5, NothingComes

LEMMA HeadMoves ==
  ASSUME NEW S, NEW s \in Seq(S), NEW t \in Seq(S), t # <<>>
  PROVE  Append(s, Head(t)) \o Tail(t) = s \o t
<1>1. Head(t) \in S /\ Tail(t) \in Seq(S) /\ t = <<Head(t)>> \o Tail(t)
  <2>1. /\ Head(t) \in S /\ Tail(t) \in Seq(S) /\ Len(Tail(t)) = Len(t) - 1
        /\ \A i \in 1..Len(Tail(t)) : Tail(t)[i] = t[i + 1]
    BY HeadTailProperties
  <2>2. Head(t) = t[1] /\ Len(t) \in Nat OBVIOUS
  <2> DEFINE x == Head(t)
             u == Tail(t)
             h == <<x>>
  <2>3. h \in Seq(S) /\ Len(h) = 1 /\ h[1] = x /\ u \in Seq(S) BY <2>1
  <2> HIDE DEF x, u, h
  <2>4. /\ h \o u \in Seq(S) /\ Len(h \o u) = Len(h) + Len(u)
        /\ \A i \in 1..Len(h) + Len(u) : (h \o u)[i] = IF i <= Len(h) THEN h[i] ELSE u[i - Len(h)]
    BY <2>3, ConcatProperties
  <2>5. Len(h \o u) = Len(t) BY <2>1, <2>2, <2>3, <2>4 DEF u
  <2>6. \A i \in 1..Len(t) : t[i] = (h \o u)[i]
    <3> TAKE i \in 1..Len(t)
    <3>1. i \in 1..Len(h) + Len(u) BY <2>4, <2>5
    <3>2. CASE i = 1 BY <2>2, <2>3, <2>4, <3>1, <3>2 DEF x
    <3>3. CASE i # 1
      <4>1. i - 1 \in 1..Len(u) /\ (i - 1) + 1 = i /\ ~(i <= 1)
        BY <2>1, <2>2, <3>3 DEF u
      <4>2. u[i - 1] = t[i] BY <2>1, <4>1 DEF u
      <4> QED BY <2>3, <2>4, <3>1, <4>1, <4>2
    <3> QED BY <3>2, <3>3
  <2>7. t = h \o u BY <2>4, <2>5, <2>6, SeqEqual
  <2> QED BY <2>1, <2>7 DEF h, x, u
<1> DEFINE x == Head(t)
           u == Tail(t)
<1> HIDE DEF x, u
<1>2. x \in S /\ u \in Seq(S) /\ t = <<x>> \o u BY <1>1 DEF x, u
<1>3. <<x>> \in Seq(S) BY <1>2
<1>4. Append(s, x) = s \o <<x>> BY <1>2, AppendIsConcat
<1>5. (s \o <<x>>) \o u = s \o (<<x>> \o u) BY <1>2, <1>3, ConcatAssociative
<1> QED BY <1>2, <1>4, <1>5 DEF x, u

LEMMA ReadMsgOrder ==
  ASSUME Served, CInv, NEW c \in Sessions, ReadMsg(c)
  PROVE  CInv'
<1>1. /\ since' = since /\ pos' = pos /\ rxbuf' = rxbuf /\ registry' = registry /\ ids' = ids
  BY DEF ReadMsg, routerVars
<1>2. mailbox \in [Sessions -> Seq(P)] /\ got \in [Sessions -> Seq(P)]
  BY DEF CInv, Boxed, Packets, P
<1>3. CASE mailbox[c] # <<>>
  <2> DEFINE g == got[c]
             m == mailbox[c]
  <2>1. /\ got' = [got EXCEPT ![c] = Append(g, Head(m))]
        /\ mailbox' = [mailbox EXCEPT ![c] = Tail(m)] /\ reads' = reads
    BY <1>3 DEF ReadMsg
  <2>2. g \in Seq(P) /\ m \in Seq(P) /\ m # <<>> BY <1>2, <1>3
  <2>3. got'[c] = Append(g, Head(m)) /\ mailbox'[c] = Tail(m)
        /\ \A d \in Sessions : d # c => got'[d] = got[d] /\ mailbox'[d] = mailbox[d]
    BY <1>2, <2>1
  <2> HIDE DEF g, m
  <2>4. Append(g, Head(m)) \in Seq(P) /\ Tail(m) \in Seq(P)
    BY <2>2, HeadTailProperties, AppendProperties
  <2>5. Append(g, Head(m)) \o Tail(m) = g \o m BY <2>2, HeadMoves
  <2>6. \A d \in Sessions : got'[d] \o mailbox'[d] = got[d] \o mailbox[d]
    BY <2>3, <2>5 DEF g, m
  <2>7. Boxed'
    <3>1. got' \in [Sessions -> Packets] /\ mailbox' \in [Sessions -> Packets]
      <4> DEFINE y == Append(g, Head(m))
                 z == Tail(m)
      <4>1. y \in Seq(P) /\ z \in Seq(P) BY <2>4
      <4>2. got' = [got EXCEPT ![c] = y] /\ mailbox' = [mailbox EXCEPT ![c] = z] BY <2>1
      <4> HIDE DEF y, z
      <4>3. got' \in [Sessions -> Seq(P)] /\ mailbox' \in [Sessions -> Seq(P)]
        BY <1>2, <4>1, <4>2
      <4> QED BY <4>3 DEF Packets, P
    <3>2. \A d \in Sessions : reads[d] # "no" => mailbox[d] = <<>> BY DEF CInv, Boxed
    <3>3. \A d \in Sessions : reads'[d] # "no" => mailbox'[d] = <<>>
      BY <1>3, <2>1, <2>3, <3>2
    <3> QED BY <3>1, <3>3 DEF Boxed
  <2> QED BY <1>1, <2>6, <2>7, NothingMoves
<1>4. CASE mailbox[c] = <<>>
  <2>1. PICK size : reads' = [reads EXCEPT ![c] = size] /\ got' = got /\ mailbox' = mailbox
    BY <1>4 DEF ReadMsg
  <2>2. \A d \in Sessions : d # c => reads'[d] = reads[d] BY <2>1 DEF Served
  <2>3. Boxed' BY <1>4, <2>1, <2>2 DEF CInv, Boxed
  <2> QED BY <1>1, <2>1, <2>3, NothingMoves
<1> QED BY <1>3, <1>4

(* A protocol is registered: what comes from now on counts.                *)
LEMMA RegisterOrder ==
  ASSUME Registered, CInv, NEW c \in Sessions, NEW p \in Protocols, Register(c, p)
  PROVE  CInv'
<1> DEFINE n == Complete(pos)
           e == [prot |-> p, by |-> c]
<1>1. /\ since[c][p] = Never /\ registry' = Append(registry, e)
      /\ ids' = [ids EXCEPT ![c] = Append(@, p)]
      /\ since' = [since EXCEPT ![c][p] = n]
      /\ got' = got /\ mailbox' = mailbox /\ pos' = pos /\ rxbuf' = rxbuf /\ reads' = reads
  BY DEF Register
<1>2. n \in 0..Len(Feed) /\ Len(Feed) \in Nat BY FeedAssumption DEF CInv, Fed, Between
<1>3. Complete(pos)' = n BY <1>1
<1>4. registry \in Seq(Registrations) /\ e \in Registrations BY DEF Registered, Registrations
<1>10. e.prot = p /\ e.by = c OBVIOUS
<1> HIDE DEF n, e
<1>5. \A f \in ToSet(registry') : f \in ToSet(registry) \/ f = e
  BY <1>1, <1>4 DEF ToSet
<1>6. /\ since \in [Sessions -> [Protocols -> 0..Never]]
      /\ since' \in [Sessions -> [Protocols -> 0..Never]]
      /\ since'[c][p] = n
      /\ \A d \in Sessions : \A q \in Protocols :
           d # c \/ q # p => since'[d][q] = since[d][q]
  BY <1>1, <1>2 DEF CInv, Dated, Never
<1>7. Fed' /\ Boxed' BY <1>1 DEF CInv, Fed, Boxed
<1>8. Dated'
  <2>1. ASSUME NEW f \in ToSet(registry') PROVE since'[f.by][f.prot] \in 0..n
    <3>1. CASE f = e BY <1>2, <1>6, <1>10, <3>1
    <3>2. CASE f \in ToSet(registry) /\ f # e
      <4>1. f \in Registrations BY <1>4, <3>2 DEF ToSet
      <4>2. f.by \in Sessions /\ f.prot \in Protocols BY <4>1 DEF Registrations
      <4>3. f.by # c \/ f.prot # p
        <5>1. f = [prot |-> f.prot, by |-> f.by] BY <4>1 DEF Registrations
        <5> QED BY <3>2, <5>1 DEF e
      <4>4. since[f.by][f.prot] \in 0..n BY <3>2 DEF CInv, Dated, n
      <4> QED BY <1>6, <4>2, <4>3, <4>4
    <3> QED BY <1>5, <3>1, <3>2
  <2>2. ASSUME NEW d \in Sessions, NEW q \in Protocols, since'[d][q] = Never
        PROVE  Of(got'[d] \o mailbox'[d], q) = <<>>
    <3>1. n # Never BY <1>2 DEF Never
    <3>2. since[d][q] = Never BY <1>6, <2>2, <3>1
    <3> QED BY <1>1, <3>2 DEF CInv, Dated
  <2> QED BY <1>3, <1>6, <2>1, <2>2 DEF Dated
<1>9. PacketsInOrder'
  <2> SUFFICES ASSUME NEW d \in Sessions, NEW q \in Protocols, Contains(ids'[d], q)
               PROVE  Has(got[d] \o mailbox[d], q, since'[d][q], n)
    BY <1>1, <1>3 DEF PacketsInOrder, Has, Slice
  <2>1. CASE d = c /\ q = p
    <3>1. Of(got[c] \o mailbox[c], p) = <<>> BY <1>1 DEF CInv, Dated
    <3>2. Slice(n, n) = <<>>
      <4>1. n - n = 0 BY <1>2
      <4> QED BY <4>1 DEF Slice
    <3> QED BY <1>6, <2>1, <3>1, <3>2, OfNothing DEF Has
  <2>2. CASE ~(d = c /\ q = p)
    <3>1. Contains(ids[d], q)
      <4>1. CASE d # c BY <1>1, <4>1 DEF Registered
      <4>2. CASE d = c
        <5>1. ids[c] \in Seq(Protocols) /\ ids'[c] = Append(ids[c], p) BY <1>1 DEF Registered
        <5>2. PICK k \in 1..Len(ids'[c]) : ids'[c][k] = q BY <4>2 DEF Contains
        <5>3. k \in 1..Len(ids[c]) /\ ids[c][k] = q BY <2>2, <4>2, <5>1, <5>2
        <5> QED BY <4>2, <5>3 DEF Contains
      <4> QED BY <4>1, <4>2
    <3>2. Has(got[d] \o mailbox[d], q, since[d][q], n)
      BY <3>1 DEF CInv, PacketsInOrder, Has, Slice, n
    <3> QED BY <1>6, <2>2, <3>2
  <2> QED BY <2>1, <2>2
<1> QED BY <1>7, <1>8, <1>9 DEF CInv

(* Where a packet ends nothing of the next one is in the buffer.           *)
LEMMA AtEdge ==
  ASSUME NEW i \in 0..Len(Feed)
  PROVE  /\ At(i) \in Nat /\ At(i) <= Len(Bytes) /\ Between(i, At(i))
         /\ Complete(At(i)) = i /\ Buffer(i, At(i)) = <<>>
<1>0. Len(Feed) \in Nat /\ Bytes \in Seq(Nat) /\ At(i) \in Nat /\ At(i) <= Len(Bytes) BY Facts
<1>1. Between(i, At(i))
  <2>1. ASSUME i < Len(Feed) PROVE At(i) < At(i + 1)
    <3>1. i + 1 \in 0..Len(Feed) /\ i \in 0..(i + 1) /\ i < i + 1 BY <1>0, <2>1
    <3> QED BY <3>1, UptoGrows
  <2> QED BY <1>0, <2>1 DEF Between
<1>2. Complete(At(i)) = i BY <1>0, <1>1, CompleteIs
<1>3. Buffer(i, At(i)) = <<>>
  <2> DEFINE n == At(i)
             s == Bytes
             b == SubSeq(s, n + 1, n)
  <2>1. s \in Seq(Nat) /\ n \in Nat /\ n <= Len(s) BY <1>0
  <2> HIDE DEF n, s
  <2>2. b \in Seq(Nat) /\ Len(b) = n - n /\ n - n = 0 BY <2>1, PartOf
  <2> HIDE DEF b
  <2>3. b = <<>> BY <2>2, EmptySeq
  <2> QED BY <2>3 DEF Buffer, b, n, s
<1> QED BY <1>0, <1>1, <1>2, <1>3

LEMMA ShutdownOrder ==
  ASSUME Connected, Registered, CInv, Shutdown
  PROVE  CInv'
<1> DEFINE a == Complete(pos)
<1>1. /\ server.timer /\ registry' = <<>> /\ rxbuf' = <<>> /\ ids' = ids /\ reads' = reads
      /\ mailbox' = mailbox /\ got' = got /\ since' = since
      /\ pos' = IF pos = At(a) THEN pos ELSE At(a + 1)
  BY DEF Shutdown, clientVars, ghostVars, At
<1>2. /\ Len(Feed) \in Nat /\ a \in 0..Len(Feed) /\ pos \in Nat /\ pos <= Len(Bytes)
      /\ At(a) \in Nat /\ At(a) <= pos /\ At(Len(Feed)) = Len(Bytes) /\ Len(Bytes) \in Nat
  BY Facts DEF CInv, Fed, Between
<1> HIDE DEF a
<1>3. PICK i \in 0..Len(Feed) : pos' = At(i)
  <2>1. CASE pos = At(a) BY <1>1, <1>2, <2>1
  <2>2. CASE pos # At(a)
    <3>1. a # Len(Feed) BY <1>2, <2>2
    <3>2. a + 1 \in 0..Len(Feed) BY <1>2, <3>1
    <3> QED BY <1>1, <2>2, <3>2
  <2> QED BY <2>1, <2>2
<1>4. Fed'
  <2>1. /\ At(i) \in Nat /\ At(i) <= Len(Bytes) /\ Between(i, At(i))
        /\ Complete(At(i)) = i /\ Buffer(i, At(i)) = <<>>
    BY AtEdge
  <2> QED BY <1>1, <1>3, <2>1 DEF Fed
<1>5. Boxed' BY <1>1 DEF CInv, Boxed
<1>6. Dated'
  <2>1. ToSet(<<>>) = {} BY DEF ToSet
  <2> QED BY <1>1, <2>1 DEF CInv, Dated
<1>7. PacketsInOrder'
  <2> SUFFICES ASSUME NEW c \in Sessions, NEW p \in Protocols, Contains(ids[c], p) PROVE FALSE
    BY <1>1 DEF PacketsInOrder
  <2>1. ids[c] \in Seq(Protocols) BY DEF Registered
  <2>2. PICK k \in DOMAIN ids[c] : ids[c][k] = p BY <2>1 DEF Contains
  <2>3. Alive(c) BY <2>2 DEF Registered
  <2> QED BY <1>1, <2>3 DEF Connected
<1> QED BY <1>4, <1>5, <1>6, <1>7 DEF CInv

LEMMA DataOrder ==
  ASSUME ClearFeed, Registered, Served, CInv, DataAvailable
  PROVE  CInv'
<1> DEFINE a == Complete(pos)
<1>1. /\ Len(Feed) \in Nat /\ Len(Bytes) \in Nat /\ a \in 0..Len(Feed) /\ Between(a, pos)
      /\ pos \in Nat /\ rxbuf = Buffer(a, pos)
  BY Facts DEF CInv, Fed, Between
<1>2. PICK k \in 1..MaxChunk :
        /\ pos + k <= Len(Bytes) /\ pos' = pos + k
        /\ LET r == Received(SubSeq(Bytes, pos + 1, pos + k))
           IN  /\ rxbuf' = r.buf
               /\ mailbox' = Delivered(r.out).mailbox /\ got' = Delivered(r.out).got
               /\ reads' = [c \in Sessions |->
                    IF \E n \in DOMAIN r.out : ListenerOf(r.out[n].prot) = c
                    THEN "no" ELSE reads[c]]
  BY DEF DataAvailable
<1>3. registry' = registry /\ ids' = ids /\ since' = since BY DEF DataAvailable
<1> DEFINE r == Received(SubSeq(Bytes, pos + 1, pos + k))
<1>4. k \in Nat OBVIOUS
<1> HIDE DEF a
<1>5. PICK i \in a..Len(Feed) :
        Between(i, pos + k) /\ r.buf = Buffer(i, pos + k) /\ r.out = Slice(a, i)
  BY <1>1, <1>2, <1>4, ReceivedInOrder
<1> DEFINE st == Delivered(Slice(a, i))
           heard(c) == \E n \in 1..(i - a) : ListenerOf(Feed[a + n].prot) = c
<1>6. /\ rxbuf' = Buffer(i, pos + k) /\ mailbox' = st.mailbox /\ got' = st.got
      /\ \A c \in Sessions : reads'[c] = IF heard(c) THEN "no" ELSE reads[c]
  <2>1. /\ rxbuf' = r.buf
        /\ mailbox' = Delivered(r.out).mailbox /\ got' = Delivered(r.out).got
        /\ \A c \in Sessions :
             reads'[c] = IF \E n \in DOMAIN r.out : ListenerOf(r.out[n].prot) = c
                         THEN "no" ELSE reads[c]
    BY <1>2
  <2> HIDE DEF r
  <2>2. DOMAIN r.out = 1..(i - a) /\ \A n \in 1..(i - a) : r.out[n].prot = Feed[a + n].prot
    BY <1>5 DEF Slice, Packet
  <2> QED BY <1>5, <2>1, <2>2
<1>7. /\ i \in 0..Len(Feed) /\ i >= a /\ a + (i - a) = i /\ pos + k \in Nat
  BY <1>1, <1>4
<1>8. Complete(pos') = i BY <1>2, <1>5, <1>7, CompleteIs
<1>9. Before \in Deliveries /\ Read(Before)
  BY DEF Before, Deliveries, Read, CInv, Boxed, Served
<1>10. Arrived(st, a, i - a) BY <1>1, <1>9, DeliveredInOrder
<1> HIDE DEF st, r, heard
<1>11. \A c \in Sessions :
         Come(st, c) = got'[c] \o mailbox'[c] /\ Come(Before, c) = got[c] \o mailbox[c]
  BY <1>6 DEF Come, Before
<1>12. Fed' BY <1>2, <1>5, <1>6, <1>7, <1>8 DEF Fed
<1>13. Boxed'
  <2>1. st \in Deliveries BY <1>10 DEF Arrived
  <2>2. mailbox' \in [Sessions -> Packets] /\ got' \in [Sessions -> Packets]
    BY <1>6, <2>1 DEF Deliveries
  <2>3. ASSUME NEW c \in Sessions, reads'[c] # "no" PROVE mailbox'[c] = <<>>
    <3>1. ~heard(c) /\ reads[c] # "no" BY <1>6, <2>3
    <3>2. st.mailbox[c] = mailbox[c]
      <4>1. \A m \in 1..(i - a) : ListenerOf(Feed[a + m].prot) # c BY <3>1 DEF heard
      <4> QED BY <1>10, <4>1 DEF Arrived
    <3> QED BY <1>6, <3>1, <3>2 DEF CInv, Boxed
  <2> QED BY <2>2, <2>3 DEF Boxed
<1>14. Dated'
  <2>1. \A e \in ToSet(registry) : since[e.by][e.prot] \in 0..a BY DEF CInv, Dated, a
  <2>2. \A e \in ToSet(registry') : since'[e.by][e.prot] \in 0..i BY <1>1, <1>3, <1>7, <2>1
  <2>3. ASSUME NEW c \in Sessions, NEW p \in Protocols, since[c][p] = Never
        PROVE  Of(got'[c] \o mailbox'[c], p) = <<>>
    <3>1. ListenerOf(p) # c
      <4>1. SUFFICES ASSUME ListenerOf(p) = c PROVE FALSE OBVIOUS
      <4>2. c # NoSession BY Constants
      <4>3. [prot |-> p, by |-> c] \in ToSet(registry) BY <4>1, <4>2, ListenerFound
      <4>4. since[c][p] \in 0..a BY <2>1, <4>3
      <4> QED BY <1>1, <2>3, <4>4 DEF Never
    <3>2. Of(Come(st, c), p) = Of(Come(Before, c), p) BY <1>10, <3>1 DEF Arrived
    <3>3. Of(got[c] \o mailbox[c], p) = <<>> BY <2>3 DEF CInv, Dated
    <3> QED BY <1>11, <3>2, <3>3
  <2>4. since' \in [Sessions -> [Protocols -> 0..Never]] BY <1>3 DEF CInv, Dated
  <2> QED BY <1>3, <1>8, <2>2, <2>3, <2>4 DEF Dated
<1>15. PacketsInOrder'
  <2> SUFFICES ASSUME NEW c \in Sessions, NEW p \in Protocols, Contains(ids[c], p)
               PROVE  Has(got'[c] \o mailbox'[c], p, since[c][p], i)
    BY <1>3, <1>8 DEF PacketsInOrder, Has, Slice
  <2>1. Has(Come(Before, c), p, since[c][p], a)
    <3>1. Has(got[c] \o mailbox[c], p, since[c][p], a)
      BY DEF CInv, PacketsInOrder, Has, Slice, a
    <3> QED BY <1>11, <3>1
  <2>2. [prot |-> p, by |-> c] \in ToSet(registry)
    <3>1. ids[c] \in Seq(Protocols) BY DEF Registered
    <3>2. PICK n \in DOMAIN ids[c] : ids[c][n] = p BY <3>1 DEF Contains
    <3> QED BY <3>2 DEF Registered
  <2>3. ListenerOf(p) = c BY <2>2, ListenerFound
  <2>4. since[c][p] \in 0..a BY <2>2 DEF CInv, Dated, a
  <2>5. Has(Come(st, c), p, since[c][p], a + (i - a))
    BY <1>10, <2>1, <2>3, <2>4 DEF Arrived
  <2> QED BY <1>7, <1>11, <2>5
<1> QED BY <1>12, <1>13, <1>14, <1>15 DEF CInv

LEMMA OrderStarts == Init => CInv
<1> SUFFICES ASSUME Init PROVE CInv OBVIOUS
<1>1. /\ ids = [c \in Sessions |-> <<>>] /\ reads = [c \in Sessions |-> "no"]
      /\ mailbox = [c \in Sessions |-> <<>>] /\ got = [c \in Sessions |-> <<>>]
      /\ registry = <<>> /\ rxbuf = <<>> /\ pos = 0
      /\ since = [c \in Sessions |-> [p \in Protocols |-> Never]]
  BY DEF Init
<1>2. Len(Feed) \in Nat /\ 0 \in 0..Len(Feed) /\ At(0) = 0 BY Facts
<1>3. Fed
  <2>1. /\ At(0) \in Nat /\ At(0) <= Len(Bytes) /\ Between(0, At(0))
        /\ Complete(At(0)) = 0 /\ Buffer(0, At(0)) = <<>>
    BY <1>2, AtEdge
  <2> QED BY <1>1, <1>2, <2>1 DEF Fed
<1>4. <<>> \in Packets BY DEF Packets
<1>5. Boxed BY <1>1, <1>4 DEF Boxed
<1>6. Dated
  <2>1. Never \in 0..Never BY <1>2 DEF Never
  <2>2. ToSet(<<>>) = {} BY DEF ToSet
  <2>3. <<>> \o <<>> = <<>> OBVIOUS
  <2>4. \A c \in Sessions : \A p \in Protocols : Of(got[c] \o mailbox[c], p) = <<>>
    BY <1>1, <2>3, OfNothing
  <2> QED BY <1>1, <2>1, <2>2, <2>4 DEF Dated
<1>7. PacketsInOrder BY <1>1 DEF PacketsInOrder, Contains
<1> QED BY <1>3, <1>5, <1>6, <1>7 DEF CInv

LEMMA OrderKept == ClearFeed /\ HInv /\ CInv /\ [Next]_vars => CInv'
<1> SUFFICES ASSUME ClearFeed, HInv, CInv, [Next]_vars PROVE CInv' OBVIOUS
<1>0. Limit => Connected /\ Registered /\ Served BY DEF HInv
<1> DEFINE Still == /\ got' = got /\ mailbox' = mailbox /\ since' = since /\ pos' = pos
                    /\ rxbuf' = rxbuf /\ registry' = registry /\ ids' = ids
<1>1. ASSUME Still, \A d \in Sessions : reads'[d] = "no" \/ reads'[d] = reads[d]
      PROVE  CInv'
  BY <1>1, NothingComes
<1>2. ASSUME Still, reads' = reads PROVE CInv' BY <1>1, <1>2
<1> HIDE DEF CInv
<1> USE DEF clientVars, routerVars, portVars, ghostVars
<1>3. ASSUME NEW c \in Sessions, Connect(c) \/ OpenPort(c) \/ ClosePort(c) PROVE CInv'
  BY <1>2, <1>3 DEF Connect, OpenPort, ClosePort
<1>4. ASSUME NEW c \in Sessions, WriteMsg(c) \/ WriteCancel(c) PROVE CInv'
  BY <1>2, <1>4 DEF WriteMsg, WriteCancel
<1>5. ASSUME NEW c \in Sessions, Limit, EndSession(c) PROVE CInv'
  BY <1>0, <1>5, EndSessionOrder
<1>6. ASSUME NEW c \in Sessions, NEW p \in Protocols, Limit, Register(c, p) PROVE CInv'
  BY <1>0, <1>6, RegisterOrder
<1>7. ASSUME NEW c \in Sessions, NEW p \in Protocols, Limit, UnRegisterProtocol(c, p) PROVE CInv'
  BY <1>0, <1>7, UnRegisterOrder
<1>8. ASSUME NEW c \in Sessions, Limit, ReadMsg(c) PROVE CInv' BY <1>0, <1>8, ReadMsgOrder
<1>9. ASSUME NEW c \in Sessions, Limit, ReadCancel(c) PROVE CInv'
  <2>1. reads \in [Sessions -> {"no", "small", "large"}] BY <1>0, <1>9 DEF Served
  <2>2. reads' = [reads EXCEPT ![c] = "no"] BY <1>9 DEF ReadCancel
  <2>3. \A d \in Sessions : reads'[d] = "no" \/ reads'[d] = reads[d] BY <2>1, <2>2
  <2>4. Still BY <1>9 DEF ReadCancel
  <2> HIDE DEF Still
  <2> QED BY <1>1, <2>3, <2>4
<1>10. CASE Limit /\ Shutdown BY <1>0, <1>10, ShutdownOrder
<1>11. CASE Limit /\ DataAvailable BY <1>0, <1>11, DataOrder
<1>12. CASE Fetch \/ WriteComplete BY <1>2, <1>12 DEF Fetch, WriteComplete
<1>13. CASE UNCHANGED vars
  <2>1. Still /\ reads' = reads BY <1>13 DEF vars
  <2> HIDE DEF Still
  <2> QED BY <1>2, <2>1
<1> QED
  BY <1>3, <1>4, <1>5, <1>6, <1>7, <1>8, <1>9, <1>10, <1>11, <1>12, <1>13 DEF Next

(* DataAvailable, RegisterProtocol, ReadMsg, ReadCancel and what else      *)
(* clients do: when what the host sends is packets that fit the buffer,    *)
(* each with a body and with nothing between them, a session gets every    *)
(* packet of its protocol, once and in order, wherever the reads cut.      *)
THEOREM InOrder == ASSUME ClearFeed PROVE Spec => []PacketsInOrder
<1>1. Init => HInv /\ CInv BY HeardStarts, OrderStarts
<1>2. HInv /\ CInv /\ [Next]_vars => (HInv /\ CInv)' BY HeardKept, OrderKept
<1>3. HInv /\ CInv => PacketsInOrder BY DEF CInv
<1> QED BY <1>1, <1>2, <1>3, PTL DEF Spec

===============================================================================
