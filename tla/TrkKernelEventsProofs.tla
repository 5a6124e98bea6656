------------------------- MODULE TrkKernelEventsProofs -------------------------
(* Proofs about TrkKernelEvents, for any threads, slots and events, as     *)
(* long as no thread panics: HandleEventKillThread does not take iLock,    *)
(* and then two handlers may write to the agent's buffer.                  *)
EXTENDS TrkKernelEvents, SequenceTheorems, WellFoundedInduction, TLAPS

NoPanics == "panic" \notin Kinds

(* The two queues as one, in the order in which DoRequest looks at them.   *)
Cells == [i \in 1..(2 * Slots) |-> IF i <= Slots THEN queue[i] ELSE traces[i - Slots]]

Locked == {"notify", "write", "clear", "complete", "pick", "fill", "leave"}
Carrying == {"lock", "notify", "write", "pick", "fill"}

Sound ==
  /\ frozen = <<>> /\ agent # "panicked"
  /\ \A t \in Threads :
       /\ pc[t] \in {"run", "lock"} \cup Locked
       /\ pc[t] \in Locked => lock = t
       /\ pc[t] # "run" => event[t] \in Events /\ event[t].of = t /\ event[t].n <= raised
  /\ \A i \in 1..(2 * Slots) : Cells[i].n <= raised
  /\ buf.n <= raised /\ \A i \in DOMAIN told : told[i].n <= raised

(* A handler that has found the agent waiting is the only one that writes  *)
(* to its buffer, and the agent's request is completed once.               *)
Handed ==
  /\ \A t \in Threads :
       /\ pc[t] = "write" => infoPtr /\ buf = NoEvent
       /\ pc[t] = "clear" => infoPtr /\ buf = event[t]
       /\ pc[t] = "complete" => ~infoPtr /\ buf = event[t]
  /\ infoPtr /\ buf # NoEvent => \E t \in Threads : pc[t] = "clear"
  /\ agent \in {"scan", "store"} => ~infoPtr /\ ~statusPtr /\ buf = NoEvent
  /\ agent = "storeStatus" => ~statusPtr
  /\ agent = "wait" /\ (infoPtr \/ \E t \in Threads : pc[t] = "complete") => statusPtr
  /\ signals # 0 =>
       /\ agent = "wait" /\ ~infoPtr /\ ~statusPtr /\ buf # NoEvent
       /\ \A t \in Threads : pc[t] # "complete"

Filling ==
  \A t \in Threads :
    pc[t] = "fill" => slot[t] \in 1..Slots /\ QueueFor(event[t])[slot[t]] = NoEvent

(* A thread with a stop that is on its way is suspended, and not owed an   *)
(* answer for another one.                                                 *)
Awaited(e) == e.kind = "stop" => e.of \in suspended /\ e.of \notin owed

Stopped ==
  /\ owed \subseteq suspended
  /\ \A t \in Threads : pc[t] = "lock" => t \notin suspended
  /\ \A t \in Threads : pc[t] \in Carrying \ {"lock"} => Awaited(event[t])
  /\ \A i \in 1..(2 * Slots) : Awaited(Cells[i])
  /\ Awaited(buf)

(* Events at different places are different, and of one thread there is    *)
(* one stop at most that is on its way.                                    *)
SameStop(e, f) == e.of = f.of /\ e.kind = "stop" /\ f.kind = "stop"
Apart(e, f) == e = NoEvent \/ f = NoEvent \/ (e # f /\ ~SameStop(e, f))
After(e) ==
  \A i \in DOMAIN told : told[i] # e /\ (SameStop(told[i], e) => told[i].n < e.n)

Placed ==
  /\ \A i, j \in 1..(2 * Slots) : i # j => Apart(Cells[i], Cells[j])
  /\ \A i \in 1..(2 * Slots) : Apart(buf, Cells[i]) /\ After(Cells[i])
  /\ After(buf)
  /\ \A t \in Threads : pc[t] \in Carrying =>
       /\ \A i \in 1..(2 * Slots) : Apart(event[t], Cells[i])
       /\ Apart(event[t], buf) /\ After(event[t])

(* What the agent gets without another event, from the buffer or a slot;   *)
(* with what is in the handlers' hands this is Coming.                     *)
Stored ==
  (IF signals > 0 THEN {buf} ELSE {})
    \cup {queue[i] : i \in {j \in 1..Slots : ToScan(j)}}
    \cup {traces[i] : i \in {j \in 1..Slots : ToScan(Slots + j)}}
Heard == InHand \cup Stored \cup dropped \cup missed

(* What came behind the agent's back lies where it finds it when something *)
(* else wakes it.                                                          *)
Late == Listening => missed \subseteq Queued \cup {buf}
Known == Late /\ StopAccounted

IInv ==
  /\ TypeOK /\ Sound
  /\ ~Listening => ~statusPtr /\ signals = 0
  /\ Listening => Handed /\ Filling /\ Stopped /\ Placed
  /\ ToldInOrder /\ Known

LEMMA Constants ==
  /\ Slots \in Nat /\ Slots > 0 /\ MaxEvents \in Nat /\ NoThread \notin Threads
  /\ Kinds \subseteq {"stop", "unload", "trace", "panic"}
BY SlotsAssumption, KindsAssumption, NoThreadAssumption

LEMMA EventShape ==
  /\ NoEvent \notin Events /\ NoEvent.n = 0 /\ NoEvent.kind = "unknown"
  /\ \A e \in Events : e.of \in Threads /\ e.n \in 1..MaxEvents /\ e.kind \in Kinds
BY Constants DEF NoEvent, Events

LEMMA CellShape ==
  ASSUME TypeOK
  PROVE  /\ Cells \in [1..(2 * Slots) -> MaybeEvents]
         /\ \A i \in 1..Slots : Cells[i] = queue[i] /\ Cells[Slots + i] = traces[i]
         /\ scanAt \in 1..(2 * Slots) /\ Scanned = Cells[scanAt]
<1>1. queue \in [1..Slots -> MaybeEvents] /\ traces \in [1..Slots -> MaybeEvents]
      /\ scanAt \in 1..(2 * Slots)
  BY DEF TypeOK
<1>2. \A i \in 1..(2 * Slots) : i <= Slots => i \in 1..Slots OBVIOUS
<1>3. \A i \in 1..(2 * Slots) : ~(i <= Slots) => i - Slots \in 1..Slots BY Constants
<1>4. \A i \in 1..(2 * Slots) : Cells[i] \in MaybeEvents BY <1>1, <1>2, <1>3 DEF Cells
<1>5. Cells \in [1..(2 * Slots) -> MaybeEvents] BY <1>4 DEF Cells
<1>6. \A i \in 1..Slots : Cells[i] = queue[i] /\ Cells[Slots + i] = traces[i]
  BY Constants DEF Cells
<1>7. Scanned = Cells[scanAt] BY <1>1 DEF Scanned, Cells
<1> QED BY <1>1, <1>5, <1>6, <1>7

(* A queue is changed at one place, and nowhere else is the other changed. *)
LEMMA CellQueued ==
  ASSUME TypeOK, NEW i \in 1..Slots, NEW e,
         queue' = [queue EXCEPT ![i] = e], traces' = traces
  PROVE  Cells' = [Cells EXCEPT ![i] = e]
<1>1. queue' \in [1..Slots -> {e} \cup MaybeEvents] /\ queue'[i] = e
      /\ \A j \in 1..Slots : j # i => queue'[j] = queue[j]
  BY DEF TypeOK
<1>2. \A j \in 1..(2 * Slots) : j <= Slots => j \in 1..Slots OBVIOUS
<1>3. \A j \in 1..(2 * Slots) : Cells'[j] = IF j = i THEN e ELSE Cells[j]
  BY <1>1, <1>2, Constants DEF Cells
<1>4. i \in 1..(2 * Slots) BY Constants
<1>5. Cells' = [j \in 1..(2 * Slots) |-> Cells'[j]] /\ Cells = [j \in 1..(2 * Slots) |-> Cells[j]]
  BY DEF Cells
<1> HIDE DEF Cells
<1> DEFINE new == [Cells EXCEPT ![i] = e]
<1>6. new = [j \in 1..(2 * Slots) |-> IF j = i THEN e ELSE Cells[j]] BY <1>4, <1>5
<1> HIDE DEF new
<1>7. Cells' = new BY <1>3, <1>5, <1>6
<1> QED BY <1>7 DEF new

LEMMA CellTraced ==
  ASSUME TypeOK, NEW i \in 1..Slots, NEW e,
         traces' = [traces EXCEPT ![i] = e], queue' = queue
  PROVE  Cells' = [Cells EXCEPT ![Slots + i] = e]
<1>1. traces' \in [1..Slots -> {e} \cup MaybeEvents] /\ traces'[i] = e
      /\ \A j \in 1..Slots : j # i => traces'[j] = traces[j]
  BY DEF TypeOK
<1>2. \A j \in 1..(2 * Slots) : ~(j <= Slots) => j - Slots \in 1..Slots BY Constants
<1>3. \A j \in 1..(2 * Slots) : Cells'[j] = IF j = Slots + i THEN e ELSE Cells[j]
  BY <1>1, <1>2, Constants DEF Cells
<1>4. Slots + i \in 1..(2 * Slots) BY Constants
<1>5. Cells' = [j \in 1..(2 * Slots) |-> Cells'[j]] /\ Cells = [j \in 1..(2 * Slots) |-> Cells[j]]
  BY DEF Cells
<1> HIDE DEF Cells
<1> DEFINE new == [Cells EXCEPT ![Slots + i] = e]
<1>6. new = [j \in 1..(2 * Slots) |-> IF j = Slots + i THEN e ELSE Cells[j]] BY <1>4, <1>5
<1> HIDE DEF new
<1>7. Cells' = new BY <1>3, <1>5, <1>6
<1> QED BY <1>7 DEF new

LEMMA QueuedCells == Queued = {Cells[i] : i \in 1..(2 * Slots)}
<1>1. ASSUME NEW e \in Queued PROVE e \in {Cells[i] : i \in 1..(2 * Slots)}
  <2>1. PICK i \in 1..Slots : e = queue[i] \/ e = traces[i] BY DEF Queued
  <2>2. i \in 1..(2 * Slots) /\ Slots + i \in 1..(2 * Slots) BY Constants
  <2>3. Cells[i] = queue[i] /\ Cells[Slots + i] = traces[i] BY Constants DEF Cells
  <2> QED BY <2>1, <2>2, <2>3
<1>2. ASSUME NEW i \in 1..(2 * Slots) PROVE Cells[i] \in Queued
  <2>1. CASE i <= Slots
    <3>1. i \in 1..Slots BY <2>1
    <3> QED BY <2>1, <3>1 DEF Cells, Queued
  <2>2. CASE ~(i <= Slots)
    <3>1. i - Slots \in 1..Slots BY <2>2, Constants
    <3> QED BY <2>2, <3>1 DEF Cells, Queued
  <2> QED BY <2>1, <2>2
<1> QED BY <1>1, <1>2

LEMMA Numbers ==
  ASSUME TypeOK
  PROVE  /\ raised \in Nat /\ buf.n \in Nat /\ \A i \in 1..(2 * Slots) : Cells[i].n \in Nat
         /\ \A i \in DOMAIN told : told[i] \in Events /\ told[i].n \in Nat
         /\ \A e \in Events : e.n \in Nat
<1>1. \A e \in MaybeEvents : e.n \in Nat BY EventShape, Constants DEF MaybeEvents
<1>2. \A i \in 1..(2 * Slots) : Cells[i] \in MaybeEvents BY CellShape
<1>3. \A i \in DOMAIN told : told[i] \in Events BY DEF TypeOK
<1> QED BY <1>1, <1>2, <1>3, Constants DEF TypeOK, MaybeEvents

LEMMA FreshEvent ==
  ASSUME TypeOK, Sound, NEW e, e.n = raised + 1
  PROVE  /\ \A i \in 1..(2 * Slots) : e # Cells[i]
         /\ e # buf /\ \A i \in DOMAIN told : e # told[i]
BY DEF Sound, TypeOK

(* Where an event is that the agent gets, or is excused for not getting.   *)
LEMMA StoredAt ==
  \A e : e \in Stored <=> \/ signals > 0 /\ e = buf
                          \/ \E i \in 1..(2 * Slots) : e = Cells[i] /\ ToScan(i)
<1>1. ASSUME NEW e \in Stored
      PROVE  (signals > 0 /\ e = buf) \/ \E i \in 1..(2 * Slots) : e = Cells[i] /\ ToScan(i)
  <2>1. CASE signals > 0 /\ e = buf BY <2>1
  <2>2. CASE \E i \in 1..Slots : e = queue[i] /\ ToScan(i)
    <3>1. PICK i \in 1..Slots : e = queue[i] /\ ToScan(i) BY <2>2
    <3>2. i \in 1..(2 * Slots) /\ e = Cells[i] BY <3>1, Constants DEF Cells
    <3> QED BY <3>1, <3>2
  <2>3. CASE \E i \in 1..Slots : e = traces[i] /\ ToScan(Slots + i)
    <3>1. PICK i \in 1..Slots : e = traces[i] /\ ToScan(Slots + i) BY <2>3
    <3>2. Slots + i \in 1..(2 * Slots) /\ e = Cells[Slots + i] BY <3>1, Constants DEF Cells
    <3> QED BY <3>1, <3>2
  <2> QED BY <1>1, <2>1, <2>2, <2>3 DEF Stored
<1>2. ASSUME NEW i \in 1..(2 * Slots), ToScan(i) PROVE Cells[i] \in Stored
  <2>1. CASE i <= Slots
    <3>1. i \in 1..Slots /\ Cells[i] = queue[i] BY <2>1 DEF Cells
    <3> QED BY <1>2, <3>1 DEF Stored
  <2>2. CASE ~(i <= Slots)
    <3> DEFINE j == i - Slots
    <3>1. j \in 1..Slots /\ Slots + j = i /\ Cells[i] = traces[j]
      BY <2>2, Constants DEF Cells
    <3> HIDE DEF j
    <3>2. ToScan(Slots + j) BY <1>2, <3>1
    <3> QED BY <3>1, <3>2 DEF Stored
  <2> QED BY <2>1, <2>2
<1>3. signals > 0 => buf \in Stored BY DEF Stored
<1> QED BY <1>1, <1>2, <1>3

LEMMA StoredNext ==
  \A e : e \in Stored' <=> \/ signals' > 0 /\ e = buf'
                           \/ \E i \in 1..(2 * Slots) : e = Cells'[i] /\ ToScan(i)'
<1>1. (\A e : e \in Stored <=> \/ signals > 0 /\ e = buf
                               \/ \E i \in 1..(2 * Slots) : e = Cells[i] /\ ToScan(i))'
  BY StoredAt, PTL
<1> QED BY <1>1

LEMMA HeardOf ==
  StopAccounted <=>
    (Listening => \A t \in suspended :
       t \in owed \/ \E e \in Heard : e.of = t /\ e.kind = "stop")
<1>1. Heard = Coming \cup dropped \cup missed BY DEF Heard, Coming, Stored
<1> QED BY <1>1 DEF StopAccounted

LEMMA HeardNext ==
  StopAccounted' <=>
    (Listening' => \A t \in suspended' :
       t \in owed' \/ \E e \in Heard' : e.of = t /\ e.kind = "stop")
<1>1. (StopAccounted <=>
         (Listening => \A t \in suspended :
            t \in owed \/ \E e \in Heard : e.of = t /\ e.kind = "stop"))'
  BY HeardOf, PTL
<1> QED BY <1>1

LEMMA SameStored ==
  ASSUME UNCHANGED <<queue, traces, agent, scanAt, signals, buf>>
  PROVE  Stored' = Stored /\ Queued' = Queued /\ Listening' = Listening
BY DEF Stored, ToScan, Queued, Listening

(* A stop stays accounted for when a step loses no event, or the host was  *)
(* told of the one it takes away.                                          *)
LEMMA StillKnown ==
  ASSUME Known, Listening' => Listening, suspended' \subseteq suspended, owed \subseteq owed',
         Listening => \A e \in Heard : e.kind = "stop" => e \in Heard' \/ e.of \in owed',
         Listening => missed' \subseteq Queued' \cup {buf'}
  PROVE  Known'
<1>1. ASSUME Listening', NEW u \in suspended'
      PROVE  u \in owed' \/ \E e \in Heard' : e.of = u /\ e.kind = "stop"
  <2>1. u \in owed \/ \E e \in Heard : e.of = u /\ e.kind = "stop"
    BY <1>1, HeardOf DEF Known
  <2> QED BY <1>1, <2>1
<1>2. StopAccounted' BY <1>1, HeardNext
<1> QED BY <1>2 DEF Known, Late

LEMMA KnownByHandler ==
  ASSUME Known, UNCHANGED <<queue, traces, agent, scanAt, signals, buf, owed, missed, suspended>>,
         dropped \subseteq dropped', InHand \subseteq InHand' \cup dropped'
  PROVE  Known'
<1>1. Stored' = Stored /\ Queued' = Queued /\ Listening' = Listening BY SameStored
<1>2. Heard \subseteq Heard' BY <1>1 DEF Heard
<1> QED BY <1>1, <1>2, StillKnown DEF Known, Late

LEMMA RaiseStep ==
  ASSUME NoPanics, IInv, NEW t \in Threads, Raise(t)
  PROVE  IInv'
<1> USE Constants, EventShape
<1>0. TypeOK /\ Sound BY DEF IInv
<1>1. PICK k \in Kinds :
        /\ t \notin suspended /\ raised < MaxEvents
        /\ pc[t] = "run" /\ pc' = [pc EXCEPT ![t] = "lock"]
        /\ event' = [event EXCEPT ![t] = [of |-> t, n |-> raised + 1, kind |-> k]]
        /\ frozen' = frozen
  BY DEF Raise, At, NoPanics
<1>2. /\ raised' = raised + 1 /\ slot' = slot /\ lock' = lock /\ suspended' = suspended
      /\ infoPtr' = infoPtr /\ statusPtr' = statusPtr /\ queue' = queue /\ traces' = traces
      /\ agent' = agent /\ scanAt' = scanAt /\ buf' = buf /\ owed' = owed /\ told' = told
      /\ signals' = signals /\ dropped' = dropped /\ missed' = missed
  BY DEF Raise, channelVars, agentVars, lossVars
<1> DEFINE e == [of |-> t, n |-> raised + 1, kind |-> k]
<1>3. e \in Events /\ e.of = t /\ e.n = raised + 1 BY <1>0, <1>1 DEF Events, TypeOK
<1>4. /\ pc'[t] = "lock" /\ event'[t] = e
      /\ \A u \in Threads : u # t => pc'[u] = pc[u] /\ event'[u] = event[u]
  BY <1>0, <1>1 DEF TypeOK
<1>5. Cells' = Cells BY <1>2 DEF Cells
<1> HIDE DEF e
<1>6. TypeOK'
  <2>1. pc' \in [Threads -> Steps] /\ event' \in [Threads -> MaybeEvents]
    BY <1>0, <1>1, <1>3 DEF TypeOK, Steps, MaybeEvents, e
  <2> QED BY <1>0, <1>1, <1>2, <2>1 DEF TypeOK
<1>7. Sound'
  <2>1. /\ frozen' = <<>> /\ agent' # "panicked" BY <1>0, <1>1, <1>2 DEF Sound
  <2>2. /\ \A i \in 1..(2 * Slots) : Cells'[i].n <= raised'
        /\ buf'.n <= raised' /\ \A i \in DOMAIN told' : told'[i].n <= raised'
    BY <1>0, <1>2, <1>5, Numbers DEF Sound
  <2>3. ASSUME NEW u \in Threads
        PROVE  /\ pc'[u] \in {"run", "lock"} \cup Locked
               /\ pc'[u] \in Locked => lock' = u
               /\ pc'[u] # "run" => event'[u] \in Events /\ event'[u].of = u
                                   /\ event'[u].n <= raised'
    <3>1. CASE u = t BY <1>0, <1>2, <1>3, <1>4, <3>1, Numbers DEF Locked
    <3>2. CASE u # t BY <1>0, <1>2, <1>4, <3>2, Numbers DEF Sound, Locked
    <3> QED BY <3>1, <3>2
  <2> QED BY <2>1, <2>2, <2>3 DEF Sound
<1>8. ~Listening' => ~statusPtr' /\ signals' = 0 BY <1>2 DEF IInv, Listening
<1>9. ASSUME Listening' PROVE Handed' /\ Filling' /\ Stopped' /\ Placed'
  <2>0. Handed /\ Filling /\ Stopped /\ Placed BY <1>2, <1>9 DEF IInv, Listening
  <2>1. Handed'
    <3>1. \A u \in Threads : pc'[u] = "clear" <=> pc[u] = "clear" BY <1>1, <1>4
    <3> QED BY <1>1, <1>2, <1>4, <2>0, <3>1 DEF Handed
  <2>2. Filling' BY <1>2, <1>4, <2>0 DEF Filling, QueueFor
  <2>3. Stopped' BY <1>1, <1>2, <1>4, <1>5, <2>0 DEF Stopped, Awaited, Carrying
  <2>4. Placed'
    <3>1. /\ \A i \in 1..(2 * Slots) : Apart(e, Cells[i])
          /\ Apart(e, buf) /\ After(e)
      <4>1. /\ \A i \in 1..(2 * Slots) : e # Cells[i] /\ ~SameStop(e, Cells[i])
            /\ e # buf /\ ~SameStop(e, buf)
        BY <1>0, <1>1, <1>3, <2>0, FreshEvent DEF Stopped, Awaited, SameStop
      <4>2. After(e) BY <1>0, <1>3, FreshEvent DEF After, Sound, TypeOK
      <4> QED BY <4>1, <4>2 DEF Apart
    <3> QED BY <1>2, <1>4, <1>5, <2>0, <3>1 DEF Placed, After, Carrying
  <2> QED BY <2>1, <2>2, <2>3, <2>4
<1>10. ToldInOrder' BY <1>2 DEF IInv, ToldInOrder
<1>11. Known'
  <2>1. InHand \subseteq InHand' BY <1>1, <1>4 DEF InHand
  <2> QED BY <1>2, <2>1, KnownByHandler DEF IInv
<1> QED BY <1>6, <1>7, <1>8, <1>9, <1>10, <1>11 DEF IInv

(* What a step of a handler leaves as it is.                               *)
LEMMA SoundOfHandler ==
  ASSUME TypeOK, Sound, NEW t \in Threads, NEW s \in {"run", "lock"} \cup Locked,
         pc[t] # "run", pc' = [pc EXCEPT ![t] = s],
         \A u \in Threads \ {t} : event'[u] = event[u], s # "run" => event'[t] = event[t],
         \A u \in Threads \ {t} : pc[u] \in Locked => lock' = u, s \in Locked => lock' = t,
         frozen' = frozen, agent' = agent, raised' = raised, told' = told,
         buf' = buf \/ buf' = event[t],
         \A i \in 1..(2 * Slots) : Cells'[i] = Cells[i] \/ Cells'[i] = event[t]
  PROVE  Sound'
<1>1. event[t] \in Events /\ event[t].of = t /\ event[t].n <= raised BY DEF Sound
<1>2. /\ pc'[t] = s /\ \A u \in Threads \ {t} : pc'[u] = pc[u] BY DEF TypeOK
<1>3. /\ \A i \in 1..(2 * Slots) : Cells'[i].n <= raised'
      /\ buf'.n <= raised' /\ \A i \in DOMAIN told' : told'[i].n <= raised'
  BY <1>1 DEF Sound
<1>4. ASSUME NEW u \in Threads
      PROVE  /\ pc'[u] \in {"run", "lock"} \cup Locked
             /\ pc'[u] \in Locked => lock' = u
             /\ pc'[u] # "run" => event'[u] \in Events /\ event'[u].of = u /\ event'[u].n <= raised'
  <2>1. CASE u = t BY <1>1, <1>2, <2>1
  <2>2. CASE u # t BY <1>2, <2>2 DEF Sound
  <2> QED BY <2>1, <2>2
<1> QED BY <1>3, <1>4 DEF Sound

LEMMA Alone ==
  ASSUME Sound, NEW t \in Threads, pc[t] \in Locked
  PROVE  lock = t /\ \A u \in Threads \ {t} : pc[u] \notin Locked
BY DEF Sound

LEMMA AcquireStep ==
  ASSUME NoPanics, IInv, NEW t \in Threads, Acquire(t)
  PROVE  IInv'
<1> USE Constants, EventShape
<1>0. TypeOK /\ Sound BY DEF IInv
<1>1. /\ lock = NoThread /\ lock' = t /\ pc[t] = "lock" /\ pc' = [pc EXCEPT ![t] = "notify"]
      /\ suspended' = IF event[t].kind = "stop" THEN suspended \cup {t} ELSE suspended
  BY DEF Acquire, At
<1>2. /\ raised' = raised /\ slot' = slot /\ event' = event /\ frozen' = frozen
      /\ infoPtr' = infoPtr /\ statusPtr' = statusPtr /\ queue' = queue /\ traces' = traces
      /\ agent' = agent /\ scanAt' = scanAt /\ buf' = buf /\ owed' = owed /\ told' = told
      /\ signals' = signals /\ dropped' = dropped /\ missed' = missed
  BY DEF Acquire, channelVars, agentVars, lossVars
<1>3. pc'[t] = "notify" /\ \A u \in Threads : u # t => pc'[u] = pc[u] BY <1>0, <1>1 DEF TypeOK
<1>4. event[t] \in Events /\ event[t].of = t BY <1>0, <1>1 DEF Sound
<1>5. Cells' = Cells BY <1>2 DEF Cells
<1>6. TypeOK'
  <2>1. pc' \in [Threads -> Steps] /\ suspended' \subseteq Threads /\ lock' \in Threads
    BY <1>0, <1>1 DEF TypeOK, Steps
  <2> QED BY <1>0, <1>2, <2>1 DEF TypeOK
<1>7. Sound'
  <2>1. \A u \in Threads : pc[u] \notin Locked BY <1>0, <1>1 DEF Sound
  <2> QED BY <1>0, <1>1, <1>2, <1>5, <2>1, SoundOfHandler DEF Locked
<1>8. ~Listening' => ~statusPtr' /\ signals' = 0 BY <1>2 DEF IInv, Listening
<1>9. ASSUME Listening' PROVE Handed' /\ Filling' /\ Stopped' /\ Placed'
  <2>0. Handed /\ Filling /\ Stopped /\ Placed BY <1>2, <1>9 DEF IInv, Listening
  <2>1. Handed'
    <3>1. \A u \in Threads : pc'[u] = "clear" <=> pc[u] = "clear" BY <1>1, <1>3
    <3> QED BY <1>1, <1>2, <1>3, <2>0, <3>1 DEF Handed
  <2>2. Filling' BY <1>2, <1>3, <2>0 DEF Filling, QueueFor
  <2>3. Stopped'
    <3>1. t \notin owed BY <1>1, <2>0 DEF Stopped
    <3>2. \A u \in Threads : pc[u] \in Carrying \ {"lock"} => u # t BY <1>1
    <3>3. \A u \in Threads : pc'[u] \in Carrying \ {"lock"} => Awaited(event[u])'
      BY <1>1, <1>2, <1>3, <1>4, <2>0, <3>1 DEF Stopped, Awaited, Carrying
    <3> QED BY <1>1, <1>2, <1>3, <1>5, <2>0, <3>3 DEF Stopped, Awaited
  <2>4. Placed' BY <1>1, <1>2, <1>3, <1>5, <2>0 DEF Placed, After, Carrying
  <2> QED BY <2>1, <2>2, <2>3, <2>4
<1>10. ToldInOrder' BY <1>2 DEF IInv, ToldInOrder
<1>11. Known'
  <2>1. InHand \subseteq InHand' /\ event[t] \in InHand' BY <1>1, <1>2, <1>3 DEF InHand
  <2>2. Stored' = Stored /\ Queued' = Queued /\ Listening' = Listening
    BY <1>2, SameStored
  <2>3. Heard \subseteq Heard' /\ event[t] \in Heard' BY <1>2, <2>1, <2>2 DEF Heard
  <2>4. Late' BY <1>2, <2>2 DEF IInv, Known, Late
  <2>5. ASSUME Listening', NEW u \in suspended'
        PROVE  u \in owed' \/ \E e \in Heard' : e.of = u /\ e.kind = "stop"
    <3>1. u \in suspended \/ (u = t /\ event[t].kind = "stop") BY <1>1, <2>5
    <3>2. CASE u \in suspended
      BY <1>2, <2>2, <2>3, <2>5, <3>2, HeardOf DEF IInv, Known
    <3>3. CASE u = t /\ event[t].kind = "stop" BY <1>4, <2>3, <3>3
    <3> QED BY <3>1, <3>2, <3>3
  <2>6. StopAccounted' BY <2>5, HeardNext
  <2> QED BY <2>4, <2>6 DEF Known
<1> QED BY <1>6, <1>7, <1>8, <1>9, <1>10, <1>11 DEF IInv

LEMMA NotifyStep ==
  ASSUME NoPanics, IInv, NEW t \in Threads, Notify(t)
  PROVE  IInv'
<1> USE Constants, EventShape
<1>0. TypeOK /\ Sound BY DEF IInv
<1> DEFINE next == IF infoPtr THEN "write" ELSE "pick"
<1>1. /\ pc[t] = "notify" /\ pc' = [pc EXCEPT ![t] = next] /\ next \in {"write", "pick"}
  BY DEF Notify, At
<1>2. /\ raised' = raised /\ slot' = slot /\ event' = event /\ frozen' = frozen /\ lock' = lock
      /\ infoPtr' = infoPtr /\ statusPtr' = statusPtr /\ queue' = queue /\ traces' = traces
      /\ agent' = agent /\ scanAt' = scanAt /\ buf' = buf /\ owed' = owed /\ told' = told
      /\ signals' = signals /\ dropped' = dropped /\ missed' = missed /\ suspended' = suspended
  BY DEF Notify, channelVars, agentVars, lossVars
<1>3. pc'[t] = next /\ \A u \in Threads : u # t => pc'[u] = pc[u]
  <2> HIDE DEF next
  <2> QED BY <1>0, <1>1 DEF TypeOK
<1>4. next = "write" => infoPtr OBVIOUS
<1> HIDE DEF next
<1>5. Cells' = Cells BY <1>2 DEF Cells
<1>6. TypeOK'
  <2>1. pc' \in [Threads -> Steps] BY <1>0, <1>1 DEF TypeOK, Steps
  <2> QED BY <1>0, <1>2, <2>1 DEF TypeOK
<1>7. lock = t /\ \A u \in Threads \ {t} : pc[u] \notin Locked
  BY <1>0, <1>1, Alone DEF Locked
<1>8. Sound'
  <2>1. next \in Locked BY <1>1 DEF Locked
  <2> QED BY <1>0, <1>1, <1>2, <1>5, <1>7, <2>1, SoundOfHandler
<1>9. ~Listening' => ~statusPtr' /\ signals' = 0 BY <1>2 DEF IInv, Listening
<1>10. ASSUME Listening' PROVE Handed' /\ Filling' /\ Stopped' /\ Placed'
  <2>0. Handed /\ Filling /\ Stopped /\ Placed BY <1>2, <1>10 DEF IInv, Listening
  <2>1. Handed'
    <3>1. \A u \in Threads : pc'[u] # "clear" /\ pc[u] # "clear"
      BY <1>1, <1>3, <1>7 DEF Locked
    <3>2. infoPtr => buf = NoEvent BY <2>0, <3>1 DEF Handed
    <3> QED BY <1>1, <1>2, <1>3, <1>4, <2>0, <3>1, <3>2 DEF Handed
  <2>2. Filling' BY <1>1, <1>2, <1>3, <2>0 DEF Filling, QueueFor
  <2>3. Stopped' BY <1>1, <1>2, <1>3, <1>5, <2>0 DEF Stopped, Awaited, Carrying
  <2>4. Placed' BY <1>1, <1>2, <1>3, <1>5, <2>0 DEF Placed, After, Carrying
  <2> QED BY <2>1, <2>2, <2>3, <2>4
<1>11. ToldInOrder' BY <1>2 DEF IInv, ToldInOrder
<1>12. Known'
  <2>1. InHand \subseteq InHand' BY <1>1, <1>2, <1>3 DEF InHand
  <2> QED BY <1>2, <2>1, KnownByHandler DEF IInv
<1> QED BY <1>6, <1>8, <1>9, <1>10, <1>11, <1>12 DEF IInv

LEMMA WriteStep ==
  ASSUME NoPanics, IInv, NEW t \in Threads, Write(t)
  PROVE  IInv'
<1> USE Constants, EventShape
<1>0. TypeOK /\ Sound BY DEF IInv
<1>1. /\ pc[t] = "write" /\ pc' = [pc EXCEPT ![t] = "clear"]
      /\ buf' = IF infoPtr THEN event[t] ELSE buf
  BY DEF Write, At
<1>2. /\ raised' = raised /\ slot' = slot /\ event' = event /\ frozen' = frozen /\ lock' = lock
      /\ infoPtr' = infoPtr /\ statusPtr' = statusPtr /\ queue' = queue /\ traces' = traces
      /\ agent' = agent
      /\ scanAt' = scanAt /\ owed' = owed /\ told' = told /\ signals' = signals
      /\ dropped' = dropped /\ missed' = missed
      /\ suspended' = suspended
  BY DEF Write, channelVars, agentVars, lossVars
<1>3. pc'[t] = "clear" /\ \A u \in Threads : u # t => pc'[u] = pc[u] BY <1>0, <1>1 DEF TypeOK
<1>4. event[t] \in Events /\ event[t].of = t BY <1>0, <1>1 DEF Sound
<1>5. Cells' = Cells BY <1>2 DEF Cells
<1>6. TypeOK'
  <2>1. pc' \in [Threads -> Steps] /\ buf' \in MaybeEvents
    BY <1>0, <1>1, <1>4 DEF TypeOK, Steps, MaybeEvents
  <2> QED BY <1>0, <1>2, <2>1 DEF TypeOK
<1>7. lock = t /\ \A u \in Threads \ {t} : pc[u] \notin Locked
  BY <1>0, <1>1, Alone DEF Locked
<1>8. Sound' BY <1>0, <1>1, <1>2, <1>5, <1>7, SoundOfHandler DEF Locked
<1>9. ~Listening' => ~statusPtr' /\ signals' = 0 BY <1>2 DEF IInv, Listening
<1>10. ASSUME Listening
       PROVE  Handed /\ Filling /\ Stopped /\ Placed /\ infoPtr /\ buf = NoEvent /\ buf' = event[t]
  BY <1>1, <1>10 DEF IInv, Handed
<1>11. ASSUME Listening' PROVE Handed' /\ Filling' /\ Stopped' /\ Placed'
  <2>0. Handed /\ Filling /\ Stopped /\ Placed /\ infoPtr /\ buf = NoEvent /\ buf' = event[t]
    BY <1>2, <1>10, <1>11 DEF Listening
  <2>1. Handed'
    <3>1. \A u \in Threads \ {t} : pc'[u] \notin {"write", "clear", "complete"}
      BY <1>3, <1>7 DEF Locked
    <3>2. agent \notin {"scan", "store"} /\ signals = 0 BY <2>0 DEF Handed
    <3> QED BY <1>2, <1>3, <2>0, <3>1, <3>2 DEF Handed
  <2>2. Filling' BY <1>2, <1>3, <2>0 DEF Filling, QueueFor
  <2>3. Stopped'
    <3>1. Awaited(event[t]) BY <1>1, <2>0 DEF Stopped, Carrying
    <3> QED BY <1>2, <1>3, <1>5, <2>0, <3>1 DEF Stopped, Awaited, Carrying
  <2>4. Placed'
    <3>1. /\ \A i \in 1..(2 * Slots) : Apart(event[t], Cells[i])
          /\ After(event[t])
      BY <1>1, <2>0 DEF Placed, Carrying
    <3>2. \A u \in Threads : pc'[u] \in Carrying => u # t /\ pc[u] \in Carrying
                             /\ event[u].of = u
      BY <1>0, <1>3 DEF Sound, Carrying
    <3>3. \A u \in Threads : pc'[u] \in Carrying => Apart(event[u], event[t])
      BY <1>4, <3>2 DEF Apart, SameStop
    <3> QED BY <1>2, <1>5, <2>0, <3>1, <3>2, <3>3 DEF Placed, After
  <2> QED BY <2>1, <2>2, <2>3, <2>4
<1>12. ToldInOrder' BY <1>2 DEF IInv, ToldInOrder
<1>13. Known'
  <2>1. InHand \subseteq InHand' BY <1>1, <1>2, <1>3 DEF InHand
  <2>2. Queued' = Queued /\ Listening' = Listening BY <1>2 DEF Queued, Listening
  <2>3. ASSUME Listening PROVE Heard \subseteq Heard' /\ missed' \subseteq Queued' \cup {buf'}
    <3>1. signals = 0 /\ buf = NoEvent BY <1>10, <2>3 DEF Handed
    <3>2. Stored \subseteq Stored' BY <1>2, <3>1 DEF Stored, ToScan
    <3>3. missed \subseteq Queued \cup {buf} BY <2>3 DEF IInv, Known, Late
    <3>4. NoEvent \notin missed BY <1>0 DEF TypeOK
    <3> QED BY <1>2, <2>1, <2>2, <3>1, <3>2, <3>3, <3>4 DEF Heard
  <2> QED BY <1>2, <2>2, <2>3, StillKnown DEF IInv
<1> QED BY <1>6, <1>8, <1>9, <1>11, <1>12, <1>13 DEF IInv

LEMMA ClearStep ==
  ASSUME NoPanics, IInv, NEW t \in Threads, Clear(t)
  PROVE  IInv'
<1> USE Constants, EventShape
<1>0. TypeOK /\ Sound BY DEF IInv
<1>1. /\ pc[t] = "clear" /\ pc' = [pc EXCEPT ![t] = "complete"] /\ infoPtr' = FALSE
  BY DEF Clear, At
<1>2. /\ raised' = raised /\ slot' = slot /\ event' = event /\ frozen' = frozen /\ lock' = lock
      /\ statusPtr' = statusPtr /\ queue' = queue /\ traces' = traces /\ agent' = agent
      /\ scanAt' = scanAt
      /\ buf' = buf /\ owed' = owed /\ told' = told /\ signals' = signals /\ dropped' = dropped /\ missed' = missed
      /\ suspended' = suspended
  BY DEF Clear, channelVars, agentVars, lossVars
<1>3. pc'[t] = "complete" /\ \A u \in Threads : u # t => pc'[u] = pc[u] BY <1>0, <1>1 DEF TypeOK
<1>4. event[t] \in Events /\ event[t].of = t BY <1>0, <1>1 DEF Sound
<1>5. Cells' = Cells BY <1>2 DEF Cells
<1>6. TypeOK'
  <2>1. pc' \in [Threads -> Steps] BY <1>0, <1>1 DEF TypeOK, Steps
  <2> QED BY <1>0, <1>1, <1>2, <2>1 DEF TypeOK
<1>7. lock = t /\ \A u \in Threads \ {t} : pc[u] \notin Locked
  BY <1>0, <1>1, Alone DEF Locked
<1>8. Sound' BY <1>0, <1>1, <1>2, <1>5, <1>7, SoundOfHandler DEF Locked
<1>9. ~Listening' => ~statusPtr' /\ signals' = 0 BY <1>2 DEF IInv, Listening
<1>10. ASSUME Listening' PROVE Handed' /\ Filling' /\ Stopped' /\ Placed'
  <2>0. Handed /\ Filling /\ Stopped /\ Placed BY <1>2, <1>10 DEF IInv, Listening
  <2>1. Handed'
    <3>1. \A u \in Threads \ {t} : pc'[u] \notin {"write", "clear", "complete"}
      BY <1>3, <1>7 DEF Locked
    <3>2. agent \notin {"scan", "store"} /\ signals = 0 /\ buf = event[t]
      BY <1>1, <2>0 DEF Handed
    <3> QED BY <1>1, <1>2, <1>3, <2>0, <3>1, <3>2 DEF Handed
  <2>2. Filling' BY <1>2, <1>3, <2>0 DEF Filling, QueueFor
  <2>3. Stopped' BY <1>2, <1>3, <1>5, <2>0 DEF Stopped, Awaited, Carrying
  <2>4. Placed' BY <1>2, <1>3, <1>5, <2>0 DEF Placed, After, Carrying
  <2> QED BY <2>1, <2>2, <2>3, <2>4
<1>11. ToldInOrder' BY <1>2 DEF IInv, ToldInOrder
<1>12. Known'
  <2>1. InHand \subseteq InHand' BY <1>1, <1>2, <1>3 DEF InHand
  <2> QED BY <1>2, <2>1, KnownByHandler DEF IInv
<1> QED BY <1>6, <1>8, <1>9, <1>10, <1>11, <1>12 DEF IInv

LEMMA CompleteStep ==
  ASSUME NoPanics, IInv, NEW t \in Threads, Complete(t)
  PROVE  IInv'
<1> USE Constants, EventShape
<1>0. TypeOK /\ Sound BY DEF IInv
<1>1. /\ pc[t] = "complete" /\ pc' = [pc EXCEPT ![t] = "leave"]
      /\ signals' = (IF statusPtr THEN signals + 1 ELSE signals) /\ statusPtr' = FALSE
  BY DEF Complete, At
<1>2. /\ raised' = raised /\ slot' = slot /\ event' = event /\ frozen' = frozen /\ lock' = lock
      /\ infoPtr' = infoPtr /\ queue' = queue /\ traces' = traces /\ agent' = agent
      /\ scanAt' = scanAt
      /\ buf' = buf /\ owed' = owed /\ told' = told /\ dropped' = dropped /\ suspended' = suspended
  BY DEF Complete, channelVars, agentVars
<1>3. pc'[t] = "leave" /\ \A u \in Threads : u # t => pc'[u] = pc[u] BY <1>0, <1>1 DEF TypeOK
<1>4. event[t] \in Events /\ event[t].of = t BY <1>0, <1>1 DEF Sound
<1>5. Cells' = Cells BY <1>2 DEF Cells
<1>12. missed' = IF agent = "storeStatus" THEN missed \cup {event[t]} ELSE missed
  BY DEF Complete
<1>6. TypeOK'
  <2>1. pc' \in [Threads -> Steps] BY <1>0, <1>1 DEF TypeOK, Steps
  <2>2. signals' \in {0, 1}
    <3>1. statusPtr => signals = 0 BY <1>0 DEF IInv, Handed, TypeOK
    <3> QED BY <1>0, <1>1, <3>1 DEF TypeOK
  <2>3. statusPtr' \in BOOLEAN BY <1>1
  <2>4. missed' \subseteq Events BY <1>0, <1>4, <1>12 DEF TypeOK
  <2> QED BY <1>0, <1>2, <2>1, <2>2, <2>3, <2>4 DEF TypeOK
<1>7. lock = t /\ \A u \in Threads \ {t} : pc[u] \notin Locked
  BY <1>0, <1>1, Alone DEF Locked
<1>8. Sound' BY <1>0, <1>1, <1>2, <1>5, <1>7, SoundOfHandler DEF Locked
<1>9. ~Listening' => ~statusPtr' /\ signals' = 0 BY <1>1, <1>2 DEF IInv, Listening
<1>10. ASSUME Listening' PROVE Handed' /\ Filling' /\ Stopped' /\ Placed'
  <2>0. Handed /\ Filling /\ Stopped /\ Placed BY <1>2, <1>10 DEF IInv, Listening
  <2>1. Handed'
    <3>1. \A u \in Threads : pc'[u] \notin {"write", "clear", "complete"}
      BY <1>3, <1>7 DEF Locked
    <3>2. agent \notin {"scan", "store"} /\ signals = 0 /\ buf = event[t] /\ ~infoPtr
          /\ buf # NoEvent
      BY <1>1, <1>4, <2>0 DEF Handed
    <3>3. agent = "wait" \/ ~statusPtr BY <1>2, <1>10, <2>0, <3>2 DEF Handed, Listening
    <3> QED BY <1>1, <1>2, <1>3, <2>0, <3>1, <3>2, <3>3 DEF Handed
  <2>2. Filling' BY <1>2, <1>3, <2>0 DEF Filling, QueueFor
  <2>3. Stopped' BY <1>2, <1>3, <1>5, <2>0 DEF Stopped, Awaited, Carrying
  <2>4. Placed' BY <1>2, <1>3, <1>5, <2>0 DEF Placed, After, Carrying
  <2> QED BY <2>1, <2>2, <2>3, <2>4
<1>11. ToldInOrder' BY <1>2 DEF IInv, ToldInOrder
<1>13. Known'
  <2>1. Queued' = Queued /\ Listening' = Listening BY <1>2 DEF Queued, Listening
  <2>2. signals \in {0, 1} BY <1>0 DEF TypeOK
  <2>3. Stored \subseteq Stored'
    <3>1. signals > 0 => signals' > 0 BY <1>1, <2>2
    <3>2. \A i : ToScan(i) => ToScan(i)' BY <1>2, <3>1 DEF ToScan
    <3> QED BY <1>2, <3>1, <3>2 DEF Stored
  <2>4. ASSUME NEW e \in InHand PROVE e \in InHand' \/ e = event[t]
    <3>1. PICK u \in Threads : e = event[u] /\ pc[u] \in Carrying \cup {"clear", "complete"}
      BY DEF InHand, Carrying
    <3> QED BY <1>2, <1>3, <3>1 DEF InHand, Carrying
  <2>5. ASSUME Listening
        PROVE  event[t] \in Stored' \cup missed' /\ missed' \subseteq missed \cup {buf}
    <3>1. Handed /\ buf = event[t] BY <1>1, <2>5 DEF IInv, Handed
    <3>2. CASE agent = "storeStatus" BY <1>12, <3>1, <3>2
    <3>3. CASE agent # "storeStatus"
      <4>1. agent = "wait" BY <1>4, <2>5, <3>1, <3>3 DEF Handed, Listening
      <4>2. statusPtr BY <1>1, <3>1, <4>1 DEF Handed
      <4>3. signals' > 0 BY <1>0, <1>1, <4>2 DEF TypeOK
      <4>4. event[t] \in Stored' BY <1>2, <3>1, <4>3 DEF Stored
      <4> QED BY <1>12, <3>3, <4>4
    <3> QED BY <3>2, <3>3
  <2>6. missed \subseteq missed' BY <1>12
  <2>7. Listening => Heard \subseteq Heard' BY <1>2, <2>3, <2>4, <2>5, <2>6 DEF Heard
  <2>8. Listening => missed' \subseteq Queued' \cup {buf'}
    BY <1>2, <2>1, <2>5 DEF IInv, Known, Late
  <2> QED BY <1>2, <2>1, <2>7, <2>8, StillKnown DEF IInv
<1> QED BY <1>6, <1>8, <1>9, <1>10, <1>11, <1>13 DEF IInv

(* A search for a free slot that finds one finds the first.                *)
LEMMA FirstIn ==
  ASSUME NEW S \in SUBSET Nat, S # {}
  PROVE  (CHOOSE i \in S : \A j \in S : i <= j) \in S
<1> DEFINE R == {ss \in Nat \X Nat : ss[1] < ss[2]}
<1>1. IsWellFoundedOn(R, Nat) BY NatLessThanWellFounded DEF OpToRel
<1>2. PICK x \in S : \A y \in S : ~(<<y, x>> \in R)
  <2> HIDE DEF R
  <2> QED BY <1>1, WFMin
<1>3. ASSUME NEW y \in S PROVE x <= y
  <2>1. <<y, x>> \notin R BY <1>2
  <2> QED BY <2>1
<1> QED BY <1>3

LEMMA PickStep ==
  ASSUME NoPanics, IInv, NEW t \in Threads, Pick(t)
  PROVE  IInv'
<1> USE Constants, EventShape
<1>0. TypeOK /\ Sound BY DEF IInv
<1> DEFINE free == {i \in 1..Slots : QueueFor(event[t])[i] = NoEvent}
           i0 == CHOOSE i \in free : \A j \in free : i <= j
<1>1. PICK next \in {"fill", "leave"} :
        /\ pc[t] = "pick" /\ pc' = [pc EXCEPT ![t] = next]
        /\ \/ next = "fill" /\ free # {} /\ slot' = [slot EXCEPT ![t] = i0] /\ dropped' = dropped
           \/ next = "leave" /\ slot' = slot /\ dropped' = dropped \cup {event[t]}
  BY DEF Pick, At, lossVars
<1>2. /\ raised' = raised /\ event' = event /\ frozen' = frozen /\ lock' = lock
      /\ infoPtr' = infoPtr
      /\ statusPtr' = statusPtr /\ queue' = queue /\ traces' = traces /\ agent' = agent
      /\ scanAt' = scanAt
      /\ buf' = buf /\ owed' = owed /\ told' = told /\ signals' = signals /\ suspended' = suspended
      /\ missed' = missed
  BY DEF Pick, channelVars, agentVars, lossVars
<1>3. pc'[t] = next /\ \A u \in Threads : u # t => pc'[u] = pc[u] BY <1>0, <1>1 DEF TypeOK
<1>4. event[t] \in Events /\ event[t].of = t BY <1>0, <1>1 DEF Sound
<1>5. Cells' = Cells BY <1>2 DEF Cells
<1>6. free # {} => i0 \in free
  <2>1. free \in SUBSET Nat OBVIOUS
  <2> HIDE DEF free
  <2> QED BY <2>1, FirstIn
<1>7. next = "fill" => slot'[t] \in 1..Slots /\ QueueFor(event[t])[slot'[t]] = NoEvent
  BY <1>0, <1>1, <1>6 DEF TypeOK
<1>8. \A u \in Threads : u # t => slot'[u] = slot[u] BY <1>0, <1>1 DEF TypeOK
<1>9. TypeOK'
  <2>1. pc' \in [Threads -> Steps] BY <1>0, <1>1 DEF TypeOK, Steps
  <2>2. slot' \in [Threads -> 0..Slots]
    <3>1. free # {} => i0 \in 0..Slots BY <1>6
    <3> HIDE DEF i0, free
    <3> QED BY ZenonT(30), <1>0, <1>1, <3>1 DEF TypeOK
  <2>3. dropped' \subseteq Events BY <1>0, <1>1, <1>4 DEF TypeOK
  <2> QED BY <1>0, <1>2, <2>1, <2>2, <2>3 DEF TypeOK
<1> HIDE DEF free, i0
<1>10. lock = t /\ \A u \in Threads \ {t} : pc[u] \notin Locked
  BY <1>0, <1>1, Alone DEF Locked
<1>11. Sound'
  <2>1. next \in Locked BY DEF Locked
  <2> QED BY <1>0, <1>1, <1>2, <1>5, <1>10, <2>1, SoundOfHandler
<1>12. ~Listening' => ~statusPtr' /\ signals' = 0 BY <1>2 DEF IInv, Listening
<1>13. ASSUME Listening' PROVE Handed' /\ Filling' /\ Stopped' /\ Placed'
  <2>0. Handed /\ Filling /\ Stopped /\ Placed BY <1>2, <1>13 DEF IInv, Listening
  <2>1. Handed'
    <3>1. \A u \in Threads : pc'[u] \notin {"write", "clear", "complete"} /\ pc[u] # "clear"
      BY <1>1, <1>3, <1>10 DEF Locked
    <3> QED BY <1>2, <2>0, <3>1 DEF Handed
  <2>2. Filling' BY <1>2, <1>3, <1>7, <1>8, <2>0 DEF Filling, QueueFor
  <2>3. Stopped' BY <1>1, <1>2, <1>3, <1>5, <2>0 DEF Stopped, Awaited, Carrying
  <2>4. Placed' BY <1>1, <1>2, <1>3, <1>5, <2>0 DEF Placed, After, Carrying
  <2> QED BY <2>1, <2>2, <2>3, <2>4
<1>14. ToldInOrder' BY <1>2 DEF IInv, ToldInOrder
<1>15. Known'
  <2>1. ASSUME NEW e \in InHand PROVE e \in InHand' \cup dropped'
    <3>1. PICK u \in Threads : e = event[u] /\ pc[u] \in Carrying \cup {"clear", "complete"}
      BY DEF InHand, Carrying
    <3>2. CASE u = t BY <1>1, <1>2, <1>3, <3>1, <3>2 DEF InHand
    <3>3. CASE u # t BY <1>2, <1>3, <3>1, <3>3 DEF InHand, Carrying
    <3> QED BY <3>2, <3>3
  <2>2. dropped \subseteq dropped' BY <1>1
  <2> QED BY <1>2, <2>1, <2>2, KnownByHandler DEF IInv
<1> QED BY <1>9, <1>11, <1>12, <1>13, <1>14, <1>15 DEF IInv

LEMMA LeaveStep ==
  ASSUME NoPanics, IInv, NEW t \in Threads, Leave(t)
  PROVE  IInv'
<1> USE Constants, EventShape
<1>0. TypeOK /\ Sound BY DEF IInv
<1>1. pc[t] = "leave" BY DEF Leave, At
<1>2. event[t] \in Events /\ event[t].of = t /\ event[t].kind # "panic"
  BY <1>0, <1>1 DEF Sound, NoPanics
<1>3. /\ pc' = [pc EXCEPT ![t] = "run"] /\ lock' = NoThread
      /\ event' = [event EXCEPT ![t] = NoEvent] /\ slot' = [slot EXCEPT ![t] = 0]
  BY <1>2 DEF Leave, At
<1>4. /\ raised' = raised /\ frozen' = frozen /\ infoPtr' = infoPtr /\ statusPtr' = statusPtr
      /\ queue' = queue
      /\ traces' = traces /\ agent' = agent /\ scanAt' = scanAt /\ buf' = buf /\ owed' = owed
      /\ told' = told /\ signals' = signals /\ dropped' = dropped /\ missed' = missed /\ suspended' = suspended
  BY DEF Leave, channelVars, agentVars, lossVars
<1>5. /\ pc'[t] = "run"
      /\ \A u \in Threads : u # t => pc'[u] = pc[u] /\ event'[u] = event[u] /\ slot'[u] = slot[u]
  BY <1>0, <1>3 DEF TypeOK
<1>6. Cells' = Cells BY <1>4 DEF Cells
<1>7. TypeOK'
  <2>1. pc' \in [Threads -> Steps] BY <1>0, <1>3 DEF TypeOK, Steps
  <2>2. slot' \in [Threads -> 0..Slots] BY <1>0, <1>3 DEF TypeOK
  <2>3. event' \in [Threads -> MaybeEvents] BY <1>0, <1>3 DEF TypeOK, MaybeEvents
  <2> QED BY <1>0, <1>3, <1>4, <2>1, <2>2, <2>3 DEF TypeOK
<1>8. \A u \in Threads \ {t} : pc[u] \notin Locked
  BY <1>0, <1>1, Alone DEF Locked
<1>9. Sound'
  <2>1. "run" \notin Locked BY DEF Locked
  <2> QED BY <1>0, <1>1, <1>3, <1>4, <1>5, <1>6, <1>8, <2>1, SoundOfHandler
<1>10. ~Listening' => ~statusPtr' /\ signals' = 0 BY <1>4 DEF IInv, Listening
<1>11. ASSUME Listening' PROVE Handed' /\ Filling' /\ Stopped' /\ Placed'
  <2>0. Handed /\ Filling /\ Stopped /\ Placed BY <1>4, <1>11 DEF IInv, Listening
  <2>1. Handed'
    <3>1. \A u \in Threads : pc'[u] \notin {"write", "clear", "complete"} /\ pc[u] # "clear"
      BY <1>1, <1>5, <1>8 DEF Locked
    <3> QED BY <1>4, <2>0, <3>1 DEF Handed
  <2>2. Filling' BY <1>4, <1>5, <2>0 DEF Filling, QueueFor
  <2>3. Stopped' BY <1>1, <1>4, <1>5, <1>6, <2>0 DEF Stopped, Awaited, Carrying
  <2>4. Placed' BY <1>1, <1>4, <1>5, <1>6, <2>0 DEF Placed, After, Carrying
  <2> QED BY <2>1, <2>2, <2>3, <2>4
<1>12. ToldInOrder' BY <1>4 DEF IInv, ToldInOrder
<1>13. Known'
  <2>1. ASSUME NEW e \in InHand PROVE e \in InHand'
    <3>1. PICK u \in Threads : e = event[u] /\ pc[u] \in Carrying \cup {"clear", "complete"}
      BY DEF InHand, Carrying
    <3>2. u # t BY <1>1, <3>1 DEF Carrying
    <3> QED BY <1>5, <3>1, <3>2 DEF InHand, Carrying
  <2> QED BY <1>4, <2>1, KnownByHandler DEF IInv
<1> QED BY <1>7, <1>9, <1>10, <1>11, <1>12, <1>13 DEF IInv

LEMMA FillStep ==
  ASSUME NoPanics, IInv, NEW t \in Threads, Fill(t)
  PROVE  IInv'
<1> USE Constants, EventShape
<1>0. TypeOK /\ Sound BY DEF IInv
<1>1. pc[t] = "fill" /\ pc' = [pc EXCEPT ![t] = "leave"] BY DEF Fill, At
<1>2. /\ raised' = raised /\ slot' = slot /\ event' = event /\ frozen' = frozen /\ lock' = lock
      /\ infoPtr' = infoPtr /\ statusPtr' = statusPtr /\ agent' = agent /\ scanAt' = scanAt
      /\ buf' = buf
      /\ owed' = owed /\ told' = told /\ signals' = signals /\ dropped' = dropped
      /\ suspended' = suspended
  BY DEF Fill, channelVars, agentVars
<1>3. pc'[t] = "leave" /\ \A u \in Threads : u # t => pc'[u] = pc[u] BY <1>0, <1>1 DEF TypeOK
<1>4. event[t] \in Events /\ event[t].of = t BY <1>0, <1>1 DEF Sound
<1> DEFINE k == IF event[t].kind = "trace" THEN Slots + slot[t] ELSE slot[t]
<1>5. slot[t] \in 1..Slots => k \in 1..(2 * Slots) /\ Cells' = [Cells EXCEPT ![k] = event[t]]
  <2> SUFFICES ASSUME slot[t] \in 1..Slots
               PROVE  k \in 1..(2 * Slots) /\ Cells' = [Cells EXCEPT ![k] = event[t]]
    OBVIOUS
  <2> DEFINE n == slot[t]
             e == event[t]
  <2>1. CASE event[t].kind = "trace"
    <3>1. traces' = [traces EXCEPT ![n] = e] /\ queue' = queue BY <2>1 DEF Fill
    <3> HIDE DEF n, e
    <3>2. Cells' = [Cells EXCEPT ![Slots + n] = e] BY <1>0, <3>1, CellTraced DEF n
    <3> QED BY <2>1, <3>2 DEF n, e
  <2>2. CASE event[t].kind # "trace"
    <3>1. queue' = [queue EXCEPT ![n] = e] /\ traces' = traces BY <2>2 DEF Fill
    <3> HIDE DEF n, e
    <3>2. Cells' = [Cells EXCEPT ![n] = e] BY <1>0, <3>1, CellQueued DEF n
    <3> QED BY <2>2, <3>2 DEF n, e
  <2> QED BY <2>1, <2>2
<1>6. slot[t] \notin 1..Slots => Cells' = Cells
  <2>1. SUFFICES ASSUME slot[t] \notin 1..Slots PROVE queue' = queue /\ traces' = traces
    BY DEF Cells
  <2> QED BY <1>0, <2>1 DEF Fill, TypeOK
<1>17. missed' = IF ToScan(k) THEN missed ELSE missed \cup {event[t]} BY DEF Fill, Place
<1>7. Cells \in [1..(2 * Slots) -> MaybeEvents] BY <1>0, CellShape
<1>8. \A i \in 1..(2 * Slots) : Cells'[i] = Cells[i] \/ Cells'[i] = event[t]
  <2> HIDE DEF k
  <2> QED BY <1>5, <1>6, <1>7
<1>9. TypeOK'
  <2>1. pc' \in [Threads -> Steps] BY <1>0, <1>1 DEF TypeOK, Steps
  <2>2. queue' \in [1..Slots -> MaybeEvents] /\ traces' \in [1..Slots -> MaybeEvents]
    <3>1. event[t] \in MaybeEvents BY <1>4 DEF MaybeEvents
    <3> QED BY <1>0, <3>1 DEF TypeOK, Fill
  <2>3. missed' \subseteq Events
    <3> HIDE DEF k
    <3> QED BY <1>0, <1>4, <1>17 DEF TypeOK
  <2> QED BY <1>0, <1>2, <2>1, <2>2, <2>3 DEF TypeOK
<1>10. lock = t /\ \A u \in Threads \ {t} : pc[u] \notin Locked
  BY <1>0, <1>1, Alone DEF Locked
<1>11. Sound' BY <1>0, <1>1, <1>2, <1>8, <1>10, SoundOfHandler DEF Locked
<1>12. ~Listening' => ~statusPtr' /\ signals' = 0 BY <1>2 DEF IInv, Listening
<1>13. ASSUME Listening
       PROVE  /\ Handed /\ Stopped /\ Placed /\ Filling /\ k \in 1..(2 * Slots)
              /\ Cells[k] = NoEvent /\ Cells'[k] = event[t]
              /\ \A i \in 1..(2 * Slots) : i # k => Cells'[i] = Cells[i]
  <2>1. Handed /\ Stopped /\ Placed /\ Filling BY <1>13 DEF IInv
  <2>2. slot[t] \in 1..Slots /\ QueueFor(event[t])[slot[t]] = NoEvent BY <1>1, <2>1 DEF Filling
  <2>3. Cells[k] = NoEvent BY <1>0, <2>2, CellShape DEF QueueFor
  <2> HIDE DEF k
  <2> QED BY <1>5, <1>7, <2>1, <2>2, <2>3
<1> HIDE DEF k
<1>14. ASSUME Listening' PROVE Handed' /\ Filling' /\ Stopped' /\ Placed'
  <2>0. Listening BY <1>2, <1>14 DEF Listening
  <2>1. Handed'
    <3>1. \A u \in Threads : pc'[u] \notin {"write", "clear", "complete"} /\ pc[u] # "clear"
      BY <1>1, <1>3, <1>10 DEF Locked
    <3> QED BY <1>2, <1>13, <2>0, <3>1 DEF Handed
  <2>2. Filling' BY <1>3, <1>10 DEF Filling, Locked
  <2>3. Stopped'
    <3>1. Awaited(event[t]) BY <1>1, <1>13, <2>0 DEF Stopped, Carrying
    <3>2. \A i \in 1..(2 * Slots) : Awaited(Cells'[i]) BY <1>8, <1>13, <2>0, <3>1 DEF Stopped
    <3> QED BY <1>2, <1>3, <1>13, <2>0, <3>2 DEF Stopped, Awaited, Carrying
  <2>4. Placed'
    <3>1. /\ \A i \in 1..(2 * Slots) : Apart(event[t], Cells[i]) /\ Apart(Cells[i], event[t])
          /\ Apart(event[t], buf) /\ Apart(buf, event[t]) /\ After(event[t])
      BY <1>1, <1>13, <2>0 DEF Placed, Carrying, Apart, SameStop
    <3>2. \A i, j \in 1..(2 * Slots) : i # j => Apart(Cells'[i], Cells'[j])
      BY <1>8, <1>13, <2>0, <3>1 DEF Placed
    <3>3. \A i \in 1..(2 * Slots) : Apart(buf, Cells'[i]) /\ After(Cells'[i])
      BY <1>8, <1>13, <2>0, <3>1 DEF Placed
    <3>4. \A u \in Threads : pc'[u] \in Carrying => u # t /\ pc[u] \in Carrying
                             /\ event[u].of = u
      BY <1>0, <1>3 DEF Sound, Carrying
    <3>5. \A u \in Threads : pc'[u] \in Carrying => Apart(event[u], event[t])
      BY <1>4, <3>4 DEF Apart, SameStop
    <3>6. \A u \in Threads : pc'[u] \in Carrying =>
            /\ \A i \in 1..(2 * Slots) : Apart(event[u], Cells'[i])
            /\ Apart(event[u], buf) /\ After(event[u])
      BY <1>8, <1>13, <2>0, <3>4, <3>5 DEF Placed
    <3> QED BY <1>2, <1>13, <2>0, <3>2, <3>3, <3>6 DEF Placed, After
  <2> QED BY <2>1, <2>2, <2>3, <2>4
<1>15. ToldInOrder' BY <1>2 DEF IInv, ToldInOrder
<1>16. Known'
  <2>1. Listening' = Listening BY <1>2 DEF Listening
  <2>2. /\ Queued = {Cells[i] : i \in 1..(2 * Slots)}
        /\ Queued' = {Cells'[i] : i \in 1..(2 * Slots)}
    <3>1. Queued = {Cells[i] : i \in 1..(2 * Slots)} BY QueuedCells
    <3>2. (Queued = {Cells[i] : i \in 1..(2 * Slots)})' BY QueuedCells, PTL
    <3> QED BY <3>1, <3>2
  <2>3. \A i \in 1..(2 * Slots) : ToScan(i)' = ToScan(i) BY <1>2 DEF ToScan
  <2>4. ASSUME Listening, NEW e \in Stored PROVE e \in Stored' \/ e = NoEvent
    <3>1. CASE signals > 0 /\ e = buf BY <1>2, <3>1, StoredNext
    <3>2. CASE \E i \in 1..(2 * Slots) : e = Cells[i] /\ ToScan(i)
      <4>1. PICK i \in 1..(2 * Slots) : e = Cells[i] /\ ToScan(i) BY <3>2
      <4>2. CASE i = k BY <1>13, <2>4, <4>1, <4>2
      <4>3. CASE i # k BY <1>13, <2>3, <2>4, <4>1, <4>3, StoredNext
      <4> QED BY <4>2, <4>3
    <3> QED BY <2>4, <3>1, <3>2, StoredAt
  <2>5. ASSUME NEW e \in InHand PROVE e \in InHand' \/ e = event[t]
    <3>1. PICK u \in Threads : e = event[u] /\ pc[u] \in Carrying \cup {"clear", "complete"}
      BY DEF InHand, Carrying
    <3> QED BY <1>2, <1>3, <3>1 DEF InHand, Carrying
  <2>6. ASSUME Listening PROVE event[t] \in Stored' \cup missed'
    <3>1. CASE ToScan(k) BY <1>13, <2>3, <2>6, <3>1, StoredNext
    <3>2. CASE ~ToScan(k) BY <1>17, <3>2
    <3> QED BY <3>1, <3>2
  <2>7. Listening => \A e \in Heard : e.kind = "stop" => e \in Heard'
    BY <1>2, <1>17, <2>4, <2>5, <2>6 DEF Heard
  <2>8. ASSUME Listening PROVE missed' \subseteq Queued' \cup {buf'}
    <3>1. missed \subseteq Queued \cup {buf} /\ NoEvent \notin missed
      BY <1>0, <2>8 DEF IInv, Known, Late, TypeOK
    <3>2. Queued \subseteq Queued' \cup {NoEvent}
      <4>1. ASSUME NEW i \in 1..(2 * Slots) PROVE Cells[i] \in Queued' \cup {NoEvent}
        BY <1>13, <2>2, <2>8
      <4> QED BY <2>2, <4>1
    <3>3. event[t] \in Queued' BY <1>13, <2>2, <2>8
    <3> QED BY <1>2, <1>17, <3>1, <3>2, <3>3
  <2> QED BY <1>2, <2>1, <2>7, <2>8, StillKnown DEF IInv
<1> QED BY <1>9, <1>11, <1>12, <1>14, <1>15, <1>16 DEF IInv

(* What a step of the agent leaves as it is.                               *)
LEMMA SoundOfAgent ==
  ASSUME TypeOK, Sound, UNCHANGED <<pc, event, lock, raised>>,
         frozen' = <<>>, agent' # "panicked",
         \A i \in 1..(2 * Slots) : Cells'[i] = Cells[i] \/ Cells'[i] = NoEvent,
         buf' \in {buf, NoEvent} \cup {Cells[i] : i \in 1..(2 * Slots)},
         told' = told \/ told' = Append(told, buf)
  PROVE  Sound'
<1> USE Constants, EventShape
<1>1. told \in Seq(Events) /\ raised \in Nat BY DEF TypeOK
<1>2. \A i \in 1..(2 * Slots) : Cells'[i].n <= raised' BY <1>1 DEF Sound
<1>3. buf'.n <= raised' BY <1>1 DEF Sound
<1>4. \A i \in DOMAIN told' : told'[i].n <= raised'
  <2>1. CASE told' = told BY <2>1 DEF Sound
  <2>2. CASE told' = Append(told, buf) BY <1>1, <2>2 DEF Sound
  <2> QED BY <2>1, <2>2
<1> QED BY <1>2, <1>3, <1>4 DEF Sound

LEMMA ScanFoundStep == ASSUME NoPanics, IInv, ScanFound PROVE IInv'
<1> USE Constants, EventShape
<1>0. TypeOK /\ Sound BY DEF IInv
<1>1. /\ agent = "scan" /\ Scanned # NoEvent /\ buf' = Scanned /\ signals' = signals + 1
      /\ agent' = "wait"
  BY DEF ScanFound
<1>2. /\ raised' = raised /\ slot' = slot /\ event' = event /\ frozen' = frozen /\ lock' = lock
      /\ infoPtr' = infoPtr /\ statusPtr' = statusPtr /\ scanAt' = scanAt /\ owed' = owed
      /\ told' = told
      /\ dropped' = dropped /\ missed' = missed /\ suspended' = suspended /\ pc' = pc
  BY DEF ScanFound, handlerVars, lossVars
<1>3. Cells \in [1..(2 * Slots) -> MaybeEvents] /\ scanAt \in 1..(2 * Slots)
      /\ Scanned = Cells[scanAt]
  BY <1>0, CellShape
<1>4. Cells' = [Cells EXCEPT ![scanAt] = NoEvent]
  <2>1. CASE scanAt <= Slots
    <3>1. scanAt \in 1..Slots BY <1>3, <2>1
    <3> QED BY <1>0, <2>1, <3>1, CellQueued DEF ScanFound
  <2>2. CASE ~(scanAt <= Slots)
    <3> DEFINE i == scanAt - Slots
    <3>1. i \in 1..Slots /\ scanAt = Slots + i BY <1>3, <2>2
    <3>2. traces' = [traces EXCEPT ![i] = NoEvent] /\ queue' = queue BY <2>2 DEF ScanFound
    <3> HIDE DEF i
    <3>3. Cells' = [Cells EXCEPT ![Slots + i] = NoEvent] BY <1>0, <3>1, <3>2, CellTraced
    <3> QED BY <3>1, <3>3
  <2> QED BY <2>1, <2>2
<1>5. /\ Cells'[scanAt] = NoEvent
      /\ \A i \in 1..(2 * Slots) : i # scanAt => Cells'[i] = Cells[i]
  BY <1>3, <1>4
<1>6. Handed /\ Filling /\ Stopped /\ Placed BY <1>1 DEF IInv, Listening
<1>7. signals = 0 /\ buf = NoEvent /\ ~infoPtr /\ ~statusPtr
  BY <1>1, <1>6 DEF Handed
<1>8. Scanned \in Events BY <1>1, <1>3 DEF MaybeEvents
<1>9. TypeOK'
  <2>1. queue' \in [1..Slots -> MaybeEvents] /\ traces' \in [1..Slots -> MaybeEvents]
    BY <1>0 DEF TypeOK, ScanFound, MaybeEvents
  <2>2. buf' \in MaybeEvents /\ signals' \in {0, 1} BY <1>1, <1>7, <1>8 DEF MaybeEvents
  <2> QED BY <1>0, <1>1, <1>2, <2>1, <2>2 DEF TypeOK
<1>10. Sound'
  <2>1. \A i \in 1..(2 * Slots) : Cells'[i] = Cells[i] \/ Cells'[i] = NoEvent BY <1>5
  <2>2. frozen' = <<>> BY <1>0, <1>2 DEF Sound
  <2> QED BY <1>0, <1>1, <1>2, <1>3, <2>1, <2>2, SoundOfAgent
<1>11. Handed'
  <2>1. \A t \in Threads : pc[t] \notin {"write", "clear", "complete"}
    <3>1. \A t \in Threads : pc[t] = "complete" => event[t] # NoEvent BY <1>0 DEF Sound
    <3> QED BY <1>6, <1>7, <3>1 DEF Handed
  <2> QED BY <1>1, <1>2, <1>7, <2>1 DEF Handed
<1>12. Filling'
  <2>1. ASSUME NEW t \in Threads, pc[t] = "fill"
        PROVE  /\ slot[t] \in 1..Slots
               /\ event[t].kind = "trace" => traces'[slot[t]] = NoEvent
               /\ event[t].kind # "trace" => queue'[slot[t]] = NoEvent
    <3>1. slot[t] \in 1..Slots /\ QueueFor(event[t])[slot[t]] = NoEvent
      BY <1>6, <2>1 DEF Filling
    <3>2. \A i \in 1..Slots : /\ queue[i] = NoEvent => queue'[i] = NoEvent
                              /\ traces[i] = NoEvent => traces'[i] = NoEvent
      BY <1>0 DEF ScanFound, TypeOK
    <3> QED BY <3>1, <3>2 DEF QueueFor
  <2>2. ASSUME NEW t \in Threads, (pc[t] = "fill")'
        PROVE  (slot[t] \in 1..Slots /\ QueueFor(event[t])[slot[t]] = NoEvent)'
    <3>1. pc[t] = "fill" /\ slot'[t] = slot[t] /\ event'[t] = event[t] BY <1>2, <2>2
    <3>2. CASE event[t].kind = "trace" BY <2>1, <3>1, <3>2 DEF QueueFor
    <3>3. CASE event[t].kind # "trace" BY <2>1, <3>1, <3>3 DEF QueueFor
    <3> QED BY <3>2, <3>3
  <2> QED BY <2>2 DEF Filling
<1>13. Stopped' BY <1>1, <1>2, <1>3, <1>5, <1>6 DEF Stopped, Awaited
<1>14. Placed'
  <2>1. \A i, j \in 1..(2 * Slots) : i # j => Apart(Cells'[i], Cells'[j])
    BY <1>5, <1>6 DEF Placed, Apart
  <2>2. \A i \in 1..(2 * Slots) : Apart(buf', Cells'[i])
    BY <1>1, <1>3, <1>5, <1>6 DEF Placed, Apart
  <2>3. After(NoEvent)
    BY <1>0 DEF After, SameStop, TypeOK
  <2>4. After(buf') /\ \A i \in 1..(2 * Slots) : After(Cells'[i])
    BY <1>1, <1>3, <1>5, <1>6, <2>3 DEF Placed
  <2>5. \A t \in Threads : pc[t] \in Carrying =>
          /\ \A i \in 1..(2 * Slots) : Apart(event[t], Cells'[i])
          /\ Apart(event[t], buf') /\ After(event[t])
    BY <1>1, <1>3, <1>5, <1>6 DEF Placed, Apart
  <2> QED BY <1>2, <2>1, <2>2, <2>4, <2>5 DEF Placed, After
<1>15. ToldInOrder' BY <1>2 DEF IInv, ToldInOrder
<1>16. Known'
  <2>1. Listening /\ signals' > 0 BY <1>1, <1>7 DEF Listening
  <2>2. buf' \in Stored' /\ \A i \in 1..(2 * Slots) : Cells'[i] \in Stored'
    BY <2>1, StoredNext DEF ToScan
  <2>3. \A i \in 1..(2 * Slots) : Cells[i] = Cells'[i] \/ Cells[i] = buf'
    BY <1>1, <1>3, <1>5
  <2>4. ASSUME NEW e \in Stored PROVE e \in Stored'
    <3>1. PICK i \in 1..(2 * Slots) : e = Cells[i] BY <1>7, <2>4, StoredAt
    <3> QED BY <2>2, <2>3, <3>1
  <2>5. InHand' = InHand BY <1>2 DEF InHand
  <2>6. Heard \subseteq Heard' BY <1>2, <2>4, <2>5 DEF Heard
  <2>7. missed' \subseteq Queued' \cup {buf'}
    <3>1. missed \subseteq Queued \cup {buf} /\ NoEvent \notin missed
      BY <1>0, <2>1 DEF IInv, Known, Late, TypeOK
    <3>2. Queued = {Cells[i] : i \in 1..(2 * Slots)} BY QueuedCells
    <3>3. (Queued = {Cells[i] : i \in 1..(2 * Slots)})' BY QueuedCells, PTL
    <3>4. Queued \subseteq Queued' \cup {buf'} BY <2>3, <3>2, <3>3
    <3> QED BY <1>2, <1>7, <3>1, <3>4
  <2> QED BY <1>2, <2>1, <2>6, <2>7, StillKnown DEF IInv
<1>17. ~Listening' => ~statusPtr' /\ signals' = 0 BY <1>1 DEF Listening
<1> QED BY <1>9, <1>10, <1>11, <1>12, <1>13, <1>14, <1>15, <1>16, <1>17 DEF IInv

LEMMA ScanEmptyStep == ASSUME NoPanics, IInv, ScanEmpty PROVE IInv'
<1> USE Constants, EventShape
<1>0. TypeOK /\ Sound BY DEF IInv
<1>1. /\ agent = "scan"
      /\ \/ scanAt < 2 * Slots /\ scanAt' = scanAt + 1 /\ agent' = agent
         \/ scanAt' = scanAt /\ agent' = "store"
  BY DEF ScanEmpty
<1>2. /\ raised' = raised /\ slot' = slot /\ event' = event /\ frozen' = frozen /\ lock' = lock
      /\ infoPtr' = infoPtr /\ statusPtr' = statusPtr /\ queue' = queue /\ traces' = traces
      /\ buf' = buf
      /\ owed' = owed /\ told' = told /\ signals' = signals /\ dropped' = dropped /\ missed' = missed
      /\ suspended' = suspended
      /\ pc' = pc
  BY DEF ScanEmpty, handlerVars, channelVars, lossVars
<1>3. Cells' = Cells BY <1>2 DEF Cells
<1>4. Handed /\ Filling /\ Stopped /\ Placed BY <1>1 DEF IInv, Listening
<1>5. TypeOK'
  <2>1. scanAt' \in 1..(2 * Slots) BY <1>0, <1>1 DEF TypeOK
  <2> QED BY <1>0, <1>1, <1>2, <2>1 DEF TypeOK
<1>6. Sound'
  <2>1. frozen' = <<>> /\ agent' # "panicked" BY <1>0, <1>1, <1>2 DEF Sound
  <2> QED BY <1>0, <1>2, <1>3, <2>1, SoundOfAgent
<1>7. Handed'
  <2>1. agent' \in {"scan", "store"} /\ signals = 0 BY <1>1, <1>4 DEF Handed
  <2> QED BY <1>1, <1>2, <1>4, <2>1 DEF Handed
<1>8. Filling' /\ Stopped' /\ Placed'
  BY <1>2, <1>3, <1>4 DEF Filling, QueueFor, Stopped, Awaited, Placed, After
<1>9. ToldInOrder' BY <1>2 DEF IInv, ToldInOrder
<1>10. Known'
  <2>1. Listening /\ signals = 0 /\ Queued' = Queued /\ InHand' = InHand
    BY <1>1, <1>2, <1>4 DEF Listening, Handed, Queued, InHand
  <2>2. ASSUME NEW e \in Stored PROVE e \in Stored' \/ e = NoEvent
    <3>1. PICK i \in 1..(2 * Slots) : e = Cells[i] /\ scanAt <= i
      BY <2>1, <2>2, StoredAt DEF ToScan
    <3>2. CASE i = scanAt BY <1>0, <3>1, <3>2, CellShape DEF ScanEmpty
    <3>3. CASE i # scanAt
      <4>1. scanAt \in 1..(2 * Slots) BY <1>0 DEF TypeOK
      <4>2. scanAt < 2 * Slots /\ scanAt + 1 <= i BY <3>1, <3>3, <4>1
      <4>3. agent' = "scan" /\ scanAt' <= i BY <4>2 DEF ScanEmpty
      <4>4. ToScan(i)' BY <4>3 DEF ToScan
      <4> QED BY <1>3, <3>1, <4>4, StoredNext
    <3> QED BY <3>2, <3>3
  <2>3. \A e \in Heard : e.kind = "stop" => e \in Heard' BY <1>2, <2>1, <2>2 DEF Heard
  <2> QED BY <1>2, <2>1, <2>3, StillKnown DEF IInv, Known, Late
<1>11. ~Listening' => ~statusPtr' /\ signals' = 0 BY <1>1 DEF Listening
<1> QED BY <1>5, <1>6, <1>7, <1>8, <1>9, <1>10, <1>11 DEF IInv

LEMMA StoreInfoStep == ASSUME NoPanics, IInv, StoreInfo PROVE IInv'
<1> USE Constants, EventShape
<1>0. TypeOK /\ Sound BY DEF IInv
<1>1. agent = "store" /\ agent' = "storeStatus" /\ infoPtr' = TRUE
  BY DEF StoreInfo
<1>2. /\ raised' = raised /\ slot' = slot /\ event' = event /\ frozen' = frozen /\ lock' = lock
      /\ statusPtr' = statusPtr /\ queue' = queue /\ traces' = traces /\ scanAt' = scanAt
      /\ buf' = buf
      /\ owed' = owed /\ told' = told /\ signals' = signals /\ dropped' = dropped /\ missed' = missed
      /\ suspended' = suspended
      /\ pc' = pc
  BY DEF StoreInfo, handlerVars, channelVars, lossVars
<1>3. Cells' = Cells BY <1>2 DEF Cells
<1>4. Handed /\ Filling /\ Stopped /\ Placed BY <1>1 DEF IInv, Listening
<1>5. TypeOK' BY <1>0, <1>1, <1>2 DEF TypeOK
<1>6. Sound'
  <2>1. frozen' = <<>> /\ agent' # "panicked" BY <1>0, <1>1, <1>2 DEF Sound
  <2> QED BY <1>0, <1>2, <1>3, <2>1, SoundOfAgent
<1>7. Handed'
  <2>1. /\ signals = 0 /\ buf = NoEvent
        /\ \A t \in Threads : pc[t] \notin {"write", "clear", "complete"}
    <3>1. \A t \in Threads : pc[t] = "complete" => event[t] # NoEvent BY <1>0 DEF Sound
    <3> QED BY <1>1, <1>4, <3>1 DEF Handed
  <2> QED BY <1>1, <1>2, <1>4, <2>1 DEF Handed
<1>8. Filling' /\ Stopped' /\ Placed'
  BY <1>2, <1>3, <1>4 DEF Filling, QueueFor, Stopped, Awaited, Placed, After
<1>9. ToldInOrder' BY <1>2 DEF IInv, ToldInOrder
<1>10. Known'
  <2>1. Queued' = Queued /\ InHand' = InHand BY <1>2 DEF Queued, InHand
  <2>2. Listening /\ Stored \subseteq Stored' BY <1>1, <1>2 DEF Listening, Stored, ToScan
  <2>3. Heard \subseteq Heard' BY <1>2, <2>1, <2>2 DEF Heard
  <2> QED BY <1>2, <2>1, <2>2, <2>3, StillKnown DEF IInv, Known, Late
<1>11. ~Listening' => ~statusPtr' /\ signals' = 0 BY <1>1 DEF Listening
<1> QED BY <1>5, <1>6, <1>7, <1>8, <1>9, <1>10, <1>11 DEF IInv

LEMMA StoreStatusStep == ASSUME NoPanics, IInv, StoreStatus PROVE IInv'
<1> USE Constants, EventShape
<1>0. TypeOK /\ Sound BY DEF IInv
<1>1. agent = "storeStatus" /\ agent' = "wait" /\ statusPtr' = TRUE
  BY DEF StoreStatus
<1>2. /\ raised' = raised /\ slot' = slot /\ event' = event /\ frozen' = frozen /\ lock' = lock
      /\ infoPtr' = infoPtr /\ queue' = queue /\ traces' = traces /\ scanAt' = scanAt /\ buf' = buf
      /\ owed' = owed /\ told' = told /\ signals' = signals /\ dropped' = dropped /\ missed' = missed
      /\ suspended' = suspended
      /\ pc' = pc
  BY DEF StoreStatus, handlerVars, channelVars, lossVars
<1>3. Cells' = Cells BY <1>2 DEF Cells
<1>4. Handed /\ Filling /\ Stopped /\ Placed BY <1>1 DEF IInv, Listening
<1>5. TypeOK' BY <1>0, <1>1, <1>2 DEF TypeOK
<1>6. Sound'
  <2>1. frozen' = <<>> /\ agent' # "panicked" BY <1>0, <1>1, <1>2 DEF Sound
  <2> QED BY <1>0, <1>2, <1>3, <2>1, SoundOfAgent
<1>7. Handed'
  <2>1. signals = 0 BY <1>1, <1>4 DEF Handed
  <2> QED BY <1>1, <1>2, <1>4, <2>1 DEF Handed
<1>8. Filling' /\ Stopped' /\ Placed'
  BY <1>2, <1>3, <1>4 DEF Filling, QueueFor, Stopped, Awaited, Placed, After
<1>9. ToldInOrder' BY <1>2 DEF IInv, ToldInOrder
<1>10. Known'
  <2>1. Queued' = Queued /\ InHand' = InHand BY <1>2 DEF Queued, InHand
  <2>2. Listening /\ Stored \subseteq Stored' BY <1>1, <1>2 DEF Listening, Stored, ToScan
  <2>3. Heard \subseteq Heard' BY <1>2, <2>1, <2>2 DEF Heard
  <2> QED BY <1>2, <2>1, <2>2, <2>3, StillKnown DEF IInv, Known, Late
<1>11. ~Listening' => ~statusPtr' /\ signals' = 0 BY <1>1 DEF Listening
<1> QED BY <1>5, <1>6, <1>7, <1>8, <1>9, <1>10, <1>11 DEF IInv

LEMMA RunStep == ASSUME NoPanics, IInv, Run PROVE IInv'
<1> USE Constants, EventShape
<1>0. TypeOK /\ Sound BY DEF IInv
<1>1. agent = "wait" /\ signals > 0 /\ signals' = signals - 1 /\ buf' = NoEvent
  BY DEF Run
<1>2. Handed /\ Filling /\ Stopped /\ Placed BY <1>1 DEF IInv, Listening
<1>3. /\ signals = 1 /\ ~infoPtr /\ ~statusPtr /\ buf # NoEvent
      /\ \A t \in Threads : pc[t] \notin {"write", "clear", "complete"}
  BY <1>0, <1>1, <1>2 DEF Handed, TypeOK
<1>4. /\ agent' = "scan" /\ scanAt' = 1 /\ told' = Append(told, buf)
      /\ owed' = IF buf.kind \in {"stop", "panic"} THEN owed \cup {buf.of} ELSE owed
  BY <1>3 DEF Run
<1>5. buf \in Events /\ buf.kind # "panic"
  BY <1>0, <1>3 DEF TypeOK, MaybeEvents, NoPanics
<1>6. /\ raised' = raised /\ slot' = slot /\ event' = event /\ frozen' = frozen /\ lock' = lock
      /\ infoPtr' = infoPtr /\ statusPtr' = statusPtr /\ queue' = queue /\ traces' = traces
      /\ dropped' = dropped /\ suspended' = suspended /\ pc' = pc
  BY DEF Run, handlerVars, channelVars
<1>7. Cells' = Cells BY <1>6 DEF Cells
<1>8. /\ told \in Seq(Events) /\ DOMAIN told' = 1..(Len(told) + 1)
      /\ told'[Len(told) + 1] = buf /\ \A i \in DOMAIN told : told'[i] = told[i]
      /\ DOMAIN told = 1..Len(told) /\ Len(told) \in Nat
  BY <1>0, <1>4, <1>5 DEF TypeOK
<1>20. missed' = {} BY DEF Run
<1>9. TypeOK'
  <2>1. scanAt' \in 1..(2 * Slots) BY <1>4
  <2>2. told' \in Seq(Events) BY <1>4, <1>5, <1>8
  <2>3. owed' \subseteq Threads BY <1>0, <1>4, <1>5 DEF TypeOK
  <2>4. buf' \in MaybeEvents /\ signals' = 0 BY <1>1, <1>3 DEF MaybeEvents
  <2> QED BY <1>0, <1>4, <1>6, <2>1, <2>2, <2>3, <2>4, <1>20 DEF TypeOK
<1>10. Sound'
  <2>1. frozen' = <<>> /\ agent' # "panicked" BY <1>0, <1>4, <1>6 DEF Sound
  <2> QED BY <1>0, <1>1, <1>4, <1>6, <1>7, <2>1, SoundOfAgent
<1>11. Handed' BY <1>1, <1>3, <1>4, <1>6 DEF Handed
<1>12. Filling' BY <1>2, <1>6 DEF Filling, QueueFor
<1>13. ASSUME NEW e, Awaited(e), Apart(e, buf) \/ Apart(buf, e) 
       PROVE  e.kind = "stop" => e.of \in suspended' /\ e.of \notin owed'
  <2>1. e.kind = "stop" => e.of \in suspended /\ e.of \notin owed BY <1>13 DEF Awaited
  <2>2. e.kind = "stop" /\ buf.kind = "stop" => e.of # buf.of
    BY <1>3, <1>13 DEF Apart, SameStop
  <2> QED BY <1>4, <1>5, <1>6, <2>1, <2>2 DEF Awaited
<1>14. Stopped'
  <2>1. owed' \subseteq suspended BY <1>2, <1>4, <1>5 DEF Stopped, Awaited
  <2>2. \A t \in Threads : pc[t] \in Carrying \ {"lock"} => Awaited(event[t])'
    BY <1>2, <1>6, <1>13 DEF Stopped, Placed, Awaited
  <2>3. \A i \in 1..(2 * Slots) : Awaited(Cells[i])'
    BY <1>2, <1>7, <1>13 DEF Stopped, Placed, Awaited
  <2>4. Awaited(NoEvent)' BY DEF Awaited
  <2> QED BY <1>1, <1>2, <1>6, <1>7, <2>1, <2>2, <2>3, <2>4 DEF Stopped, Awaited
<1>15. ASSUME NEW e, After(e), Apart(e, buf) \/ Apart(buf, e)
       PROVE  \A i \in DOMAIN told' :
                told'[i] # e /\ (SameStop(told'[i], e) => told'[i].n < e.n)
  <2>1. buf # e /\ ~SameStop(buf, e) BY <1>3, <1>15 DEF Apart, SameStop
  <2> QED BY <1>8, <1>15, <2>1 DEF After
<1>16. Placed'
  <2>1. \A i \in DOMAIN told : told[i] # NoEvent BY <1>0 DEF TypeOK
  <2>2. After(NoEvent) /\ Apart(NoEvent, buf) BY <2>1 DEF After, SameStop, Apart
  <2>3. After(NoEvent)' BY <1>15, <2>2 DEF After
  <2>4. \A i \in 1..(2 * Slots) : After(Cells[i])'
    BY <1>2, <1>7, <1>15 DEF Placed, After
  <2>5. \A t \in Threads : pc[t] \in Carrying => After(event[t])'
    BY <1>2, <1>6, <1>15 DEF Placed, After
  <2>6. \A e : Apart(e, NoEvent) /\ Apart(NoEvent, e) BY DEF Apart
  <2> QED BY <1>1, <1>2, <1>6, <1>7, <2>3, <2>4, <2>5, <2>6 DEF Placed, After
<1>17. ToldInOrder'
  <2>1. SUFFICES ASSUME NEW i \in 1..Len(told'), NEW j \in 1..Len(told'), i < j
                 PROVE  /\ told'[i] # told'[j]
                        /\ told'[i].of = told'[j].of /\ told'[i].kind = "stop"
                           /\ told'[j].kind = "stop" => told'[i].n < told'[j].n
    BY DEF ToldInOrder
  <2>2. i \in DOMAIN told /\ Len(told') = Len(told) + 1 BY <1>4, <1>5, <1>8, <2>1
  <2>3. CASE j \in DOMAIN told BY <1>8, <2>1, <2>2, <2>3 DEF IInv, ToldInOrder
  <2>4. CASE j \notin DOMAIN told
    <3>1. j = Len(told) + 1 BY <1>8, <2>1, <2>2, <2>4
    <3> QED BY <1>2, <1>8, <2>2, <3>1 DEF Placed, After, SameStop
  <2> QED BY <2>3, <2>4
<1>18. Known'
  <2>1. Listening /\ InHand' = InHand BY <1>1, <1>6 DEF Listening, InHand
  <2>2. \A i \in 1..(2 * Slots) : Cells[i] \in Stored'
    BY <1>4, <1>7, StoredNext DEF ToScan
  <2>3. Queued \subseteq Stored' BY <2>2, QueuedCells
  <2>4. Stored \subseteq Stored' \cup {buf} BY <2>2, StoredAt
  <2>5. missed \subseteq Queued \cup {buf} BY <2>1 DEF IInv, Known, Late
  <2>6. buf.kind = "stop" => buf.of \in owed' BY <1>4
  <2>7. \A e \in Heard : e.kind = "stop" => e \in Heard' \/ e.of \in owed'
    BY <1>6, <2>1, <2>3, <2>4, <2>5, <2>6 DEF Heard
  <2>8. owed \subseteq owed' BY <1>4
  <2> QED BY <1>6, <1>20, <2>1, <2>7, <2>8, StillKnown DEF IInv
<1>19. ~Listening' => ~statusPtr' /\ signals' = 0 BY <1>4 DEF Listening
<1> QED BY <1>9, <1>10, <1>11, <1>12, <1>14, <1>16, <1>17, <1>18, <1>19 DEF IInv

LEMMA ContinueStep ==
  ASSUME NoPanics, IInv, NEW t \in Threads, Continue(t)
  PROVE  IInv'
<1> USE Constants, EventShape
<1>0. TypeOK /\ Sound BY DEF IInv
<1>1. frozen = <<>> /\ ~IsFrozen(t) BY <1>0 DEF Sound, IsFrozen
<1>2. /\ agent = "wait" /\ t \in owed /\ owed' = owed \ {t} /\ suspended' = suspended \ {t}
  BY <1>1 DEF Continue
<1>3. /\ raised' = raised /\ slot' = slot /\ event' = event /\ frozen' = frozen /\ lock' = lock
      /\ infoPtr' = infoPtr /\ statusPtr' = statusPtr /\ queue' = queue /\ traces' = traces
      /\ scanAt' = scanAt /\ buf' = buf /\ agent' = agent /\ told' = told /\ signals' = signals
      /\ dropped' = dropped /\ missed' = missed /\ pc' = pc
  BY <1>1 DEF Continue, channelVars, lossVars
<1>4. Cells' = Cells BY <1>3 DEF Cells
<1>5. Handed /\ Filling /\ Stopped /\ Placed BY <1>2 DEF IInv, Listening
<1>6. TypeOK' BY <1>0, <1>2, <1>3 DEF TypeOK
<1>7. Sound'
  <2>1. frozen' = <<>> /\ agent' # "panicked" BY <1>0, <1>3 DEF Sound
  <2> QED BY <1>0, <1>3, <1>4, <2>1, SoundOfAgent
<1>8. Handed' BY <1>3, <1>5 DEF Handed
<1>9. Filling' /\ Placed'
  BY <1>3, <1>4, <1>5 DEF Filling, QueueFor, Placed, After
<1>10. Stopped'
  <2>1. \A e : Awaited(e) => Awaited(e)' BY <1>2 DEF Awaited
  <2> QED BY <1>2, <1>3, <1>4, <1>5, <2>1 DEF Stopped, Awaited
<1>11. ToldInOrder' BY <1>3 DEF IInv, ToldInOrder
<1>12. Known'
  <2>1. Stored' = Stored /\ Queued' = Queued /\ Listening' = Listening
    BY <1>3, SameStored
  <2>2. Heard' = Heard BY <1>3, <2>1 DEF Heard, InHand
  <2>3. ASSUME Listening', NEW u \in suspended'
        PROVE  u \in owed' \/ \E e \in Heard' : e.of = u /\ e.kind = "stop"
    BY <1>2, <2>1, <2>2, <2>3, HeardOf DEF IInv, Known
  <2>4. StopAccounted' BY <2>3, HeardNext
  <2> QED BY <1>3, <2>1, <2>4 DEF IInv, Known, Late
<1>13. ~Listening' => ~statusPtr' /\ signals' = 0 BY <1>2, <1>3 DEF Listening
<1> QED BY <1>6, <1>7, <1>8, <1>9, <1>10, <1>11, <1>12, <1>13 DEF IInv

LEMMA DisconnectStep == ASSUME NoPanics, IInv, Disconnect PROVE IInv'
<1> USE Constants, EventShape
<1>0. TypeOK /\ Sound BY DEF IInv
<1>1. agent' = "cancelled" /\ infoPtr' = FALSE /\ statusPtr' = FALSE /\ signals' = 0
  BY DEF Disconnect
<1>2. /\ raised' = raised /\ slot' = slot /\ event' = event /\ frozen' = frozen /\ lock' = lock
      /\ queue' = queue /\ traces' = traces /\ scanAt' = scanAt /\ buf' = buf /\ told' = told
      /\ dropped' = dropped /\ missed' = missed /\ pc' = pc /\ owed' = owed /\ suspended' = suspended
  BY DEF Disconnect, handlerVars, lossVars
<1>3. Cells' = Cells BY <1>2 DEF Cells
<1>4. ~Listening' BY <1>1 DEF Listening
<1>5. TypeOK' BY <1>0, <1>1, <1>2 DEF TypeOK
<1>6. Sound'
  <2>1. frozen' = <<>> /\ agent' # "panicked" BY <1>0, <1>1, <1>2 DEF Sound
  <2> QED BY <1>0, <1>2, <1>3, <2>1, SoundOfAgent
<1>7. ToldInOrder' BY <1>2 DEF IInv, ToldInOrder
<1> QED BY <1>1, <1>4, <1>5, <1>6, <1>7 DEF IInv, Known, Late, StopAccounted

LEMMA CloseStep == ASSUME NoPanics, IInv, Close PROVE IInv'
<1> USE Constants, EventShape
<1>0. TypeOK /\ Sound BY DEF IInv
<1>1. /\ agent = "cancelled" /\ agent' = "closed" /\ frozen' = <<>>
      /\ queue' = EmptyQueue /\ traces' = EmptyQueue
      /\ pc' = [t \in Threads |-> IF t \in Unfrozen THEN "dead" ELSE pc[t]]
  BY DEF Close
<1>2. /\ raised' = raised /\ slot' = slot /\ event' = event /\ lock' = lock
      /\ infoPtr' = infoPtr /\ statusPtr' = statusPtr /\ scanAt' = scanAt /\ buf' = buf
      /\ told' = told /\ signals' = signals /\ dropped' = dropped /\ missed' = missed /\ owed' = owed
      /\ suspended' = suspended
  BY DEF Close, lossVars
<1>3. Unfrozen = {} BY <1>0 DEF Unfrozen, Sound
<1>4. pc' = pc
  <2>1. pc = [t \in Threads |-> pc[t]] BY <1>0 DEF TypeOK
  <2> QED BY <1>1, <1>3, <2>1
<1>5. ~Listening /\ ~Listening' BY <1>1 DEF Listening
<1>6. TypeOK'
  <2>1. queue' \in [1..Slots -> MaybeEvents] /\ traces' \in [1..Slots -> MaybeEvents]
    BY <1>1 DEF EmptyQueue, MaybeEvents
  <2> QED BY <1>0, <1>1, <1>2, <1>4, <2>1 DEF TypeOK
<1>7. Sound'
  <2>1. \A i \in 1..(2 * Slots) : i <= Slots \/ i - Slots \in 1..Slots OBVIOUS
  <2>2. \A i \in 1..(2 * Slots) : Cells'[i] = NoEvent BY <1>1, <2>1 DEF Cells, EmptyQueue
  <2> QED BY <1>0, <1>1, <1>2, <1>4, <2>2, SoundOfAgent
<1>8. ToldInOrder' BY <1>2 DEF IInv, ToldInOrder
<1> QED BY <1>2, <1>5, <1>6, <1>7, <1>8 DEF IInv, Known, Late, StopAccounted

LEMMA Starts == Init => IInv
<1> SUFFICES ASSUME Init PROVE IInv OBVIOUS
<1> USE Constants, EventShape
<1>1. /\ pc = [t \in Threads |-> "run"] /\ event = [t \in Threads |-> NoEvent]
      /\ slot = [t \in Threads |-> 0] /\ lock = NoThread /\ suspended = {} /\ frozen = <<>>
      /\ infoPtr = FALSE /\ statusPtr = FALSE /\ queue = EmptyQueue /\ traces = EmptyQueue
      /\ agent = "scan" /\ scanAt = 1 /\ buf = NoEvent /\ signals = 0 /\ owed = {}
      /\ raised = 0 /\ told = <<>> /\ dropped = {} /\ missed = {}
  BY DEF Init
<1>2. \A i \in 1..(2 * Slots) : i <= Slots \/ i - Slots \in 1..Slots OBVIOUS
<1>3. \A i \in 1..(2 * Slots) : Cells[i] = NoEvent BY <1>1, <1>2 DEF Cells, EmptyQueue
<1>4. TypeOK
  <2>1. /\ pc \in [Threads -> Steps] /\ event \in [Threads -> MaybeEvents]
        /\ slot \in [Threads -> 0..Slots]
    BY <1>1 DEF Steps, MaybeEvents
  <2>2. queue \in [1..Slots -> MaybeEvents] /\ traces \in [1..Slots -> MaybeEvents]
    BY <1>1 DEF EmptyQueue, MaybeEvents
  <2>3. scanAt \in 1..(2 * Slots) /\ buf \in MaybeEvents /\ raised \in 0..MaxEvents
    BY <1>1 DEF MaybeEvents
  <2>4. infoPtr \in BOOLEAN /\ statusPtr \in BOOLEAN BY <1>1
  <2>5. frozen \in Seq(Threads) /\ told \in Seq(Events) BY <1>1
  <2>6. /\ lock \in Threads \cup {NoThread} /\ suspended \subseteq Threads
        /\ owed \subseteq Threads /\ dropped \subseteq Events /\ missed \subseteq Events
        /\ signals \in {0, 1}
        /\ agent \in {"scan", "store", "storeStatus", "wait", "panicked", "cancelled", "closed"}
    BY <1>1
  <2> QED BY <2>1, <2>2, <2>3, <2>4, <2>5, <2>6 DEF TypeOK
<1>5. Sound BY <1>1, <1>3 DEF Sound, Locked
<1>6. Handed /\ Filling BY <1>1 DEF Handed, Filling
<1>7. Stopped BY <1>1, <1>3 DEF Stopped, Awaited, Carrying
<1>8. Placed BY <1>1, <1>3 DEF Placed, Apart, After, Carrying
<1>9. ToldInOrder /\ Known BY <1>1 DEF ToldInOrder, Known, Late, StopAccounted
<1>10. Listening BY <1>1 DEF Listening
<1> QED BY <1>4, <1>5, <1>6, <1>7, <1>8, <1>9, <1>10 DEF IInv

LEMMA Rests == ASSUME IInv, UNCHANGED vars PROVE IInv'
<1>1. /\ raised' = raised /\ slot' = slot /\ event' = event /\ frozen' = frozen /\ lock' = lock
      /\ infoPtr' = infoPtr /\ statusPtr' = statusPtr /\ queue' = queue /\ traces' = traces
      /\ scanAt' = scanAt /\ buf' = buf /\ agent' = agent /\ told' = told /\ signals' = signals
      /\ dropped' = dropped /\ missed' = missed /\ pc' = pc /\ owed' = owed /\ suspended' = suspended
  BY DEF vars, handlerVars, channelVars, agentVars, lossVars
<1>2. Cells' = Cells BY <1>1 DEF Cells
<1>3. TypeOK' BY <1>1 DEF IInv, TypeOK
<1>4. Sound' BY <1>1, <1>2 DEF IInv, Sound
<1>5. Listening' = Listening BY <1>1 DEF Listening
<1>6. Handed => Handed' BY <1>1 DEF Handed
<1>7. Filling => Filling' BY <1>1 DEF Filling, QueueFor
<1>8. Stopped => Stopped' BY <1>1, <1>2 DEF Stopped, Awaited
<1>9. Placed => Placed' BY <1>1, <1>2 DEF Placed, After
<1>10. ToldInOrder' BY <1>1 DEF IInv, ToldInOrder
<1>11. Known'
  <2>1. InHand' = InHand BY <1>1 DEF InHand
  <2> QED BY <1>1, <2>1, KnownByHandler DEF IInv
<1> QED BY <1>1, <1>3, <1>4, <1>5, <1>6, <1>7, <1>8, <1>9, <1>10, <1>11 DEF IInv

LEMMA Kept == ASSUME NoPanics PROVE IInv /\ [Next]_vars => IInv'
<1> SUFFICES ASSUME IInv, [Next]_vars PROVE IInv' OBVIOUS
<1>1. ASSUME NEW t \in Threads, Raise(t) PROVE IInv' BY <1>1, RaiseStep
<1>2. ASSUME NEW t \in Threads, Handle(t) PROVE IInv'
  BY <1>2, AcquireStep, NotifyStep, WriteStep, ClearStep, CompleteStep, PickStep, FillStep,
     LeaveStep DEF Handle
<1>3. ASSUME NEW t \in Threads, Continue(t) PROVE IInv' BY <1>3, ContinueStep
<1>4. CASE Request
  BY <1>4, ScanFoundStep, ScanEmptyStep, StoreInfoStep, StoreStatusStep, RunStep DEF Request
<1>5. CASE Disconnect \/ Close BY <1>5, DisconnectStep, CloseStep
<1>6. CASE UNCHANGED vars BY <1>6, Rests
<1> QED BY <1>1, <1>2, <1>3, <1>4, <1>5, <1>6 DEF Next

(* The inductive invariant: the lock admits one handler, and that one and  *)
(* the agent hand the buffer to each other.                                *)
THEOREM Invariant == ASSUME NoPanics PROVE Spec => []IInv
<1>1. Init => IInv BY Starts
<1>2. IInv /\ [Next]_vars => IInv' BY Kept
<1> QED BY <1>1, <1>2, PTL DEF Spec

(* NotifyEvent, DoRequest and DoCancel complete the agent's request at     *)
(* most once before RunL consumes the completion (signals \in {0, 1}).     *)
THEOREM TypeCorrect == ASSUME NoPanics PROVE Spec => []TypeOK
<1>1. IInv => TypeOK BY DEF IInv
<1> QED BY <1>1, Invariant, PTL

(* No event is reported twice, and the stops of a thread in their order.   *)
THEOREM ReportedInOrder == ASSUME NoPanics PROVE Spec => []ToldInOrder
<1>1. IInv => ToldInOrder BY DEF IInv
<1> QED BY <1>1, Invariant, PTL

(* A thread that the driver holds has a stop that the host was told of and *)
(* has not answered, or one that an agent which is or will be awake gets;  *)
(* if not, a full queue dropped it, or it came behind the agent's back and *)
(* waits for another event: NotifyEvent and DoRequest lose it in no other  *)
(* way.                                                                    *)
THEOREM EveryStopAccounted == ASSUME NoPanics PROVE Spec => []StopAccounted
<1>1. IInv => StopAccounted BY DEF IInv, Known
<1> QED BY <1>1, Invariant, PTL

(* The agent is never woken with an empty buffer, which would panic it.    *)
THEOREM AgentSurvives == ASSUME NoPanics PROVE Spec => [](agent # "panicked")
<1>1. IInv => agent # "panicked" BY DEF IInv, Sound
<1> QED BY <1>1, Invariant, PTL

===============================================================================
