------------------------- MODULE CoreCrashHandlerProofs -------------------------
(* Proofs about CoreCrashHandler, for any threads, crash logs and          *)
(* formatters, whether or not calls may fail: which crashes are dumped     *)
(* twice, and whether a thread runs while it is read.                      *)
EXTENDS CoreCrashHandler, SequencesExt, WellFoundedInduction, TLAPS

Events == [of : Threads, n : 1..MaxCrashes, kind : {"exc", "kill"}]
Systems == [of : Logs, n : {0}, kind : {"system"}]
Dumps == [crash : Events \cup Systems, by : 0..Formatters]

(* The observer has an event it has not used.                              *)
Fresh == signal \/ step = "observe"
Running == {"up", "dumping", "over"}
(* The handler is not done with the crash in iParams.                      *)
Working == step \in {"start", "finish"} \/ thread \in Running

Typed ==
  /\ life \in [Threads -> {"alive", "exc", "dying", "gone"}] /\ suspended \in SUBSET Threads
  /\ crashNo \in [Threads -> 0..MaxCrashes] /\ crashes \in 0..MaxCrashes
  /\ \A t \in Threads : crashNo[t] <= crashes /\ (life[t] = "exc" => crashNo[t] > 0)
  /\ pending \in Seq(Events) /\ live \in Seq(Events) /\ flash \in Seq(Systems)
  /\ buf \in {NoCrash} \cup Events /\ (Fresh => buf \in Events)
  /\ crash \in {NoCrash} \cup Events \cup Systems
  /\ Working \/ thread = "stale" => crash # NoCrash
  /\ dumping \in {NoCrash} \cup Events \cup Systems /\ dumped \in SUBSET Dumps
  /\ step \in {"idle", "observe", "live", "flash", "start", "finish"}
  /\ step = "live" => live # <<>>
  /\ caller \in {None, "observer", "session", "handler"} /\ after \in {"idle", "flash"}
  /\ tids \in [Threads -> Nat]
  /\ loaded \in 0..Formatters /\ runs \in 0..Formatters /\ formatter \in 0..Formatters
  /\ thread \in {"none", "stale"} \cup Running
  /\ requests \in 0..MaxRequests /\ msg \in 0..MaxRequests
  /\ answered \in SUBSET (1..MaxRequests)

Flags ==
  /\ armed \in BOOLEAN /\ signal \in BOOLEAN /\ cancelled \in BOOLEAN /\ failed \in BOOLEAN
  /\ clobbered \in BOOLEAN /\ mixed \in BOOLEAN
  /\ armed <=> ~signal
  /\ ~clobbered => ~(signal /\ step = "observe")

(* Crashes the handler has accepted, and all there are traces of.          *)
Accepted == ToSet(live) \cup {crash, dumping} \cup {d.crash : d \in dumped}
Traces == Accepted \cup ToSet(pending) \cup {buf}

(* Nothing was dumped for the exception that led to this end.              *)
Apart(e) == \A d \in Traces : d.kind = "exc" => d.n # e.n

Numbered == \A e \in Traces : e.n <= crashes
(* The end of a thread is the last event there is of it.                   *)
Ended == \A e \in Traces : e.kind = "kill" => life[e.of] \in {"dying", "gone"}
OneEnd ==
  /\ \A i, j \in DOMAIN pending :
       pending[i].kind = "kill" /\ pending[j].kind = "kill" /\ i # j
       => pending[i].of # pending[j].of
  /\ Fresh /\ buf.kind = "kill" =>
       \A i \in DOMAIN pending : pending[i].kind = "kill" => pending[i].of # buf.of
(* One that comes after an exception the handler has finished with finds   *)
(* the thread in iTids, and no other end can have taken it from there.     *)
Noticed ==
  /\ \A i \in DOMAIN pending :
       pending[i].kind = "kill" /\ pending[i].of \in Watched /\ tids[pending[i].of] = 0
       => Apart(pending[i])
  /\ Fresh /\ buf.kind = "kill" /\ buf.of \in Watched /\ tids[buf.of] = 0 => Apart(buf)
Spared == \A e \in Accepted : e.kind = "kill" => Apart(e)
Remembered == \A t \in Watched : life[t] = "exc" /\ t \notin suspended => tids[t] > 0

Once == Numbered /\ Ended /\ OneEnd /\ Noticed /\ Spared /\ Remembered

(* Threads that cannot run.                                                *)
Held == suspended \cup {t \in Threads : life[t] = "gone"}

Owners(s) == {s[i].of : i \in DOMAIN s}
Distinct(s) == \A i, j \in DOMAIN s : s[i].of = s[j].of => i = j
Observing == IF Fresh THEN {buf.of} ELSE {}
Handling == IF Working /\ crash.kind # "system" THEN {crash.of} ELSE {}

(* A thread that has crashed is held until the handler is done with the    *)
(* crash, and there is one event of it on the way.                         *)
Holding ==
  /\ Distinct(pending) /\ Distinct(live)
  /\ Owners(pending) \subseteq Held /\ Owners(live) \subseteq Held
  /\ Observing \subseteq Held /\ Handling \subseteq Held
  /\ Owners(pending) \cap Owners(live) = {} /\ Owners(pending) \cap Observing = {}
  /\ Owners(pending) \cap Handling = {} /\ Owners(live) \cap Observing = {}
  /\ Owners(live) \cap Handling = {} /\ Observing \cap Handling = {}

(* No call of the handler runs while a formatter's thread does, and that   *)
(* thread reads what the handler works on.                                 *)
InTurn ==
  /\ step \in {"live", "start", "finish"} \/ runs = 0 => thread \notin Running
  /\ dumping # NoCrash => thread = "dumping" /\ dumping = crash

IInv ==
  /\ Typed /\ Flags
  /\ ~clobbered => Once
  /\ ~mixed => InTurn
  /\ ~clobbered /\ ~mixed => Holding

-----------------------------------------------------------------------------
(* Queues.                                                                 *)

LEMMA Queued ==
  ASSUME NEW S, NEW s \in Seq(S), NEW e \in S
  PROVE  /\ Append(s, e) \in Seq(S) /\ DOMAIN s = 1..Len(s)
         /\ Len(s) \in Nat /\ Len(Append(s, e)) = Len(s) + 1
         /\ DOMAIN Append(s, e) = 1..(Len(s) + 1)
         /\ \A i \in 1..Len(s) : Append(s, e)[i] = s[i]
         /\ Append(s, e)[Len(s) + 1] = e
         /\ ToSet(Append(s, e)) = ToSet(s) \cup {e}
<1>1. /\ Append(s, e) \in Seq(S) /\ DOMAIN s = 1..Len(s) /\ Len(s) \in Nat
      /\ Len(Append(s, e)) = Len(s) + 1 /\ DOMAIN Append(s, e) = 1..(Len(s) + 1)
      /\ \A i \in 1..Len(s) : Append(s, e)[i] = s[i]
      /\ Append(s, e)[Len(s) + 1] = e
  OBVIOUS
<1> DEFINE a == Append(s, e)
<1> HIDE DEF a
<1>2. ToSet(a) = ToSet(s) \cup {e}
  BY <1>1 DEF a, ToSet
<1> QED BY <1>1, <1>2 DEF a

LEMMA Unqueued ==
  ASSUME NEW S, NEW s \in Seq(S), s # <<>>
  PROVE  /\ Tail(s) \in Seq(S) /\ Head(s) \in S /\ Head(s) = s[1] /\ Len(s) \in Nat \ {0}
         /\ DOMAIN s = 1..Len(s) /\ DOMAIN Tail(s) = 1..(Len(s) - 1)
         /\ \A i \in DOMAIN Tail(s) : i + 1 \in DOMAIN s /\ Tail(s)[i] = s[i + 1]
         /\ ToSet(Tail(s)) \subseteq ToSet(s) /\ Head(s) \in ToSet(s)
<1>1. /\ Tail(s) \in Seq(S) /\ Head(s) \in S /\ Head(s) = s[1] /\ Len(s) \in Nat \ {0}
      /\ DOMAIN s = 1..Len(s) /\ DOMAIN Tail(s) = 1..(Len(s) - 1)
      /\ \A i \in 1..(Len(s) - 1) : i + 1 \in 1..Len(s) /\ Tail(s)[i] = s[i + 1]
  OBVIOUS
<1> DEFINE r == Tail(s)
           h == Head(s)
<1> HIDE DEF r, h
<1>2. ToSet(r) \subseteq ToSet(s) /\ h \in ToSet(s)
  BY <1>1 DEF r, h, ToSet
<1> QED BY <1>1, <1>2 DEF r, h

LEMMA OwnersQueued ==
  ASSUME NEW s \in Seq(Events), NEW e \in Events, Distinct(s), e.of \notin Owners(s)
  PROVE  /\ Distinct(Append(s, e))
         /\ Owners(Append(s, e)) = Owners(s) \cup {e.of}
<1> DEFINE a == Append(s, e)
<1>1. /\ DOMAIN s = 1..Len(s) /\ Len(s) \in Nat /\ DOMAIN a = 1..(Len(s) + 1)
      /\ \A i \in 1..Len(s) : a[i] = s[i]
      /\ a[Len(s) + 1] = e
  BY Queued
<1> HIDE DEF a
<1>2. Distinct(a) /\ Owners(a) = Owners(s) \cup {e.of}
  BY <1>1 DEF Distinct, Owners
<1> QED BY <1>2 DEF a

LEMMA OwnersUnqueued ==
  ASSUME NEW s \in Seq(Events), s # <<>>, Distinct(s)
  PROVE  /\ Distinct(Tail(s)) /\ Owners(Tail(s)) \subseteq Owners(s)
         /\ Head(s).of \in Owners(s) /\ Head(s).of \notin Owners(Tail(s))
<1> DEFINE r == Tail(s)
           h == Head(s)
<1>1. /\ h = s[1] /\ Len(s) \in Nat \ {0}
      /\ DOMAIN s = 1..Len(s) /\ DOMAIN r = 1..(Len(s) - 1)
      /\ \A i \in DOMAIN r : i + 1 \in DOMAIN s /\ r[i] = s[i + 1]
  BY Unqueued
<1> HIDE DEF r, h
<1>2. Distinct(r)
  <2> SUFFICES ASSUME NEW i \in DOMAIN r, NEW j \in DOMAIN r, r[i].of = r[j].of PROVE i = j
    BY DEF Distinct
  <2>1. i + 1 = j + 1 BY <1>1 DEF Distinct
  <2> QED BY <1>1, <2>1
<1>3. Owners(r) \subseteq Owners(s) /\ h.of \in Owners(s)
  BY <1>1 DEF Owners
<1>4. h.of \notin Owners(r)
  <2> SUFFICES ASSUME NEW i \in DOMAIN r, r[i].of = h.of PROVE FALSE
    BY DEF Owners
  <2>1. 1 \in DOMAIN s /\ i + 1 \in DOMAIN s /\ s[i + 1].of = s[1].of BY <1>1
  <2>2. i + 1 = 1 BY <2>1 DEF Distinct
  <2> QED BY <1>1, <2>2
<1> QED BY <1>2, <1>3, <1>4 DEF r, h

LEMMA FirstIn ==
  ASSUME NEW S \in SUBSET Nat, S # {}
  PROVE  \E i \in S : \A j \in S : i <= j
<1> DEFINE R == {ss \in Nat \X Nat : ss[1] < ss[2]}
<1>1. IsWellFoundedOn(R, Nat) BY NatLessThanWellFounded DEF OpToRel
<1>2. PICK x \in S : \A y \in S : ~(<<y, x>> \in R)
  <2> HIDE DEF R
  <2> QED BY <1>1, WFMin
<1>3. ASSUME NEW y \in S PROVE x <= y
  <2>1. <<y, x>> \notin R BY <1>2
  <2> QED BY <2>1
<1> QED BY <1>3

(* The loop over the queue of crash logs only takes logs out.              *)
LEMMA KeptSystems ==
  ASSUME flash \in Seq(Systems), NEW l
  PROVE  Kept(l) \in Seq(Systems)
<1> DEFINE N == Len(flash)
           R == Removed(l)
           Is(f, k) == f = [i \in 0..k |-> IF i = 0 THEN <<>>
                                            ELSE IF i \in R THEN f[i - 1]
                                                 ELSE Append(f[i - 1], flash[i])]
           Bad == {k \in 0..N : ~\E f : Is(f, k)}
<1>0. N \in Nat /\ \A i \in 1..N : flash[i] \in Systems OBVIOUS
<1> HIDE DEF N, R
<1>1. Bad = {}
  <2>1. SUFFICES ASSUME Bad # {} PROVE FALSE OBVIOUS
  <2>2. PICK k \in Bad : \A j \in Bad : k <= j
    <3>1. Bad \in SUBSET Nat BY <1>0
    <3> HIDE DEF Bad
    <3> QED BY <2>1, <3>1, FirstIn
  <2>3. k # 0
    <3> DEFINE g == [i \in 0..0 |-> <<>>]
    <3>1. Is(g, 0) BY DEF Is
    <3> QED BY <2>2, <3>1
  <2>4. k - 1 \in 0..N /\ k - 1 \notin Bad
    <3>1. k \in 0..N /\ k - 1 \in 0..N /\ k - 1 < k BY <1>0, <2>2, <2>3
    <3> HIDE DEF Bad
    <3> QED BY <1>0, <2>2, <3>1
  <2>5. PICK f : Is(f, k - 1) BY <2>4
  <2> DEFINE g == [i \in 0..k |-> IF i = k THEN IF k \in R THEN f[k - 1]
                                                ELSE Append(f[k - 1], flash[k])
                                   ELSE f[i]]
  <2>6. k \in Nat /\ k >= 1 BY <1>0, <2>2, <2>3
  <2>7. /\ \A i \in 0..(k - 1) : g[i] = f[i]
        /\ g[k] = IF k \in R THEN f[k - 1] ELSE Append(f[k - 1], flash[k])
    BY <2>6
  <2>8. \A i \in 0..(k - 1) : f[i] = IF i = 0 THEN <<>>
                                      ELSE IF i \in R THEN f[i - 1] ELSE Append(f[i - 1], flash[i])
    BY <2>5, <2>6 DEF Is
  <2>9. \A i \in 0..k : g[i] = IF i = 0 THEN <<>>
                                ELSE IF i \in R THEN g[i - 1] ELSE Append(g[i - 1], flash[i])
    BY <2>6, <2>7, <2>8
  <2>10. g = [i \in 0..k |-> g[i]] OBVIOUS
  <2> HIDE DEF g
  <2>11. Is(g, k) BY <2>9, <2>10
  <2> QED BY <2>2, <2>11
<1>2. PICK f : Is(f, N)
  <2>1. N \notin Bad BY <1>1
  <2> QED BY <1>0, <2>1
<1> DEFINE kept == CHOOSE h : Is(h, N)
<1>3. Is(kept, N) BY <1>2
<1>4. Kept(l) = kept[N] BY DEF Kept, N, R
<1> HIDE DEF kept
<1>5. \A i \in 0..N : kept[i] = IF i = 0 THEN <<>>
                                ELSE IF i \in R THEN kept[i - 1] ELSE Append(kept[i - 1], flash[i])
  BY <1>0, <1>3 DEF Is
<1> DEFINE Odd == {k \in 0..N : kept[k] \notin Seq(Systems)}
<1>6. Odd = {}
  <2>1. SUFFICES ASSUME Odd # {} PROVE FALSE OBVIOUS
  <2>2. PICK k \in Odd : \A j \in Odd : k <= j
    <3>1. Odd \in SUBSET Nat BY <1>0
    <3> HIDE DEF Odd
    <3> QED BY <2>1, <3>1, FirstIn
  <2>3. k \in 0..N /\ kept[k] \notin Seq(Systems) BY <2>2
  <2>4. CASE k = 0
    <3>1. kept[k] = <<>> BY <1>5, <2>3, <2>4
    <3>2. <<>> \in Seq(Systems) OBVIOUS
    <3> QED BY <2>3, <3>1, <3>2
  <2>5. CASE k # 0
    <3>1. k - 1 \in 0..N /\ k - 1 < k /\ k \in 1..N BY <1>0, <2>3, <2>5
    <3>2. kept[k - 1] \in Seq(Systems)
      <4>1. k - 1 \notin Odd
        <5> HIDE DEF Odd
        <5> QED BY <1>0, <2>2, <2>3, <3>1
      <4> QED BY <3>1, <4>1
    <3>3. flash[k] \in Systems BY <1>0, <3>1
    <3>4. Append(kept[k - 1], flash[k]) \in Seq(Systems) BY <3>2, <3>3
    <3> QED BY <1>5, <2>3, <2>5, <3>2, <3>4
  <2> QED BY <2>4, <2>5
<1> QED BY <1>0, <1>4, <1>6

-----------------------------------------------------------------------------
(* Types.                                                                  *)

LEMMA Bounded ==
  /\ Formatters \in Nat /\ MaxCrashes \in Nat /\ MaxRequests \in Nat
  /\ Watched \subseteq Threads /\ Threads \cap Logs = {} /\ None \notin Threads \cup Logs
BY FormattersAssumption, WatchedAssumption, BoundsAssumption, NamesAssumption

LEMMA Kinds ==
  /\ \A e \in Events : /\ e.of \in Threads /\ e.n \in 1..MaxCrashes /\ e.n > 0
                       /\ e.kind \in {"exc", "kill"} /\ e # NoCrash
  /\ \A e \in Systems : e.of \in Logs /\ e.n = 0 /\ e.kind = "system" /\ e # NoCrash
  /\ \A l \in Logs : SystemCrash(l) \in Systems
  /\ NoCrash.of = None /\ NoCrash.n = 0 /\ NoCrash.kind = "none"
<1>1. MaxCrashes \in Nat BY Bounded
<1>2. \A e \in Events : /\ e.of \in Threads /\ e.n \in 1..MaxCrashes
                        /\ e.kind \in {"exc", "kill"}
  BY DEF Events
<1>3. \A e \in Systems : e.of \in Logs /\ e.n = 0 /\ e.kind = "system"
  BY DEF Systems
<1>4. \A l \in Logs : SystemCrash(l) \in Systems
  BY DEF Systems, SystemCrash
<1>5. NoCrash.of = None /\ NoCrash.n = 0 /\ NoCrash.kind = "none"
  BY DEF NoCrash
<1>6. \A e \in Events \cup Systems : e.kind # "none" BY <1>2, <1>3
<1> QED BY <1>1, <1>2, <1>3, <1>4, <1>5, <1>6

LEMMA InitTyped == Init => Typed /\ Flags
<1> SUFFICES ASSUME Init PROVE Typed /\ Flags OBVIOUS
<1>1. Flags
  <2>1. /\ armed = TRUE /\ signal = FALSE /\ cancelled = FALSE /\ failed = FALSE
        /\ clobbered = FALSE /\ mixed = FALSE
    BY DEF Init
  <2> QED BY <2>1 DEF Flags
<1>2. signal = FALSE /\ step = "idle" /\ thread = "none" /\ ~Fresh /\ ~Working
  BY DEF Init, Fresh, Working, Running
<1>3. Typed
  BY <1>2, Bounded DEF Init, Typed, Running
<1> QED BY <1>1, <1>3

(* One step keeps the types: one lemma for each action.                    *)

Answers ==
  /\ requests \in 0..MaxRequests /\ msg \in 0..MaxRequests /\ answered \in SUBSET (1..MaxRequests)
  /\ cancelled \in BOOLEAN /\ failed \in BOOLEAN

LEMMA CompleteTyped ==
  ASSUME Answers, NEW c, Complete(c), requests' = requests, cancelled' = cancelled, failed' = failed
  PROVE  Answers'
<1>1. \/ msg # 0 /\ msg' = 0 /\ answered' = answered \cup {msg}
      \/ msg' = msg /\ answered' = answered
  BY DEF Complete
<1>2. msg' \in 0..MaxRequests /\ answered' \in SUBSET (1..MaxRequests)
  <2>1. MaxRequests \in Nat /\ msg \in 0..MaxRequests /\ answered \in SUBSET (1..MaxRequests)
    BY Bounded DEF Answers
  <2>2. msg # 0 => msg \in 1..MaxRequests BY <2>1
  <2>3. answered' \subseteq 1..MaxRequests
    <3>1. CASE msg # 0 /\ answered' = answered \cup {msg} BY <2>1, <2>2, <3>1, Zenon
    <3>2. CASE answered' = answered BY <2>1, <3>2
    <3> QED BY <1>1, <3>1, <3>2
  <2>4. msg' \in 0..MaxRequests BY <1>1, <2>1
  <2> QED BY <2>3, <2>4
<1> QED BY <1>2 DEF Answers

LEMMA LeaveTyped ==
  ASSUME Answers, NEW c, LeaveTo(c)
  PROVE  Answers'
<1>1. \/ msg # 0 /\ msg' = 0 /\ answered' = answered \cup {msg}
      \/ msg' = msg /\ answered' = answered
  BY DEF Complete, LeaveTo
<1>4. msg' \in 0..MaxRequests /\ answered' \in SUBSET (1..MaxRequests)
  <2>1. MaxRequests \in Nat /\ msg \in 0..MaxRequests /\ answered \in SUBSET (1..MaxRequests)
    BY Bounded DEF Answers
  <2>2. msg # 0 => msg \in 1..MaxRequests BY <2>1
  <2>3. answered' \subseteq 1..MaxRequests
    <3>1. CASE msg # 0 /\ answered' = answered \cup {msg} BY <2>1, <2>2, <3>1, Zenon
    <3>2. CASE answered' = answered BY <2>1, <3>2
    <3> QED BY <1>1, <3>1, <3>2
  <2>4. msg' \in 0..MaxRequests BY <1>1, <2>1
  <2> QED BY <2>3, <2>4
<1>2. failed' = TRUE /\ requests' = requests BY DEF LeaveTo
<1>3. cancelled' = cancelled BY DEF LeaveTo
<1> QED BY <1>2, <1>3, <1>4 DEF Answers

LEMMA RaisedTyped ==
  ASSUME Typed, Flags, NEW t \in Threads, NEW kind \in {"exc", "kill"}, NEW n \in 1..MaxCrashes,
         life' = [life EXCEPT ![t] = IF kind = "exc" THEN "exc" ELSE "dying"], Raised(t, kind, n)
  PROVE  Typed' /\ Flags'
<1>1. /\ suspended' = suspended \cup {t} /\ live' = live /\ flash' = flash /\ tids' = tids
      /\ msg' = msg /\ requests' = requests /\ answered' = answered /\ thread' = thread
      /\ dumping' = dumping /\ dumped' = dumped /\ buf' = buf /\ step' = step
      /\ caller' = caller /\ after' = after /\ runs' = runs /\ crash' = crash
      /\ formatter' = formatter /\ loaded' = loaded
  BY DEF Raised, worldVars, observerVars, queueVars, clientVars, dumpVars
<1>2. /\ armed' = armed /\ signal' = signal /\ clobbered' = clobbered /\ mixed' = mixed
      /\ failed' = failed /\ cancelled' = cancelled
  BY Zenon DEF Raised, worldVars, observerVars, queueVars, clientVars, dumpVars
<1> DEFINE e == [of |-> t, n |-> n, kind |-> kind]
<1>3. e \in Events BY DEF Events
<1>4. pending' \in Seq(Events)
  <2>1. pending' = Append(pending, e) BY DEF Raised
  <2> HIDE DEF e
  <2> QED BY <1>3, <2>1, Queued DEF Typed
<1>5. /\ crashNo' = [crashNo EXCEPT ![t] = n] /\ crashes' = IF n > crashes THEN n ELSE crashes
  BY DEF Raised
<1>6. /\ crashNo' \in [Threads -> 0..MaxCrashes] /\ crashes' \in 0..MaxCrashes
      /\ n <= crashes' /\ crashes <= crashes'
  BY <1>5, Bounded DEF Typed
<1>7. life' \in [Threads -> {"alive", "exc", "dying", "gone"}] BY DEF Typed
<1>8. \A u \in Threads : crashNo'[u] <= crashes' /\ (life'[u] = "exc" => crashNo'[u] > 0)
  <2> TAKE u \in Threads
  <2>1. CASE u = t BY <1>5, <1>6, <2>1 DEF Typed
  <2>2. CASE u # t
    <3>1. crashNo'[u] = crashNo[u] /\ life'[u] = life[u] BY <1>5, <2>2 DEF Typed
    <3>2. crashNo[u] <= crashes /\ (life[u] = "exc" => crashNo[u] > 0) /\ crashNo[u] \in Nat
      BY Bounded DEF Typed
    <3> QED BY <1>6, <3>1, <3>2, Bounded DEF Typed
  <2> QED BY <2>1, <2>2
<1>9. suspended' \in SUBSET Threads BY <1>1 DEF Typed
<1>10. (Fresh' => Fresh) /\ (Working' => Working) BY <1>1, <1>2 DEF Fresh, Working
<1>11. Flags' BY <1>1, <1>2 DEF Flags
<1> HIDE DEF e
<1> QED BY <1>1, <1>4, <1>6, <1>7, <1>8, <1>9, <1>10, <1>11, SMTT(60) DEF Typed

LEMMA ExceptTyped ==
  ASSUME Typed, Flags, NEW t \in Threads, Except(t)
  PROVE  Typed' /\ Flags'
<1>1. /\ life' = [life EXCEPT ![t] = "exc"] /\ crashes < MaxCrashes
      /\ Raised(t, "exc", crashes + 1)
  BY DEF Except
<1>2. crashes + 1 \in 1..MaxCrashes /\ crashes <= crashes + 1 BY <1>1, Bounded DEF Typed
<1> QED BY <1>1, <1>2, RaisedTyped DEF Typed

LEMMA KillTyped ==
  ASSUME Typed, Flags, NEW t \in Threads, Kill(t)
  PROVE  Typed' /\ Flags'
<1>1. life' = [life EXCEPT ![t] = "dying"] BY DEF Kill
<1>2. CASE crashes < MaxCrashes /\ Raised(t, "kill", crashes + 1)
  <2>1. crashes + 1 \in 1..MaxCrashes BY <1>2, Bounded DEF Typed
  <2> QED BY <1>1, <1>2, <2>1, RaisedTyped
<1>3. CASE life[t] = "exc" /\ Raised(t, "kill", crashNo[t])
  <2>1. crashNo[t] \in 1..MaxCrashes BY <1>3, Bounded DEF Typed
  <2> QED BY <1>1, <1>3, <2>1, RaisedTyped
<1> QED BY <1>2, <1>3 DEF Kill

LEMMA RecoverTyped ==
  ASSUME Typed, Flags, NEW t \in Threads, Recover(t)
  PROVE  Typed' /\ Flags'
BY Bounded
DEF Typed, Flags, Working, Fresh, Running,
    Recover, worldVars, observerVars, queueVars, clientVars, dumpVars

LEMMA DieTyped ==
  ASSUME Typed, Flags, NEW t \in Threads, Die(t)
  PROVE  Typed' /\ Flags'
BY Bounded
DEF Typed, Flags, Working, Fresh, Running,
    Die, worldVars, observerVars, queueVars, clientVars, dumpVars

LEMMA DeliverTyped ==
  ASSUME Typed, Flags, Deliver
  PROVE  Typed' /\ Flags'
<1>1. /\ pending # <<>> /\ buf' = Head(pending) /\ pending' = Tail(pending) /\ step' = step
      /\ life' = life /\ suspended' = suspended /\ crashNo' = crashNo /\ crashes' = crashes
      /\ live' = live /\ flash' = flash /\ tids' = tids /\ msg' = msg /\ requests' = requests
      /\ answered' = answered /\ thread' = thread /\ dumping' = dumping /\ dumped' = dumped
      /\ caller' = caller /\ after' = after /\ runs' = runs /\ crash' = crash
      /\ formatter' = formatter /\ loaded' = loaded
  BY DEF Deliver, worldVars, observerVars, queueVars, clientVars, dumpVars
<1>2. /\ armed' = FALSE /\ signal' = TRUE /\ clobbered' = (clobbered \/ step = "observe")
      /\ mixed' = mixed /\ failed' = failed /\ cancelled' = cancelled
  BY Zenon DEF Deliver, worldVars, observerVars, queueVars, clientVars, dumpVars
<1>3. buf' \in Events /\ pending' \in Seq(Events)
  BY <1>1, Unqueued DEF Typed
<1>4. Flags' BY <1>1, <1>2 DEF Flags
<1>5. Working' => Working BY <1>1 DEF Working
<1> QED BY <1>1, <1>3, <1>4, <1>5 DEF Typed

LEMMA ObserveTyped ==
  ASSUME Typed, Flags, Observe
  PROVE  Typed' /\ Flags'
<1>1. /\ step = "idle" /\ step' = "observe" /\ caller' = "observer"
      /\ UNCHANGED <<life, suspended, crashNo, crashes, pending, buf, live, flash, tids>>
      /\ UNCHANGED <<msg, requests, answered, thread, dumping, dumped>>
      /\ UNCHANGED <<after, runs, crash, formatter, loaded>>
  BY DEF Observe, worldVars, observerVars, queueVars, clientVars, dumpVars
<1>2. /\ signal = TRUE /\ signal' = FALSE /\ armed' = TRUE /\ clobbered' = clobbered
      /\ mixed' = mixed /\ failed' = failed /\ cancelled' = cancelled
  BY Zenon DEF Observe, Flags, worldVars, observerVars, queueVars, clientVars, dumpVars
<1>3. buf' \in Events BY <1>1, <1>2 DEF Typed, Fresh
<1>4. Flags' BY <1>1, <1>2 DEF Flags
<1>5. Working' => Working BY <1>1 DEF Working
<1> QED BY <1>1, <1>3, <1>4, <1>5 DEF Typed

LEMMA ObserveGoneTyped ==
  ASSUME Typed, Flags, ObserveGone
  PROVE  Typed' /\ Flags'
BY Bounded
DEF Typed, Flags, Working, Fresh, Running,
    ObserveGone, worldVars, observerVars, queueVars, clientVars, dumpVars

LEMMA ObserveResumeTyped ==
  ASSUME Typed, Flags, ObserveResume
  PROVE  Typed' /\ Flags'
BY SMTT(30), Bounded, Kinds
DEF Typed, Flags, Working, Fresh, Running, Resume, Duplicate,
    ObserveResume, worldVars, observerVars, queueVars, clientVars, dumpVars

LEMMA HandleCrashEventTyped ==
  ASSUME Typed, Flags, HandleCrashEvent
  PROVE  Typed' /\ Flags'
<1>1. /\ step = "observe" /\ live' = Append(live, buf) /\ step' \in {"idle", "live"}
      /\ after' = "idle" /\ UNCHANGED <<life, suspended, crashNo, crashes>>
      /\ UNCHANGED <<pending, buf, flash, tids, msg, requests, answered, thread, dumping, dumped>>
      /\ UNCHANGED <<caller, runs, crash, formatter, loaded>>
  BY DEF HandleCrashEvent, worldVars, observerVars, queueVars, clientVars, dumpVars
<1>2. /\ armed' = armed /\ signal' = signal /\ clobbered' = clobbered
      /\ mixed' = mixed /\ failed' = failed /\ cancelled' = cancelled
  BY Zenon DEF HandleCrashEvent, worldVars, observerVars, queueVars, clientVars, dumpVars
<1>3. buf \in Events BY <1>1 DEF Typed, Fresh
<1>4. live' \in Seq(Events) /\ live' # <<>>
  <2> DEFINE q == Append(live, buf)
  <2>1. q \in Seq(Events) /\ Len(q) = Len(live) + 1 /\ Len(live) \in Nat
    BY <1>3, Queued DEF Typed
  <2> HIDE DEF q
  <2>2. q # <<>> BY <2>1
  <2> QED BY <1>1, <2>1, <2>2 DEF q
<1>5. Flags' BY <1>1, <1>2 DEF Flags
<1>6. (Fresh' => Fresh) /\ (Working' => Working) BY <1>1, <1>2 DEF Fresh, Working
<1> QED BY <1>1, <1>3, <1>4, <1>5, <1>6 DEF Typed

LEMMA ProcessLiveTyped ==
  ASSUME Typed, Flags, ProcessLive
  PROVE  Typed' /\ Flags'
BY Bounded, Kinds, Unqueued
DEF Typed, Flags, Working, Fresh, Running,
    ProcessLive, worldVars, observerVars, queueVars, clientVars, dumpVars

LEMMA ProcessSystemTyped ==
  ASSUME Typed, Flags, ProcessSystem
  PROVE  Typed' /\ Flags'
<1>1. /\ crash' = Head(flash) /\ flash' = Tail(flash) /\ flash # <<>> /\ after' = "idle"
      /\ step' \in {"start", "idle"} /\ step = "flash"
      /\ life' = life /\ suspended' = suspended /\ crashNo' = crashNo /\ crashes' = crashes
      /\ pending' = pending /\ buf' = buf /\ live' = live /\ tids' = tids /\ caller' = caller
      /\ thread' = thread /\ dumping' = dumping /\ dumped' = dumped /\ runs' = runs
      /\ formatter' = formatter /\ loaded' = loaded
  BY DEF ProcessSystem, LeaveTo, worldVars, observerVars, queueVars, clientVars, dumpVars
<1>2. /\ armed' = armed /\ signal' = signal /\ clobbered' = clobbered
      /\ mixed' = (mixed \/ thread \in {"up", "dumping", "over"})
  BY Zenon DEF ProcessSystem, worldVars, observerVars, queueVars, clientVars, dumpVars
<1>3. \/ UNCHANGED clientVars /\ UNCHANGED failed
      \/ LeaveTo(Head(flash))
  BY Zenon DEF ProcessSystem
<1>4. Answers' BY <1>3, LeaveTyped DEF Typed, Flags, Answers, clientVars
<1>5. /\ flash' \in Seq(Systems) /\ crash' \in Systems /\ crash' # NoCrash
  BY <1>1, Kinds, Unqueued DEF Typed
<1>6. Flags' BY <1>1, <1>2, <1>4 DEF Flags, Answers
<1>7. Fresh' => Fresh BY <1>1, <1>2 DEF Fresh
<1> QED BY <1>1, <1>4, <1>5, <1>6, <1>7 DEF Typed, Answers

LEMMA NoSystemTyped ==
  ASSUME Typed, Flags, NoSystem
  PROVE  Typed' /\ Flags'
BY Bounded
DEF Typed, Flags, Working, Fresh, Running,
    NoSystem, worldVars, observerVars, queueVars, clientVars, dumpVars

LEMMA StartFinishTyped ==
  ASSUME Typed, Flags, StartFinish
  PROVE  Typed' /\ Flags'
BY Bounded
DEF Typed, Flags, Working, Fresh, Running,
    StartFinish, worldVars, observerVars, queueVars, clientVars, dumpVars

LEMMA StartThreadTyped ==
  ASSUME Typed, Flags, StartThread
  PROVE  Typed' /\ Flags'
BY Bounded
DEF Typed, Flags, Working, Fresh, Running,
    StartThread, worldVars, observerVars, queueVars, clientVars, dumpVars

LEMMA StartLeaveTyped ==
  ASSUME Typed, Flags, StartLeave
  PROVE  Typed' /\ Flags'
<1>1. /\ formatter' = runs + 1 /\ step' = "idle" /\ step = "start" /\ runs < loaded
      /\ \/ runs' = runs /\ thread' = thread
         \/ runs' = runs + 1 /\ thread' = "stale"
      /\ life' = life /\ suspended' = suspended /\ crashNo' = crashNo /\ crashes' = crashes
      /\ pending' = pending /\ buf' = buf /\ live' = live /\ flash' = flash /\ tids' = tids
      /\ caller' = caller /\ dumping' = dumping /\ dumped' = dumped /\ after' = after
      /\ crash' = crash /\ loaded' = loaded
  BY DEF StartLeave, LeaveTo, worldVars, observerVars, queueVars, clientVars, dumpVars
<1>2. armed' = armed /\ signal' = signal /\ clobbered' = clobbered /\ mixed' = mixed
  BY Zenon DEF StartLeave, worldVars, observerVars, queueVars, clientVars, dumpVars
<1>3. LeaveTo(crash) BY Zenon DEF StartLeave
<1>4. Answers' BY <1>3, LeaveTyped DEF Typed, Flags, Answers
<1>5. Flags' BY <1>1, <1>2, <1>4 DEF Flags, Answers
<1>6. /\ Fresh' => Fresh
      /\ crash # NoCrash
  BY <1>1, <1>2 DEF Fresh, Working, Typed
<1> QED BY <1>1, <1>4, <1>5, <1>6, Bounded DEF Typed, Answers, Running

LEMMA RunNextTyped ==
  ASSUME Typed, Flags, RunNext
  PROVE  Typed' /\ Flags'
<1>1. /\ step' = "start" /\ step = "idle" /\ thread = "over" /\ thread' = "none"
      /\ caller' = "handler" /\ after' = "idle"
      /\ life' = life /\ suspended' = suspended /\ crashNo' = crashNo /\ crashes' = crashes
      /\ pending' = pending /\ buf' = buf /\ live' = live /\ flash' = flash /\ tids' = tids
      /\ dumping' = dumping /\ dumped' = dumped /\ runs' = runs /\ requests' = requests
      /\ crash' = crash /\ formatter' = formatter /\ loaded' = loaded
  BY DEF RunNext, worldVars, observerVars, queueVars, clientVars, dumpVars
<1>2. /\ armed' = armed /\ signal' = signal /\ clobbered' = clobbered /\ mixed' = mixed
      /\ cancelled' = cancelled /\ failed' = failed
  BY Zenon DEF RunNext, worldVars, observerVars, queueVars, clientVars, dumpVars
<1>3. Complete(crash) BY DEF RunNext
<1>4. Answers' BY <1>1, <1>2, <1>3, CompleteTyped DEF Typed, Flags, Answers
<1>5. Flags' BY <1>1, <1>2, <1>4 DEF Flags, Answers
<1>6. /\ Fresh' => Fresh
      /\ crash # NoCrash
  BY <1>1, <1>2 DEF Fresh, Working, Running, Typed
<1> QED BY <1>1, <1>4, <1>5, <1>6 DEF Typed, Answers

LEMMA RunStrayTyped ==
  ASSUME Typed, Flags, RunStray
  PROVE  Typed' /\ Flags'
BY Bounded
DEF Typed, Flags, Working, Fresh, Running,
    RunStray, worldVars, observerVars, queueVars, clientVars, dumpVars

LEMMA FinishTyped ==
  ASSUME Typed, Flags, Finish
  PROVE  Typed' /\ Flags'
<1>1. /\ step = "finish" /\ tids' = Noted /\ after' = "flash" /\ step' \in {"idle", "live", "flash"}
      /\ step' = "live" => live # <<>>
      /\ pending' = pending /\ buf' = buf /\ live' = live /\ flash' = flash
      /\ thread' = thread /\ dumping' = dumping /\ dumped' = dumped /\ caller' = caller
      /\ runs' = runs /\ crash' = crash /\ formatter' = formatter /\ loaded' = loaded
  BY DEF Finish, LeaveTo, worldVars, observerVars, queueVars, clientVars, dumpVars
<1>2. armed' = armed /\ signal' = signal /\ clobbered' = clobbered /\ mixed' = mixed
  BY Zenon DEF Finish, worldVars, observerVars, queueVars, clientVars, dumpVars
<1>3. \/ LeaveTo(crash)
      \/ Complete(crash) /\ requests' = requests /\ cancelled' = cancelled /\ failed' = failed
  BY Zenon DEF Finish
<1>4. Answers' BY <1>3, LeaveTyped, CompleteTyped DEF Typed, Flags, Answers
<1>5. Flags' BY <1>1, <1>2, <1>4 DEF Flags, Answers
<1>6. /\ Fresh' => Fresh
      /\ crash # NoCrash
  BY <1>1, <1>2 DEF Fresh, Working, Typed
<1>7. tids' \in [Threads -> Nat]
  <2>1. crash.kind = "exc" => crash.of \in Threads BY Kinds DEF Typed
  <2> QED BY SMTT(30), <1>1, <2>1 DEF Noted, Typed
<1>8. /\ life' \in [Threads -> {"alive", "exc", "dying", "gone"}]
      /\ suspended' \in SUBSET Threads /\ crashNo' = crashNo /\ crashes' = crashes
      /\ \A t \in Threads : life'[t] = "exc" => life[t] = "exc"
  BY DEF Finish, Resume, worldVars, Typed
<1> QED BY SMTT(30), <1>1, <1>4, <1>5, <1>6, <1>7, <1>8 DEF Typed, Answers

LEMMA DumpTyped ==
  ASSUME Typed, Flags, Dump
  PROVE  Typed' /\ Flags'
BY Bounded
DEF Typed, Flags, Working, Fresh, Running, Dumps,
    Dump, worldVars, observerVars, queueVars, clientVars, dumpVars

LEMMA ExitTyped ==
  ASSUME Typed, Flags, Exit
  PROVE  Typed' /\ Flags'
BY Bounded
DEF Typed, Flags, Working, Fresh, Running,
    Exit, worldVars, observerVars, queueVars, clientVars, dumpVars

LEMMA PluginRequestTyped ==
  ASSUME Typed, Flags, PluginRequest
  PROVE  Typed' /\ Flags'
BY Bounded
DEF Typed, Flags, Working, Fresh, Running,
    PluginRequest, worldVars, observerVars, queueVars, clientVars, dumpVars

LEMMA ProcessCrashLogTyped ==
  ASSUME Typed, Flags, NEW l \in Logs, ProcessCrashLog(l)
  PROVE  Typed' /\ Flags'
BY Bounded, Kinds, Queued
DEF Typed, Flags, Working, Fresh, Running,
    ProcessCrashLog, worldVars, observerVars, queueVars, clientVars, dumpVars

LEMMA CancelProcessCrashLogTyped ==
  ASSUME Typed, Flags, NEW l \in Logs, CancelProcessCrashLog(l)
  PROVE  Typed' /\ Flags'
BY Bounded, KeptSystems
DEF Typed, Flags, Working, Fresh, Running,
    CancelProcessCrashLog, worldVars, observerVars, queueVars, clientVars, dumpVars

-----------------------------------------------------------------------------
(* The handler and the formatter's thread take turns.                      *)

LEMMA InTurnTakes ==
  ASSUME Typed, InTurn, Next, ~mixed'
  PROVE  InTurn'
<1> USE DEF InTurn, Running, worldVars, observerVars, queueVars, clientVars, dumpVars
<1>1. Formatters \in Nat BY Bounded
<1>2. ASSUME NEW t \in Threads, Except(t) \/ Kill(t) \/ Recover(t) \/ Die(t) PROVE InTurn'
  BY <1>2 DEF Except, Kill, Recover, Die, Raised
<1>3. CASE Deliver
  BY <1>3 DEF Deliver
<1>4. CASE Observe
  BY <1>4 DEF Observe
<1>5. CASE ObserveGone
  BY <1>5 DEF ObserveGone
<1>6. CASE ObserveResume
  BY <1>6 DEF ObserveResume
<1>7. CASE HandleCrashEvent
  BY <1>7, <1>1 DEF HandleCrashEvent, Typed
<1>8. CASE ProcessLive
  BY <1>8 DEF ProcessLive
<1>9. CASE ProcessSystem
  <2>1. /\ step' \in {"start", "idle"} /\ step = "flash"
        /\ thread' = thread /\ dumping' = dumping /\ runs' = runs
    BY <1>9 DEF ProcessSystem, LeaveTo
  <2>2. mixed' = (mixed \/ thread \in {"up", "dumping", "over"})
    BY <1>9, Zenon DEF ProcessSystem
  <2>3. thread \notin Running BY <2>2
  <2> QED BY <2>1, <2>3
<1>10. CASE NoSystem
  BY <1>10 DEF NoSystem
<1>11. CASE StartFinish
  BY <1>11 DEF StartFinish
<1>12. CASE StartThread
  BY <1>12, <1>1 DEF StartThread, Typed
<1>13. CASE StartLeave
  BY <1>13, <1>1 DEF StartLeave, Typed, LeaveTo
<1>14. CASE RunNext
  BY <1>14 DEF RunNext
<1>15. CASE RunStray
  BY <1>15 DEF RunStray
<1>16. CASE Finish
  BY <1>16 DEF Finish
<1>17. CASE Dump
  BY <1>17 DEF Dump
<1>18. CASE Exit
  BY <1>18 DEF Exit
<1>19. CASE PluginRequest
  BY <1>19 DEF PluginRequest
<1>20. ASSUME NEW l \in Logs, ProcessCrashLog(l) \/ CancelProcessCrashLog(l) PROVE InTurn'
  BY <1>20 DEF ProcessCrashLog, CancelProcessCrashLog
<1> QED
  BY <1>2, <1>3, <1>4, <1>5, <1>6, <1>7, <1>8, <1>9, <1>10, <1>11, <1>12, <1>13,
     <1>14, <1>15, <1>16, <1>17, <1>18, <1>19, <1>20
  DEF Next, World, Server, Client

(* What has gone wrong once stays noted.                                   *)
LEMMA NotUndone ==
  ASSUME Next
  PROVE  (~clobbered' => ~clobbered) /\ (~mixed' => ~mixed)
<1> USE DEF worldVars, observerVars, queueVars, clientVars, dumpVars
<1>1. ~clobbered' => ~clobbered
  BY Zenon DEF Next, World, Deliver, Server, Client, Except, Kill, Recover, Die, Raised, Observe,
     ObserveGone, ObserveResume, HandleCrashEvent, ProcessLive, ProcessSystem, NoSystem,
     StartFinish, StartThread, StartLeave, RunNext, RunStray, Finish, Dump, Exit, PluginRequest,
     ProcessCrashLog, CancelProcessCrashLog
<1>2. ~mixed' => ~mixed
  BY Zenon DEF Next, World, Deliver, Server, Client, Except, Kill, Recover, Die, Raised, Observe,
     ObserveGone, ObserveResume, HandleCrashEvent, ProcessLive, ProcessSystem, NoSystem,
     StartFinish, StartThread, StartLeave, RunNext, RunStray, Finish, Dump, Exit, PluginRequest,
     ProcessCrashLog, CancelProcessCrashLog
<1> QED BY <1>1, <1>2

-----------------------------------------------------------------------------
(* Crashed threads are held.                                               *)

LEMMA Stays ==
  ASSUME Holding, pending' = pending, live' = live, Held \subseteq Held',
         Observing' \subseteq Observing, Handling' \subseteq Handling
  PROVE  Holding'
<1>1. Owners(pending') = Owners(pending) /\ Owners(live') = Owners(live) OBVIOUS
<1>2. Distinct(pending') /\ Distinct(live') BY DEF Holding
<1> QED BY <1>1, <1>2 DEF Holding

(* Steps that leave the threads and the queues of live crashes alone.      *)
LEMMA Quiet ==
  ASSUME Holding, life' = life, suspended' = suspended, pending' = pending, live' = live,
         buf' = buf, Fresh' => Fresh,
         \/ crash' = crash /\ (Working' => Working)
         \/ crash'.kind = "system"
         \/ ~Working'
  PROVE  Holding'
<1>1. Held' = Held BY DEF Held
<1>2. Observing' \subseteq Observing BY DEF Observing
<1>3. Handling' \subseteq Handling BY DEF Handling
<1> QED BY <1>1, <1>2, <1>3, Stays

(* A thread that runs is in none of the queues; its crash is the only one  *)
(* there is of it.                                                         *)
LEMMA RaisedHeld ==
  ASSUME Typed, Holding, NEW t \in Threads, t \notin suspended, life[t] # "gone",
         NEW kind \in {"exc", "kill"}, NEW n \in 1..MaxCrashes,
         \A u \in Threads : life[u] = "gone" => life'[u] = "gone",
         Raised(t, kind, n)
  PROVE  Holding'
<1> USE DEF worldVars, observerVars, queueVars, clientVars, dumpVars
<1> DEFINE e == [of |-> t, n |-> n, kind |-> kind]
<1>1. e \in Events /\ e.of = t BY DEF Events
<1>2. pending' = Append(pending, e) BY DEF Raised
<1> HIDE DEF e
<1>3. suspended' = suspended \cup {t} /\ live' = live BY DEF Raised
<1>4. Observing' = Observing /\ Handling' = Handling
  <2>1. buf' = buf /\ step' = step /\ thread' = thread /\ crash' = crash BY DEF Raised
  <2>2. signal' = signal BY Zenon DEF Raised
  <2> QED BY <2>1, <2>2 DEF Observing, Handling, Fresh, Working
<1>5. t \notin Held /\ Held \subseteq Held' /\ t \in Held' BY <1>3 DEF Held
<1>6. t \notin Owners(pending) BY <1>5 DEF Holding
<1>7. Distinct(pending') /\ Owners(pending') = Owners(pending) \cup {t}
  <2>1. pending \in Seq(Events) /\ Distinct(pending) BY DEF Typed, Holding
  <2> QED BY <1>1, <1>2, <1>6, <2>1, OwnersQueued
<1>8. Owners(live') = Owners(live) /\ (Distinct(live'))
  BY <1>3 DEF Holding
<1> QED BY <1>4, <1>5, <1>7, <1>8 DEF Holding

LEMMA DeliverHeld ==
  ASSUME Typed, Holding, Deliver, ~clobbered'
  PROVE  Holding'
<1> USE DEF worldVars, observerVars, queueVars, clientVars, dumpVars
<1>1. /\ pending # <<>> /\ pending' = Tail(pending) /\ buf' = Head(pending) /\ live' = live
      /\ life' = life /\ suspended' = suspended /\ step' = step /\ thread' = thread
      /\ crash' = crash
  BY DEF Deliver
<1>2. /\ Distinct(pending') /\ Owners(pending') \subseteq Owners(pending)
      /\ buf'.of \in Owners(pending) /\ buf'.of \notin Owners(pending')
  <2>1. pending \in Seq(Events) /\ Distinct(pending) BY DEF Typed, Holding
  <2> QED BY <1>1, <2>1, OwnersUnqueued
<1>3. Held' = Held /\ Handling' = Handling BY <1>1 DEF Held, Handling, Working
<1>4. Observing' \subseteq {buf'.of} BY DEF Observing
<1>5. Owners(live') = Owners(live) /\ (Distinct(live')) BY <1>1 DEF Holding
<1> QED BY <1>2, <1>3, <1>4, <1>5 DEF Holding

LEMMA ObserveResumeHeld ==
  ASSUME Typed, Flags, Holding, ObserveResume, ~clobbered
  PROVE  Holding'
<1> USE DEF worldVars, observerVars, queueVars, clientVars, dumpVars
<1>1. /\ step = "observe" /\ step' = "idle" /\ pending' = pending /\ live' = live
      /\ thread' = thread /\ crash' = crash /\ Resume(buf.of)
  BY DEF ObserveResume
<1>2. signal' = signal BY Zenon DEF ObserveResume
<1>3. ~Fresh' /\ Fresh BY <1>1, <1>2 DEF Flags, Fresh
<1>4. Observing' = {} /\ Observing = {buf.of} BY <1>3 DEF Observing
<1>5. Handling' \subseteq Handling BY <1>1 DEF Handling, Working
<1>6. \A u \in Held : u # buf.of => u \in Held'
  <2>1. \A u \in Threads : life[u] = "gone" => life'[u] = "gone"
    BY <1>1 DEF Resume, Typed
  <2> QED BY <1>1, <2>1 DEF Held, Resume
<1>7. Owners(pending') = Owners(pending) /\ Owners(live') = Owners(live) BY <1>1
<1>8. Distinct(pending') /\ Distinct(live') BY <1>1 DEF Holding
<1> QED BY <1>4, <1>5, <1>6, <1>7, <1>8 DEF Holding

LEMMA HandleCrashEventHeld ==
  ASSUME Typed, Flags, Holding, HandleCrashEvent, ~clobbered
  PROVE  Holding'
<1> USE DEF worldVars, observerVars, queueVars, clientVars, dumpVars
<1>1. /\ step = "observe" /\ step' \in {"idle", "live"} /\ pending' = pending
      /\ live' = Append(live, buf) /\ life' = life /\ suspended' = suspended
      /\ thread' = thread /\ crash' = crash
  BY DEF HandleCrashEvent
<1>2. signal' = signal BY Zenon DEF HandleCrashEvent
<1>3. ~Fresh' /\ Fresh BY <1>1, <1>2 DEF Flags, Fresh
<1>4. Observing' = {} /\ Observing = {buf.of} BY <1>3 DEF Observing
<1>5. Handling' \subseteq Handling /\ Held' = Held BY <1>1 DEF Handling, Working, Held
<1>6. Distinct(live') /\ Owners(live') = Owners(live) \cup {buf.of}
  <2>1. live \in Seq(Events) /\ buf \in Events /\ Distinct(live) /\ buf.of \notin Owners(live)
    BY <1>3, <1>4 DEF Typed, Holding
  <2> QED BY <1>1, <2>1, OwnersQueued
<1>7. Owners(pending') = Owners(pending) /\ (Distinct(pending')) BY <1>1 DEF Holding
<1> QED BY <1>4, <1>5, <1>6, <1>7 DEF Holding

LEMMA ProcessLiveHeld ==
  ASSUME Typed, InTurn, Holding, ProcessLive
  PROVE  Holding'
<1> USE DEF worldVars, observerVars, queueVars, clientVars, dumpVars
<1>1. /\ step = "live" /\ step' = "start" /\ pending' = pending /\ buf' = buf
      /\ crash' = Head(live) /\ live' = Tail(live) /\ life' = life /\ suspended' = suspended
  BY DEF ProcessLive
<1>2. signal' = signal BY Zenon DEF ProcessLive
<1>3. Observing' \subseteq Observing /\ Held' = Held BY <1>1, <1>2 DEF Observing, Fresh, Held
<1>4. /\ Distinct(live') /\ Owners(live') \subseteq Owners(live)
      /\ crash'.of \in Owners(live) /\ crash'.of \notin Owners(live')
  <2>1. live \in Seq(Events) /\ live # <<>> /\ Distinct(live) BY <1>1 DEF Typed, Holding
  <2> QED BY <1>1, <2>1, OwnersUnqueued
<1>5. Handling' \subseteq {crash'.of} BY DEF Handling
<1>6. Owners(pending') = Owners(pending) /\ (Distinct(pending')) BY <1>1 DEF Holding
<1> QED BY <1>3, <1>4, <1>5, <1>6 DEF Holding

LEMMA FinishHeld ==
  ASSUME Typed, InTurn, Holding, Finish
  PROVE  Holding'
<1> USE DEF worldVars, observerVars, queueVars, clientVars, dumpVars
<1>1. /\ step = "finish" /\ step' \in {"idle", "live", "flash"} /\ pending' = pending
      /\ live' = live /\ buf' = buf /\ crash' = crash /\ thread' = thread
  BY DEF Finish, LeaveTo
<1>2. signal' = signal BY Zenon DEF Finish
<1>3. ~Working' BY <1>1 DEF InTurn, Working
<1>4. Handling' = {} /\ Observing' \subseteq Observing
  BY <1>1, <1>2, <1>3 DEF Handling, Observing, Fresh
<1>5. CASE UNCHANGED worldVars
  <2>1. Held' = Held BY <1>5 DEF Held, worldVars
  <2> QED BY <1>1, <1>4, <2>1, Stays
<1>6. CASE crash.kind # "system" /\ Resume(crash.of)
  <2>1. Handling = {crash.of} BY <1>1, <1>6 DEF Handling, Working
  <2>2. \A u \in Held : u # crash.of => u \in Held'
    <3>1. \A u \in Threads : life[u] = "gone" => life'[u] = "gone"
      BY <1>6 DEF Resume, Typed
    <3> QED BY <1>6, <3>1 DEF Held, Resume
  <2>3. Owners(pending') = Owners(pending) /\ Owners(live') = Owners(live) BY <1>1
  <2>4. Distinct(pending') /\ Distinct(live') BY <1>1 DEF Holding
  <2> QED BY <1>4, <2>1, <2>2, <2>3, <2>4 DEF Holding
<1> QED BY <1>5, <1>6 DEF Finish

LEMMA CrashesAreHeld ==
  ASSUME Typed, Flags, InTurn, Holding, Next, ~clobbered', ~mixed'
  PROVE  Holding'
<1> USE DEF worldVars, observerVars, queueVars, clientVars, dumpVars
<1>1. ~clobbered BY NotUndone
<1>2. ASSUME NEW t \in Threads, Except(t) PROVE Holding'
  <2>1. /\ life[t] = "alive" /\ t \notin suspended /\ life' = [life EXCEPT ![t] = "exc"]
        /\ Raised(t, "exc", crashes + 1) /\ crashes < MaxCrashes
    BY <1>2 DEF Except
  <2>2. \A u \in Threads : life[u] = "gone" => life'[u] = "gone" BY <2>1 DEF Typed
  <2>3. crashes + 1 \in 1..MaxCrashes BY <2>1, Bounded DEF Typed
  <2> QED BY <2>1, <2>2, <2>3, RaisedHeld
<1>3. ASSUME NEW t \in Threads, Kill(t) PROVE Holding'
  <2>1. /\ life[t] \in {"alive", "exc"} /\ t \notin suspended
        /\ life' = [life EXCEPT ![t] = "dying"]
    BY <1>3 DEF Kill
  <2>2. \A u \in Threads : life[u] = "gone" => life'[u] = "gone" BY <2>1 DEF Typed
  <2>3. PICK n \in 1..MaxCrashes : Raised(t, "kill", n)
    <3>1. CASE crashes < MaxCrashes /\ Raised(t, "kill", crashes + 1)
      <4>1. crashes + 1 \in 1..MaxCrashes BY <3>1, Bounded DEF Typed
      <4> QED BY <3>1, <4>1
    <3>2. CASE life[t] = "exc" /\ Raised(t, "kill", crashNo[t])
      <4>1. crashNo[t] \in 1..MaxCrashes BY <3>2, Bounded DEF Typed
      <4> QED BY <3>2, <4>1
    <3> QED BY <1>3, <3>1, <3>2 DEF Kill
  <2> QED BY <2>1, <2>2, <2>3, RaisedHeld
<1>4. ASSUME NEW t \in Threads, Recover(t) \/ Die(t) PROVE Holding'
  <2>1. /\ pending' = pending /\ live' = live /\ buf' = buf /\ crash' = crash /\ step' = step
        /\ thread' = thread
    BY <1>4 DEF Recover, Die
  <2>2. signal' = signal BY <1>4, Zenon DEF Recover, Die
  <2>3. Observing' = Observing /\ Handling' = Handling
    BY <2>1, <2>2 DEF Observing, Handling, Fresh, Working
  <2>4. Held \subseteq Held'
    <3>1. CASE Recover(t) BY <3>1 DEF Recover, Held, Typed
    <3>2. CASE Die(t) BY <3>2 DEF Die, Held, Typed
    <3> QED BY <1>4, <3>1, <3>2
  <2> QED BY <2>1, <2>3, <2>4, Stays
<1>5. CASE Deliver BY <1>5, DeliverHeld
<1>6. CASE ObserveResume BY <1>1, <1>6, ObserveResumeHeld
<1>7. CASE HandleCrashEvent BY <1>1, <1>7, HandleCrashEventHeld
<1>8. CASE ProcessLive BY <1>8, ProcessLiveHeld
<1>9. CASE Finish BY <1>9, FinishHeld
<1>10. CASE RunStray
  <2>1. FALSE BY <1>10 DEF RunStray, InTurn, Running
  <2> QED BY <2>1
<1>11. CASE Observe
  <2>1. /\ life' = life /\ suspended' = suspended /\ pending' = pending /\ live' = live
        /\ buf' = buf /\ crash' = crash
    BY <1>11 DEF Observe
  <2>2. Fresh' => Fresh BY <1>11 DEF Observe, Fresh
  <2>3. Working' => Working BY <1>11 DEF Observe, Working, Running
  <2> QED BY <2>1, <2>2, <2>3, Quiet
<1>12. CASE ObserveGone
  <2>1. /\ life' = life /\ suspended' = suspended /\ pending' = pending /\ live' = live
        /\ buf' = buf /\ crash' = crash
    BY <1>12 DEF ObserveGone
  <2>2. Fresh' => Fresh
    <3>1. signal' = signal BY <1>12, Zenon DEF ObserveGone
    <3>2. step' # "observe" \/ step' = step BY <1>12 DEF ObserveGone
    <3> QED BY <3>1, <3>2 DEF Fresh
  <2>3. Working' => Working BY <1>12 DEF ObserveGone, Working, Running
  <2> QED BY <2>1, <2>2, <2>3, Quiet
<1>13. CASE NoSystem
  <2>1. /\ life' = life /\ suspended' = suspended /\ pending' = pending /\ live' = live
        /\ buf' = buf /\ crash' = crash
    BY <1>13 DEF NoSystem
  <2>2. Fresh' => Fresh
    <3>1. signal' = signal BY <1>13, Zenon DEF NoSystem
    <3>2. step' # "observe" \/ step' = step BY <1>13 DEF NoSystem
    <3> QED BY <3>1, <3>2 DEF Fresh
  <2>3. Working' => Working BY <1>13 DEF NoSystem, Working, Running
  <2> QED BY <2>1, <2>2, <2>3, Quiet
<1>14. CASE StartFinish
  <2>1. /\ life' = life /\ suspended' = suspended /\ pending' = pending /\ live' = live
        /\ buf' = buf /\ crash' = crash
    BY <1>14 DEF StartFinish
  <2>2. Fresh' => Fresh
    <3>1. signal' = signal BY <1>14, Zenon DEF StartFinish
    <3>2. step' # "observe" \/ step' = step BY <1>14 DEF StartFinish
    <3> QED BY <3>1, <3>2 DEF Fresh
  <2>3. Working' => Working BY <1>14 DEF StartFinish, Working, Running
  <2> QED BY <2>1, <2>2, <2>3, Quiet
<1>15. CASE StartThread
  <2>1. /\ life' = life /\ suspended' = suspended /\ pending' = pending /\ live' = live
        /\ buf' = buf /\ crash' = crash
    BY <1>15 DEF StartThread
  <2>2. Fresh' => Fresh
    <3>1. signal' = signal BY <1>15, Zenon DEF StartThread
    <3>2. step' # "observe" \/ step' = step BY <1>15 DEF StartThread, Typed
    <3> QED BY <3>1, <3>2 DEF Fresh
  <2>3. Working' => Working BY <1>15 DEF StartThread, Working, Running, Typed
  <2> QED BY <2>1, <2>2, <2>3, Quiet
<1>16. CASE RunNext
  <2>1. /\ life' = life /\ suspended' = suspended /\ pending' = pending /\ live' = live
        /\ buf' = buf /\ crash' = crash
    BY <1>16 DEF RunNext
  <2>2. Fresh' => Fresh
    <3>1. signal' = signal BY <1>16, Zenon DEF RunNext
    <3>2. step' # "observe" \/ step' = step BY <1>16 DEF RunNext
    <3> QED BY <3>1, <3>2 DEF Fresh
  <2>3. Working' => Working BY <1>16 DEF RunNext, Working, Running
  <2> QED BY <2>1, <2>2, <2>3, Quiet
<1>17. CASE Dump
  <2>1. /\ life' = life /\ suspended' = suspended /\ pending' = pending /\ live' = live
        /\ buf' = buf /\ crash' = crash
    BY <1>17 DEF Dump
  <2>2. Fresh' => Fresh
    <3>1. signal' = signal BY <1>17, Zenon DEF Dump
    <3>2. step' # "observe" \/ step' = step BY <1>17 DEF Dump
    <3> QED BY <3>1, <3>2 DEF Fresh
  <2>3. Working' => Working BY <1>17 DEF Dump, Working, Running
  <2> QED BY <2>1, <2>2, <2>3, Quiet
<1>18. CASE Exit
  <2>1. /\ life' = life /\ suspended' = suspended /\ pending' = pending /\ live' = live
        /\ buf' = buf /\ crash' = crash
    BY <1>18 DEF Exit
  <2>2. Fresh' => Fresh
    <3>1. signal' = signal BY <1>18, Zenon DEF Exit
    <3>2. step' # "observe" \/ step' = step BY <1>18 DEF Exit
    <3> QED BY <3>1, <3>2 DEF Fresh
  <2>3. Working' => Working BY <1>18 DEF Exit, Working, Running
  <2> QED BY <2>1, <2>2, <2>3, Quiet
<1>19. CASE PluginRequest
  <2>1. /\ life' = life /\ suspended' = suspended /\ pending' = pending /\ live' = live
        /\ buf' = buf /\ crash' = crash
    BY <1>19 DEF PluginRequest
  <2>2. Fresh' => Fresh
    <3>1. signal' = signal BY <1>19, Zenon DEF PluginRequest
    <3>2. step' # "observe" \/ step' = step BY <1>19 DEF PluginRequest
    <3> QED BY <3>1, <3>2 DEF Fresh
  <2>3. Working' => Working BY <1>19 DEF PluginRequest, Working, Running
  <2> QED BY <2>1, <2>2, <2>3, Quiet
<1>20. ASSUME NEW l \in Logs, ProcessCrashLog(l) PROVE Holding'
  <2>1. /\ life' = life /\ suspended' = suspended /\ pending' = pending /\ live' = live
        /\ buf' = buf /\ crash' = crash
    BY <1>20 DEF ProcessCrashLog
  <2>2. Fresh' => Fresh
    <3>1. signal' = signal BY <1>20, Zenon DEF ProcessCrashLog
    <3>2. step' # "observe" \/ step' = step BY <1>20 DEF ProcessCrashLog
    <3> QED BY <3>1, <3>2 DEF Fresh
  <2>3. Working' => Working BY <1>20 DEF ProcessCrashLog, Working, Running
  <2> QED BY <2>1, <2>2, <2>3, Quiet
<1>21. ASSUME NEW l \in Logs, CancelProcessCrashLog(l) PROVE Holding'
  <2>1. /\ life' = life /\ suspended' = suspended /\ pending' = pending /\ live' = live
        /\ buf' = buf /\ crash' = crash
    BY <1>21 DEF CancelProcessCrashLog
  <2>2. Fresh' => Fresh
    <3>1. signal' = signal BY <1>21, Zenon DEF CancelProcessCrashLog
    <3>2. step' # "observe" \/ step' = step BY <1>21 DEF CancelProcessCrashLog
    <3> QED BY <3>1, <3>2 DEF Fresh
  <2>3. Working' => Working BY <1>21 DEF CancelProcessCrashLog, Working, Running
  <2> QED BY <2>1, <2>2, <2>3, Quiet
<1>22. CASE StartLeave
  <2>1. /\ life' = life /\ suspended' = suspended /\ pending' = pending /\ live' = live
        /\ buf' = buf /\ crash' = crash
    BY <1>22 DEF StartLeave, LeaveTo
  <2>2. Fresh' => Fresh
    <3>1. signal' = signal BY <1>22, Zenon DEF StartLeave
    <3>2. step' # "observe" \/ step' = step BY <1>22 DEF StartLeave, LeaveTo
    <3> QED BY <3>1, <3>2 DEF Fresh
  <2>3. Working' => Working BY <1>22 DEF StartLeave, LeaveTo, Working, Running
  <2> QED BY <2>1, <2>2, <2>3, Quiet
<1>23. CASE ProcessSystem
  <2>1. /\ life' = life /\ suspended' = suspended /\ pending' = pending /\ live' = live
        /\ buf' = buf /\ crash' = Head(flash) /\ flash # <<>>
    BY <1>23 DEF ProcessSystem, LeaveTo
  <2>2. Fresh' => Fresh
    <3>1. signal' = signal BY <1>23, Zenon DEF ProcessSystem
    <3>2. step' # "observe" \/ step' = step BY <1>23 DEF ProcessSystem, LeaveTo
    <3> QED BY <3>1, <3>2 DEF Fresh
  <2>3. crash'.kind = "system" BY <2>1, Kinds, Unqueued DEF Typed
  <2> QED BY <2>1, <2>2, <2>3, Quiet
<1> QED
  BY <1>2, <1>3, <1>4, <1>5, <1>6, <1>7, <1>8, <1>9, <1>10, <1>11, <1>12, <1>13,
     <1>14, <1>15, <1>16, <1>17, <1>18, <1>19, <1>20, <1>21, <1>22, <1>23
  DEF Next, World, Server, Client

-----------------------------------------------------------------------------
(* No end is dumped after the exception it came from.                       *)

LEMMA TracesTyped ==
  ASSUME Typed
  PROVE  /\ Traces \subseteq {NoCrash} \cup Events \cup Systems /\ Accepted \subseteq Traces
         /\ \A e \in Traces : e.n \in Nat /\ (e.kind \in {"exc", "kill"} => e \in Events)
<1>1. /\ \A e \in ToSet(live) \cup ToSet(pending) : e \in Events
      /\ \A d \in dumped : d.crash \in Events \cup Systems
  BY DEF Typed, ToSet, Dumps
<1>2. Traces \subseteq {NoCrash} \cup Events \cup Systems /\ Accepted \subseteq Traces
  BY <1>1 DEF Traces, Accepted, Typed
<1> QED BY <1>2, Kinds, Bounded

(* Steps that deliver and accept nothing.                                  *)
LEMMA OnceStays ==
  ASSUME Typed, Once, crashes' = crashes, pending' = pending, buf' = buf, Fresh' => Fresh,
         \A e \in Accepted' : e \in Accepted \/ (e.kind \notin {"exc", "kill"} /\ e.n = 0),
         \A t \in Threads : life[t] \in {"dying", "gone"} => life'[t] \in {"dying", "gone"},
         \A t \in Threads : tids'[t] = 0 => tids[t] = 0,
         Remembered'
  PROVE  Once'
<1>1. \A e \in Traces' : e \in Traces \/ (e.kind \notin {"exc", "kill"} /\ e.n = 0)
  BY DEF Traces
<1>2. \A e : Apart(e) => Apart(e)' BY <1>1 DEF Apart
<1>3. Numbered' BY <1>1, Bounded DEF Once, Numbered, Typed
<1>4. Ended' BY <1>1, TracesTyped, Kinds DEF Once, Ended
<1>5. OneEnd' BY DEF Once, OneEnd
<1>6. Noticed'
  <2>1. \A i \in DOMAIN pending : pending[i].of \in Threads BY Kinds DEF Typed
  <2>2. Fresh => buf.of \in Threads BY Kinds DEF Typed
  <2> QED BY <1>2, <2>1, <2>2 DEF Once, Noticed
<1>7. Spared' BY <1>2 DEF Once, Spared
<1> QED BY <1>3, <1>4, <1>5, <1>6, <1>7 DEF Once

(* Most of them leave the threads and iTids alone too.                     *)
LEMMA OnceQuiet ==
  ASSUME Typed, Once, crashes' = crashes, pending' = pending, buf' = buf, Fresh' => Fresh,
         \A e \in Accepted' : e \in Accepted \/ (e.kind \notin {"exc", "kill"} /\ e.n = 0),
         life' = life, suspended' = suspended, tids' = tids
  PROVE  Once'
<1>1. Remembered' BY DEF Once, Remembered
<1> QED BY <1>1, OnceStays

LEMMA RaisedOnce ==
  ASSUME Typed, Once, NEW t \in Threads, NEW kind \in {"exc", "kill"}, NEW n \in 1..MaxCrashes,
         life[t] \in {"alive", "exc"}, t \notin suspended,
         life' = [life EXCEPT ![t] = IF kind = "exc" THEN "exc" ELSE "dying"],
         Raised(t, kind, n),
         n = crashes + 1 \/ (kind = "kill" /\ life[t] = "exc" /\ n <= crashes)
  PROVE  Once'
<1> USE DEF worldVars, observerVars, queueVars, clientVars, dumpVars
<1> DEFINE e == [of |-> t, n |-> n, kind |-> kind]
<1>1. e \in Events /\ e.of = t /\ e.n = n /\ e.kind = kind BY DEF Events
<1>2. pending' = Append(pending, e) BY DEF Raised
<1> HIDE DEF e
<1>3. /\ suspended' = suspended \cup {t} /\ live' = live /\ buf' = buf /\ crash' = crash
      /\ dumping' = dumping /\ dumped' = dumped /\ tids' = tids /\ step' = step
      /\ crashes' = IF n > crashes THEN n ELSE crashes
  BY DEF Raised
<1>4. signal' = signal BY Zenon DEF Raised
<1>5. crashes \in Nat /\ n \in Nat /\ crashes <= crashes' /\ n <= crashes'
  BY <1>3, Bounded DEF Typed
<1>6. /\ DOMAIN pending = 1..Len(pending) /\ Len(pending) \in Nat
      /\ DOMAIN pending' = 1..(Len(pending) + 1)
      /\ \A i \in DOMAIN pending : pending'[i] = pending[i]
      /\ pending'[Len(pending) + 1] = e
      /\ ToSet(pending') = ToSet(pending) \cup {e}
  BY <1>1, <1>2, Queued DEF Typed
<1>7. Accepted' = Accepted /\ Traces' = Traces \cup {e} BY <1>3, <1>6 DEF Accepted, Traces
<1>8. Fresh' = Fresh BY <1>3, <1>4 DEF Fresh
<1>9. \A d \in Traces : d.kind = "kill" => d.of \in Threads /\ d.of # t
  BY TracesTyped, Kinds DEF Once, Ended
<1>10. \A d \in Traces : d.n \in Nat /\ d.n <= crashes BY TracesTyped DEF Once, Numbered
<1>11. \A d \in Traces : d.kind = "kill" /\ Apart(d) => Apart(d)'
  BY <1>1, <1>5, <1>7, <1>10 DEF Apart
<1>12. n = crashes + 1 /\ kind = "kill" => Apart(e)'
  BY <1>1, <1>5, <1>7, <1>10 DEF Apart
<1>13. \A i \in DOMAIN pending : pending[i] \in Traces BY DEF Traces, ToSet
<1>14. buf \in Traces BY DEF Traces
<1>15. \A i \in DOMAIN pending' : i \in DOMAIN pending \/ i = Len(pending) + 1 BY <1>6
<1>16. Numbered'
  <2>1. crashes' \in Nat BY <1>3, <1>5
  <2>2. \A d \in Traces : d.n <= crashes' BY <1>5, <1>10, <2>1
  <2> QED BY <1>1, <1>5, <1>7, <2>2 DEF Numbered
<1>17. Ended'
  <2>1. \A d \in Traces : d.kind = "kill" => life'[d.of] = life[d.of] BY <1>9 DEF Typed
  <2>2. kind = "kill" => life'[t] = "dying" BY DEF Typed
  <2> QED BY <1>1, <1>7, <2>1, <2>2 DEF Once, Ended
<1>18. OneEnd'
  <2>1. ASSUME NEW i \in DOMAIN pending', NEW j \in DOMAIN pending', i # j,
               pending'[i].kind = "kill", pending'[j].kind = "kill"
        PROVE  pending'[i].of # pending'[j].of
    <3>1. CASE i \in DOMAIN pending /\ j \in DOMAIN pending
      BY <1>6, <2>1, <3>1 DEF Once, OneEnd
    <3>2. CASE i \in DOMAIN pending /\ j = Len(pending) + 1
      BY <1>1, <1>6, <1>9, <1>13, <2>1, <3>2
    <3>3. CASE j \in DOMAIN pending /\ i = Len(pending) + 1
      BY <1>1, <1>6, <1>9, <1>13, <2>1, <3>3
    <3> QED BY <1>15, <2>1, <3>1, <3>2, <3>3
  <2>2. ASSUME Fresh', buf'.kind = "kill", NEW i \in DOMAIN pending', pending'[i].kind = "kill"
        PROVE  pending'[i].of # buf'.of
    <3>1. CASE i \in DOMAIN pending BY <1>3, <1>6, <1>8, <2>2, <3>1 DEF Once, OneEnd
    <3>2. CASE i = Len(pending) + 1 BY <1>1, <1>3, <1>6, <1>9, <1>14, <2>2, <3>2
    <3> QED BY <1>15, <2>2, <3>1, <3>2
  <2> QED BY <2>1, <2>2 DEF OneEnd
<1>19. Noticed'
  <2>1. ASSUME NEW i \in DOMAIN pending', pending'[i].kind = "kill",
               pending'[i].of \in Watched, tids'[pending'[i].of] = 0
        PROVE  Apart(pending[i])'
    <3>1. CASE i \in DOMAIN pending
      <4>1. Apart(pending[i]) BY <1>3, <1>6, <2>1, <3>1 DEF Once, Noticed
      <4> QED BY <1>6, <1>11, <1>13, <2>1, <3>1, <4>1
    <3>2. CASE i = Len(pending) + 1
      <4>1. kind = "kill" /\ t \in Watched /\ tids[t] = 0 BY <1>1, <1>3, <1>6, <2>1, <3>2
      <4>2. life[t] # "exc" BY <4>1 DEF Once, Remembered
      <4> QED BY <1>6, <1>12, <3>2, <4>1, <4>2
    <3> QED BY <1>15, <2>1, <3>1, <3>2
  <2>2. ASSUME Fresh', buf'.kind = "kill", buf'.of \in Watched, tids'[buf'.of] = 0
        PROVE  Apart(buf)'
    <3>1. Apart(buf) BY <1>3, <1>8, <2>2 DEF Once, Noticed
    <3> QED BY <1>3, <1>11, <1>14, <2>2, <3>1
  <2> QED BY <2>1, <2>2 DEF Noticed
<1>20. Spared'
  <2>1. \A d \in Accepted : d \in Traces BY TracesTyped
  <2> QED BY <1>7, <1>11, <2>1 DEF Once, Spared
<1>21. Remembered' BY <1>3, Bounded DEF Once, Remembered, Typed
<1> QED BY <1>16, <1>17, <1>18, <1>19, <1>20, <1>21 DEF Once

LEMMA DeliverOnce ==
  ASSUME Typed, Flags, Once, Deliver, ~clobbered'
  PROVE  Once'
<1> USE DEF worldVars, observerVars, queueVars, clientVars, dumpVars
<1>1. /\ pending # <<>> /\ pending' = Tail(pending) /\ buf' = Head(pending) /\ live' = live
      /\ life' = life /\ suspended' = suspended /\ step' = step /\ dumping' = dumping
      /\ dumped' = dumped /\ crash' = crash /\ crashes' = crashes /\ tids' = tids
  BY DEF Deliver
<1>2. /\ buf' = pending[1] /\ buf' \in ToSet(pending) /\ 1 \in DOMAIN pending
      /\ ToSet(pending') \subseteq ToSet(pending)
      /\ \A i \in DOMAIN pending' : /\ i + 1 \in DOMAIN pending /\ i + 1 # 1 /\ i \in Nat
                                     /\ pending'[i] = pending[i + 1]
  <2>1. /\ Head(pending) = pending[1] /\ Len(pending) \in Nat \ {0}
        /\ DOMAIN pending = 1..Len(pending) /\ DOMAIN pending' = 1..(Len(pending) - 1)
        /\ \A i \in DOMAIN pending' : i + 1 \in DOMAIN pending /\ pending'[i] = pending[i + 1]
        /\ ToSet(pending') \subseteq ToSet(pending) /\ Head(pending) \in ToSet(pending)
    BY <1>1, Unqueued DEF Typed
  <2> QED BY <1>1, <2>1
<1>3. Accepted' = Accepted /\ Traces' \subseteq Traces BY <1>1, <1>2 DEF Accepted, Traces
<1>4. \A e : Apart(e) => Apart(e)' BY <1>3 DEF Apart
<1>5. Numbered' BY <1>1, <1>3 DEF Once, Numbered
<1>6. Ended' BY <1>1, <1>3 DEF Once, Ended
<1>7. OneEnd'
  <2>1. ASSUME NEW i \in DOMAIN pending', NEW j \in DOMAIN pending', i # j,
               pending'[i].kind = "kill", pending'[j].kind = "kill"
        PROVE  pending'[i].of # pending'[j].of
    <3>1. i + 1 # j + 1 BY <1>2, <2>1
    <3> QED BY <1>2, <2>1, <3>1 DEF Once, OneEnd
  <2>2. ASSUME buf'.kind = "kill", NEW i \in DOMAIN pending', pending'[i].kind = "kill"
        PROVE  pending'[i].of # buf'.of
    BY <1>2, <2>2 DEF Once, OneEnd
  <2> QED BY <2>1, <2>2 DEF OneEnd
<1>8. Noticed'
  <2>1. ASSUME NEW i \in DOMAIN pending', pending'[i].kind = "kill",
               pending'[i].of \in Watched, tids'[pending'[i].of] = 0
        PROVE  Apart(pending[i])'
    <3>1. Apart(pending[i + 1]) BY <1>1, <1>2, <2>1 DEF Once, Noticed
    <3> QED BY <1>2, <1>4, <2>1, <3>1
  <2>2. ASSUME buf'.kind = "kill", buf'.of \in Watched, tids'[buf'.of] = 0
        PROVE  Apart(buf)'
    <3>1. Apart(pending[1]) BY <1>1, <1>2, <2>2 DEF Once, Noticed
    <3> QED BY <1>2, <1>4, <3>1
  <2> QED BY <2>1, <2>2 DEF Noticed
<1>9. Spared' BY <1>3, <1>4 DEF Once, Spared
<1>10. Remembered' BY <1>1 DEF Once, Remembered
<1> QED BY <1>5, <1>6, <1>7, <1>8, <1>9, <1>10 DEF Once

(* The end of a thread whose exception was dumped takes the thread from    *)
(* iTids; no other end of it is on the way.                                *)
LEMMA ObserveResumeOnce ==
  ASSUME Typed, Flags, Once, ObserveResume, ~clobbered
  PROVE  Once'
<1> USE DEF worldVars, observerVars, queueVars, clientVars, dumpVars
<1>1. /\ step = "observe" /\ step' = "idle" /\ pending' = pending /\ live' = live /\ buf' = buf
      /\ thread' = thread /\ crash' = crash /\ dumping' = dumping /\ dumped' = dumped
      /\ buf.of \notin Watched \/ Duplicate(buf)
      /\ tids' = IF buf.of \in Watched THEN [tids EXCEPT ![buf.of] = @ - 1] ELSE tids
      /\ Resume(buf.of)
  BY DEF ObserveResume
<1>2. signal' = signal BY Zenon DEF ObserveResume
<1>3. ~Fresh' /\ Fresh BY <1>1, <1>2 DEF Flags, Fresh
<1>4. buf \in Events /\ buf.of \in Threads BY <1>3, Kinds DEF Typed
<1>5. /\ suspended' = suspended \ {buf.of} /\ crashes' = crashes
      /\ \A t \in Threads : life[t] \in {"dying", "gone"} => life'[t] \in {"dying", "gone"}
      /\ \A t \in Threads : life'[t] = "exc" => life[t] = "exc"
  BY <1>1, <1>4 DEF Resume, Typed
<1>6. \A t \in Threads : t # buf.of \/ buf.of \notin Watched => tids'[t] = tids[t]
  BY <1>1, <1>4 DEF Typed
<1>7. buf.of \in Watched => buf.kind = "kill" /\ life[buf.of] \in {"dying", "gone"}
  <2>1. buf \in Traces BY DEF Traces
  <2> QED BY <1>1, <2>1 DEF Duplicate, Once, Ended
<1>8. Accepted' = Accepted /\ Traces' = Traces BY <1>1 DEF Accepted, Traces
<1>9. \A e : Apart(e) => Apart(e)' BY <1>8 DEF Apart
<1>10. Numbered' BY <1>5, <1>8 DEF Once, Numbered
<1>11. Ended'
  <2>1. \A e \in Traces : e.kind = "kill" => e.of \in Threads BY TracesTyped, Kinds
  <2> QED BY <1>5, <1>8, <2>1 DEF Once, Ended
<1>12. OneEnd' BY <1>1, <1>3 DEF Once, OneEnd
<1>13. Noticed'
  <2>1. ASSUME NEW i \in DOMAIN pending', pending'[i].kind = "kill",
               pending'[i].of \in Watched, tids'[pending'[i].of] = 0
        PROVE  Apart(pending[i])'
    <3>1. pending[i].of \in Threads BY <1>1, <2>1, Bounded
    <3>2. pending[i].of # buf.of \/ buf.of \notin Watched
      BY <1>1, <1>3, <1>7, <2>1 DEF Once, OneEnd
    <3>3. Apart(pending[i]) BY <1>1, <1>6, <2>1, <3>1, <3>2 DEF Once, Noticed
    <3> QED BY <1>1, <1>9, <3>3
  <2> QED BY <1>3, <2>1 DEF Noticed
<1>14. Spared' BY <1>8, <1>9 DEF Once, Spared
<1>15. Remembered'
  <2> SUFFICES ASSUME NEW t \in Watched, life'[t] = "exc", t \notin suspended' PROVE tids'[t] > 0
    BY DEF Remembered
  <2>1. t \in Threads /\ life[t] = "exc" BY <1>5, Bounded
  <2>2. t # buf.of BY <1>7, <2>1
  <2>3. tids[t] > 0 BY <1>5, <2>1, <2>2 DEF Once, Remembered
  <2> QED BY <1>6, <2>1, <2>2, <2>3
<1> QED BY <1>10, <1>11, <1>12, <1>13, <1>14, <1>15 DEF Once

(* HandleCrashEventL is reached by an end only if iTids has no trace of an *)
(* exception that led to it.                                               *)
LEMMA HandleCrashEventOnce ==
  ASSUME Typed, Flags, Once, HandleCrashEvent, ~clobbered
  PROVE  Once'
<1> USE DEF worldVars, observerVars, queueVars, clientVars, dumpVars
<1>1. /\ step = "observe" /\ step' \in {"idle", "live"} /\ pending' = pending /\ buf' = buf
      /\ live' = Append(live, buf) /\ life' = life /\ suspended' = suspended
      /\ crash' = crash /\ crashes' = crashes /\ dumping' = dumping /\ dumped' = dumped
      /\ tids' = tids /\ buf.of \in Watched /\ ~Duplicate(buf)
  BY DEF HandleCrashEvent
<1>2. signal' = signal BY Zenon DEF HandleCrashEvent
<1>3. ~Fresh' /\ Fresh BY <1>1, <1>2 DEF Flags, Fresh
<1>4. buf \in Events /\ buf.of \in Threads BY <1>3, Kinds DEF Typed
<1>5. ToSet(live') = ToSet(live) \cup {buf} BY <1>1, <1>4, Queued DEF Typed
<1>6. Accepted' = Accepted \cup {buf} /\ Traces' = Traces BY <1>1, <1>5 DEF Accepted, Traces
<1>7. \A e : Apart(e) => Apart(e)' BY <1>6 DEF Apart
<1>8. buf.kind = "kill" => Apart(buf)
  <2>1. buf.kind = "kill" => tids[buf.of] = 0 BY <1>1, <1>4 DEF Duplicate, Typed
  <2> QED BY <1>1, <1>3, <2>1 DEF Once, Noticed
<1>9. Numbered' BY <1>1, <1>6 DEF Once, Numbered
<1>10. Ended' BY <1>1, <1>6 DEF Once, Ended
<1>11. OneEnd' BY <1>1, <1>3 DEF Once, OneEnd
<1>12. Noticed' BY <1>1, <1>3, <1>7 DEF Once, Noticed
<1>13. Spared' BY <1>6, <1>7, <1>8 DEF Once, Spared
<1>14. Remembered' BY <1>1 DEF Once, Remembered
<1> QED BY <1>9, <1>10, <1>11, <1>12, <1>13, <1>14 DEF Once

(* The exception the handler has finished with is noted in iTids before    *)
(* the thread is resumed, so before it can end.                            *)
LEMMA FinishOnce ==
  ASSUME Typed, Flags, Once, Finish
  PROVE  Once'
<1> USE DEF worldVars, observerVars, queueVars, clientVars, dumpVars
<1>1. /\ step = "finish" /\ step' \in {"idle", "live", "flash"} /\ pending' = pending
      /\ live' = live /\ buf' = buf /\ crash' = crash /\ dumping' = dumping /\ dumped' = dumped
      /\ tids' = Noted
      /\ UNCHANGED worldVars \/ (crash.kind # "system" /\ Resume(crash.of))
  BY DEF Finish, LeaveTo
<1>2. signal' = signal BY Zenon DEF Finish
<1>3. Fresh' => Fresh BY <1>1, <1>2 DEF Fresh
<1>4. Accepted' = Accepted BY <1>1 DEF Accepted
<1>5. crash # NoCrash BY <1>1 DEF Typed, Working
<1>6. crash.kind # "system" => crash \in Events /\ crash.of \in Threads
  BY <1>5, Kinds DEF Typed
<1>7. /\ crashes' = crashes
      /\ \A t \in Threads : life[t] \in {"dying", "gone"} => life'[t] \in {"dying", "gone"}
      /\ \A t \in Threads : life'[t] = "exc" => life[t] = "exc"
      /\ \A t \in Threads : t \notin suspended' =>
           t \notin suspended \/ (crash.kind # "system" /\ t = crash.of)
  BY <1>1, <1>6 DEF Resume, Typed
<1>8. \A t \in Threads : tids'[t] >= tids[t] /\ tids[t] \in Nat /\ tids'[t] \in Nat
  BY SMTT(30), <1>1, <1>6, Kinds DEF Noted, Typed
<1>9. crash.kind = "exc" => tids'[crash.of] > 0
  BY <1>1, <1>6 DEF Noted, Typed
<1>10. crash.kind = "kill" => life[crash.of] \in {"dying", "gone"}
  <2>1. crash \in Traces BY DEF Traces, Accepted
  <2> QED BY <2>1 DEF Once, Ended
<1>11. Remembered'
  <2> SUFFICES ASSUME NEW t \in Watched, life'[t] = "exc", t \notin suspended' PROVE tids'[t] > 0
    BY DEF Remembered
  <2>1. t \in Threads /\ life[t] = "exc" BY <1>7, Bounded
  <2>2. CASE t \notin suspended
    <3>1. tids[t] > 0 BY <2>1, <2>2 DEF Once, Remembered
    <3> QED BY <1>8, <2>1, <3>1
  <2>3. CASE crash.kind # "system" /\ t = crash.of
    <3>1. crash.kind \in {"exc", "kill"} BY <1>6, <2>3, Kinds
    <3> QED BY <1>9, <1>10, <2>1, <2>3, <3>1
  <2> QED BY <1>7, <2>1, <2>2, <2>3
<1>12. \A t \in Threads : tids'[t] = 0 => tids[t] = 0 BY <1>8
<1> QED BY <1>1, <1>3, <1>4, <1>7, <1>11, <1>12, OnceStays

LEMMA DumpedOnce ==
  ASSUME Typed, Flags, Once, Next, ~clobbered'
  PROVE  Once'
<1> USE DEF worldVars, observerVars, queueVars, clientVars, dumpVars
<1>1. ~clobbered BY NotUndone
<1>2. ASSUME NEW t \in Threads, Except(t) PROVE Once'
  <2>1. /\ life[t] = "alive" /\ t \notin suspended /\ life' = [life EXCEPT ![t] = "exc"]
        /\ Raised(t, "exc", crashes + 1) /\ crashes < MaxCrashes
    BY <1>2 DEF Except
  <2>2. crashes + 1 \in 1..MaxCrashes BY <2>1, Bounded DEF Typed
  <2> QED BY <2>1, <2>2, RaisedOnce
<1>3. ASSUME NEW t \in Threads, Kill(t) PROVE Once'
  <2>1. t \notin suspended /\ life' = [life EXCEPT ![t] = "dying"] BY <1>3 DEF Kill
  <2>2. CASE life[t] = "alive" /\ crashes < MaxCrashes /\ Raised(t, "kill", crashes + 1)
    <3>1. crashes + 1 \in 1..MaxCrashes BY <2>2, Bounded DEF Typed
    <3> QED BY <2>1, <2>2, <3>1, RaisedOnce
  <2>3. CASE life[t] = "exc" /\ Raised(t, "kill", crashNo[t])
    <3>1. crashNo[t] \in 1..MaxCrashes /\ crashNo[t] <= crashes BY <2>3, Bounded DEF Typed
    <3> QED BY <2>1, <2>3, <3>1, RaisedOnce
  <2> QED BY <1>3, <2>2, <2>3 DEF Kill
<1>4. ASSUME NEW t \in Threads, Recover(t) \/ Die(t) PROVE Once'
  <2>1. /\ pending' = pending /\ live' = live /\ buf' = buf /\ crash' = crash /\ step' = step
        /\ dumping' = dumping /\ dumped' = dumped /\ tids' = tids /\ crashes' = crashes
    BY <1>4 DEF Recover, Die
  <2>2. signal' = signal BY <1>4, Zenon DEF Recover, Die
  <2>3. Accepted' = Accepted /\ (Fresh' => Fresh) BY <2>1, <2>2 DEF Accepted, Fresh
  <2>4. /\ \A u \in Threads : life[u] \in {"dying", "gone"} => life'[u] \in {"dying", "gone"}
        /\ \A u \in Threads :
             life'[u] = "exc" => life[u] = "exc" /\ (u \in suspended => u \in suspended')
    <3>1. CASE Recover(t) BY <3>1 DEF Recover, Typed
    <3>2. CASE Die(t) BY <3>2 DEF Die, Typed
    <3> QED BY <1>4, <3>1, <3>2
  <2>5. Remembered' BY <2>1, <2>4, Bounded DEF Once, Remembered
  <2> QED BY <2>1, <2>3, <2>4, <2>5, OnceStays
<1>5. CASE Deliver BY <1>5, DeliverOnce
<1>6. CASE ObserveResume BY <1>1, <1>6, ObserveResumeOnce
<1>7. CASE HandleCrashEvent BY <1>1, <1>7, HandleCrashEventOnce
<1>8. CASE Finish BY <1>8, FinishOnce
<1>9. CASE Observe
  <2>1. /\ life' = life /\ suspended' = suspended /\ pending' = pending /\ buf' = buf
        /\ crashes' = crashes /\ tids' = tids
        /\ crash' = crash /\ live' = live
        /\ dumping' = dumping /\ dumped' = dumped
    BY <1>9 DEF Observe
  <2>2. Fresh' => Fresh BY <1>9 DEF Observe, Fresh
  <2>3. Accepted' = Accepted BY <2>1 DEF Accepted
  <2> QED BY <2>1, <2>2, <2>3, OnceQuiet
<1>10. CASE ObserveGone
  <2>1. /\ life' = life /\ suspended' = suspended /\ pending' = pending /\ buf' = buf
        /\ crashes' = crashes /\ tids' = tids
        /\ crash' = crash /\ live' = live
        /\ dumping' = dumping /\ dumped' = dumped
    BY <1>10 DEF ObserveGone
  <2>2. Fresh' => Fresh
    <3>1. signal' = signal BY <1>10, Zenon DEF ObserveGone
    <3>2. step' # "observe" \/ step' = step BY <1>10 DEF ObserveGone
    <3> QED BY <3>1, <3>2 DEF Fresh
  <2>3. Accepted' = Accepted BY <2>1 DEF Accepted
  <2> QED BY <2>1, <2>2, <2>3, OnceQuiet
<1>11. CASE ProcessLive
  <2>1. /\ life' = life /\ suspended' = suspended /\ pending' = pending /\ buf' = buf
        /\ crashes' = crashes /\ tids' = tids
        /\ crash' = Head(live) /\ live' = Tail(live) /\ step = "live"
        /\ dumping' = dumping /\ dumped' = dumped
    BY <1>11 DEF ProcessLive
  <2>2. Fresh' => Fresh
    <3>1. signal' = signal BY <1>11, Zenon DEF ProcessLive
    <3>2. step' # "observe" \/ step' = step BY <1>11 DEF ProcessLive
    <3> QED BY <3>1, <3>2 DEF Fresh
  <2>3. Accepted' \subseteq Accepted
    <3>1. ToSet(live') \subseteq ToSet(live) /\ crash' \in ToSet(live) BY <2>1, Unqueued DEF Typed
    <3> QED BY <2>1, <3>1 DEF Accepted
  <2> QED BY <2>1, <2>2, <2>3, OnceQuiet
<1>12. CASE ProcessSystem
  <2>1. /\ life' = life /\ suspended' = suspended /\ pending' = pending /\ buf' = buf
        /\ crashes' = crashes /\ tids' = tids
        /\ crash' = Head(flash) /\ flash # <<>> /\ live' = live
        /\ dumping' = dumping /\ dumped' = dumped
    BY <1>12 DEF ProcessSystem, LeaveTo
  <2>2. Fresh' => Fresh
    <3>1. signal' = signal BY <1>12, Zenon DEF ProcessSystem
    <3>2. step' # "observe" \/ step' = step BY <1>12 DEF ProcessSystem, LeaveTo
    <3> QED BY <3>1, <3>2 DEF Fresh
  <2>3. \A e \in Accepted' : e \in Accepted \/ (e.kind \notin {"exc", "kill"} /\ e.n = 0)
    <3>1. crash' \in Systems BY <2>1, Unqueued DEF Typed
    <3> QED BY <2>1, <3>1, Kinds DEF Accepted
  <2> QED BY <2>1, <2>2, <2>3, OnceQuiet
<1>13. CASE NoSystem
  <2>1. /\ life' = life /\ suspended' = suspended /\ pending' = pending /\ buf' = buf
        /\ crashes' = crashes /\ tids' = tids
        /\ crash' = crash /\ live' = live
        /\ dumping' = dumping /\ dumped' = dumped
    BY <1>13 DEF NoSystem
  <2>2. Fresh' => Fresh
    <3>1. signal' = signal BY <1>13, Zenon DEF NoSystem
    <3>2. step' # "observe" \/ step' = step BY <1>13 DEF NoSystem
    <3> QED BY <3>1, <3>2 DEF Fresh
  <2>3. Accepted' = Accepted BY <2>1 DEF Accepted
  <2> QED BY <2>1, <2>2, <2>3, OnceQuiet
<1>14. CASE StartFinish
  <2>1. /\ life' = life /\ suspended' = suspended /\ pending' = pending /\ buf' = buf
        /\ crashes' = crashes /\ tids' = tids
        /\ crash' = crash /\ live' = live
        /\ dumping' = dumping /\ dumped' = dumped
    BY <1>14 DEF StartFinish
  <2>2. Fresh' => Fresh
    <3>1. signal' = signal BY <1>14, Zenon DEF StartFinish
    <3>2. step' # "observe" \/ step' = step BY <1>14 DEF StartFinish
    <3> QED BY <3>1, <3>2 DEF Fresh
  <2>3. Accepted' = Accepted BY <2>1 DEF Accepted
  <2> QED BY <2>1, <2>2, <2>3, OnceQuiet
<1>15. CASE StartThread
  <2>1. /\ life' = life /\ suspended' = suspended /\ pending' = pending /\ buf' = buf
        /\ crashes' = crashes /\ tids' = tids
        /\ crash' = crash /\ live' = live
        /\ dumping' = dumping /\ dumped' = dumped
    BY <1>15 DEF StartThread
  <2>2. Fresh' => Fresh
    <3>1. signal' = signal BY <1>15, Zenon DEF StartThread
    <3>2. step' # "observe" \/ step' = step BY <1>15 DEF StartThread, Typed
    <3> QED BY <3>1, <3>2 DEF Fresh
  <2>3. Accepted' = Accepted BY <2>1 DEF Accepted
  <2> QED BY <2>1, <2>2, <2>3, OnceQuiet
<1>16. CASE StartLeave
  <2>1. /\ life' = life /\ suspended' = suspended /\ pending' = pending /\ buf' = buf
        /\ crashes' = crashes /\ tids' = tids
        /\ crash' = crash /\ live' = live
        /\ dumping' = dumping /\ dumped' = dumped
    BY <1>16 DEF StartLeave, LeaveTo
  <2>2. Fresh' => Fresh
    <3>1. signal' = signal BY <1>16, Zenon DEF StartLeave
    <3>2. step' # "observe" \/ step' = step BY <1>16 DEF StartLeave, LeaveTo
    <3> QED BY <3>1, <3>2 DEF Fresh
  <2>3. Accepted' = Accepted BY <2>1 DEF Accepted
  <2> QED BY <2>1, <2>2, <2>3, OnceQuiet
<1>17. CASE RunNext
  <2>1. /\ life' = life /\ suspended' = suspended /\ pending' = pending /\ buf' = buf
        /\ crashes' = crashes /\ tids' = tids
        /\ crash' = crash /\ live' = live
        /\ dumping' = dumping /\ dumped' = dumped
    BY <1>17 DEF RunNext
  <2>2. Fresh' => Fresh
    <3>1. signal' = signal BY <1>17, Zenon DEF RunNext
    <3>2. step' # "observe" \/ step' = step BY <1>17 DEF RunNext
    <3> QED BY <3>1, <3>2 DEF Fresh
  <2>3. Accepted' = Accepted BY <2>1 DEF Accepted
  <2> QED BY <2>1, <2>2, <2>3, OnceQuiet
<1>18. CASE RunStray
  <2>1. /\ life' = life /\ suspended' = suspended /\ pending' = pending /\ buf' = buf
        /\ crashes' = crashes /\ tids' = tids
        /\ crash' = crash /\ live' = live
        /\ dumping' = dumping /\ dumped' = dumped
    BY <1>18 DEF RunStray
  <2>2. Fresh' => Fresh
    <3>1. signal' = signal BY <1>18, Zenon DEF RunStray
    <3>2. step' # "observe" \/ step' = step BY <1>18 DEF RunStray
    <3> QED BY <3>1, <3>2 DEF Fresh
  <2>3. Accepted' = Accepted BY <2>1 DEF Accepted
  <2> QED BY <2>1, <2>2, <2>3, OnceQuiet
<1>19. CASE Dump
  <2>1. /\ life' = life /\ suspended' = suspended /\ pending' = pending /\ buf' = buf
        /\ crashes' = crashes /\ tids' = tids
        /\ crash' = crash /\ live' = live
        /\ dumping' = crash /\ dumped' = dumped \cup {[crash |-> crash, by |-> formatter]}
    BY <1>19 DEF Dump
  <2>2. Fresh' => Fresh
    <3>1. signal' = signal BY <1>19, Zenon DEF Dump
    <3>2. step' # "observe" \/ step' = step BY <1>19 DEF Dump
    <3> QED BY <3>1, <3>2 DEF Fresh
  <2>3. Accepted' \subseteq Accepted
    <3>1. \A d \in dumped' : d \in dumped \/ d.crash = crash BY <2>1
    <3> QED BY <2>1, <3>1 DEF Accepted
  <2> QED BY <2>1, <2>2, <2>3, OnceQuiet
<1>20. CASE Exit
  <2>1. /\ life' = life /\ suspended' = suspended /\ pending' = pending /\ buf' = buf
        /\ crashes' = crashes /\ tids' = tids
        /\ crash' = crash /\ live' = live
        /\ dumping' = NoCrash /\ dumped' = dumped
    BY <1>20 DEF Exit
  <2>2. Fresh' => Fresh
    <3>1. signal' = signal BY <1>20, Zenon DEF Exit
    <3>2. step' # "observe" \/ step' = step BY <1>20 DEF Exit
    <3> QED BY <3>1, <3>2 DEF Fresh
  <2>3. \A e \in Accepted' : e \in Accepted \/ (e.kind \notin {"exc", "kill"} /\ e.n = 0)
    BY <2>1, Kinds DEF Accepted
  <2> QED BY <2>1, <2>2, <2>3, OnceQuiet
<1>21. CASE PluginRequest
  <2>1. /\ life' = life /\ suspended' = suspended /\ pending' = pending /\ buf' = buf
        /\ crashes' = crashes /\ tids' = tids
        /\ crash' = crash /\ live' = live
        /\ dumping' = dumping /\ dumped' = dumped
    BY <1>21 DEF PluginRequest
  <2>2. Fresh' => Fresh
    <3>1. signal' = signal BY <1>21, Zenon DEF PluginRequest
    <3>2. step' # "observe" \/ step' = step BY <1>21 DEF PluginRequest
    <3> QED BY <3>1, <3>2 DEF Fresh
  <2>3. Accepted' = Accepted BY <2>1 DEF Accepted
  <2> QED BY <2>1, <2>2, <2>3, OnceQuiet
<1>22. ASSUME NEW l \in Logs, ProcessCrashLog(l) PROVE Once'
  <2>1. /\ life' = life /\ suspended' = suspended /\ pending' = pending /\ buf' = buf
        /\ crashes' = crashes /\ tids' = tids
        /\ crash' = crash /\ live' = live
        /\ dumping' = dumping /\ dumped' = dumped
    BY <1>22 DEF ProcessCrashLog
  <2>2. Fresh' => Fresh
    <3>1. signal' = signal BY <1>22, Zenon DEF ProcessCrashLog
    <3>2. step' # "observe" \/ step' = step BY <1>22 DEF ProcessCrashLog
    <3> QED BY <3>1, <3>2 DEF Fresh
  <2>3. Accepted' = Accepted BY <2>1 DEF Accepted
  <2> QED BY <2>1, <2>2, <2>3, OnceQuiet
<1>23. ASSUME NEW l \in Logs, CancelProcessCrashLog(l) PROVE Once'
  <2>1. /\ life' = life /\ suspended' = suspended /\ pending' = pending /\ buf' = buf
        /\ crashes' = crashes /\ tids' = tids
        /\ crash' = crash /\ live' = live
        /\ dumping' = dumping /\ dumped' = dumped
    BY <1>23 DEF CancelProcessCrashLog
  <2>2. Fresh' => Fresh
    <3>1. signal' = signal BY <1>23, Zenon DEF CancelProcessCrashLog
    <3>2. step' # "observe" \/ step' = step BY <1>23 DEF CancelProcessCrashLog
    <3> QED BY <3>1, <3>2 DEF Fresh
  <2>3. Accepted' = Accepted BY <2>1 DEF Accepted
  <2> QED BY <2>1, <2>2, <2>3, OnceQuiet
<1> QED
  BY <1>2, <1>3, <1>4, <1>5, <1>6, <1>7, <1>8, <1>9, <1>10, <1>11, <1>12, <1>13,
     <1>14, <1>15, <1>16, <1>17, <1>18, <1>19, <1>20, <1>21, <1>22, <1>23
  DEF Next, World, Server, Client

-----------------------------------------------------------------------------
(* The invariant and the theorems.                                         *)

LEMMA TypesKept == ASSUME Typed, Flags, Next PROVE Typed' /\ Flags'
<1>1. ASSUME NEW t \in Threads, Except(t) \/ Kill(t) \/ Recover(t) \/ Die(t)
      PROVE  Typed' /\ Flags'
  BY <1>1, ExceptTyped, KillTyped, RecoverTyped, DieTyped
<1>2. ASSUME NEW l \in Logs, ProcessCrashLog(l) \/ CancelProcessCrashLog(l)
      PROVE  Typed' /\ Flags'
  BY <1>2, ProcessCrashLogTyped, CancelProcessCrashLogTyped
<1>3. CASE Observe BY <1>3, ObserveTyped
<1>4. CASE ObserveGone BY <1>4, ObserveGoneTyped
<1>5. CASE ObserveResume BY <1>5, ObserveResumeTyped
<1>6. CASE HandleCrashEvent BY <1>6, HandleCrashEventTyped
<1>7. CASE ProcessLive BY <1>7, ProcessLiveTyped
<1>8. CASE ProcessSystem BY <1>8, ProcessSystemTyped
<1>9. CASE NoSystem BY <1>9, NoSystemTyped
<1>10. CASE StartFinish BY <1>10, StartFinishTyped
<1>11. CASE StartThread BY <1>11, StartThreadTyped
<1>12. CASE StartLeave BY <1>12, StartLeaveTyped
<1>13. CASE RunNext BY <1>13, RunNextTyped
<1>14. CASE RunStray BY <1>14, RunStrayTyped
<1>15. CASE Finish BY <1>15, FinishTyped
<1>16. CASE Deliver BY <1>16, DeliverTyped
<1>17. CASE Dump BY <1>17, DumpTyped
<1>18. CASE Exit BY <1>18, ExitTyped
<1>19. CASE PluginRequest BY <1>19, PluginRequestTyped
<1> QED
  BY <1>1, <1>2, <1>3, <1>4, <1>5, <1>6, <1>7, <1>8, <1>9, <1>10, <1>11, <1>12,
     <1>13, <1>14, <1>15, <1>16, <1>17, <1>18, <1>19
  DEF Next, World, Server, Client

LEMMA InitIInv == Init => IInv
<1> SUFFICES ASSUME Init PROVE IInv OBVIOUS
<1>1. Typed /\ Flags BY InitTyped
<1>2. /\ pending = <<>> /\ live = <<>> /\ dumped = {} /\ crash = NoCrash /\ dumping = NoCrash
      /\ buf = NoCrash /\ step = "idle" /\ thread = "none" /\ crashes = 0
      /\ life = [t \in Threads |-> "alive"]
  BY DEF Init
<1>3. signal = FALSE BY Zenon DEF Init
<1>4. ~Fresh /\ ~Working BY <1>2, <1>3 DEF Fresh, Working, Running
<1>5. DOMAIN pending = {} /\ DOMAIN live = {} BY <1>2
<1>6. Traces = {NoCrash} /\ Accepted = {NoCrash} BY <1>2, <1>5 DEF Traces, Accepted, ToSet
<1>7. Once
  <2>1. Numbered /\ Ended /\ Spared BY <1>2, <1>6, Kinds DEF Numbered, Ended, Spared
  <2>2. OneEnd /\ Noticed BY <1>4, <1>5 DEF OneEnd, Noticed
  <2>3. Remembered BY <1>2, Bounded DEF Remembered
  <2> QED BY <2>1, <2>2, <2>3 DEF Once
<1>8. InTurn BY <1>2 DEF InTurn, Running
<1>9. Holding
  <2>1. Owners(pending) = {} /\ Owners(live) = {} /\ Distinct(pending) /\ Distinct(live)
    BY <1>5 DEF Owners, Distinct
  <2>2. Observing = {} /\ Handling = {} BY <1>4 DEF Observing, Handling
  <2> QED BY <2>1, <2>2 DEF Holding
<1> QED BY <1>1, <1>7, <1>8, <1>9 DEF IInv

LEMMA NextIInv == IInv /\ [Next]_vars => IInv'
<1> SUFFICES ASSUME IInv, [Next]_vars PROVE IInv' OBVIOUS
<1>1. Typed /\ Flags BY DEF IInv
<1>2. CASE Next
  <2>1. ~clobbered' => ~clobbered BY <1>2, NotUndone
  <2>2. ~mixed' => ~mixed BY <1>2, NotUndone
  <2>3. Typed' /\ Flags' BY <1>1, <1>2, TypesKept
  <2>4. ~clobbered' => Once' BY <1>1, <1>2, <2>1, DumpedOnce DEF IInv
  <2>5. ~mixed' => InTurn' BY <1>1, <1>2, <2>2, InTurnTakes DEF IInv
  <2>6. ~clobbered' /\ ~mixed' => Holding' BY <1>1, <1>2, <2>1, <2>2, CrashesAreHeld DEF IInv
  <2> QED BY <2>3, <2>4, <2>5, <2>6 DEF IInv
<1>3. CASE UNCHANGED vars
  <2>1. /\ UNCHANGED <<life, suspended, crashNo, crashes, pending, buf, live, flash, tids, msg>>
        /\ UNCHANGED <<requests, answered, thread, dumping, dumped, step, caller, after, runs>>
        /\ UNCHANGED <<crash, formatter, loaded>>
    BY <1>3 DEF vars, worldVars, observerVars, queueVars, clientVars, dumpVars
  <2>2. /\ armed' = armed /\ signal' = signal /\ clobbered' = clobbered /\ cancelled' = cancelled
        /\ mixed' = mixed /\ failed' = failed
    BY <1>3, Zenon DEF vars, worldVars, observerVars, queueVars, clientVars, dumpVars
  <2>3. Fresh' = Fresh /\ Working' = Working BY <2>1, <2>2 DEF Fresh, Working
  <2>4. Typed' BY <1>1, <2>1, <2>3 DEF Typed
  <2>5. Flags' BY <1>1, <2>1, <2>2 DEF Flags
  <2>6. Accepted' = Accepted BY <2>1 DEF Accepted
  <2>7. Once => Once' BY <1>1, <2>1, <2>3, <2>6, OnceQuiet
  <2>8. InTurn => InTurn' BY <2>1 DEF InTurn
  <2>9. Holding => Holding' BY <2>1, <2>3, Quiet
  <2> QED BY <2>2, <2>4, <2>5, <2>7, <2>8, <2>9 DEF IInv
<1> QED BY <1>2, <1>3

LEMMA Invariant == Spec => []IInv
BY InitIInv, NextIInv, PTL DEF Spec

(* Every variable stays in its range; so an event is always that of a      *)
(* thread, and what is queued from flash always a crash log.               *)
THEOREM TypeCorrect == Spec => []TypeOK
<1>1. IInv => TypeOK
  <2> SUFFICES ASSUME Typed, Flags PROVE TypeOK BY DEF IInv
  <2>1. {NoCrash} \cup Events \cup Systems \subseteq Crashes
    <3>1. Events \subseteq Crashes BY DEF Events, Crashes
    <3>2. ASSUME NEW e \in Systems PROVE e \in Crashes
      <4>1. e = SystemCrash(e.of) /\ e.of \in Logs BY DEF Systems, SystemCrash
      <4> QED BY <4>1 DEF Crashes
    <3> QED BY <3>1, <3>2 DEF Crashes
  <2>2. pending \in Seq(Crashes) /\ live \in Seq(Crashes) /\ flash \in Seq(Crashes)
    <3>1. /\ \A s \in Seq(Events) : s \in Seq(Crashes)
          /\ \A s \in Seq(Systems) : s \in Seq(Crashes)
      BY <2>1
    <3> QED BY <3>1 DEF Typed
  <2>3. dumped \subseteq [crash : Crashes, by : 0..Formatters]
    BY <2>1 DEF Typed, Dumps
  <2>4. crash \in Crashes /\ dumping \in Crashes /\ buf \in Crashes BY <2>1 DEF Typed
  <2>5. /\ armed \in BOOLEAN /\ signal \in BOOLEAN /\ cancelled \in BOOLEAN /\ failed \in BOOLEAN
        /\ clobbered \in BOOLEAN /\ mixed \in BOOLEAN
    BY DEF Flags
  <2> QED BY <2>2, <2>3, <2>4, <2>5 DEF Typed, TypeOK, Running
<1> QED BY <1>1, Invariant, PTL

(* iTids: RunL notes a thread it has dumped for an exception before it     *)
(* resumes it, and HandleCrashEventL is not called for an end that finds   *)
(* its thread there.                                                       *)
THEOREM OneDump == Spec => []OneDumpPerDeath
<1>1. IInv => OneDumpPerDeath
  <2> SUFFICES ASSUME Once, NEW d \in dumped, NEW e \in dumped, d.crash.kind = "exc",
                      e.crash.kind = "kill", d.crash.n = e.crash.n
               PROVE  FALSE
    BY DEF IInv, OneDumpPerDeath
  <2>1. d.crash \in Traces /\ e.crash \in Accepted BY DEF Traces, Accepted
  <2>2. Apart(e.crash) BY <2>1 DEF Once, Spared
  <2> QED BY <2>1, <2>2 DEF Apart
<1> QED BY <1>1, Invariant, PTL

(* PostProcessL resumes a crashed thread, and the observer one nobody asked*)
(* for, only when no formatter's thread reads it.                          *)
THEOREM StaysStill == Spec => []StillWhileDumped
<1>1. IInv => StillWhileDumped
  <2> SUFFICES ASSUME InTurn, Holding, dumping.kind \in {"exc", "kill"}
               PROVE  dumping.of \in suspended \/ life[dumping.of] = "gone"
    BY DEF IInv, StillWhileDumped
  <2>1. dumping # NoCrash /\ dumping.kind # "system" BY Kinds
  <2>2. thread = "dumping" /\ dumping = crash BY <2>1 DEF InTurn
  <2>3. dumping.of \in Handling BY <2>1, <2>2 DEF Handling, Working, Running
  <2> QED BY <2>3 DEF Holding, Held
<1> QED BY <1>1, Invariant, PTL

===============================================================================
