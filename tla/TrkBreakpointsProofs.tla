------------------------- MODULE TrkBreakpointsProofs -------------------------
(* Proofs about TrkBreakpoints for any threads, any length of the program  *)
(* and any number of entries.  That the instructions planted are those the *)
(* list wants is kept only because no two entries share an address.        *)
EXTENDS TrkBreakpoints, SequenceTheorems, FiniteSetTheorems, WellFoundedInduction, TLAPS

NoSharing(b) ==
  /\ \A i, j \in DOMAIN b.user : b.user[i].addr = b.user[j].addr => i = j
  /\ \A i, j \in 1..Temps :
       b.temp[i].addr = b.temp[j].addr => i = j \/ b.temp[i].addr = 0
  /\ \A i \in DOMAIN b.user, j \in 1..Temps : b.user[i].addr # b.temp[j].addr

Wanted(b, a) ==
  \/ \E i \in DOMAIN b.user : b.user[i].addr = a /\ b.user[i].off = FALSE
  \/ \E i \in 1..Temps : b.temp[i].addr = a

Consistent(b) == NoSharing(b) /\ \A a \in Addrs : a \in b.code <=> Wanted(b, a)

IInv == TypeOK /\ (spoilt = "no" => Consistent(bps))

(* Every search of the driver that finds an entry finds a first one.       *)
LEMMA MinIn ==
  ASSUME NEW S \in SUBSET Nat, S # {}
  PROVE  Min(S) \in S
<1> DEFINE R == {ss \in Nat \X Nat : ss[1] < ss[2]}
<1>1. IsWellFoundedOn(R, Nat)
  BY NatLessThanWellFounded DEF OpToRel
<1>2. PICK x \in S : \A y \in S : ~(<<y, x>> \in R)
  <2> HIDE DEF R
  <2> QED BY <1>1, WFMin
<1>3. ASSUME NEW y \in S PROVE x =< y
  <2>1. <<y, x>> \notin R BY <1>2
  <2> QED BY <2>1
<1> QED BY <1>3 DEF Min

LEMMA Constants == Size \in Nat \ {0} /\ Temps \in Nat \ {0} /\ Buffer \in Nat /\ MaxUser \in Nat
  BY SizeAssumption, TempsAssumption

(* A mapping of the entries of the user one by one is a list of entries.   *)
LEMMA MappedUser ==
  ASSUME NEW s \in Seq(UserEntries), NEW f, f \in [DOMAIN s -> UserEntries]
  PROVE  f \in Seq(UserEntries) /\ Len(f) = Len(s) /\ DOMAIN f = DOMAIN s
<1>1. DOMAIN s = 1..Len(s) /\ Len(s) \in Nat
  OBVIOUS
<1> QED BY <1>1

LEMMA DisableKeeps ==
  ASSUME NEW b \in Books, NEW a \in Addrs
  PROVE  LET d == DisableBreakAtAddress(b, a)
         IN  /\ d \in Books /\ Len(d.user) = Len(b.user) /\ d.temp = b.temp
             /\ DOMAIN d.user = DOMAIN b.user
             /\ \A i \in DOMAIN b.user : d.user[i].addr = b.user[i].addr
             /\ Consistent(b) => Consistent(d)
<1> DEFINE d == DisableBreakAtAddress(b, a)
           u == [i \in DOMAIN b.user |->
                   IF i \in UserAt(b, a) THEN [b.user[i] EXCEPT !.off = TRUE] ELSE b.user[i]]
           c == IF UserAt(b, a) = {} THEN b.code ELSE b.code \ {a}
<1>0. b.user \in Seq(UserEntries) /\ b.temp \in [1..Temps -> TempEntries] /\ b.code \subseteq Addrs
  BY DEF Books
<1>1. d = [user |-> u, temp |-> b.temp, code |-> c]
  <2>1. d = [b EXCEPT !.user = u, !.code = c]
    BY DEF DisableBreakAtAddress
  <2> HIDE DEF u, c, d
  <2> QED BY <2>1 DEF Books
<1>2. \A i \in DOMAIN b.user : b.user[i] \in UserEntries
  BY <1>0
<1>3. \A i \in DOMAIN b.user :
         /\ u[i] \in UserEntries /\ u[i].addr = b.user[i].addr
         /\ b.user[i].addr = a => u[i].off = TRUE
         /\ b.user[i].addr # a => u[i] = b.user[i]
  BY <1>2 DEF UserAt, UserEntries
<1>4. u \in Seq(UserEntries) /\ Len(u) = Len(b.user) /\ DOMAIN u = DOMAIN b.user
  <2>1. u \in [DOMAIN b.user -> UserEntries] BY <1>3
  <2> HIDE DEF u
  <2> QED BY <2>1, <1>0, MappedUser
<1> HIDE DEF u, c
<1>5. d \in Books
  <2>1. c \subseteq Addrs BY <1>0 DEF c
  <2> QED BY <1>0, <1>1, <1>4, <2>1 DEF Books
<1>6. ASSUME Consistent(b) PROVE Consistent(d)
  <2>1. NoSharing(d)
    BY <1>1, <1>3, <1>4, <1>6 DEF Consistent, NoSharing
  <2>2. ASSUME NEW x \in Addrs PROVE x \in c <=> Wanted(d, x)
    <3>1. x \in b.code <=> Wanted(b, x)
      BY <1>6 DEF Consistent
    <3>2. CASE UserAt(b, a) = {}
      <4>1. Wanted(d, x) <=> Wanted(b, x)
        BY <3>2, <1>1, <1>3, <1>4 DEF Wanted, UserAt
      <4> QED BY <3>1, <3>2, <4>1 DEF c
    <3>3. CASE UserAt(b, a) # {} /\ x # a
      <4>1. Wanted(d, x) <=> Wanted(b, x)
        BY <3>3, <1>1, <1>3, <1>4 DEF Wanted
      <4> QED BY <3>1, <3>3, <4>1 DEF c
    <3>4. CASE UserAt(b, a) # {} /\ x = a
      <4>1. \A j \in 1..Temps : b.temp[j].addr # a
        BY <3>4, <1>6 DEF Consistent, NoSharing, UserAt
      <4>2. ~Wanted(d, x)
        BY <3>4, <4>1, <1>1, <1>3, <1>4 DEF Wanted
      <4> QED BY <3>4, <4>2 DEF c
    <3> QED BY <3>2, <3>3, <3>4
  <2> QED BY <2>1, <2>2, <1>1 DEF Consistent
<1> QED BY <1>1, <1>3, <1>4, <1>5, <1>6

LEMMA EnableKeeps ==
  ASSUME NEW b \in Books, NEW t \in Threads
  PROVE  LET e == DoEnableDisabledBreak(b, t)
         IN  /\ e \in Books /\ Len(e.user) = Len(b.user) /\ e.temp = b.temp
             /\ Consistent(b) => Consistent(e)
<1> DEFINE off == {i \in DOMAIN b.user : b.user[i].off /\ b.user[i].owner \in {t, All}}
           e == DoEnableDisabledBreak(b, t)
           k == Min(off)
<1>0. b.user \in Seq(UserEntries) /\ b.temp \in [1..Temps -> TempEntries] /\ b.code \subseteq Addrs
  BY DEF Books
<1>1. CASE off = {}
  <2>1. e = b BY <1>1 DEF DoEnableDisabledBreak
  <2> QED BY <2>1
<1>2. CASE off # {}
  <2> DEFINE u == [b.user EXCEPT ![k].off = FALSE]
             c == b.code \cup {b.user[k].addr}
  <2>1. k \in off
    <3>1. off \in SUBSET Nat BY <1>0
    <3> HIDE DEF off
    <3> QED BY <1>2, <3>1, MinIn
  <2>2. k \in DOMAIN b.user
    BY <2>1
  <2>3. e = [user |-> u, temp |-> b.temp, code |-> c]
    <3>1. e = [b EXCEPT !.user = u, !.code = c]
      BY <1>2 DEF DoEnableDisabledBreak
    <3> HIDE DEF u, c, e
    <3> QED BY <3>1 DEF Books
  <2> HIDE DEF k, off
  <2>4. \A i \in DOMAIN b.user : b.user[i] \in UserEntries
    BY <1>0
  <2>5. \A i \in DOMAIN b.user :
          /\ u[i] \in UserEntries /\ u[i].addr = b.user[i].addr
          /\ i = k => u[i].off = FALSE
          /\ i # k => u[i] = b.user[i]
    BY <2>2, <2>4 DEF UserEntries
  <2>6. u \in Seq(UserEntries) /\ Len(u) = Len(b.user) /\ DOMAIN u = DOMAIN b.user
    <3>1. u \in [DOMAIN b.user -> UserEntries] BY <2>5
    <3> HIDE DEF u
    <3> QED BY <3>1, <1>0, MappedUser
  <2> HIDE DEF u, c
  <2>7. e \in Books
    <3>1. c \subseteq Addrs BY <1>0, <2>2, <2>4 DEF c, UserEntries
    <3> QED BY <1>0, <2>3, <2>6, <3>1 DEF Books
  <2>8. ASSUME Consistent(b) PROVE Consistent(e)
    <3>1. NoSharing(e)
      BY <2>3, <2>5, <2>6, <2>8 DEF Consistent, NoSharing
    <3>2. ASSUME NEW x \in Addrs PROVE x \in c <=> Wanted(e, x)
      <4>1. x \in b.code <=> Wanted(b, x)
        BY <2>8 DEF Consistent
      <4>2. CASE x = b.user[k].addr
        <5>1. Wanted(e, x) BY <4>2, <2>2, <2>3, <2>5, <2>6 DEF Wanted
        <5> QED BY <5>1, <4>2 DEF c
      <4>3. CASE x # b.user[k].addr
        <5>1. Wanted(e, x) <=> Wanted(b, x)
          BY <4>3, <2>2, <2>3, <2>5, <2>6 DEF Wanted
        <5> QED BY <5>1, <4>1, <4>3 DEF c
      <4> QED BY <4>2, <4>3
    <3> QED BY <3>1, <3>2, <2>3 DEF Consistent
  <2> QED BY <2>3, <2>6, <2>7, <2>8
<1> QED BY <1>1, <1>2

(* The instruction at an address is restored when its entry is freed.      *)
LEMMA ClearTempKeeps ==
  ASSUME NEW b \in Books, NEW k \in 1..Temps, b.temp[k].addr # 0
  PROVE  LET e == ClearTemp(b, k)
         IN  /\ e \in Books /\ Len(e.user) = Len(b.user)
             /\ Consistent(b) => Consistent(e)
<1> DEFINE e == ClearTemp(b, k)
           q == [b.temp EXCEPT ![k] = Free]
           c == b.code \ {b.temp[k].addr}
<1>0. b.user \in Seq(UserEntries) /\ b.temp \in [1..Temps -> TempEntries] /\ b.code \subseteq Addrs
  BY DEF Books
<1>1. e = [user |-> b.user, temp |-> q, code |-> c]
  <2>1. e = [b EXCEPT !.temp = q, !.code = c] BY DEF ClearTemp, Books
  <2> HIDE DEF q, c, e
  <2> QED BY <2>1 DEF Books
<1>2. Free \in TempEntries /\ Free.addr = 0
  BY Constants DEF Free, TempEntries
<1>3. q \in [1..Temps -> TempEntries]
  BY <1>0, <1>2
<1>4. q[k].addr = 0 /\ \A j \in 1..Temps : j # k => q[j] = b.temp[j]
  BY <1>0, <1>2
<1> HIDE DEF q, c
<1>5. e \in Books
  <2>1. c \subseteq Addrs BY <1>0 DEF c
  <2> QED BY <1>0, <1>1, <1>3, <2>1 DEF Books
<1>6. ASSUME Consistent(b) PROVE Consistent(e)
  <2>1. \A i \in DOMAIN b.user : b.user[i].addr \in Addrs
    <3>1. \A i \in DOMAIN b.user : b.user[i] \in UserEntries BY <1>0
    <3> QED BY <3>1 DEF UserEntries
  <2>2. NoSharing(e)
    BY <1>1, <1>4, <1>6, <2>1, Constants DEF Consistent, NoSharing, Addrs
  <2>3. ASSUME NEW x \in Addrs PROVE x \in c <=> Wanted(e, x)
    <3>1. x \in b.code <=> Wanted(b, x)
      BY <1>6 DEF Consistent
    <3>2. x # 0 BY Constants DEF Addrs
    <3>3. CASE x = b.temp[k].addr
      <4>1. ~Wanted(e, x)
        BY <3>2, <3>3, <1>1, <1>4, <1>6 DEF Wanted, Consistent, NoSharing
      <4> QED BY <4>1, <3>3 DEF c
    <3>4. CASE x # b.temp[k].addr
      <4>1. Wanted(e, x) <=> Wanted(b, x)
        BY <3>2, <3>4, <1>1, <1>4 DEF Wanted
      <4> QED BY <4>1, <3>1, <3>4 DEF c
    <3> QED BY <3>3, <3>4
  <2> QED BY <2>2, <2>3, <1>1 DEF Consistent
<1> QED BY <1>1, <1>5, <1>6

(* A temporary breakpoint is planted where there is no entry yet.          *)
LEMMA SetTempKeeps ==
  ASSUME NEW b \in Books, NEW k \in 1..Temps, b.temp[k].addr = 0,
         NEW x \in Addrs, NEW entry \in TempEntries, entry.addr = x
  PROVE  LET e == SetTemp(b, k, entry)
         IN  /\ e \in Books /\ Len(e.user) = Len(b.user)
             /\ Consistent(b) /\ UserAt(b, x) = {} /\ TempsAt(b, x) = {} => Consistent(e)
<1> DEFINE e == SetTemp(b, k, entry)
           q == [b.temp EXCEPT ![k] = entry]
           c == b.code \cup {x}
<1>0. b.user \in Seq(UserEntries) /\ b.temp \in [1..Temps -> TempEntries] /\ b.code \subseteq Addrs
  BY DEF Books
<1>1. e = [user |-> b.user, temp |-> q, code |-> c]
  <2>1. e = [b EXCEPT !.temp = q, !.code = c] BY DEF SetTemp, Books
  <2> HIDE DEF q, c, e
  <2> QED BY <2>1 DEF Books
<1>2. q \in [1..Temps -> TempEntries]
  BY <1>0
<1>3. q[k].addr = x /\ \A j \in 1..Temps : j # k => q[j] = b.temp[j]
  BY <1>0
<1> HIDE DEF q, c
<1>4. e \in Books
  <2>1. c \subseteq Addrs BY <1>0 DEF c
  <2> QED BY <1>0, <1>1, <1>2, <2>1 DEF Books
<1>5. ASSUME Consistent(b), UserAt(b, x) = {}, TempsAt(b, x) = {} PROVE Consistent(e)
  <2>1. \A i \in DOMAIN b.user : b.user[i].addr # x
    BY <1>5 DEF UserAt
  <2>2. \A j \in 1..Temps : b.temp[j].addr # x
    BY <1>5 DEF TempsAt
  <2>3. NoSharing(e)
    BY <1>1, <1>3, <1>5, <2>1, <2>2 DEF Consistent, NoSharing
  <2>4. ASSUME NEW y \in Addrs PROVE y \in c <=> Wanted(e, y)
    <3>1. y \in b.code <=> Wanted(b, y)
      BY <1>5 DEF Consistent
    <3>2. CASE y = x
      <4>1. Wanted(e, y) BY <3>2, <1>1, <1>3 DEF Wanted
      <4> QED BY <4>1, <3>2 DEF c
    <3>3. CASE y # x
      <4>1. y # 0 BY Constants DEF Addrs
      <4>2. Wanted(e, y) <=> Wanted(b, y)
        BY <3>3, <4>1, <1>1, <1>3 DEF Wanted
      <4> QED BY <4>2, <3>1, <3>3 DEF c
    <3> QED BY <3>2, <3>3
  <2> QED BY <2>3, <2>4, <1>1 DEF Consistent
<1> QED BY <1>1, <1>4, <1>5

-------------------------------------------------------------------------------
LEMMA StepTargetType ==
  ASSUME NEW a \in Addrs, NEW to \in 0..(Size + 1)
  PROVE  StepTarget(a, to) \in Addrs
<1>1. After(a) \in Addrs BY Constants DEF After, Addrs
<1>2. Size \in Addrs BY Constants DEF Addrs
<1>3. CASE to - a \in 2..Buffer /\ Size \notin a..(to - 1)
  <2>1. to \in Addrs BY <1>3, Constants DEF Addrs
  <2> QED BY <1>3, <2>1 DEF StepTarget
<1>4. CASE to - a \in 2..Buffer /\ Size \in a..(to - 1)
  BY <1>1, <1>2, <1>4 DEF StepTarget
<1>5. CASE to - a \notin 2..Buffer
  BY <1>1, <1>5 DEF StepTarget
<1> QED BY <1>3, <1>4, <1>5

(* A result of a step or of resuming a thread.                             *)
Results == [bps : Books, ok : BOOLEAN, goal : 0..Size, trouble : Limits]

(* What every operation on the list owes to its caller.                    *)
Sound(b, r) ==
  /\ r \in Results /\ Len(r.bps.user) = Len(b.user)
  /\ Consistent(b) /\ r.trouble = "no" => Consistent(r.bps)

LEMMA ResultSound ==
  ASSUME NEW b, NEW d \in Books, NEW ok \in BOOLEAN, NEW x \in 0..Size, NEW trouble \in Limits,
         Len(d.user) = Len(b.user),
         Consistent(b) /\ trouble = "no" => Consistent(d)
  PROVE  Sound(b, [bps |-> d, ok |-> ok, goal |-> x, trouble |-> trouble])
<1> DEFINE r == [bps |-> d, ok |-> ok, goal |-> x, trouble |-> trouble]
<1> SUFFICES Sound(b, r) OBVIOUS
<1>1. r \in Results BY DEF Results
<1>2. r.bps = d /\ r.trouble = trouble OBVIOUS
<1> HIDE DEF r
<1> QED BY <1>1, <1>2 DEF Sound

(* A step that meets no limit leaves the instructions planted that the list*)
(* wants.                                                                  *)
LEMMA StepRangeSound ==
  ASSUME NEW b \in Books, NEW t \in Threads, NEW a \in Addrs,
         NEW from \in 0..Size, NEW to \in 0..(Size + 1), NEW once \in BOOLEAN
  PROVE  Sound(b, DoStepRange(b, t, a, from, to, once))
<1> DEFINE d == DisableBreakAtAddress(b, a)
           x == StepTarget(a, to)
           free == TempsAt(d, 0)
           r == DoStepRange(b, t, a, from, to, once)
           entry == [addr |-> x, thread |-> t, from |-> from, to |-> to, once |-> once]
           k == Min(free)
           trouble == r.trouble
           e == SetTemp(d, k, entry)
<1> SUFFICES Sound(b, r)
  OBVIOUS
<1>1. d \in Books /\ Len(d.user) = Len(b.user) /\ (Consistent(b) => Consistent(d))
  BY DisableKeeps
<1>2. x \in Addrs /\ x \in 0..Size
  BY StepTargetType DEF Addrs
<1>3. trouble \in Limits
  BY DEF DoStepRange, Limits
<1> HIDE DEF d, x
<1>4. CASE UserAt(d, x) # {}
  <2>1. r = [bps |-> d, ok |-> TRUE, goal |-> x, trouble |-> trouble]
    BY <1>4 DEF DoStepRange, d, x
  <2> HIDE DEF r, trouble
  <2> QED BY <1>1, <1>2, <1>3, <2>1, ResultSound
<1>5. CASE UserAt(d, x) = {} /\ free = {}
  <2>1. r = [bps |-> d, ok |-> FALSE, goal |-> 0, trouble |-> trouble]
    BY <1>5 DEF DoStepRange, d, x
  <2>2. FALSE \in BOOLEAN /\ 0 \in 0..Size BY Constants
  <2> HIDE DEF r, trouble
  <2> QED BY <1>1, <1>3, <2>1, <2>2, ResultSound
<1>6. CASE UserAt(d, x) = {} /\ free # {}
  <2>1. r = [bps |-> e, ok |-> TRUE, goal |-> x, trouble |-> trouble]
    BY <1>6 DEF DoStepRange, d, x
  <2>2. trouble = "no" => TempsAt(d, x) = {}
    BY <1>6 DEF DoStepRange, d, x
  <2>3. k \in 1..Temps /\ d.temp[k].addr = 0
    <3>1. free \in SUBSET Nat BY Constants DEF TempsAt
    <3>2. k \in free
      <4> HIDE DEF free
      <4> QED BY <1>6, <3>1, MinIn
    <3> QED BY <3>2 DEF TempsAt
  <2>4. entry \in TempEntries /\ entry.addr = x
    BY <1>2 DEF TempEntries
  <2> HIDE DEF r, free, entry, k, trouble
  <2>5. e \in Books /\ Len(e.user) = Len(d.user)
        /\ (Consistent(d) /\ UserAt(d, x) = {} /\ TempsAt(d, x) = {} => Consistent(e))
    BY <1>1, <1>2, <2>3, <2>4, SetTempKeeps
  <2> HIDE DEF e
  <2> QED BY <1>1, <1>2, <1>3, <1>6, <2>1, <2>2, <2>5, ResultSound
<1> QED BY <1>4, <1>5, <1>6

LEMMA ResumeSound ==
  ASSUME NEW b \in Books, NEW t \in Threads, NEW a \in Addrs
  PROVE  Sound(b, DoResumeThread(b, t, a))
<1>1. CASE UserAt(b, a) # {}
  <2>1. a \in 0..Size /\ a + 1 \in 0..(Size + 1)
    BY Constants DEF Addrs
  <2> QED BY <1>1, <2>1, StepRangeSound DEF DoResumeThread
<1>2. CASE UserAt(b, a) = {}
  BY <1>2, Constants DEF DoResumeThread, Sound, Results, Limits
<1> QED BY <1>1, <1>2

(* A step that cannot go on has met a limit.                               *)
LEMMA FailedStep ==
  ASSUME NEW b, NEW t, NEW a, NEW from, NEW to, NEW once,
         ~DoStepRange(b, t, a, from, to, once).ok
  PROVE  DoStepRange(b, t, a, from, to, once).trouble # "no"
BY DEF DoStepRange

LEMMA StepOnSound ==
  ASSUME NEW b \in Books, NEW t \in Threads, pc[t] \in Addrs, NEW x \in TempEntries
  PROVE  Sound(b, StepOn(b, t, x))
<1> DEFINE r == DoStepRange(b, t, pc[t], x.from, x.to, x.once)
           s == DoResumeThread(r.bps, t, pc[t])
<1>1. Sound(b, r)
  BY StepRangeSound DEF TempEntries
<1>2. CASE r.ok
  BY <1>1, <1>2 DEF StepOn
<1>3. CASE ~r.ok
  <2>1. r.trouble # "no"
    BY <1>3, FailedStep
  <2>2. Sound(r.bps, s)
    BY <1>1, ResumeSound DEF Sound, Results
  <2>3. StepOn(b, t, x) = [s EXCEPT !.trouble = r.trouble]
    BY <1>3 DEF StepOn
  <2> HIDE DEF r, s
  <2> QED BY <1>1, <2>1, <2>2, <2>3 DEF Sound, Results
<1> QED BY <1>2, <1>3

-------------------------------------------------------------------------------
Ranges == {None} \cup (Addrs \X (2..(Size + 1)))

(* An action that leaves a good list behind, or meets a limit, and records *)
(* sensible expectations keeps the invariant.                              *)
LEMMA StepKeeps ==
  ASSUME IInv,
         bps' \in Books, Len(bps'.user) <= MaxUser,
         pc' \in [Threads -> Addrs], mode' \in [Threads -> {"run", "told", "silent"}],
         NEW goals \in [Threads -> 0..Size], NEW ranges \in [Threads -> Ranges],
         NEW stopped \in SUBSET Threads, NEW trouble \in Limits,
         Track(goals, ranges, stopped, trouble),
         trouble = "no" => Consistent(bps')
  PROVE  IInv'
<1>1. spoilt' = trouble BY DEF Track
<1>2. goal' \in [Threads -> 0..Size] /\ stepping' \in [Threads -> Ranges] /\ seen' \subseteq Threads
  <2>1. CASE trouble = "no" BY <2>1 DEF Track
  <2>2. CASE trouble # "no"
    <3>1. goal' = [t \in Threads |-> 0] /\ stepping' = [t \in Threads |-> None] /\ seen' = {}
      BY <2>2 DEF Track
    <3> QED BY <3>1, Constants DEF Ranges
  <2> QED BY <2>1, <2>2
<1>3. overlap' \in BOOLEAN
  <2>1. CASE trouble = "no"
    <3> DEFINE steps == {t \in Threads : goals[t] # 0}
    <3>1. overlap' = (Cardinality(steps) > 1 \/ (overlap /\ steps # {}))
      BY <2>1 DEF Track
    <3> HIDE DEF steps
    <3> QED BY <3>1
  <2>2. CASE trouble # "no" BY <2>2 DEF Track
  <2> QED BY <2>1, <2>2
<1>4. TypeOK' BY <1>1, <1>2, <1>3 DEF TypeOK, Ranges
<1> QED BY <1>1, <1>4 DEF IInv

LEMMA TypeParts ==
  ASSUME IInv
  PROVE  /\ bps \in Books /\ Len(bps.user) <= MaxUser
         /\ pc \in [Threads -> Addrs] /\ mode \in [Threads -> {"run", "told", "silent"}]
         /\ goal \in [Threads -> 0..Size] /\ stepping \in [Threads -> Ranges]
         /\ seen \in SUBSET Threads
BY DEF IInv, TypeOK, Ranges

LEMMA NotSpoilt ==
  ASSUME IInv, NEW goals, NEW ranges, NEW stopped, NEW trouble,
         Track(goals, ranges, stopped, trouble)
  PROVE  Consistent(bps)
BY DEF IInv, Track

LEMMA EitherType ==
  ASSUME NEW first \in Limits, NEW second \in Limits
  PROVE  Either(first, second) \in Limits
         /\ (Either(first, second) = "no" => second = "no")
BY DEF Either

LEMMA InitIInv == Init => IInv
<1> SUFFICES ASSUME Init PROVE IInv
  OBVIOUS
<1>1. Free \in TempEntries /\ Free.addr = 0
  BY Constants DEF Free, TempEntries
<1> DEFINE q == [i \in 1..Temps |-> Free]
<1>2. bps = [user |-> <<>>, temp |-> q, code |-> {}]
  BY DEF Init
<1>3. q \in [1..Temps -> TempEntries] /\ \A i \in 1..Temps : q[i].addr = 0
  BY <1>1
<1> HIDE DEF q
<1>4. bps \in Books /\ Len(bps.user) <= MaxUser
  BY <1>2, <1>3, Constants DEF Books
<1>5. 1 \in Addrs /\ 0 \in 0..Size
  BY Constants DEF Addrs
<1>6. TypeOK
  BY <1>4, <1>5 DEF Init, TypeOK, Limits
<1>7. Consistent(bps)
  <2>1. DOMAIN bps.user = {} BY <1>2
  <2>2. NoSharing(bps) BY <1>2, <1>3, <2>1 DEF NoSharing
  <2>3. \A a \in Addrs : ~Wanted(bps, a)
    BY <1>2, <1>3, <2>1, Constants DEF Wanted, Addrs
  <2> QED BY <1>2, <2>2, <2>3 DEF Consistent
<1> QED BY <1>6, <1>7 DEF IInv

LEMMA ExecuteIInv ==
  ASSUME IInv, NEW t \in Threads, Execute(t)
  PROVE  IInv'
<1>1. pc' \in [Threads -> Addrs]
  <2>1. After(pc[t]) \in Addrs BY TypeParts, Constants DEF After, Addrs
  <2> QED BY <2>1, TypeParts DEF Execute
<1>2. Track(goal, stepping, seen \ {t}, "no") /\ bps' = bps /\ mode' = mode
  BY DEF Execute
<1>3. Consistent(bps')
  BY <1>2, NotSpoilt
<1>4. "no" \in Limits BY DEF Limits
<1> QED BY <1>1, <1>2, <1>3, <1>4, TypeParts, StepKeeps

LEMMA GoOnIInv ==
  ASSUME IInv, NEW t \in Threads, NEW r, NEW trouble \in Limits,
         GoOn(t, r, trouble),
         NEW b, Sound(b, r), Len(b.user) <= MaxUser, Consistent(b)
  PROVE  IInv'
<1> DEFINE goals == [goal EXCEPT ![t] = r.goal]
           limit == Either(trouble, r.trouble)
<1>1. r.bps \in Books /\ r.goal \in 0..Size /\ r.trouble \in Limits
      /\ Len(r.bps.user) = Len(b.user)
  BY DEF Sound, Results
<1>2. bps' = r.bps /\ pc' = pc /\ Track(goals, stepping, seen, limit)
  BY DEF GoOn
<1>3. mode' \in [Threads -> {"run", "told", "silent"}]
  BY TypeParts DEF GoOn
<1>4. goals \in [Threads -> 0..Size]
  BY <1>1, TypeParts
<1>5. limit \in Limits /\ (limit = "no" => Consistent(r.bps))
  BY <1>1, EitherType DEF Sound
<1> HIDE DEF goals, limit
<1> QED BY <1>1, <1>2, <1>3, <1>4, <1>5, TypeParts, StepKeeps

LEMMA ReportIInv ==
  ASSUME IInv, NEW t \in Threads, NEW b \in Books, Report(t, b),
         Len(b.user) <= MaxUser, Consistent(b)
  PROVE  IInv'
<1> DEFINE goals == [goal EXCEPT ![t] = 0]
           ranges == [stepping EXCEPT ![t] = None]
           limit == IF \E i \in 1..Temps : b.temp[i].thread = t THEN "left" ELSE "no"
<1>1. bps' = b /\ pc' = pc /\ Track(goals, ranges, seen \cup {t}, limit)
  BY DEF Report
<1>2. mode' \in [Threads -> {"run", "told", "silent"}]
  BY TypeParts DEF Report
<1>3. goals \in [Threads -> 0..Size] /\ ranges \in [Threads -> Ranges]
  BY TypeParts, Constants DEF Ranges
<1>4. limit \in Limits BY DEF Limits
<1>5. seen \cup {t} \in SUBSET Threads BY TypeParts
<1> HIDE DEF goals, ranges, limit
<1> QED BY <1>1, <1>2, <1>3, <1>4, <1>5, TypeParts, StepKeeps

(* A thread hits a temporary breakpoint.                                   *)
LEMMA TempHitIInv ==
  ASSUME IInv, NEW t \in Threads, TempHit(t)
  PROVE  IInv'
<1> DEFINE i == Min(TempsAt(bps, pc[t]))
           b == ClearTemp(DoEnableDisabledBreak(bps, t), i)
           x == bps.temp[i]
           whose == IF x.thread = t THEN "no" ELSE "foreign"
<1>1. pc[t] \in Addrs /\ bps \in Books /\ Len(bps.user) <= MaxUser
  BY TypeParts
<1>2. i \in 1..Temps /\ x.addr = pc[t]
  <2>1. TempsAt(bps, pc[t]) # {} /\ TempsAt(bps, pc[t]) \in SUBSET Nat
    BY Constants DEF TempHit, TempsAt
  <2>2. i \in TempsAt(bps, pc[t])
    BY <2>1, MinIn
  <2> QED BY <2>2 DEF TempsAt
<1>3. x \in TempEntries /\ x.addr # 0
  BY <1>1, <1>2, Constants DEF Books, Addrs
<1>4. b \in Books /\ Len(b.user) = Len(bps.user) /\ (Consistent(bps) => Consistent(b))
  <2> DEFINE e == DoEnableDisabledBreak(bps, t)
  <2>1. e \in Books /\ Len(e.user) = Len(bps.user) /\ e.temp = bps.temp
        /\ (Consistent(bps) => Consistent(e))
    BY <1>1, EnableKeeps
  <2> HIDE DEF e, i
  <2>2. ClearTemp(e, i) \in Books /\ Len(ClearTemp(e, i).user) = Len(e.user)
        /\ (Consistent(e) => Consistent(ClearTemp(e, i)))
    BY <2>1, <1>2, <1>3, ClearTempKeeps
  <2> QED BY <2>1, <2>2 DEF e
<1>5. whose \in Limits BY DEF Limits
<1>6. \/ GoOn(t, StepOn(b, t, x), whose)
      \/ GoOn(t, DoResumeThread(b, t, pc[t]), whose)
      \/ Report(t, b)
  BY DEF TempHit
<1> HIDE DEF b, x, i, whose
<1>7. Len(b.user) <= MaxUser BY <1>1, <1>4
<1>8. Consistent(bps) BY <1>6, NotSpoilt DEF GoOn, Report
<1>9. Sound(b, StepOn(b, t, x)) /\ Sound(b, DoResumeThread(b, t, pc[t]))
  BY <1>1, <1>3, <1>4, StepOnSound, ResumeSound
<1>10. CASE GoOn(t, StepOn(b, t, x), whose)
  BY <1>4, <1>5, <1>7, <1>8, <1>9, <1>10, GoOnIInv
<1>11. CASE GoOn(t, DoResumeThread(b, t, pc[t]), whose)
  BY <1>4, <1>5, <1>7, <1>8, <1>9, <1>11, GoOnIInv
<1>12. CASE Report(t, b)
  BY <1>4, <1>7, <1>8, <1>12, ReportIInv
<1> QED BY <1>6, <1>10, <1>11, <1>12

LEMMA UserHitIInv ==
  ASSUME IInv, NEW t \in Threads, UserHit(t)
  PROVE  IInv'
<1> DEFINE b == DoEnableDisabledBreak(bps, t)
           r == DoResumeThread(b, t, pc[t])
<1>1. pc[t] \in Addrs /\ bps \in Books /\ Len(bps.user) <= MaxUser
  BY TypeParts
<1>2. b \in Books /\ Len(b.user) = Len(bps.user) /\ (Consistent(bps) => Consistent(b))
  BY <1>1, EnableKeeps
<1>3. GoOn(t, r, "no") \/ Report(t, b)
  BY DEF UserHit
<1> HIDE DEF b
<1>4. Sound(b, r) /\ "no" \in Limits
  BY <1>1, <1>2, ResumeSound DEF Limits
<1> HIDE DEF r
<1>5. Consistent(bps) /\ Len(b.user) <= MaxUser
  BY <1>1, <1>2, <1>3, NotSpoilt DEF GoOn, Report
<1>6. CASE GoOn(t, r, "no")
  BY <1>2, <1>4, <1>5, <1>6, GoOnIInv
<1>7. CASE Report(t, b)
  BY <1>2, <1>5, <1>7, ReportIInv
<1> QED BY <1>3, <1>6, <1>7

LEMMA CommandIInv ==
  ASSUME IInv, NEW t \in Threads, NEW r, NEW range \in Ranges,
         Command(t, r, range), Sound(bps, r)
  PROVE  IInv'
<1> DEFINE goals == [goal EXCEPT ![t] = IF r.goal = 0 THEN @ ELSE r.goal]
           ranges == [stepping EXCEPT ![t] = range]
           limit == Either(Again(t), r.trouble)
<1>1. r.bps \in Books /\ r.goal \in 0..Size /\ r.trouble \in Limits
      /\ Len(r.bps.user) = Len(bps.user)
  BY DEF Sound, Results
<1>2. bps' = r.bps /\ pc' = pc /\ Track(goals, ranges, seen, limit)
  BY DEF Command
<1>3. mode' \in [Threads -> {"run", "told", "silent"}]
  BY TypeParts DEF Command
<1>4. goals \in [Threads -> 0..Size] /\ ranges \in [Threads -> Ranges]
  BY <1>1, TypeParts
<1>5. limit \in Limits /\ (limit = "no" => r.trouble = "no")
  <2>1. Again(t) \in Limits BY DEF Again, Limits
  <2> QED BY <1>1, <2>1, EitherType
<1> HIDE DEF goals, ranges, limit
<1>6. limit = "no" => Consistent(r.bps)
  BY <1>2, <1>5, NotSpoilt DEF Sound
<1>7. Len(r.bps.user) <= MaxUser BY <1>1, TypeParts
<1> QED BY <1>1, <1>2, <1>3, <1>4, <1>5, <1>6, <1>7, TypeParts, StepKeeps

LEMMA ContinueIInv ==
  ASSUME IInv, NEW t \in Threads, Continue(t)
  PROVE  IInv'
<1>1. Sound(bps, DoResumeThread(bps, t, pc[t]))
  BY TypeParts, ResumeSound
<1>2. None \in Ranges BY DEF Ranges
<1> QED BY <1>1, <1>2, CommandIInv DEF Continue

LEMMA StepRangeIInv ==
  ASSUME IInv, NEW t \in Threads, NEW from \in Lines, NEW to \in 2..(Size + 1),
         StepRange(t, from, to)
  PROVE  IInv'
<1>1. from \in Addrs /\ from \in 0..Size /\ to \in 0..(Size + 1) /\ FALSE \in BOOLEAN
  BY LinesAssumption, Constants DEF Addrs
<1>2. <<from, to>> \in Ranges
  BY <1>1 DEF Ranges
<1>3. Sound(bps, DoStepRange(bps, t, pc[t], from, to, FALSE))
  BY <1>1, TypeParts, StepRangeSound
<1> QED BY <1>2, <1>3, CommandIInv DEF StepRange

LEMMA SuspendIInv ==
  ASSUME IInv, NEW t \in Threads, DoSuspendThread(t)
  PROVE  IInv'
<1> DEFINE ranges == [stepping EXCEPT ![t] = None]
<1>1. bps' = bps /\ pc' = pc /\ Track(goal, ranges, seen \cup {t}, "no")
  BY DEF DoSuspendThread
<1>2. mode' \in [Threads -> {"run", "told", "silent"}]
  BY TypeParts DEF DoSuspendThread
<1>3. ranges \in [Threads -> Ranges] /\ seen \cup {t} \in SUBSET Threads
  BY TypeParts DEF Ranges
<1>4. Consistent(bps)
  BY <1>1, NotSpoilt
<1>5. "no" \in Limits BY DEF Limits
<1> HIDE DEF ranges
<1> QED BY <1>1, <1>2, <1>3, <1>4, <1>5, TypeParts, StepKeeps

LEMMA SetBreakIInv ==
  ASSUME IInv, NEW owner \in Owners, NEW a \in Addrs, DoSetBreak(owner, a)
  PROVE  IInv'
<1> DEFINE entry == [addr |-> a, owner |-> owner, off |-> FALSE]
           u == Append(bps.user, entry)
           c == bps.code \cup {a}
           n == Len(bps.user) + 1
           limit == IF TempsAt(bps, a) # {} THEN "shared" ELSE "no"
<1>0. bps \in Books /\ bps.user \in Seq(UserEntries) /\ Len(bps.user) < MaxUser
      /\ bps.temp \in [1..Temps -> TempEntries] /\ bps.code \subseteq Addrs
  BY TypeParts DEF Books, DoSetBreak
<1>1. entry \in UserEntries
  BY NamesAssumption DEF UserEntries
<1>2. bps' = [user |-> u, temp |-> bps.temp, code |-> c]
  <2>1. bps' = [bps EXCEPT !.user = u, !.code = c]
    BY DEF DoSetBreak
  <2> HIDE DEF u, c
  <2> QED BY <2>1, <1>0 DEF Books
<1>3. /\ u \in Seq(UserEntries) /\ Len(u) = n /\ DOMAIN u = 1..n /\ DOMAIN bps.user = 1..(n - 1)
      /\ n \in Nat \ {0} /\ u[n].addr = a /\ u[n].off = FALSE
      /\ \A i \in 1..(n - 1) : u[i] = bps.user[i]
  <2> HIDE DEF entry
  <2>1. u \in Seq(UserEntries) /\ Len(u) = n /\ u[n] = entry
        /\ \A i \in 1..(n - 1) : u[i] = bps.user[i]
    BY <1>0, <1>1, AppendProperties
  <2>2. entry.addr = a /\ entry.off = FALSE BY DEF entry
  <2> HIDE DEF u
  <2> QED BY <1>0, <2>1, <2>2
<1> HIDE DEF u, c, entry, n
<1>4. bps' \in Books /\ Len(bps'.user) <= MaxUser
  <2>1. c \subseteq Addrs BY <1>0 DEF c
  <2>2. Len(u) <= MaxUser BY <1>0, <1>3, Constants DEF n
  <2> QED BY <1>0, <1>2, <1>3, <2>1, <2>2 DEF Books
<1>5. Track(goal, stepping, seen, limit) /\ pc' = pc /\ mode' = mode
  BY DEF DoSetBreak
<1>6. limit \in Limits BY DEF Limits
<1>7. Consistent(bps) BY <1>5, NotSpoilt
<1>8. ASSUME limit = "no" PROVE Consistent(bps')
  <2>1. \A i \in 1..(n - 1) : bps.user[i].addr # a
    BY <1>3 DEF DoSetBreak, UserAt
  <2>2. \A j \in 1..Temps : bps.temp[j].addr # a
    BY <1>8 DEF TempsAt
  <2>3. \A i \in 1..n : i = n \/ i \in 1..(n - 1)
    BY <1>3
  <2>4. NoSharing(bps')
    <3>1. NoSharing(bps) /\ bps'.user = u /\ bps'.temp = bps.temp BY <1>2, <1>7 DEF Consistent
    <3>2. \A i, j \in 1..n : u[i].addr = u[j].addr => i = j
      BY <1>3, <2>1, <2>3, <3>1 DEF NoSharing
    <3>3. \A i \in 1..n, j \in 1..Temps : u[i].addr # bps.temp[j].addr
      BY <1>3, <2>2, <2>3, <3>1 DEF NoSharing
    <3> QED BY <1>3, <3>1, <3>2, <3>3 DEF NoSharing
  <2>5. ASSUME NEW x \in Addrs PROVE x \in c <=> Wanted(bps', x)
    <3>1. x \in bps.code <=> Wanted(bps, x)
      BY <1>7 DEF Consistent
    <3>2. CASE x = a
      <4>1. n \in DOMAIN u BY <1>3
      <4>2. Wanted(bps', x) BY <3>2, <4>1, <1>2, <1>3 DEF Wanted
      <4> QED BY <3>2, <4>2 DEF c
    <3>3. CASE x # a
      <4>1. \A i \in 1..(n - 1) : i \in DOMAIN u BY <1>3
      <4>2. Wanted(bps', x) <=> Wanted(bps, x)
        BY <3>3, <4>1, <1>2, <1>3, <2>3 DEF Wanted
      <4> QED BY <3>1, <3>3, <4>2 DEF c
    <3> QED BY <3>2, <3>3
  <2> QED BY <2>4, <2>5, <1>2 DEF Consistent
<1> HIDE DEF limit
<1> QED BY <1>4, <1>5, <1>6, <1>8, TypeParts, StepKeeps

(* A list without one of its entries.                                      *)
LEMMA RemovedEntry ==
  ASSUME NEW S, NEW s \in Seq(S), NEW k \in DOMAIN s
  PROVE  LET r == SubSeq(s, 1, k - 1) \o SubSeq(s, k + 1, Len(s))
         IN  /\ r \in Seq(S) /\ Len(r) = Len(s) - 1 /\ DOMAIN r = 1..(Len(s) - 1)
             /\ \A i \in DOMAIN r : r[i] = IF i < k THEN s[i] ELSE s[i + 1]
<1> DEFINE p == SubSeq(s, 1, k - 1)
           q == SubSeq(s, k + 1, Len(s))
<1>1. Len(s) \in Nat /\ k \in 1..Len(s) /\ \A i \in 1..Len(s) : s[i] \in S
  OBVIOUS
<1>2. p \in Seq(S) /\ Len(p) = k - 1 /\ \A i \in 1..(k - 1) : p[i] = s[i]
  <2>1. \A i \in 1..(k - 1) : s[i] \in S BY <1>1
  <2>2. p \in Seq(S) /\ Len(p) = (IF 1 <= k - 1 THEN (k - 1) - 1 + 1 ELSE 0)
        /\ \A i \in 1..((k - 1) - 1 + 1) : p[i] = s[1 + i - 1]
    BY <1>1, <2>1, SubSeqProperties
  <2> HIDE DEF p
  <2> QED BY <2>2, <1>1
<1>3. q \in Seq(S) /\ Len(q) = Len(s) - k /\ \A i \in 1..(Len(s) - k) : q[i] = s[k + i]
  <2>1. \A i \in (k + 1)..Len(s) : s[i] \in S BY <1>1
  <2>2. q \in Seq(S) /\ Len(q) = (IF k + 1 <= Len(s) THEN Len(s) - (k + 1) + 1 ELSE 0)
        /\ \A i \in 1..(Len(s) - (k + 1) + 1) : q[i] = s[(k + 1) + i - 1]
    BY <1>1, <2>1, SubSeqProperties
  <2> HIDE DEF q
  <2> QED BY <2>2, <1>1
<1> DEFINE r == p \o q
<1> HIDE DEF p, q
<1>4. r \in Seq(S) /\ Len(r) = Len(p) + Len(q)
      /\ \A i \in 1..(Len(p) + Len(q)) : r[i] = IF i <= Len(p) THEN p[i] ELSE q[i - Len(p)]
  BY <1>2, <1>3, ConcatProperties
<1> HIDE DEF r
<1>5. Len(r) = Len(s) - 1 /\ DOMAIN r = 1..(Len(s) - 1)
  BY <1>1, <1>2, <1>3, <1>4
<1>6. ASSUME NEW i \in DOMAIN r PROVE r[i] = IF i < k THEN s[i] ELSE s[i + 1]
  <2>1. CASE i < k BY <2>1, <1>1, <1>2, <1>3, <1>4, <1>5
  <2>2. CASE i >= k
    <3>1. i - Len(p) \in 1..(Len(s) - k) /\ k + (i - Len(p)) = i + 1 /\ ~(i <= Len(p))
      BY <2>2, <1>1, <1>2, <1>5
    <3>2. r[i] = q[i - Len(p)]
      BY <3>1, <1>1, <1>2, <1>3, <1>4, <1>5
    <3>3. q[i - Len(p)] = s[k + (i - Len(p))]
      BY <3>1, <1>3
    <3>4. ~(i < k)
      BY <2>2, <1>1, <1>5
    <3> QED BY <3>1, <3>2, <3>3, <3>4
  <2> QED BY <2>1, <2>2, <1>1, <1>5
<1> QED BY <1>4, <1>5, <1>6 DEF r, p, q

LEMMA ClearBreakIInv ==
  ASSUME IInv, NEW k \in DOMAIN bps.user, DoClearBreak(k)
  PROVE  IInv'
<1> DEFINE s == bps.user
           u == SubSeq(s, 1, k - 1) \o SubSeq(s, k + 1, Len(s))
           a == s[k].addr
           c == bps.code \ {a}
<1>0. bps \in Books /\ s \in Seq(UserEntries) /\ Len(s) <= MaxUser
      /\ bps.temp \in [1..Temps -> TempEntries] /\ bps.code \subseteq Addrs
  BY TypeParts DEF Books
<1>1. bps' = [user |-> u, temp |-> bps.temp, code |-> c]
  <2>1. bps' = [bps EXCEPT !.user = u, !.code = c]
    BY DEF DoClearBreak
  <2> HIDE DEF u, c
  <2> QED BY <2>1, <1>0 DEF Books
<1>2. /\ u \in Seq(UserEntries) /\ Len(u) = Len(s) - 1 /\ DOMAIN u = 1..(Len(s) - 1)
      /\ \A i \in DOMAIN u : u[i] = IF i < k THEN s[i] ELSE s[i + 1]
  BY <1>0, RemovedEntry
<1>3. Len(s) \in Nat /\ DOMAIN s = 1..Len(s) /\ k \in 1..Len(s)
  BY <1>0
<1>4. Track(goal, stepping, seen, Target(k)) /\ pc' = pc /\ mode' = mode
  BY DEF DoClearBreak
<1>5. Target(k) \in Limits BY DEF Target, Limits
<1>6. Consistent(bps) BY <1>4, NotSpoilt
<1> HIDE DEF u, c
<1>7. bps' \in Books /\ Len(bps'.user) <= MaxUser
  <2>1. c \subseteq Addrs BY <1>0 DEF c
  <2>2. Len(u) <= MaxUser BY <1>0, <1>2, <1>3, Constants
  <2> QED BY <1>0, <1>1, <1>2, <2>1, <2>2 DEF Books
(* The entries that are left are the others, each once.                    *)
<1>8. \A i \in DOMAIN u : \E j \in DOMAIN s : j # k /\ u[i] = s[j] /\ (j = i \/ j = i + 1)
  <2> SUFFICES ASSUME NEW i \in DOMAIN u
               PROVE  \E j \in DOMAIN s : j # k /\ u[i] = s[j] /\ (j = i \/ j = i + 1)
    OBVIOUS
  <2>1. CASE i < k
    <3>1. i \in DOMAIN s /\ i # k /\ u[i] = s[i] BY <2>1, <1>2, <1>3
    <3> QED BY <3>1
  <2>2. CASE ~(i < k)
    <3>1. i + 1 \in DOMAIN s /\ i + 1 # k /\ u[i] = s[i + 1] BY <2>2, <1>2, <1>3
    <3> QED BY <3>1
  <2> QED BY <2>1, <2>2
<1>9. \A j \in DOMAIN s : j # k => \E i \in DOMAIN u : u[i] = s[j]
  <2> SUFFICES ASSUME NEW j \in DOMAIN s, j # k PROVE \E i \in DOMAIN u : u[i] = s[j]
    OBVIOUS
  <2>1. CASE j < k
    <3>1. j \in DOMAIN u /\ u[j] = s[j] BY <2>1, <1>2, <1>3
    <3> QED BY <3>1
  <2>2. CASE j > k
    <3>1. j - 1 \in DOMAIN u /\ ~(j - 1 < k) /\ (j - 1) + 1 = j BY <2>2, <1>2, <1>3
    <3>2. u[j - 1] = s[j] BY <3>1, <1>2
    <3> QED BY <3>1, <3>2
  <2> QED BY <2>1, <2>2, <1>3
<1>10. NoSharing(bps')
  <2>1. \A i, j \in DOMAIN s : s[i].addr = s[j].addr => i = j
    BY <1>6 DEF Consistent, NoSharing
  <2>2. ASSUME NEW i \in DOMAIN u, NEW j \in DOMAIN u, u[i].addr = u[j].addr PROVE i = j
    <3> DEFINE f(h) == IF h < k THEN h ELSE h + 1
    <3>1. f(i) \in DOMAIN s /\ f(j) \in DOMAIN s /\ u[i] = s[f(i)] /\ u[j] = s[f(j)]
      BY SMTT(30), <1>2, <1>3
    <3>2. f(i) = f(j) BY <2>1, <2>2, <3>1
    <3> QED BY <3>2, <1>2, <1>3
  <2>3. \A i \in DOMAIN u, j \in 1..Temps : u[i].addr # bps.temp[j].addr
    BY <1>6, <1>8 DEF Consistent, NoSharing
  <2> QED BY <2>2, <2>3, <1>1, <1>6 DEF Consistent, NoSharing
<1>11. ASSUME NEW x \in Addrs PROVE x \in c <=> Wanted(bps', x)
  <2>1. x \in bps.code <=> Wanted(bps, x)
    BY <1>6 DEF Consistent
  <2>2. \A i \in DOMAIN s : s[i].addr = a => i = k
    BY <1>6 DEF Consistent, NoSharing
  <2>3. CASE x = a
    <3>1. \A i \in DOMAIN u : u[i].addr # a BY <1>8, <2>2
    <3>2. \A j \in 1..Temps : bps.temp[j].addr # a
      BY <1>6 DEF Consistent, NoSharing
    <3>3. ~Wanted(bps', x) BY <2>3, <3>1, <3>2, <1>1 DEF Wanted
    <3> QED BY <2>3, <3>3 DEF c
  <2>4. CASE x # a
    <3>1. Wanted(bps', x) <=> Wanted(bps, x)
      BY <2>4, <1>1, <1>8, <1>9 DEF Wanted
    <3> QED BY <2>1, <2>4, <3>1 DEF c
  <2> QED BY <2>3, <2>4
<1>12. Consistent(bps')
  BY <1>10, <1>11, <1>1 DEF Consistent
<1> QED BY <1>4, <1>5, <1>7, <1>12, TypeParts, StepKeeps

LEMMA ChangeBreakThreadIInv ==
  ASSUME IInv, NEW k \in DOMAIN bps.user, NEW t \in Threads, DoChangeBreakThread(k, t)
  PROVE  IInv'
<1> DEFINE s == bps.user
           u == [s EXCEPT ![k].owner = t]
           limit == Either(IF s[k].off THEN "foreign" ELSE "no", Target(k))
<1>0. bps \in Books /\ s \in Seq(UserEntries) /\ Len(s) <= MaxUser
      /\ bps.temp \in [1..Temps -> TempEntries] /\ bps.code \subseteq Addrs
  BY TypeParts DEF Books
<1>1. bps' = [user |-> u, temp |-> bps.temp, code |-> bps.code]
  <2>1. bps' = [bps EXCEPT !.user = u]
    BY DEF DoChangeBreakThread
  <2> HIDE DEF u
  <2> QED BY <2>1, <1>0 DEF Books
<1>2. \A i \in DOMAIN s : s[i] \in UserEntries
  BY <1>0
<1>3. \A i \in DOMAIN s :
         u[i] \in UserEntries /\ u[i].addr = s[i].addr /\ u[i].off = s[i].off
  BY <1>2 DEF UserEntries
<1>4. u \in Seq(UserEntries) /\ Len(u) = Len(s) /\ DOMAIN u = DOMAIN s
  <2>1. u \in [DOMAIN s -> UserEntries] BY <1>3
  <2> HIDE DEF u
  <2> QED BY <2>1, <1>0, MappedUser
<1>5. Track(goal, stepping, seen, limit) /\ pc' = pc /\ mode' = mode
  BY DEF DoChangeBreakThread
<1>6. limit \in Limits
  <2>1. "no" \in Limits /\ "foreign" \in Limits /\ Target(k) \in Limits
    BY DEF Target, Limits
  <2> QED BY <2>1, EitherType
<1>7. Consistent(bps) BY <1>5, NotSpoilt
<1> HIDE DEF u, limit
<1>8. bps' \in Books /\ Len(bps'.user) <= MaxUser
  BY <1>0, <1>1, <1>4 DEF Books
<1>9. Consistent(bps')
  <2>1. NoSharing(bps')
    BY <1>1, <1>3, <1>4, <1>7 DEF Consistent, NoSharing
  <2>2. \A x \in Addrs : Wanted(bps', x) <=> Wanted(bps, x)
    BY <1>1, <1>3, <1>4 DEF Wanted
  <2> QED BY <2>1, <2>2, <1>1, <1>7 DEF Consistent
<1> QED BY <1>5, <1>6, <1>8, <1>9, TypeParts, StepKeeps

LEMMA NextIInv == IInv /\ [Next]_vars => IInv'
<1> SUFFICES ASSUME IInv, [Next]_vars PROVE IInv'
  OBVIOUS
<1>1. ASSUME NEW t \in Threads, Execute(t) PROVE IInv' BY <1>1, ExecuteIInv
<1>2. ASSUME NEW t \in Threads, TempHit(t) PROVE IInv' BY <1>2, TempHitIInv
<1>3. ASSUME NEW t \in Threads, UserHit(t) PROVE IInv' BY <1>3, UserHitIInv
<1>4. ASSUME NEW t \in Threads, Continue(t) PROVE IInv' BY <1>4, ContinueIInv
<1>5. ASSUME NEW t \in Threads, DoSuspendThread(t) PROVE IInv' BY <1>5, SuspendIInv
<1>6. ASSUME NEW t \in Threads, NEW from \in Lines, NEW to \in 2..(Size + 1),
             StepRange(t, from, to) PROVE IInv'
  BY <1>6, StepRangeIInv
<1>7. ASSUME NEW owner \in Owners, NEW a \in Addrs, DoSetBreak(owner, a) PROVE IInv'
  BY <1>7, SetBreakIInv
<1>8. ASSUME NEW i \in DOMAIN bps.user, DoClearBreak(i) PROVE IInv' BY <1>8, ClearBreakIInv
<1>9. ASSUME NEW i \in DOMAIN bps.user, NEW t \in Threads, DoChangeBreakThread(i, t) PROVE IInv'
  BY <1>9, ChangeBreakThreadIInv
<1>10. CASE UNCHANGED vars
  BY <1>10 DEF vars, IInv, TypeOK, Consistent, NoSharing, Wanted
<1> QED BY <1>1, <1>2, <1>3, <1>4, <1>5, <1>6, <1>7, <1>8, <1>9, <1>10 DEF Next

-------------------------------------------------------------------------------
LEMMA ConsistentPlanted == IInv => PlantedExactly
<1> SUFFICES ASSUME IInv, spoilt = "no"
             PROVE  bps.code = {bps.user[i].addr : i \in DOMAIN bps.user \ Off}
                                 \cup ({bps.temp[i].addr : i \in 1..Temps} \ {0})
  BY DEF PlantedExactly
<1> DEFINE U == {bps.user[i].addr : i \in DOMAIN bps.user \ Off}
           T == {bps.temp[i].addr : i \in 1..Temps} \ {0}
<1>1. Consistent(bps) BY DEF IInv
<1>2. bps.code \subseteq Addrs BY TypeParts DEF Books
<1>3. \A i \in DOMAIN bps.user : bps.user[i] \in UserEntries
  BY TypeParts DEF Books
<1>4. \A i \in DOMAIN bps.user :
         bps.user[i].addr \in Addrs /\ (bps.user[i].off = FALSE <=> i \notin Off)
  BY <1>3 DEF UserEntries, Off
<1>5. \A i \in 1..Temps : bps.temp[i].addr \in Addrs \cup {0}
  BY TypeParts, Constants DEF Books, TempEntries, Addrs
<1>6. 0 \notin Addrs BY Constants DEF Addrs
<1>7. \A x \in Addrs : Wanted(bps, x) <=> x \in U \cup T
  BY <1>4, <1>6 DEF Wanted
<1>8. U \cup T \subseteq Addrs
  BY <1>4, <1>5
<1> QED BY <1>1, <1>2, <1>7, <1>8 DEF Consistent

(* The state of the breakpoints keeps its type: an index the driver finds  *)
(* by searching iBreakPointList is that of an entry, and the place where a *)
(* step is to end is one of the program.                                   *)
THEOREM TypeCorrect == Spec => []TypeOK
<1>1. IInv => TypeOK BY DEF IInv
<1> QED BY <1>1, InitIInv, NextIInv, PTL DEF Spec

(* Whatever the order in which the threads trap and the host sets, clears  *)
(* and steps, the instructions planted in the program are those the list   *)
(* wants, until a limit is met.                                            *)
THEOREM Planted == Spec => []PlantedExactly
<1> QED BY InitIInv, NextIInv, ConsistentPlanted, PTL DEF Spec
-------------------------------------------------------------------------------
(* The breakpoints that are disabled.  Either all of them are process wide *)
(* and there are no more of them than threads on a step, or each is meant  *)
(* for a thread of its own that is on a step.                              *)

OffOf(b) == {i \in DOMAIN b.user : b.user[i].off}
Disabled(b) == {b.user[i] : i \in OffOf(b)}
Steps(goals) == {t \in Threads : goals[t] # 0}

Fits(E, S) ==
  /\ IsFiniteSet(E) /\ IsFiniteSet(S)
  /\ \A e, f \in E : e.owner = All <=> f.owner = All
  /\ \A e \in E : e.owner # All => e.owner \in S
  /\ \A e, f \in E : e.owner # All /\ e.owner = f.owner => e = f
  /\ (\E e \in E : e.owner = All) => Cardinality(E) <= Cardinality(S)

LEMMA FitsLess ==
  ASSUME NEW E, NEW S, Fits(E, S), NEW D \in SUBSET E, NEW R, IsFiniteSet(R), S \subseteq R
  PROVE  Fits(D, R)
<1>1. /\ IsFiniteSet(E) /\ IsFiniteSet(S)
      /\ \A e, f \in E : e.owner = All <=> f.owner = All
      /\ \A e \in E : e.owner # All => e.owner \in S
      /\ \A e, f \in E : e.owner # All /\ e.owner = f.owner => e = f
      /\ (\E e \in E : e.owner = All) => Cardinality(E) <= Cardinality(S)
  BY DEF Fits
<1>2. IsFiniteSet(D) /\ Cardinality(D) <= Cardinality(E) BY <1>1, FS_Subset
<1>3. Cardinality(S) <= Cardinality(R) BY FS_Subset
<1>4. /\ Cardinality(D) \in Nat /\ Cardinality(E) \in Nat
      /\ Cardinality(S) \in Nat /\ Cardinality(R) \in Nat
  BY <1>1, <1>2, FS_CardinalityType
<1>5. (\E e \in D : e.owner = All) => Cardinality(D) <= Cardinality(R)
  BY <1>1, <1>2, <1>3, <1>4
<1> QED BY <1>1, <1>2, <1>5 DEF Fits

(* A trap of a thread takes one breakpoint from the disabled ones, unless  *)
(* there is none the thread could answer for.                              *)
LEMMA FitsEnabled ==
  ASSUME NEW E, NEW S, Fits(E, S), NEW t, NEW D,
         \/ D = E /\ \A e \in E : e.owner \notin {t, All}
         \/ \E e \in E : e.owner \in {t, All} /\ D = E \ {e}
  PROVE  Fits(D, S \ {t})
<1> DEFINE R == S \ {t}
<1>1. /\ IsFiniteSet(E) /\ IsFiniteSet(S)
      /\ \A e, f \in E : e.owner = All <=> f.owner = All
      /\ \A e \in E : e.owner # All => e.owner \in S
      /\ \A e, f \in E : e.owner # All /\ e.owner = f.owner => e = f
      /\ (\E e \in E : e.owner = All) => Cardinality(E) <= Cardinality(S)
  BY DEF Fits
<1>2. /\ IsFiniteSet(R) /\ Cardinality(S) \in Nat /\ Cardinality(R) \in Nat
      /\ Cardinality(R) >= Cardinality(S) - 1
  <2>1. /\ IsFiniteSet(R)
        /\ Cardinality(R) = IF t \in S THEN Cardinality(S) - 1 ELSE Cardinality(S)
    BY <1>1, FS_RemoveElement
  <2>2. Cardinality(S) \in Nat /\ Cardinality(R) \in Nat BY <1>1, <2>1, FS_CardinalityType
  <2> QED BY <2>1, <2>2
<1>3. CASE D = E /\ \A e \in E : e.owner \notin {t, All}
  BY <1>1, <1>2, <1>3 DEF Fits
<1>4. ASSUME NEW e \in E, e.owner \in {t, All}, D = E \ {e} PROVE Fits(D, R)
  <2>1. IsFiniteSet(D) /\ Cardinality(D) = Cardinality(E) - 1 /\ Cardinality(E) \in Nat
    BY <1>1, <1>4, FS_RemoveElement, FS_CardinalityType
  <2>2. (\E d \in D : d.owner = All) => Cardinality(D) <= Cardinality(R)
    BY <1>1, <1>2, <1>4, <2>1
  <2>3. \A d \in D : d.owner # All => d.owner \in R
    BY <1>1, <1>4
  <2> QED BY <1>1, <1>2, <1>4, <2>1, <2>2, <2>3 DEF Fits
<1> QED BY <1>3, <1>4

(* A thread that was not on a step disables the breakpoint it stands at.   *)
LEMMA FitsDisabled ==
  ASSUME NEW E, NEW S, Fits(E, S), NEW t, t \notin S, NEW d, d.owner \in {t, All},
         \A e \in E : e.owner = All <=> d.owner = All
  PROVE  Fits(E \cup {d}, S \cup {t})
<1> DEFINE R == S \cup {t}
           D == E \cup {d}
<1>1. /\ IsFiniteSet(E) /\ IsFiniteSet(S)
      /\ \A e, f \in E : e.owner = All <=> f.owner = All
      /\ \A e \in E : e.owner # All => e.owner \in S
      /\ \A e, f \in E : e.owner # All /\ e.owner = f.owner => e = f
      /\ (\E e \in E : e.owner = All) => Cardinality(E) <= Cardinality(S)
  BY DEF Fits
<1>2. /\ IsFiniteSet(R) /\ Cardinality(R) = Cardinality(S) + 1
      /\ IsFiniteSet(D) /\ Cardinality(D) <= Cardinality(E) + 1
      /\ Cardinality(S) \in Nat /\ Cardinality(E) \in Nat /\ Cardinality(D) \in Nat
  <2>1. IsFiniteSet(R) /\ Cardinality(R) = Cardinality(S) + 1 BY <1>1, FS_AddElement
  <2>2. /\ IsFiniteSet(D)
        /\ Cardinality(D) = IF d \in E THEN Cardinality(E) ELSE Cardinality(E) + 1
    BY <1>1, FS_AddElement
  <2>3. Cardinality(S) \in Nat /\ Cardinality(E) \in Nat /\ Cardinality(D) \in Nat
    BY <1>1, <2>2, FS_CardinalityType
  <2> QED BY <2>1, <2>2, <2>3
<1>3. (\E e \in D : e.owner = All) => Cardinality(D) <= Cardinality(R)
  <2> SUFFICES ASSUME NEW e \in D, e.owner = All PROVE Cardinality(D) <= Cardinality(R)
    OBVIOUS
  <2>1. CASE E = {}
    <3>1. Cardinality(E) = 0 BY <2>1, FS_EmptySet
    <3> QED BY <1>2, <3>1
  <2>2. CASE E # {}
    <3>1. \E f \in E : f.owner = All BY <1>1, <2>2
    <3> QED BY <1>1, <1>2, <3>1
  <2> QED BY <2>1, <2>2
<1>4. \A e \in D : e.owner # All => e.owner \in R BY <1>1
<1>5. \A e, f \in D : e.owner = All <=> f.owner = All BY <1>1
<1>6. \A e, f \in D : e.owner # All /\ e.owner = f.owner => e = f BY <1>1
<1> QED BY <1>2, <1>3, <1>4, <1>5, <1>6 DEF Fits

LEMMA FitsCount ==
  ASSUME NEW E, NEW S, Fits(E, S)
  PROVE  Cardinality(E) <= Cardinality(S)
<1>1. CASE \E e \in E : e.owner = All BY <1>1 DEF Fits
<1>2. CASE ~\E e \in E : e.owner = All
  <2> DEFINE f == [e \in E |-> e.owner]
  <2>1. /\ \A e \in E : f[e] \in S
        /\ \A e, d \in E : f[e] = f[d] => e = d
    BY <1>2 DEF Fits
  <2>2. f \in [E -> S] BY <2>1
  <2> HIDE DEF f
  <2>3. f \in Injection(E, S)
    BY <2>1, <2>2 DEF Injection, IsInjective
  <2> QED BY <2>3, FS_Injection DEF Fits
<1> QED BY <1>1, <1>2

LEMMA SameUser ==
  ASSUME NEW b, NEW d, d.user = b.user
  PROVE  Disabled(d) = Disabled(b)
BY DEF Disabled, OffOf

LEMMA EnableFits ==
  ASSUME NEW b \in Books, NEW t \in Threads, NoSharing(b), NEW S, Fits(Disabled(b), S)
  PROVE  Fits(Disabled(DoEnableDisabledBreak(b, t)), S \ {t})
<1> DEFINE off == {i \in DOMAIN b.user : b.user[i].off /\ b.user[i].owner \in {t, All}}
           e == DoEnableDisabledBreak(b, t)
           k == Min(off)
<1>0. b.user \in Seq(UserEntries) /\ b.temp \in [1..Temps -> TempEntries] /\ b.code \subseteq Addrs
  BY DEF Books
<1>1. CASE off = {}
  <2>1. e = b BY <1>1 DEF DoEnableDisabledBreak
  <2>2. \A x \in Disabled(b) : x.owner \notin {t, All} BY <1>1 DEF Disabled, OffOf
  <2> HIDE DEF e
  <2> QED BY <2>1, <2>2, FitsEnabled DEF e
<1>2. CASE off # {}
  <2> DEFINE u == [b.user EXCEPT ![k].off = FALSE]
             c == b.code \cup {b.user[k].addr}
  <2>1. k \in off
    <3>1. off \in SUBSET Nat BY <1>0
    <3> HIDE DEF off
    <3> QED BY <1>2, <3>1, MinIn
  <2>2. k \in DOMAIN b.user /\ b.user[k].off /\ b.user[k].owner \in {t, All}
    BY <2>1
  <2>3. e.user = u
    <3>1. e = [b EXCEPT !.user = u, !.code = c]
      BY <1>2 DEF DoEnableDisabledBreak
    <3> HIDE DEF u, c, e
    <3> QED BY <3>1 DEF Books
  <2> HIDE DEF k, off
  <2>4. \A i \in DOMAIN b.user : b.user[i] \in UserEntries
    BY <1>0
  <2>5. /\ DOMAIN u = DOMAIN b.user /\ u[k].off = FALSE
        /\ \A i \in DOMAIN b.user : i # k => u[i] = b.user[i]
    BY <2>2, <2>4 DEF UserEntries
  <2> HIDE DEF u, e
  <2>6. OffOf(e) = OffOf(b) \ {k} BY <2>2, <2>3, <2>5 DEF OffOf
  <2>7. Disabled(e) = Disabled(b) \ {b.user[k]}
    <3>1. \A i \in OffOf(b) : b.user[i] = b.user[k] => i = k
      BY <2>2 DEF NoSharing, OffOf
    <3>2. \A i \in OffOf(e) : e.user[i] = b.user[i] /\ i \in OffOf(b) /\ i # k
      BY <2>3, <2>5, <2>6 DEF OffOf
    <3>3. \A i \in OffOf(b) : i # k => i \in OffOf(e) BY <2>6
    <3> QED BY <3>1, <3>2, <3>3 DEF Disabled
  <2>8. b.user[k] \in Disabled(b) BY <2>2 DEF Disabled, OffOf
  <2> QED BY <2>2, <2>7, <2>8, FitsEnabled DEF e
<1> QED BY <1>1, <1>2

LEMMA DisableFits ==
  ASSUME NEW b \in Books, NEW a \in Addrs, NoSharing(b), NEW t, NEW S, t \notin S,
         Fits(Disabled(b), S),
         \A i \in UserAt(b, a) : b.user[i].owner \in {t, All},
         \A i, j \in OffOf(DisableBreakAtAddress(b, a)) :
           DisableBreakAtAddress(b, a).user[i].owner = All
             <=> DisableBreakAtAddress(b, a).user[j].owner = All
  PROVE  Fits(Disabled(DisableBreakAtAddress(b, a)), S \cup {t})
<1> DEFINE d == DisableBreakAtAddress(b, a)
           u == [i \in DOMAIN b.user |->
                   IF i \in UserAt(b, a) THEN [b.user[i] EXCEPT !.off = TRUE] ELSE b.user[i]]
           c == IF UserAt(b, a) = {} THEN b.code ELSE b.code \ {a}
<1>1. d.user = u
  <2>1. d = [b EXCEPT !.user = u, !.code = c]
    BY DEF DisableBreakAtAddress
  <2> HIDE DEF u, c, d
  <2> QED BY <2>1 DEF Books
<1>2. \A i \in DOMAIN b.user : b.user[i] \in UserEntries
  BY DEF Books
<1>3. \A i, j \in OffOf(d) : d.user[i].owner = All <=> d.user[j].owner = All
  OBVIOUS
<1>4. \A i \in DOMAIN b.user :
         /\ i \in UserAt(b, a) => /\ u[i].off = TRUE /\ u[i].owner = b.user[i].owner
                                  /\ b.user[i].off => u[i] = b.user[i]
         /\ i \notin UserAt(b, a) => u[i] = b.user[i]
  BY <1>2 DEF UserAt, UserEntries
<1>5. DOMAIN u = DOMAIN b.user OBVIOUS
<1> HIDE DEF u, d
<1>6. \A i, j \in UserAt(b, a) : i = j BY DEF UserAt, NoSharing
<1>7. IsFiniteSet(S \cup {t}) BY FS_AddElement DEF Fits
<1>8. CASE UserAt(b, a) = {}
  <2>1. Disabled(d) = Disabled(b) BY <1>1, <1>4, <1>5, <1>8 DEF Disabled, OffOf
  <2> QED BY <1>7, <2>1, FitsLess DEF d
<1>9. ASSUME NEW k \in UserAt(b, a) PROVE Fits(Disabled(d), S \cup {t})
  <2>1. k \in DOMAIN b.user /\ u[k].off = TRUE /\ u[k].owner \in {t, All} BY <1>4 DEF UserAt
  <2>2. Disabled(d) = Disabled(b) \cup {u[k]}
    <3>1. \A i \in OffOf(d) : u[i] \in Disabled(b) \cup {u[k]}
      BY <1>1, <1>4, <1>5, <1>6 DEF Disabled, OffOf
    <3>2. \A i \in OffOf(b) : i \in OffOf(d) /\ u[i] = b.user[i]
      BY <1>1, <1>4, <1>5 DEF OffOf
    <3>3. k \in OffOf(d) BY <1>1, <1>5, <2>1 DEF OffOf
    <3> QED BY <1>1, <3>1, <3>2, <3>3 DEF Disabled
  <2>3. \A e \in Disabled(d) : e.owner = All <=> u[k].owner = All
    <3>1. k \in OffOf(d) BY <1>1, <1>5, <2>1 DEF OffOf
    <3> QED BY <1>1, <1>3, <3>1 DEF Disabled
  <2> QED BY <2>1, <2>2, <2>3, FitsDisabled
<1> QED BY <1>8, <1>9 DEF d

(* A step that meets no limit knows where it is to end.                    *)
LEMMA StepFits ==
  ASSUME NEW b \in Books, NEW t \in Threads, NEW a \in Addrs,
         NEW from \in 0..Size, NEW to \in 0..(Size + 1), NEW once \in BOOLEAN,
         NoSharing(b), NEW S, t \notin S, Fits(Disabled(b), S),
         DoStepRange(b, t, a, from, to, once).trouble = "no"
  PROVE  /\ DoStepRange(b, t, a, from, to, once).goal # 0
         /\ Fits(Disabled(DoStepRange(b, t, a, from, to, once).bps), S \cup {t})
<1> DEFINE d == DisableBreakAtAddress(b, a)
           x == StepTarget(a, to)
           free == TempsAt(d, 0)
           r == DoStepRange(b, t, a, from, to, once)
           entry == [addr |-> x, thread |-> t, from |-> from, to |-> to, once |-> once]
           k == Min(free)
<1>1. d \in Books BY DisableKeeps
<1>2. x # 0
  <2>1. x \in Addrs BY StepTargetType
  <2> QED BY <2>1, Constants DEF Addrs
<1>3. \A i \in UserAt(b, a) : b.user[i].owner \in {t, All}
  BY DEF DoStepRange
<1>4. ~\E i, j \in DOMAIN d.user :
          /\ d.user[i].off /\ d.user[i].owner = All
          /\ d.user[j].off /\ d.user[j].owner # All
  BY DEF DoStepRange
<1>5. \A i, j \in OffOf(d) : d.user[i].owner = All <=> d.user[j].owner = All
  BY <1>4 DEF OffOf
<1>6. Fits(Disabled(d), S \cup {t})
  BY <1>3, <1>5, DisableFits
<1>7. CASE UserAt(d, x) # {}
  <2>1. r = [bps |-> d, ok |-> TRUE, goal |-> x, trouble |-> r.trouble]
    BY <1>7 DEF DoStepRange
  <2>2. r.bps = d /\ r.goal = x BY <2>1
  <2> HIDE DEF r
  <2> QED BY <1>2, <1>6, <2>2 DEF r
<1>8. CASE UserAt(d, x) = {} /\ free # {}
  <2>1. r = [bps |-> SetTemp(d, k, entry), ok |-> TRUE, goal |-> x, trouble |-> r.trouble]
    BY <1>8 DEF DoStepRange
  <2>2. r.bps = SetTemp(d, k, entry) /\ r.goal = x BY <2>1
  <2> HIDE DEF r, d, entry, k
  <2>3. SetTemp(d, k, entry).user = d.user BY <1>1 DEF SetTemp, Books
  <2>4. Disabled(r.bps) = Disabled(d) BY <2>2, <2>3, SameUser
  <2> QED BY <1>2, <1>6, <2>2, <2>4 DEF r
<1>9. CASE UserAt(d, x) = {} /\ free = {}
  <2>1. r.trouble # "no" BY <1>9 DEF DoStepRange
  <2> QED BY <2>1
<1> QED BY <1>7, <1>8, <1>9

LEMMA ResumeFits ==
  ASSUME NEW b \in Books, NEW t \in Threads, NEW a \in Addrs,
         NoSharing(b), NEW S, t \notin S, Fits(Disabled(b), S),
         DoResumeThread(b, t, a).trouble = "no"
  PROVE  LET r == DoResumeThread(b, t, a)
         IN  Fits(Disabled(r.bps), IF r.goal # 0 THEN S \cup {t} ELSE S)
<1>1. CASE UserAt(b, a) # {}
  <2>1. a \in 0..Size /\ a + 1 \in 0..(Size + 1) BY Constants DEF Addrs
  <2>2. DoResumeThread(b, t, a) = DoStepRange(b, t, a, a, a + 1, TRUE)
    BY <1>1 DEF DoResumeThread
  <2> QED BY <2>1, <2>2, StepFits
<1>2. CASE UserAt(b, a) = {}
  BY <1>2 DEF DoResumeThread
<1> QED BY <1>1, <1>2

(* The invariant: what the host may expect, and the limits, speak of it.   *)
DInv == IInv /\ (spoilt = "no" => Fits(Disabled(bps), Steps(goal)))

LEMMA Tracked ==
  ASSUME DInv, NEW goals, NEW ranges, NEW stopped, NEW trouble,
         Track(goals, ranges, stopped, trouble),
         trouble = "no" => Fits(Disabled(bps'), Steps(goals))
  PROVE  spoilt' = "no" => Fits(Disabled(bps'), Steps(goal'))
BY DEF Track

LEMMA NotSpoiltYet ==
  ASSUME DInv, NEW goals, NEW ranges, NEW stopped, NEW trouble,
         Track(goals, ranges, stopped, trouble)
  PROVE  NoSharing(bps) /\ Fits(Disabled(bps), Steps(goal))
BY DEF Track, DInv, IInv, Consistent

LEMMA StepsAfter ==
  ASSUME NEW goals \in [Threads -> 0..Size], NEW t \in Threads, NEW x
  PROVE  Steps([goals EXCEPT ![t] = x])
           = IF x = 0 THEN Steps(goals) \ {t} ELSE (Steps(goals) \ {t}) \cup {t}
BY DEF Steps

(* What is left of the handling of a trap.                                 *)
LEMMA GoOnFits ==
  ASSUME DInv, NEW t \in Threads, NEW r, NEW trouble, GoOn(t, r, trouble),
         r.trouble = "no" =>
           Fits(Disabled(r.bps), IF r.goal # 0 THEN (Steps(goal) \ {t}) \cup {t}
                                               ELSE Steps(goal) \ {t})
  PROVE  spoilt' = "no" => Fits(Disabled(bps'), Steps(goal'))
<1> DEFINE goals == [goal EXCEPT ![t] = r.goal]
           limit == Either(trouble, r.trouble)
<1>1. bps' = r.bps /\ Track(goals, stepping, seen, limit) BY DEF GoOn
<1>2. goal \in [Threads -> 0..Size] BY TypeParts DEF DInv
<1>3. Steps(goals) = IF r.goal = 0 THEN Steps(goal) \ {t} ELSE (Steps(goal) \ {t}) \cup {t}
  BY <1>2, StepsAfter
<1>4. limit = "no" => r.trouble = "no" BY DEF Either
<1> HIDE DEF goals, limit
<1> QED BY <1>1, <1>3, <1>4, Tracked

LEMMA ReportFits ==
  ASSUME DInv, NEW t \in Threads, NEW b, Report(t, b), Fits(Disabled(b), Steps(goal) \ {t})
  PROVE  spoilt' = "no" => Fits(Disabled(bps'), Steps(goal'))
<1> DEFINE goals == [goal EXCEPT ![t] = 0]
           limit == IF \E i \in 1..Temps : b.temp[i].thread = t THEN "left" ELSE "no"
           ranges == [stepping EXCEPT ![t] = None]
<1>1. bps' = b /\ Track(goals, ranges, seen \cup {t}, limit) BY DEF Report
<1>2. goal \in [Threads -> 0..Size] BY TypeParts DEF DInv
<1>3. Steps(goals) = Steps(goal) \ {t} BY <1>2, StepsAfter
<1> HIDE DEF goals, limit, ranges
<1> QED BY <1>1, <1>3, Tracked

LEMMA TempHitFits ==
  ASSUME DInv, NEW t \in Threads, TempHit(t)
  PROVE  spoilt' = "no" => Fits(Disabled(bps'), Steps(goal'))
<1> DEFINE i == Min(TempsAt(bps, pc[t]))
           e == DoEnableDisabledBreak(bps, t)
           b == ClearTemp(e, i)
           x == bps.temp[i]
           whose == IF x.thread = t THEN "no" ELSE "foreign"
           R == Steps(goal) \ {t}
<1>1. pc[t] \in Addrs /\ bps \in Books
  BY TypeParts DEF DInv
<1>2. i \in 1..Temps /\ x.addr = pc[t]
  <2>1. TempsAt(bps, pc[t]) # {} /\ TempsAt(bps, pc[t]) \in SUBSET Nat
    BY Constants DEF TempHit, TempsAt
  <2>2. i \in TempsAt(bps, pc[t])
    BY <2>1, MinIn
  <2> QED BY <2>2 DEF TempsAt
<1>3. x \in TempEntries /\ x.addr # 0
  BY <1>1, <1>2, Constants DEF Books, Addrs
<1>4. \/ GoOn(t, StepOn(b, t, x), whose)
      \/ GoOn(t, DoResumeThread(b, t, pc[t]), whose)
      \/ Report(t, b)
  BY DEF TempHit
<1>5. e \in Books /\ e.temp = bps.temp /\ (Consistent(bps) => Consistent(e))
  BY <1>1, EnableKeeps
<1> HIDE DEF e, x, i, whose
<1>6. NoSharing(bps) /\ Fits(Disabled(bps), Steps(goal)) /\ Consistent(bps)
  BY <1>4, NotSpoiltYet, NotSpoilt DEF GoOn, Report, DInv
<1>7. b \in Books /\ Consistent(b)
  <2>1. e.temp[i].addr # 0 BY <1>3, <1>5 DEF x
  <2> QED BY <1>2, <1>5, <1>6, <2>1, ClearTempKeeps
<1>8. Fits(Disabled(b), R)
  <2>1. Fits(Disabled(e), R) BY <1>1, <1>6, EnableFits DEF e
  <2>2. b.user = e.user BY <1>5 DEF ClearTemp, Books
  <2> HIDE DEF b
  <2> QED BY <2>1, <2>2, SameUser
<1> HIDE DEF b
<1>9. NoSharing(b) BY <1>7 DEF Consistent
<1>10. t \notin R /\ x.from \in 0..Size /\ x.to \in 0..(Size + 1) /\ x.once \in BOOLEAN
  BY <1>3 DEF TempEntries
<1> HIDE DEF R
<1>11. CASE GoOn(t, StepOn(b, t, x), whose)
  <2> DEFINE r == DoStepRange(b, t, pc[t], x.from, x.to, x.once)
             s == DoResumeThread(r.bps, t, pc[t])
  <2>1. CASE r.ok
    <3>1. StepOn(b, t, x) = r BY <2>1 DEF StepOn
    <3>2. r.trouble = "no" => r.goal # 0 /\ Fits(Disabled(r.bps), R \cup {t})
      BY ZenonT(30), <1>1, <1>7, <1>8, <1>9, <1>10, StepFits
    <3> HIDE DEF r
    <3> QED BY <1>11, <3>1, <3>2, GoOnFits DEF R
  <2>2. CASE ~r.ok
    <3>1. r.trouble # "no" BY <2>2, FailedStep
    <3>2. StepOn(b, t, x) = [s EXCEPT !.trouble = r.trouble] BY <2>2 DEF StepOn
    <3>3. Sound(b, r) BY <1>1, <1>7, <1>10, StepRangeSound
    <3>4. Sound(r.bps, s) BY <1>1, <3>3, ResumeSound DEF Sound, Results
    <3> HIDE DEF r, s
    <3>5. StepOn(b, t, x).trouble # "no" BY <3>1, <3>2, <3>4 DEF Sound, Results
    <3> QED BY <1>11, <3>5, GoOnFits
  <2> QED BY <2>1, <2>2
<1>12. CASE GoOn(t, DoResumeThread(b, t, pc[t]), whose)
  <2> DEFINE r == DoResumeThread(b, t, pc[t])
  <2>1. r.trouble = "no" => Fits(Disabled(r.bps), IF r.goal # 0 THEN R \cup {t} ELSE R)
    BY <1>1, <1>7, <1>8, <1>9, <1>10, ResumeFits
  <2> HIDE DEF r
  <2> QED BY <1>12, <2>1, GoOnFits DEF R, r
<1>13. CASE Report(t, b)
  BY <1>8, <1>13, ReportFits DEF R
<1> QED BY <1>4, <1>11, <1>12, <1>13

LEMMA UserHitFits ==
  ASSUME DInv, NEW t \in Threads, UserHit(t)
  PROVE  spoilt' = "no" => Fits(Disabled(bps'), Steps(goal'))
<1> DEFINE b == DoEnableDisabledBreak(bps, t)
           r == DoResumeThread(b, t, pc[t])
           R == Steps(goal) \ {t}
<1>1. pc[t] \in Addrs /\ bps \in Books
  BY TypeParts DEF DInv
<1>2. b \in Books /\ (Consistent(bps) => Consistent(b))
  BY <1>1, EnableKeeps
<1>3. GoOn(t, r, "no") \/ Report(t, b)
  BY DEF UserHit
<1> HIDE DEF b
<1>4. NoSharing(bps) /\ Fits(Disabled(bps), Steps(goal)) /\ Consistent(bps)
  BY <1>3, NotSpoiltYet, NotSpoilt DEF GoOn, Report, DInv
<1>5. Fits(Disabled(b), R) /\ NoSharing(b) /\ t \notin R
  BY <1>1, <1>2, <1>4, EnableFits DEF b, Consistent
<1> HIDE DEF R
<1>6. CASE GoOn(t, r, "no")
  <2>1. r.trouble = "no" => Fits(Disabled(r.bps), IF r.goal # 0 THEN R \cup {t} ELSE R)
    BY <1>1, <1>2, <1>5, ResumeFits
  <2> HIDE DEF r
  <2> QED BY <1>6, <2>1, GoOnFits DEF R
<1>7. CASE Report(t, b)
  BY <1>5, <1>7, ReportFits DEF R
<1> QED BY <1>3, <1>6, <1>7

(* A command to a thread that is on a step already meets the limit "again".*)
LEMMA CommandFits ==
  ASSUME DInv, NEW t \in Threads, NEW r, NEW range, Command(t, r, range),
         ASSUME NoSharing(bps), Fits(Disabled(bps), Steps(goal)), t \notin Steps(goal),
                r.trouble = "no"
         PROVE  Fits(Disabled(r.bps), IF r.goal # 0 THEN Steps(goal) \cup {t} ELSE Steps(goal))
  PROVE  spoilt' = "no" => Fits(Disabled(bps'), Steps(goal'))
<1> DEFINE goals == [goal EXCEPT ![t] = IF r.goal = 0 THEN @ ELSE r.goal]
           ranges == [stepping EXCEPT ![t] = range]
           limit == Either(Again(t), r.trouble)
<1>1. bps' = r.bps /\ Track(goals, ranges, seen, limit)
  BY DEF Command
<1>2. NoSharing(bps) /\ Fits(Disabled(bps), Steps(goal)) BY <1>1, NotSpoiltYet
<1>3. goal \in [Threads -> 0..Size] BY TypeParts DEF DInv
<1>4. ASSUME limit = "no" PROVE Fits(Disabled(r.bps), Steps(goals))
  <2>1. Again(t) = "no" /\ r.trouble = "no" BY <1>4 DEF Either
  <2>2. t \notin Steps(goal) /\ goal[t] = 0 BY <2>1 DEF Again, Steps
  <2>3. Steps(goals) = IF r.goal # 0 THEN Steps(goal) \cup {t} ELSE Steps(goal)
    BY <1>3, <2>2 DEF Steps
  <2> QED BY <1>2, <2>1, <2>2, <2>3
<1> HIDE DEF goals, ranges, limit
<1> QED BY <1>1, <1>4, Tracked

LEMMA ContinueFits ==
  ASSUME DInv, NEW t \in Threads, Continue(t)
  PROVE  spoilt' = "no" => Fits(Disabled(bps'), Steps(goal'))
<1> DEFINE r == DoResumeThread(bps, t, pc[t])
<1>1. bps \in Books /\ pc[t] \in Addrs BY TypeParts DEF DInv
<1>2. Command(t, r, None) BY DEF Continue
<1>3. ASSUME NoSharing(bps), Fits(Disabled(bps), Steps(goal)), t \notin Steps(goal),
             r.trouble = "no"
      PROVE  Fits(Disabled(r.bps), IF r.goal # 0 THEN Steps(goal) \cup {t} ELSE Steps(goal))
  BY <1>1, <1>3, ResumeFits
<1> HIDE DEF r
<1> QED BY <1>2, <1>3, CommandFits

LEMMA StepRangeFits ==
  ASSUME DInv, NEW t \in Threads, NEW from \in Lines, NEW to \in 2..(Size + 1),
         StepRange(t, from, to)
  PROVE  spoilt' = "no" => Fits(Disabled(bps'), Steps(goal'))
<1> DEFINE r == DoStepRange(bps, t, pc[t], from, to, FALSE)
<1>1. bps \in Books /\ pc[t] \in Addrs BY TypeParts DEF DInv
<1>2. from \in 0..Size /\ to \in 0..(Size + 1) /\ FALSE \in BOOLEAN
  BY LinesAssumption, Constants
<1>3. Command(t, r, <<from, to>>) BY DEF StepRange
<1>4. ASSUME NoSharing(bps), Fits(Disabled(bps), Steps(goal)), t \notin Steps(goal),
             r.trouble = "no"
      PROVE  Fits(Disabled(r.bps), IF r.goal # 0 THEN Steps(goal) \cup {t} ELSE Steps(goal))
  <2>1. r.goal # 0 /\ Fits(Disabled(r.bps), Steps(goal) \cup {t})
    BY <1>1, <1>2, <1>4, StepFits
  <2> QED BY <2>1
<1> HIDE DEF r
<1> QED BY <1>3, <1>4, CommandFits

LEMMA SetBreakFits ==
  ASSUME DInv, NEW owner \in Owners, NEW a \in Addrs, DoSetBreak(owner, a)
  PROVE  spoilt' = "no" => Fits(Disabled(bps'), Steps(goal'))
<1> DEFINE entry == [addr |-> a, owner |-> owner, off |-> FALSE]
           u == Append(bps.user, entry)
           c == bps.code \cup {a}
           n == Len(bps.user) + 1
           limit == IF TempsAt(bps, a) # {} THEN "shared" ELSE "no"
<1>1. bps \in Books /\ bps.user \in Seq(UserEntries)
  BY TypeParts DEF DInv, Books
<1>2. bps'.user = u
  <2>1. bps' = [bps EXCEPT !.user = u, !.code = c]
    BY DEF DoSetBreak
  <2> HIDE DEF u, c
  <2> QED BY <1>1, <2>1 DEF Books
<1>3. /\ DOMAIN u = 1..n /\ DOMAIN bps.user = 1..(n - 1) /\ n \in Nat \ {0}
      /\ u[n].off = FALSE /\ \A i \in 1..(n - 1) : u[i] = bps.user[i]
  <2>1. entry \in UserEntries BY NamesAssumption DEF UserEntries
  <2>2. entry.off = FALSE OBVIOUS
  <2> HIDE DEF entry
  <2>3. u \in Seq(UserEntries) /\ Len(u) = n /\ u[n] = entry
        /\ \A i \in 1..(n - 1) : u[i] = bps.user[i]
    BY <1>1, <2>1, AppendProperties
  <2> HIDE DEF u
  <2> QED BY <1>1, <2>2, <2>3
<1>4. Track(goal, stepping, seen, limit) BY DEF DoSetBreak
<1> HIDE DEF u, n, limit
<1>5. \A i \in 1..n : i = n \/ i \in 1..(n - 1) BY <1>3
<1>6. OffOf(bps') = OffOf(bps) BY <1>2, <1>3, <1>5 DEF OffOf
<1>7. \A i \in OffOf(bps) : bps'.user[i] = bps.user[i] BY <1>2, <1>3 DEF OffOf
<1>8. Disabled(bps') = Disabled(bps) BY <1>6, <1>7 DEF Disabled
<1>9. Fits(Disabled(bps), Steps(goal)) BY <1>4, NotSpoiltYet
<1> QED BY <1>4, <1>8, <1>9, Tracked

LEMMA ClearBreakFits ==
  ASSUME DInv, NEW k \in DOMAIN bps.user, DoClearBreak(k)
  PROVE  spoilt' = "no" => Fits(Disabled(bps'), Steps(goal'))
<1> DEFINE s == bps.user
           u == SubSeq(s, 1, k - 1) \o SubSeq(s, k + 1, Len(s))
           c == bps.code \ {s[k].addr}
<1>1. bps \in Books /\ s \in Seq(UserEntries)
  BY TypeParts DEF DInv, Books
<1>2. bps'.user = u
  <2>1. bps' = [bps EXCEPT !.user = u, !.code = c]
    BY DEF DoClearBreak
  <2> HIDE DEF u, c
  <2> QED BY <1>1, <2>1 DEF Books
<1>3. /\ DOMAIN u = 1..(Len(s) - 1) /\ DOMAIN s = 1..Len(s) /\ Len(s) \in Nat
      /\ \A i \in DOMAIN u : u[i] = IF i < k THEN s[i] ELSE s[i + 1]
  <2>1. /\ DOMAIN u = 1..(Len(s) - 1)
        /\ \A i \in DOMAIN u : u[i] = IF i < k THEN s[i] ELSE s[i + 1]
    BY <1>1, RemovedEntry
  <2> HIDE DEF u
  <2> QED BY <1>1, <2>1
<1>4. Track(goal, stepping, seen, Target(k)) BY DEF DoClearBreak
<1> HIDE DEF u
<1>5. \A i \in DOMAIN u : \E j \in DOMAIN s : u[i] = s[j]
  <2> SUFFICES ASSUME NEW i \in DOMAIN u PROVE \E j \in DOMAIN s : u[i] = s[j]
    OBVIOUS
  <2>1. i \in DOMAIN s /\ i + 1 \in DOMAIN s BY <1>3
  <2>2. u[i] = s[i] \/ u[i] = s[i + 1] BY <1>3
  <2> QED BY <2>1, <2>2
<1>6. Disabled(bps') \subseteq Disabled(bps)
  <2> SUFFICES ASSUME NEW i \in OffOf(bps') PROVE u[i] \in Disabled(bps)
    BY <1>2 DEF Disabled
  <2>1. i \in DOMAIN u /\ u[i].off BY <1>2 DEF OffOf
  <2>2. PICK j \in DOMAIN s : u[i] = s[j] BY <1>5, <2>1
  <2> QED BY <2>1, <2>2 DEF Disabled, OffOf
<1>7. Fits(Disabled(bps), Steps(goal)) BY <1>4, NotSpoiltYet
<1>8. Fits(Disabled(bps'), Steps(goal))
  <2>1. IsFiniteSet(Steps(goal)) BY <1>7 DEF Fits
  <2> QED BY <1>6, <1>7, <2>1, FitsLess
<1> QED BY <1>4, <1>8, Tracked

(* A breakpoint that changes hands while it is disabled meets a limit.     *)
LEMMA ChangeBreakThreadFits ==
  ASSUME DInv, NEW k \in DOMAIN bps.user, NEW t \in Threads, DoChangeBreakThread(k, t)
  PROVE  spoilt' = "no" => Fits(Disabled(bps'), Steps(goal'))
<1> DEFINE s == bps.user
           u == [s EXCEPT ![k].owner = t]
           limit == Either(IF s[k].off THEN "foreign" ELSE "no", Target(k))
<1>1. bps \in Books /\ \A i \in DOMAIN s : s[i] \in UserEntries
  BY TypeParts DEF DInv, Books
<1>2. bps'.user = u
  <2>1. bps' = [bps EXCEPT !.user = u]
    BY DEF DoChangeBreakThread
  <2> HIDE DEF u
  <2> QED BY <1>1, <2>1 DEF Books
<1>3. /\ DOMAIN u = DOMAIN s /\ u[k].off = s[k].off
      /\ \A i \in DOMAIN s : i # k => u[i] = s[i]
  BY <1>1 DEF UserEntries
<1>4. Track(goal, stepping, seen, limit) BY DEF DoChangeBreakThread
<1>5. limit = "no" => ~s[k].off BY DEF Either
<1> HIDE DEF u, limit
<1>6. ASSUME limit = "no" PROVE Fits(Disabled(bps'), Steps(goal))
  <2>1. OffOf(bps') = OffOf(bps) /\ k \notin OffOf(bps)
    BY <1>2, <1>3, <1>5, <1>6 DEF OffOf
  <2>2. \A i \in OffOf(bps) : bps'.user[i] = bps.user[i] BY <1>2, <1>3, <2>1 DEF OffOf
  <2>3. Disabled(bps') = Disabled(bps) BY <2>1, <2>2 DEF Disabled
  <2> QED BY <1>4, <2>3, NotSpoiltYet
<1> QED BY <1>4, <1>6, Tracked

LEMMA InitDInv == Init => DInv
<1> SUFFICES ASSUME Init PROVE DInv
  OBVIOUS
<1>1. Disabled(bps) = {} /\ Steps(goal) = {}
  BY DEF Init, Disabled, OffOf, Steps
<1>2. IsFiniteSet({}) BY FS_EmptySet
<1>3. Fits({}, {}) BY <1>2 DEF Fits
<1> QED BY <1>1, <1>3, InitIInv DEF DInv

LEMMA NextDInv == DInv /\ [Next]_vars => DInv'
<1> SUFFICES ASSUME DInv, [Next]_vars PROVE DInv'
  OBVIOUS
<1> DEFINE Goal == spoilt' = "no" => Fits(Disabled(bps'), Steps(goal'))
<1>1. ASSUME NEW t \in Threads, Execute(t) PROVE Goal
  <2>1. bps' = bps /\ Track(goal, stepping, seen \ {t}, "no") BY <1>1 DEF Execute
  <2> QED BY <2>1, NotSpoiltYet, Tracked
<1>2. ASSUME NEW t \in Threads, DoSuspendThread(t) PROVE Goal
  <2> DEFINE ranges == [stepping EXCEPT ![t] = None]
  <2>1. bps' = bps /\ Track(goal, ranges, seen \cup {t}, "no") BY <1>2 DEF DoSuspendThread
  <2> HIDE DEF ranges
  <2> QED BY <2>1, NotSpoiltYet, Tracked
<1>3. ASSUME UNCHANGED vars PROVE Goal
  <2>1. bps' = bps /\ goal' = goal /\ spoilt' = spoilt BY <1>3 DEF vars
  <2> QED BY <2>1 DEF DInv
<1>4. ASSUME NEW t \in Threads, TempHit(t) PROVE Goal BY <1>4, TempHitFits
<1>5. ASSUME NEW t \in Threads, UserHit(t) PROVE Goal BY <1>5, UserHitFits
<1>6. ASSUME NEW t \in Threads, Continue(t) PROVE Goal BY <1>6, ContinueFits
<1>7. ASSUME NEW t \in Threads, NEW from \in Lines, NEW to \in 2..(Size + 1),
             StepRange(t, from, to) PROVE Goal
  BY <1>7, StepRangeFits
<1>8. ASSUME NEW owner \in Owners, NEW a \in Addrs, DoSetBreak(owner, a) PROVE Goal
  BY <1>8, SetBreakFits
<1>9. ASSUME NEW i \in DOMAIN bps.user, DoClearBreak(i) PROVE Goal BY <1>9, ClearBreakFits
<1>10. ASSUME NEW i \in DOMAIN bps.user, NEW t \in Threads, DoChangeBreakThread(i, t)
       PROVE  Goal
  BY <1>10, ChangeBreakThreadFits
<1> HIDE DEF Goal
<1>11. Goal
  BY <1>1, <1>2, <1>3, <1>4, <1>5, <1>6, <1>7, <1>8, <1>9, <1>10 DEF Next
<1>12. IInv' BY NextIInv DEF DInv
<1> QED BY <1>11, <1>12 DEF DInv, Goal, Disabled, OffOf, Steps

LEMMA DInvCounts == DInv => DisabledForAStep
<1> SUFFICES ASSUME DInv, spoilt = "no"
             PROVE  Cardinality(Off) <= Cardinality(Steps(goal))
  BY DEF DisabledForAStep, Steps
<1>1. Fits(Disabled(bps), Steps(goal)) /\ NoSharing(bps)
  BY DEF DInv, IInv, Consistent
<1>2. Cardinality(Disabled(bps)) <= Cardinality(Steps(goal)) BY <1>1, FitsCount
<1> DEFINE f == [i \in Off |-> bps.user[i]]
<1>3. /\ \A i \in Off : f[i] \in Disabled(bps)
      /\ \A i, j \in Off : f[i] = f[j] => i = j
  BY <1>1 DEF Off, Disabled, OffOf, NoSharing
<1>4. f \in [Off -> Disabled(bps)] BY <1>3
<1> HIDE DEF f
<1>5. f \in Injection(Off, Disabled(bps)) BY <1>3, <1>4 DEF Injection, IsInjective
<1>6. IsFiniteSet(Disabled(bps)) /\ IsFiniteSet(Steps(goal)) BY <1>1 DEF Fits
<1>7. IsFiniteSet(Off) /\ Cardinality(Off) <= Cardinality(Disabled(bps))
  BY <1>5, <1>6, FS_Injection
<1>8. /\ Cardinality(Off) \in Nat /\ Cardinality(Disabled(bps)) \in Nat
      /\ Cardinality(Steps(goal)) \in Nat
  BY <1>6, <1>7, FS_CardinalityType
<1> QED BY <1>2, <1>7, <1>8

(* However the traps of the threads interleave, no more breakpoints of the *)
(* user are disabled than threads are on a step: DoEnableDisabledBreak,    *)
(* which plants one of them at each trap, leaves none behind.              *)
THEOREM NoneForgotten == Spec => []DisabledForAStep
<1> QED BY InitDInv, NextDInv, DInvCounts, PTL DEF Spec
-------------------------------------------------------------------------------
(* Where a step takes its thread.  On the way from a to x a thread executes*)
(* the instructions of Path(a, x).                                         *)
Path(a, x) == IF a <= x THEN a..(x - 1) ELSE (a..Size) \cup (1..(x - 1))

(* An instruction is planted where the step of the thread is to end.       *)
Planned(t) ==
  \/ \E i \in 1..Temps : bps.temp[i].addr = goal[t] /\ bps.temp[i].thread = t
  \/ \E i \in DOMAIN bps.user :
       /\ bps.user[i].addr = goal[t] /\ bps.user[i].off = FALSE
       /\ bps.user[i].owner \in {t, All}

(* The temporary breakpoints are those of the steps under way.             *)
Meant ==
  \A i \in 1..Temps :
    bps.temp[i].addr # 0 =>
      bps.temp[i].thread \in Threads /\ goal[bps.temp[i].thread] = bps.temp[i].addr

(* A thread does not leave the range of its step before it gets there.     *)
Within(t) ==
  stepping[t] # None =>
    /\ goal[t] # 0
    /\ Path(pc[t], goal[t]) \subseteq stepping[t][1]..(stepping[t][2] - 1)
    /\ \A i \in 1..Temps :
         bps.temp[i].addr # 0 /\ bps.temp[i].thread = t =>
           /\ bps.temp[i].from = stepping[t][1] /\ bps.temp[i].to = stepping[t][2]
           /\ bps.temp[i].once = FALSE

(* The breakpoint is disabled for the step of the thread, which has it     *)
(* behind it, or has been stopped there.                                   *)
Passed(i, t) ==
  /\ bps.user[i].owner \in {t, All}
  /\ bps.user[i].addr \notin Path(pc[t], goal[t]) \/ (t \in seen /\ bps.user[i].addr = pc[t])

Alone ==
  ~overlap => /\ \A t, u \in Steps(goal) : t = u
              /\ \A i \in OffOf(bps) : \E t \in Steps(goal) : Passed(i, t)

Told == \A t \in Threads : mode[t] = "told" => t \in seen

Follows ==
  (\A t \in Steps(goal) : Planned(t)) /\ Meant /\ (\A t \in Threads : Within(t)) /\ Alone /\ Told

(* The invariant: the steps under way get their threads where they should. *)
FInv == DInv /\ (spoilt = "no" => Follows)

LEMMA PathNext ==
  ASSUME NEW a \in Addrs, NEW x \in Addrs, a # x
  PROVE  /\ a \in Path(a, x) /\ a \notin Path(After(a), x)
         /\ Path(After(a), x) \subseteq Path(a, x)
BY Constants DEF Path, After, Addrs

LEMMA StepTargetPath ==
  ASSUME NEW from \in Addrs, NEW to \in 2..(Size + 1), NEW a \in Addrs, a \in from..(to - 1)
  PROVE  Path(a, StepTarget(a, to)) \subseteq from..(to - 1)
<1>1. CASE to - a \in 2..Buffer /\ Size \notin a..(to - 1)
  <2>1. StepTarget(a, to) = to BY <1>1 DEF StepTarget
  <2> QED BY <2>1, Constants DEF Path, Addrs
<1>2. CASE StepTarget(a, to) = After(a)
  BY <1>2, Constants DEF Path, After, Addrs
<1>3. CASE to - a \in 2..Buffer /\ Size \in a..(to - 1) /\ a # Size
  <2>1. StepTarget(a, to) = Size BY <1>3 DEF StepTarget
  <2> QED BY <1>3, <2>1, Constants DEF Path, Addrs
<1> QED BY <1>1, <1>2, <1>3 DEF StepTarget

LEMMA NoneOff ==
  ASSUME NEW b, Fits(Disabled(b), {})
  PROVE  OffOf(b) = {}
<1> SUFFICES ASSUME NEW i \in OffOf(b) PROVE FALSE
  OBVIOUS
<1>1. b.user[i] \in Disabled(b) BY DEF Disabled
<1>2. b.user[i].owner = All BY <1>1 DEF Fits
<1>3. /\ IsFiniteSet(Disabled(b)) /\ Cardinality(Disabled(b)) <= Cardinality({})
  BY <1>1, <1>2 DEF Fits
<1>4. Cardinality({}) = 0 /\ Cardinality(Disabled(b)) \in Nat
  BY <1>3, FS_EmptySet, FS_CardinalityType
<1>5. Cardinality(Disabled(b)) = 0 BY <1>3, <1>4
<1>6. Disabled(b) = {} BY <1>3, <1>5, FS_EmptySet
<1> QED BY <1>1, <1>6

(* What the record of an action that meets no limit is.                    *)
LEMMA TrackedTo ==
  ASSUME NEW goals, NEW ranges, NEW stopped, NEW trouble,
         Track(goals, ranges, stopped, trouble), spoilt' = "no"
  PROVE  /\ trouble = "no" /\ spoilt = "no"
         /\ goal' = goals /\ stepping' = ranges /\ seen' = stopped
         /\ overlap' = (Cardinality(Steps(goals)) > 1 \/ (overlap /\ Steps(goals) # {}))
BY DEF Track, Steps

LEMMA OneAtATime ==
  ASSUME DInv', NEW goals, NEW ranges, NEW stopped, NEW trouble,
         Track(goals, ranges, stopped, trouble), spoilt' = "no", ~overlap'
  PROVE  (\A t, u \in Steps(goal') : t = u) /\ (~overlap \/ Steps(goal') = {})
<1>1. /\ goal' = goals
      /\ ~(Cardinality(Steps(goals)) > 1) /\ (~overlap \/ Steps(goals) = {})
  BY TrackedTo
<1>2. IsFiniteSet(Steps(goals)) BY <1>1 DEF DInv, Fits, Steps
<1>3. ASSUME NEW t \in Steps(goals), NEW u \in Steps(goals), t # u PROVE FALSE
  <2>1. {t} \subseteq Steps(goals) /\ {t, u} \subseteq Steps(goals) OBVIOUS
  <2>2. Cardinality({t}) = 1 /\ IsFiniteSet({t}) BY FS_Singleton
  <2>3. {t, u} = {t} \cup {u} /\ u \notin {t} BY <1>3
  <2>4. Cardinality({t, u}) = 2 BY <2>2, <2>3, FS_AddElement
  <2>5. Cardinality({t, u}) <= Cardinality(Steps(goals)) BY <1>2, <2>1, FS_Subset
  <2>6. Cardinality(Steps(goals)) \in Nat BY <1>2, FS_CardinalityType
  <2> QED BY <1>1, <2>4, <2>5, <2>6
<1> QED BY <1>1, <1>3

(* The steps never overlap as far as the record says so.                   *)
LEMMA AloneNext ==
  ASSUME DInv', NEW goals, NEW ranges, NEW stopped, NEW trouble,
         Track(goals, ranges, stopped, trouble), spoilt' = "no",
         ASSUME ~overlap, NEW i \in OffOf(bps'), \A t, u \in Steps(goal') : t = u
         PROVE  \E t \in Steps(goal') : Passed(i, t)'
  PROVE  Alone'
<1> SUFFICES ASSUME ~overlap'
             PROVE  /\ \A t, u \in Steps(goal') : t = u
                    /\ \A i \in OffOf(bps') : \E t \in Steps(goal') : Passed(i, t)'
  BY DEF Alone, Steps, OffOf
<1>1. (\A t, u \in Steps(goal') : t = u) /\ (~overlap \/ Steps(goal') = {}) BY OneAtATime
<1>2. CASE Steps(goal') = {}
  <2>1. Fits(Disabled(bps'), {}) BY <1>2 DEF DInv, Disabled, OffOf, Steps
  <2> QED BY <1>1, <2>1, NoneOff
<1>3. CASE ~overlap BY <1>1, <1>3
<1> QED BY <1>1, <1>2, <1>3

LEMMA EnableShape ==
  ASSUME NEW b \in Books, NEW t \in Threads
  PROVE  LET e == DoEnableDisabledBreak(b, t)
         IN  /\ DOMAIN e.user = DOMAIN b.user
             /\ \A i \in DOMAIN b.user :
                  /\ e.user[i].addr = b.user[i].addr /\ e.user[i].owner = b.user[i].owner
                  /\ b.user[i].off = FALSE => e.user[i].off = FALSE
<1> DEFINE off == {i \in DOMAIN b.user : b.user[i].off /\ b.user[i].owner \in {t, All}}
           e == DoEnableDisabledBreak(b, t)
           k == Min(off)
<1>1. CASE off = {}
  <2>1. e = b BY <1>1 DEF DoEnableDisabledBreak
  <2> QED BY <2>1
<1>2. CASE off # {}
  <2> DEFINE u == [b.user EXCEPT ![k].off = FALSE]
             c == b.code \cup {b.user[k].addr}
  <2>1. e.user = u
    <3>1. e = [b EXCEPT !.user = u, !.code = c]
      BY <1>2 DEF DoEnableDisabledBreak
    <3> HIDE DEF u, c, e
    <3> QED BY <3>1 DEF Books
  <2>2. \A i \in DOMAIN b.user : b.user[i] \in UserEntries BY DEF Books
  <2>3. /\ DOMAIN u = DOMAIN b.user
        /\ \A i \in DOMAIN b.user :
             /\ u[i].addr = b.user[i].addr /\ u[i].owner = b.user[i].owner
             /\ b.user[i].off = FALSE => u[i].off = FALSE
    <3> HIDE DEF k
    <3> QED BY <2>2 DEF UserEntries
  <2> HIDE DEF u, e
  <2> QED BY <2>1, <2>3 DEF e
<1> QED BY <1>1, <1>2

LEMMA DisableShape ==
  ASSUME NEW b \in Books, NEW a
  PROVE  LET d == DisableBreakAtAddress(b, a)
         IN  /\ DOMAIN d.user = DOMAIN b.user /\ d.temp = b.temp
             /\ \A i \in DOMAIN b.user :
                  /\ d.user[i].addr = b.user[i].addr /\ d.user[i].owner = b.user[i].owner
                  /\ b.user[i].addr # a => d.user[i].off = b.user[i].off
<1> DEFINE d == DisableBreakAtAddress(b, a)
           u == [i \in DOMAIN b.user |->
                   IF i \in UserAt(b, a) THEN [b.user[i] EXCEPT !.off = TRUE] ELSE b.user[i]]
           c == IF UserAt(b, a) = {} THEN b.code ELSE b.code \ {a}
<1>1. d.user = u /\ d.temp = b.temp
  <2>1. d = [b EXCEPT !.user = u, !.code = c]
    BY DEF DisableBreakAtAddress
  <2> HIDE DEF u, c, d
  <2> QED BY <2>1 DEF Books
<1>2. \A i \in DOMAIN b.user : b.user[i] \in UserEntries BY DEF Books
<1>3. /\ DOMAIN u = DOMAIN b.user
      /\ \A i \in DOMAIN b.user :
           /\ u[i].addr = b.user[i].addr /\ u[i].owner = b.user[i].owner
           /\ b.user[i].addr # a => u[i].off = b.user[i].off
  BY <1>2 DEF UserEntries, UserAt
<1> HIDE DEF u, d
<1> QED BY <1>1, <1>3 DEF d

(* What a step that meets no limit does to the list.                       *)
Plan(b, t, a, r, entry) ==
  /\ r.ok /\ r.goal = entry.addr /\ r.bps \in Books
  /\ DOMAIN r.bps.user = DOMAIN b.user
  /\ \A i \in DOMAIN b.user :
       /\ r.bps.user[i].addr = b.user[i].addr /\ r.bps.user[i].owner = b.user[i].owner
       /\ b.user[i].addr # a => r.bps.user[i].off = b.user[i].off
  /\ \A i \in 1..Temps :
       r.bps.temp[i] = b.temp[i] \/ (b.temp[i].addr = 0 /\ r.bps.temp[i] = entry)
  /\ \/ \E i \in 1..Temps : r.bps.temp[i] = entry
     \/ \E i \in DOMAIN b.user :
          /\ b.user[i].addr = entry.addr /\ r.bps.user[i].off = FALSE
          /\ b.user[i].owner \in {t, All}
  /\ \A i \in UserAt(b, a) : b.user[i].owner \in {t, All}
  /\ UserAt(b, a) # {} => \A u \in Threads \ {t} : goal[u] # a

LEMMA StepPlans ==
  ASSUME NEW b \in Books, NEW t \in Threads, NEW a \in Addrs,
         NEW from \in 0..Size, NEW to \in 0..(Size + 1), NEW once \in BOOLEAN,
         DoStepRange(b, t, a, from, to, once).trouble = "no"
  PROVE  Plan(b, t, a, DoStepRange(b, t, a, from, to, once),
              [addr |-> StepTarget(a, to), thread |-> t, from |-> from, to |-> to, once |-> once])
<1> DEFINE d == DisableBreakAtAddress(b, a)
           x == StepTarget(a, to)
           free == TempsAt(d, 0)
           r == DoStepRange(b, t, a, from, to, once)
           entry == [addr |-> x, thread |-> t, from |-> from, to |-> to, once |-> once]
           k == Min(free)
<1>1. d \in Books BY DisableKeeps
<1>2. r.bps \in Books BY StepRangeSound DEF Sound, Results
<1>3. /\ \A i \in UserAt(b, a) : b.user[i].owner \in {t, All}
      /\ UserAt(b, a) # {} => \A u \in Threads \ {t} : goal[u] # a
      /\ \A i \in UserAt(d, x) : ~d.user[i].off /\ d.user[i].owner \in {t, All}
  BY DEF DoStepRange
<1>4. /\ DOMAIN d.user = DOMAIN b.user /\ d.temp = b.temp
      /\ \A i \in DOMAIN b.user :
           /\ d.user[i].addr = b.user[i].addr /\ d.user[i].owner = b.user[i].owner
           /\ b.user[i].addr # a => d.user[i].off = b.user[i].off
  BY DisableShape
<1>5. CASE UserAt(d, x) # {}
  <2>1. r = [bps |-> d, ok |-> TRUE, goal |-> x, trouble |-> r.trouble]
    BY <1>5 DEF DoStepRange
  <2>2. r.bps = d /\ r.goal = x /\ r.ok BY <2>1
  <2> HIDE DEF r, d
  <2>3. PICK i \in DOMAIN d.user : d.user[i].addr = x /\ i \in UserAt(d, x)
    BY <1>5 DEF UserAt
  <2>4. d.user[i].off = FALSE
    <3>1. d.user[i] \in UserEntries BY <1>1 DEF Books
    <3> QED BY <1>3, <2>3, <3>1 DEF UserEntries
  <2>5. b.user[i].addr = entry.addr /\ b.user[i].owner \in {t, All} /\ r.goal = entry.addr
    BY <1>3, <1>4, <2>2, <2>3
  <2> HIDE DEF entry
  <2> QED BY <1>2, <1>3, <1>4, <2>2, <2>3, <2>4, <2>5 DEF Plan, r, entry
<1>6. CASE UserAt(d, x) = {} /\ free # {}
  <2>1. r = [bps |-> SetTemp(d, k, entry), ok |-> TRUE, goal |-> x, trouble |-> r.trouble]
    BY <1>6 DEF DoStepRange
  <2>2. r.bps = SetTemp(d, k, entry) /\ r.goal = x /\ r.ok BY <2>1
  <2>3. k \in 1..Temps /\ d.temp[k].addr = 0
    <3>1. free \in SUBSET Nat BY Constants DEF TempsAt
    <3>2. k \in free
      <4> HIDE DEF free
      <4> QED BY <1>6, <3>1, MinIn
    <3> QED BY <3>2 DEF TempsAt
  <2>4. entry.addr = x OBVIOUS
  <2> HIDE DEF r, d, entry, k
  <2>5. /\ r.bps.user = d.user
        /\ r.bps.temp[k] = entry /\ \A i \in 1..Temps : i # k => r.bps.temp[i] = d.temp[i]
    <3>1. /\ SetTemp(d, k, entry).user = d.user
          /\ SetTemp(d, k, entry).temp = [d.temp EXCEPT ![k] = entry]
      BY <1>1 DEF SetTemp, Books
    <3>2. d.temp \in [1..Temps -> TempEntries] BY <1>1 DEF Books
    <3> QED BY ZenonT(30), <2>2, <2>3, <3>1, <3>2
  <2>6. \A i \in 1..Temps :
          r.bps.temp[i] = b.temp[i] \/ (b.temp[i].addr = 0 /\ r.bps.temp[i] = entry)
    BY <1>4, <2>3, <2>5
  <2> QED BY <1>2, <1>3, <1>4, <2>2, <2>3, <2>4, <2>5, <2>6 DEF Plan, r, entry
<1>7. CASE UserAt(d, x) = {} /\ free = {}
  <2>1. r.trouble # "no" BY <1>7 DEF DoStepRange
  <2> QED BY <2>1
<1> QED BY <1>5, <1>6, <1>7

(* A list on which a step of the thread can begin: its own temporary       *)
(* breakpoint is gone, all else is as before or enabled.                   *)
Ready(b, t) ==
  /\ b \in Books /\ DOMAIN b.user = DOMAIN bps.user
  /\ \A i \in DOMAIN bps.user :
       /\ b.user[i].addr = bps.user[i].addr /\ b.user[i].owner = bps.user[i].owner
       /\ bps.user[i].off = FALSE => b.user[i].off = FALSE
  /\ \A i \in 1..Temps :
       /\ b.temp[i].addr # 0 => b.temp[i] = bps.temp[i] /\ b.temp[i].thread # t
       /\ bps.temp[i].addr # 0 /\ bps.temp[i].thread # t => b.temp[i] = bps.temp[i]

LEMMA StepParts ==
  ASSUME DInv, NEW t \in Threads, goal[t] # 0
  PROVE  t \in Steps(goal) /\ goal[t] \in Addrs
BY TypeParts, Constants DEF DInv, Steps, Addrs

(* A thread is set going on a step.                                        *)
LEMMA PlanFollows ==
  ASSUME DInv, Follows, NEW t \in Threads, NEW b, Ready(b, t), NEW r,
         NEW x \in Addrs, NEW from \in 0..Size, NEW to \in 0..(Size + 1), NEW once \in BOOLEAN,
         NEW range,
         Plan(b, t, pc[t], r,
              [addr |-> x, thread |-> t, from |-> from, to |-> to, once |-> once]),
         bps' = r.bps, pc' = pc, mode' = [mode EXCEPT ![t] = "run"], seen' = seen,
         goal' = [goal EXCEPT ![t] = x], stepping' = [stepping EXCEPT ![t] = range],
         \/ range = None
         \/ /\ range[1] = from /\ range[2] = to /\ once = FALSE
            /\ Path(pc[t], x) \subseteq range[1]..(range[2] - 1),
         Alone'
  PROVE  Follows'
<1> DEFINE entry == [addr |-> x, thread |-> t, from |-> from, to |-> to, once |-> once]
<1>1. /\ goal \in [Threads -> 0..Size] /\ stepping \in [Threads -> Ranges]
      /\ mode \in [Threads -> {"run", "told", "silent"}]
  BY TypeParts DEF DInv
<1>2. /\ goal'[t] = x /\ x # 0 /\ stepping'[t] = range /\ mode'[t] = "run"
      /\ \A u \in Threads : u # t =>
           goal'[u] = goal[u] /\ stepping'[u] = stepping[u] /\ mode'[u] = mode[u]
  BY <1>1, Constants DEF Addrs
<1>3. entry.addr = x /\ entry.thread = t /\ entry.from = from /\ entry.to = to /\ entry.once = once
  OBVIOUS
<1>4. Plan(b, t, pc[t], r, entry) OBVIOUS
<1> HIDE DEF entry
<1>5. \A i \in 1..Temps : bps'.temp[i].addr # 0 =>
         \/ bps'.temp[i] = entry
         \/ bps'.temp[i] = bps.temp[i] /\ bps.temp[i].thread # t
  BY SMTT(30), <1>4 DEF Plan, Ready
<1>6. \A i \in 1..Temps :
         bps.temp[i].addr # 0 /\ bps.temp[i].thread # t => bps'.temp[i] = bps.temp[i]
  BY SMTT(30), <1>4 DEF Plan, Ready
<1>7. Meant'
  <2> SUFFICES ASSUME NEW i \in 1..Temps, bps'.temp[i].addr # 0
               PROVE  /\ bps'.temp[i].thread \in Threads
                      /\ goal'[bps'.temp[i].thread] = bps'.temp[i].addr
    BY DEF Meant
  <2> QED BY <1>2, <1>3, <1>5 DEF Follows, Meant
<1>8. ASSUME NEW u \in Steps(goal') PROVE Planned(u)'
  <2>1. CASE u = t
    <3>1. CASE \E i \in 1..Temps : r.bps.temp[i] = entry
      BY <1>2, <1>3, <2>1, <3>1 DEF Planned
    <3>2. CASE \E i \in DOMAIN b.user :
                 /\ b.user[i].addr = entry.addr /\ r.bps.user[i].off = FALSE
                 /\ b.user[i].owner \in {t, All}
      BY SMTT(30), <1>2, <1>3, <1>4, <2>1, <3>2 DEF Planned, Plan
    <3> QED BY <1>4, <3>1, <3>2 DEF Plan
  <2>2. CASE u # t
    <3>1. u \in Threads /\ u \in Steps(goal) /\ goal'[u] = goal[u] /\ goal[u] # 0
      BY <1>2, <2>2 DEF Steps
    <3>2. CASE \E i \in 1..Temps : bps.temp[i].addr = goal[u] /\ bps.temp[i].thread = u
      <4>1. PICK i \in 1..Temps : bps.temp[i].addr = goal[u] /\ bps.temp[i].thread = u BY <3>2
      <4>2. bps'.temp[i] = bps.temp[i] BY <1>6, <2>2, <3>1, <4>1
      <4> QED BY <3>1, <4>1, <4>2 DEF Planned
    <3>3. ASSUME NEW i \in DOMAIN bps.user, bps.user[i].addr = goal[u], bps.user[i].off = FALSE,
                 bps.user[i].owner \in {u, All}
          PROVE  Planned(u)'
      <4>1. b.user[i].addr = goal[u] /\ b.user[i].off = FALSE /\ b.user[i].owner \in {u, All}
            /\ i \in DOMAIN b.user
        BY <3>3 DEF Ready
      <4>2. goal[u] # pc[t]
        <5>1. goal[u] = pc[t] => i \in UserAt(b, pc[t]) BY <4>1 DEF UserAt
        <5> QED BY <1>4, <2>2, <3>1, <5>1 DEF Plan
      <4>3. i \in DOMAIN bps'.user /\ bps'.user[i].addr = goal[u] /\ bps'.user[i].off = FALSE
            /\ bps'.user[i].owner \in {u, All}
        BY <1>4, <4>1, <4>2 DEF Plan
      <4> QED BY <3>1, <4>3 DEF Planned
    <3>4. Planned(u) BY <3>1 DEF Follows
    <3> QED BY <3>2, <3>3, <3>4 DEF Planned
  <2> QED BY <2>1, <2>2
<1>9. ASSUME NEW u \in Threads PROVE Within(u)'
  <2>1. CASE u = t
    <3> SUFFICES ASSUME range # None
                 PROVE  /\ Path(pc[t], x) \subseteq range[1]..(range[2] - 1)
                        /\ \A i \in 1..Temps :
                             bps'.temp[i].addr # 0 /\ bps'.temp[i].thread = t =>
                               /\ bps'.temp[i].from = range[1] /\ bps'.temp[i].to = range[2]
                               /\ bps'.temp[i].once = FALSE
      BY <1>2, <2>1 DEF Within
    <3> QED BY <1>3, <1>5
  <2>2. CASE u # t
    <3>1. Within(u) BY DEF Follows
    <3>2. \A i \in 1..Temps : bps'.temp[i].addr # 0 /\ bps'.temp[i].thread = u =>
            bps'.temp[i] = bps.temp[i]
      BY <1>3, <1>5, <2>2
    <3> QED BY <1>2, <2>2, <3>1, <3>2 DEF Within
  <2> QED BY <2>1, <2>2
<1>10. Told' BY <1>2 DEF Follows, Told
<1>11. Steps(goal') = Steps(goal)' BY DEF Steps
<1> QED BY <1>7, <1>8, <1>9, <1>10, <1>11 DEF Follows, Steps

(* A command begins a step of a thread that was on none.                   *)
LEMMA CommandFollows ==
  ASSUME DInv, Follows, DInv', NEW t \in Threads, mode[t] = "told", NEW r, NEW range,
         NEW x \in Addrs, NEW from \in 0..Size, NEW to \in 0..(Size + 1), NEW once \in BOOLEAN,
         Command(t, r, range), spoilt' = "no",
         r.trouble = "no" =>
           Plan(bps, t, pc[t], r,
                [addr |-> x, thread |-> t, from |-> from, to |-> to, once |-> once]),
         \/ range = None
         \/ /\ range[1] = from /\ range[2] = to /\ once = FALSE
            /\ Path(pc[t], x) \subseteq range[1]..(range[2] - 1)
  PROVE  Follows'
<1> DEFINE goals == [goal EXCEPT ![t] = IF r.goal = 0 THEN @ ELSE r.goal]
           ranges == [stepping EXCEPT ![t] = range]
           limit == Either(Again(t), r.trouble)
           entry == [addr |-> x, thread |-> t, from |-> from, to |-> to, once |-> once]
<1>1. /\ bps' = r.bps /\ pc' = pc /\ mode' = [mode EXCEPT ![t] = IF r.ok THEN "run" ELSE "told"]
      /\ Track(goals, ranges, seen, limit)
  BY DEF Command
<1> HIDE DEF goals, ranges, limit
<1>2. limit = "no" /\ spoilt = "no" /\ goal' = goals /\ stepping' = ranges /\ seen' = seen
  BY <1>1, TrackedTo
<1>3. r.trouble = "no" /\ goal[t] = 0 BY <1>2 DEF limit, Either, Again
<1>4. Plan(bps, t, pc[t], r, entry) /\ entry.addr = x BY <1>3
<1>5. r.ok /\ r.goal = x /\ x # 0 BY <1>4, Constants DEF Plan, Addrs
<1>6. goals = [goal EXCEPT ![t] = x]
  <2>1. goal \in [Threads -> 0..Size] BY TypeParts DEF DInv
  <2> QED BY <1>5, <2>1 DEF goals
<1>7. mode' = [mode EXCEPT ![t] = "run"] BY <1>1, <1>5
<1>8. Ready(bps, t)
  <2>1. \A i \in 1..Temps : bps.temp[i].addr # 0 => bps.temp[i].thread # t
    BY <1>3 DEF Follows, Meant
  <2>2. bps \in Books BY TypeParts DEF DInv
  <2> QED BY <2>1, <2>2 DEF Ready
<1>9. Alone'
  <2> SUFFICES ASSUME ~overlap, NEW i \in OffOf(bps'), \A u, v \in Steps(goal') : u = v
               PROVE  \E u \in Steps(goal') : Passed(i, u)'
    BY <1>1, AloneNext
  <2>1. goal \in [Threads -> 0..Size] BY TypeParts DEF DInv
  <2>2. t \in Steps(goal') /\ goal'[t] = x BY <1>2, <1>5, <1>6, <2>1 DEF Steps
  <2>3. Steps(goal) = {}
    <3>1. \A u \in Steps(goal) : u # t /\ u \in Steps(goal') BY <1>2, <1>3, <1>6, <2>1 DEF Steps
    <3> QED BY <2>2, <3>1
  <2>4. OffOf(bps) = {}
    <3>1. Fits(Disabled(bps), {}) BY <1>2, <2>3 DEF DInv
    <3> QED BY <3>1, NoneOff
  <2>5. i \in DOMAIN bps.user /\ bps.user[i].addr = pc[t] /\ bps.user[i].owner \in {t, All}
        /\ bps'.user[i].addr = pc[t] /\ bps'.user[i].owner \in {t, All}
    <3>1. i \in DOMAIN bps.user /\ bps'.user[i].off BY <1>1, <1>4 DEF OffOf, Plan
    <3>2. i \notin OffOf(bps) BY <2>4
    <3>3. bps.user[i].addr = pc[t] BY <1>1, <1>4, <3>1, <3>2 DEF OffOf, Plan
    <3> QED BY <1>1, <1>4, <3>1, <3>3 DEF Plan, UserAt
  <2>6. t \in seen' BY <1>2 DEF Follows, Told
  <2>7. Passed(i, t)' BY <1>1, <2>5, <2>6 DEF Passed
  <2> QED BY <2>2, <2>7
<1> HIDE DEF entry
<1> QED BY <1>1, <1>2, <1>4, <1>6, <1>7, <1>8, <1>9, PlanFollows DEF ranges, entry

LEMMA StepRangeFollows ==
  ASSUME DInv, Follows, DInv', NEW t \in Threads, NEW from \in Lines, NEW to \in 2..(Size + 1),
         StepRange(t, from, to), spoilt' = "no"
  PROVE  Follows'
<1> DEFINE r == DoStepRange(bps, t, pc[t], from, to, FALSE)
           x == StepTarget(pc[t], to)
           range == <<from, to>>
<1>1. bps \in Books /\ pc[t] \in Addrs BY TypeParts DEF DInv
<1>2. from \in Addrs /\ from \in 0..Size /\ to \in 0..(Size + 1) /\ FALSE \in BOOLEAN
  BY LinesAssumption, Constants DEF Addrs
<1>3. Command(t, r, range) /\ mode[t] = "told" /\ pc[t] \in from..(to - 1) BY DEF StepRange
<1>4. x \in Addrs BY <1>1, <1>2, StepTargetType
<1>5. r.trouble = "no" =>
        Plan(bps, t, pc[t], r,
             [addr |-> x, thread |-> t, from |-> from, to |-> to, once |-> FALSE])
  BY <1>1, <1>2, StepPlans
<1>6. Path(pc[t], x) \subseteq from..(to - 1) BY <1>1, <1>2, <1>3, StepTargetPath
<1>7. range[1] = from /\ range[2] = to OBVIOUS
<1> HIDE DEF r, x, range
<1> QED BY <1>2, <1>3, <1>4, <1>5, <1>6, <1>7, CommandFollows

(* An action that leaves the list, the steps and the threads' places alone.*)
LEMMA RestFollows ==
  ASSUME Follows, Alone', Told', bps' = bps, pc' = pc, goal' = goal,
         \A t \in Threads : stepping'[t] = stepping[t] \/ stepping'[t] = None
  PROVE  Follows'
BY DEF Follows, Planned, Meant, Within, Steps

LEMMA SameAlone ==
  ASSUME DInv', NEW ranges, NEW stopped, NEW trouble,
         Track(goal, ranges, stopped, trouble), spoilt' = "no", Follows, seen \subseteq stopped,
         pc' = pc,
         \A i \in OffOf(bps') : \E j \in OffOf(bps) :
           bps'.user[i].addr = bps.user[j].addr /\ bps'.user[i].owner = bps.user[j].owner
  PROVE  Alone'
<1>1. goal' = goal /\ seen' = stopped BY TrackedTo
<1> SUFFICES ASSUME ~overlap, NEW i \in OffOf(bps') PROVE \E t \in Steps(goal') : Passed(i, t)'
  BY AloneNext
<1>2. PICK j \in OffOf(bps) :
        bps'.user[i].addr = bps.user[j].addr /\ bps'.user[i].owner = bps.user[j].owner
  OBVIOUS
<1>3. PICK t \in Steps(goal) : Passed(j, t) BY DEF Follows, Alone
<1>4. Passed(i, t)' BY <1>1, <1>2, <1>3 DEF Passed
<1> QED BY <1>1, <1>3, <1>4

LEMMA ContinueFollows ==
  ASSUME DInv, Follows, DInv', NEW t \in Threads, Continue(t), spoilt' = "no"
  PROVE  Follows'
<1> DEFINE a == pc[t]
           r == DoResumeThread(bps, t, a)
           x == StepTarget(a, a + 1)
<1>1. bps \in Books /\ a \in Addrs BY TypeParts DEF DInv
<1>2. Command(t, r, None) /\ mode[t] = "told" BY DEF Continue
<1>3. CASE UserAt(bps, a) # {}
  <2>1. a \in 0..Size /\ a + 1 \in 0..(Size + 1) /\ TRUE \in BOOLEAN BY <1>1, Constants DEF Addrs
  <2>2. r = DoStepRange(bps, t, a, a, a + 1, TRUE) BY <1>3 DEF DoResumeThread
  <2>3. x \in Addrs BY <1>1, <2>1, StepTargetType
  <2>4. r.trouble = "no" =>
          Plan(bps, t, a, r,
               [addr |-> x, thread |-> t, from |-> a, to |-> a + 1, once |-> TRUE])
    BY <1>1, <2>1, <2>2, StepPlans
  <2> HIDE DEF r, x
  <2> QED BY <1>2, <2>1, <2>3, <2>4, CommandFollows
<1>4. CASE UserAt(bps, a) = {}
  <2>1. r = [bps |-> bps, ok |-> TRUE, goal |-> 0, trouble |-> "no"]
    BY <1>4 DEF DoResumeThread
  <2> DEFINE goals == [goal EXCEPT ![t] = IF r.goal = 0 THEN @ ELSE r.goal]
             ranges == [stepping EXCEPT ![t] = None]
             limit == Either(Again(t), r.trouble)
  <2>2. bps' = bps /\ pc' = pc /\ mode' = [mode EXCEPT ![t] = "run"]
        /\ Track(goals, ranges, seen, limit)
    BY <1>2, <2>1 DEF Command
  <2>3. /\ goal \in [Threads -> 0..Size] /\ stepping \in [Threads -> Ranges]
        /\ mode \in [Threads -> {"run", "told", "silent"}]
    BY TypeParts DEF DInv
  <2>4. goals = goal BY <2>1, <2>3
  <2>5. \A u \in Threads : ranges[u] = stepping[u] \/ ranges[u] = None BY <2>3
  <2> HIDE DEF goals, ranges, limit
  <2>6. goal' = goal /\ stepping' = ranges /\ seen' = seen BY <2>2, <2>4, TrackedTo
  <2>7. Alone' BY <2>2, <2>4, SameAlone DEF OffOf
  <2>8. Told' BY <2>2, <2>3, <2>6 DEF Follows, Told
  <2> QED BY <2>2, <2>5, <2>6, <2>7, <2>8, RestFollows
<1> QED BY <1>3, <1>4

LEMMA SuspendFollows ==
  ASSUME DInv, Follows, DInv', NEW t \in Threads, DoSuspendThread(t), spoilt' = "no"
  PROVE  Follows'
<1> DEFINE ranges == [stepping EXCEPT ![t] = None]
           stopped == seen \cup {t}
<1>1. bps' = bps /\ pc' = pc /\ mode' = [mode EXCEPT ![t] = "told"]
      /\ Track(goal, ranges, stopped, "no")
  BY DEF DoSuspendThread
<1>2. /\ stepping \in [Threads -> Ranges] /\ mode \in [Threads -> {"run", "told", "silent"}]
  BY TypeParts DEF DInv
<1>3. \A u \in Threads : ranges[u] = stepping[u] \/ ranges[u] = None BY <1>2
<1> HIDE DEF ranges
<1>4. goal' = goal /\ stepping' = ranges /\ seen' = stopped BY <1>1, TrackedTo
<1>5. seen \subseteq stopped OBVIOUS
<1>6. Told' BY <1>1, <1>2, <1>4 DEF Follows, Told
<1> HIDE DEF stopped
<1>7. Alone' BY <1>1, <1>5, SameAlone DEF OffOf
<1> QED BY <1>1, <1>3, <1>4, <1>6, <1>7, RestFollows

(* An action that changes the list of the user where no step is to end.    *)
LEMMA ListFollows ==
  ASSUME DInv', Follows, NEW trouble, Track(goal, stepping, seen, trouble), spoilt' = "no",
         pc' = pc, mode' = mode, bps'.temp = bps.temp,
         \A i \in OffOf(bps') : \E j \in OffOf(bps) :
           bps'.user[i].addr = bps.user[j].addr /\ bps'.user[i].owner = bps.user[j].owner,
         \A t \in Threads, j \in DOMAIN bps.user : bps.user[j].addr = goal[t] =>
           \E i \in DOMAIN bps'.user : bps'.user[i] = bps.user[j]
  PROVE  Follows'
<1>1. goal' = goal /\ stepping' = stepping /\ seen' = seen BY TrackedTo
<1>2. Alone' BY SameAlone
<1>3. ASSUME NEW t \in Steps(goal) PROVE Planned(t)'
  <2>1. t \in Threads /\ Planned(t) BY DEF Follows, Steps
  <2>2. CASE \E i \in 1..Temps : bps.temp[i].addr = goal[t] /\ bps.temp[i].thread = t
    BY <1>1, <2>2 DEF Planned
  <2>3. ASSUME NEW j \in DOMAIN bps.user, bps.user[j].addr = goal[t], bps.user[j].off = FALSE,
               bps.user[j].owner \in {t, All}
        PROVE  Planned(t)'
    <3>1. PICK i \in DOMAIN bps'.user : bps'.user[i] = bps.user[j] BY <2>1, <2>3
    <3> QED BY <1>1, <2>3, <3>1 DEF Planned
  <2> QED BY <2>1, <2>2, <2>3 DEF Planned
<1>4. Meant' /\ (\A t \in Threads : Within(t)') /\ Told'
  BY <1>1 DEF Follows, Meant, Within, Told
<1> QED BY <1>1, <1>2, <1>3, <1>4 DEF Follows, Steps

LEMMA SetBreakFollows ==
  ASSUME DInv, Follows, DInv', NEW owner \in Owners, NEW a \in Addrs, DoSetBreak(owner, a),
         spoilt' = "no"
  PROVE  Follows'
<1> DEFINE entry == [addr |-> a, owner |-> owner, off |-> FALSE]
           u == Append(bps.user, entry)
           c == bps.code \cup {a}
           n == Len(bps.user) + 1
           limit == IF TempsAt(bps, a) # {} THEN "shared" ELSE "no"
<1>1. bps \in Books /\ bps.user \in Seq(UserEntries)
  BY TypeParts DEF DInv, Books
<1>2. bps'.user = u /\ bps'.temp = bps.temp
  <2>1. bps' = [bps EXCEPT !.user = u, !.code = c]
    BY DEF DoSetBreak
  <2> HIDE DEF u, c
  <2> QED BY <1>1, <2>1 DEF Books
<1>3. /\ DOMAIN u = 1..n /\ DOMAIN bps.user = 1..(n - 1) /\ n \in Nat \ {0}
      /\ u[n].off = FALSE /\ \A i \in 1..(n - 1) : u[i] = bps.user[i]
  <2>1. entry \in UserEntries BY NamesAssumption DEF UserEntries
  <2>2. entry.off = FALSE OBVIOUS
  <2> HIDE DEF entry
  <2>3. u \in Seq(UserEntries) /\ Len(u) = n /\ u[n] = entry
        /\ \A i \in 1..(n - 1) : u[i] = bps.user[i]
    BY <1>1, <2>1, AppendProperties
  <2> HIDE DEF u
  <2> QED BY <1>1, <2>2, <2>3
<1>4. Track(goal, stepping, seen, limit) /\ pc' = pc /\ mode' = mode BY DEF DoSetBreak
<1> HIDE DEF u, n, limit
<1>5. \A i \in 1..n : i = n \/ i \in 1..(n - 1) BY <1>3
<1>6. \A i \in 1..(n - 1) : i \in 1..n BY <1>3
<1>7. \A i \in OffOf(bps') : i \in OffOf(bps) /\ bps'.user[i] = bps.user[i]
  BY <1>2, <1>3, <1>5 DEF OffOf
<1>8. \A j \in DOMAIN bps.user : j \in DOMAIN bps'.user /\ bps'.user[j] = bps.user[j]
  BY <1>2, <1>3, <1>6
<1> QED BY <1>2, <1>4, <1>7, <1>8, ListFollows

LEMMA ClearBreakFollows ==
  ASSUME DInv, Follows, DInv', NEW k \in DOMAIN bps.user, DoClearBreak(k), spoilt' = "no"
  PROVE  Follows'
<1> DEFINE s == bps.user
           u == SubSeq(s, 1, k - 1) \o SubSeq(s, k + 1, Len(s))
           c == bps.code \ {s[k].addr}
<1>1. bps \in Books /\ s \in Seq(UserEntries)
  BY TypeParts DEF DInv, Books
<1>2. bps'.user = u /\ bps'.temp = bps.temp
  <2>1. bps' = [bps EXCEPT !.user = u, !.code = c]
    BY DEF DoClearBreak
  <2> HIDE DEF u, c
  <2> QED BY <1>1, <2>1 DEF Books
<1>3. /\ DOMAIN u = 1..(Len(s) - 1) /\ DOMAIN s = 1..Len(s) /\ Len(s) \in Nat
      /\ \A i \in DOMAIN u : u[i] = IF i < k THEN s[i] ELSE s[i + 1]
  <2>1. /\ DOMAIN u = 1..(Len(s) - 1)
        /\ \A i \in DOMAIN u : u[i] = IF i < k THEN s[i] ELSE s[i + 1]
    BY <1>1, RemovedEntry
  <2> HIDE DEF u
  <2> QED BY <1>1, <2>1
<1>4. Track(goal, stepping, seen, Target(k)) /\ pc' = pc /\ mode' = mode BY DEF DoClearBreak
<1>5. Target(k) = "no" BY <1>4, TrackedTo
<1>6. \A t \in Threads : goal[t] # s[k].addr BY <1>5 DEF Target
<1> HIDE DEF u
<1>7. \A i \in DOMAIN u : \E j \in DOMAIN s : u[i] = s[j]
  <2> SUFFICES ASSUME NEW i \in DOMAIN u PROVE \E j \in DOMAIN s : u[i] = s[j]
    OBVIOUS
  <2>1. i \in DOMAIN s /\ i + 1 \in DOMAIN s BY <1>3
  <2>2. u[i] = s[i] \/ u[i] = s[i + 1] BY <1>3
  <2> QED BY <2>1, <2>2
<1>8. \A i \in OffOf(bps') : \E j \in OffOf(bps) : bps'.user[i] = s[j]
  BY <1>2, <1>7 DEF OffOf
<1>9. \A j \in DOMAIN s : j # k => \E i \in DOMAIN u : u[i] = s[j]
  <2> SUFFICES ASSUME NEW j \in DOMAIN s, j # k PROVE \E i \in DOMAIN u : u[i] = s[j]
    OBVIOUS
  <2>1. CASE j < k
    <3>1. j \in DOMAIN u /\ u[j] = s[j] BY <2>1, <1>3
    <3> QED BY <3>1
  <2>2. CASE j > k
    <3>1. j - 1 \in DOMAIN u /\ ~(j - 1 < k) /\ (j - 1) + 1 = j BY <2>2, <1>3
    <3>2. u[j - 1] = s[j] BY <3>1, <1>3
    <3> QED BY <3>1, <3>2
  <2> QED BY <2>1, <2>2, <1>3
<1>10. \A t \in Threads, j \in DOMAIN s : s[j].addr = goal[t] => \E i \in DOMAIN u : u[i] = s[j]
  BY <1>6, <1>9
<1> QED BY <1>2, <1>4, <1>8, <1>10, ListFollows

LEMMA ChangeBreakThreadFollows ==
  ASSUME DInv, Follows, DInv', NEW k \in DOMAIN bps.user, NEW t \in Threads,
         DoChangeBreakThread(k, t), spoilt' = "no"
  PROVE  Follows'
<1> DEFINE s == bps.user
           u == [s EXCEPT ![k].owner = t]
           limit == Either(IF s[k].off THEN "foreign" ELSE "no", Target(k))
<1>1. bps \in Books /\ \A i \in DOMAIN s : s[i] \in UserEntries
  BY TypeParts DEF DInv, Books
<1>2. bps'.user = u /\ bps'.temp = bps.temp
  <2>1. bps' = [bps EXCEPT !.user = u]
    BY DEF DoChangeBreakThread
  <2> HIDE DEF u
  <2> QED BY <1>1, <2>1 DEF Books
<1>3. /\ DOMAIN u = DOMAIN s /\ u[k].off = s[k].off
      /\ \A i \in DOMAIN s : i # k => u[i] = s[i]
  BY <1>1 DEF UserEntries
<1>4. Track(goal, stepping, seen, limit) /\ pc' = pc /\ mode' = mode
  BY DEF DoChangeBreakThread
<1>5. limit = "no" BY <1>4, TrackedTo
<1>6. ~s[k].off /\ Target(k) = "no" BY <1>5 DEF Either
<1>7. \A v \in Threads : goal[v] # s[k].addr BY <1>6 DEF Target
<1> HIDE DEF u, limit
<1>8. \A i \in OffOf(bps') : i \in OffOf(bps) /\ bps'.user[i] = bps.user[i]
  BY <1>2, <1>3, <1>6 DEF OffOf
<1>9. \A v \in Threads, j \in DOMAIN s : s[j].addr = goal[v] => bps'.user[j] = s[j]
  BY <1>2, <1>3, <1>7
<1> QED BY <1>2, <1>3, <1>4, <1>8, <1>9, ListFollows

(* A thread that goes on one instruction is not yet where its step ends.   *)
LEMMA NotThereYet ==
  ASSUME DInv, Follows, NEW t \in Threads, Execute(t), goal[t] # 0
  PROVE  pc[t] \in Addrs /\ goal[t] \in Addrs /\ pc[t] # goal[t]
<1>1. t \in Steps(goal) /\ goal[t] \in Addrs /\ pc[t] \in Addrs
  BY StepParts, TypeParts DEF DInv
<1>2. Consistent(bps) BY NotSpoilt DEF Execute, DInv
<1>3. Planned(t) BY <1>1 DEF Follows
<1>4. Wanted(bps, goal[t]) BY <1>3 DEF Planned, Wanted
<1>5. goal[t] \in bps.code BY <1>1, <1>2, <1>4 DEF Consistent
<1> QED BY <1>1, <1>5 DEF Execute

LEMMA ExecuteFollows ==
  ASSUME DInv, Follows, DInv', NEW t \in Threads, Execute(t), spoilt' = "no"
  PROVE  Follows'
<1> DEFINE stopped == seen \ {t}
<1>1. bps' = bps /\ mode' = mode /\ pc' = [pc EXCEPT ![t] = After(pc[t])] /\ mode[t] = "run"
      /\ Track(goal, stepping, stopped, "no")
  BY DEF Execute
<1>2. goal' = goal /\ stepping' = stepping /\ seen' = stopped BY <1>1, TrackedTo
<1>3. /\ pc'[t] = After(pc[t]) /\ \A u \in Threads : u # t => pc'[u] = pc[u]
  BY <1>1, TypeParts DEF DInv
<1>4. goal[t] # 0 =>
        /\ pc[t] \notin Path(pc'[t], goal[t])
        /\ Path(pc'[t], goal[t]) \subseteq Path(pc[t], goal[t])
  BY <1>3, NotThereYet, PathNext
<1>5. ASSUME NEW u \in Threads PROVE Within(u)'
  <2>1. Within(u) BY DEF Follows
  <2>2. CASE u = t BY <1>1, <1>2, <1>4, <2>1, <2>2 DEF Within
  <2>3. CASE u # t BY <1>1, <1>2, <1>3, <2>1, <2>3 DEF Within
  <2> QED BY <2>2, <2>3
<1>6. Alone'
  <2> SUFFICES ASSUME ~overlap, NEW i \in OffOf(bps') PROVE \E u \in Steps(goal') : Passed(i, u)'
    BY <1>1, AloneNext
  <2>1. PICK u \in Steps(goal) : Passed(i, u) BY <1>1 DEF Follows, Alone
  <2>2. CASE u = t
    <3>1. goal[t] # 0 BY <2>1, <2>2 DEF Steps
    <3>2. Passed(i, t)' BY <1>1, <1>2, <1>4, <2>1, <2>2, <3>1 DEF Passed
    <3> QED BY <1>2, <2>1, <2>2, <3>2
  <2>3. CASE u # t
    <3>1. u \in Threads BY <2>1 DEF Steps
    <3>2. Passed(i, u)' BY <1>1, <1>2, <1>3, <2>1, <2>3, <3>1 DEF Passed
    <3> QED BY <1>2, <2>1, <3>2
  <2> QED BY <2>2, <2>3
<1>7. Told' BY <1>1, <1>2 DEF Follows, Told
<1> QED BY <1>1, <1>2, <1>5, <1>6, <1>7 DEF Follows, Planned, Meant, Steps

(* The step of a thread has ended.                                         *)
LEMMA DoneFollows ==
  ASSUME DInv, Follows, NEW t \in Threads, Ready(bps', t), pc' = pc, Alone',
         goal' = [goal EXCEPT ![t] = 0], seen \subseteq seen',
         stepping'[t] = None, mode'[t] = "told" => t \in seen',
         \A u \in Threads : u # t => stepping'[u] = stepping[u] /\ mode'[u] = mode[u]
  PROVE  Follows'
<1>1. goal'[t] = 0 /\ \A u \in Threads : u # t => goal'[u] = goal[u]
  BY TypeParts DEF DInv
<1>2. \A i \in 1..Temps : bps'.temp[i].addr # 0 =>
         bps'.temp[i] = bps.temp[i] /\ bps'.temp[i].thread # t
  BY DEF Ready
<1>3. Meant' BY <1>1, <1>2 DEF Follows, Meant
<1>4. ASSUME NEW u \in Steps(goal') PROVE Planned(u)'
  <2>1. u \in Threads /\ u # t /\ goal'[u] = goal[u] /\ goal[u] # 0 BY <1>1, <1>4 DEF Steps
  <2>2. Planned(u) BY <2>1 DEF Follows, Steps
  <2>3. ASSUME NEW i \in 1..Temps, bps.temp[i].addr = goal[u], bps.temp[i].thread = u
        PROVE  Planned(u)'
    <3>1. bps'.temp[i] = bps.temp[i] BY <2>1, <2>3 DEF Ready
    <3> QED BY <2>1, <2>3, <3>1 DEF Planned
  <2>4. ASSUME NEW i \in DOMAIN bps.user, bps.user[i].addr = goal[u], bps.user[i].off = FALSE,
               bps.user[i].owner \in {u, All}
        PROVE  Planned(u)'
    <3>1. /\ i \in DOMAIN bps'.user /\ bps'.user[i].addr = goal[u] /\ bps'.user[i].off = FALSE
          /\ bps'.user[i].owner \in {u, All}
      BY <2>4 DEF Ready
    <3> QED BY <2>1, <3>1 DEF Planned
  <2> QED BY <2>2, <2>3, <2>4 DEF Planned
<1>5. ASSUME NEW u \in Threads PROVE Within(u)'
  <2>1. CASE u = t BY <2>1 DEF Within
  <2>2. CASE u # t
    <3>1. Within(u) BY DEF Follows
    <3> QED BY <1>1, <1>2, <2>2, <3>1 DEF Within
  <2> QED BY <2>1, <2>2
<1>6. Told'
  <2> SUFFICES ASSUME NEW u \in Threads, mode'[u] = "told" PROVE u \in seen'
    BY DEF Told
  <2>1. u # t => u \in seen BY DEF Follows, Told
  <2> QED BY <2>1
<1> QED BY <1>3, <1>4, <1>5, <1>6 DEF Follows, Steps

(* A trap of the only thread on a step leaves no breakpoint disabled.      *)
LEMMA EnabledAll ==
  ASSUME DInv, spoilt = "no", NEW t \in Threads, Steps(goal) \subseteq {t}
  PROVE  OffOf(DoEnableDisabledBreak(bps, t)) = {}
<1>1. bps \in Books BY TypeParts DEF DInv
<1>2. NoSharing(bps) /\ Fits(Disabled(bps), Steps(goal)) BY DEF DInv, IInv, Consistent
<1>3. Fits(Disabled(DoEnableDisabledBreak(bps, t)), Steps(goal) \ {t}) BY <1>1, <1>2, EnableFits
<1>4. Steps(goal) \ {t} = {} OBVIOUS
<1> QED BY <1>3, <1>4, NoneOff

LEMMA TempHitFollows ==
  ASSUME DInv, Follows, DInv', NEW t \in Threads, TempHit(t), spoilt' = "no"
  PROVE  Follows'
<1> DEFINE i == Min(TempsAt(bps, pc[t]))
           e == DoEnableDisabledBreak(bps, t)
           b == ClearTemp(e, i)
           x == bps.temp[i]
           whose == IF x.thread = t THEN "no" ELSE "foreign"
           a == pc[t]
<1>1. a \in Addrs /\ bps \in Books /\ stepping \in [Threads -> Ranges]
      /\ mode \in [Threads -> {"run", "told", "silent"}] /\ goal \in [Threads -> 0..Size]
  BY TypeParts DEF DInv
<1>2. i \in 1..Temps /\ x.addr = a
  <2>1. TempsAt(bps, pc[t]) # {} /\ TempsAt(bps, pc[t]) \in SUBSET Nat
    BY Constants DEF TempHit, TempsAt
  <2>2. i \in TempsAt(bps, pc[t])
    BY <2>1, MinIn
  <2> QED BY <2>2 DEF TempsAt
<1>3. x \in TempEntries /\ x.addr # 0
  BY <1>1, <1>2, Constants DEF Books, Addrs
<1>4. \/ GoOn(t, StepOn(b, t, x), whose) /\ a > x.from /\ a < x.to
      \/ GoOn(t, DoResumeThread(b, t, a), whose) /\ (x.once \/ x.thread # t)
      \/ Report(t, b) /\ x.thread = t
  BY DEF TempHit
<1>5. e \in Books /\ e.temp = bps.temp
  BY <1>1, EnableKeeps
<1>6. /\ DOMAIN e.user = DOMAIN bps.user
      /\ \A j \in DOMAIN bps.user :
           /\ e.user[j].addr = bps.user[j].addr /\ e.user[j].owner = bps.user[j].owner
           /\ bps.user[j].off = FALSE => e.user[j].off = FALSE
  BY <1>1, EnableShape
<1>7. spoilt = "no" /\ x.thread = t
  <2>1. CASE Report(t, b) /\ x.thread = t BY <2>1 DEF Report, Track
  <2>2. ASSUME NEW r, GoOn(t, r, whose) PROVE spoilt = "no" /\ x.thread = t
    <3>1. spoilt = "no" /\ Either(whose, r.trouble) = "no" BY <2>2, TrackedTo DEF GoOn
    <3> QED BY <3>1 DEF Either
  <2> QED BY <1>4, <2>1, <2>2
<1>8. goal[t] = a /\ t \in Steps(goal)
  BY <1>2, <1>3, <1>7 DEF Follows, Meant, Steps
<1>9. ~overlap => OffOf(e) = {}
  <2>1. ~overlap => Steps(goal) \subseteq {t} BY <1>8 DEF Follows, Alone
  <2> QED BY <1>7, <2>1, EnabledAll
<1>10. Consistent(bps) /\ Consistent(e) BY <1>1, <1>7, EnableKeeps DEF DInv, IInv
<1> HIDE DEF e, x, i, whose
<1>11. b \in Books
  <2>1. e.temp[i].addr # 0 BY <1>3, <1>5 DEF x
  <2> QED BY <1>2, <1>5, <2>1, ClearTempKeeps
<1>12. b.user = e.user /\ b.temp = [bps.temp EXCEPT ![i] = Free]
  BY <1>5 DEF ClearTemp, Books
<1> HIDE DEF b
<1>13. b.temp[i].addr = 0 /\ \A j \in 1..Temps : j # i => b.temp[j] = bps.temp[j]
  <2>1. bps.temp \in [1..Temps -> TempEntries] BY <1>1 DEF Books
  <2>2. Free.addr = 0 BY DEF Free
  <2> QED BY <1>2, <1>12, <2>1, <2>2
<1>14. Ready(b, t)
  <2>1. ASSUME NEW j \in 1..Temps, bps.temp[j].addr # 0, bps.temp[j].thread = t PROVE j = i
    <3>1. bps.temp[j].addr = x.addr BY <1>2, <1>8, <2>1 DEF Follows, Meant
    <3> QED BY <1>2, <1>3, <1>10, <3>1 DEF Consistent, NoSharing, x
  <2>2. \A j \in 1..Temps :
          /\ b.temp[j].addr # 0 => b.temp[j] = bps.temp[j] /\ b.temp[j].thread # t
          /\ bps.temp[j].addr # 0 /\ bps.temp[j].thread # t => b.temp[j] = bps.temp[j]
    BY <1>7, <1>13, <2>1 DEF x
  <2> QED BY <1>6, <1>11, <1>12, <2>2 DEF Ready
<1>15. \A j \in DOMAIN b.user : b.user[j].addr # a
  BY <1>2, <1>6, <1>10, <1>12 DEF Consistent, NoSharing, x
<1>16. OffOf(b) = OffOf(e) BY <1>12 DEF OffOf
<1>17. CASE GoOn(t, StepOn(b, t, x), whose) /\ a > x.from /\ a < x.to
  <2> DEFINE r == DoStepRange(b, t, a, x.from, x.to, x.once)
             s == DoResumeThread(r.bps, t, a)
             y == StepTarget(a, x.to)
             entry == [addr |-> y, thread |-> t, from |-> x.from, to |-> x.to, once |-> x.once]
             range == stepping[t]
  <2>1. StepOn(b, t, x) = IF r.ok THEN r ELSE [s EXCEPT !.trouble = r.trouble]
    BY DEF StepOn
  <2>2. x.from \in 0..Size /\ x.to \in 0..(Size + 1) /\ x.once \in BOOLEAN BY <1>3 DEF TempEntries
  <2>3. r.trouble = "no" /\ StepOn(b, t, x) = r
    <3>1. Either(whose, StepOn(b, t, x).trouble) = "no" BY <1>17, TrackedTo DEF GoOn
    <3>2. StepOn(b, t, x).trouble = "no" BY <3>1 DEF Either
    <3>3. CASE ~r.ok
      <4>1. r.trouble # "no" BY <3>3, FailedStep
      <4>2. Sound(b, r) BY <1>1, <1>11, <2>2, StepRangeSound
      <4>3. Sound(r.bps, s) BY <1>1, <4>2, ResumeSound DEF Sound, Results
      <4> HIDE DEF r, s
      <4> QED BY <2>1, <3>2, <3>3, <4>1, <4>3 DEF Sound, Results
    <3> QED BY <2>1, <3>2, <3>3
  <2>4. y \in Addrs BY <1>1, <2>2, StepTargetType
  <2>5. Plan(b, t, a, r, entry) BY <1>1, <1>11, <2>2, <2>3, StepPlans
  <2>6. r.goal = y /\ r.ok BY <2>5 DEF Plan
  <2> HIDE DEF r, s, y
  <2>7. /\ bps' = r.bps /\ pc' = pc /\ mode' = [mode EXCEPT ![t] = "run"]
        /\ Track([goal EXCEPT ![t] = y], stepping, seen, Either(whose, r.trouble))
    BY <1>17, <2>3, <2>6 DEF GoOn
  <2>8. goal' = [goal EXCEPT ![t] = y] /\ stepping' = stepping /\ seen' = seen
    BY <2>7, TrackedTo
  <2>9. stepping' = [stepping EXCEPT ![t] = range] BY <1>1, <2>8
  <2>10. \/ range = None
         \/ /\ range[1] = x.from /\ range[2] = x.to /\ x.once = FALSE
            /\ Path(a, y) \subseteq range[1]..(range[2] - 1)
    <3> SUFFICES ASSUME range # None
                 PROVE  /\ range[1] = x.from /\ range[2] = x.to /\ x.once = FALSE
                        /\ Path(a, y) \subseteq range[1]..(range[2] - 1)
      OBVIOUS
    <3>1. range[1] = x.from /\ range[2] = x.to /\ x.once = FALSE
      BY <1>2, <1>3, <1>7 DEF Follows, Within, x
    <3>2. range[1] \in Addrs /\ range[2] \in 2..(Size + 1) BY <1>1 DEF Ranges
    <3>3. a \in range[1]..(range[2] - 1) BY <1>1, <1>17, <3>1, <3>2, Constants DEF Addrs
    <3>4. Path(a, y) \subseteq range[1]..(range[2] - 1)
      BY <1>1, <3>1, <3>2, <3>3, StepTargetPath DEF y
    <3> QED BY <3>1, <3>4
  <2>11. Alone'
    <3> SUFFICES ASSUME ~overlap, NEW j \in OffOf(bps') PROVE \E u \in Steps(goal') : Passed(j, u)'
      BY <2>7, AloneNext
    <3>1. j \in DOMAIN b.user /\ b.user[j].off BY <1>15, <2>5, <2>7 DEF OffOf, Plan
    <3> QED BY <1>9, <1>16, <3>1 DEF OffOf
  <2> HIDE DEF range
  <2> QED BY <1>14, <2>2, <2>4, <2>5, <2>7, <2>8, <2>9, <2>10, <2>11, PlanFollows
<1>18. CASE GoOn(t, DoResumeThread(b, t, a), whose) /\ (x.once \/ x.thread # t)
  <2>1. DoResumeThread(b, t, a) = [bps |-> b, ok |-> TRUE, goal |-> 0, trouble |-> "no"]
    BY <1>15 DEF DoResumeThread, UserAt
  <2>2. /\ bps' = b /\ pc' = pc /\ mode' = [mode EXCEPT ![t] = "run"]
        /\ Track([goal EXCEPT ![t] = 0], stepping, seen, Either(whose, "no"))
    BY <1>18, <2>1 DEF GoOn
  <2>3. goal' = [goal EXCEPT ![t] = 0] /\ stepping' = stepping /\ seen' = seen
    BY <2>2, TrackedTo
  <2>4. stepping[t] = None
    BY <1>2, <1>3, <1>7, <1>18 DEF Follows, Within, x
  <2>5. Alone'
    <3> SUFFICES ASSUME ~overlap, NEW j \in OffOf(bps') PROVE \E u \in Steps(goal') : Passed(j, u)'
      BY <2>2, AloneNext
    <3> QED BY <1>9, <1>16, <2>2
  <2>6. mode'[t] # "told" /\ \A u \in Threads : u # t => mode'[u] = mode[u] BY <1>1, <2>2
  <2>7. seen \subseteq seen' BY <2>3
  <2>8. Ready(bps', t) BY <1>14, <2>2
  <2> QED BY <2>2, <2>3, <2>4, <2>5, <2>6, <2>7, <2>8, DoneFollows
<1>19. CASE Report(t, b) /\ x.thread = t
  <2> DEFINE limit == IF \E j \in 1..Temps : b.temp[j].thread = t THEN "left" ELSE "no"
             ranges == [stepping EXCEPT ![t] = None]
  <2>1. /\ bps' = b /\ pc' = pc /\ mode' = [mode EXCEPT ![t] = "told"]
        /\ Track([goal EXCEPT ![t] = 0], ranges, seen \cup {t}, limit)
    BY <1>19 DEF Report
  <2>2. ranges[t] = None /\ \A u \in Threads : u # t => ranges[u] = stepping[u] BY <1>1
  <2> HIDE DEF limit, ranges
  <2>3. goal' = [goal EXCEPT ![t] = 0] /\ stepping' = ranges /\ seen' = seen \cup {t}
    BY <2>1, TrackedTo
  <2>4. Alone'
    <3> SUFFICES ASSUME ~overlap, NEW j \in OffOf(bps') PROVE \E u \in Steps(goal') : Passed(j, u)'
      BY <2>1, AloneNext
    <3> QED BY <1>9, <1>16, <2>1
  <2>5. t \in seen' /\ seen \subseteq seen' /\ \A u \in Threads : u # t => mode'[u] = mode[u]
    BY <1>1, <2>1, <2>3
  <2>6. Ready(bps', t) BY <1>14, <2>1
  <2> QED BY <2>1, <2>2, <2>3, <2>4, <2>5, <2>6, DoneFollows
<1> QED BY <1>4, <1>17, <1>18, <1>19

LEMMA UserHitFollows ==
  ASSUME DInv, Follows, DInv', NEW t \in Threads, UserHit(t), spoilt' = "no"
  PROVE  Follows'
<1> DEFINE b == DoEnableDisabledBreak(bps, t)
           r == DoResumeThread(b, t, pc[t])
           limit == IF \E i \in 1..Temps : b.temp[i].thread = t THEN "left" ELSE "no"
           ranges == [stepping EXCEPT ![t] = None]
<1>1. /\ pc[t] \in Addrs /\ bps \in Books /\ stepping \in [Threads -> Ranges]
      /\ mode \in [Threads -> {"run", "told", "silent"}] /\ goal \in [Threads -> 0..Size]
  BY TypeParts DEF DInv
<1>2. b \in Books /\ b.temp = bps.temp BY <1>1, EnableKeeps
<1>3. /\ DOMAIN b.user = DOMAIN bps.user
      /\ \A j \in DOMAIN bps.user :
           /\ b.user[j].addr = bps.user[j].addr /\ b.user[j].owner = bps.user[j].owner
           /\ bps.user[j].off = FALSE => b.user[j].off = FALSE
  BY <1>1, EnableShape
<1>4. \/ GoOn(t, r, "no") /\ \E i \in UserAt(bps, pc[t]) : bps.user[i].owner \notin {t, All}
      \/ Report(t, b)
  BY DEF UserHit
<1>5. spoilt = "no" BY <1>4, TrackedTo DEF GoOn, Report
<1>6. ~overlap /\ Steps(goal) \subseteq {t} => OffOf(b) = {} BY <1>5, EnabledAll
<1> HIDE DEF b
<1>7. ASSUME GoOn(t, r, "no"), NEW i \in UserAt(bps, pc[t]), bps.user[i].owner \notin {t, All}
      PROVE  FALSE
  <2> DEFINE a == pc[t]
             s == DoStepRange(b, t, a, a, a + 1, TRUE)
             entry == [addr |-> StepTarget(a, a + 1), thread |-> t, from |-> a, to |-> a + 1,
                       once |-> TRUE]
  <2>1. i \in UserAt(b, a) /\ b.user[i].owner \notin {t, All} BY <1>3, <1>7 DEF UserAt
  <2>2. r = s BY <2>1 DEF DoResumeThread
  <2>3. a \in 0..Size /\ a + 1 \in 0..(Size + 1) /\ TRUE \in BOOLEAN BY <1>1, Constants DEF Addrs
  <2>4. Either("no", r.trouble) = "no" BY <1>7, TrackedTo DEF GoOn
  <2>5. s.trouble = "no" BY <2>2, <2>4 DEF Either
  <2>6. Plan(b, t, a, s, entry) BY <1>1, <1>2, <2>3, <2>5, StepPlans
  <2> HIDE DEF s, entry, r
  <2> QED BY <2>1, <2>6 DEF Plan
<1>8. CASE Report(t, b)
  <2>1. /\ bps' = b /\ pc' = pc /\ mode' = [mode EXCEPT ![t] = "told"]
        /\ Track([goal EXCEPT ![t] = 0], ranges, seen \cup {t}, limit)
    BY <1>8 DEF Report
  <2>2. ranges[t] = None /\ \A u \in Threads : u # t => ranges[u] = stepping[u] BY <1>1
  <2> HIDE DEF ranges
  <2>3. goal' = [goal EXCEPT ![t] = 0] /\ stepping' = ranges /\ seen' = seen \cup {t}
        /\ limit = "no"
    <3> HIDE DEF limit
    <3> QED BY <2>1, TrackedTo
  <2>4. \A i \in 1..Temps : b.temp[i].thread # t BY <2>3
  <2>5. Ready(bps', t) BY <1>2, <1>3, <2>1, <2>4 DEF Ready
  <2>6. t \in seen' /\ seen \subseteq seen' /\ \A u \in Threads : u # t => mode'[u] = mode[u]
    BY <1>1, <2>1, <2>3
  <2>7. Alone'
    <3> SUFFICES ASSUME ~overlap, NEW j \in OffOf(bps') PROVE \E u \in Steps(goal') : Passed(j, u)'
      BY <2>1, AloneNext
    <3>1. j \in OffOf(bps)
      <4>1. j \in DOMAIN bps.user /\ b.user[j].off BY <1>3, <2>1 DEF OffOf
      <4>2. bps.user[j] \in UserEntries BY <1>1, <4>1 DEF Books
      <4>3. bps.user[j].off # FALSE BY <1>3, <4>1
      <4> QED BY <4>1, <4>2, <4>3 DEF OffOf, UserEntries
    <3>2. PICK u \in Steps(goal) : Passed(j, u) BY <3>1 DEF Follows, Alone
    <3>3. u # t
      <4>1. u = t => Steps(goal) \subseteq {t} BY <3>2 DEF Follows, Alone
      <4> QED BY <1>6, <2>1, <4>1
    <3>4. u \in Threads /\ goal'[u] = goal[u] /\ u \in Steps(goal')
      BY <1>1, <2>3, <3>2, <3>3 DEF Steps
    <3>5. bps'.user[j].addr = bps.user[j].addr /\ bps'.user[j].owner = bps.user[j].owner
      BY <1>3, <2>1, <3>1 DEF OffOf
    <3>6. Passed(j, u)' BY <2>1, <2>6, <3>2, <3>4, <3>5 DEF Passed
    <3> QED BY <3>4, <3>6
  <2> HIDE DEF limit
  <2> QED BY <2>1, <2>2, <2>3, <2>5, <2>6, <2>7, DoneFollows
<1> QED BY <1>4, <1>7, <1>8

(* Nothing happens beyond a limit, and only a thread that executes an      *)
(* instruction gets anywhere.                                              *)
LEMMA Steady ==
  ASSUME Next
  PROVE  spoilt = "no" /\ ((\E t \in Threads : Execute(t)) \/ pc' = pc)
<1> DEFINE Still == spoilt = "no" /\ pc' = pc
<1>1. ASSUME NEW goals, NEW ranges, NEW stopped, NEW trouble,
             Track(goals, ranges, stopped, trouble)
      PROVE  spoilt = "no"
  BY <1>1 DEF Track
<1>2. ASSUME NEW t \in Threads, NEW r, NEW trouble, GoOn(t, r, trouble) PROVE Still
  BY <1>1, <1>2 DEF GoOn
<1>3. ASSUME NEW t \in Threads, NEW b, Report(t, b) PROVE Still
  BY <1>1, <1>3 DEF Report
<1>4. ASSUME NEW t \in Threads, NEW r, NEW range, Command(t, r, range) PROVE Still
  BY <1>1, <1>4 DEF Command
<1>5. ASSUME NEW t \in Threads, Execute(t) PROVE spoilt = "no" BY <1>1, <1>5 DEF Execute
<1>6. ASSUME NEW t \in Threads, TempHit(t) PROVE Still
  <2> HIDE DEF Still
  <2> QED BY <1>2, <1>3, <1>6 DEF TempHit
<1>7. ASSUME NEW t \in Threads, UserHit(t) PROVE Still
  <2> HIDE DEF Still
  <2> QED BY <1>2, <1>3, <1>7 DEF UserHit
<1>8. ASSUME NEW t \in Threads, Continue(t) PROVE Still BY <1>4, <1>8 DEF Continue
<1>9. ASSUME NEW t \in Threads, NEW from \in Lines, NEW to \in 2..(Size + 1),
             StepRange(t, from, to)
      PROVE  Still
  BY <1>4, <1>9 DEF StepRange
<1>10. ASSUME NEW t \in Threads, DoSuspendThread(t) PROVE Still
  BY <1>1, <1>10 DEF DoSuspendThread
<1>11. ASSUME NEW owner \in Owners, NEW a \in Addrs, DoSetBreak(owner, a) PROVE Still
  BY <1>1, <1>11 DEF DoSetBreak
<1>12. ASSUME NEW i \in DOMAIN bps.user, DoClearBreak(i) PROVE Still
  BY <1>1, <1>12 DEF DoClearBreak
<1>13. ASSUME NEW i \in DOMAIN bps.user, NEW t \in Threads, DoChangeBreakThread(i, t)
       PROVE  Still
  BY <1>1, <1>13 DEF DoChangeBreakThread
<1>14. (\E t \in Threads : Execute(t) /\ spoilt = "no") \/ Still
  <2> HIDE DEF Still
  <2> QED BY <1>5, <1>6, <1>7, <1>8, <1>9, <1>10, <1>11, <1>12, <1>13 DEF Next
<1> QED BY <1>14

LEMMA InitFInv == Init => FInv
<1> SUFFICES ASSUME Init PROVE FInv
  OBVIOUS
<1>1. Steps(goal) = {} /\ OffOf(bps) = {} BY DEF Init, Steps, OffOf
<1>2. Meant BY DEF Init, Meant, Free
<1>3. (\A t \in Threads : Within(t)) /\ Told BY DEF Init, Within, Told
<1>4. Alone BY <1>1 DEF Alone
<1> QED BY <1>1, <1>2, <1>3, <1>4, InitDInv DEF FInv, Follows

LEMMA NextFInv == FInv /\ [Next]_vars => FInv'
<1> SUFFICES ASSUME FInv, [Next]_vars PROVE FInv'
  OBVIOUS
<1>1. DInv /\ DInv' BY NextDInv DEF FInv
<1>2. CASE UNCHANGED vars
  <2>1. /\ bps' = bps /\ pc' = pc /\ mode' = mode /\ goal' = goal /\ stepping' = stepping
        /\ seen' = seen /\ overlap' = overlap /\ spoilt' = spoilt
    BY <1>2 DEF vars
  <2>2. Follows => Follows'
    BY <2>1 DEF Follows, Planned, Meant, Within, Alone, Passed, Told, Steps, OffOf
  <2> QED BY <1>1, <2>1, <2>2 DEF FInv
<1>3. CASE Next
  <2> SUFFICES ASSUME spoilt' = "no" PROVE Follows'
    BY <1>1 DEF FInv
  <2>1. spoilt = "no" BY <1>3, Steady
  <2>2. Follows BY <2>1 DEF FInv
  <2>3. ASSUME NEW t \in Threads, Execute(t) PROVE Follows' BY <1>1, <2>2, <2>3, ExecuteFollows
  <2>4. ASSUME NEW t \in Threads, TempHit(t) PROVE Follows' BY <1>1, <2>2, <2>4, TempHitFollows
  <2>5. ASSUME NEW t \in Threads, UserHit(t) PROVE Follows' BY <1>1, <2>2, <2>5, UserHitFollows
  <2>6. ASSUME NEW t \in Threads, Continue(t) PROVE Follows' BY <1>1, <2>2, <2>6, ContinueFollows
  <2>7. ASSUME NEW t \in Threads, DoSuspendThread(t) PROVE Follows'
    BY <1>1, <2>2, <2>7, SuspendFollows
  <2>8. ASSUME NEW t \in Threads, NEW from \in Lines, NEW to \in 2..(Size + 1),
               StepRange(t, from, to)
        PROVE  Follows'
    BY <1>1, <2>2, <2>8, StepRangeFollows
  <2>9. ASSUME NEW owner \in Owners, NEW a \in Addrs, DoSetBreak(owner, a) PROVE Follows'
    BY <1>1, <2>2, <2>9, SetBreakFollows
  <2>10. ASSUME NEW i \in DOMAIN bps.user, DoClearBreak(i) PROVE Follows'
    BY <1>1, <2>2, <2>10, ClearBreakFollows
  <2>11. ASSUME NEW i \in DOMAIN bps.user, NEW t \in Threads, DoChangeBreakThread(i, t)
         PROVE  Follows'
    BY <1>1, <2>2, <2>11, ChangeBreakThreadFollows
  <2> QED
    BY <1>3, <2>3, <2>4, <2>5, <2>6, <2>7, <2>8, <2>9, <2>10, <2>11 DEF Next
<1> QED BY <1>2, <1>3

LEMMA Following == Spec => [](FInv) /\ [][Next]_vars
BY InitFInv, NextFInv, PTL DEF Spec

LEMMA Moves ==
  ASSUME DInv, Next, NEW t \in Threads, pc'[t] # pc[t]
  PROVE  Execute(t) /\ spoilt = "no"
<1>1. pc \in [Threads -> Addrs] BY TypeParts DEF DInv
<1>2. ASSUME NEW u \in Threads, Execute(u) PROVE Execute(t)
  <2>1. pc' = [pc EXCEPT ![u] = After(pc[u])] BY <1>2 DEF Execute
  <2>2. u = t BY <1>1, <2>1
  <2> QED BY <1>2, <2>2
<1> QED BY <1>2, Steady

(* However threads and commands interleave, a thread that arrives at a     *)
(* breakpoint meant for it is stopped there, unless another is on a step.  *)
THEOREM NoneMissed == Spec => NoMissedBreakpoint
<1> DEFINE A ==
      \A t \in Threads :
        pc'[t] # pc[t] /\ t \notin seen /\ ~overlap /\ (\A u \in Threads \ {t} : goal[u] = 0)
          => \A i \in UserAt(bps, pc[t]) : bps.user[i].owner \notin {t, All}
<1>1. FInv /\ [Next]_vars => [A]_vars
  <2> SUFFICES ASSUME FInv, Next, NEW t \in Threads, pc'[t] # pc[t], t \notin seen, ~overlap,
                      \A u \in Threads \ {t} : goal[u] = 0,
                      NEW i \in UserAt(bps, pc[t]), bps.user[i].owner \in {t, All}
               PROVE  FALSE
    OBVIOUS
  <2>1. DInv /\ Execute(t) /\ spoilt = "no" BY Moves DEF FInv
  <2>2. Follows /\ Consistent(bps) BY <2>1 DEF FInv, DInv, IInv
  <2>3. i \in DOMAIN bps.user /\ bps.user[i].addr = pc[t] /\ pc[t] \in Addrs
        /\ bps.user[i] \in UserEntries
    BY <2>1, TypeParts DEF UserAt, DInv, Books
  <2>4. i \in OffOf(bps)
    <3>1. pc[t] \notin bps.code BY <2>1 DEF Execute
    <3>2. bps.user[i].off # FALSE BY <2>2, <2>3, <3>1 DEF Consistent, Wanted
    <3> QED BY <2>3, <3>2 DEF OffOf, UserEntries
  <2>5. PICK u \in Steps(goal) : Passed(i, u) BY <2>2, <2>4 DEF Follows, Alone
  <2>6. u = t /\ goal[t] # 0 BY <2>5 DEF Steps
  <2>7. pc[t] \notin Path(pc[t], goal[t]) BY <2>3, <2>5, <2>6 DEF Passed
  <2> QED BY <2>1, <2>2, <2>6, <2>7, NotThereYet, PathNext
<1> HIDE DEF A
<1>2. Spec => [][A]_vars BY <1>1, Following, PTL
<1> QED BY <1>2 DEF NoMissedBreakpoint, A

(* A thread that the host steps over a range executes no instruction out   *)
(* of the range before it reports: DoStepRange plants a breakpoint at each *)
(* way out.                                                                *)
THEOREM StaysInRange == Spec => StepStaysInRange
<1> DEFINE A ==
      \A t \in Threads :
        pc'[t] # pc[t] /\ stepping[t] # None
          => pc[t] \in stepping[t][1]..(stepping[t][2] - 1)
<1>1. FInv /\ [Next]_vars => [A]_vars
  <2> SUFFICES ASSUME FInv, Next, NEW t \in Threads, pc'[t] # pc[t], stepping[t] # None
               PROVE  pc[t] \in stepping[t][1]..(stepping[t][2] - 1)
    OBVIOUS
  <2>1. DInv /\ Execute(t) /\ spoilt = "no" BY Moves DEF FInv
  <2>2. Follows BY <2>1 DEF FInv
  <2>3. goal[t] # 0 /\ Path(pc[t], goal[t]) \subseteq stepping[t][1]..(stepping[t][2] - 1)
    BY <2>2 DEF Follows, Within
  <2> QED BY <2>1, <2>2, <2>3, NotThereYet, PathNext
<1> HIDE DEF A
<1>2. Spec => [][A]_vars BY <1>1, Following, PTL
<1> QED BY <1>2 DEF StepStaysInRange, A

===============================================================================
