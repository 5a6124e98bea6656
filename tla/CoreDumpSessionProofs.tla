-------------------------- MODULE CoreDumpSessionProofs --------------------------
(* Proofs about CoreDumpSession, for any plug-ins, executables and threads *)
(* and any number of plug-ins loaded, whether or not calls may fail.       *)
EXTENDS CoreDumpSession, WellFoundedInduction, FiniteSetTheorems, TLAPS

Infos == [uid : FormatterUids, pair : 0..Unpaired]
Formatters == [id : Nat, save : Nat]
Plugs == [finfos : Seq(Infos), formatters : Seq(Formatters),
          winfos : Seq(WriterUids), writers : Seq(Nat)]
Actions == {"off", "ignore", "continue", "suspend"}
Events == [exc : Actions, kill : Actions]
Configs == [types : EventTypes, pre : PreActions]
Observations == UNION {[S -> SUBSET TargetThreads] : S \in SUBSET Targets}
Files == [config : Configs, writers : Seq(WriterUids), formatters : Seq(Infos),
          observers : Observations]

TypeOK ==
  /\ plugs \in Plugs /\ params \subseteq Nat /\ observers \in Observations
  /\ dss \in [Targets -> Events] /\ config \in Configs /\ inForce \in Configs
  /\ file = NoFile \/ file \in Files
  /\ moved \in BOOLEAN /\ half \in BOOLEAN /\ wild \in BOOLEAN /\ loads \in 0..MaxLoads

(* Plug-ins are made one at a time; what ECom could not make leaves only   *)
(* information about it.                                                   *)
Fits(p, n) ==
  /\ Len(p.finfos) + Len(p.winfos) <= n
  /\ Len(p.formatters) <= Len(p.finfos) /\ Len(p.writers) <= Len(p.winfos)

(* Every pair the client is told of names a writer, the one the formatter  *)
(* writes to.                                                              *)
Placed(p) ==
  \A f \in 1..Len(p.finfos) :
    \/ p.finfos[f].pair = Unpaired
    \/ /\ p.finfos[f].pair < Len(p.writers)
       /\ p.formatters[f].save = p.writers[p.finfos[f].pair + 1]

PluginsFine ==
  /\ plugs \in Plugs /\ loads \in 0..MaxLoads /\ moved \in BOOLEAN
  /\ Fits(plugs, loads)
  /\ Aligned(plugs) /\ ~moved => Placed(plugs)
  /\ ParamsAlive

EventsFine ==
  /\ observers \in Observations /\ dss \in [Targets -> Events]
  /\ config \in Configs /\ inForce \in Configs /\ half \in BOOLEAN /\ wild \in BOOLEAN
  /\ wild => half
  /\ ObservedAsConfigured

FileFine == file = NoFile \/ file \in Files

IInv == PluginsFine /\ EventsFine /\ FileFine

LEMMA FirstIn ==
  ASSUME NEW S \in SUBSET Nat, S # {}
  PROVE  \E i \in S : \A j \in S : i <= j
<1> DEFINE R == {ss \in Nat \X Nat : ss[1] < ss[2]}
<1>1. IsWellFoundedOn(R, Nat) BY NatLessThanWellFounded DEF OpToRel
<1>2. PICK x \in S : \A y \in S : ~(<<y, x>> \in R)
  <2> HIDE DEF R
  <2> QED BY <1>1, WFMin
<1>3. ASSUME NEW y \in S PROVE x <= y
  <2>1. <<y, x>> \notin R BY <1>2
  <2> QED BY <2>1
<1> QED BY <1>3

LEMMA Bounded == MaxLoads \in Nat /\ Unpaired = MaxLoads + 1
BY BoundAssumption DEF Unpaired

LEMMA Parts ==
  ASSUME NEW p \in Plugs
  PROVE  /\ p.finfos \in Seq(Infos) /\ Len(p.finfos) \in Nat
         /\ p.formatters \in Seq(Formatters) /\ Len(p.formatters) \in Nat
         /\ p.winfos \in Seq(WriterUids) /\ Len(p.winfos) \in Nat
         /\ p.writers \in Seq(Nat) /\ Len(p.writers) \in Nat
         /\ p = [finfos |-> p.finfos, formatters |-> p.formatters,
                 winfos |-> p.winfos, writers |-> p.writers]
         /\ \A i \in 1..Len(p.finfos) : p.finfos[i] \in Infos
         /\ \A i \in 1..Len(p.formatters) : p.formatters[i] \in Formatters
BY DEF Plugs

LEMMA ObjectsAre ==
  ASSUME NEW p \in Plugs
  PROVE  /\ Objects(p) = {p.formatters[i].id : i \in 1..Len(p.formatters)}
                         \cup {p.writers[i] : i \in 1..Len(p.writers)}
         /\ Remembered(p) = Objects(p) \cup {p.formatters[i].save : i \in 1..Len(p.formatters)}
<1>1. DOMAIN p.formatters = 1..Len(p.formatters) /\ DOMAIN p.writers = 1..Len(p.writers)
  BY Parts
<1>2. /\ {e.id : e \in ToSet(p.formatters)} = {p.formatters[i].id : i \in 1..Len(p.formatters)}
      /\ {e.save : e \in ToSet(p.formatters)} = {p.formatters[i].save : i \in 1..Len(p.formatters)}
  <2>1. ASSUME NEW x PROVE x \in ToSet(p.formatters)
                             <=> \E i \in 1..Len(p.formatters) : x = p.formatters[i]
    BY <1>1 DEF ToSet
  <2>2. {e.id : e \in ToSet(p.formatters)} = {p.formatters[i].id : i \in 1..Len(p.formatters)}
    BY ONLY <2>1
  <2>3. {e.save : e \in ToSet(p.formatters)} = {p.formatters[i].save : i \in 1..Len(p.formatters)}
    BY ONLY <2>1
  <2> QED BY <2>2, <2>3
<1>3. ToSet(p.writers) = {p.writers[i] : i \in 1..Len(p.writers)} BY <1>1 DEF ToSet
<1> QED BY <1>2, <1>3 DEF Objects, Remembered

LEMMA Changed ==
  /\ \A e \in Infos, w \in 0..Unpaired : /\ [e EXCEPT !.pair = w] = [uid |-> e.uid, pair |-> w]
                                         /\ [uid |-> e.uid, pair |-> w] \in Infos
  /\ \A e \in Formatters, o \in Nat : /\ [e EXCEPT !.save = o] = [id |-> e.id, save |-> o]
                                      /\ [id |-> e.id, save |-> o] \in Formatters
BY DEF Infos, Formatters

LEMMA ReplacedWinfos ==
  ASSUME NEW p \in Plugs, NEW x
  PROVE  [p EXCEPT !.winfos = x]
           = [finfos |-> p.finfos, formatters |-> p.formatters, winfos |-> x, writers |-> p.writers]
<1>1. PICK a, b, c, d : /\ a = p.finfos /\ b = p.formatters /\ c = p.winfos /\ d = p.writers
                      /\ p = [finfos |-> a, formatters |-> b, winfos |-> c, writers |-> d]
  BY Parts
<1> QED BY <1>1

LEMMA ReplacedFinfos ==
  ASSUME NEW p \in Plugs, NEW x
  PROVE  [p EXCEPT !.finfos = x]
           = [finfos |-> x, formatters |-> p.formatters, winfos |-> p.winfos, writers |-> p.writers]
<1>1. PICK a, b, c, d : /\ a = p.finfos /\ b = p.formatters /\ c = p.winfos /\ d = p.writers
                      /\ p = [finfos |-> a, formatters |-> b, winfos |-> c, writers |-> d]
  BY Parts
<1> QED BY <1>1

LEMMA ReplacedWriters ==
  ASSUME NEW p \in Plugs, NEW x, NEW y
  PROVE  [p EXCEPT !.winfos = x, !.writers = y]
           = [finfos |-> p.finfos, formatters |-> p.formatters, winfos |-> x, writers |-> y]
<1>1. PICK a, b, c, d : /\ a = p.finfos /\ b = p.formatters /\ c = p.winfos /\ d = p.writers
                      /\ p = [finfos |-> a, formatters |-> b, winfos |-> c, writers |-> d]
  BY Parts
<1> DEFINE u == [p EXCEPT !.winfos = x]
<1>2. u = [finfos |-> a, formatters |-> b, winfos |-> x, writers |-> d] BY <1>1
<1> HIDE DEF u
<1>3. [u EXCEPT !.writers = y] = [finfos |-> a, formatters |-> b, winfos |-> x, writers |-> y]
  BY <1>2
<1> QED BY <1>1, <1>3, Zenon DEF u

LEMMA ReplacedFormatters ==
  ASSUME NEW p \in Plugs, NEW x, NEW y
  PROVE  [p EXCEPT !.finfos = x, !.formatters = y]
           = [finfos |-> x, formatters |-> y, winfos |-> p.winfos, writers |-> p.writers]
<1>1. PICK a, b, c, d : /\ a = p.finfos /\ b = p.formatters /\ c = p.winfos /\ d = p.writers
                      /\ p = [finfos |-> a, formatters |-> b, winfos |-> c, writers |-> d]
  BY Parts
<1> DEFINE u == [p EXCEPT !.finfos = x]
<1>2. u = [finfos |-> x, formatters |-> b, winfos |-> c, writers |-> d] BY <1>1
<1> HIDE DEF u
<1>3. [u EXCEPT !.formatters = y] = [finfos |-> x, formatters |-> y, winfos |-> c, writers |-> d]
  BY <1>2
<1> QED BY <1>1, <1>3, Zenon DEF u

(* No set the size of the remembered objects holds every number.           *)
LEMMA ImageIsSmall ==
  ASSUME NEW n \in Nat, NEW f, f = [i \in 1..n |-> f[i]]
  PROVE  LET T == {f[i] : i \in 1..n} IN IsFiniteSet(T) /\ Cardinality(T) <= n
<1> DEFINE T == {f[i] : i \in 1..n}
<1>1. f \in Surjection(1..n, T) BY DEF Surjection
<1>2. IsFiniteSet(1..n) /\ Cardinality(1..n) = n BY FS_Interval
<1> HIDE DEF T
<1>3. IsFiniteSet(T) /\ Cardinality(T) <= n BY <1>1, <1>2, FS_Surjection
<1> QED BY <1>3 DEF T

LEMMA UnionIsSmall ==
  ASSUME NEW S, NEW T, NEW m \in Nat, NEW n \in Nat,
         IsFiniteSet(S), IsFiniteSet(T), Cardinality(S) <= m, Cardinality(T) <= n
  PROVE  IsFiniteSet(S \cup T) /\ Cardinality(S \cup T) <= m + n
<1>1. IsFiniteSet(S \cup T)
      /\ Cardinality(S \cup T) = Cardinality(S) + Cardinality(T) - Cardinality(S \cap T)
  BY FS_Union
<1>2. IsFiniteSet(S \cap T) BY FS_Subset
<1>3. Cardinality(S) \in Nat /\ Cardinality(T) \in Nat /\ Cardinality(S \cap T) \in Nat
  BY <1>2, FS_CardinalityType
<1> QED BY <1>1, <1>3

(* An object ECom makes has a number that nothing has or remembers.        *)
LEMMA NewObjectIsNew ==
  ASSUME NEW p \in Plugs, Len(p.formatters) + Len(p.writers) <= MaxLoads
  PROVE  NewObject(p) \in Nat /\ NewObject(p) \notin Remembered(p)
<1>0. /\ MaxLoads \in Nat /\ Len(p.formatters) \in Nat /\ Len(p.writers) \in Nat
      /\ p.formatters \in Seq(Formatters) /\ p.writers \in Seq(Nat)
  BY Bounded, Parts
<1> DEFINE F == Len(p.formatters)
           W == Len(p.writers)
           ids == [i \in 1..F |-> p.formatters[i].id]
           saves == [i \in 1..F |-> p.formatters[i].save]
           A == {ids[i] : i \in 1..F}
           B == {saves[i] : i \in 1..F}
           C == {p.writers[i] : i \in 1..W}
<1>1. Remembered(p) = (A \cup C) \cup B
  <2>1. /\ A = {p.formatters[i].id : i \in 1..F}
        /\ B = {p.formatters[i].save : i \in 1..F}
    OBVIOUS
  <2> HIDE DEF A, B
  <2> QED BY <2>1, ObjectsAre
<1>2. IsFiniteSet(A) /\ Cardinality(A) <= F
  <2>1. ids = [i \in 1..F |-> ids[i]] OBVIOUS
  <2> HIDE DEF ids
  <2> QED BY <1>0, <2>1, ImageIsSmall
<1>3. IsFiniteSet(B) /\ Cardinality(B) <= F
  <2>1. saves = [i \in 1..F |-> saves[i]] OBVIOUS
  <2> HIDE DEF saves
  <2> QED BY <1>0, <2>1, ImageIsSmall
<1>4. IsFiniteSet(C) /\ Cardinality(C) <= W
  <2>1. p.writers = [i \in 1..W |-> p.writers[i]] BY <1>0
  <2> QED BY <1>0, <2>1, ImageIsSmall
<1> HIDE DEF A, B, C
<1>5. F \in Nat /\ W \in Nat /\ F + W <= MaxLoads BY <1>0
<1> HIDE DEF F, W
<1>6. IsFiniteSet(A \cup C) /\ Cardinality(A \cup C) <= F + W
  BY <1>2, <1>4, <1>5, UnionIsSmall
<1>7. IsFiniteSet(Remembered(p)) /\ Cardinality(Remembered(p)) <= (F + W) + F
  <2>1. F + W \in Nat BY <1>5
  <2> QED BY <1>1, <1>3, <1>5, <1>6, <2>1, UnionIsSmall
<1>8. Cardinality(Remembered(p)) \in Nat BY <1>7, FS_CardinalityType
<1>9. Cardinality(1..2 * MaxLoads + 1) = 2 * MaxLoads + 1
  <2>1. 2 * MaxLoads + 1 \in Nat BY <1>0
  <2> QED BY <2>1, FS_Interval
<1>10. \E id \in 1..2 * MaxLoads + 1 : id \notin Remembered(p)
  <2>1. SUFFICES ASSUME 1..2 * MaxLoads + 1 \subseteq Remembered(p) PROVE FALSE OBVIOUS
  <2>2. Cardinality(1..2 * MaxLoads + 1) <= Cardinality(Remembered(p))
    BY <1>7, <2>1, FS_Subset
  <2> QED BY <1>0, <1>5, <1>7, <1>8, <1>9, <2>2
<1>11. NewObject(p) \in 1..2 * MaxLoads + 1 /\ NewObject(p) \notin Remembered(p)
  BY <1>10 DEF NewObject
<1> QED BY <1>0, <1>11

LEMMA Updated ==
  ASSUME NEW R, NEW s \in Seq(R), NEW k \in 1..Len(s), NEW x \in R
  PROVE  LET t == [s EXCEPT ![k] = x]
         IN  /\ t \in Seq(R) /\ Len(t) = Len(s)
             /\ \A i \in 1..Len(s) : t[i] = IF i = k THEN x ELSE s[i]
OBVIOUS

LEMMA ConfiguredKeeps ==
  ASSUME NEW p \in Plugs, NEW f \in Nat, NEW w \in 0..MaxLoads,
         f < Len(p.finfos), f < Len(p.formatters), w < Len(p.writers)
  PROVE  LET q == Configured(p, f, w)
         IN  /\ q \in Plugs /\ q.winfos = p.winfos /\ q.writers = p.writers
             /\ Len(q.finfos) = Len(p.finfos) /\ Len(q.formatters) = Len(p.formatters)
             /\ Objects(q) = Objects(p)
             /\ \A i \in 1..Len(p.finfos) :
                  q.finfos[i] = IF i = f + 1 THEN [uid |-> p.finfos[i].uid, pair |-> w]
                                ELSE p.finfos[i]
             /\ Aligned(p) /\ Placed(p) => Placed(q)
<1> DEFINE q == Configured(p, f, w)
           info == [p.finfos[f + 1] EXCEPT !.pair = w]
           object == [p.formatters[f + 1] EXCEPT !.save = p.writers[w + 1]]
<1>0. /\ MaxLoads \in Nat /\ Unpaired = MaxLoads + 1 /\ w \in Nat /\ w \in 0..Unpaired
      /\ f + 1 \in 1..Len(p.finfos) /\ f + 1 \in 1..Len(p.formatters)
      /\ w + 1 \in 1..Len(p.writers)
  BY Bounded, Parts
<1>1. /\ p.finfos \in Seq(Infos) /\ p.formatters \in Seq(Formatters)
      /\ p.finfos[f + 1] \in Infos /\ p.formatters[f + 1] \in Formatters
      /\ p.writers \in Seq(Nat) /\ p.winfos \in Seq(WriterUids)
      /\ p.writers[w + 1] \in Nat
  BY <1>0, Parts
<1>2. q = [p EXCEPT !.finfos = [p.finfos EXCEPT ![f + 1] = info],
                    !.formatters = [p.formatters EXCEPT ![f + 1] = object]]
  BY DEF Configured, At
<1>3. info = [uid |-> p.finfos[f + 1].uid, pair |-> w] /\ info \in Infos
  BY SMTT(30), <1>0, <1>1, Changed
<1>4. object = [id |-> p.formatters[f + 1].id, save |-> p.writers[w + 1]]
      /\ object \in Formatters
  BY SMTT(30), <1>1, Changed
<1> HIDE DEF q, info, object
<1>5. /\ q.finfos = [p.finfos EXCEPT ![f + 1] = info]
      /\ q.formatters = [p.formatters EXCEPT ![f + 1] = object]
      /\ q.winfos = p.winfos /\ q.writers = p.writers
      /\ q = [finfos |-> q.finfos, formatters |-> q.formatters,
              winfos |-> q.winfos, writers |-> q.writers]
  <2>1. p = [finfos |-> p.finfos, formatters |-> p.formatters,
             winfos |-> p.winfos, writers |-> p.writers]
    BY Parts
  <2>2. q = [finfos |-> [p.finfos EXCEPT ![f + 1] = info],
             formatters |-> [p.formatters EXCEPT ![f + 1] = object],
             winfos |-> p.winfos, writers |-> p.writers]
    BY <1>2, <2>1
  <2> QED BY <2>2
<1>6. q.finfos \in Seq(Infos) /\ Len(q.finfos) = Len(p.finfos)
      /\ \A i \in 1..Len(p.finfos) : q.finfos[i] = IF i = f + 1 THEN info ELSE p.finfos[i]
  BY SMTT(30), <1>0, <1>1, <1>3, <1>5, Updated
<1>7. q.formatters \in Seq(Formatters) /\ Len(q.formatters) = Len(p.formatters)
      /\ \A i \in 1..Len(p.formatters) :
           q.formatters[i] = IF i = f + 1 THEN object ELSE p.formatters[i]
  BY SMTT(30), <1>0, <1>1, <1>4, <1>5, Updated
<1>8. q \in Plugs BY <1>1, <1>5, <1>6, <1>7 DEF Plugs
<1>9. Objects(q) = Objects(p)
  <2>2. \A i \in 1..Len(p.formatters) : q.formatters[i].id = p.formatters[i].id
    BY <1>4, <1>7
  <2>3. {q.formatters[i].id : i \in 1..Len(q.formatters)}
          = {p.formatters[i].id : i \in 1..Len(p.formatters)}
    BY <1>7, <2>2
  <2>4. {q.writers[i] : i \in 1..Len(q.writers)} = {p.writers[i] : i \in 1..Len(p.writers)}
    BY <1>5
  <2>5. Objects(q) = {q.formatters[i].id : i \in 1..Len(q.formatters)}
                     \cup {q.writers[i] : i \in 1..Len(q.writers)}
    BY <1>8, ObjectsAre
  <2>6. Objects(p) = {p.formatters[i].id : i \in 1..Len(p.formatters)}
                     \cup {p.writers[i] : i \in 1..Len(p.writers)}
    BY ObjectsAre
  <2> QED BY <2>3, <2>4, <2>5, <2>6
<1>10. ASSUME Aligned(p), Placed(p) PROVE Placed(q)
  <2>1. Len(p.finfos) = Len(p.formatters) BY <1>10 DEF Aligned
  <2>2. ASSUME NEW i \in 1..Len(q.finfos)
        PROVE  \/ q.finfos[i].pair = Unpaired
               \/ /\ q.finfos[i].pair < Len(q.writers)
                  /\ q.formatters[i].save = q.writers[q.finfos[i].pair + 1]
    <3>1. CASE i = f + 1 BY <1>3, <1>4, <1>5, <1>6, <1>7, <2>1, <3>1
    <3>2. CASE i # f + 1
      <4>1. q.finfos[i] = p.finfos[i] /\ q.formatters[i] = p.formatters[i]
        BY <1>6, <1>7, <2>1, <3>2
      <4>2. \/ p.finfos[i].pair = Unpaired
            \/ /\ p.finfos[i].pair < Len(p.writers)
               /\ p.formatters[i].save = p.writers[p.finfos[i].pair + 1]
        BY <1>6, <1>10 DEF Placed
      <4> QED BY <1>5, <4>1, <4>2
    <3> QED BY <3>1, <3>2
  <2> QED BY <2>2 DEF Placed
<1> QED BY <1>3, <1>5, <1>6, <1>7, <1>8, <1>9, <1>10 DEF q

LEMMA FirstBoundKeeps ==
  ASSUME NEW p \in Plugs, Fits(p, MaxLoads)
  PROVE  LET q == FirstBound(p)
         IN  /\ q \in Plugs /\ q.winfos = p.winfos /\ q.writers = p.writers
             /\ Len(q.finfos) = Len(p.finfos) /\ Len(q.formatters) = Len(p.formatters)
             /\ Objects(q) = Objects(p)
             /\ \A i \in 1..Len(p.finfos) : /\ q.finfos[i].uid = p.finfos[i].uid
                                            /\ Len(p.formatters) # 1 => q.finfos[i] = p.finfos[i]
             /\ Aligned(p) /\ Placed(p) => Placed(q)
<1>1. CASE Len(p.formatters) = 1 /\ Len(p.writers) = 1
  <2>1. /\ 0 \in Nat /\ 0 \in 0..MaxLoads /\ 0 < Len(p.finfos)
        /\ 0 < Len(p.formatters) /\ 0 < Len(p.writers)
    BY <1>1, Bounded, Parts DEF Fits
  <2>2. FirstBound(p) = Configured(p, 0, 0) BY <1>1 DEF FirstBound
  <2> DEFINE q == Configured(p, 0, 0)
  <2>3. /\ q \in Plugs /\ q.winfos = p.winfos /\ q.writers = p.writers
        /\ Len(q.finfos) = Len(p.finfos) /\ Len(q.formatters) = Len(p.formatters)
        /\ Objects(q) = Objects(p)
        /\ \A i \in 1..Len(p.finfos) :
             q.finfos[i] = IF i = 1 THEN [uid |-> p.finfos[i].uid, pair |-> 0]
                           ELSE p.finfos[i]
        /\ Aligned(p) /\ Placed(p) => Placed(q)
    BY <2>1, ConfiguredKeeps
  <2> HIDE DEF q
  <2>4. FirstBound(p) = q BY <2>2 DEF q
  <2>5. ASSUME NEW i \in 1..Len(p.finfos) PROVE q.finfos[i].uid = p.finfos[i].uid
    <3>1. CASE i = 1
      <4>1. q.finfos[i] = [uid |-> p.finfos[i].uid, pair |-> 0] BY <2>3, <3>1
      <4> QED BY <4>1
    <3>2. CASE i # 1 BY <2>3, <3>2
    <3> QED BY <3>1, <3>2
  <2> QED BY <1>1, <2>3, <2>4, <2>5
<1>2. CASE ~(Len(p.formatters) = 1 /\ Len(p.writers) = 1)
  <2>1. FirstBound(p) = p BY <1>2 DEF FirstBound
  <2> QED BY <2>1
<1> QED BY <1>1, <1>2

LEMMA CreateWriterKeeps ==
  ASSUME NEW p \in Plugs, NEW n \in Nat, Fits(p, n), n < MaxLoads, NEW uid \in WriterUids
  PROVE  LET q == CreateWriter(p, uid)
         IN  /\ q \in Plugs /\ Fits(q, n + 1) /\ Objects(p) \subseteq Objects(q)
             /\ q.winfos = Append(p.winfos, uid) /\ Len(q.finfos) = Len(p.finfos)
             /\ Aligned(q) <=> Aligned(p)
             /\ Aligned(p) /\ Placed(p) => Placed(q)
<1> DEFINE new == NewObject(p)
           r == [p EXCEPT !.winfos = Append(@, uid), !.writers = Append(@, new)]
<1>0. /\ p.finfos \in Seq(Infos) /\ p.formatters \in Seq(Formatters)
      /\ p.winfos \in Seq(WriterUids) /\ p.writers \in Seq(Nat)
  BY Bounded, Parts
<1>a. /\ MaxLoads \in Nat /\ Len(p.finfos) \in Nat /\ Len(p.formatters) \in Nat
      /\ Len(p.winfos) \in Nat /\ Len(p.writers) \in Nat
  BY Bounded, Parts
<1>1. new \in Nat
  <2>1. Len(p.formatters) + Len(p.writers) <= MaxLoads BY <1>a DEF Fits, Plugs
  <2> QED BY <2>1, NewObjectIsNew
<1> HIDE DEF new
<1>2. r = [finfos |-> p.finfos, formatters |-> p.formatters,
           winfos |-> Append(p.winfos, uid), writers |-> Append(p.writers, new)]
  <2> DEFINE w == Append(p.winfos, uid)
             o == Append(p.writers, new)
  <2> HIDE DEF w, o
  <2>1. [p EXCEPT !.winfos = w, !.writers = o]
          = [finfos |-> p.finfos, formatters |-> p.formatters, winfos |-> w, writers |-> o]
    BY ReplacedWriters, Zenon
  <2> QED BY <2>1, Zenon DEF r, w, o
<1>3. CreateWriter(p, uid) = FirstBound(r) BY DEF CreateWriter, new, r
<1> HIDE DEF r
<1>4. /\ r.finfos = p.finfos /\ r.formatters = p.formatters
      /\ r.winfos = Append(p.winfos, uid) /\ r.writers = Append(p.writers, new)
      /\ r \in Plugs
  BY <1>0, <1>1, <1>2 DEF Plugs
<1>5. /\ Len(r.winfos) = Len(p.winfos) + 1 /\ Len(r.writers) = Len(p.writers) + 1
      /\ \A i \in 1..Len(p.writers) : r.writers[i] = p.writers[i]
  BY <1>0, <1>1, <1>4
<1>6. Fits(r, n + 1) /\ Fits(r, MaxLoads)
  BY <1>a, <1>4, <1>5 DEF Fits, Plugs
<1>7. Objects(p) \subseteq Objects(r)
  <2>1. {p.writers[i] : i \in 1..Len(p.writers)} \subseteq {r.writers[i] : i \in 1..Len(r.writers)}
    <3>1. ASSUME NEW i \in 1..Len(p.writers)
          PROVE  \E j \in 1..Len(r.writers) : p.writers[i] = r.writers[j]
      <4>1. i \in 1..Len(r.writers) BY <1>a, <1>5 DEF Plugs
      <4> QED BY <1>5, <4>1
    <3> QED BY <3>1
  <2>2. r.formatters = p.formatters BY <1>4
  <2>3. Objects(p) = {p.formatters[i].id : i \in 1..Len(p.formatters)}
                     \cup {p.writers[i] : i \in 1..Len(p.writers)}
    BY ObjectsAre
  <2>4. Objects(r) = {r.formatters[i].id : i \in 1..Len(r.formatters)}
                     \cup {r.writers[i] : i \in 1..Len(r.writers)}
    BY <1>4, ObjectsAre
  <2> QED BY <2>1, <2>2, <2>3, <2>4
<1>8. Aligned(r) <=> Aligned(p) BY <1>a, <1>4, <1>5 DEF Aligned
<1>9. ASSUME Placed(p) PROVE Placed(r)
  <2>1. ASSUME NEW i \in 1..Len(r.finfos)
        PROVE  \/ r.finfos[i].pair = Unpaired
               \/ /\ r.finfos[i].pair < Len(r.writers)
                  /\ r.formatters[i].save = r.writers[r.finfos[i].pair + 1]
    <3>1. i \in 1..Len(p.finfos) BY <1>4
    <3>2. p.finfos[i].pair \in Nat BY <3>1, Parts, Bounded DEF Infos
    <3>3. CASE p.finfos[i].pair = Unpaired BY <1>4, <3>3
    <3>4. CASE /\ p.finfos[i].pair < Len(p.writers)
               /\ p.formatters[i].save = p.writers[p.finfos[i].pair + 1]
      <4>1. p.finfos[i].pair + 1 \in 1..Len(p.writers) BY SMTT(30), <1>a, <3>2, <3>4
      <4> QED BY <1>a, <1>4, <1>5, <3>2, <3>4, <4>1
    <3> QED BY <1>9, <3>1, <3>3, <3>4 DEF Placed
  <2> QED BY <2>1 DEF Placed
<1>10. LET q == FirstBound(r)
       IN  /\ q \in Plugs /\ q.winfos = r.winfos /\ q.writers = r.writers
           /\ Len(q.finfos) = Len(r.finfos) /\ Len(q.formatters) = Len(r.formatters)
           /\ Objects(q) = Objects(r) /\ (Aligned(r) /\ Placed(r) => Placed(q))
  BY <1>4, <1>6, FirstBoundKeeps
<1> QED BY <1>3, <1>4, <1>6, <1>7, <1>8, <1>9, <1>10 DEF Fits, Aligned

LEMMA CreateFormatterKeeps ==
  ASSUME NEW p \in Plugs, NEW n \in Nat, Fits(p, n), n < MaxLoads, NEW uid \in FormatterUids
  PROVE  LET q == CreateFormatter(p, uid)
         IN  /\ q \in Plugs /\ Fits(q, n + 1) /\ Objects(p) \subseteq Objects(q)
             /\ q.winfos = p.winfos /\ q.writers = p.writers
             /\ Len(q.finfos) = Len(p.finfos) + 1
             /\ q.finfos[Len(p.finfos) + 1].uid = uid
             /\ Aligned(q) <=> Aligned(p)
             /\ Aligned(p) => \A i \in 1..Len(p.finfos) : q.finfos[i] = p.finfos[i]
             /\ Aligned(p) /\ Placed(p) => Placed(q)
<1> DEFINE new == NewObject(p)
           info == [uid |-> uid, pair |-> Unpaired]
           object == [id |-> new, save |-> NoWriter]
           r == [p EXCEPT !.finfos = Append(@, info), !.formatters = Append(@, object)]
<1>0. /\ p.finfos \in Seq(Infos) /\ p.formatters \in Seq(Formatters)
      /\ p.winfos \in Seq(WriterUids) /\ p.writers \in Seq(Nat)
  BY Bounded, Parts
<1>a. /\ MaxLoads \in Nat /\ Len(p.finfos) \in Nat /\ Len(p.formatters) \in Nat
      /\ Len(p.winfos) \in Nat /\ Len(p.writers) \in Nat
  BY Bounded, Parts
<1>1. info \in Infos /\ object \in Formatters /\ info.pair = Unpaired /\ info.uid = uid
  <2>1. Len(p.formatters) + Len(p.writers) <= MaxLoads BY <1>a DEF Fits, Plugs
  <2>2. new \in Nat BY <2>1, NewObjectIsNew
  <2> HIDE DEF new
  <2> QED BY <2>2, Bounded DEF Infos, Formatters, NoWriter
<1>2. CreateFormatter(p, uid) = FirstBound(r) BY DEF CreateFormatter
<1> HIDE DEF info, object
<1>3. r = [finfos |-> Append(p.finfos, info), formatters |-> Append(p.formatters, object),
           winfos |-> p.winfos, writers |-> p.writers]
  BY ReplacedFormatters, Zenon DEF r
<1> HIDE DEF r
<1>4. /\ r.finfos = Append(p.finfos, info) /\ r.formatters = Append(p.formatters, object)
      /\ r.winfos = p.winfos /\ r.writers = p.writers
      /\ r \in Plugs
  BY <1>0, <1>1, <1>3 DEF Plugs
<1>5. /\ Len(r.finfos) = Len(p.finfos) + 1 /\ Len(r.formatters) = Len(p.formatters) + 1
      /\ \A i \in 1..Len(p.finfos) : r.finfos[i] = p.finfos[i]
      /\ r.finfos[Len(p.finfos) + 1] = info
      /\ \A i \in 1..Len(p.formatters) : r.formatters[i] = p.formatters[i]
  BY <1>0, <1>1, <1>4
<1>6. Fits(r, n + 1) /\ Fits(r, MaxLoads)
  BY <1>a, <1>4, <1>5 DEF Fits, Plugs
<1>7. Objects(p) \subseteq Objects(r)
  <2>1. {p.formatters[i].id : i \in 1..Len(p.formatters)}
          \subseteq {r.formatters[i].id : i \in 1..Len(r.formatters)}
    <3>1. ASSUME NEW i \in 1..Len(p.formatters)
          PROVE  \E j \in 1..Len(r.formatters) : p.formatters[i].id = r.formatters[j].id
      <4>1. i \in 1..Len(r.formatters) BY <1>a, <1>5 DEF Plugs
      <4> QED BY <1>5, <4>1
    <3> QED BY <3>1
  <2>2. r.writers = p.writers BY <1>4
  <2>3. Objects(p) = {p.formatters[i].id : i \in 1..Len(p.formatters)}
                     \cup {p.writers[i] : i \in 1..Len(p.writers)}
    BY ObjectsAre
  <2>4. Objects(r) = {r.formatters[i].id : i \in 1..Len(r.formatters)}
                     \cup {r.writers[i] : i \in 1..Len(r.writers)}
    BY <1>4, ObjectsAre
  <2> QED BY <2>1, <2>2, <2>3, <2>4
<1>8. Aligned(r) <=> Aligned(p) BY <1>a, <1>4, <1>5 DEF Aligned
<1>9. ASSUME Aligned(p), Placed(p) PROVE Placed(r)
  <2>1. ASSUME NEW i \in 1..Len(r.finfos)
        PROVE  \/ r.finfos[i].pair = Unpaired
               \/ /\ r.finfos[i].pair < Len(r.writers)
                  /\ r.formatters[i].save = r.writers[r.finfos[i].pair + 1]
    <3>1. CASE i \in 1..Len(p.finfos)
      <4>1. i \in 1..Len(p.formatters) BY <1>9, <3>1 DEF Aligned
      <4>2. r.finfos[i] = p.finfos[i] /\ r.formatters[i] = p.formatters[i]
        BY <1>5, <3>1, <4>1
      <4> QED BY <1>4, <1>9, <3>1, <4>2 DEF Placed
    <3>2. CASE i = Len(p.finfos) + 1 BY <1>1, <1>5, <3>2
    <3> QED BY <1>a, <1>5, <3>1, <3>2
  <2> QED BY <2>1 DEF Placed
<1>10. LET q == FirstBound(r)
       IN  /\ q \in Plugs /\ q.winfos = r.winfos /\ q.writers = r.writers
           /\ Len(q.finfos) = Len(r.finfos) /\ Len(q.formatters) = Len(r.formatters)
           /\ Objects(q) = Objects(r) /\ (Aligned(r) /\ Placed(r) => Placed(q))
           /\ \A i \in 1..Len(r.finfos) : /\ q.finfos[i].uid = r.finfos[i].uid
                                          /\ Len(r.formatters) # 1 => q.finfos[i] = r.finfos[i]
  BY <1>4, <1>6, FirstBoundKeeps
<1> DEFINE q == FirstBound(r)
<1>11. q.finfos[Len(p.finfos) + 1].uid = uid
  <2>1. Len(p.finfos) + 1 \in 1..Len(r.finfos) BY <1>a, <1>5
  <2> QED BY <1>1, <1>5, <1>10, <2>1
<1>12. ASSUME Aligned(p), NEW i \in 1..Len(p.finfos) PROVE q.finfos[i] = p.finfos[i]
  <2>1. Len(r.formatters) # 1 /\ i \in 1..Len(r.finfos) BY <1>a, <1>5, <1>12 DEF Aligned
  <2> QED BY <1>5, <1>10, <2>1
<1>13. Fits(q, n + 1) /\ (Aligned(q) <=> Aligned(r)) BY <1>6, <1>10 DEF Fits, Aligned
<1>14. q \in Plugs /\ q.winfos = p.winfos /\ q.writers = p.writers
      /\ Len(q.finfos) = Len(p.finfos) + 1 /\ Objects(p) \subseteq Objects(q)
  BY <1>4, <1>5, <1>7, <1>10
<1>15. Aligned(p) /\ Placed(p) => Placed(q) BY <1>8, <1>9, <1>10
<1> HIDE DEF q
<1>16. CreateFormatter(p, uid) = q BY <1>2 DEF q
<1> QED BY <1>8, <1>11, <1>12, <1>13, <1>14, <1>15, <1>16

LEMMA WithoutIs ==
  ASSUME NEW R, NEW s \in Seq(R), NEW i \in Nat, i < Len(s)
  PROVE  /\ Without(s, i) \in Seq(R) /\ Len(Without(s, i)) = Len(s) - 1
         /\ \A j \in 1..Len(s) - 1 : Without(s, i)[j] = IF j <= i THEN s[j] ELSE s[j + 1]
<1> DEFINE a == SubSeq(s, 1, i)
           b == SubSeq(s, i + 2, Len(s))
<1>1. /\ a \in Seq(R) /\ Len(a) = i
      /\ \A j \in 1..i : a[j] = s[j]
  OBVIOUS
<1>2. /\ b \in Seq(R) /\ Len(b) = Len(s) - (i + 1)
      /\ \A j \in 1..Len(s) - (i + 1) : b[j] = s[(i + 1) + j]
  OBVIOUS
<1>3. Without(s, i) = a \o b
  <2>1. Without(s, i) = SubSeq(s, 1, (i + 1) - 1) \o SubSeq(s, (i + 1) + 1, Len(s))
    BY DEF Without, RemoveAt
  <2>2. (i + 1) - 1 = i /\ (i + 1) + 1 = i + 2 OBVIOUS
  <2> QED BY <2>1, <2>2 DEF a, b
<1> HIDE DEF a, b
<1>4. Len(s) \in Nat OBVIOUS
<1>5. a \o b \in Seq(R) /\ Len(a \o b) = Len(s) - 1
  <2>0. a \in Seq(R) /\ b \in Seq(R) BY <1>1, <1>2
  <2>1. a \o b \in Seq(R) /\ Len(a \o b) = Len(a) + Len(b) BY ONLY <2>0
  <2>2. Len(a) + Len(b) = Len(s) - 1 BY <1>1, <1>2, <1>4
  <2> QED BY <2>1, <2>2
<1>6. ASSUME NEW j \in 1..Len(s) - 1
      PROVE  (a \o b)[j] = IF j <= i THEN s[j] ELSE s[j + 1]
  <2>1. CASE j <= i
    <3>1. j \in 1..i BY <1>4, <2>1
    <3>2. (a \o b)[j] = a[j] BY <1>1, <1>2, <1>4, <3>1
    <3> QED BY <1>1, <2>1, <3>1, <3>2
  <2>2. CASE ~(j <= i)
    <3>1. j - i \in 1..Len(s) - (i + 1) /\ (i + 1) + (j - i) = j + 1 BY <1>4, <2>2
    <3>2. (a \o b)[j] = b[j - i] BY <1>1, <1>2, <1>4, <2>2
    <3> QED BY <1>2, <2>2, <3>1, <3>2
  <2> QED BY <2>1, <2>2
<1> QED BY <1>3, <1>5, <1>6

LEMMA DeleteFormatterKeeps ==
  ASSUME NEW p \in Plugs, NEW n \in Nat, Fits(p, n), Aligned(p),
         NEW i \in Nat, i < Len(p.finfos)
  PROVE  LET q == DeleteFormatter(p, i)
         IN  q \in Plugs /\ Fits(q, n) /\ (Placed(p) => Placed(q))
<1> DEFINE q == DeleteFormatter(p, i)
           infos == Without(p.finfos, i)
           objects == Without(p.formatters, i)
<1>0. /\ p.finfos \in Seq(Infos) /\ p.formatters \in Seq(Formatters)
      /\ p.winfos \in Seq(WriterUids) /\ p.writers \in Seq(Nat)
  BY Parts
<1>1. /\ Len(p.finfos) \in Nat /\ Len(p.formatters) = Len(p.finfos)
      /\ i < Len(p.finfos) /\ i < Len(p.formatters)
  BY Parts DEF Aligned, Plugs
<1>2. /\ infos \in Seq(Infos) /\ Len(infos) = Len(p.finfos) - 1
      /\ \A j \in 1..Len(p.finfos) - 1 :
           infos[j] = IF j <= i THEN p.finfos[j] ELSE p.finfos[j + 1]
  BY <1>0, <1>1, WithoutIs
<1>3. /\ objects \in Seq(Formatters) /\ Len(objects) = Len(p.formatters) - 1
      /\ \A j \in 1..Len(p.formatters) - 1 :
           objects[j] = IF j <= i THEN p.formatters[j] ELSE p.formatters[j + 1]
  BY <1>0, <1>1, WithoutIs
<1> HIDE DEF infos, objects
<1>4. q = [finfos |-> infos, formatters |-> objects, winfos |-> p.winfos, writers |-> p.writers]
  <2>1. [p EXCEPT !.finfos = infos, !.formatters = objects]
          = [finfos |-> infos, formatters |-> objects, winfos |-> p.winfos, writers |-> p.writers]
    BY ReplacedFormatters, Zenon
  <2> QED BY <2>1, Zenon DEF DeleteFormatter, infos, objects
<1> HIDE DEF q
<1>5. /\ q \in Plugs /\ q.finfos = infos /\ q.formatters = objects
      /\ q.winfos = p.winfos /\ q.writers = p.writers
  BY <1>0, <1>2, <1>3, <1>4 DEF Plugs
<1>6. Fits(q, n) BY <1>1, <1>2, <1>3, <1>5 DEF Fits, Plugs
<1>7. ASSUME Placed(p) PROVE Placed(q)
  <2>1. ASSUME NEW f \in 1..Len(q.finfos)
        PROVE  \/ q.finfos[f].pair = Unpaired
               \/ /\ q.finfos[f].pair < Len(q.writers)
                  /\ q.formatters[f].save = q.writers[q.finfos[f].pair + 1]
    <3>1. PICK j \in 1..Len(p.finfos) : infos[f] = p.finfos[j] /\ objects[f] = p.formatters[j]
      <4>1. f \in 1..Len(p.finfos) - 1 /\ f \in 1..Len(p.formatters) - 1
        BY <1>1, <1>2, <1>5
      <4>2. CASE f <= i BY <1>1, <1>2, <1>3, <4>1, <4>2
      <4>3. CASE ~(f <= i)
        <5>1. f + 1 \in 1..Len(p.finfos) BY <1>1, <4>1
        <5> QED BY <1>2, <1>3, <4>1, <4>3, <5>1
      <4> QED BY <4>2, <4>3
    <3> QED BY <1>5, <1>7, <3>1 DEF Placed
  <2> QED BY <2>1 DEF Placed
<1>8. QED BY <1>5, <1>6, <1>7 DEF q

(* Without pairs behind it, a writer leaves and the others keep theirs.    *)
LEMMA DeleteWriterKeeps ==
  ASSUME NEW p \in Plugs, NEW n \in Nat, Fits(p, n), Aligned(p),
         NEW i \in Nat, i < Len(p.winfos)
  PROVE  LET q == DeleteWriter(p, i)
         IN  /\ q \in Plugs /\ Fits(q, n)
             /\ Placed(p) /\ ~(\E f \in ToSet(p.finfos) : f.pair > i /\ f.pair # Unpaired)
                => Placed(q)
<1> DEFINE q == DeleteWriter(p, i)
           infos == Unpair(p.finfos, i)
           uids == Without(p.winfos, i)
           objects == Without(p.writers, i)
<1>0. /\ p.finfos \in Seq(Infos) /\ p.formatters \in Seq(Formatters)
      /\ p.winfos \in Seq(WriterUids) /\ p.writers \in Seq(Nat)
      /\ \A f \in 1..Len(p.finfos) : p.finfos[f] \in Infos
  BY Parts
<1>1. /\ Len(p.finfos) \in Nat /\ Len(p.winfos) \in Nat /\ Len(p.writers) = Len(p.winfos)
      /\ i < Len(p.winfos) /\ i < Len(p.writers)
  BY Parts DEF Aligned, Plugs
<1>2. /\ uids \in Seq(WriterUids) /\ Len(uids) = Len(p.winfos) - 1
  BY ZenonT(30), <1>0, <1>1, WithoutIs
<1>3. /\ objects \in Seq(Nat) /\ Len(objects) = Len(p.writers) - 1
      /\ \A j \in 1..Len(p.writers) - 1 :
           objects[j] = IF j <= i THEN p.writers[j] ELSE p.writers[j + 1]
  BY ZenonT(30), <1>0, <1>1, WithoutIs
<1>4. /\ infos \in Seq(Infos) /\ Len(infos) = Len(p.finfos)
      /\ \A f \in 1..Len(p.finfos) :
           infos[f].pair = IF p.finfos[f].pair = i THEN Unpaired ELSE p.finfos[f].pair
  <2>1. DOMAIN p.finfos = 1..Len(p.finfos) BY <1>0
  <2>2. infos = [f \in 1..Len(p.finfos) |->
                   IF p.finfos[f].pair = i THEN [p.finfos[f] EXCEPT !.pair = Unpaired]
                   ELSE p.finfos[f]]
    BY <2>1 DEF Unpair
  <2>3. ASSUME NEW f \in 1..Len(p.finfos)
        PROVE  /\ infos[f] \in Infos
               /\ infos[f].pair = IF p.finfos[f].pair = i THEN Unpaired ELSE p.finfos[f].pair
    <3>1. CASE p.finfos[f].pair = i
      <4>1. infos[f] = [p.finfos[f] EXCEPT !.pair = Unpaired] BY <2>2, <3>1
      <4>2. Unpaired \in 0..Unpaired /\ p.finfos[f] \in Infos BY <1>0, Bounded
      <4> HIDE DEF infos
      <4>3. infos[f] = [uid |-> p.finfos[f].uid, pair |-> Unpaired] /\ infos[f] \in Infos
        BY <4>1, <4>2, Changed
      <4> QED BY <3>1, <4>3
    <3>2. CASE p.finfos[f].pair # i BY <1>0, <2>2, <3>2
    <3> QED BY <3>1, <3>2
  <2>4. infos = [f \in 1..Len(p.finfos) |-> infos[f]] BY <2>2
  <2> HIDE DEF infos
  <2>5. infos \in [1..Len(p.finfos) -> Infos] BY <2>3, <2>4
  <2> QED BY <1>1, <2>3, <2>5
<1> HIDE DEF infos, uids, objects
<1>5. q = [finfos |-> infos, formatters |-> p.formatters, winfos |-> uids, writers |-> objects]
  <2> DEFINE r == [p EXCEPT !.finfos = infos]
  <2>1. PICK a, b, c, d : /\ a = p.finfos /\ b = p.formatters /\ c = p.winfos /\ d = p.writers
                          /\ p = [finfos |-> a, formatters |-> b, winfos |-> c, writers |-> d]
    BY Parts
  <2>2. r = [finfos |-> infos, formatters |-> b, winfos |-> c, writers |-> d] BY <2>1
  <2> HIDE DEF r
  <2> DEFINE t == [r EXCEPT !.winfos = uids]
  <2>3. t = [finfos |-> infos, formatters |-> b, winfos |-> uids, writers |-> d] BY <2>2
  <2> HIDE DEF t
  <2>4. [t EXCEPT !.writers = objects]
          = [finfos |-> infos, formatters |-> b, winfos |-> uids, writers |-> objects]
    BY <2>3
  <2> QED BY <2>1, <2>4, Zenon DEF DeleteWriter, infos, uids, objects, r, t
<1> HIDE DEF q
<1>6. /\ q \in Plugs /\ q.finfos = infos /\ q.formatters = p.formatters
      /\ q.winfos = uids /\ q.writers = objects
  BY <1>0, <1>2, <1>3, <1>4, <1>5 DEF Plugs
<1>7. Fits(q, n) BY <1>1, <1>2, <1>3, <1>4, <1>6 DEF Fits, Plugs
<1>8. ASSUME Placed(p), ~(\E f \in ToSet(p.finfos) : f.pair > i /\ f.pair # Unpaired)
      PROVE  Placed(q)
  <2>1. ASSUME NEW f \in 1..Len(q.finfos)
        PROVE  \/ q.finfos[f].pair = Unpaired
               \/ /\ q.finfos[f].pair < Len(q.writers)
                  /\ q.formatters[f].save = q.writers[q.finfos[f].pair + 1]
    <3>1. f \in 1..Len(p.finfos) BY <1>4, <1>6
    <3>2. p.finfos[f] \in ToSet(p.finfos)
      <4>1. f \in DOMAIN p.finfos BY <1>0, <3>1
      <4> QED BY <4>1 DEF ToSet
    <3>3. p.finfos[f].pair \in Nat BY <1>0, <3>1, Bounded DEF Infos
    <3>4. p.finfos[f].pair <= i \/ p.finfos[f].pair = Unpaired BY <1>8, <3>2, <3>3
    <3>5. CASE p.finfos[f].pair = Unpaired \/ p.finfos[f].pair = i BY <1>4, <1>6, <3>1, <3>5
    <3>6. CASE p.finfos[f].pair # Unpaired /\ p.finfos[f].pair < i
      <4> DEFINE w == p.finfos[f].pair
      <4>1. w \in Nat /\ w < i /\ infos[f].pair = w
        BY <1>4, <3>1, <3>3, <3>6
      <4>2. p.formatters[f].save = p.writers[w + 1] BY <1>8, <3>1, <3>6 DEF Placed
      <4> HIDE DEF w
      <4>3. w + 1 \in 1..Len(p.writers) - 1 /\ w + 1 <= i /\ w < Len(objects)
        BY <1>1, <1>3, <4>1
      <4>4. objects[w + 1] = p.writers[w + 1] BY <1>3, <4>3
      <4> QED BY <1>6, <4>1, <4>2, <4>3, <4>4
    <3> QED BY <3>3, <3>4, <3>5, <3>6
  <2> QED BY <2>1 DEF Placed
<1> QED BY <1>6, <1>7, <1>8 DEF q

LEMMA WithWritersIs ==
  ASSUME NEW p, file.writers \in Seq(WriterUids)
  PROVE  \E made : /\ made[0] = p /\ WithWriters(p) = made[Len(file.writers)]
                   /\ \A n \in 1..Len(file.writers) :
                        made[n] = CreateWriter(made[n - 1], file.writers[n])
<1> DEFINE N == Len(file.writers)
           Is(f, k) == f = [n \in 0..k |-> IF n = 0 THEN p
                                           ELSE CreateWriter(f[n - 1], file.writers[n])]
           Bad == {k \in 0..N : ~\E f : Is(f, k)}
<1>0. N \in Nat OBVIOUS
<1> HIDE DEF N
<1>1. Bad = {}
  <2>1. SUFFICES ASSUME Bad # {} PROVE FALSE OBVIOUS
  <2>2. PICK k \in Bad : \A j \in Bad : k <= j
    <3>1. Bad \in SUBSET Nat BY <1>0
    <3> HIDE DEF Bad
    <3> QED BY <2>1, <3>1, FirstIn
  <2>3. k # 0
    <3> DEFINE g == [n \in 0..0 |-> p]
    <3>1. Is(g, 0) BY DEF Is
    <3> QED BY <3>1
  <2>4. k - 1 \in 0..N /\ k - 1 \notin Bad
    <3>1. k \in 0..N /\ k - 1 \in 0..N /\ k - 1 < k BY <1>0, <2>2, <2>3
    <3> HIDE DEF Bad
    <3> QED BY <1>0, <2>2, <3>1
  <2>5. PICK f : Is(f, k - 1) BY <2>4
  <2> DEFINE g == [n \in 0..k |-> IF n = k THEN CreateWriter(f[k - 1], file.writers[k]) ELSE f[n]]
  <2>6. k \in Nat /\ k >= 1 BY <1>0, <2>2, <2>3
  <2>7. /\ \A n \in 0..(k - 1) : g[n] = f[n]
        /\ g[k] = CreateWriter(f[k - 1], file.writers[k])
    BY <2>6
  <2>8. /\ f[0] = p
        /\ \A n \in 1..(k - 1) : f[n] = CreateWriter(f[n - 1], file.writers[n])
    <3>1. \A n \in 0..(k - 1) : f[n] = IF n = 0 THEN p ELSE CreateWriter(f[n - 1], file.writers[n])
      BY <2>5, <2>6 DEF Is
    <3> QED BY <2>6, <3>1
  <2>9. \A n \in 0..k : g[n] = IF n = 0 THEN p
                               ELSE CreateWriter(g[n - 1], file.writers[n])
    BY <2>6, <2>7, <2>8
  <2>10. g = [n \in 0..k |-> g[n]] OBVIOUS
  <2> HIDE DEF g
  <2>11. Is(g, k) BY <2>9, <2>10
  <2> QED BY <2>2, <2>11
<1>2. N \notin Bad BY <1>1
<1>3. PICK f : Is(f, N) BY <1>0, <1>2
<1> DEFINE made == CHOOSE h : Is(h, N)
<1>4. Is(made, N) BY <1>3
<1>5. WithWriters(p) = made[N] BY DEF WithWriters, N
<1> HIDE DEF made
<1>6. made[0] = p /\ \A n \in 1..N : made[n] = CreateWriter(made[n - 1], file.writers[n])
  <2>1. \A n \in 0..N : made[n] = IF n = 0 THEN p ELSE CreateWriter(made[n - 1], file.writers[n])
    BY <1>0, <1>4 DEF Is
  <2>2. 0 \in 0..N /\ \A n \in 1..N : n \in 0..N /\ n # 0 BY <1>0
  <2> QED BY <2>1, <2>2
<1> QED BY <1>5, <1>6 DEF N

LEMMA RecreatedIs ==
  ASSUME file.formatters \in Seq(Infos)
  PROVE  \E made : /\ made[0] = [plugs |-> WithWriters(plugs), n |-> 0, left |-> FALSE]
                   /\ Recreated = made[Len(file.formatters)]
                   /\ \A n \in 1..Len(file.formatters) :
                        made[n] = FormatterSection(made[n - 1], file.formatters[n])
<1> DEFINE N == Len(file.formatters)
           start == [plugs |-> WithWriters(plugs), n |-> 0, left |-> FALSE]
           Is(f, k) == f = [n \in 0..k |-> IF n = 0 THEN start
                                           ELSE FormatterSection(f[n - 1], file.formatters[n])]
           Bad == {k \in 0..N : ~\E f : Is(f, k)}
<1>0. N \in Nat OBVIOUS
<1> HIDE DEF N, start
<1>1. Bad = {}
  <2>1. SUFFICES ASSUME Bad # {} PROVE FALSE OBVIOUS
  <2>2. PICK k \in Bad : \A j \in Bad : k <= j
    <3>1. Bad \in SUBSET Nat BY <1>0
    <3> HIDE DEF Bad
    <3> QED BY <2>1, <3>1, FirstIn
  <2>3. k # 0
    <3> DEFINE g == [n \in 0..0 |-> start]
    <3>1. Is(g, 0) BY DEF Is
    <3> QED BY <3>1
  <2>4. k - 1 \in 0..N /\ k - 1 \notin Bad
    <3>1. k \in 0..N /\ k - 1 \in 0..N /\ k - 1 < k BY <1>0, <2>2, <2>3
    <3> HIDE DEF Bad
    <3> QED BY <1>0, <2>2, <3>1
  <2>5. PICK f : Is(f, k - 1) BY <2>4
  <2> DEFINE g == [n \in 0..k |-> IF n = k THEN FormatterSection(f[k - 1], file.formatters[k])
                                  ELSE f[n]]
  <2>6. k \in Nat /\ k >= 1 BY <1>0, <2>2, <2>3
  <2>7. /\ \A n \in 0..(k - 1) : g[n] = f[n]
        /\ g[k] = FormatterSection(f[k - 1], file.formatters[k])
    BY <2>6
  <2>8. /\ f[0] = start
        /\ \A n \in 1..(k - 1) : f[n] = FormatterSection(f[n - 1], file.formatters[n])
    <3>1. \A n \in 0..(k - 1) : f[n] = IF n = 0 THEN start
                                ELSE FormatterSection(f[n - 1], file.formatters[n])
      BY <2>5, <2>6 DEF Is
    <3> QED BY <2>6, <3>1
  <2>9. \A n \in 0..k : g[n] = IF n = 0 THEN start
                               ELSE FormatterSection(g[n - 1], file.formatters[n])
    BY <2>6, <2>7, <2>8
  <2>10. g = [n \in 0..k |-> g[n]] OBVIOUS
  <2> HIDE DEF g
  <2>11. Is(g, k) BY <2>9, <2>10
  <2> QED BY <2>2, <2>11
<1>2. N \notin Bad BY <1>1
<1>3. PICK f : Is(f, N) BY <1>0, <1>2
<1> DEFINE made == CHOOSE h : Is(h, N)
<1>4. Is(made, N) BY <1>3
<1>5. Recreated = made[N] BY DEF Recreated, N, start
<1> HIDE DEF made
<1>6. made[0] = start /\ \A n \in 1..N : made[n] = FormatterSection(made[n - 1], file.formatters[n])
  <2>1. \A n \in 0..N : made[n] = IF n = 0 THEN start
                               ELSE FormatterSection(made[n - 1], file.formatters[n])
    BY <1>0, <1>4 DEF Is
  <2>2. 0 \in 0..N /\ \A n \in 1..N : n \in 0..N /\ n # 0 BY <1>0
  <2> QED BY <2>1, <2>2
<1> QED BY <1>5, <1>6 DEF N, start

LEMMA WithWritersKeeps ==
  ASSUME NEW p \in Plugs, NEW n \in Nat, Fits(p, n), file.writers \in Seq(WriterUids),
         n + Len(file.writers) <= MaxLoads
  PROVE  LET q == WithWriters(p)
         IN  /\ q \in Plugs /\ Fits(q, n + Len(file.writers)) /\ Objects(p) \subseteq Objects(q)
             /\ Len(q.finfos) = Len(p.finfos)
             /\ Aligned(q) <=> Aligned(p)
             /\ Aligned(p) /\ Placed(p) => Placed(q)
             /\ p.winfos = <<>> => q.winfos = file.writers
<1>1. PICK made : /\ made[0] = p /\ WithWriters(p) = made[Len(file.writers)]
                  /\ \A k \in 1..Len(file.writers) :
                       made[k] = CreateWriter(made[k - 1], file.writers[k])
  BY WithWritersIs
<1>0. Len(file.writers) \in Nat /\ MaxLoads \in Nat BY Bounded
<1> DEFINE Fine(k) ==
             /\ made[k] \in Plugs /\ Fits(made[k], n + k) /\ Objects(p) \subseteq Objects(made[k])
             /\ Len(made[k].finfos) = Len(p.finfos)
             /\ Aligned(made[k]) <=> Aligned(p)
             /\ Aligned(p) /\ Placed(p) => Placed(made[k])
             /\ p.winfos = <<>> => /\ Len(made[k].winfos) = k
                                   /\ \A j \in 1..k : made[k].winfos[j] = file.writers[j]
           Bad == {k \in 0..Len(file.writers) : ~Fine(k)}
<1>2. Bad = {}
  <2>1. SUFFICES ASSUME Bad # {} PROVE FALSE OBVIOUS
  <2>2. PICK k \in Bad : \A j \in Bad : k <= j
    <3>1. Bad \in SUBSET Nat OBVIOUS
    <3> HIDE DEF Bad
    <3> QED BY <2>1, <3>1, FirstIn
  <2>3. k # 0
    <3>1. Fine(0) BY <1>1
    <3> QED BY <2>2, <3>1
  <2>4. k \in 1..Len(file.writers) /\ k - 1 \in 0..Len(file.writers) /\ k - 1 < k
    BY <1>0, <2>2, <2>3
  <2>5. Fine(k - 1)
    <3> HIDE DEF Fine
    <3> QED BY <1>0, <2>2, <2>4
  <2> DEFINE a == made[k - 1]
             q == made[k]
  <2>6. q = CreateWriter(a, file.writers[k]) /\ file.writers[k] \in WriterUids
    BY <1>1, <2>4
  <2>7. n + (k - 1) \in Nat /\ n + (k - 1) < MaxLoads /\ (n + (k - 1)) + 1 = n + k
    BY <1>0, <2>4
  <2>8. /\ a \in Plugs /\ Fits(a, n + (k - 1)) /\ Objects(p) \subseteq Objects(a)
        /\ Len(a.finfos) = Len(p.finfos) /\ (Aligned(a) <=> Aligned(p))
        /\ Aligned(p) /\ Placed(p) => Placed(a)
        /\ p.winfos = <<>> => /\ Len(a.winfos) = k - 1
                              /\ \A j \in 1..(k - 1) : a.winfos[j] = file.writers[j]
    BY <2>5
  <2> HIDE DEF Fine, a, q
  <2>9. /\ q \in Plugs /\ Fits(q, (n + (k - 1)) + 1) /\ Objects(a) \subseteq Objects(q)
        /\ q.winfos = Append(a.winfos, file.writers[k]) /\ Len(q.finfos) = Len(a.finfos)
        /\ Aligned(q) <=> Aligned(a)
        /\ Aligned(a) /\ Placed(a) => Placed(q)
    BY <2>6, <2>7, <2>8, CreateWriterKeeps
  <2>10. ASSUME p.winfos = <<>>
         PROVE  Len(q.winfos) = k /\ \A j \in 1..k : q.winfos[j] = file.writers[j]
    <3>1. a.winfos \in Seq(WriterUids) BY <2>8, Parts
    <3>2. PICK s \in Seq(WriterUids) : s = a.winfos BY <3>1
    <3>3. k \in Nat /\ Len(s) = k - 1 /\ \A j \in 1..(k - 1) : s[j] = file.writers[j]
      BY <2>4, <2>8, <2>10, <3>2
    <3>4. Len(Append(s, file.writers[k])) = k
          /\ \A j \in 1..k : Append(s, file.writers[k])[j] = file.writers[j]
      BY <2>4, <2>6, <3>3
    <3> QED BY <2>9, <3>2, <3>4
  <2>11. Fine(k) BY <2>7, <2>8, <2>9, <2>10 DEF Fine, q
  <2> QED BY <2>2, <2>11
<1>3. Fine(Len(file.writers))
  <2>1. Len(file.writers) \in 0..Len(file.writers) BY <1>0
  <2> HIDE DEF Fine
  <2> QED BY <1>2, <2>1
<1> DEFINE q == WithWriters(p)
<1>4. q = made[Len(file.writers)] BY <1>1
<1>5. /\ q \in Plugs /\ Fits(q, n + Len(file.writers)) /\ Objects(p) \subseteq Objects(q)
      /\ Len(q.finfos) = Len(p.finfos) /\ (Aligned(q) <=> Aligned(p))
      /\ Aligned(p) /\ Placed(p) => Placed(q)
      /\ p.winfos = <<>> => /\ Len(q.winfos) = Len(file.writers)
                            /\ \A j \in 1..Len(file.writers) : q.winfos[j] = file.writers[j]
  BY <1>3, <1>4
<1> HIDE DEF q
<1>6. ASSUME p.winfos = <<>> PROVE q.winfos = file.writers
  <2>1. q.winfos \in Seq(WriterUids) BY <1>5, Parts
  <2>2. PICK s \in Seq(WriterUids) : s = q.winfos BY <2>1
  <2> QED BY <1>5, <1>6, <2>2
<1> QED BY <1>5, <1>6 DEF q

Places == [plugs : Plugs, n : Nat, left : BOOLEAN]

(* What a section of the file with a formatter leaves of the plug-ins.     *)
SectionKept(acc, m, section, r) ==
  /\ r \in Places /\ Aligned(r.plugs) /\ Fits(r.plugs, m + 1)
  /\ r.n <= Len(r.plugs.finfos) /\ r.plugs.winfos = acc.plugs.winfos
  /\ Objects(acc.plugs) \subseteq Objects(r.plugs)
  /\ Placed(acc.plugs) => Placed(r.plugs)
  /\ ~r.left => /\ ~acc.left /\ r.n = acc.n + 1
                /\ Len(r.plugs.finfos) = Len(acc.plugs.finfos) + 1
  /\ ~r.left /\ acc.n = Len(acc.plugs.finfos)
     => /\ \A i \in 1..Len(acc.plugs.finfos) : r.plugs.finfos[i] = acc.plugs.finfos[i]
        /\ r.plugs.finfos[acc.n + 1] = section

LEMMA FormatterSectionKeeps ==
  ASSUME NEW acc \in Places, NEW m \in Nat, m < MaxLoads, NEW section \in Infos,
         Aligned(acc.plugs), Fits(acc.plugs, m), acc.n <= Len(acc.plugs.finfos)
  PROVE  SectionKept(acc, m, section, FormatterSection(acc, section))
<1> USE DEF SectionKept
<1> DEFINE a == acc.plugs
           n == acc.n
           w == section.pair
           p == CreateFormatter(a, section.uid)
           r == FormatterSection(acc, section)
           in == InRange(p, n, w)
<1>1. /\ a \in Plugs /\ n \in Nat /\ acc.left \in BOOLEAN
      /\ acc = [plugs |-> a, n |-> n, left |-> acc.left]
  BY DEF Places
<1>2. /\ section.uid \in FormatterUids /\ w \in 0..Unpaired
      /\ section = [uid |-> section.uid, pair |-> w]
  BY DEF Infos
<1>3. r = IF acc.left THEN acc
          ELSE [plugs |-> IF in THEN Configured(p, n, w) ELSE p, n |-> n + 1, left |-> ~in]
  BY DEF FormatterSection
<1>4. Len(a.finfos) \in Nat BY <1>1, Parts
<1>5. CASE acc.left
  <2>1. r = acc BY <1>3, <1>5
  <2>2. Fits(a, m + 1)
    <3>1. Fits(a, m) OBVIOUS
    <3> HIDE DEF a
    <3> QED BY <1>1, <3>1, Parts DEF Fits, Plugs
  <2> QED BY <1>1, <1>5, <2>1, <2>2
<1>6. CASE ~acc.left
  <2>1. /\ p \in Plugs /\ Fits(p, m + 1) /\ Objects(a) \subseteq Objects(p)
        /\ p.winfos = a.winfos /\ p.writers = a.writers
        /\ Len(p.finfos) = Len(a.finfos) + 1
        /\ p.finfos[Len(a.finfos) + 1].uid = section.uid
        /\ Aligned(p) <=> Aligned(a)
        /\ Aligned(a) => \A i \in 1..Len(a.finfos) : p.finfos[i] = a.finfos[i]
        /\ Aligned(a) /\ Placed(a) => Placed(p)
    <3>1. Fits(a, m) OBVIOUS
    <3> HIDE DEF a
    <3> QED BY <1>1, <1>2, <3>1, CreateFormatterKeeps
  <2>2. Aligned(a) /\ Fits(a, m) /\ n <= Len(a.finfos) OBVIOUS
  <2> HIDE DEF p, a
  <2>3. n < Len(p.finfos) BY <1>1, <1>4, <2>1, <2>2
  <2>4. in <=> w < Len(p.winfos) BY <2>3 DEF InRange
  <2>5. CASE in
    <3>1. /\ n < Len(p.formatters) /\ w < Len(p.writers) /\ w \in 0..MaxLoads
      <4> HIDE DEF n, w, in
      <4>1. Len(p.formatters) = Len(p.finfos) /\ Len(p.writers) = Len(p.winfos)
        BY <2>1, <2>2 DEF Aligned
      <4>2. Len(p.winfos) <= m + 1
        <5>1. Fits(p, m + 1) /\ p \in Plugs /\ Len(p.finfos) \in Nat /\ Len(p.winfos) \in Nat
          BY <2>1, Parts
        <5> QED BY <5>1 DEF Fits, Plugs
      <4>3. PICK k \in Nat : k = Len(p.winfos) BY <2>1, Parts
      <4>4. w <= MaxLoads /\ w \in Nat BY <1>2, <2>4, <2>5, <4>2, <4>3, Bounded
      <4> QED BY <2>3, <2>4, <2>5, <4>1, <4>4, Bounded
    <3> DEFINE q == Configured(p, n, w)
    <3>2. /\ q \in Plugs /\ q.winfos = p.winfos /\ q.writers = p.writers
          /\ Len(q.finfos) = Len(p.finfos) /\ Len(q.formatters) = Len(p.formatters)
          /\ Objects(q) = Objects(p)
          /\ \A i \in 1..Len(p.finfos) :
               q.finfos[i] = IF i = n + 1 THEN [uid |-> p.finfos[i].uid, pair |-> w]
                             ELSE p.finfos[i]
          /\ Aligned(p) /\ Placed(p) => Placed(q)
      <4> HIDE DEF n, w, in
      <4> QED BY <1>1, <2>1, <2>3, <3>1, ConfiguredKeeps
    <3>3. r = [plugs |-> q, n |-> n + 1, left |-> FALSE] BY <1>3, <1>6, <2>5
    <3> HIDE DEF q, r, n, w, in
    <3>4. r \in Places /\ r.plugs = q /\ r.n = n + 1 /\ ~r.left BY <1>1, <3>2, <3>3 DEF Places
    <3>5. Aligned(q) /\ Fits(q, m + 1) BY <2>1, <2>2, <3>2 DEF Aligned, Fits
    <3>6. ASSUME n = Len(a.finfos)
          PROVE  /\ \A i \in 1..Len(a.finfos) : q.finfos[i] = a.finfos[i]
                 /\ q.finfos[n + 1] = section
      <4>1. n + 1 \in 1..Len(p.finfos) /\ \A i \in 1..Len(a.finfos) :
                                           i \in 1..Len(p.finfos) /\ i # n + 1
        BY <1>1, <1>4, <2>1, <3>6
      <4>2. q.finfos[n + 1] = [uid |-> p.finfos[n + 1].uid, pair |-> w] BY <3>2, <4>1
      <4>3. q.finfos[n + 1] = section BY <1>2, <2>1, <3>6, <4>2
      <4> QED BY <2>1, <2>2, <3>2, <4>1, <4>3
    <3>7. n + 1 <= Len(q.finfos) /\ Len(q.finfos) = Len(a.finfos) + 1
      BY <1>1, <1>4, <2>1, <2>3, <3>2
    <3>8. Objects(a) \subseteq Objects(q) /\ q.winfos = a.winfos /\ (Placed(a) => Placed(q))
      BY <2>1, <2>2, <3>2
    <3> QED BY <1>6, <3>4, <3>5, <3>6, <3>7, <3>8 DEF a, n, r
  <2>6. CASE ~in
    <3>1. r = [plugs |-> p, n |-> n + 1, left |-> TRUE] BY <1>3, <1>6, <2>6
    <3> HIDE DEF r, n, w, in
    <3>2. r \in Places /\ r.plugs = p /\ r.n = n + 1 /\ r.left BY <1>1, <2>1, <3>1 DEF Places
    <3>3. n + 1 <= Len(p.finfos) BY <1>1, <1>4, <2>1, <2>3
    <3> QED BY <1>6, <2>1, <2>2, <3>2, <3>3 DEF a, n, r
  <2> QED BY <2>5, <2>6
<1> QED BY <1>1, <1>5, <1>6

(* The file is restored section by section; into a session without         *)
(* plug-ins, without a leave, as it was saved.                             *)
LEMMA RecreatedKeeps ==
  ASSUME plugs \in Plugs, Aligned(plugs), NEW n \in Nat, Fits(plugs, n), file \in Files,
         n + (Len(file.writers) + Len(file.formatters)) <= MaxLoads
  PROVE  LET q == Recreated.plugs
         IN  /\ q \in Plugs /\ Aligned(q)
             /\ Fits(q, n + (Len(file.writers) + Len(file.formatters)))
             /\ Objects(plugs) \subseteq Objects(q)
             /\ Placed(plugs) => Placed(q)
             /\ ~Recreated.left /\ plugs = NoPlugs
                => q.finfos = file.formatters /\ q.winfos = file.writers
<1>0. /\ file.writers \in Seq(WriterUids) /\ file.formatters \in Seq(Infos)
      /\ Len(file.writers) \in Nat /\ Len(file.formatters) \in Nat /\ MaxLoads \in Nat
  BY Bounded DEF Files
<1> DEFINE W == Len(file.writers)
           F == Len(file.formatters)
           first == WithWriters(plugs)
<1>a. W \in Nat /\ F \in Nat /\ MaxLoads \in Nat /\ n + (W + F) <= MaxLoads BY <1>0
<1>b. n + W <= MaxLoads /\ (n + W) + F = n + (W + F) /\ n + W \in Nat
  <2> HIDE DEF W, F
  <2> QED BY <1>a
<1>1. PICK made : /\ made[0] = [plugs |-> first, n |-> 0, left |-> FALSE] /\ Recreated = made[F]
                  /\ \A k \in 1..F : made[k] = FormatterSection(made[k - 1], file.formatters[k])
  BY <1>0, RecreatedIs
<1>2. /\ first \in Plugs /\ Fits(first, n + W) /\ Objects(plugs) \subseteq Objects(first)
      /\ Len(first.finfos) = Len(plugs.finfos) /\ Aligned(first)
      /\ Placed(plugs) => Placed(first)
      /\ plugs.winfos = <<>> => first.winfos = file.writers
  BY <1>0, <1>b, WithWritersKeeps
<1> HIDE DEF first, W, F
<1> DEFINE Fine(k) ==
             /\ made[k] \in Places /\ Aligned(made[k].plugs) /\ Fits(made[k].plugs, (n + W) + k)
             /\ made[k].n <= Len(made[k].plugs.finfos)
             /\ Objects(plugs) \subseteq Objects(made[k].plugs)
             /\ Placed(plugs) => Placed(made[k].plugs)
             /\ made[k].plugs.winfos = first.winfos
             /\ ~made[k].left /\ Len(plugs.finfos) = 0
                => /\ made[k].n = k /\ Len(made[k].plugs.finfos) = k
                   /\ \A j \in 1..k : made[k].plugs.finfos[j] = file.formatters[j]
           Bad == {k \in 0..F : ~Fine(k)}
<1>3. Bad = {}
  <2>1. SUFFICES ASSUME Bad # {} PROVE FALSE OBVIOUS
  <2>2. PICK k \in Bad : \A j \in Bad : k <= j
    <3>1. Bad \in SUBSET Nat BY <1>a
    <3> HIDE DEF Bad
    <3> QED BY <2>1, <3>1, FirstIn
  <2>3. k # 0
    <3>1. /\ made[0].plugs = first /\ made[0].n = 0 /\ made[0].left = FALSE
          /\ made[0] \in Places
      BY <1>1, <1>2 DEF Places
    <3>2. Len(first.finfos) \in Nat /\ (n + W) + 0 = n + W BY <1>b, <1>2, Parts
    <3>3. Fine(0) BY <1>2, <3>1, <3>2
    <3> HIDE DEF Fine
    <3> QED BY <2>2, <3>3
  <2>4. k \in 1..F /\ k - 1 \in 0..F /\ k - 1 < k BY <1>a, <2>2, <2>3
  <2>5. Fine(k - 1)
    <3> HIDE DEF Fine
    <3> QED BY <1>a, <2>2, <2>4
  <2> DEFINE acc == made[k - 1]
             r == made[k]
             m == (n + W) + (k - 1)
  <2>6. r = FormatterSection(acc, file.formatters[k]) /\ file.formatters[k] \in Infos
    BY <1>0, <1>1, <2>4 DEF F
  <2>7. m \in Nat /\ m < MaxLoads /\ m + 1 = (n + W) + k BY <1>a, <2>4
  <2>8. /\ acc \in Places /\ Aligned(acc.plugs) /\ Fits(acc.plugs, m)
        /\ acc.n <= Len(acc.plugs.finfos) /\ Objects(plugs) \subseteq Objects(acc.plugs)
        /\ Placed(plugs) => Placed(acc.plugs)
        /\ acc.plugs.winfos = first.winfos
        /\ ~acc.left /\ Len(plugs.finfos) = 0
           => /\ acc.n = k - 1 /\ Len(acc.plugs.finfos) = k - 1
              /\ \A j \in 1..(k - 1) : acc.plugs.finfos[j] = file.formatters[j]
    BY <2>5
  <2> HIDE DEF Fine, acc, r, m
  <2>9. /\ r \in Places /\ Aligned(r.plugs) /\ Fits(r.plugs, m + 1)
        /\ r.n <= Len(r.plugs.finfos) /\ r.plugs.winfos = acc.plugs.winfos
        /\ Objects(acc.plugs) \subseteq Objects(r.plugs)
        /\ Placed(acc.plugs) => Placed(r.plugs)
        /\ ~r.left => /\ ~acc.left /\ r.n = acc.n + 1
                      /\ Len(r.plugs.finfos) = Len(acc.plugs.finfos) + 1
        /\ ~r.left /\ acc.n = Len(acc.plugs.finfos)
           => /\ \A i \in 1..Len(acc.plugs.finfos) : r.plugs.finfos[i] = acc.plugs.finfos[i]
              /\ r.plugs.finfos[acc.n + 1] = file.formatters[k]
    <3>1. PICK e \in Infos : e = file.formatters[k] BY <2>6
    <3>2. SectionKept(acc, m, e, FormatterSection(acc, e))
      BY <2>7, <2>8, FormatterSectionKeeps
    <3>3. SectionKept(acc, m, e, r) BY <2>6, <3>1, <3>2
    <3> QED BY <3>1, <3>3 DEF SectionKept
  <2>10. ASSUME ~r.left, Len(plugs.finfos) = 0
         PROVE  /\ r.n = k /\ Len(r.plugs.finfos) = k
                /\ \A j \in 1..k : r.plugs.finfos[j] = file.formatters[j]
    <3>1. /\ acc.n = k - 1 /\ Len(acc.plugs.finfos) = k - 1
          /\ \A j \in 1..(k - 1) : acc.plugs.finfos[j] = file.formatters[j]
      BY <2>8, <2>9, <2>10
    <3>2. (k - 1) + 1 = k BY <2>4
    <3>3. r.n = k /\ Len(r.plugs.finfos) = k BY <2>9, <2>10, <3>1, <3>2
    <3>4. /\ \A j \in 1..(k - 1) : r.plugs.finfos[j] = acc.plugs.finfos[j]
          /\ r.plugs.finfos[k] = file.formatters[k]
      BY <2>9, <2>10, <3>1, <3>2
    <3>5. \A j \in 1..k : j = k \/ j \in 1..(k - 1) BY <2>4
    <3> QED BY <3>1, <3>3, <3>4, <3>5
  <2>11. Fine(k) BY <2>7, <2>8, <2>9, <2>10 DEF Fine, r
  <2> QED BY <2>2, <2>11
<1>4. Fine(F)
  <2>1. F \in 0..F BY <1>a
  <2> HIDE DEF Fine
  <2> QED BY <1>3, <2>1
<1> DEFINE q == Recreated.plugs
<1>5. /\ q \in Plugs /\ Aligned(q) /\ Fits(q, (n + W) + F) /\ Objects(plugs) \subseteq Objects(q)
      /\ Placed(plugs) => Placed(q)
      /\ q.winfos = first.winfos
      /\ ~Recreated.left /\ Len(plugs.finfos) = 0
         => Len(q.finfos) = F /\ \A j \in 1..F : q.finfos[j] = file.formatters[j]
  BY <1>1, <1>4 DEF Places
<1> HIDE DEF q
<1>6. ASSUME ~Recreated.left, plugs = NoPlugs
      PROVE  q.finfos = file.formatters /\ q.winfos = file.writers
  <2>1. plugs.winfos = <<>> /\ Len(plugs.finfos) = 0 BY <1>6 DEF NoPlugs
  <2>2. PICK s \in Seq(Infos) : s = q.finfos BY <1>5, Parts
  <2>3. PICK t \in Seq(Infos) : t = file.formatters /\ Len(t) = F BY <1>0 DEF F
  <2>4. Len(s) = Len(t) /\ \A j \in 1..Len(t) : s[j] = t[j] BY <1>5, <1>6, <2>1, <2>2, <2>3
  <2>5. s = t BY <2>4
  <2> QED BY <1>2, <1>5, <2>1, <2>2, <2>3, <2>5
<1> QED BY <1>5, <1>6, <1>b DEF q, W, F

-------------------------------------------------------------------------------
(* The plug-ins.                                                           *)

LEMMA LoadWriterKeeps ==
  ASSUME PluginsFine, NEW uid \in WriterUids, LoadWriter(uid)
  PROVE  PluginsFine'
<1> DEFINE q == CreateWriter(plugs, uid)
<1>1. /\ plugs' = q /\ params' = Objects(q) /\ moved' = moved
      /\ loads + 1 <= MaxLoads /\ loads' = loads + 1
  BY DEF LoadWriter, PluginRequest, Count
<1>2. loads \in Nat /\ loads < MaxLoads /\ MaxLoads \in Nat BY <1>1, Bounded DEF PluginsFine
<1>3. /\ q \in Plugs /\ Fits(q, loads + 1) /\ (Aligned(q) <=> Aligned(plugs))
      /\ Aligned(plugs) /\ Placed(plugs) => Placed(q)
  BY <1>2, CreateWriterKeeps DEF PluginsFine
<1> HIDE DEF q
<1>4. ParamsAlive' BY <1>1 DEF ParamsAlive
<1>5. loads' \in 0..MaxLoads /\ moved' \in BOOLEAN BY <1>1, <1>2 DEF PluginsFine
<1> QED BY <1>1, <1>3, <1>4, <1>5 DEF PluginsFine

LEMMA LoadFormatterKeeps ==
  ASSUME PluginsFine, NEW uid \in FormatterUids, LoadFormatter(uid)
  PROVE  PluginsFine'
<1> DEFINE q == CreateFormatter(plugs, uid)
<1>1. /\ plugs' = q /\ params' = Objects(q) /\ moved' = moved
      /\ loads + 1 <= MaxLoads /\ loads' = loads + 1
  BY DEF LoadFormatter, PluginRequest, Count
<1>2. loads \in Nat /\ loads < MaxLoads /\ MaxLoads \in Nat BY <1>1, Bounded DEF PluginsFine
<1>3. /\ q \in Plugs /\ Fits(q, loads + 1) /\ (Aligned(q) <=> Aligned(plugs))
      /\ Aligned(plugs) /\ Placed(plugs) => Placed(q)
  BY <1>2, CreateFormatterKeeps DEF PluginsFine
<1> HIDE DEF q
<1>4. ParamsAlive' BY <1>1 DEF ParamsAlive
<1>5. loads' \in 0..MaxLoads /\ moved' \in BOOLEAN BY <1>1, <1>2 DEF PluginsFine
<1> QED BY <1>1, <1>3, <1>4, <1>5 DEF PluginsFine

(* What is left of a plug-in that cannot be made is information about it,  *)
(* and the places no longer agree.                                         *)
LEMMA WriterFailsKeeps ==
  ASSUME PluginsFine, NEW uid \in WriterUids, LoadFails(WriterFails(plugs, uid))
  PROVE  PluginsFine'
<1> DEFINE q == WriterFails(plugs, uid)
<1>1. /\ plugs' = q /\ params' = params /\ moved' = moved
      /\ loads + 1 <= MaxLoads /\ loads' = loads + 1 /\ Aligned(plugs)
  BY DEF LoadFails, Fault, Count
<1>2. loads \in Nat /\ MaxLoads \in Nat /\ plugs \in Plugs /\ Fits(plugs, loads)
  BY Bounded DEF PluginsFine
<1>3. q = [finfos |-> plugs.finfos, formatters |-> plugs.formatters,
           winfos |-> Append(plugs.winfos, uid), writers |-> plugs.writers]
  BY <1>2, ReplacedWinfos, Zenon DEF WriterFails
<1> HIDE DEF q
<1>4. /\ plugs.winfos \in Seq(WriterUids) /\ Append(plugs.winfos, uid) \in Seq(WriterUids)
      /\ Len(Append(plugs.winfos, uid)) = Len(plugs.winfos) + 1
  BY <1>2, Parts
<1>5. /\ q \in Plugs /\ q.finfos = plugs.finfos /\ q.formatters = plugs.formatters
      /\ Len(q.winfos) = Len(plugs.winfos) + 1 /\ q.writers = plugs.writers
  BY <1>2, <1>3, <1>4, Parts DEF Plugs
<1>6. Fits(q, loads + 1) /\ ~Aligned(q)
  BY <1>1, <1>2, <1>5, Parts DEF Fits, Aligned, Plugs
<1>7. Objects(q) = Objects(plugs) BY <1>5, Zenon DEF Objects
<1>8. ParamsAlive' BY <1>1, <1>7 DEF ParamsAlive, PluginsFine
<1>9. loads' \in 0..MaxLoads /\ moved' \in BOOLEAN BY <1>1, <1>2 DEF PluginsFine
<1> QED BY <1>1, <1>5, <1>6, <1>8, <1>9 DEF PluginsFine

LEMMA FormatterFailsKeeps ==
  ASSUME PluginsFine, NEW uid \in FormatterUids, LoadFails(FormatterFails(plugs, uid))
  PROVE  PluginsFine'
<1> DEFINE q == FormatterFails(plugs, uid)
           info == [uid |-> uid, pair |-> Unpaired]
<1>1. /\ plugs' = q /\ params' = params /\ moved' = moved
      /\ loads + 1 <= MaxLoads /\ loads' = loads + 1 /\ Aligned(plugs)
  BY DEF LoadFails, Fault, Count
<1>2. loads \in Nat /\ MaxLoads \in Nat /\ plugs \in Plugs /\ Fits(plugs, loads)
  BY Bounded DEF PluginsFine
<1>3. q = [finfos |-> Append(plugs.finfos, info), formatters |-> plugs.formatters,
           winfos |-> plugs.winfos, writers |-> plugs.writers]
  BY <1>2, ReplacedFinfos, Zenon DEF FormatterFails
<1>i. info \in Infos BY Bounded DEF Infos
<1> HIDE DEF q, info
<1>4. /\ plugs.finfos \in Seq(Infos) /\ Append(plugs.finfos, info) \in Seq(Infos)
      /\ Len(Append(plugs.finfos, info)) = Len(plugs.finfos) + 1
  BY <1>i, <1>2, Parts
<1>5. /\ q \in Plugs /\ Len(q.finfos) = Len(plugs.finfos) + 1 /\ q.formatters = plugs.formatters
      /\ q.winfos = plugs.winfos /\ q.writers = plugs.writers
  BY <1>2, <1>3, <1>4, Parts DEF Plugs
<1>6. Fits(q, loads + 1) /\ ~Aligned(q)
  BY <1>1, <1>2, <1>5, Parts DEF Fits, Aligned, Plugs
<1>7. Objects(q) = Objects(plugs) BY <1>5, Zenon DEF Objects
<1>8. ParamsAlive' BY <1>1, <1>7 DEF ParamsAlive, PluginsFine
<1>9. loads' \in 0..MaxLoads /\ moved' \in BOOLEAN BY <1>1, <1>2 DEF PluginsFine
<1> QED BY <1>1, <1>5, <1>6, <1>8, <1>9 DEF PluginsFine

LEMMA UnloadFormatterKeeps ==
  ASSUME PluginsFine, NEW i \in Nat, UnloadFormatter(i)
  PROVE  PluginsFine'
<1> DEFINE q == DeleteFormatter(plugs, i)
<1>1. /\ plugs' = q /\ params' = Objects(q) /\ moved' = moved /\ loads' = loads
      /\ i < Len(plugs.finfos) /\ Aligned(plugs)
  BY DEF UnloadFormatter, PluginRequest
<1>2. loads \in Nat /\ plugs \in Plugs /\ Fits(plugs, loads) BY Bounded DEF PluginsFine
<1>3. q \in Plugs /\ Fits(q, loads) /\ (Placed(plugs) => Placed(q))
  BY <1>1, <1>2, DeleteFormatterKeeps
<1> HIDE DEF q
<1>4. ParamsAlive' BY <1>1 DEF ParamsAlive
<1> QED BY <1>1, <1>3, <1>4 DEF PluginsFine

LEMMA UnloadWriterKeeps ==
  ASSUME PluginsFine, NEW i \in Nat, UnloadWriter(i)
  PROVE  PluginsFine'
<1> DEFINE q == DeleteWriter(plugs, i)
           behind == \E f \in ToSet(plugs.finfos) : f.pair > i /\ f.pair # Unpaired
<1>1. /\ plugs' = q /\ params' = Objects(q) /\ moved' = (moved \/ behind) /\ loads' = loads
      /\ i < Len(plugs.winfos) /\ Aligned(plugs)
  BY DEF UnloadWriter, PluginRequest
<1>2. loads \in Nat /\ plugs \in Plugs /\ Fits(plugs, loads) BY Bounded DEF PluginsFine
<1>3. q \in Plugs /\ Fits(q, loads) /\ (Placed(plugs) /\ ~behind => Placed(q))
  BY <1>1, <1>2, DeleteWriterKeeps
<1> HIDE DEF q, behind
<1>4. ParamsAlive' BY <1>1 DEF ParamsAlive
<1>5. moved' \in BOOLEAN /\ (~moved' => ~moved /\ ~behind) BY <1>1, Zenon DEF PluginsFine
<1> QED BY <1>1, <1>3, <1>4, <1>5 DEF PluginsFine

LEMMA BindPluginsKeeps ==
  ASSUME PluginsFine, NEW f \in Nat, NEW w \in Nat, BindPlugins(f, w)
  PROVE  PluginsFine'
<1> DEFINE q == Configured(plugs, f, w)
<1>1. /\ plugs' = q /\ params' = params /\ moved' = moved /\ loads' = loads
      /\ f < Len(plugs.finfos) /\ w < Len(plugs.winfos) /\ Aligned(plugs)
  BY DEF BindPlugins, InRange
<1>2. /\ loads \in 0..MaxLoads /\ MaxLoads \in Nat /\ plugs \in Plugs /\ Fits(plugs, loads)
      /\ Aligned(plugs) /\ ~moved => Placed(plugs)
  BY Bounded DEF PluginsFine
<1>3. Len(plugs.formatters) = Len(plugs.finfos) /\ Len(plugs.writers) = Len(plugs.winfos)
  BY <1>1 DEF Aligned
<1>4. w \in 0..MaxLoads BY <1>1, <1>2, Parts DEF Fits, Plugs
<1>5. /\ q \in Plugs /\ q.winfos = plugs.winfos /\ q.writers = plugs.writers
      /\ Len(q.finfos) = Len(plugs.finfos) /\ Len(q.formatters) = Len(plugs.formatters)
      /\ Objects(q) = Objects(plugs)
      /\ Aligned(plugs) /\ Placed(plugs) => Placed(q)
  BY <1>1, <1>2, <1>3, <1>4, ConfiguredKeeps
<1> HIDE DEF q
<1>6. Fits(q, loads) BY <1>2, <1>5 DEF Fits
<1>7. ParamsAlive' BY <1>1, <1>5 DEF ParamsAlive, PluginsFine
<1> QED BY <1>1, <1>2, <1>5, <1>6, <1>7 DEF PluginsFine

(* A restored configuration, whether the session leaves in the middle of   *)
(* the plug-ins or goes on to the list of parameters.                      *)
LEMMA RecreatedFine ==
  ASSUME PluginsFine, file \in Files, Aligned(plugs),
         Count(Len(file.writers) + Len(file.formatters)),
         plugs' = Recreated.plugs, moved' = moved,
         params' = params \/ params' = Objects(Recreated.plugs)
  PROVE  PluginsFine'
<1> DEFINE q == Recreated.plugs
           n == Len(file.writers) + Len(file.formatters)
<1>1. loads + n <= MaxLoads /\ loads' = loads + n BY DEF Count
<1>2. loads \in Nat /\ plugs \in Plugs /\ Fits(plugs, loads) BY Bounded DEF PluginsFine
<1>3. /\ q \in Plugs /\ Aligned(q) /\ Fits(q, loads + n) /\ Objects(plugs) \subseteq Objects(q)
      /\ Placed(plugs) => Placed(q)
  BY <1>1, <1>2, RecreatedKeeps
<1>4. n \in Nat
  <2>1. Len(file.writers) \in Nat /\ Len(file.formatters) \in Nat BY DEF Files
  <2> DEFINE a == Len(file.writers)
             b == Len(file.formatters)
  <2>2. a \in Nat /\ b \in Nat BY <2>1
  <2>3. a + b \in Nat
    <3> HIDE DEF a, b
    <3> QED BY <2>2
  <2> QED BY <2>3
<1> HIDE DEF q, n
<1>5. plugs' = q /\ (params' = params \/ params' = Objects(q)) BY DEF q
<1>6. ParamsAlive' BY <1>3, <1>5 DEF ParamsAlive, PluginsFine
<1>7. loads' \in 0..MaxLoads BY <1>1, <1>2, <1>4, Bounded
<1> QED BY <1>1, <1>3, <1>5, <1>6, <1>7 DEF PluginsFine

LEMMA RenewedFine ==
  ASSUME PluginsFine, Renewed, loads' = loads
  PROVE  PluginsFine'
<1>1. plugs' = NoPlugs /\ params' = {} /\ moved' = FALSE BY DEF Renewed
<1>2. NoPlugs \in Plugs BY DEF Plugs, NoPlugs
<1>3. loads \in Nat BY Bounded DEF PluginsFine
<1>4. Fits(NoPlugs, loads) /\ Placed(NoPlugs) BY <1>3 DEF Fits, Placed, NoPlugs
<1>5. ParamsAlive' BY <1>1 DEF ParamsAlive
<1> QED BY <1>1, <1>2, <1>4, <1>5 DEF PluginsFine

-------------------------------------------------------------------------------
(* Observation and configuration.                                          *)

LEMMA Asking ==
  /\ \A c : EventsFor(c) \in Events
  /\ Detached \in Events /\ [exc |-> "ignore", kill |-> "ignore"] \in Events
  /\ DefaultConfig \in Configs
<1>1. ASSUME NEW c PROVE EventsFor(c) \in Events
  <2> DEFINE a == IF c.pre = "none" THEN "continue" ELSE "suspend"
             x == IF "exc" \in c.types THEN a ELSE "ignore"
             k == IF "kill" \in c.types THEN a ELSE "ignore"
  <2>1. x \in Actions /\ k \in Actions BY DEF Actions
  <2>2. EventsFor(c) = [exc |-> x, kill |-> k] BY DEF EventsFor
  <2> HIDE DEF x, k
  <2> QED BY <2>1, <2>2 DEF Events
<1>2. Detached \in Events /\ [exc |-> "ignore", kill |-> "ignore"] \in Events
  BY DEF Detached, Events, Actions
<1>3. DefaultConfig \in Configs
  BY PreAssumption, TypesAssumption DEF DefaultConfig, Configs
<1> QED BY <1>1, <1>2, <1>3

LEMMA ObservationsAre ==
  ASSUME NEW o
  PROVE  o \in Observations
           <=> DOMAIN o \subseteq Targets /\ o \in [DOMAIN o -> SUBSET TargetThreads]
<1>1. ASSUME o \in Observations
      PROVE  DOMAIN o \subseteq Targets /\ o \in [DOMAIN o -> SUBSET TargetThreads]
  <2>1. PICK S \in SUBSET Targets : o \in [S -> SUBSET TargetThreads] BY <1>1 DEF Observations
  <2> QED BY <2>1
<1>2. ASSUME DOMAIN o \subseteq Targets, o \in [DOMAIN o -> SUBSET TargetThreads]
      PROVE  o \in Observations
  BY <1>2 DEF Observations
<1> QED BY <1>1, <1>2

(* What DSS is asked for when the observed executables become "seen".      *)
LEMMA AskedIs ==
  ASSUME dss \in [Targets -> Events], NEW some, NEW c
  PROVE  /\ Asked(dss, some, c) \in [Targets -> Events]
         /\ \A t \in Targets : Asked(dss, some, c)[t] = IF t \in some THEN EventsFor(c) ELSE dss[t]
<1>1. \A t \in Targets : (IF t \in some THEN EventsFor(c) ELSE dss[t]) \in Events BY Asking
<1> QED BY <1>1 DEF Asked

LEMMA AttachTargetKeeps ==
  ASSUME EventsFine, NEW t \in Targets, NEW threads \in SUBSET TargetThreads,
         AttachTarget(t, threads)
  PROVE  EventsFine'
<1>1. /\ ~wild /\ ~half /\ observers' = Added(observers, t, threads)
      /\ dss' = IF t \in Observed THEN dss ELSE [dss EXCEPT ![t] = EventsFor(inForce)]
      /\ config' = config /\ inForce' = inForce /\ half' = half /\ wild' = wild
  BY DEF AttachTarget, Sound, configVars
<1>2. /\ DOMAIN observers \subseteq Targets
      /\ observers \in [DOMAIN observers -> SUBSET TargetThreads]
      /\ dss \in [Targets -> Events] /\ config = inForce
      /\ \A u \in Targets : dss[u] = IF u \in Observed THEN EventsFor(config) ELSE Detached
  BY <1>1, ObservationsAre DEF EventsFine, ObservedAsConfigured
<1>3. /\ DOMAIN observers' = DOMAIN observers \cup {t} /\ DOMAIN observers' \subseteq Targets
      /\ observers' \in [DOMAIN observers' -> SUBSET TargetThreads]
  BY <1>1, <1>2 DEF Added
<1>4. observers' \in Observations BY <1>3, ObservationsAre
<1>5. /\ dss' \in [Targets -> Events]
      /\ \A u \in Targets : dss'[u] = IF u \in Observed' THEN EventsFor(config') ELSE Detached
  BY <1>1, <1>2, <1>3, Asking DEF Observed
<1>6. ObservedAsConfigured' BY <1>1, <1>2, <1>5 DEF ObservedAsConfigured
<1> QED BY <1>1, <1>4, <1>5, <1>6 DEF EventsFine

LEMMA DetachTargetKeeps ==
  ASSUME EventsFine, NEW t \in Targets, NEW threads \in SUBSET TargetThreads,
         DetachTarget(t, threads)
  PROVE  EventsFine'
<1> DEFINE left == observers[t] \ threads
<1>1. /\ ~wild /\ ~half /\ t \in Observed
      /\ IF left = {}
         THEN /\ observers' = [u \in Observed \ {t} |-> observers[u]]
              /\ dss' = [dss EXCEPT ![t] = Detached]
         ELSE observers' = [observers EXCEPT ![t] = left] /\ dss' = dss
      /\ config' = config /\ inForce' = inForce /\ half' = half /\ wild' = wild
  BY DEF DetachTarget, Sound, configVars
<1>2. /\ DOMAIN observers \subseteq Targets
      /\ observers \in [DOMAIN observers -> SUBSET TargetThreads]
      /\ dss \in [Targets -> Events] /\ config = inForce
      /\ \A u \in Targets : dss[u] = IF u \in Observed THEN EventsFor(config) ELSE Detached
  BY <1>1, ObservationsAre DEF EventsFine, ObservedAsConfigured
<1>3. left \in SUBSET TargetThreads BY <1>1, <1>2 DEF Observed
<1>4. CASE left = {}
  <2>1. /\ DOMAIN observers' = DOMAIN observers \ {t} /\ DOMAIN observers' \subseteq Targets
        /\ observers' \in [DOMAIN observers' -> SUBSET TargetThreads]
    BY <1>1, <1>2, <1>4 DEF Observed
  <2>2. /\ dss' \in [Targets -> Events]
        /\ \A u \in Targets : dss'[u] = IF u \in Observed' THEN EventsFor(config') ELSE Detached
    BY <1>1, <1>2, <1>4, <2>1, Asking DEF Observed
  <2>3. ObservedAsConfigured' BY <1>1, <1>2, <2>2 DEF ObservedAsConfigured
  <2>4. observers' \in Observations BY <2>1, ObservationsAre
  <2> QED BY <1>1, <2>2, <2>3, <2>4 DEF EventsFine
<1>5. CASE left # {}
  <2> HIDE DEF left
  <2>1. /\ DOMAIN observers' = DOMAIN observers /\ dss' = dss
        /\ observers' \in [DOMAIN observers' -> SUBSET TargetThreads]
    BY <1>1, <1>2, <1>3, <1>5 DEF Observed
  <2>2. observers' \in Observations BY <1>2, <2>1, ObservationsAre
  <2>3. ObservedAsConfigured' BY <1>1, <1>2, <2>1 DEF ObservedAsConfigured, Observed
  <2> QED BY <1>1, <2>1, <2>2, <2>3 DEF EventsFine
<1> QED BY <1>4, <1>5

(* A request that leaves half way says so.                                 *)
LEMMA FaultsKeep ==
  ASSUME EventsFine, NEW t \in Targets, AttachFails(t) \/ KillProcessFails(t)
  PROVE  EventsFine'
<1>1. /\ dss' = [dss EXCEPT ![t] = [exc |-> "ignore", kill |-> "ignore"]] /\ half' = TRUE
      /\ wild' = TRUE \/ wild' = wild
      /\ observers' = observers /\ config' = config /\ inForce' = inForce
  BY DEF AttachFails, KillProcessFails, configVars
<1>2. wild' \in BOOLEAN /\ half' \in BOOLEAN BY <1>1, Zenon DEF EventsFine
<1>3. dss' \in [Targets -> Events] BY <1>1, Asking DEF EventsFine
<1>4. ObservedAsConfigured' BY <1>1 DEF ObservedAsConfigured
<1> QED BY <1>1, <1>2, <1>3, <1>4 DEF EventsFine

LEMMA KillProcessKeeps ==
  ASSUME EventsFine, NEW t \in Targets, KillProcess(t)
  PROVE  EventsFine'
<1>1. /\ ~wild /\ ~half /\ t \in Observed /\ dss' = [dss EXCEPT ![t] = EventsFor(inForce)]
      /\ observers' = observers
      /\ config' = config /\ inForce' = inForce /\ half' = half /\ wild' = wild
  BY DEF KillProcess, Sound, configVars
<1>2. /\ dss \in [Targets -> Events] /\ config = inForce
      /\ \A u \in Targets : dss[u] = IF u \in Observed THEN EventsFor(config) ELSE Detached
  BY <1>1 DEF EventsFine, ObservedAsConfigured
<1>3. /\ dss' \in [Targets -> Events]
      /\ \A u \in Targets : dss'[u] = IF u \in Observed' THEN EventsFor(config') ELSE Detached
  BY <1>1, <1>2, Asking DEF Observed
<1>4. ObservedAsConfigured' BY <1>1, <1>2, <1>3 DEF ObservedAsConfigured
<1> QED BY <1>1, <1>3, <1>4 DEF EventsFine

LEMMA SetConfigParameterKeeps ==
  ASSUME EventsFine, NEW name, NEW v,
         \A c \in Configs : With(c, name, v) \in Configs,
         SetConfigParameter(name, v)
  PROVE  EventsFine'
<1>1. /\ ~wild /\ ~half /\ inForce' = With(inForce, name, v)
      /\ \/ /\ dss' = Asked(dss, Observed, inForce')
            /\ config' = With(config, name, v) /\ half' = half
         \/ /\ config' = config /\ half' = TRUE
            /\ \E done : dss' = Asked(dss, done, inForce')
      /\ observers' = observers /\ wild' = wild
  BY DEF SetConfigParameter, Sound
<1>2. /\ dss \in [Targets -> Events] /\ config = inForce /\ config \in Configs
      /\ inForce \in Configs /\ half \in BOOLEAN
      /\ \A u \in Targets : dss[u] = IF u \in Observed THEN EventsFor(config) ELSE Detached
  BY <1>1 DEF EventsFine, ObservedAsConfigured
<1>3. \A c \in Configs : With(c, name, v) \in Configs OBVIOUS
<1>4. inForce' \in Configs /\ config' \in Configs BY <1>1, <1>2, <1>3
<1>5. dss' \in [Targets -> Events] BY <1>1, <1>2, AskedIs
<1>6. half' \in BOOLEAN BY <1>1, <1>2, Zenon
<1>7. ObservedAsConfigured'
  <2>1. CASE dss' = Asked(dss, Observed, inForce') /\ config' = With(config, name, v)
    <3>1. config' = inForce' BY <1>1, <1>2, <2>1
    <3>2. \A u \in Targets : dss'[u] = IF u \in Observed THEN EventsFor(inForce') ELSE dss[u]
      BY <1>2, <2>1, AskedIs
    <3>3. Observed' = Observed BY <1>1 DEF Observed
    <3>4. \A u \in Targets : dss'[u] = IF u \in Observed' THEN EventsFor(config') ELSE Detached
      BY <1>2, <3>1, <3>2, <3>3
    <3> QED BY <3>1, <3>4 DEF ObservedAsConfigured
  <2>2. CASE half' = TRUE BY <2>2 DEF ObservedAsConfigured
  <2> QED BY <1>1, <2>1, <2>2
<1> QED BY <1>1, <1>4, <1>5, <1>6, <1>7 DEF EventsFine

(* An observed executable stays so when the file is loaded, and what it    *)
(* adds is asked for at once.                                              *)
LEMMA RestoringKeeps ==
  ASSUME EventsFine, file \in Files, NEW obs \in Observations, Observed \subseteq DOMAIN obs,
         Restoring(obs)
  PROVE  EventsFine'
<1>1. /\ ~wild /\ config' = file.config /\ inForce' = file.config /\ observers' = obs
      /\ dss' = Asked(dss, DOMAIN obs, file.config) /\ half' = half /\ wild' = wild
  BY DEF Restoring
<1>2. dss \in [Targets -> Events] /\ file.config \in Configs BY DEF EventsFine, Files
<1>3. /\ dss' \in [Targets -> Events]
      /\ \A t \in Targets :
           dss'[t] = IF t \in DOMAIN obs THEN EventsFor(file.config) ELSE dss[t]
  BY <1>1, <1>2, AskedIs
<1>4. ObservedAsConfigured'
  <2>1. SUFFICES ASSUME ~half
                 PROVE  \A t \in Targets :
                          dss'[t] = IF t \in Observed' THEN EventsFor(config') ELSE Detached
    BY <1>1 DEF ObservedAsConfigured
  <2>2. \A t \in Targets : dss[t] = IF t \in Observed THEN EventsFor(config) ELSE Detached
    BY <2>1 DEF EventsFine, ObservedAsConfigured
  <2>3. Observed' = DOMAIN obs BY <1>1 DEF Observed
  <2> QED BY <1>1, <1>3, <2>2, <2>3
<1> QED BY <1>1, <1>2, <1>3, <1>4 DEF EventsFine

LEMMA RestoredIs ==
  ASSUME observers \in Observations, file \in Files, NEW done \in SUBSET (DOMAIN file.observers)
  PROVE  /\ Restored(done) \in Observations
         /\ DOMAIN Restored(done) = Observed \cup done
<1> DEFINE o == file.observers
<1>1. /\ DOMAIN observers \subseteq Targets
      /\ observers \in [DOMAIN observers -> SUBSET TargetThreads]
      /\ DOMAIN o \subseteq Targets /\ o \in [DOMAIN o -> SUBSET TargetThreads]
  <2>1. o \in Observations BY DEF Files
  <2> HIDE DEF o
  <2> QED BY <2>1, ObservationsAre
<1>2. \A t \in Observed \cup done :
        (IF t \notin done THEN observers[t]
         ELSE IF o[t] = {} THEN {} ELSE Known(t) \cup o[t]) \in SUBSET TargetThreads
  BY <1>1 DEF Known, Observed
<1>3. Restored(done) \in [Observed \cup done -> SUBSET TargetThreads]
  BY <1>2 DEF Restored
<1>4. Observed \cup done \subseteq Targets BY <1>1 DEF Observed
<1> QED BY <1>3, <1>4 DEF Observations

LEMMA SavedIs ==
  ASSUME PluginsFine, EventsFine
  PROVE  Saved \in Files
<1>1. /\ plugs.winfos \in Seq(WriterUids) /\ plugs.finfos \in Seq(Infos)
      /\ Len(plugs.writers) \in 0..Len(plugs.winfos)
      /\ Len(plugs.formatters) \in 0..Len(plugs.finfos)
  BY Parts DEF PluginsFine, Fits, Plugs
<1>2. /\ SubSeq(plugs.winfos, 1, Len(plugs.writers)) \in Seq(WriterUids)
      /\ SubSeq(plugs.finfos, 1, Len(plugs.formatters)) \in Seq(Infos)
  <2>1. ASSUME NEW R, NEW s \in Seq(R), NEW n \in 0..Len(s) PROVE SubSeq(s, 1, n) \in Seq(R)
    OBVIOUS
  <2> QED BY <1>1, <2>1
<1>3. config \in Configs /\ observers \in Observations BY DEF EventsFine
<1> QED BY <1>2, <1>3 DEF Saved, Files

LEMMA EndKeeps ==
  ASSUME IInv, EndSession \/ ServerFails
  PROVE  IInv'
<1>1. /\ Renewed /\ dss' = [t \in Targets |-> Detached] /\ loads' = loads
      /\ file' = Saved \/ file' = file
  BY DEF EndSession, ServerFails
<1>2. PluginsFine' BY <1>1, RenewedFine DEF IInv
<1>3. /\ observers' = <<>> /\ config' = DefaultConfig /\ inForce' = DefaultConfig
      /\ half' = FALSE /\ wild' = FALSE
  BY <1>1 DEF Renewed
<1>4. dss' \in [Targets -> Events] BY <1>1, Asking
<1>5. DOMAIN observers' = {} /\ observers' \in Observations
  <2>1. observers' \in Seq({}) /\ Len(observers') = 0 BY <1>3
  <2>2. observers' \in [1..0 -> {}] /\ 1..0 = {} BY <2>1
  <2>3. observers' \in [{} -> SUBSET TargetThreads] BY <2>2
  <2> QED BY <2>3 DEF Observations
<1>6. ObservedAsConfigured' BY <1>1, <1>3, <1>5 DEF ObservedAsConfigured, Observed
<1>7. EventsFine' BY <1>3, <1>4, <1>5, <1>6, Asking DEF EventsFine
<1>8. FileFine' BY <1>1, SavedIs DEF IInv, FileFine
<1> QED BY <1>2, <1>7, <1>8 DEF IInv

LEMMA LoadKeeps ==
  ASSUME IInv, LoadConfigFile \/ \E t \in Targets : LoadStopsAtTarget(t)
  PROVE  IInv'
<1>1. file # NoFile /\ file \in Files BY DEF LoadConfigFile, LoadStopsAtTarget, IInv, FileFine
<1>2. observers \in Observations BY DEF IInv, EventsFine
<1>3. PICK obs \in Observations : Observed \subseteq DOMAIN obs /\ Restoring(obs)
  <2>1. CASE LoadConfigFile
    <3>1. Restoring(Restored(DOMAIN file.observers)) BY <2>1 DEF LoadConfigFile
    <3>2. /\ Restored(DOMAIN file.observers) \in Observations
          /\ Observed \subseteq DOMAIN Restored(DOMAIN file.observers)
      BY <1>1, <1>2, RestoredIs
    <3> QED BY <3>1, <3>2
  <2>2. CASE \E t \in Targets : LoadStopsAtTarget(t)
    <3>0. PICK t \in Targets : LoadStopsAtTarget(t) BY <2>2
    <3>1. PICK done \in SUBSET (DOMAIN file.observers \ Conflicts),
               some \in SUBSET file.observers[t] :
            t \in Conflicts /\ Restoring([Restored(done) EXCEPT ![t] = @ \cup some])
      BY <3>0 DEF LoadStopsAtTarget
    <3> DEFINE r == Restored(done)
               obs == [r EXCEPT ![t] = @ \cup some]
    <3>2. r \in Observations /\ DOMAIN r = Observed \cup done BY <1>1, <1>2, <3>1, RestoredIs
    <3> HIDE DEF r
    <3>3. DOMAIN r \subseteq Targets /\ r \in [DOMAIN r -> SUBSET TargetThreads]
      BY <3>2, ObservationsAre
    <3>4. t \in Observed /\ some \subseteq TargetThreads
      <4>1. t \in DOMAIN file.observers /\ Known(t) \cap file.observers[t] # {}
        BY <3>1 DEF Conflicts
      <4>2. t \in Observed BY <4>1 DEF Known
      <4>3. file.observers \in [DOMAIN file.observers -> SUBSET TargetThreads]
        <5>1. file.observers \in Observations BY <1>1 DEF Files
        <5> QED BY <5>1, ObservationsAre
      <4>4. file.observers[t] \in SUBSET TargetThreads BY <4>1, <4>3
      <4> QED BY <3>1, <4>2, <4>4
    <3>5. DOMAIN obs = DOMAIN r /\ obs \in [DOMAIN obs -> SUBSET TargetThreads]
      BY <3>2, <3>3, <3>4
    <3>6. Restoring(obs) BY <3>1 DEF r
    <3> HIDE DEF obs
    <3>7. obs \in Observations BY <3>3, <3>5, ObservationsAre
    <3> QED BY <3>2, <3>5, <3>6, <3>7
  <2> QED BY <2>1, <2>2
<1>4. EventsFine' BY <1>1, <1>3, RestoringKeeps DEF IInv
<1>5. PluginsFine'
  <2>1. /\ Aligned(plugs) /\ Count(Len(file.writers) + Len(file.formatters))
        /\ plugs' = Recreated.plugs /\ params' = Objects(Recreated.plugs) /\ moved' = moved
    BY <1>3 DEF Restoring
  <2> QED BY <1>1, <2>1, RecreatedFine DEF IInv
<1>6. file' = file BY <1>3 DEF Restoring
<1> QED BY <1>4, <1>5, <1>6 DEF IInv, FileFine

LEMMA LoadStopsAtPluginKeeps ==
  ASSUME IInv, LoadStopsAtPlugin
  PROVE  IInv'
<1>1. /\ file # NoFile /\ Aligned(plugs) /\ Count(Len(file.writers) + Len(file.formatters))
      /\ plugs' = Recreated.plugs /\ params' = params /\ moved' = moved
      /\ observers' = observers /\ dss' = dss /\ wild' = wild /\ config' = config
      /\ inForce' = inForce /\ file' = file /\ half' = half
  BY DEF LoadStopsAtPlugin, observerVars, configVars
<1>2. file \in Files BY <1>1 DEF IInv, FileFine
<1>3. PluginsFine' BY <1>1, <1>2, RecreatedFine DEF IInv
<1>4. ObservedAsConfigured' BY <1>1 DEF IInv, EventsFine, ObservedAsConfigured, Observed
<1>5. EventsFine' BY <1>1, <1>4 DEF IInv, EventsFine
<1> QED BY <1>1, <1>3, <1>5 DEF IInv, FileFine

(* What the requests about the plug-ins leave alone.                       *)
LEMMA EventsStay ==
  ASSUME EventsFine, FileFine, UNCHANGED <<observerVars, configVars, file, half>>
  PROVE  EventsFine' /\ FileFine'
<1>1. /\ observers' = observers /\ dss' = dss /\ wild' = wild /\ config' = config
      /\ inForce' = inForce /\ file' = file /\ half' = half
  BY DEF observerVars, configVars
<1>2. ObservedAsConfigured' BY <1>1 DEF EventsFine, ObservedAsConfigured, Observed
<1> QED BY <1>1, <1>2 DEF EventsFine, FileFine

(* What the requests about observation and configuration leave alone.      *)
LEMMA PluginsStay ==
  ASSUME PluginsFine, FileFine, UNCHANGED <<plugs, params, moved, loads>>,
         file' = file \/ file' \in Files
  PROVE  PluginsFine' /\ FileFine'
<1>1. ParamsAlive' BY DEF PluginsFine, ParamsAlive
<1> QED BY <1>1 DEF PluginsFine, FileFine

LEMMA InitFine == Init => IInv
<1> SUFFICES ASSUME Init PROVE IInv OBVIOUS
<1>1. /\ plugs = NoPlugs /\ params = {} /\ observers = <<>>
      /\ dss = [t \in Targets |-> Detached]
      /\ config = DefaultConfig /\ inForce = DefaultConfig
      /\ file = NoFile /\ moved = FALSE /\ half = FALSE /\ wild = FALSE /\ loads = 0
  BY DEF Init
<1>2. NoPlugs \in Plugs BY DEF Plugs, NoPlugs
<1>3. Fits(NoPlugs, 0) /\ Placed(NoPlugs) BY DEF Fits, Placed, NoPlugs
<1>4. ParamsAlive BY <1>1 DEF ParamsAlive
<1>5. PluginsFine
  <2>1. plugs \in Plugs /\ Fits(plugs, loads) /\ Placed(plugs) BY <1>1, <1>2, <1>3
  <2>2. moved \in BOOLEAN BY <1>1, Zenon
  <2>3. loads \in 0..MaxLoads
    <3>1. loads = 0 BY <1>1
    <3> QED BY <3>1, Bounded
  <2> QED BY <1>4, <2>1, <2>2, <2>3 DEF PluginsFine
<1>6. DOMAIN observers = {} /\ observers \in Observations
  <2>1. observers \in Seq({}) /\ Len(observers) = 0 BY <1>1
  <2>2. observers \in [1..0 -> {}] /\ 1..0 = {} BY <2>1
  <2>3. observers \in [{} -> SUBSET TargetThreads] BY <2>2
  <2> QED BY <2>3 DEF Observations
<1>7. ObservedAsConfigured BY <1>1, <1>6 DEF ObservedAsConfigured, Observed
<1>8. dss \in [Targets -> Events] BY <1>1, Asking
<1>9. EventsFine BY <1>1, <1>6, <1>7, <1>8, Asking DEF EventsFine
<1> QED BY <1>1, <1>5, <1>9 DEF IInv, FileFine

LEMMA StepKeeps == IInv /\ [Next]_vars => IInv'
<1> SUFFICES ASSUME IInv, [Next]_vars PROVE IInv' OBVIOUS
<1>0. PluginsFine /\ EventsFine /\ FileFine BY DEF IInv
<1>1. CASE UNCHANGED vars
  <2>1. /\ UNCHANGED <<observerVars, configVars, file, half>>
        /\ UNCHANGED <<plugs, params, moved, loads>>
    BY <1>1 DEF vars
  <2> QED BY <1>0, <2>1, EventsStay, PluginsStay DEF IInv
<1>2. ASSUME NEW uid \in WriterUids, LoadWriter(uid) \/ LoadFails(WriterFails(plugs, uid))
      PROVE  IInv'
  <2>1. UNCHANGED <<observerVars, configVars, file, half>>
    BY <1>2 DEF LoadWriter, LoadFails, PluginRequest
  <2> QED BY <1>0, <1>2, <2>1, LoadWriterKeeps, WriterFailsKeeps, EventsStay DEF IInv
<1>3. ASSUME NEW uid \in FormatterUids,
             LoadFormatter(uid) \/ LoadFails(FormatterFails(plugs, uid))
      PROVE  IInv'
  <2>1. UNCHANGED <<observerVars, configVars, file, half>>
    BY <1>3 DEF LoadFormatter, LoadFails, PluginRequest
  <2> QED BY <1>0, <1>3, <2>1, LoadFormatterKeeps, FormatterFailsKeeps, EventsStay DEF IInv
<1>4. ASSUME NEW i \in 0..MaxLoads - 1, UnloadFormatter(i) \/ UnloadWriter(i)
      PROVE  IInv'
  <2>1. UNCHANGED <<observerVars, configVars, file, half>>
    BY <1>4 DEF UnloadFormatter, UnloadWriter, PluginRequest
  <2>2. i \in Nat OBVIOUS
  <2> QED BY <1>0, <1>4, <2>1, <2>2, UnloadFormatterKeeps, UnloadWriterKeeps, EventsStay DEF IInv
<1>5. ASSUME NEW f \in 0..MaxLoads - 1, NEW w \in 0..MaxLoads - 1, BindPlugins(f, w)
      PROVE  IInv'
  <2>1. UNCHANGED <<observerVars, configVars, file, half>> BY <1>5 DEF BindPlugins
  <2>2. f \in Nat /\ w \in Nat OBVIOUS
  <2> QED BY <1>0, <1>5, <2>1, <2>2, BindPluginsKeeps, EventsStay DEF IInv
<1>6. ASSUME NEW t \in Targets, NEW n \in {{}} \cup {{x} : x \in TargetThreads},
             AttachTarget(t, n) \/ DetachTarget(t, n)
      PROVE  IInv'
  <2>1. UNCHANGED <<plugs, params, moved, loads>> /\ file' = file
    BY <1>6 DEF AttachTarget, DetachTarget
  <2>2. n \in SUBSET TargetThreads OBVIOUS
  <2> QED BY <1>0, <1>6, <2>1, <2>2, AttachTargetKeeps, DetachTargetKeeps, PluginsStay DEF IInv
<1>7. ASSUME NEW t \in Targets, AttachFails(t) \/ KillProcess(t) \/ KillProcessFails(t)
      PROVE  IInv'
  <2>1. UNCHANGED <<plugs, params, moved, loads>> /\ file' = file
    BY <1>7 DEF AttachFails, KillProcess, KillProcessFails
  <2> QED BY <1>0, <1>7, <2>1, FaultsKeep, KillProcessKeeps, PluginsStay DEF IInv
<1>8. ASSUME NEW v \in EventTypes, SetConfigParameter("types", v) PROVE IInv'
  <2>1. UNCHANGED <<plugs, params, moved, loads>> /\ file' = file
    BY <1>8 DEF SetConfigParameter
  <2>2. \A c \in Configs : With(c, "types", v) \in Configs BY DEF With, Configs
  <2>3. EventsFine' BY <1>0, <1>8, <2>2, SetConfigParameterKeeps
  <2> QED BY <1>0, <2>1, <2>3, PluginsStay DEF IInv
<1>13. ASSUME NEW v \in PreActions, SetConfigParameter("pre", v) PROVE IInv'
  <2>1. UNCHANGED <<plugs, params, moved, loads>> /\ file' = file
    BY <1>13 DEF SetConfigParameter
  <2>2. \A c \in Configs : With(c, "pre", v) \in Configs BY DEF With, Configs
  <2>3. EventsFine' BY <1>0, <1>13, <2>2, SetConfigParameterKeeps
  <2> QED BY <1>0, <2>1, <2>3, PluginsStay DEF IInv
<1>9. CASE SaveConfigFile
  <2>1. /\ UNCHANGED <<plugs, params, moved, loads>> /\ file' = Saved
        /\ observers' = observers /\ dss' = dss /\ wild' = wild /\ config' = config
        /\ inForce' = inForce /\ half' = half
    BY <1>9 DEF SaveConfigFile, observerVars, configVars
  <2>2. ObservedAsConfigured' BY <1>0, <2>1 DEF EventsFine, ObservedAsConfigured, Observed
  <2>3. EventsFine' BY <1>0, <2>1, <2>2 DEF EventsFine
  <2>4. file' \in Files BY <1>0, <2>1, SavedIs
  <2> QED BY <1>0, <2>1, <2>3, <2>4, PluginsStay DEF IInv
<1>10. CASE LoadConfigFile \/ \E t \in Targets : LoadStopsAtTarget(t) BY <1>10, LoadKeeps
<1>11. CASE LoadStopsAtPlugin BY <1>11, LoadStopsAtPluginKeeps
<1>12. CASE EndSession \/ ServerFails BY <1>12, EndKeeps
<1>14. Next \/ UNCHANGED vars OBVIOUS
<1> QED
  BY <1>1, <1>2, <1>3, <1>4, <1>5, <1>6, <1>7, <1>8, <1>9, <1>10, <1>11, <1>12, <1>13, <1>14,
     Zenon DEF Next

LEMMA Invariant == Spec => []IInv
BY InitFine, StepKeeps, PTL DEF Spec

-------------------------------------------------------------------------------
(* The theorems.                                                           *)

LEMMA ObjectsAreNumbers ==
  ASSUME NEW p \in Plugs
  PROVE  Objects(p) \subseteq Nat
<1>1. /\ \A i \in 1..Len(p.formatters) : p.formatters[i].id \in Nat
      /\ \A i \in 1..Len(p.writers) : p.writers[i] \in Nat
  BY Parts DEF Formatters
<1> QED BY <1>1, ObjectsAre

(* Every array, list and file of the session holds what it is for, and     *)
(* ECom never runs out of numbers for the objects it makes.                *)
THEOREM TypeCorrect == Spec => []TypeOK
<1>1. IInv => TypeOK
  <2> SUFFICES ASSUME IInv PROVE TypeOK OBVIOUS
  <2>1. params \subseteq Nat BY ObjectsAreNumbers DEF IInv, PluginsFine, ParamsAlive
  <2> QED BY <2>1 DEF IInv, PluginsFine, EventsFine, FileFine, TypeOK
<1> QED BY <1>1, Invariant, PTL

(* A formatter that is dumped with writes to the writer the client is told *)
(* it is paired with, however plug-ins are loaded, bound, unloaded, saved  *)
(* and restored, until a writer leaves in front of a pair or ECom fails.   *)
THEOREM DumpsWherePaired == Spec => []WritesWherePaired
<1>1. IInv => WritesWherePaired
  <2> SUFFICES ASSUME IInv, Aligned(plugs), ~moved, NEW f \in 0..Len(plugs.finfos) - 1, Valid(f)
               PROVE  At(plugs.formatters, f).save = At(plugs.writers, At(plugs.finfos, f).pair)
    BY DEF WritesWherePaired
  <2>1. plugs \in Plugs /\ Fits(plugs, loads) /\ Placed(plugs) /\ loads \in 0..MaxLoads
    BY DEF IInv, PluginsFine
  <2>2. f + 1 \in 1..Len(plugs.finfos) BY <2>1, Parts
  <2> DEFINE w == plugs.finfos[f + 1].pair
  <2>3. w < Len(plugs.winfos) BY DEF Valid, At
  <2>4. w \in Nat BY <2>1, <2>2, Parts, Bounded DEF Infos
  <2>5. Len(plugs.winfos) \in Nat /\ Len(plugs.winfos) <= MaxLoads
    BY <2>1, Parts, Bounded DEF Fits, Plugs
  <2>6. w # Unpaired
    <3> HIDE DEF w
    <3> QED BY <2>3, <2>4, <2>5, Bounded
  <2>7. plugs.formatters[f + 1].save = plugs.writers[w + 1] BY <2>1, <2>2, <2>6 DEF Placed
  <2> QED BY <2>7 DEF At
<1> QED BY <1>1, Invariant, PTL

(* The list of parameters that is shown and saved points to plug-ins that  *)
(* exist, whichever request left half way.                                 *)
THEOREM NothingDangles == Spec => []ParamsAlive
<1>1. IInv => ParamsAlive BY DEF IInv, PluginsFine
<1> QED BY <1>1, Invariant, PTL

(* DSS reports what the configuration asks for, of the observed            *)
(* executables and of no other, as long as no request has left half way.   *)
THEOREM ObservesAsConfigured == Spec => []ObservedAsConfigured
<1>1. IInv => ObservedAsConfigured BY DEF IInv, EventsFine
<1> QED BY <1>1, Invariant, PTL

(* A configuration loaded into a new session is the one that was saved.    *)
THEOREM RestoresWhatWasSaved == Spec => LoadRestores
<1> DEFINE A == LoadConfigFile /\ plugs = NoPlugs /\ observers = <<>> => Saved' = file
<1>1. IInv /\ [Next]_vars => [A]_vars
  <2> SUFFICES ASSUME IInv, LoadConfigFile, plugs = NoPlugs, observers = <<>>
               PROVE  Saved' = file
    OBVIOUS
  <2> DEFINE q == Recreated.plugs
             n == Len(file.writers) + Len(file.formatters)
  <2>1. file # NoFile /\ file \in Files BY DEF LoadConfigFile, IInv, FileFine
  <2>2. /\ Aligned(plugs) /\ Count(n) /\ ~Recreated.left
        /\ plugs' = q /\ config' = file.config
        /\ observers' = Restored(DOMAIN file.observers)
    BY DEF LoadConfigFile, Restoring
  <2>3. /\ q \in Plugs /\ Aligned(q) /\ q.finfos = file.formatters /\ q.winfos = file.writers
    <3>1. loads + n <= MaxLoads /\ loads \in Nat /\ plugs \in Plugs /\ Fits(plugs, loads)
      <4>1. loads + n <= MaxLoads
        <5> HIDE DEF n
        <5> QED BY <2>2 DEF Count
      <4>2. loads \in 0..MaxLoads /\ plugs \in Plugs /\ Fits(plugs, loads)
        BY DEF IInv, PluginsFine
      <4> HIDE DEF n
      <4> QED BY <4>1, <4>2, Bounded
    <3> QED BY <2>1, <2>2, <3>1, RecreatedKeeps
  <2> HIDE DEF q, n
  <2>4. /\ SubSeq(q.winfos, 1, Len(q.writers)) = q.winfos
        /\ SubSeq(q.finfos, 1, Len(q.formatters)) = q.finfos
    <3>1. ASSUME NEW R, NEW s \in Seq(R) PROVE SubSeq(s, 1, Len(s)) = s OBVIOUS
    <3>2. Len(q.writers) = Len(q.winfos) /\ Len(q.formatters) = Len(q.finfos)
      BY <2>3 DEF Aligned
    <3> QED BY <2>3, <3>1, <3>2, Parts
  <2>5. observers' = file.observers
    <3>1. DOMAIN observers = {}
      <4>1. observers \in Seq({}) /\ Len(observers) = 0 OBVIOUS
      <4> QED BY <4>1
    <3>2. file.observers \in [DOMAIN file.observers -> SUBSET TargetThreads]
      <4>1. file.observers \in Observations BY <2>1 DEF Files
      <4> QED BY <4>1, ObservationsAre
    <3>3. \A t \in DOMAIN file.observers :
            (IF file.observers[t] = {} THEN {} ELSE Known(t) \cup file.observers[t])
              = file.observers[t]
      BY <3>1 DEF Known, Observed
    <3>4. Restored(DOMAIN file.observers) = [t \in DOMAIN file.observers |-> file.observers[t]]
      BY <3>1, <3>3 DEF Restored, Observed
    <3> QED BY <2>2, <3>2, <3>4
  <2>6. file = [config |-> file.config, writers |-> file.writers,
                formatters |-> file.formatters, observers |-> file.observers]
    BY <2>1 DEF Files
  <2>7. Saved' = [config |-> config',
                  writers |-> SubSeq(q.winfos, 1, Len(q.writers)),
                  formatters |-> SubSeq(q.finfos, 1, Len(q.formatters)),
                  observers |-> observers']
    BY <2>2 DEF Saved
  <2> QED BY <2>2, <2>3, <2>4, <2>5, <2>6, <2>7
<1>2. Spec => []IInv /\ [][Next]_vars BY Invariant DEF Spec
<1> QED BY <1>1, <1>2, PTL DEF LoadRestores

===============================================================================
