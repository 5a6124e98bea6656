-------------------------------- MODULE TrkTasks --------------------------------
(***************************************************************************)
(* What the host is told of the processes, threads and libraries of the    *)
(* target when it asks for them (DoReadInfoL of CTrkDispatchLayer and the  *)
(* calls of the kernel driver that it makes), and of the libraries that    *)
(* are loaded after it asked (iLibraryNotifyList of the driver).           *)
(*                                                                         *)
(* A list is built by asking the driver for the task at each index, one    *)
(* call each; the target goes on meanwhile.  It is sent in pieces.         *)
(*                                                                         *)
(* The name of a library is a sequence, so that one can begin another.     *)
(* Names that the host sends end with a zero, as the driver assumes.       *)
(***************************************************************************)
EXTENDS Naturals, FiniteSets, FiniteSetsExt, SequencesExt

CONSTANTS
  Procs, Threads,
  Owner,       \* the process of a thread
  Uid,         \* the third uid of a process
  Size,        \* what a task takes of a reply
  Room,        \* what there is of it, which is enough for any one task
  Later,       \* the tasks that are not there from the beginning
  Libs,        \* libraries that may be loaded
  Slots,       \* NUMBER_OF_LIBS_TO_REGISTER
  MaxAsks, MaxLoads \* bounds

TasksAssumption ==
  /\ Owner \in [Threads -> Procs] /\ Uid \in [Procs -> Nat] /\ Later \subseteq Procs \cup Threads
  /\ \A t \in Procs \cup Threads : Size[t] \in 1..Room
  /\ {Slots, MaxAsks, MaxLoads} \subseteq Nat

VARIABLES
  about,    \* what this behaviour is about: the lists or the libraries
  there,    \* the containers of the kernel
  over,     \* the tasks in them that have ended
  begun,    \* the tasks that have ever been there
  list,     \* iProcessList and iThreadList
  scan,     \* the loop of DoReBuildProcessList or DoReBuildThreadList
  host,     \* the list the host wants, and what it has of it
  lived,    \* the tasks of the list that lived when it was asked for, and still do
  before,   \* those that had ended then
  found,    \* the process that the host asked for and the one it was given
  segs,     \* the code segments of the libraries that are loaded
  slots,    \* iLibraryNotifyList
  waits,    \* the libraries that the host asked for and that were not loaded
  heard,    \* how often it has been told of them since
  seen,     \* those that were there when a debugged process last loaded a library
  limits, asks, loads

listVars == <<there, over, begun, list, scan, host, lived, before, found>>
libVars == <<segs, slots, waits, heard, seen, loads>>
vars == <<about, listVars, libVars, limits, asks>>

Kinds == {"processes", "threads"}
Lists == {"processes"} \cup Procs
NoScan == [of |-> "none", at |-> 0]
NoHost == [of |-> "none", got |-> <<>>, total |-> 0]
NoName == <<>>

AnyOrder(S) == CHOOSE s \in [1..Cardinality(S) -> S] : ToSet(s) = S

Init ==
  /\ about \in {"lists", "libraries"}
  /\ there = [k \in Kinds |-> AnyOrder((IF k = "processes" THEN Procs ELSE Threads) \ Later)]
  /\ over = {} /\ begun = (Procs \cup Threads) \ Later
  /\ list = [k \in Kinds |-> <<>>] /\ scan = NoScan /\ host = NoHost
  /\ lived = {} /\ before = {} /\ found = [wanted |-> "none", given |-> "none"]
  /\ segs = <<>> /\ slots = [i \in 1..Slots |-> [name |-> NoName, empty |-> TRUE]]
  /\ waits = {} /\ heard = [n \in Libs |-> 0] /\ seen = {}
  /\ limits = {} /\ asks = 0 /\ loads = 0

Because(why, holds) == IF holds THEN {why} ELSE {}
Limit(new) == limits' = limits \cup new

-------------------------------------------------------------------------------
(* The lists of tasks.                                                     *)
Kind(of) == IF of = "processes" THEN "processes" ELSE "threads"
Row(of) == IF of = "processes" THEN there["processes"]
           ELSE SelectSeq(there["threads"], LAMBDA t : Owner[t] = of)

Complete == Len(host.got) >= host.total
Building == scan.of # "none"
Asks == about = "lists" /\ asks < MaxAsks /\ asks' = asks + 1
ListsOnly == UNCHANGED <<about, libVars>>

(* DoReadInfoL for index 0.                                                *)
AskForList(of) ==
  /\ Asks /\ ~Building /\ Complete
  /\ list' = [list EXCEPT ![Kind(of)] = <<>>] /\ scan' = [of |-> of, at |-> 0]
  /\ host' = [of |-> of, got |-> <<>>, total |-> 0]
  /\ lived' = ToSet(Row(of)) \ over /\ before' = ToSet(Row(of)) \cap over
  /\ ListsOnly /\ UNCHANGED <<there, over, begun, found, limits>>

(* Mutant: those that have ended as well.                                  *)
AnyTask(t) == TRUE

(* EExitPending == ExitType().                                             *)
Lives(t) == t \notin over

(* DoGetProcessInfo or DoGetThreadInfo has a task at the index.            *)
HasTask == Building /\ scan.at < Len(Row(scan.of))
TaskAt == Row(scan.of)[scan.at + 1]

ReadTask ==
  /\ HasTask
  /\ list' = [list EXCEPT ![Kind(scan.of)] = IF Lives(TaskAt) THEN Append(@, TaskAt) ELSE @]
  /\ scan' = [scan EXCEPT !.at = @ + 1]
  /\ ListsOnly /\ UNCHANGED <<there, over, begun, host, lived, before, found, limits, asks>>

Taken(tasks) == FoldSeq(LAMBDA t, sum : Size[t] + sum, 0, tasks)

(* Mutant: the last one that fits is sent but not counted by the host.     *)
PieceAgain(tasks, from) ==
  LET rest == SubSeq(tasks, Max({from, 1}), Len(tasks))
      fits == {n \in 0..Len(rest) : Taken(SubSeq(rest, 1, n)) <= Room}
  IN  SubSeq(rest, 1, Max(fits))

(* As many from the index on as there is room for.                         *)
Piece(tasks, from) ==
  LET rest == SubSeq(tasks, from + 1, Len(tasks))
      fits == {n \in 0..Len(rest) : Taken(SubSeq(rest, 1, n)) <= Room}
  IN  SubSeq(rest, 1, Max(fits))

Reply ==
  LET tasks == list[Kind(host.of)]
  IN  host' = [host EXCEPT !.got = @ \o Piece(tasks, Len(@)), !.total = Len(tasks)]

EndOfList ==
  /\ Building /\ ~HasTask
  /\ scan' = NoScan /\ Reply
  /\ ListsOnly /\ UNCHANGED <<there, over, begun, list, lived, before, found, limits, asks>>

(* DoReadInfoL for another index: what is left of the list as it was.      *)
AskForMore ==
  /\ about = "lists" /\ ~Building /\ ~Complete /\ Reply
  /\ ListsOnly
  /\ UNCHANGED <<there, over, begun, list, scan, lived, before, found, limits, asks>>

(* Another view of the host asks for a list in between.                    *)
AskAside(of) ==
  /\ Asks /\ ~Building /\ ~Complete
  /\ list' = [list EXCEPT ![Kind(of)] = SelectSeq(Row(of), Lives)]
  /\ Limit(Because("relisted", Kind(of) = Kind(host.of)))
  /\ ListsOnly /\ UNCHANGED <<there, over, begun, scan, host, lived, before, found>>

(* Mutant: a process that has ended is given as well.                      *)
EveryProcess(p) == {i \in DOMAIN there["processes"] : Uid[there["processes"][i]] = Uid[p]}

(* DoGetExeInfo: the first process that has the uid, whatever its name,    *)
(* and a thread.                                                           *)
WithUid(p) ==
  {i \in EveryProcess(p) : there["processes"][i] \notin over}

GetExeInfo(p) ==
  /\ WithUid(p) # {}
  /\ found' = [wanted |-> p, given |-> there["processes"][Min(WithUid(p))]]

DoReadProcessInfo(p) ==
  /\ Asks /\ ~Building /\ GetExeInfo(p)
  /\ Limit(Because("twin", \E q \in begun \ (over \cup {p}) : q \in Procs /\ Uid[q] = Uid[p]))
  /\ ListsOnly /\ UNCHANGED <<there, over, begun, list, scan, host, lived, before>>

(* The target.  The last of a container, or the next, takes the place of   *)
(* one that goes.                                                          *)
Within(t) == IF t \in Procs THEN {t} \cup {u \in Threads : Owner[u] = t} ELSE {t}
KindOf(t) == IF t \in Procs THEN "processes" ELSE "threads"

Ends(t) ==
  /\ about = "lists" /\ t \in begun \ over /\ t \in ToSet(there[KindOf(t)])
  /\ over' = over \cup (Within(t) \cap begun) /\ lived' = lived \ Within(t)
  /\ found' = [wanted |-> "none", given |-> "none"]
  /\ ListsOnly /\ UNCHANGED <<there, begun, list, scan, host, before, limits, asks>>

MovesUp(s, i) == RemoveAt(s, i)
LastInstead(s, i) == IF i = Len(s) THEN Front(s) ELSE [Front(s) EXCEPT ![i] = Last(s)]

Goes(t) ==
  /\ about = "lists" /\ t \in over
  /\ \E i \in DOMAIN there[KindOf(t)] :
       /\ there[KindOf(t)][i] = t
       /\ \/ there' = [there EXCEPT ![KindOf(t)] = MovesUp(@, i)]
          \/ there' = [there EXCEPT ![KindOf(t)] = LastInstead(@, i)]
  /\ Limit(Because("moved", Building /\ Kind(scan.of) = KindOf(t)))
  /\ ListsOnly /\ UNCHANGED <<over, begun, list, scan, host, lived, before, found, asks>>

Begins(t) ==
  /\ about = "lists" /\ t \notin begun
  /\ t \in Threads => Owner[t] \in begun \ over
  /\ begun' = begun \cup {t} /\ there' = [there EXCEPT ![KindOf(t)] = Append(@, t)]
  /\ ListsOnly /\ UNCHANGED <<over, list, scan, host, lived, before, found, limits, asks>>

-------------------------------------------------------------------------------
(* The libraries.                                                          *)
LibsOnly == UNCHANGED <<about, listVars>>

Similar(n) == \E m \in Libs \ {n} : IsPrefix(m, n) \/ IsPrefix(n, m)

(* DoGetLibInfoFromCodeSegList: the first whose name begins with n.        *)
Matches(n) == {i \in DOMAIN segs : IsPrefix(n, segs[i])}

FreeSlots == {i \in 1..Slots : slots[i].name = NoName /\ slots[i].empty}
SlotsOf(n) == {i \in 1..Slots : ~slots[i].empty /\ slots[i].name = n}

(* Mutant: a name that is waited for takes another slot.                   *)
RegisterAgain(n) ==
  slots' = IF FreeSlots = {} THEN slots
           ELSE [slots EXCEPT ![Min(FreeSlots)] = [name |-> n, empty |-> FALSE]]

(* A slot that has been used keeps its name and is never free again.       *)
Register(n) ==
  slots' = IF SlotsOf(n) # {} \/ FreeSlots = {} THEN slots
           ELSE [slots EXCEPT ![Min(FreeSlots)] = [name |-> n, empty |-> FALSE]]

GetLibraryInfo(n) ==
  IF Matches(n) # {}
  THEN waits' = waits \ {n} /\ UNCHANGED <<slots, limits>>
  ELSE /\ Register(n) /\ waits' = waits \cup {n}
       /\ Limit(Because("full", SlotsOf(n) = {} /\ FreeSlots = {}))

DoReadLibraryInfo(n) ==
  /\ about = "libraries" /\ asks < MaxAsks /\ asks' = asks + 1
  /\ heard' = [heard EXCEPT ![n] = 0] /\ seen' = seen \ {n}
  /\ GetLibraryInfo(n)
  /\ LibsOnly /\ UNCHANGED <<segs, loads>>

(* The slot of the library itself, the first that will do.                 *)
Withdrawn(l) ==
  LET mine == {i \in 1..Slots : ~slots[i].empty /\ IsPrefix(l, slots[i].name)}
  IN  IF mine = {} THEN slots ELSE [slots EXCEPT ![Min(mine)].empty = TRUE]

(* CheckLibraryNotifyList: the libraries that have come without an event.  *)
Noticed(book, code) ==
  {i \in 1..Slots : ~book[i].empty /\ \E m \in ToSet(code) : IsPrefix(m, book[i].name)}

FirstFor(name, code) == code[Min({i \in DOMAIN code : IsPrefix(code[i], name)})]

(* Mutant: the slot stays in use.                                          *)
KeepsSlots(book, noticed) == book

Released(book, noticed) ==
  [i \in 1..Slots |-> IF i \in noticed THEN [book[i] EXCEPT !.empty = TRUE] ELSE book[i]]

(* AddLibrary in a process that is debugged; in another one nobody looks.  *)
Load(l, debugged) ==
  /\ about = "libraries" /\ loads < MaxLoads /\ loads' = loads + 1
  /\ l \notin ToSet(segs) /\ segs' = Append(segs, l)
  /\ IF ~debugged THEN UNCHANGED <<slots, heard, seen, limits>>
     ELSE LET book == Withdrawn(l)
              noticed == Noticed(book, segs')
              events(n) == Cardinality({i \in noticed : FirstFor(book[i].name, segs') = n})
                           + (IF n = l THEN 1 ELSE 0)
          IN  /\ slots' = Released(book, noticed)
              /\ heard' = [n \in Libs |-> IF n \in waits THEN heard[n] + events(n) ELSE heard[n]]
              /\ seen' = seen \cup (waits \cap ToSet(segs'))
              /\ Limit(Because("similar", \E n \in waits \cap ToSet(segs') : Similar(n)))
  /\ LibsOnly /\ UNCHANGED <<waits, asks>>

(* The matter is settled for a library that the host has been told of.     *)
Unload(l) ==
  /\ about = "libraries" /\ l \in ToSet(segs) /\ segs' = Remove(segs, l)
  /\ waits' = IF heard[l] > 0 THEN waits \ {l} ELSE waits
  /\ LibsOnly /\ UNCHANGED <<slots, heard, seen, limits, asks, loads>>

-------------------------------------------------------------------------------
(* Bound: a behaviour is followed until the first limit.                   *)
Unlimited == limits = {}

Steps ==
  \/ \E of \in Lists : AskForList(of) \/ AskAside(of)
  \/ ReadTask \/ EndOfList \/ AskForMore
  \/ \E p \in Procs : DoReadProcessInfo(p)
  \/ \E t \in Procs \cup Threads : Ends(t) \/ Goes(t) \/ Begins(t)
  \/ \E l \in Libs : DoReadLibraryInfo(l) \/ Unload(l)
                     \/ \E debugged \in BOOLEAN : Load(l, debugged)

Next == Unlimited /\ Steps

-------------------------------------------------------------------------------
(* When the host has the whole list, each task that has lived since it     *)
(* asked is in it once, no task is in it twice and none that had ended     *)
(* before, unless a task left the container while the list was built or    *)
(* the list was built again before the host had it all.                    *)
ListsAll ==
  Unlimited /\ ~Building /\ Complete =>
    /\ lived \subseteq ToSet(host.got) /\ ToSet(host.got) \cap before = {}
    /\ IsInjective(host.got)

(* A process that is found by its uid lives and is the one that was meant, *)
(* unless another one lives that has the uid.                              *)
FindsIt == Unlimited => found.given = found.wanted /\ found.given \notin over

(* The host is told once of a library that was not there when it asked:    *)
(* when a debugged process loads it, or the next library after a process   *)
(* loaded it that is not debugged; unless the slots are used up or one     *)
(* name begins another.                                                    *)
ToldOnce == Unlimited => \A n \in waits : heard[n] = (IF n \in seen THEN 1 ELSE 0)
===============================================================================
