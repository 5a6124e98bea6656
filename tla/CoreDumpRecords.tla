---------------------------- MODULE CoreDumpRecords ----------------------------
(***************************************************************************)
(* The form in which the entries of a list are sent to a client of the     *)
(* core dump server (cdssupport): each entry is a stream of words and of   *)
(* one text, with its own size at the end, and the client finds the next   *)
(* entry by the size of the one before it.  What is written, what is read, *)
(* what is counted and how long an entry may be stand in four functions of *)
(* each class, which have to agree.                                        *)
(*                                                                         *)
(* A name has a length, and characters that are compressed to one byte or  *)
(* take two.                                                               *)
(***************************************************************************)
EXTENDS Naturals, Sequences, FiniteSets, SequencesExt

CONSTANTS
  Names,         \* the names there can be
  ContextSize,   \* sizeof(TRmdArmExcInfo)
  MaxEntries     \* bound

RecordsAssumption ==
  /\ Names \subseteq [len : Nat, wide : BOOLEAN] /\ {ContextSize, MaxEntries} \subseteq Nat

VARIABLES
  kind,      \* the class of the entries
  halves,    \* the build evaluates the two halves of an id of a crash in their order
  list,      \* the entries of the server
  wire,      \* the items of the list in the form in which it is sent
  at,        \* nextObjOffset of the client
  told,      \* its entries
  failed     \* why it has no more: "no", "cut" or "lost"

vars == <<kind, halves, list, wire, at, told, failed>>

Kinds == {"thread", "process", "executable", "plugin", "crash"}
Word == 4
Header == 2    \* of a text, at most

-------------------------------------------------------------------------------
(* ExternalizeL of each class, but for the size at the end.                *)
ThreadWritten ==
  <<"idLow", "idHigh", "name", "pidLow", "pidHigh", "priority", "svcStackPtr", "svcStackAddr",
    "svcStackSize", "usrStackAddr", "usrStackSize", "observed", "lastCpuId", "heapBase",
    "heapSize">>
ProcessWritten == <<"idLow", "idHigh", "name", "observed">>
ExecutableWritten == <<"name", "activelyDebugged", "passivelyDebugged", "observed">>
PluginWritten == <<"name", "uid", "version", "type", "pair">>
CrashWritten ==
  <<"type", "excNumber", "reason", "category", "tidHigh", "tidLow", "pidHigh", "pidLow",
    "timeHigh", "timeLow", "context", "crashId", "crashSource">>

Written ==
  [thread |-> ThreadWritten, process |-> ProcessWritten, executable |-> ExecutableWritten,
   plugin |-> PluginWritten, crash |-> CrashWritten]

(* InternalizeL of each class.                                             *)
(* Mutant: the two words of the heap in the opposite order.                *)
ThreadReadHeapFirst ==
  <<"idLow", "idHigh", "name", "pidLow", "pidHigh", "priority", "svcStackPtr", "svcStackAddr",
    "svcStackSize", "usrStackAddr", "usrStackSize", "observed", "lastCpuId", "heapSize",
    "heapBase">>

ThreadRead ==
  <<"idLow", "idHigh", "name", "pidLow", "pidHigh", "priority", "svcStackPtr", "svcStackAddr",
    "svcStackSize", "usrStackAddr", "usrStackSize", "observed", "lastCpuId", "heapBase",
    "heapSize">>
ProcessRead == <<"idLow", "idHigh", "name", "observed">>
ExecutableRead == <<"name", "activelyDebugged", "passivelyDebugged", "observed">>
PluginRead == <<"name", "uid", "version", "type", "pair">>

(* The two reads that are arguments of MAKE_TUINT64 come in either order.  *)
Pair(high, low) == IF halves THEN <<high, low>> ELSE <<low, high>>
CrashRead ==
  <<"type", "excNumber", "reason", "category">>
  \o Pair("tidHigh", "tidLow") \o Pair("pidHigh", "pidLow") \o Pair("timeHigh", "timeLow")
  \o <<"context", "crashId", "crashSource">>

ReadBack ==
  [thread |-> ThreadRead, process |-> ProcessRead, executable |-> ExecutableRead,
   plugin |-> PluginRead, crash |-> CrashRead]

(* The words that NewL counts when it checks the length of an entry, and   *)
(* Size when the entry has not been written yet.                           *)
ThreadChecked == 13
ProcessChecked == 5
ExecutableChecked == 5
PluginChecked == 6
Checked ==
  [thread |-> ThreadChecked, process |-> ProcessChecked, executable |-> ExecutableChecked,
   plugin |-> PluginChecked]

ThreadCounted == 16
ProcessCounted == 5
ExecutableCounted == 5
PluginCounted == 6
Counted ==
  [thread |-> ThreadCounted, process |-> ProcessCounted, executable |-> ExecutableCounted,
   plugin |-> PluginCounted]

ThreadMaxSize == 512
MaxSize(k) == IF k = "thread" THEN ThreadMaxSize ELSE 256

-------------------------------------------------------------------------------
MaxCategory == 16
Shorter(name) == [name EXCEPT !.len = IF @ < MaxCategory THEN @ ELSE MaxCategory]

(* TCrashInfo::ConstructL cuts the category; the other classes refuse a    *)
(* name for its size before it is compressed.                              *)
Fits(name) == Checked[kind] * Word + Header + 2 * name.len < MaxSize(kind)

(* An entry: what each of its fields holds.                                *)
Entry(id, name) ==
  [f \in ToSet(Written[kind]) |->
     CASE f \in {"name", "category"} -> name
       [] f = "observed" -> FALSE
       [] OTHER -> <<id, f>>]

Init ==
  /\ kind \in Kinds /\ halves \in BOOLEAN /\ (kind # "crash" => halves)
  /\ list = <<>> /\ wire = <<>> /\ at = 0 /\ told = <<>> /\ failed = "no"

(* The client has nothing of a list yet.                                   *)
Open == wire = <<>>

Make(name) ==
  /\ Open /\ Len(list) < MaxEntries
  /\ list' = Append(list, IF kind = "crash" THEN Entry(Len(list), Shorter(name))
                          ELSE Entry(Len(list), name))
  /\ kind # "crash" => Fits(name)
  /\ UNCHANGED <<kind, halves, wire, at, told, failed>>

(* MarkThreads and its like: Observed.                                      *)
Mark(i) ==
  /\ Open /\ "observed" \in DOMAIN list[i] /\ list' = [list EXCEPT ![i].observed = TRUE]
  /\ UNCHANGED <<kind, halves, wire, at, told, failed>>

TextBytes(name) ==
  IF name.len = 0 THEN Word
  ELSE Word + Header + (IF name.wide THEN 2 * name.len ELSE name.len)

Bytes(f, v) ==
  CASE f = "name" -> TextBytes(v)
    [] f = "category" -> Word + 2 * v.len
    [] f = "context" -> ContextSize
    [] OTHER -> Word

Item(f, v) == [value |-> v, bytes |-> Bytes(f, v)]
Items(e) == [i \in DOMAIN Written[kind] |-> Item(Written[kind][i], e[Written[kind][i]])]

Length(items) == FoldLeft(LAMBDA n, item : n + item.bytes, 0, items)

(* Mutant: the size does not count itself.                                 *)
SizeBeforeItself(items) == Length(items)

(* iSize.                                                                  *)
SizeOf(items) == Length(items) + Word

Externalized(e) == Append(Items(e), [value |-> SizeOf(Items(e)), bytes |-> Word])

(* MarshalListL.                                                           *)
Marshal ==
  /\ Open /\ list # <<>>
  /\ wire' = FlattenSeq([i \in DOMAIN list |-> Externalized(list[i])])
  /\ at' = 0 /\ told' = <<>> /\ failed' = "no"
  /\ UNCHANGED <<kind, halves, list>>

Starts(offset) == {i \in DOMAIN wire : Length(SubSeq(wire, 1, i - 1)) = offset}

(* The client looks at no more than MaxSize bytes from the offset on.      *)
ReadNext ==
  /\ ~Open /\ failed = "no" /\ Len(told) < Len(list)
  /\ LET fields == ReadBack[kind]
         n == Len(fields) + 1
         found == {i \in Starts(at) : i + n - 1 <= Len(wire)}
         items == SubSeq(wire, CHOOSE i \in found : TRUE, (CHOOSE i \in found : TRUE) + n - 1)
     IN  IF found = {} THEN failed' = "lost" /\ UNCHANGED <<at, told>>
         ELSE IF Length(items) > MaxSize(kind) THEN failed' = "cut" /\ UNCHANGED <<at, told>>
         ELSE /\ told' = Append(told, [f \in ToSet(fields) |->
                   items[CHOOSE i \in DOMAIN fields : fields[i] = f].value])
              /\ at' = at + items[n].value /\ UNCHANGED failed
  /\ UNCHANGED <<kind, halves, list, wire>>

(* The plug-ins and the crashes stay with the session and are sent again.  *)
Again ==
  /\ ~Open /\ (failed # "no" \/ Len(told) = Len(list))
  /\ wire' = <<>> /\ list' = IF kind \in {"plugin", "crash"} THEN list ELSE <<>>
  /\ at' = 0 /\ told' = <<>> /\ failed' = "no"
  /\ UNCHANGED <<kind, halves>>

Next ==
  \/ \E name \in Names : Make(name)
  \/ \E i \in DOMAIN list : Mark(i)
  \/ Marshal \/ ReadNext \/ Again

-------------------------------------------------------------------------------
(* The client has of each entry what the server has, unless the build      *)
(* reads the halves of the ids of a crash the other way round.             *)
SameEntries == halves => \A i \in DOMAIN told : told[i] = list[i]

(* It can read every entry, but for a thread whose name takes two bytes a  *)
(* character and is so long that only NewL's count of the words, in which  *)
(* three are missing, has let it pass.                                     *)
Readable ==
  /\ failed # "lost"
  /\ failed = "cut" =>
       \E i \in DOMAIN list :
         kind = "thread" /\ list[i].name.wide
           /\ ThreadCounted * Word + Header + 2 * list[i].name.len > ThreadMaxSize

(* It has gone through the whole of what was sent.                         *)
WholeStream == ~Open /\ Len(told) = Len(list) => at = Length(wire)

(* What is counted of an entry before it is written is the most it takes.  *)
CountedEnough ==
  kind # "crash" =>
    \A i \in DOMAIN list :
      SizeOf(Items(list[i])) <= Counted[kind] * Word + Header + 2 * list[i].name.len

Records == SameEntries /\ Readable /\ WholeStream /\ CountedEnough
===============================================================================
