----------------------------- MODULE CoreDumpLists -----------------------------
(***************************************************************************)
(* The lists a client of the core dump server asks for: threads, processes,*)
(* executables, plug-ins and crashes.  The server makes a list when it is  *)
(* asked how long it is and keeps it, in the form it is sent in, for the   *)
(* call that fetches it.                                                   *)
(*                                                                         *)
(* Two things of the server use the same lists meanwhile: the server's own *)
(* thread goes through the threads of a crashed process to suspend and to  *)
(* resume them, and the thread that dumps a crash asks the same source for *)
(* lists into the same buffers.                                            *)
(***************************************************************************)
EXTENDS Naturals, Sequences, FiniteSets, SequencesExt

CONSTANTS
  Processes,   \* the executable of each process
  Threads,     \* the process and the name of each thread; NoName: not named
  Mortal,      \* threads that may end
  Observations, Loadings, \* what the requests of CoreDumpSession have set
  TooLong,     \* executables whose name does not fit an entry
  Formatters,  \* the formatters ECom has, in the order it has them
  Crashes,     \* the crashes in flash
  KindSets,    \* bound: the kinds of lists one client asks for
  PageSize,    \* KNumPluginDetails
  MaxFaults,   \* bound: allocations that fail
  NoName

ListsAssumption == PageSize \in Nat \ {0} /\ MaxFaults \in Nat /\ 0 \notin DOMAIN Processes

VARIABLES
  alive,       \* threads
  suspended,   \* by the debug security server
  asked,       \* the kinds of lists this client asks for
  observers,   \* iObservationList: the thread names asked for of an executable
  loaded,      \* iFormatterInfos
  source,      \* iThreadListBuffer and iProcListBuffer: contents, and for whom
  total,       \* iTotal...ListDescSize
  marshalled,  \* iMarshalled...List
  call,        \* the client's call
  got,         \* what the last call brought
  pages,       \* iPluginList, and what the client has of it
  dump,        \* the crash handler and its thread
  stuck,       \* threads that could not be resumed, or were left suspended
  wild, faults

callVars == <<call, got, pages>>
sessionVars == <<asked, observers, loaded, total, marshalled>>
systemVars == <<alive, suspended, stuck>>
vars == <<callVars, sessionVars, systemVars, source, dump, wild, faults>>

All == 0                              \* every process
Fetched == {"threads", "processes"}   \* through a buffer of the data source
Kinds == Fetched \cup {"formatters", "crashes"}
Null == [is |-> "null", list |-> <<>>]
Deleted == [is |-> "deleted", list |-> <<>>]
Unread == [list |-> <<>>, for |-> "nobody"]
NoAnswer == [list |-> <<>>, truth |-> <<>>, why |-> {}, error |-> FALSE]
NoCall == [step |-> "idle", kind |-> "crashes", pid |-> All, required |-> 0, truth |-> <<>>, why |-> {}]
NoDump == [step |-> "idle", pid |-> All, kind |-> "threads", truth |-> <<>>, raced |-> FALSE]
NoPages == [list |-> <<>>, index |-> 0, told |-> <<>>, remaining |-> 0]

Sorted(S) == SetToSortSeq(S, <)
Running(p) == {t \in alive : p \in {All, Threads[t].pid}}

(* What the debug security server lists.                                   *)
Listing(kind, p) ==
  IF kind = "threads" THEN Sorted(Running(p)) ELSE Sorted({Threads[t].pid : t \in alive})

NameOf(kind, x) == IF kind = "threads" THEN Threads[x].name ELSE Processes[x]

(* An entry without a name is passed over.                                 *)
Parsed(kind, list) == SelectSeq(list, LAMBDA x : NameOf(kind, x) # NoName)

(* A thread is marked by its name, whatever its process is.                *)
Marked(kind, x) ==
  CASE kind = "threads" -> \E e \in DOMAIN observers : Threads[x].name \in observers[e]
    [] kind = "processes" -> Processes[x] \in DOMAIN observers /\ observers[Processes[x]] = {}
    [] OTHER -> FALSE

(* An entry when it is made is counted at the most it can take, its name   *)
(* not compressed; only what is marshalled has its true size.              *)
Estimate == 3
Size == 2

Init ==
  /\ alive = DOMAIN Threads /\ suspended = {} /\ stuck = {}
  /\ asked \in KindSets /\ observers \in Observations /\ loaded \in Loadings
  /\ source = [k \in Fetched |-> Unread]
  /\ total = [k \in Kinds |-> 0] /\ marshalled = [k \in Kinds |-> Null]
  /\ call = NoCall /\ got = NoAnswer /\ pages = NoPages /\ dump = NoDump
  /\ wild = FALSE /\ faults = 0

Free == call.step # "fetched" /\ ~wild   \* the server's thread takes the next message or event
Idle == Free /\ call.step = "idle" /\ got = NoAnswer

-------------------------------------------------------------------------------
(* A thread ends.                                                          *)
Die(t) ==
  /\ t \in (Mortal \cap alive) \ suspended /\ alive' = alive \ {t}
  /\ UNCHANGED <<callVars, sessionVars, source, suspended, stuck, dump, wild, faults>>

-------------------------------------------------------------------------------
(* A list is asked for.                                                    *)

Answered(list, truth, why, error) ==
  got' = [list |-> list, truth |-> truth, why |-> why, error |-> error]
Refused(why) == Answered(<<>>, <<>>, call.why \cup why, TRUE) /\ call' = NoCall

Contents(kind) == IF kind = "formatters" THEN Sorted(loaded) ELSE Sorted(Crashes)

(* DoGetListL: the buffer grows until the list fits.                       *)
Fetches(who, kind, p) ==
  source' = [source EXCEPT ![kind] = [list |-> Listing(kind, p), for |-> who]]

(* The old list is gone before the new one is asked for.  The security     *)
(* server does not know a process without threads.                         *)
Ask(kind, p) ==
  /\ Idle /\ pages = NoPages /\ kind \in asked
  /\ total' = [total EXCEPT ![kind] = 0]
  /\ IF Running(p) = {}
     THEN Refused({"gone"}) /\ UNCHANGED source
     ELSE /\ Fetches("session", kind, p)
          /\ call' = [step |-> "fetched", kind |-> kind, pid |-> p, required |-> 0,
                      truth |-> Parsed(kind, Listing(kind, p)), why |-> {}]
          /\ UNCHANGED got
  /\ UNCHANGED <<asked, observers, loaded, marshalled, pages, systemVars, dump, wild, faults>>

Unfit(kind, list) == kind = "processes" /\ \E i \in DOMAIN list : Processes[list[i]] \in TooLong

(* One entry that cannot be made, for its length or for want of memory,    *)
(* and there is no list.  What has been made so far stays.                 *)
ParseFails(kind, list) ==
  /\ \/ Unfit(kind, list) /\ Refused({"long"}) /\ UNCHANGED faults
     \/ faults < MaxFaults /\ faults' = faults + 1 /\ Refused({"memory"})
  /\ \E n \in 0..Len(list) - 1 : total' = [total EXCEPT ![kind] = Estimate * n]
  /\ UNCHANGED <<marshalled, wild>>

(* The form that was sent last is deleted first; only for crashes is the   *)
(* pointer cleared.                                                        *)
Dangling(kind) == IF kind = "crashes" \/ marshalled[kind] = Null THEN Null ELSE Deleted

MarshalFails(kind, list) ==
  /\ faults < MaxFaults /\ faults' = faults + 1 /\ Refused({"memory"})
  /\ total' = [total EXCEPT ![kind] = IF kind \in Fetched THEN Estimate * Len(list) ELSE @]
  /\ marshalled' = [marshalled EXCEPT ![kind] = Dangling(kind)]
  /\ wild' = (marshalled[kind] = Deleted)

Entries(kind, list) ==
  [is |-> "list", list |-> [i \in DOMAIN list |-> [id |-> list[i], observed |-> Marked(kind, list[i])]]]

(* Mutant: the size stays the one the source has counted.                  *)
MarshalAsCounted(kind, list) ==
  /\ marshalled' = [marshalled EXCEPT ![kind] = Entries(kind, list)]
  /\ total' = [total EXCEPT ![kind] = IF kind \in Fetched THEN Estimate * Len(list) ELSE Size * Len(list)]
  /\ wild' = (marshalled[kind] = Deleted)

(* A list deleted twice is the end of what can be said of the server.      *)
Marshal(kind, list) ==
  /\ marshalled' = [marshalled EXCEPT ![kind] = Entries(kind, list)]
  /\ total' = [total EXCEPT ![kind] = Size * Len(list)]
  /\ wild' = (marshalled[kind] = Deleted)

(* The client fetches nothing when there is nothing.                       *)
Told(kind, list, truth, why) ==
  IF list = <<>> THEN Answered(<<>>, truth, why, FALSE) /\ call' = NoCall
  ELSE /\ call' = [step |-> "info", kind |-> kind, pid |-> call.pid, required |-> Size * Len(list),
                   truth |-> truth, why |-> why]
       /\ UNCHANGED got

(* The buffer is read when it has been filled: by then it can be the one   *)
(* the dump's thread has filled.                                           *)
Read(who, buffer) == IF buffer.for = who THEN Unread ELSE buffer
Raced(who, kind) == IF source[kind].for = who THEN {} ELSE {"raced"}
ListInfo ==
  /\ call.step = "fetched"
  /\ LET kind == call.kind
         list == Parsed(kind, source[kind].list)
     IN  /\ \/ ParseFails(kind, list)
            \/ ~Unfit(kind, list) /\ MarshalFails(kind, list)
            \/ /\ ~Unfit(kind, list) /\ Marshal(kind, list) /\ UNCHANGED faults
               /\ Told(kind, list, call.truth, call.why \cup Raced("session", kind))
         /\ source' = [source EXCEPT ![kind] = Read("session", @)]
  /\ UNCHANGED <<asked, observers, loaded, pages, systemVars, dump>>

ListInfoAtHand(kind) ==
  /\ Idle /\ pages = NoPages /\ kind \in asked \ Fetched
  /\ \/ MarshalFails(kind, Contents(kind))
     \/ /\ Marshal(kind, Contents(kind)) /\ UNCHANGED faults
        /\ Told(kind, Contents(kind), Contents(kind), {})
  /\ UNCHANGED <<asked, observers, loaded, pages, systemVars, source, dump>>

(* A call begins with ListInfoL, which reads nothing that the last call has*)
(* left but whether the pointer is null.                                   *)
Returns ==
  /\ got # NoAnswer /\ got' = NoAnswer
  /\ total' = [k \in Kinds |-> 0]
  /\ marshalled' = [k \in Kinds |-> [marshalled[k] EXCEPT !.list = <<>>]]
  /\ UNCHANGED <<call, pages, asked, observers, loaded, systemVars, source, dump, wild, faults>>

GetList ==
  /\ Free /\ call.step = "info"
  /\ IF call.required # total[call.kind] \/ marshalled[call.kind] = Null
     THEN Refused({})
     ELSE Answered(marshalled[call.kind].list, call.truth, call.why, FALSE) /\ call' = NoCall
  /\ UNCHANGED <<sessionVars, pages, systemVars, source, dump, wild, faults>>

-------------------------------------------------------------------------------
(* The plug-ins ECom has come in pages.                                    *)

Available == [i \in DOMAIN Formatters |-> [uid |-> Formatters[i], loaded |-> Formatters[i] \in loaded]]
Supplied(list, index) ==
  LET left == Len(list) - index IN IF left > PageSize THEN PageSize ELSE left

Page(list) ==
  LET n == Supplied(list, pages.index)
  IN  pages' = [list |-> list, index |-> pages.index + n, remaining |-> Len(list) - pages.index - n,
                told |-> pages.told \o SubSeq(list, pages.index + 1, pages.index + n)]

(* Only the request for the first page makes the list anew.                *)
GetPluginList ==
  /\ Idle /\ (pages.index = 0 \/ pages.remaining > 0)
  /\ Page(IF pages.index = 0 THEN Available ELSE pages.list)
  /\ UNCHANGED <<call, got, sessionVars, systemVars, source, dump, wild, faults>>

GotPlugins ==
  /\ Idle /\ pages.index > 0 /\ pages.remaining = 0 /\ pages' = NoPages
  /\ UNCHANGED <<call, got, sessionVars, systemVars, source, dump, wild, faults>>

-------------------------------------------------------------------------------
(* A crash is dumped.                                                      *)

(* A list that the other thread has yet to read is no more what it was.    *)
Overwritten(buffer) == IF buffer.for = "dump" THEN [buffer EXCEPT !.for = "session"] ELSE buffer
Disturbed ==
  call' = IF call.step = "info" /\ call.kind = "threads"
          THEN [call EXCEPT !.why = @ \cup {"crash"}] ELSE call
ThreadsOf(p) ==
  /\ source' = [source EXCEPT !["threads"] = Overwritten(@)]
  /\ total' = [total EXCEPT !["threads"] = Estimate * Len(Parsed("threads", Listing("threads", p)))]
  /\ Disturbed

Elements(list) == {list[i] : i \in DOMAIN list}

(* A thread that cannot be suspended ends it; those before it stay so.     *)
SuspendProcess(p) ==
  /\ Free /\ dump.step = "idle" /\ Running(p) # {} /\ ThreadsOf(p)
  /\ LET list == Parsed("threads", Listing("threads", p)) IN
     \/ /\ suspended' = suspended \cup Elements(list) /\ UNCHANGED <<stuck, faults>>
        /\ dump' = [NoDump EXCEPT !.step = "running", !.pid = p]
     \/ \E n \in 0..Len(list) - 1 :
          /\ faults < MaxFaults /\ faults' = faults + 1 /\ UNCHANGED dump
          /\ suspended' = suspended \cup Elements(SubSeq(list, 1, n))
          /\ stuck' = stuck \cup Elements(SubSeq(list, 1, n))
  /\ UNCHANGED <<got, pages, asked, observers, loaded, marshalled, alive, wild>>

(* Mutant: the main thread is forgotten.                                   *)
ResumedButMain(list) == Elements(Tail(list))
(* The main thread comes last.  An error is kept and the next thread       *)
(* resumed all the same.                                                   *)
Resumed(list) == Elements(list)
ResumeProcess ==
  /\ Free /\ dump.step = "running" /\ ThreadsOf(dump.pid)
  /\ LET list == Parsed("threads", Listing("threads", dump.pid)) IN
     \/ /\ suspended' = suspended \ Resumed(list)
        /\ stuck' = stuck \ Elements(list) /\ UNCHANGED faults
     \/ \E t \in Elements(list) :
          /\ faults < MaxFaults /\ faults' = faults + 1
          /\ suspended' = suspended \ (Resumed(list) \ {t})
          /\ stuck' = (stuck \ Elements(list)) \cup {t}
  /\ dump' = NoDump
  /\ UNCHANGED <<got, pages, asked, observers, loaded, marshalled, alive, wild>>

(* The thread that dumps asks while the server's thread does what it does. *)
DumpAsks(kind) ==
  /\ dump.step = "running" /\ ~wild /\ Fetches("dump", kind, dump.pid)
  /\ dump' = [dump EXCEPT !.step = "fetched", !.kind = kind,
                          !.truth = Parsed(kind, Listing(kind, dump.pid))]
  /\ UNCHANGED <<callVars, sessionVars, systemVars, wild, faults>>

DumpReads ==
  /\ dump.step = "fetched" /\ ~wild
  /\ dump' = [dump EXCEPT !.step = "read", !.raced = source[dump.kind].for # "dump",
                          !.truth = <<@, Parsed(dump.kind, source[dump.kind].list)>>]
  /\ source' = [source EXCEPT ![dump.kind] = Read("dump", @)]
  /\ UNCHANGED <<callVars, sessionVars, systemVars, wild, faults>>

DumpWrites ==
  /\ dump.step = "read"
  /\ dump' = [NoDump EXCEPT !.step = "running", !.pid = dump.pid]
  /\ UNCHANGED <<callVars, sessionVars, systemVars, source, wild, faults>>

Next ==
  \/ \E t \in DOMAIN Threads : Die(t)
  \/ \E p \in DOMAIN Processes \cup {All} : Ask("threads", p)
  \/ Ask("processes", All)
  \/ ListInfo
  \/ \E kind \in {"formatters", "crashes"} : ListInfoAtHand(kind)
  \/ GetList \/ Returns \/ GetPluginList \/ GotPlugins
  \/ \E p \in DOMAIN Processes : SuspendProcess(p)
  \/ ResumeProcess
  \/ \E kind \in Fetched : DumpAsks(kind)
  \/ DumpReads \/ DumpWrites

Spec == Init /\ [][Next]_vars

-------------------------------------------------------------------------------
(* Properties.                                                             *)

Foreign(x) ==
  \E e \in DOMAIN observers : e # Processes[Threads[x].pid] /\ Threads[x].name \in observers[e]
RightlyObserved(x) ==
  LET e == Processes[Threads[x].pid]
  IN  e \in DOMAIN observers /\ Threads[x].name \in observers[e]

(* A client gets the list it was told the length of, or an error that is   *)
(* no worse than: the process is gone, a name is too long, no memory, or   *)
(* the handling of a crash has come between.  The limit is "raced": the    *)
(* thread that dumps has refilled the buffer.                              *)
Whole ==
  IF got.error THEN got.why # {}
  ELSE "raced" \in got.why \/ [i \in DOMAIN got.list |-> got.list[i].id] = got.truth

(* A thread is shown as observed when it is, or a thread of another        *)
(* executable is asked for by the same name.                               *)
RightMarks ==
  ~wild => \A t \in DOMAIN Threads :
    ~Foreign(t) => (Marked("threads", t) <=> RightlyObserved(t))

(* The dump has the threads of the crashed process, unless the session has *)
(* asked the source for a list meanwhile.                                  *)
DumpsItsOwn == dump.step = "read" /\ ~dump.raced => dump.truth[1] = dump.truth[2]

(* The pages hold each plug-in once, as it was at the first page.          *)
AllPages ==
  pages.index > 0 /\ pages.remaining = 0 => pages.told = pages.list

(* When no crash is handled no thread is suspended, but for those that the *)
(* security server would not resume, or suspend.                           *)
GoesOn == dump.step = "idle" => suspended \subseteq stuck

Listed == Whole /\ RightMarks /\ DumpsItsOwn /\ AllPages /\ GoesOn
===============================================================================
