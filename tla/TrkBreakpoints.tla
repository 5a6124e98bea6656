---------------------------- MODULE TrkBreakpoints ----------------------------
(***************************************************************************)
(* The breakpoints of DMetroTrkChannel, the kernel side of the agent.  A   *)
(* thread that stands at a breakpoint of the user is resumed by disabling  *)
(* the breakpoint and planting a temporary one where the thread gets next; *)
(* when that is hit the first is planted again.  A step over a range of    *)
(* instructions is done with the same temporary breakpoints, without the   *)
(* host.                                                                   *)
(*                                                                         *)
(* The debugged threads run a loop, instructions 1..Size of which the last *)
(* branches to the first: it alone modifies the PC.  Addresses count       *)
(* instructions.                                                           *)
(*                                                                         *)
(* The scheme has limits, and a behaviour is followed until it meets one:  *)
(*   shared   two entries get the same address; clearing one of them takes *)
(*            the breakpoint instruction from the other                    *)
(*   full     no temporary breakpoint is free                              *)
(*   foreign  a thread meets an entry that is meant for another            *)
(*   target   the breakpoint of the user a step relies on to end is        *)
(*            cleared, disabled or given to another thread                 *)
(*   mixed    breakpoints for all threads and for one are disabled at once *)
(*   again    a thread suspended in its step is set going anew             *)
(*   left     a thread stops elsewhere than at its temporary breakpoint    *)
(***************************************************************************)
EXTENDS Integers, Sequences, FiniteSets, FiniteSetsExt

CONSTANTS
  Threads,   \* the debugged threads
  All,       \* DS_MSG_BREAK_THREAD_ID_ALL: the breakpoint is process wide
  Owners,    \* the threads, or All, the host sets breakpoints for
  Size,      \* number of instructions
  Temps,     \* NUMBER_OF_TEMP_BREAKPOINTS
  Buffer,    \* KMaxInstructionBuffer in instructions
  MaxUser,   \* bound: breakpoints of the user
  Lines,     \* bound: where the ranges start that the host steps over
  None

ASSUME SizeAssumption == Size \in Nat \ {0} /\ Buffer \in Nat
ASSUME TempsAssumption == Temps \in Nat \ {0} /\ MaxUser \in Nat
ASSUME LinesAssumption == Lines \subseteq 1..Size
ASSUME NamesAssumption ==
  All \notin Threads /\ None \notin Threads \cup {All} /\ Owners \subseteq Threads \cup {All}

VARIABLES
  bps,       \* iBreakPointList: .temp its first Temps entries, .user the
             \* others; .code the addresses that hold a breakpoint instruction
  pc,        \* the threads' program counters
  mode,      \* "run"; "told" when stopped and the host knows; "silent" when
             \* stopped and the host does not
  goal,      \* the address a step past a breakpoint or over a range is to get
             \* its thread to; 0 when the thread has trapped since
  stepping,  \* the range of the step the host waits for
  seen,      \* the threads that have been stopped where they stand
  overlap,   \* a step has begun while another was under way, and one still is
  spoilt     \* the limit the behaviour has met, "no" if none

vars == <<bps, pc, mode, goal, stepping, seen, overlap, spoilt>>

Addrs == 1..Size

(* Address 0 marks an entry that is free.                                  *)
Free == [addr |-> 0, thread |-> None, from |-> 0, to |-> 0, once |-> FALSE]

Init ==
  /\ bps = [user |-> <<>>, temp |-> [i \in 1..Temps |-> Free], code |-> {}]
  /\ pc = [t \in Threads |-> 1] /\ mode = [t \in Threads |-> "told"]
  /\ goal = [t \in Threads |-> 0] /\ stepping = [t \in Threads |-> None] /\ seen = Threads
  /\ overlap = FALSE /\ spoilt = "no"

-------------------------------------------------------------------------------
UserAt(b, a) == {i \in DOMAIN b.user : b.user[i].addr = a}

TempsAt(b, a) == {i \in 1..Temps : b.temp[i].addr = a}

(* Mutant: the addresses are not compared.                                 *)
DisableEveryBreak(b, a) ==
  [b EXCEPT !.user = [i \in DOMAIN b.user |-> [b.user[i] EXCEPT !.off = TRUE]],
            !.code = @ \ {b.user[i].addr : i \in DOMAIN b.user}]

DisableBreakAtAddress(b, a) ==
  [b EXCEPT !.user = [i \in DOMAIN b.user |->
                        IF i \in UserAt(b, a) THEN [b.user[i] EXCEPT !.off = TRUE]
                                              ELSE b.user[i]],
            !.code = IF UserAt(b, a) = {} THEN @ ELSE @ \ {a}]

(* Mutant: the condition the code had before, which is in a comment there. *)
EnableOwnBreak(b, t) ==
  LET off == {i \in DOMAIN b.user : b.user[i].off /\ b.user[i].owner = t}
  IN  IF off = {} THEN b
      ELSE [b EXCEPT !.user[Min(off)].off = FALSE,
                     !.code = @ \cup {b.user[Min(off)].addr}]

(* One breakpoint is planted again, the first that qualifies.              *)
DoEnableDisabledBreak(b, t) ==
  LET off == {i \in DOMAIN b.user : b.user[i].off /\ b.user[i].owner \in {t, All}}
  IN  IF off = {} THEN b
      ELSE [b EXCEPT !.user[Min(off)].off = FALSE,
                     !.code = @ \cup {b.user[Min(off)].addr}]

(* DoSetBreak of a temporary breakpoint.                                   *)
SetTemp(b, i, entry) == [b EXCEPT !.temp[i] = entry, !.code = @ \cup {entry.addr}]

(* Mutant: the code is not restored.                                       *)
ForgetTemp(b, i) == [b EXCEPT !.temp[i] = Free]

(* DoClearBreak of a temporary breakpoint.                                 *)
ClearTemp(b, i) == [b EXCEPT !.temp[i] = Free, !.code = @ \ {b.temp[i].addr}]

After(a) == IF a = Size THEN 1 ELSE a + 1

(* Mutant: instructions of the range that modify the PC are not looked for.*)
StepToEnd(a, to) == IF to - a \in 2..Buffer THEN to ELSE After(a)

(* Where a step of a thread at a is to end: at the end of the range, or at *)
(* the instruction of the range that modifies the PC, unless that is the   *)
(* one at a.                                                               *)
StepTarget(a, to) ==
  IF to - a \in 2..Buffer
  THEN IF Size \notin a..(to - 1) THEN to
       ELSE IF a = Size THEN After(a) ELSE Size
  ELSE After(a)

(* DoStepRange with ModifyBreaksForStep.                                   *)
DoStepRange(b, t, a, from, to, once) ==
  LET d == DisableBreakAtAddress(b, a)
      x == StepTarget(a, to)
      free == TempsAt(d, 0)
      trouble ==
        IF \E i \in UserAt(b, a) : b.user[i].owner \notin {t, All} THEN "foreign"
        ELSE IF UserAt(b, a) # {} /\ \E u \in Threads \ {t} : goal[u] = a THEN "target"
        ELSE IF \E i \in UserAt(d, x) :
                  d.user[i].off \/ d.user[i].owner \notin {t, All} THEN "target"
        ELSE IF \E i, j \in DOMAIN d.user :
                  /\ d.user[i].off /\ d.user[i].owner = All
                  /\ d.user[j].off /\ d.user[j].owner # All THEN "mixed"
        ELSE IF UserAt(d, x) # {} THEN "no"
        ELSE IF free = {} THEN "full"
        ELSE IF TempsAt(d, x) # {} THEN "shared" ELSE "no"
  IN  IF UserAt(d, x) # {} THEN [bps |-> d, ok |-> TRUE, goal |-> x, trouble |-> trouble]
      ELSE IF free = {} THEN [bps |-> d, ok |-> FALSE, goal |-> 0, trouble |-> trouble]
      ELSE [bps |-> SetTemp(d, Min(free),
                      [addr |-> x, thread |-> t, from |-> from, to |-> to, once |-> once]),
            ok |-> TRUE, goal |-> x, trouble |-> trouble]

(* A thread at a breakpoint of the user is made to step past it.           *)
DoResumeThread(b, t, a) ==
  IF UserAt(b, a) # {} THEN DoStepRange(b, t, a, a, a + 1, TRUE)
  ELSE [bps |-> b, ok |-> TRUE, goal |-> 0, trouble |-> "no"]

-------------------------------------------------------------------------------
(* The record of what the host may expect.  No behaviour goes on beyond a  *)
(* limit.                                                                  *)
Track(goals, ranges, stopped, trouble) ==
  /\ spoilt = "no" /\ spoilt' = trouble
  /\ IF trouble = "no"
     THEN /\ goal' = goals /\ stepping' = ranges /\ seen' = stopped
          /\ LET steps == {t \in Threads : goals[t] # 0}
             IN  overlap' = (Cardinality(steps) > 1 \/ (overlap /\ steps # {}))
     ELSE /\ goal' = [t \in Threads |-> 0] /\ stepping' = [t \in Threads |-> None]
          /\ seen' = {} /\ overlap' = FALSE

Either(first, second) == IF first = "no" THEN second ELSE first

(* The threads.                                                            *)

Execute(t) ==
  /\ mode[t] = "run" /\ pc[t] \notin bps.code
  /\ pc' = [pc EXCEPT ![t] = After(pc[t])]
  /\ Track(goal, stepping, seen \ {t}, "no")
  /\ UNCHANGED <<bps, mode>>

(* The thread goes on, or stays suspended when there is no way to make it. *)
GoOn(t, r, trouble) ==
  /\ bps' = r.bps
  /\ mode' = [mode EXCEPT ![t] = IF r.ok THEN "run" ELSE "silent"]
  /\ Track([goal EXCEPT ![t] = r.goal], stepping, seen, Either(trouble, r.trouble))
  /\ UNCHANGED pc

(* NotifyEvent                                                             *)
Report(t, b) ==
  /\ bps' = b
  /\ mode' = [mode EXCEPT ![t] = "told"]
  /\ Track([goal EXCEPT ![t] = 0], [stepping EXCEPT ![t] = None], seen \cup {t},
           IF \E i \in 1..Temps : b.temp[i].thread = t THEN "left" ELSE "no")
  /\ UNCHANGED pc

(* The rest of a step that has not left its range; if it cannot be done    *)
(* the thread is resumed.                                                  *)
StepOn(b, t, x) ==
  LET r == DoStepRange(b, t, pc[t], x.from, x.to, x.once)
  IN  IF r.ok THEN r ELSE [DoResumeThread(r.bps, t, pc[t]) EXCEPT !.trouble = r.trouble]

(* HandleException for a temporary breakpoint, which any thread may hit.   *)
TempHit(t) ==
  /\ mode[t] = "run" /\ pc[t] \in bps.code /\ TempsAt(bps, pc[t]) # {}
  /\ \E i \in {Min(TempsAt(bps, pc[t]))} :
     \E b \in {ClearTemp(DoEnableDisabledBreak(bps, t), i)} :
       LET x == bps.temp[i]
           whose == IF x.thread = t THEN "no" ELSE "foreign"
       IN  IF pc[t] > x.from /\ pc[t] < x.to
           THEN \E r \in {StepOn(b, t, x)} : GoOn(t, r, whose)
           ELSE IF x.once \/ x.thread # t
           THEN \E r \in {DoResumeThread(b, t, pc[t])} : GoOn(t, r, whose)
           ELSE Report(t, b)

(* HandleException for a breakpoint of the user.                           *)
UserHit(t) ==
  /\ mode[t] = "run" /\ pc[t] \in bps.code /\ TempsAt(bps, pc[t]) = {}
  /\ \E b \in {DoEnableDisabledBreak(bps, t)} :
       IF \E i \in UserAt(bps, pc[t]) : bps.user[i].owner \notin {t, All}
       THEN \E r \in {DoResumeThread(b, t, pc[t])} : GoOn(t, r, "no")
       ELSE Report(t, b)

-------------------------------------------------------------------------------
(* Commands of the host.                                                   *)

Again(t) == IF goal[t] # 0 THEN "again" ELSE "no"

(* A command that sets a thread going, or fails and leaves it stopped.     *)
Command(t, r, range) ==
  /\ bps' = r.bps
  /\ mode' = [mode EXCEPT ![t] = IF r.ok THEN "run" ELSE "told"]
  /\ Track([goal EXCEPT ![t] = IF r.goal = 0 THEN @ ELSE r.goal],
           [stepping EXCEPT ![t] = range], seen, Either(Again(t), r.trouble))
  /\ UNCHANGED pc

Continue(t) ==
  /\ mode[t] = "told"
  /\ Command(t, DoResumeThread(bps, t, pc[t]), None)

StepRange(t, from, to) ==
  /\ mode[t] = "told" /\ pc[t] \in from..(to - 1)
  /\ Command(t, DoStepRange(bps, t, pc[t], from, to, FALSE), <<from, to>>)

DoSuspendThread(t) ==
  /\ mode[t] # "told"
  /\ mode' = [mode EXCEPT ![t] = "told"]
  /\ Track(goal, [stepping EXCEPT ![t] = None], seen \cup {t}, "no")
  /\ UNCHANGED <<bps, pc>>

DoSetBreak(owner, a) ==
  /\ UserAt(bps, a) = {} /\ Len(bps.user) < MaxUser
  /\ bps' = [bps EXCEPT !.user = Append(@, [addr |-> a, owner |-> owner, off |-> FALSE]),
                        !.code = @ \cup {a}]
  /\ Track(goal, stepping, seen, IF TempsAt(bps, a) # {} THEN "shared" ELSE "no")
  /\ UNCHANGED <<pc, mode>>

(* A thread may be on its way to the breakpoint.                           *)
Target(i) == IF \E t \in Threads : goal[t] = bps.user[i].addr THEN "target" ELSE "no"

DoClearBreak(i) ==
  /\ bps' = [bps EXCEPT !.user = SubSeq(@, 1, i - 1) \o SubSeq(@, i + 1, Len(@)),
                        !.code = @ \ {bps.user[i].addr}]
  /\ Track(goal, stepping, seen, Target(i))
  /\ UNCHANGED <<pc, mode>>

(* iThreadId changes, iThreadSpecific does not: a process-wide breakpoint  *)
(* stays one.                                                              *)
DoChangeBreakThread(i, t) ==
  /\ bps.user[i].owner \notin {t, All}
  /\ bps' = [bps EXCEPT !.user[i].owner = t]
  /\ Track(goal, stepping, seen, Either(IF bps.user[i].off THEN "foreign" ELSE "no", Target(i)))
  /\ UNCHANGED <<pc, mode>>

-------------------------------------------------------------------------------
Next ==
  \/ \E t \in Threads :
       \/ Execute(t) \/ TempHit(t) \/ UserHit(t)
       \/ Continue(t) \/ DoSuspendThread(t)
       \/ \E from \in Lines, to \in 2..(Size + 1) : StepRange(t, from, to)
  \/ \E owner \in Owners, a \in Addrs : DoSetBreak(owner, a)
  \/ \E i \in DOMAIN bps.user :
       DoClearBreak(i) \/ \E t \in Threads : DoChangeBreakThread(i, t)

Spec == Init /\ [][Next]_vars

-------------------------------------------------------------------------------
UserEntries == [addr : Addrs, owner : Threads \cup {All}, off : BOOLEAN]
TempEntries == [addr : 0..Size, thread : Threads \cup {None}, from : 0..Size,
                to : 0..(Size + 1), once : BOOLEAN]

Books == [user : Seq(UserEntries), temp : [1..Temps -> TempEntries], code : SUBSET Addrs]

Limits == {"no", "shared", "full", "foreign", "target", "mixed", "again", "left"}

TypeOK ==
  /\ bps \in Books /\ Len(bps.user) <= MaxUser
  /\ pc \in [Threads -> Addrs] /\ mode \in [Threads -> {"run", "told", "silent"}]
  /\ goal \in [Threads -> 0..Size] /\ seen \subseteq Threads /\ overlap \in BOOLEAN
  /\ stepping \in [Threads -> {None} \cup (Addrs \X (2..(Size + 1)))]
  /\ spoilt \in Limits

Off == {i \in DOMAIN bps.user : bps.user[i].off}

(* The code holds a breakpoint instruction exactly where an entry of       *)
(* iBreakPointList that is not disabled wants one.                         *)
PlantedExactly ==
  spoilt = "no" =>
    bps.code = {bps.user[i].addr : i \in DOMAIN bps.user \ Off}
                 \cup ({bps.temp[i].addr : i \in 1..Temps} \ {0})

(* No more breakpoints are disabled than threads are on a step: although   *)
(* a trap plants one of them only, none is forgotten.                      *)
DisabledForAStep ==
  spoilt = "no" => Cardinality(Off) <= Cardinality({t \in Threads : goal[t] # 0})

(* A thread executes the instruction at a breakpoint meant for it only     *)
(* after it has been stopped there, unless another thread is on a step,    *)
(* for whose sake the breakpoint may be disabled, or has been on one that  *)
(* overlapped with a step still under way.                                 *)
NoMissedBreakpoint ==
  [][\A t \in Threads :
       pc'[t] # pc[t] /\ t \notin seen /\ ~overlap /\ (\A u \in Threads \ {t} : goal[u] = 0)
         => \A i \in UserAt(bps, pc[t]) : bps.user[i].owner \notin {t, All}]_vars

(* A thread on a step the host has asked for executes instructions of its  *)
(* range only.                                                             *)
StepStaysInRange ==
  [][\A t \in Threads :
       pc'[t] # pc[t] /\ stepping[t] # None
         => pc[t] \in stepping[t][1]..(stepping[t][2] - 1)]_vars
===============================================================================
