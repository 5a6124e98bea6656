--------------------------- MODULE TrkKernelEvents ---------------------------
(***************************************************************************)
(* How an event of a debugged thread reaches the TRK agent: the handlers   *)
(* of DMetroTrkEventHandler and NotifyEvent run in the debugged threads,   *)
(* DoRequest, DoCancel and DoControl in the driver's DFC thread, RunL of   *)
(* CEventTrapper in the agent.  The agent waits while the DFC thread works *)
(* for it, so the two are one sequence of steps, "agent" below.  iLock     *)
(* keeps most handlers apart; the agent's side does not take it, and       *)
(* HandleEventKillThread does not either.  Every thread may be preempted   *)
(* by any other.                                                           *)
(*                                                                         *)
(* Kinds of events: "stop" for what suspends its thread (exceptions,       *)
(* breakpoints, ELibraryLoaded, EProcessAdded), "unload" for               *)
(* ELibraryUnloaded, "trace" for EUserTrace, "panic" for EThreadPanic.     *)
(***************************************************************************)
EXTENDS Naturals, Sequences, FiniteSets

CONSTANTS
  Threads,    \* the debugged threads
  Slots,      \* NUMBER_OF_EVENTS_TO_QUEUE: 50 in the code
  Kinds,      \* the kinds of events the threads raise
  MaxEvents,  \* bound: events raised in a behaviour
  NoThread    \* what iLock holds when it is free

ASSUME SlotsAssumption == Slots \in Nat \ {0}
ASSUME KindsAssumption == Kinds \subseteq {"stop", "unload", "trace", "panic"}
ASSUME NoThreadAssumption == NoThread \notin Threads /\ MaxEvents \in Nat

VARIABLES
  pc,         \* where each debugged thread is in its handler
  event,      \* the event each thread is handling
  slot,       \* the free slot a handler found for its event
  lock,       \* the thread that holds iLock
  suspended,  \* the threads that Kern::ThreadSuspend holds
  frozen,     \* iFrozenThreadSemaphores: the owners, in order
  infoPtr,    \* iEventInfo # NULL
  statusPtr,  \* iRequestGetEventStatus # NULL
  queue,      \* iEventQueue
  traces,     \* iTraceEventQueue
  agent,      \* what the agent does
  scanAt,     \* DoRequest: the slot it looks at, trace slots after the others
  buf,        \* CEventTrapper::iEventInfo
  signals,    \* completions of the agent's request it has not consumed
  owed,       \* iSuspendedThreadList: stops the host was told of
  raised,     \* number of events raised
  told,       \* the events the agent handled, in order
  dropped,    \* the events that found no free slot
  missed      \* history: the events that came behind the agent's back

handlerVars == <<pc, event, slot, lock, suspended, frozen>>
channelVars == <<infoPtr, statusPtr, queue, traces>>
agentVars == <<agent, scanAt, buf, owed, told>>
lossVars == <<dropped, missed>>
vars == <<handlerVars, channelVars, agentVars, signals, raised, lossVars>>

NoEvent == [of |-> NoThread, n |-> 0, kind |-> "unknown"]

EmptyQueue == [i \in 1..Slots |-> NoEvent]

(* Where DoRequest is still to look: everywhere once its request is        *)
(* completed, as RunL asks again, and ahead of the slot it is at.          *)
ToScan(place) == signals > 0 \/ (agent = "scan" /\ scanAt <= place)

Init ==
  /\ pc = [t \in Threads |-> "run"]
  /\ event = [t \in Threads |-> NoEvent]
  /\ slot = [t \in Threads |-> 0]
  /\ lock = NoThread /\ suspended = {} /\ frozen = <<>>
  /\ infoPtr = FALSE /\ statusPtr = FALSE
  /\ queue = EmptyQueue /\ traces = EmptyQueue
  /\ agent = "scan" /\ scanAt = 1 /\ buf = NoEvent /\ signals = 0
  /\ owed = {} /\ raised = 0 /\ told = <<>> /\ dropped = {} /\ missed = {}

-------------------------------------------------------------------------------
(* The debugged threads.                                                   *)

At(t, here, next) == pc[t] = here /\ pc' = [pc EXCEPT ![t] = next]

(* The kernel calls HandleEvent in the thread; Stop() ends the tracking.   *)
(* HandleEventKillThread goes straight to work, the others wait for iLock. *)
Raise(t) ==
  \E k \in Kinds :
    /\ t \notin suspended /\ raised < MaxEvents /\ agent # "closed"
    /\ At(t, "run", IF k = "panic" THEN "notify" ELSE "lock")
    /\ raised' = raised + 1
    /\ event' = [event EXCEPT ![t] = [of |-> t, n |-> raised + 1, kind |-> k]]
    /\ frozen' = IF k = "panic" THEN Append(frozen, t) ELSE frozen
    /\ UNCHANGED <<slot, lock, suspended, channelVars, agentVars, signals, lossVars>>

(* Mutant: HandleSwException forgets to suspend the thread.                *)
AcquireOnly(t) ==
  /\ lock = NoThread /\ lock' = t
  /\ At(t, "lock", "notify")
  /\ UNCHANGED <<event, slot, suspended, frozen, channelVars, agentVars, signals, raised, lossVars>>

(* Kern::SemaphoreWait on iLock; a stop suspends its thread.               *)
Acquire(t) ==
  /\ lock = NoThread /\ lock' = t
  /\ At(t, "lock", "notify")
  /\ suspended' = IF event[t].kind = "stop" THEN suspended \cup {t} ELSE suspended
  /\ UNCHANGED <<event, slot, frozen, channelVars, agentVars, signals, raised, lossVars>>

(* NotifyEvent: is the agent waiting for an event?                         *)
Notify(t) ==
  /\ At(t, "notify", IF infoPtr THEN "write" ELSE "pick")
  /\ UNCHANGED <<event, slot, lock, suspended, frozen, channelVars, agentVars,
                 signals, raised, lossVars>>

(* ThreadRawWrite into the agent's buffer, which fails if a concurrent     *)
(* DoCancel or NotifyEvent has cleared iEventInfo; the error is ignored.   *)
Write(t) ==
  /\ At(t, "write", "clear")
  /\ buf' = IF infoPtr THEN event[t] ELSE buf
  /\ UNCHANGED <<event, slot, lock, suspended, frozen, channelVars,
                 agent, scanAt, owed, told, signals, raised, lossVars>>

Clear(t) ==
  /\ At(t, "clear", "complete")
  /\ infoPtr' = FALSE
  /\ UNCHANGED <<event, slot, lock, suspended, frozen, statusPtr, queue, traces,
                 agentVars, signals, raised, lossVars>>

(* Kern::RequestComplete exchanges the status pointer with NULL and does   *)
(* nothing when it was NULL already: the agent that is about to store it   *)
(* is not woken, now or later.                                             *)
Complete(t) ==
  /\ At(t, "complete", "leave")
  /\ signals' = IF statusPtr THEN signals + 1 ELSE signals
  /\ statusPtr' = FALSE
  /\ missed' = IF agent = "storeStatus" THEN missed \cup {event[t]} ELSE missed
  /\ UNCHANGED <<event, slot, lock, suspended, frozen, infoPtr, queue, traces,
                 agentVars, raised, dropped>>

QueueFor(e) == IF e.kind = "trace" THEN traces ELSE queue

(* NotifyEvent: the first free slot of the queue; without one the event is *)
(* dropped and nobody is told.                                             *)
Pick(t) ==
  LET free == {i \in 1..Slots : QueueFor(event[t])[i] = NoEvent}
  IN  \/ /\ free # {}
         /\ At(t, "pick", "fill")
         /\ slot' = [slot EXCEPT ![t] = CHOOSE i \in free : \A j \in free : i <= j]
         /\ UNCHANGED <<event, lock, suspended, frozen, channelVars, agentVars,
                        signals, raised, lossVars>>
      \/ /\ free = {}
         /\ At(t, "pick", "leave")
         /\ dropped' = dropped \cup {event[t]}
         /\ UNCHANGED <<event, slot, lock, suspended, frozen, channelVars, agentVars,
                        signals, raised, missed>>

Place(t) == IF event[t].kind = "trace" THEN Slots + slot[t] ELSE slot[t]

(* The slot is filled, but the agent is not woken: if it has passed this   *)
(* slot it does not learn of the event before another one wakes it.        *)
Fill(t) ==
  /\ At(t, "fill", "leave")
  /\ missed' = IF ToScan(Place(t)) THEN missed ELSE missed \cup {event[t]}
  /\ IF event[t].kind = "trace"
     THEN traces' = [traces EXCEPT ![slot[t]] = event[t]] /\ queue' = queue
     ELSE queue' = [queue EXCEPT ![slot[t]] = event[t]] /\ traces' = traces
  /\ UNCHANGED <<event, slot, lock, suspended, frozen, infoPtr, statusPtr,
                 agentVars, signals, raised, dropped>>

(* SemaphoreSignal on iLock; a panicking thread waits on a semaphore       *)
(* that DoResumeThread may have signalled  and deleted by then: FSWait on  *)
(* freed memory returns or blocks.                                         *)
Leave(t) ==
  /\ IF event[t].kind = "panic"
     THEN /\ \E next \in {"frozen", "dead"} :
               /\ At(t, "leave", next)
               /\ next = "dead" => ~\E i \in 1..Len(frozen) : frozen[i] = t
          /\ lock' = lock
     ELSE At(t, "leave", "run") /\ lock' = NoThread
  /\ event' = [event EXCEPT ![t] = NoEvent]
  /\ slot' = [slot EXCEPT ![t] = 0]
  /\ UNCHANGED <<suspended, frozen, channelVars, agentVars, signals, raised, lossVars>>

Handle(t) == \/ Acquire(t) \/ Notify(t) \/ Write(t) \/ Clear(t) \/ Complete(t)
             \/ Pick(t) \/ Fill(t) \/ Leave(t)

-------------------------------------------------------------------------------
(* The agent and, on its behalf, the DFC thread.                           *)

Scanned == IF scanAt <= Slots THEN queue[scanAt] ELSE traces[scanAt - Slots]

(* Mutant: the event is delivered and stays in its slot.                   *)
ScanKeepsEvent ==
  /\ agent = "scan" /\ Scanned # NoEvent
  /\ buf' = Scanned /\ signals' = signals + 1 /\ agent' = "wait"
  /\ UNCHANGED <<handlerVars, channelVars, scanAt, owed, told, raised, lossVars>>

(* DoRequest: a slot that holds an event ends the request at once.         *)
ScanFound ==
  /\ agent = "scan" /\ Scanned # NoEvent
  /\ buf' = Scanned /\ signals' = signals + 1 /\ agent' = "wait"
  /\ IF scanAt <= Slots
     THEN queue' = [queue EXCEPT ![scanAt] = NoEvent] /\ traces' = traces
     ELSE traces' = [traces EXCEPT ![scanAt - Slots] = NoEvent] /\ queue' = queue
  /\ UNCHANGED <<handlerVars, infoPtr, statusPtr, scanAt, owed, told, raised, lossVars>>

ScanEmpty ==
  /\ agent = "scan" /\ Scanned = NoEvent
  /\ IF scanAt < 2 * Slots THEN scanAt' = scanAt + 1 /\ agent' = agent
                           ELSE scanAt' = scanAt /\ agent' = "store"
  /\ UNCHANGED <<handlerVars, channelVars, buf, owed, told, signals, raised, lossVars>>

(* DoRequest stores the two pointers, iEventInfo first.                    *)
StoreInfo ==
  /\ agent = "store" /\ agent' = "storeStatus" /\ infoPtr' = TRUE
  /\ UNCHANGED <<handlerVars, statusPtr, queue, traces, scanAt, buf, owed, told,
                 signals, raised, lossVars>>

StoreStatus ==
  /\ agent = "storeStatus" /\ agent' = "wait" /\ statusPtr' = TRUE
  /\ UNCHANGED <<handlerVars, infoPtr, queue, traces, scanAt, buf, owed, told,
                 signals, raised, lossVars>>

(* Mutant: RunL returns without the call of Watch.                         *)
RunWithoutWatch ==
  /\ agent = "wait" /\ signals > 0 /\ signals' = signals - 1
  /\ agent' = agent /\ buf' = NoEvent /\ told' = Append(told, buf)
  /\ UNCHANGED <<handlerVars, channelVars, scanAt, owed, raised, lossVars>>

(* RunL: report the event to the host, reset the buffer and Watch again.   *)
(* A buffer of type EUnknown panics the agent.                             *)
Run ==
  /\ agent = "wait" /\ signals > 0 /\ signals' = signals - 1
  /\ IF buf = NoEvent
     THEN agent' = "panicked" /\ UNCHANGED <<scanAt, told, owed>>
     ELSE /\ agent' = "scan" /\ scanAt' = 1
          /\ told' = Append(told, buf)
          /\ owed' = IF buf.kind \in {"stop", "panic"} THEN owed \cup {buf.of} ELSE owed
  /\ buf' = NoEvent /\ missed' = {}
  /\ UNCHANGED <<handlerVars, channelVars, raised, dropped>>

FirstOf(t) == CHOOSE i \in 1..Len(frozen) : frozen[i] = t /\ \A j \in 1..(i - 1) : frozen[j] # t

IsFrozen(t) == \E i \in 1..Len(frozen) : frozen[i] = t

Without(seq, i) == SubSeq(seq, 1, i - 1) \o SubSeq(seq, i + 1, Len(seq))

(* Mutant: the thread leaves the list and is not resumed.                  *)
ContinueListOnly(t) ==
  /\ agent = "wait" /\ t \in owed /\ owed' = owed \ {t}
  /\ UNCHANGED <<handlerVars, channelVars, agent, scanAt, buf, told, signals, raised, lossVars>>

(* DoContinueL and DoResumeThread: signal the semaphore of a frozen thread *)
(* and delete it, resume any other thread.                                 *)
Continue(t) ==
  /\ agent = "wait" /\ t \in owed /\ owed' = owed \ {t}
  /\ IF IsFrozen(t)
     THEN /\ frozen' = Without(frozen, FirstOf(t))
          /\ pc' = IF pc[t] = "frozen" THEN [pc EXCEPT ![t] = "dead"] ELSE pc
          /\ suspended' = suspended
     ELSE suspended' = suspended \ {t} /\ UNCHANGED <<pc, frozen>>
  /\ UNCHANGED <<event, slot, lock, channelVars, agent, scanAt, buf, told,
                 signals, raised, lossVars>>

(* DoDisconnectL deletes the event trapper: DoCancel completes the pending *)
(* request with KErrCancel and Cancel consumes the completion.             *)
Disconnect ==
  /\ agent = "wait" /\ agent' = "cancelled"
  /\ infoPtr' = FALSE /\ statusPtr' = FALSE /\ signals' = 0
  /\ UNCHANGED <<handlerVars, queue, traces, scanAt, buf, owed, told, raised, lossVars>>

(* The destructor signals a semaphore, removes it and moves its index on,  *)
(* so it skips every other one; those are deleted without a signal.        *)
Unfrozen == {frozen[i] : i \in {j \in 1..Len(frozen) : j % 2 = 1}}

(* iKernelDriver.Close(), when no handler is half way.  A handler that is  *)
(* would go on with a deleted channel, which is not modelled.              *)
Close ==
  /\ agent = "cancelled" /\ \A t \in Threads : pc[t] \in {"run", "frozen", "dead"}
  /\ agent' = "closed"
  /\ pc' = [t \in Threads |-> IF t \in Unfrozen THEN "dead" ELSE pc[t]]
  /\ frozen' = <<>> /\ queue' = EmptyQueue /\ traces' = EmptyQueue
  /\ UNCHANGED <<event, slot, lock, suspended, infoPtr, statusPtr, scanAt, buf, owed,
                 told, signals, raised, lossVars>>

Request == ScanFound \/ ScanEmpty \/ StoreInfo \/ StoreStatus \/ Run

Next == \/ \E t \in Threads : Raise(t) \/ Handle(t) \/ Continue(t)
        \/ Request \/ Disconnect \/ Close

Spec == Init /\ [][Next]_vars

(* The kernel schedules every thread that is ready, the agent's active     *)
(* scheduler runs a completed request.  Nobody has to raise an event, and  *)
(* the host need not continue a thread or disconnect.                      *)
FairSpec == Spec /\ WF_vars(Request) /\ \A t \in Threads : WF_vars(Handle(t))

-------------------------------------------------------------------------------
Events == [of : Threads, n : 1..MaxEvents, kind : Kinds]
MaybeEvents == Events \cup {NoEvent}
Steps == {"run", "lock", "notify", "write", "clear", "complete", "pick", "fill",
          "leave", "frozen", "dead"}

(* Types; and the agent's request is completed once at most before RunL    *)
(* runs again, or the agent dies of a stray signal.                        *)
TypeOK ==
  /\ pc \in [Threads -> Steps] /\ event \in [Threads -> MaybeEvents]
  /\ slot \in [Threads -> 0..Slots]
  /\ lock \in Threads \cup {NoThread} /\ suspended \subseteq Threads
  /\ frozen \in Seq(Threads)
  /\ infoPtr \in BOOLEAN /\ statusPtr \in BOOLEAN
  /\ queue \in [1..Slots -> MaybeEvents] /\ traces \in [1..Slots -> MaybeEvents]
  /\ agent \in {"scan", "store", "storeStatus", "wait", "panicked", "cancelled", "closed"}
  /\ scanAt \in 1..(2 * Slots) /\ buf \in MaybeEvents /\ signals \in {0, 1}
  /\ owed \subseteq Threads /\ raised \in 0..MaxEvents
  /\ told \in Seq(Events) /\ dropped \subseteq Events /\ missed \subseteq Events

Told == {told[i] : i \in 1..Len(told)}

Queued == {queue[i] : i \in 1..Slots} \cup {traces[i] : i \in 1..Slots}

(* Steps at which the handler has still to pass its event on, or to wake   *)
(* the agent that it has passed it to.                                     *)
InHand == {event[t] : t \in {u \in Threads :
             pc[u] \in {"lock", "notify", "write", "clear", "complete", "pick", "fill"}}}

(* What the agent gets without another event: from a handler at work, from *)
(* the buffer of a completed request, from a slot it has still to look at. *)
Coming ==
  InHand \cup (IF signals > 0 THEN {buf} ELSE {})
    \cup {queue[i] : i \in {j \in 1..Slots : ToScan(j)}}
    \cup {traces[i] : i \in {j \in 1..Slots : ToScan(Slots + j)}}

Listening == agent \in {"scan", "store", "storeStatus", "wait"}

(* A suspended thread's stop is on its way to an agent that is or will be  *)
(* awake, or the host was told of it and has not answered.  There are two  *)
(* exceptions, and no others: a full queue dropped it; or it came behind   *)
(* the agent's back, into a slot that DoRequest had passed or between the  *)
(* stores of its two pointers, and no signal was or will be sent for it.   *)
StopAccounted ==
  Listening =>
    \A t \in suspended :
      t \in owed \/ \E e \in Coming \cup dropped \cup missed : e.of = t /\ e.kind = "stop"

(* Every event reaches the agent at most once, and the stops of a thread   *)
(* in the order in which they happened, although the slots are no queue.   *)
ToldInOrder ==
  \A i, j \in 1..Len(told) : i < j =>
    /\ told[i] # told[j]
    /\ told[i].of = told[j].of /\ told[i].kind = "stop" /\ told[j].kind = "stop"
         => told[i].n < told[j].n

(* What is in the slots when the agent starts to look for an event is told *)
(* to the host in the end, unless the session is ended.                    *)
BacklogDrained ==
  \A n \in 1..MaxEvents :
    (agent = "scan" /\ scanAt = 1 /\ \E e \in Queued : e.n = n)
      ~> ((\E e \in Told : e.n = n) \/ ~Listening)

===============================================================================
