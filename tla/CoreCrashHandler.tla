--------------------------- MODULE CoreCrashHandler ---------------------------
(***************************************************************************)
(* The core dump server: CTargetObserver receives the crash events of the  *)
(* observed threads from the debug security server (DSS), CCoreDumpSession *)
(* the requests to process crash logs kept in flash, and CCrashHandler     *)
(* queues both and lets one formatter plug-in after the other dump each    *)
(* crash in a thread of its own.  The server's active objects run one at a *)
(* time; "step" is where the running one has got to, for the crashed       *)
(* threads, DSS and the formatter's thread run meanwhile.                  *)
(*                                                                         *)
(* The actions before and after a dump are the default ones, ESuspendThread*)
(* and EResumeThread.                                                      *)
(***************************************************************************)
EXTENDS Naturals, Sequences, FiniteSets

CONSTANTS
  Threads,     \* threads of the observed executable
  Watched,     \* the threads the client named: those whose crashes it wants
  Logs,        \* crash logs in flash
  Formatters,  \* most formatters that are loaded and paired with a writer
  LiveOnly,    \* formatters that refuse crash logs: SELF v1, D_EXC
  MayFail,     \* may a plug-in, the flash or the kernel fail a call?
  MaxCrashes,  \* bound: crashes in a behaviour
  MaxRequests, \* bound: requests of the client
  None

ASSUME FormattersAssumption == Formatters \in Nat /\ LiveOnly \subseteq 1..Formatters
ASSUME WatchedAssumption == Watched \subseteq Threads /\ MayFail \in BOOLEAN
ASSUME BoundsAssumption == MaxCrashes \in Nat /\ MaxRequests \in Nat
ASSUME NamesAssumption == Threads \cap Logs = {} /\ None \notin Threads \cup Logs

VARIABLES
  life,       \* what a thread is doing: "alive", "exc" after an exception,
              \* "dying" after a panic or an exception nobody handled, "gone"
  suspended,  \* the threads DSS has suspended
  crashNo,    \* the number of each thread's latest crash
  crashes,    \* number of crashes so far
  pending,    \* events DSS has not delivered
  armed,      \* GetEvent is outstanding
  signal,     \* GetEvent has completed, CTargetObserver::RunL is due
  buf,        \* CTargetObserver::iCrashEventInfo
  step,       \* where the running active object is, "idle" if none runs
  caller,     \* the active object at the bottom of the running call
  after,      \* the step that follows StartThreadL
  live,       \* iRemainingEvents
  flash,      \* iRemainingFlashCrashEvents
  tids,       \* iTids: how often each thread is in it
  runs,       \* iThreadsRun
  thread,     \* the formatter's thread: "none", "up", "dumping", "over", or
              \* "stale" when its handle is never closed
  crash,      \* iParams.iCrashInfo
  formatter,  \* iParams.iFormatter
  loaded,     \* number of formatters that are loaded and paired
  msg,        \* iMessage
  requests,   \* number of requests so far
  answered,   \* the asynchronous requests completed
  cancelled,  \* the client has cancelled a request
  dumping,    \* the crash the formatter's thread reads
  dumped,     \* the dumps made
  clobbered,  \* DSS has overwritten an event the observer had not used
  mixed,      \* RunL has gone on to a crash log with a live crash under way
  failed      \* a call of the handler has left

worldVars == <<life, suspended, crashNo, crashes>>
observerVars == <<pending, armed, signal, buf, clobbered>>
queueVars == <<live, flash, tids>>
clientVars == <<msg, requests, answered, cancelled>>
dumpVars == <<thread, dumping, dumped>>
vars == <<worldVars, observerVars, queueVars, clientVars, dumpVars,
          step, caller, after, runs, crash, formatter, loaded, mixed, failed>>

NoCrash == [of |-> None, n |-> 0, kind |-> "none"]

Init ==
  /\ life = [t \in Threads |-> "alive"] /\ suspended = {}
  /\ crashNo = [t \in Threads |-> 0] /\ crashes = 0
  /\ pending = <<>> /\ armed = TRUE /\ signal = FALSE /\ buf = NoCrash
  /\ step = "idle" /\ caller = None /\ after = "idle"
  /\ live = <<>> /\ flash = <<>> /\ tids = [t \in Threads |-> 0]
  /\ runs = 0 /\ thread = "none" /\ crash = NoCrash /\ formatter = 0 /\ loaded = 0
  /\ msg = 0 /\ requests = 0 /\ answered = {} /\ cancelled = FALSE
  /\ dumping = NoCrash /\ dumped = {} /\ clobbered = FALSE /\ mixed = FALSE /\ failed = FALSE

-------------------------------------------------------------------------------
(* The observed threads and DSS.                                           *)

Raised(t, kind, n) ==
  /\ suspended' = suspended \cup {t}
  /\ crashNo' = [crashNo EXCEPT ![t] = n] /\ crashes' = IF n > crashes THEN n ELSE crashes
  /\ pending' = Append(pending, [of |-> t, n |-> n, kind |-> kind])
  /\ UNCHANGED <<armed, signal, buf, clobbered, queueVars, clientVars, dumpVars,
                 step, caller, after, runs, crash, formatter, loaded, mixed, failed>>

Except(t) ==
  /\ life[t] = "alive" /\ t \notin suspended /\ crashes < MaxCrashes
  /\ life' = [life EXCEPT ![t] = "exc"]
  /\ Raised(t, "exc", crashes + 1)

(* A panic; or the kernel ends a thread whose exception nobody handles,    *)
(* which is the same crash.                                                *)
Kill(t) ==
  /\ t \notin suspended
  /\ life' = [life EXCEPT ![t] = "dying"]
  /\ \/ life[t] = "alive" /\ crashes < MaxCrashes /\ Raised(t, "kill", crashes + 1)
     \/ life[t] = "exc" /\ Raised(t, "kill", crashNo[t])

(* The thread handles its exception.                                       *)
Recover(t) ==
  /\ life[t] = "exc" /\ t \notin suspended
  /\ life' = [life EXCEPT ![t] = "alive"]
  /\ UNCHANGED <<suspended, crashNo, crashes, observerVars, queueVars, clientVars,
                 dumpVars, step, caller, after, runs, crash, formatter, loaded, mixed, failed>>

(* The process of a suspended thread ends.                                 *)
Die(t) ==
  /\ t \in suspended
  /\ life' = [life EXCEPT ![t] = "gone"] /\ suspended' = suspended \ {t}
  /\ UNCHANGED <<crashNo, crashes, observerVars, queueVars, clientVars, dumpVars,
                 step, caller, after, runs, crash, formatter, loaded, mixed, failed>>

(* RSecuritySvrSession::ResumeThread                                       *)
Resume(t) ==
  /\ suspended' = suspended \ {t}
  /\ life' = IF life[t] = "dying" THEN [life EXCEPT ![t] = "gone"] ELSE life
  /\ UNCHANGED <<crashNo, crashes>>

(* DSS writes the event into the observer's buffer, even when RunL has not *)
(* used the one before.                                                    *)
Deliver ==
  /\ armed /\ pending # <<>>
  /\ buf' = Head(pending) /\ pending' = Tail(pending)
  /\ armed' = FALSE /\ signal' = TRUE
  /\ clobbered' = (clobbered \/ step = "observe")
  /\ UNCHANGED <<worldVars, queueVars, clientVars, dumpVars, step, caller, after,
                 runs, crash, formatter, loaded, mixed, failed>>

-------------------------------------------------------------------------------
(* CTargetObserver::RunL: Observe() asks for the next event first.         *)

Observe ==
  /\ step = "idle" /\ signal
  /\ signal' = FALSE /\ armed' = TRUE /\ step' = "observe" /\ caller' = "observer"
  /\ UNCHANGED <<worldVars, pending, buf, clobbered, queueVars, clientVars, dumpVars,
                 after, runs, crash, formatter, loaded, mixed, failed>>

Duplicate(e) == e.kind = "kill" /\ tids[e.of] > 0

(* The thread cannot be opened: RunL leaves, RunError ignores it.          *)
ObserveGone ==
  /\ step = "observe" /\ life[buf.of] = "gone" /\ step' = "idle"
  /\ UNCHANGED <<worldVars, observerVars, queueVars, clientVars, dumpVars, caller,
                 after, runs, crash, formatter, loaded, mixed, failed>>

(* A thread nobody asked for, or the end of one that has been dumped for   *)
(* its exception, is resumed.                                              *)
ObserveResume ==
  /\ step = "observe" /\ life[buf.of] # "gone" /\ step' = "idle"
  /\ buf.of \notin Watched \/ Duplicate(buf)
  /\ tids' = IF buf.of \in Watched THEN [tids EXCEPT ![buf.of] = @ - 1] ELSE tids
  /\ Resume(buf.of)
  /\ UNCHANGED <<observerVars, live, flash, clientVars, dumpVars, caller, after,
                 runs, crash, formatter, loaded, mixed, failed>>

(* HandleCrashEventL                                                       *)
HandleCrashEvent ==
  /\ step = "observe" /\ life[buf.of] # "gone"
  /\ buf.of \in Watched /\ ~Duplicate(buf)
  /\ live' = Append(live, buf)
  /\ step' = IF runs > 0 THEN "idle" ELSE "live"
  /\ after' = "idle"
  /\ UNCHANGED <<worldVars, observerVars, flash, tids, clientVars, dumpVars, caller,
                 runs, crash, formatter, loaded, mixed, failed>>

-------------------------------------------------------------------------------
(* CCrashHandler                                                           *)

(* Mutant: the answer is given for live crashes only.                      *)
CompleteLive(c) ==
  IF msg # 0 /\ c.kind # "system"
  THEN msg' = 0 /\ answered' = answered \cup {msg}
  ELSE UNCHANGED <<msg, answered>>

(* RMessagePtr2::Complete, for a crash log only.                           *)
Complete(c) ==
  IF msg # 0 /\ c.kind = "system"
  THEN msg' = 0 /\ answered' = answered \cup {msg}
  ELSE UNCHANGED <<msg, answered>>

(* A leave ends in RunError if the handler's RunL was called by the active *)
(* scheduler, else in the observer or the session, which leave the handler *)
(* and its asynchronous request alone.                                     *)
LeaveTo(c) ==
  /\ step' = "idle" /\ failed' = TRUE
  /\ IF caller = "handler" THEN Complete(c) ELSE UNCHANGED <<msg, answered>>
  /\ UNCHANGED <<requests, cancelled>>

(* Mutant: the event stays in the queue.                                   *)
ProcessLiveKeepsEvent ==
  /\ step = "live" /\ step' = "start"
  /\ crash' = Head(live) /\ live' = live
  /\ UNCHANGED <<worldVars, observerVars, flash, tids, clientVars, dumpVars, caller,
                 after, runs, formatter, loaded, mixed, failed>>

ProcessLive ==
  /\ step = "live" /\ step' = "start"
  /\ crash' = Head(live) /\ live' = Tail(live)
  /\ UNCHANGED <<worldVars, observerVars, flash, tids, clientVars, dumpVars, caller,
                 after, runs, formatter, loaded, mixed, failed>>

(* AnalyseCrashL reads the flash and may leave.                            *)
ProcessSystem ==
  /\ step = "flash" /\ flash # <<>>
  /\ crash' = Head(flash) /\ flash' = Tail(flash)
  /\ after' = "idle" /\ mixed' = (mixed \/ thread \in {"up", "dumping", "over"})
  /\ \/ step' = "start" /\ UNCHANGED <<clientVars, failed>>
     \/ MayFail /\ LeaveTo(Head(flash))
  /\ UNCHANGED <<worldVars, observerVars, live, tids, dumpVars, caller, runs, formatter, loaded>>

NoSystem ==
  /\ step = "flash" /\ flash = <<>> /\ step' = "idle"
  /\ UNCHANGED <<worldVars, observerVars, queueVars, clientVars, dumpVars, caller,
                 after, runs, crash, formatter, loaded, mixed, failed>>

(* StartThreadL: all formatters have had the crash, RunL goes on.          *)
StartFinish ==
  /\ step = "start" /\ runs >= loaded
  /\ runs' = 0 /\ formatter' = 0 /\ step' = "finish"
  /\ UNCHANGED <<worldVars, observerVars, queueVars, clientVars, dumpVars, caller,
                 after, crash, loaded, mixed, failed>>

Refuses == crash.kind = "system" /\ runs + 1 \in LiveOnly

StartThread ==
  /\ step = "start" /\ runs < loaded
  /\ ~Refuses /\ thread = "none"
  /\ runs' = runs + 1 /\ formatter' = runs + 1
  /\ thread' = "up" /\ step' = after
  /\ UNCHANGED <<worldVars, observerVars, queueVars, clientVars, dumping, dumped,
                 caller, after, crash, loaded, mixed, failed>>

(* StartThreadL leaves: the formatter refuses, its configuration fails, or *)
(* no thread can be created, as when one of that name exists.  Or the new  *)
(* thread ends before the rendezvous, when it has been counted already.    *)
StartLeave ==
  /\ step = "start" /\ runs < loaded
  /\ formatter' = runs + 1
  /\ \/ /\ MayFail \/ Refuses \/ thread # "none"
        /\ UNCHANGED <<runs, thread>>
     \/ /\ MayFail /\ ~Refuses /\ thread = "none"
        /\ runs' = runs + 1 /\ thread' = "stale"
  /\ LeaveTo(crash)
  /\ UNCHANGED <<worldVars, observerVars, queueVars, dumping, dumped, caller, after, crash, loaded, mixed>>

(* RunL, when a formatter's thread has ended.                              *)
RunNext ==
  /\ step = "idle" /\ thread = "over" /\ runs > 0
  /\ thread' = "none" /\ step' = "start" /\ caller' = "handler" /\ after' = "idle"
  /\ Complete(crash)
  /\ UNCHANGED <<worldVars, observerVars, queueVars, requests, cancelled, dumping,
                 dumped, runs, crash, formatter, loaded, mixed, failed>>

(* RunL, when a thread ends that was started for a crash since given up:   *)
(* the handle stays open.                                                  *)
RunStray ==
  /\ step = "idle" /\ thread = "over" /\ runs = 0
  /\ thread' = "stale" /\ step' = "finish" /\ caller' = "handler"
  /\ UNCHANGED <<worldVars, observerVars, queueVars, clientVars, dumping, dumped,
                 after, runs, crash, formatter, loaded, mixed, failed>>

(* Mutant: a thread is noted when its end, not its exception, was dumped.  *)
NotedAtEnd == IF crash.kind = "kill" THEN [tids EXCEPT ![crash.of] = @ + 1] ELSE tids

Noted == IF crash.kind = "exc" THEN [tids EXCEPT ![crash.of] = @ + 1] ELSE tids

(* Mutant: the queued crash logs are forgotten.                            *)
FinishLiveOnly ==
  /\ step = "finish" /\ tids' = Noted /\ after' = "idle"
  /\ IF crash.kind # "system" /\ life[crash.of] = "gone"
     THEN LeaveTo(crash) /\ UNCHANGED worldVars
     ELSE /\ IF crash.kind = "system" THEN UNCHANGED worldVars ELSE Resume(crash.of)
          /\ Complete(crash) /\ UNCHANGED <<requests, cancelled, failed>>
          /\ step' = IF live # <<>> THEN "live" ELSE "idle"
  /\ UNCHANGED <<observerVars, live, flash, dumpVars, caller, runs, crash, formatter, loaded, mixed>>

(* The rest of RunL, with PostProcessL; the leave of ResumeThreadL is not  *)
(* trapped.                                                                *)
Finish ==
  /\ step = "finish" /\ tids' = Noted /\ after' = "flash"
  /\ IF crash.kind # "system" /\ life[crash.of] = "gone"
     THEN LeaveTo(crash) /\ UNCHANGED worldVars
     ELSE /\ IF crash.kind = "system" THEN UNCHANGED worldVars ELSE Resume(crash.of)
          /\ Complete(crash) /\ UNCHANGED <<requests, cancelled, failed>>
          /\ step' = IF live # <<>> THEN "live" ELSE "flash"
  /\ UNCHANGED <<observerVars, live, flash, dumpVars, caller, runs, crash, formatter, loaded, mixed>>

(* The formatter's thread reads iParams, which the server may have changed *)
(* since it started the thread.                                            *)
Dump ==
  /\ thread = "up" /\ thread' = "dumping"
  /\ dumping' = crash /\ dumped' = dumped \cup {[crash |-> crash, by |-> formatter]}
  /\ UNCHANGED <<worldVars, observerVars, queueVars, clientVars, step, caller, after,
                 runs, crash, formatter, loaded, mixed, failed>>

Exit ==
  /\ thread = "dumping" /\ thread' = "over" /\ dumping' = NoCrash
  /\ UNCHANGED <<worldVars, observerVars, queueVars, clientVars, dumped, step, caller,
                 after, runs, crash, formatter, loaded, mixed, failed>>

-------------------------------------------------------------------------------
(* CCoreDumpSession: requests of the client about a log.                   *)

SystemCrash(l) == [of |-> l, n |-> 0, kind |-> "system"]

(* HandleCrashFromFlashL, without and with a message, which takes the      *)
(* place of the message kept so far.                                       *)
ProcessCrashLog(l) ==
  /\ step = "idle" /\ requests < MaxRequests /\ requests' = requests + 1
  /\ msg' \in {msg, requests + 1}
  /\ flash' = Append(flash, SystemCrash(l))
  /\ step' = IF runs > 0 THEN "idle" ELSE "flash"
  /\ caller' = "session"
  /\ UNCHANGED <<worldVars, observerVars, live, tids, answered, cancelled, dumpVars,
                 after, runs, crash, formatter, loaded, mixed, failed>>

(* The loop of CancelHandleCrashFromFlash removes a log and then passes    *)
(* over the one that has taken its place.                                  *)
Removed(l) ==
  LET gone[i \in 0..Len(flash)] == i > 0 /\ flash[i].of = l /\ ~gone[i - 1]
  IN  {i \in 1..Len(flash) : gone[i]}

Kept(l) ==
  LET kept[i \in 0..Len(flash)] ==
        IF i = 0 THEN <<>>
        ELSE IF i \in Removed(l) THEN kept[i - 1] ELSE Append(kept[i - 1], flash[i])
  IN  kept[Len(flash)]

CancelProcessCrashLog(l) ==
  /\ step = "idle" /\ requests < MaxRequests /\ requests' = requests + 1
  /\ flash' = Kept(l) /\ cancelled' = TRUE
  /\ UNCHANGED <<worldVars, observerVars, live, tids, msg, answered, dumpVars, step,
                 caller, after, runs, crash, formatter, loaded, mixed, failed>>

(* Plug-ins are loaded, removed and paired, unless a crash is in progress. *)
PluginRequest ==
  /\ step = "idle" /\ runs = 0
  /\ loaded' \in (0..Formatters) \ {loaded}
  /\ UNCHANGED <<worldVars, observerVars, queueVars, clientVars, dumpVars, step,
                 caller, after, runs, crash, formatter, mixed, failed>>

-------------------------------------------------------------------------------
World == \E t \in Threads : Except(t) \/ Kill(t) \/ Recover(t) \/ Die(t)

Server ==
  \/ Observe \/ ObserveGone \/ ObserveResume \/ HandleCrashEvent
  \/ ProcessLive \/ ProcessSystem \/ NoSystem
  \/ StartFinish \/ StartThread \/ StartLeave
  \/ RunNext \/ RunStray \/ Finish

Client == PluginRequest \/ \E l \in Logs : ProcessCrashLog(l) \/ CancelProcessCrashLog(l)

Next == World \/ Deliver \/ Server \/ Dump \/ Exit \/ Client

Spec == Init /\ [][Next]_vars

(* The active scheduler runs an active object whose request is complete,   *)
(* the kernel the formatter's thread, DSS delivers what it has.  Nobody    *)
(* has to crash or ask, and no call has to fail.                           *)
FairSpec == Spec /\ WF_vars(Server) /\ WF_vars(Dump) /\ WF_vars(Exit) /\ WF_vars(Deliver)

-------------------------------------------------------------------------------
Crashes == {NoCrash} \cup [of : Threads, n : 1..MaxCrashes, kind : {"exc", "kill"}]
                     \cup {SystemCrash(l) : l \in Logs}

TypeOK ==
  /\ life \in [Threads -> {"alive", "exc", "dying", "gone"}] /\ suspended \subseteq Threads
  /\ crashNo \in [Threads -> 0..MaxCrashes] /\ crashes \in 0..MaxCrashes
  /\ pending \in Seq(Crashes) /\ armed \in BOOLEAN /\ signal \in BOOLEAN /\ buf \in Crashes
  /\ step \in {"idle", "observe", "live", "flash", "start", "finish"}
  /\ caller \in {None, "observer", "session", "handler"} /\ after \in {"idle", "flash"}
  /\ live \in Seq(Crashes) /\ flash \in Seq(Crashes) /\ tids \in [Threads -> Nat]
  /\ loaded \in 0..Formatters /\ runs \in 0..Formatters /\ formatter \in 0..Formatters
  /\ thread \in {"none", "up", "dumping", "over", "stale"}
  /\ crash \in Crashes /\ dumping \in Crashes
  /\ dumped \subseteq [crash : Crashes, by : 0..Formatters]
  /\ requests \in 0..MaxRequests /\ msg \in 0..MaxRequests /\ answered \subseteq 1..MaxRequests
  /\ cancelled \in BOOLEAN /\ failed \in BOOLEAN /\ clobbered \in BOOLEAN /\ mixed \in BOOLEAN

(* A thread that was dumped for its exception is not dumped again for the  *)
(* end the exception leads to (iTids), while no event has been overwritten *)
(* in the observer's buffer.                                               *)
OneDumpPerDeath ==
  ~clobbered =>
    \A d, e \in dumped :
      ~(d.crash.kind = "exc" /\ e.crash.kind = "kill" /\ d.crash.n = e.crash.n)

(* While a formatter reads a crashed thread, the thread does not run: it   *)
(* is suspended, or gone with its process; as long as no event has been    *)
(* overwritten and RunL has not gone on to a crash log while the thread it *)
(* had just started for a live crash was running.                          *)
StillWhileDumped ==
  (~clobbered /\ ~mixed /\ dumping.kind \in {"exc", "kill"})
    => (dumping.of \in suspended \/ life[dumping.of] = "gone")

(* Whatever is queued is processed in the end, if no call of the handler   *)
(* leaves: the handler never comes to rest with a crash in a queue.        *)
QueuesDrain == (live # <<>> \/ flash # <<>>) ~> (live = <<>> /\ flash = <<>>) \/ failed

(* The asynchronous request the handler keeps is completed in the end, if  *)
(* no call leaves and the client cancels nothing.                          *)
AnswerComes == \A m \in 1..MaxRequests : (msg = m) ~> (msg # m \/ failed \/ cancelled)

(* Nothing that is asked of the handler, by a crash or a client, is left   *)
(* for ever.                                                               *)
Served == QueuesDrain /\ AnswerComes

===============================================================================
