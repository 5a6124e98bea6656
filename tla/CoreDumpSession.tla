---------------------------- MODULE CoreDumpSession ----------------------------
(***************************************************************************)
(* One session of the core dump server: the formatter and writer plug-ins  *)
(* it has loaded and how they are paired, the executables it observes and  *)
(* the event actions it has asked the debug security server (DSS) for, the *)
(* list of configuration parameters it hands out, and the .ini file that   *)
(* keeps all of it between two sessions.                                   *)
(*                                                                         *)
(* Every request runs to its end before the next one, so an action is a    *)
(* whole request; what makes it hard is that a request can leave half way, *)
(* that plug-ins are named by their place in arrays that move, and that    *)
(* the same facts are kept in several lists.  Places count from 0, as in   *)
(* the code.  Parameters of plug-ins, the action after a crash and the     *)
(* lists of threads and processes are left out.  A request to load, bind   *)
(* or set that arrives while a crash is dumped is refused and changes      *)
(* nothing, so that it need not be seen here.                              *)
(***************************************************************************)
EXTENDS Naturals, Sequences, FiniteSets, SequencesExt

CONSTANTS
  FormatterUids, WriterUids, \* the plug-ins the .plugin files allow
  Targets,                   \* executables a client may ask to observe
  TargetThreads,             \* names of threads of theirs
  PreActions, EventTypes,    \* values of the two parameters that a client sets
  MayFail,                   \* may ECom or DSS fail a call?
  MaxLoads,                  \* bound: plug-ins loaded in a behaviour
  NoFile

ASSUME PreAssumption == PreActions \subseteq {"none", "thread", "process"} /\ "thread" \in PreActions
ASSUME TypesAssumption == EventTypes \subseteq (SUBSET {"exc", "kill"} \ {{}}) /\ {"exc", "kill"} \in EventTypes
ASSUME BoundAssumption == MaxLoads \in Nat /\ MayFail \in BOOLEAN

VARIABLES
  plugs,      \* the four arrays of plug-ins, see NoPlugs
  params,     \* the plug-ins whose parameters iTotalConfigList points to
  observers,  \* iObservationList: the threads asked for of each executable,
              \* none for the whole of it
  dss,        \* the event actions DSS has for an executable, or Detached
  config,     \* iConfigList, what the client is shown
  inForce,    \* iCrashEventTypes, iPreCrashEventAction
  file,       \* the .ini file
  moved,      \* a writer has been unloaded in front of one that is paired
  half,       \* a request has left after DSS had carried out a part of it
  wild,       \* iObservationList holds an observer that has been deleted
  loads       \* plug-ins loaded so far

observerVars == <<observers, dss, wild>>
configVars == <<config, inForce>>
vars == <<plugs, params, observerVars, configVars, file, moved, half, loads>>

Unpaired == MaxLoads + 1   \* KMaxTUint32
NoWriter == 0
Detached == [exc |-> "off", kill |-> "off"]

(* finfos, winfos: CPluginInfo; formatters, writers: the objects ECom made,*)
(* each with a number of its own, and the writer a formatter writes to,    *)
(* which may be gone.                                                      *)
NoPlugs == [finfos |-> <<>>, formatters |-> <<>>, winfos |-> <<>>, writers |-> <<>>]

DefaultConfig == [types |-> {"exc", "kill"}, pre |-> "thread"]

Init ==
  /\ plugs = NoPlugs /\ params = {} /\ observers = <<>>
  /\ dss = [t \in Targets |-> Detached]
  /\ config = DefaultConfig /\ inForce = DefaultConfig
  /\ file = NoFile /\ moved = FALSE /\ half = FALSE /\ wild = FALSE
  /\ loads = 0

At(s, i) == s[i + 1]
Without(s, i) == RemoveAt(s, i + 1)
Objects(p) == {f.id : f \in ToSet(p.formatters)} \cup ToSet(p.writers)
Remembered(p) == Objects(p) \cup {f.save : f \in ToSet(p.formatters)}
NewObject(p) == CHOOSE id \in 1..2 * MaxLoads + 1 : id \notin Remembered(p)

-------------------------------------------------------------------------------
(* Plug-ins.                                                               *)

Configured(p, f, w) ==
  [p EXCEPT !.finfos[f + 1].pair = w, !.formatters[f + 1].save = At(p.writers, w)]

(* The first pair is bound by default.                                     *)
FirstBound(p) ==
  IF Len(p.formatters) = 1 /\ Len(p.writers) = 1 THEN Configured(p, 0, 0) ELSE p

CreateWriter(p, uid) ==
  FirstBound([p EXCEPT !.winfos = Append(@, uid), !.writers = Append(@, NewObject(p))])

CreateFormatter(p, uid) ==
  FirstBound([p EXCEPT !.finfos = Append(@, [uid |-> uid, pair |-> Unpaired]),
                       !.formatters = Append(@, [id |-> NewObject(p), save |-> NoWriter])])

InRange(p, f, w) == f < Len(p.finfos) /\ w < Len(p.winfos)

(* The information about a plug-in that ECom does not make stays.          *)
WriterFails(p, uid) == [p EXCEPT !.winfos = Append(@, uid)]
FormatterFails(p, uid) == [p EXCEPT !.finfos = Append(@, [uid |-> uid, pair |-> Unpaired])]

DeleteFormatter(p, i) ==
  [p EXCEPT !.finfos = Without(@, i), !.formatters = Without(@, i)]

Unpair(finfos, i) ==
  [f \in DOMAIN finfos |->
     IF finfos[f].pair = i THEN [finfos[f] EXCEPT !.pair = Unpaired] ELSE finfos[f]]

(* Mutant: pairs with the writer are kept.                                 *)
DeleteWriterKeepsPairs(p, i) ==
  [p EXCEPT !.winfos = Without(@, i), !.writers = Without(@, i)]

DeleteWriter(p, i) ==
  [p EXCEPT !.finfos = Unpair(@, i), !.winfos = Without(@, i), !.writers = Without(@, i)]

Count(n) == loads + n <= MaxLoads /\ loads' = loads + n

(* Mutant: the list of parameters is not made again.                       *)
PluginRequestOnly(p) ==
  /\ ~wild
  /\ plugs' = p
  /\ UNCHANGED <<params, observerVars, configVars, file, half>>

(* Whatever PluginRequestL has done to the plug-ins, the list of parameters*)
(* is made again.                                                          *)
PluginRequest(p) ==
  /\ ~wild
  /\ plugs' = p /\ params' = Objects(p)
  /\ UNCHANGED <<observerVars, configVars, file, half>>

LoadWriter(uid) == PluginRequest(CreateWriter(plugs, uid)) /\ Count(1) /\ UNCHANGED moved
LoadFormatter(uid) == PluginRequest(CreateFormatter(plugs, uid)) /\ Count(1) /\ UNCHANGED moved

(* The two arrays of one kind are as long as each other, or the code runs  *)
(* past the end of the shorter one.                                        *)
Aligned(p) == Len(p.finfos) = Len(p.formatters) /\ Len(p.winfos) = Len(p.writers)

(* Bounds: nothing is observed or configured in a session after a request  *)
(* that has left half way, and no call fails after another.                *)
Sound == ~wild /\ ~half
Fault == MayFail /\ Aligned(plugs) /\ Sound

UnloadFormatter(i) ==
  /\ i < Len(plugs.finfos) /\ Aligned(plugs)
  /\ PluginRequest(DeleteFormatter(plugs, i)) /\ UNCHANGED <<moved, loads>>

UnloadWriter(i) ==
  /\ i < Len(plugs.winfos) /\ Aligned(plugs)
  /\ PluginRequest(DeleteWriter(plugs, i)) /\ UNCHANGED loads
  /\ moved' = (moved \/ \E f \in ToSet(plugs.finfos) : f.pair > i /\ f.pair # Unpaired)

(* A plug-in that cannot be made leaves before the list is made again.     *)
LoadFails(p) ==
  /\ Fault /\ Count(1) /\ plugs' = p
  /\ UNCHANGED <<params, observerVars, configVars, file, moved, half>>

BindPlugins(f, w) ==
  /\ ~wild /\ InRange(plugs, f, w) /\ Aligned(plugs)
  /\ plugs' = Configured(plugs, f, w)
  /\ UNCHANGED <<params, observerVars, configVars, file, moved, half, loads>>

(* GetValidFormatter passes over a formatter whose pair is no writer; the  *)
(* crash handler dumps with every other one.                               *)
Valid(f) == At(plugs.finfos, f).pair < Len(plugs.winfos)

-------------------------------------------------------------------------------
(* Observation and configuration.                                          *)

(* SetCrashEventsL                                                         *)
EventsFor(c) ==
  LET action == IF c.pre = "none" THEN "continue" ELSE "suspend"
  IN  [exc  |-> IF "exc" \in c.types THEN action ELSE "ignore",
       kill |-> IF "kill" \in c.types THEN action ELSE "ignore"]

Observed == DOMAIN observers

(* AttachTargetL for an executable that is observed, where "threads" is    *)
(* the set that names one thread, or is empty for all of them.             *)
Added(obs, t, threads) ==
  [u \in DOMAIN obs \cup {t} |->
     IF u # t THEN obs[u]
     ELSE IF t \in DOMAIN obs /\ threads # {} THEN obs[t] \cup threads ELSE threads]

AttachTarget(t, threads) ==
  /\ Sound
  /\ t \in Observed => threads = {} \/ ~(threads \subseteq observers[t])
  /\ observers' = Added(observers, t, threads)
  /\ dss' = IF t \in Observed THEN dss ELSE [dss EXCEPT ![t] = EventsFor(inForce)]
  /\ UNCHANGED <<plugs, params, configVars, file, moved, half, wild, loads>>

(* The observer is in the list when SetCrashEventL fails and it is         *)
(* deleted; it was never active, so nothing detaches the executable.       *)
AttachFails(t) ==
  /\ Fault /\ t \notin Observed
  /\ dss' = [dss EXCEPT ![t] = [exc |-> "ignore", kill |-> "ignore"]]
  /\ wild' = TRUE /\ half' = TRUE
  /\ UNCHANGED <<plugs, params, observers, configVars, file, moved, loads>>

DetachTarget(t, threads) ==
  /\ Sound /\ t \in Observed /\ threads \subseteq observers[t]
  /\ LET left == observers[t] \ threads
     IN  IF left = {}
         THEN /\ observers' = [u \in Observed \ {t} |-> observers[u]]
              /\ dss' = [dss EXCEPT ![t] = Detached]
         ELSE observers' = [observers EXCEPT ![t] = left] /\ dss' = dss
  /\ UNCHANGED <<plugs, params, configVars, file, moved, half, wild, loads>>

(* The events of all the executables in "some" set anew.                   *)
Asked(d, some, c) == [t \in Targets |-> IF t \in some THEN EventsFor(c) ELSE d[t]]

(* SetConfigParameterL for ECrashEventTypes or EPreCrashEventAction.  When *)
(* DSS fails for an executable, those before it in the list have the new   *)
(* events, and iConfigList keeps the old value.                            *)
With(c, name, v) == [c EXCEPT ![name] = v]

SetConfigParameter(name, v) ==
  /\ Sound
  /\ inForce' = With(inForce, name, v)
  /\ \/ /\ dss' = Asked(dss, Observed, inForce')
        /\ config' = With(config, name, v) /\ half' = half
     \/ /\ Fault /\ config' = config /\ half' = TRUE
        /\ \E done \in (SUBSET Observed) \ {Observed} : dss' = Asked(dss, done, inForce')
  /\ UNCHANGED <<plugs, params, observers, file, moved, wild, loads>>

(* Mutant: the events stay ignored when the process is gone.               *)
KillProcessSilently(t) ==
  /\ Sound /\ t \in Observed
  /\ dss' = [dss EXCEPT ![t] = [exc |-> "ignore", kill |-> "ignore"]]
  /\ UNCHANGED <<plugs, params, observers, configVars, file, moved, half, wild, loads>>

(* KillProcessL asks DSS to ignore the end of the process it kills, and    *)
(* for the events it wants again when the process is gone.                 *)
KillProcess(t) ==
  /\ Sound /\ t \in Observed
  /\ dss' = [dss EXCEPT ![t] = EventsFor(inForce)]
  /\ UNCHANGED <<plugs, params, observers, configVars, file, moved, half, wild, loads>>

KillProcessFails(t) ==
  /\ Fault /\ t \in Observed
  /\ dss' = [dss EXCEPT ![t] = [exc |-> "ignore", kill |-> "ignore"]] /\ half' = TRUE
  /\ UNCHANGED <<plugs, params, observers, configVars, file, moved, wild, loads>>

-------------------------------------------------------------------------------
(* The configuration file.                                                 *)

(* A section for each object, filled from the information about the        *)
(* plug-in at the same place, and one for the observed executables.        *)
Saved ==
  [config |-> config,
   writers |-> SubSeq(plugs.winfos, 1, Len(plugs.writers)),
   formatters |-> SubSeq(plugs.finfos, 1, Len(plugs.formatters)),
   observers |-> observers]

SaveConfigFile ==
  /\ ~wild /\ file' = Saved
  /\ UNCHANGED <<plugs, params, observerVars, configVars, moved, half, loads>>

(* RecreateConfigurationL makes the writers, then the formatters.  It      *)
(* binds the formatter at the place the file gives, also when the session  *)
(* had plug-ins before, and leaves when the pair is no writer.             *)
WithWriters(p) ==
  LET made[n \in 0..Len(file.writers)] ==
        IF n = 0 THEN p ELSE CreateWriter(made[n - 1], file.writers[n])
  IN  made[Len(file.writers)]

FormatterSection(acc, section) ==
  LET p == CreateFormatter(acc.plugs, section.uid)
  IN  IF acc.left THEN acc
      ELSE [plugs |-> IF InRange(p, acc.n, section.pair) THEN Configured(p, acc.n, section.pair) ELSE p,
            n |-> acc.n + 1, left |-> ~InRange(p, acc.n, section.pair)]

Recreated ==
  LET made[n \in 0..Len(file.formatters)] ==
        IF n = 0 THEN [plugs |-> WithWriters(plugs), n |-> 0, left |-> FALSE]
        ELSE FormatterSection(made[n - 1], file.formatters[n])
  IN  made[Len(file.formatters)]

(* The plug-ins are there and the configuration is in force: what remains  *)
(* is the list of observed executables.                                    *)
Restoring(obs) ==
  /\ ~wild /\ file # NoFile /\ Aligned(plugs)
  /\ Count(Len(file.writers) + Len(file.formatters)) /\ ~Recreated.left
  /\ plugs' = Recreated.plugs /\ params' = Objects(Recreated.plugs)
  /\ config' = file.config /\ inForce' = file.config
  /\ observers' = obs
  /\ dss' = Asked(dss, DOMAIN obs, file.config)
  /\ UNCHANGED <<file, moved, half, wild>>

(* Each line of the section is an AttachTargetL of its own, which leaves   *)
(* for a thread that is observed already.                                  *)
Known(t) == IF t \in Observed THEN observers[t] ELSE {}
Conflicts == {t \in DOMAIN file.observers : Known(t) \cap file.observers[t] # {}}
(* Mutant: an executable without threads has no line in the file.          *)
RestoredThreads(done) ==
  [t \in Observed \cup {u \in done : file.observers[u] # {}} |->
     IF t \notin done THEN observers[t] ELSE Known(t) \cup file.observers[t]]

Restored(done) ==
  [t \in Observed \cup done |->
     IF t \notin done THEN observers[t]
     ELSE IF file.observers[t] = {} THEN {} ELSE Known(t) \cup file.observers[t]]

LoadConfigFile ==
  /\ file # NoFile /\ Conflicts = {} /\ Restoring(Restored(DOMAIN file.observers))

LoadStopsAtTarget(t) ==
  /\ file # NoFile /\ t \in Conflicts
  /\ \E done \in SUBSET (DOMAIN file.observers \ Conflicts), some \in SUBSET file.observers[t] :
       Restoring([Restored(done) EXCEPT ![t] = @ \cup some])

LoadStopsAtPlugin ==
  /\ ~wild /\ file # NoFile /\ Aligned(plugs)
  /\ Count(Len(file.writers) + Len(file.formatters)) /\ Recreated.left
  /\ plugs' = Recreated.plugs
  /\ UNCHANGED <<params, observerVars, configVars, file, moved, half>>

-------------------------------------------------------------------------------
(* The session ends and the client opens another one.                      *)

Renewed ==
  /\ plugs' = NoPlugs /\ params' = {} /\ observers' = <<>>
  /\ config' = DefaultConfig /\ inForce' = DefaultConfig
  /\ moved' = FALSE /\ half' = FALSE /\ wild' = FALSE

(* The destructor saves the configuration before it takes anything down;   *)
(* the server ends with its only session, and DSS forgets it.              *)
EndSession ==
  /\ ~wild /\ file' = Saved
  /\ dss' = [t \in Targets |-> Detached]
  /\ Renewed /\ UNCHANGED loads

(* With a deleted observer in its list the server is bound to fail; the    *)
(* file stays as it was.                                                   *)
ServerFails ==
  /\ wild /\ dss' = [t \in Targets |-> Detached] /\ Renewed /\ UNCHANGED <<file, loads>>

Next ==
  \/ \E uid \in WriterUids : LoadWriter(uid) \/ LoadFails(WriterFails(plugs, uid))
  \/ \E uid \in FormatterUids : LoadFormatter(uid) \/ LoadFails(FormatterFails(plugs, uid))
  \/ \E i \in 0..MaxLoads - 1 : UnloadFormatter(i) \/ UnloadWriter(i)
  \/ \E f, w \in 0..MaxLoads - 1 : BindPlugins(f, w)
  \/ \E t \in Targets, n \in {{}} \cup {{x} : x \in TargetThreads} :
       AttachTarget(t, n) \/ DetachTarget(t, n)
  \/ \E t \in Targets : AttachFails(t) \/ KillProcess(t) \/ KillProcessFails(t)
  \/ \E v \in EventTypes : SetConfigParameter("types", v)
  \/ \E v \in PreActions : SetConfigParameter("pre", v)
  \/ SaveConfigFile \/ LoadConfigFile \/ LoadStopsAtPlugin
  \/ \E t \in Targets : LoadStopsAtTarget(t)
  \/ EndSession \/ ServerFails

Spec == Init /\ [][Next]_vars
-------------------------------------------------------------------------------
(* Properties.                                                             *)

(* Every formatter the crash handler would dump with writes to the writer  *)
(* that the client is told it is paired with, and not to one that is gone. *)
(* A writer unloaded in front of a paired one, or a plug-in that cannot be *)
(* made, ends this: the places no longer agree.                            *)
WritesWherePaired ==
  Aligned(plugs) /\ ~moved =>
    \A f \in 0..Len(plugs.finfos) - 1 :
      Valid(f) => At(plugs.formatters, f).save = At(plugs.writers, At(plugs.finfos, f).pair)

(* The parameters that are handed out and saved belong to plug-ins that    *)
(* exist: iTotalConfigList has pointers into them.                         *)
ParamsAlive == params \subseteq Objects(plugs)

(* DSS reports the events the configuration asks for, of the observed      *)
(* executables and no others, and the client is shown the values in force, *)
(* as long as no request has left half way.                                *)
ObservedAsConfigured ==
  ~half => /\ config = inForce
           /\ \A t \in Targets :
                dss[t] = IF t \in Observed THEN EventsFor(config) ELSE Detached

(* A configuration loaded into a new session, without a leave, is the one  *)
(* that was saved: plug-ins, pairs, parameters of the server, observers.   *)
LoadRestores ==
  [][LoadConfigFile /\ plugs = NoPlugs /\ observers = <<>> => Saved' = file]_vars

===============================================================================
