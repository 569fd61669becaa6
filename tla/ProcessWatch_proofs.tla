------------------------ MODULE ProcessWatch_proofs ------------------------
(* Proofs about ProcessWatch, for any number of processes, starts and        *)
(* requests.                                                                 *)
EXTENDS ProcessWatch, SequenceLemmas, FiniteSetTheorems, TLAPS

-----------------------------------------------------------------------------
(* The inductive invariant.  HandlesHeld is inductive with the types; what    *)
(* the main window was told follows from the state the monitor is in.         *)

\* The handles, with the types they need.
HandlesInv ==
    /\ game \in [Pid -> {"none", "running", "exited"}]
    /\ allProcesses \in Seq(Pid)
    /\ processList \subseteq Pid
    /\ Distinct(allProcesses)
    /\ \A p \in Pid : game[p] = "exited" => p \in ToSet(allProcesses)
    /\ \A p \in ToSet(allProcesses) : game[p] # "none"

\* The game the monitor is telling of, and what it does before its first wait.
ToldInv ==
    /\ processIds \subseteq Pid
    /\ monitor \in {"added", "removed"} => ~initial
    /\ monitor \notin {"added", "removed"} => told = NoPid
    /\ monitor = "added" => told \in ToSet(allProcesses)
    /\ monitor = "removed" => told \notin ToSet(allProcesses)
    /\ initial => processList \subseteq unsure
    /\ main = "ids" => monitor = "off"
    /\ monitor = "off" => allProcesses = <<>> /\ processList = {}

WatchInv == HandlesInv /\ ToldInv /\ IdsFollow

LEMMA InitInv == Init => WatchInv
  <1> SUFFICES ASSUME Init PROVE WatchInv
    OBVIOUS
  <1>1. allProcesses = <<>> /\ ToSet(allProcesses) = {} /\ Distinct(allProcesses)
    BY DEF Init, ToSet, Distinct
  <1>2. HandlesInv
    BY <1>1 DEF Init, HandlesInv
  <1>3. ToldInv
    BY <1>1 DEF Init, ToldInv
  <1>4. IdsFollow
    BY <1>1 DEF Init, IdsFollow
  <1>5. QED
    BY <1>2, <1>3, <1>4 DEF WatchInv

\* A step that leaves the games and the handles as they are.
LEMMA HandlesUntouched ==
  ASSUME HandlesInv, UNCHANGED <<game, allProcesses>>, processList' \subseteq Pid
  PROVE  HandlesInv'
  BY DEF HandlesInv

\* A step that leaves alone what the invariant is about.
LEMMA Untouched ==
  ASSUME WatchInv, main' # "ids",
         UNCHANGED <<game, allProcesses, processList, monitor, told, initial,
                     unsure, processIds>>
  PROVE  WatchInv'
  BY DEF WatchInv, HandlesInv, ToldInv, IdsFollow

LEMMA RunningType == Running \subseteq Pid
  BY DEF Running

LEMMA GameStep ==
  ASSUME WatchInv, NEW p \in Pid, GameStart(p) \/ GameExit(p)
  PROVE  WatchInv'
  <1>1. UNCHANGED <<main, allProcesses, processList, monitor, told, initial,
                    unsure, processIds>>
    BY DEF GameStart, GameExit, mainVars, monitorVars
  <1>2. ToldInv' /\ IdsFollow'
    BY <1>1 DEF WatchInv, ToldInv, IdsFollow
  <1>3. CASE GameStart(p)
    <2>1. p \notin ToSet(allProcesses)
      BY <1>3 DEF GameStart, WatchInv, HandlesInv
    <2>2. \A q \in ToSet(allProcesses) : q \in Pid
      BY DEF WatchInv, HandlesInv, ToSet
    <2>3. HandlesInv'
      BY <1>1, <1>3, <2>1, <2>2 DEF GameStart, WatchInv, HandlesInv
    <2>4. QED
      BY <1>2, <2>3 DEF WatchInv
  <1>4. CASE GameExit(p)
    <2>1. \A q \in ToSet(allProcesses) : q \in Pid
      BY DEF WatchInv, HandlesInv, ToSet
    <2>2. HandlesInv'
      BY <1>1, <1>4, <2>1 DEF GameExit, WatchInv, HandlesInv
    <2>3. QED
      BY <1>2, <2>2 DEF WatchInv
  <1>5. QED
    BY <1>3, <1>4

LEMMA StartMonitorStep ==
  ASSUME WatchInv, StartMonitor
  PROVE  WatchInv'
  <1>1. HandlesInv'
    BY HandlesUntouched DEF StartMonitor, system, WatchInv, HandlesInv
  <1>2. ToldInv'
    BY RunningType DEF StartMonitor, Goes, system, WatchInv, ToldInv
  <1>3. allProcesses = <<>>
    BY DEF StartMonitor, Goes, WatchInv, ToldInv
  <1>4. ToSet(allProcesses) = {}
    BY <1>3 DEF ToSet
  <1>5. IdsFollow'
    BY <1>4 DEF StartMonitor, IdsFollow
  <1>6. QED
    BY <1>1, <1>2, <1>5 DEF WatchInv

\* The other steps of the main thread and of the injector, but the two below.
LEMMA OtherSteps ==
  ASSUME WatchInv,
         \/ CreateEvent \/ StartInjector \/ InjectAll \/ RefreshInjections
         \/ Quit \/ StopProcessMonitor \/ MonitorJoined
         \/ Take \/ DoInject \/ CopyBack \/ InjectorWakes \/ MessageBoxClosed
  PROVE  WatchInv'
  <1>1. CASE CreateEvent
    BY <1>1, Untouched DEF CreateEvent, Goes, system, history
  <1>2. CASE StartInjector
    BY <1>2, Untouched DEF StartInjector, Goes, system, monitorVars, history
  <1>3. CASE InjectAll
    <2>1. main' # "ids"
      BY <1>3 DEF InjectAll
    <2>2. QED
      BY <1>3, <2>1, Untouched DEF InjectAll, system, monitorVars, history
  <1>4. CASE RefreshInjections
    BY <1>4, Untouched DEF RefreshInjections, Goes, system, monitorVars, history
  <1>5. CASE Quit
    BY <1>5, Untouched DEF Quit, Goes, system, monitorVars, history
  <1>6. CASE StopProcessMonitor
    BY <1>6, Untouched DEF StopProcessMonitor, Goes, system, history
  <1>7. CASE MonitorJoined
    BY <1>7, Untouched DEF MonitorJoined, Goes, system, monitorVars, history
  <1>8. CASE Take \/ DoInject \/ CopyBack \/ InjectorWakes \/ MessageBoxClosed
    <2>1. UNCHANGED <<main, game, allProcesses, processList, monitor, told, initial,
                      unsure, processIds>>
      BY <1>8 DEF Take, DoInject, CopyBack, InjectorWakes, MessageBoxClosed, system,
                  mainVars, monitorVars, history
    <2>2. QED
      BY <2>1 DEF WatchInv, HandlesInv, ToldInv, IdsFollow
  <1>9. QED
    BY <1>1, <1>2, <1>3, <1>4, <1>5, <1>6, <1>7, <1>8

LEMMA TellStep ==
  ASSUME WatchInv, OnProcessAdded \/ OnProcessRemoved
  PROVE  WatchInv'
  <1>1. UNCHANGED <<main, game, allProcesses, processList, initial>>
    BY DEF OnProcessAdded, OnProcessRemoved, system
  <1>2. HandlesInv'
    BY <1>1 DEF WatchInv, HandlesInv
  <1>3. CASE OnProcessAdded
    <2>0. \A q \in ToSet(allProcesses) : q \in Pid
      BY DEF WatchInv, HandlesInv, ToSet
    <2>1. ToldInv'
      BY <1>1, <1>3, <2>0 DEF OnProcessAdded, WatchInv, ToldInv
    <2>2. IdsFollow'
      BY <1>1, <1>3 DEF OnProcessAdded, WatchInv, ToldInv, IdsFollow
    <2>3. QED
      BY <1>2, <2>1, <2>2 DEF WatchInv
  <1>4. CASE OnProcessRemoved
    <2>1. ToldInv'
      BY <1>1, <1>4 DEF OnProcessRemoved, WatchInv, ToldInv
    <2>2. IdsFollow'
      BY <1>1, <1>4 DEF OnProcessRemoved, WatchInv, ToldInv, IdsFollow
    <2>3. QED
      BY <1>2, <2>1, <2>2 DEF WatchInv
  <1>5. QED
    BY <1>3, <1>4

\* A snapshot in the first pass is unsure; a later one changes nothing told.
LEMMA SnapshotStep ==
  ASSUME WatchInv, MonitorBegin \/ Snapshot \/ MonitorExit
  PROVE  WatchInv'
  <1>1. UNCHANGED <<main, game, allProcesses, initial, told, processIds>>
    BY DEF MonitorBegin, Snapshot, MonitorExit, system, mainVars
  <1>2. processList' \subseteq Pid
    BY RunningType DEF MonitorBegin, Snapshot, MonitorExit, Found, WatchInv, HandlesInv
  <1>3. HandlesInv'
    BY <1>1, <1>2, HandlesUntouched DEF WatchInv
  <1>4. ToldInv'
    BY <1>1 DEF MonitorBegin, Snapshot, MonitorExit, MonitorGoes, Found, history,
                WatchInv, ToldInv
  <1>5. unsure \subseteq unsure'
    BY DEF MonitorBegin, Snapshot, MonitorExit, Found, history
  <1>6. IdsFollow'
    BY <1>1, <1>5 DEF WatchInv, IdsFollow
  <1>7. QED
    BY <1>3, <1>4, <1>6 DEF WatchInv

\* A new game is unsure in the first pass, and being told of in any later one.
LEMMA CompareStep ==
  ASSUME WatchInv, NEW p \in Pid, CompareNew(p)
  PROVE  WatchInv'
  <1>1. UNCHANGED <<main, game, initial, unsure, processIds>>
    BY DEF CompareNew, system, mainVars, history
  <1>2. monitor = "compare" /\ told = NoPid /\ p \in processList
    BY DEF CompareNew, WatchInv, ToldInv
  <1>3. processList' \subseteq Pid /\ processList' \subseteq processList
    BY DEF CompareNew, WatchInv, HandlesInv
  <1>4. CASE UNCHANGED <<monitor, allProcesses, told>>
    <2>1. HandlesInv'
      BY <1>1, <1>3, <1>4, HandlesUntouched DEF WatchInv
    <2>2. ToldInv' /\ IdsFollow'
      BY <1>1, <1>2, <1>3, <1>4 DEF WatchInv, ToldInv, IdsFollow
    <2>3. QED
      BY <2>1, <2>2 DEF WatchInv
  <1>5. CASE /\ p \notin ToSet(allProcesses) /\ game[p] = "running"
             /\ allProcesses' = Append(allProcesses, p)
             /\ IF initial THEN UNCHANGED <<monitor, told>>
                           ELSE monitor' = "added" /\ told' = p
    <2>1. /\ allProcesses' \in Seq(Pid) /\ Distinct(allProcesses')
          /\ ToSet(allProcesses') = ToSet(allProcesses) \cup {p}
      BY <1>5, AppendElements DEF WatchInv, HandlesInv
    <2>2. HandlesInv'
      BY <1>1, <1>3, <1>5, <2>1 DEF WatchInv, HandlesInv
    <2>3. ToldInv'
      BY <1>1, <1>2, <1>3, <1>5, <2>1 DEF WatchInv, ToldInv
    <2>4. initial => p \in unsure
      BY <1>2 DEF WatchInv, ToldInv
    <2>5. NoPid \notin processIds /\ NoPid \notin ToSet(allProcesses)
      BY WatchAssumption DEF WatchInv, HandlesInv, ToldInv, ToSet
    <2>6. IdsFollow'
      BY <1>1, <1>2, <1>5, <2>1, <2>4, <2>5 DEF WatchInv, IdsFollow
    <2>7. QED
      BY <2>2, <2>3, <2>6 DEF WatchInv
  <1>6. QED
    BY <1>4, <1>5 DEF CompareNew

\* What is forgotten is being told of, and no other handle of it is left.
LEMMA WaitStep ==
  ASSUME WatchInv, WaitProcess
  PROVE  WatchInv'
  <1>1. /\ UNCHANGED <<main, processList, unsure, processIds>>
        /\ monitor = "compare" /\ monitor' = "removed" /\ ~initial'
    BY DEF WaitProcess, Waits, mainVars, history
  <1>2. told = NoPid /\ main # "ids"
    BY <1>1 DEF WatchInv, ToldInv
  <1>3. PICK i \in Signaled :
            /\ allProcesses' = Forgotten(i) /\ told' = allProcesses[i]
            /\ game' = [game EXCEPT ![allProcesses[i]] = IF @ = "exited" THEN "none" ELSE @]
    BY DEF WaitProcess
  <1>4. i \in DOMAIN allProcesses /\ game[allProcesses[i]] = "exited"
    BY DEF Signaled
  <1>5. allProcesses[i] \in Pid
    BY <1>4 DEF WatchInv, HandlesInv
  <1>6. /\ allProcesses' \in Seq(Pid) /\ Distinct(allProcesses')
        /\ ToSet(allProcesses') = ToSet(allProcesses) \ {allProcesses[i]}
    BY <1>3, <1>4, RemoveElement DEF Forgotten, WatchInv, HandlesInv
  <1>7. \A q \in ToSet(allProcesses) : q \in Pid
    BY DEF WatchInv, HandlesInv, ToSet
  <1>8. HandlesInv'
    BY <1>1, <1>3, <1>4, <1>5, <1>6, <1>7 DEF WatchInv, HandlesInv
  <1>9. ToldInv'
    BY <1>1, <1>2, <1>3, <1>6 DEF WatchInv, ToldInv
  <1>10. IdsFollow'
    <2>1. NoPid \notin processIds /\ NoPid \notin ToSet(allProcesses)
      BY WatchAssumption DEF WatchInv, HandlesInv, ToldInv, ToSet
    <2>2. QED
      BY <1>1, <1>2, <1>3, <1>6, <2>1 DEF WatchInv, IdsFollow
  <1>11. QED
    BY <1>8, <1>9, <1>10 DEF WatchInv

LEMMA NothingStep ==
  ASSUME WatchInv, WaitNothing
  PROVE  WatchInv'
  <1>1. /\ UNCHANGED <<main, game, allProcesses, processList, told, unsure, processIds>>
        /\ monitor = "compare" /\ monitor' = "test" /\ ~initial'
    BY DEF WaitNothing, Waits, system, mainVars, history
  <1>2. QED
    BY <1>1 DEF WatchInv, HandlesInv, ToldInv, IdsFollow

LEMMA StutterStep ==
  ASSUME WatchInv, UNCHANGED vars
  PROVE  WatchInv'
  BY DEF WatchInv, HandlesInv, ToldInv, IdsFollow, vars, system, mainVars,
         monitorVars, history

LEMMA NextInv == WatchInv /\ [Next]_vars => WatchInv'
  <1> SUFFICES ASSUME WatchInv, [Next]_vars PROVE WatchInv'
    OBVIOUS
  <1>1. CASE StartMonitor
    BY <1>1, StartMonitorStep
  <1>2. CASE \/ CreateEvent \/ StartInjector \/ InjectAll \/ RefreshInjections
             \/ Quit \/ StopProcessMonitor \/ MonitorJoined \/ Injector
             \/ MessageBoxClosed
    BY <1>2, OtherSteps DEF Injector
  <1>3. CASE OnProcessAdded \/ OnProcessRemoved
    BY <1>3, TellStep
  <1>4. CASE Monitor
    BY <1>4, SnapshotStep, CompareStep, WaitStep, NothingStep DEF Monitor
  <1>5. CASE \E p \in Pid : GameStart(p) \/ GameExit(p)
    BY <1>5, GameStep
  <1>6. CASE UNCHANGED vars
    BY <1>6, StutterStep
  <1>7. QED
    BY <1>1, <1>2, <1>3, <1>4, <1>5, <1>6 DEF Next, MainThread

-----------------------------------------------------------------------------
(* The types.  The game the main window is told of is one by the invariant    *)
(* above: only this part of the types is not inductive.                      *)

\* The games, and the sets of running games.
SystemType ==
    /\ game \in [Pid -> {"none", "running", "exited"}]
    /\ injected \subseteq Running /\ starts \in 0..MaxStart
    /\ unsure \subseteq Pid /\ late \subseteq Running /\ dropped \subseteq Running

\* The main thread and the monitor.
ThreadType ==
    /\ main \in {"ids", "create event", "start injector", "inject all", "pump",
                 "join injector", "join monitor", "done"}
    /\ processIds \subseteq Pid /\ pids \subseteq Pid
    /\ monitor \in {"off", "begin", "compare", "added", "removed", "test", "exit"}
    /\ event \in {"null", "created", "set"}
    /\ processList \subseteq Pid /\ allProcesses \in Seq(Pid)
    /\ told \in Pid \cup {NoPid}

\* The injector and its queue.
InjectorType ==
    /\ injector \in {"off", "take", "inject", "asks", "wait", "exit"}
    /\ requests \in Seq(InjectRequest) /\ working \in Seq(InjectRequest)
    /\ again \in Seq(InjectRequest)

\* The flags.
FlagType ==
    /\ running \in BOOLEAN /\ waitsOn \in BOOLEAN /\ initial \in BOOLEAN
    /\ injectorRunning \in BOOLEAN

\* The types but the flags, which the provers want on their own.
ValueType == SystemType /\ ThreadType /\ InjectorType

LEMMA TypeParts == ValueType /\ FlagType => TypeOK
  BY DEF TypeOK, ValueType, SystemType, ThreadType, InjectorType, FlagType

LEMMA InitType == Init => ValueType
  <1> SUFFICES ASSUME Init PROVE ValueType
    OBVIOUS
  <1>1. SystemType
    BY WatchAssumption DEF Init, SystemType
  <1>2. ThreadType
    BY DEF Init, ThreadType
  <1>3. InjectorType
    BY DEF Init, InjectorType
  <1>4. QED
    BY <1>1, <1>2, <1>3 DEF ValueType

LEMMA SystemKept ==
  ASSUME SystemType, UNCHANGED <<system, late, dropped>>, unsure' \subseteq Pid
  PROVE  SystemType'
  BY DEF SystemType, system, Running

\* A request that is added, taken, tried again or copied back.
LEMMA InjectType ==
  ASSUME InjectorType, NEW p \in Pid
  PROVE  Inject(p) \in Seq(InjectRequest)
  <1>1. [pid |-> p, retries |-> Retries] \in InjectRequest
    BY WatchAssumption DEF InjectRequest
  <1>2. Append(requests, [pid |-> p, retries |-> Retries]) \in Seq(InjectRequest)
    BY <1>1, AppendElements DEF InjectorType
  <1>3. QED
    BY <1>2 DEF Inject, InjectorType

\* Requests at some places of the queue are a queue of requests.
LEMMA RequestsAtType ==
  ASSUME InjectorType, NEW I \in SUBSET DOMAIN requests, Cardinality(I) \in Nat
  PROVE  RequestsAt(I) \subseteq Seq(InjectRequest)
  <1> SUFFICES ASSUME NEW g \in [1..Cardinality(I) -> I]
               PROVE  [k \in DOMAIN g |-> requests[g[k]]] \in Seq(InjectRequest)
    BY DEF RequestsAt
  <1>1. \A k \in 1..Cardinality(I) : requests[g[k]] \in InjectRequest
    BY DEF InjectorType
  <1>2. QED
    BY <1>1

LEMMA TakeType ==
  ASSUME InjectorType, Take
  PROVE  InjectorType'
  <1> DEFINE new == {i \in DOMAIN requests : requests[i].retries = Retries}
  <1>1. /\ injector' \in {"off", "take", "inject", "asks", "wait", "exit"}
        /\ UNCHANGED <<again, injectorRunning>>
    BY DEF Take
  <1>2. IsFiniteSet(DOMAIN requests)
    <2>1. DOMAIN requests = 1..Len(requests) /\ Len(requests) \in Nat
      BY DEF InjectorType
    <2>2. QED
      BY <2>1, FS_Interval
  <1>3. \A I \in SUBSET DOMAIN requests : Cardinality(I) \in Nat
    BY <1>2, FS_Subset, FS_CardinalityType
  <1>4. requests' \in Seq(InjectRequest) /\ working' \in Seq(InjectRequest)
    <2>1. CASE working' = requests /\ requests' = <<>>
      BY <2>1 DEF InjectorType
    <2>2. CASE /\ working' \in RequestsAt(new)
               /\ requests' \in RequestsAt(DOMAIN requests \ new)
      <3>1. /\ new \in SUBSET DOMAIN requests
            /\ (DOMAIN requests \ new) \in SUBSET DOMAIN requests
        OBVIOUS
      <3>2. RequestsAt(new) \subseteq Seq(InjectRequest)
        BY <1>3, <3>1, RequestsAtType
      <3>3. RequestsAt(DOMAIN requests \ new) \subseteq Seq(InjectRequest)
        BY <1>3, <3>1, RequestsAtType
      <3>4. QED
        BY <2>2, <3>2, <3>3
    <2>3. QED
      BY <2>1, <2>2 DEF Take
  <1>5. QED
    BY <1>1, <1>4 DEF InjectorType

LEMMA DoInjectType ==
  ASSUME SystemType, InjectorType, DoInject
  PROVE  SystemType' /\ InjectorType'
  <1> DEFINE r == Head(working)
  <1>1. r \in InjectRequest /\ Tail(working) \in Seq(InjectRequest)
    BY DEF DoInject, InjectorType
  <1>2. r.pid \in Pid /\ r.retries \in 0..Retries
    BY <1>1 DEF InjectRequest
  <1>3. injected' \subseteq Running /\ dropped' \subseteq Running
    <2>1. game[r.pid] = "running" => r.pid \in Running
      BY <1>2 DEF Running
    <2>2. QED
      BY <2>1 DEF DoInject, SystemType
  <1>4. SystemType'
    BY <1>3 DEF DoInject, SystemType, Running
  <1>5. Retryable(r) => [r EXCEPT !.retries = @ - 1] \in InjectRequest
    BY <1>1, <1>2, WatchAssumption DEF Retryable, InjectRequest
  <1>6. Retryable(r) => Append(again, [r EXCEPT !.retries = @ - 1]) \in Seq(InjectRequest)
    BY <1>5, AppendElements DEF InjectorType
  <1>7. /\ again' \in Seq(InjectRequest) /\ working' = Tail(working)
        /\ injector' \in {injector, "asks"}
    BY <1>6 DEF DoInject, InjectorType
  <1>8. InjectorType'
    BY <1>1, <1>7 DEF DoInject, InjectorType
  <1>9. QED
    BY <1>4, <1>8

LEMMA InjectorStepType ==
  ASSUME ValueType, Injector \/ MessageBoxClosed
  PROVE  ValueType'
  <1>0. SystemType /\ ThreadType /\ InjectorType
    BY DEF ValueType
  <1>1. ThreadType'
    BY <1>0 DEF Injector, Take, DoInject, CopyBack, InjectorWakes, MessageBoxClosed,
                mainVars, monitorVars, ThreadType
  <1>2. CASE Take
    <2>1. SystemType'
      BY <1>0, <1>2 DEF Take, system, history, SystemType, Running
    <2>2. QED
      BY <1>0, <1>1, <1>2, <2>1, TakeType DEF ValueType
  <1>3. CASE DoInject
    BY <1>0, <1>1, <1>3, DoInjectType DEF ValueType
  <1>4. CASE CopyBack
    <2>1. SystemType'
      BY <1>0, <1>4 DEF CopyBack, system, history, SystemType, Running
    <2>2. requests \o again \in Seq(InjectRequest)
      BY <1>0 DEF InjectorType
    <2>3. InjectorType'
      BY <1>0, <1>4, <2>2 DEF CopyBack, PutBack, InjectorType
    <2>4. QED
      BY <1>1, <2>1, <2>3 DEF ValueType
  <1>5. CASE InjectorWakes
    <2>1. SystemType'
      BY <1>0, <1>5 DEF InjectorWakes, system, history, SystemType, Running
    <2>2. InjectorType'
      BY <1>0, <1>5 DEF InjectorWakes, InjectorType
    <2>3. QED
      BY <1>1, <2>1, <2>2 DEF ValueType
  <1>6. CASE MessageBoxClosed
    <2>1. SystemType'
      BY <1>0, <1>6 DEF MessageBoxClosed, system, history, SystemType, Running
    <2>2. InjectorType'
      BY <1>0, <1>6 DEF MessageBoxClosed, InjectorType
    <2>3. QED
      BY <1>1, <2>1, <2>2 DEF ValueType
  <1>7. QED
    BY <1>2, <1>3, <1>4, <1>5, <1>6 DEF Injector

\* The main thread, and what is chosen in the menu.
LEMMA MainStepType ==
  ASSUME ValueType, WatchInv, MainThread \/ RefreshInjections \/ Quit
  PROVE  ValueType'
  <1>0. SystemType /\ ThreadType /\ InjectorType
    BY DEF ValueType
  <1>1. UNCHANGED <<system, late, dropped>>
    BY DEF MainThread, StartMonitor, CreateEvent, StartInjector, InjectAll, OnProcessAdded,
           OnProcessRemoved, StopProcessMonitor, MonitorJoined, RefreshInjections, Quit,
           history
  <1>2. unsure' \subseteq Pid
    BY <1>0, RunningType DEF MainThread, StartMonitor, CreateEvent, StartInjector, InjectAll,
           OnProcessAdded, OnProcessRemoved, StopProcessMonitor, MonitorJoined,
           RefreshInjections, Quit, history, SystemType
  <1>3. SystemType'
    BY <1>0, <1>1, <1>2, SystemKept
  <1>4. CASE StartMonitor
    BY <1>0, <1>3, <1>4, RunningType
       DEF ValueType, StartMonitor, Goes, injectorVars, ThreadType, InjectorType
  <1>5. CASE CreateEvent \/ StartInjector
    BY <1>0, <1>3, <1>5, RunningType
       DEF ValueType, CreateEvent, StartInjector, Goes, injectorVars, monitorVars,
           ThreadType, InjectorType
  <1>6. CASE InjectAll
    <2>1. pids' \subseteq Pid /\ main' \in {"inject all", "pump"}
      BY <1>0, <1>6 DEF InjectAll, ThreadType
    <2>2. requests' \in Seq(InjectRequest)
      BY <1>0, <1>6, InjectType DEF InjectAll, ThreadType, InjectorType
    <2>3. ThreadType' /\ InjectorType'
      BY <1>0, <1>6, <2>1, <2>2 DEF InjectAll, monitorVars,
           ThreadType, InjectorType
    <2>4. QED
      BY <1>3, <2>3 DEF ValueType
  <1>7. CASE OnProcessAdded
    <2>1. told \in ToSet(allProcesses)
      BY <1>7 DEF OnProcessAdded, WatchInv, ToldInv
    <2>2. told \in Pid
      BY <2>1 DEF WatchInv, HandlesInv, ToSet
    <2>3. ThreadType' /\ InjectorType'
      BY <1>0, <1>7, <2>2, InjectType DEF OnProcessAdded, ThreadType, InjectorType
    <2>4. QED
      BY <1>3, <2>3 DEF ValueType
  <1>8. CASE OnProcessRemoved
    BY <1>0, <1>3, <1>8 DEF ValueType, OnProcessRemoved, injectorVars, ThreadType,
                               InjectorType
  <1>9. CASE StopProcessMonitor \/ MonitorJoined \/ RefreshInjections \/ Quit
    BY <1>0, <1>3, <1>9, RunningType
       DEF ValueType, StopProcessMonitor, Stopped, MonitorJoined, RefreshInjections, Quit,
           Goes, injectorVars, monitorVars,
           ThreadType, InjectorType
  <1>10. QED
    BY <1>4, <1>5, <1>6, <1>7, <1>8, <1>9 DEF MainThread

LEMMA MonitorStepType ==
  ASSUME ValueType, Monitor
  PROVE  ValueType'
  <1>0. SystemType /\ ThreadType /\ InjectorType
    BY DEF ValueType
  <1>1. InjectorType'
    BY <1>0 DEF Monitor, MonitorBegin, Snapshot, MonitorExit, CompareNew, WaitProcess,
                WaitNothing, injectorVars, InjectorType
  <1>2. CASE MonitorBegin \/ Snapshot
    <2>1. SystemType'
      BY <1>0, <1>2, RunningType, SystemKept DEF MonitorBegin, Snapshot, Found, SystemType
    <2>2. ThreadType'
      BY <1>0, <1>2, RunningType
         DEF MonitorBegin, Snapshot, MonitorGoes, Found, mainVars, ThreadType
    <2>3. QED
      BY <1>1, <2>1, <2>2 DEF ValueType
  <1>3. CASE MonitorExit \/ WaitNothing
    <2>1. SystemType'
      BY <1>0, <1>3, SystemKept DEF MonitorExit, WaitNothing, history, SystemType
    <2>2. ThreadType'
      BY <1>0, <1>3 DEF MonitorExit, WaitNothing, MonitorGoes, mainVars, ThreadType
    <2>3. QED
      BY <1>1, <2>1, <2>2 DEF ValueType
  <1>4. ASSUME NEW p \in Pid, CompareNew(p) PROVE ValueType'
    <2>1. SystemType'
      BY <1>0, <1>4, SystemKept DEF CompareNew, history, SystemType
    <2>2. Append(allProcesses, p) \in Seq(Pid)
      BY <1>0, AppendElements DEF ThreadType
    <2>3. ThreadType'
      BY <1>0, <1>4, <2>2 DEF CompareNew, mainVars, ThreadType
    <2>4. QED
      BY <1>1, <2>1, <2>3 DEF ValueType
  <1>5. CASE WaitProcess
    <2>1. PICK i \in Signaled :
              /\ allProcesses' = Forgotten(i) /\ told' = allProcesses[i]
              /\ game' = [game EXCEPT ![allProcesses[i]] = IF @ = "exited" THEN "none" ELSE @]
      BY <1>5 DEF WaitProcess
    <2>2. i \in DOMAIN allProcesses /\ allProcesses[i] \in Pid
      <3>1. i \in DOMAIN allProcesses
        BY DEF Signaled
      <3>2. allProcesses \in Seq(Pid)
        BY <1>0 DEF ThreadType
      <3>3. QED
        BY <3>1, <3>2
    <2>3. Forgotten(i) \in Seq(Pid)
      BY <1>0, <2>2, RemovePlaces DEF Forgotten, ThreadType
    <2>4. Running' = Running
      BY <1>0, <2>1, <2>2 DEF Running, SystemType
    <2>5. game' \in [Pid -> {"none", "running", "exited"}]
      BY <1>0, <2>1, <2>2 DEF SystemType
    <2>6. SystemType'
      BY <1>0, <1>5, <2>4, <2>5 DEF WaitProcess, history, SystemType
    <2>7. ThreadType'
      BY <1>0, <1>5, <2>1, <2>2, <2>3 DEF WaitProcess, mainVars, ThreadType
    <2>8. QED
      BY <1>1, <2>6, <2>7 DEF ValueType
  <1>6. QED
    BY <1>2, <1>3, <1>4, <1>5 DEF Monitor

LEMMA GameStepType ==
  ASSUME ValueType, NEW p \in Pid, GameStart(p) \/ GameExit(p)
  PROVE  ValueType'
  <1>0. SystemType /\ ThreadType /\ InjectorType
    BY DEF ValueType
  <1>1. ThreadType' /\ InjectorType'
    <2>1. UNCHANGED <<mainVars, monitorVars, injectorVars>>
      BY DEF GameStart, GameExit
    <2>2. ThreadType'
      BY <1>0, <2>1 DEF mainVars, monitorVars, ThreadType
    <2>3. InjectorType'
      BY <1>0, <2>1 DEF injectorVars, InjectorType
    <2>4. QED
      BY <2>2, <2>3
  <1>2. CASE GameStart(p)
    <2>1. game' \in [Pid -> {"none", "running", "exited"}] /\ Running' = Running \cup {p}
      BY <1>0, <1>2 DEF GameStart, SystemType, Running
    <2>2. SystemType'
      BY <1>0, <1>2, <2>1, WatchAssumption DEF GameStart, SystemType
    <2>3. QED
      BY <1>1, <2>2 DEF ValueType
  <1>3. CASE GameExit(p)
    <2>1. game' \in [Pid -> {"none", "running", "exited"}] /\ Running' = Running \ {p}
      BY <1>0, <1>3 DEF GameExit, SystemType, Running
    <2>2. SystemType'
      BY <1>0, <1>3, <2>1 DEF GameExit, SystemType
    <2>3. QED
      BY <1>1, <2>2 DEF ValueType
  <1>4. QED
    BY <1>2, <1>3

LEMMA NextType == ValueType /\ WatchInv /\ [Next]_vars => ValueType'
  <1> SUFFICES ASSUME ValueType, WatchInv, [Next]_vars PROVE ValueType'
    OBVIOUS
  <1>1. CASE UNCHANGED vars
    <2>1. SystemType'
      BY <1>1 DEF ValueType, SystemType, Running, vars, system, history
    <2>2. ThreadType'
      BY <1>1 DEF ValueType, ThreadType, vars, mainVars, monitorVars
    <2>3. InjectorType'
      BY <1>1 DEF ValueType, InjectorType, vars, injectorVars
    <2>4. QED
      BY <2>1, <2>2, <2>3 DEF ValueType
  <1>2. CASE Next
    BY <1>2, MainStepType, MonitorStepType, InjectorStepType, GameStepType DEF Next
  <1>3. QED
    BY <1>1, <1>2

LEMMA FlagsType ==
  /\ Init => FlagType
  /\ FlagType /\ [Next]_vars => FlagType'
  <1>1. Init => FlagType
    BY Zenon DEF Init, FlagType
  <1>2. FlagType /\ [Next]_vars => FlagType'
    <2> SUFFICES ASSUME FlagType, [Next]_vars PROVE FlagType'
      OBVIOUS
    <2>1. CASE MainThread \/ RefreshInjections \/ Quit
      BY <2>1, Zenon DEF FlagType, MainThread, StartMonitor, CreateEvent, StartInjector,
         InjectAll, OnProcessAdded, OnProcessRemoved, StopProcessMonitor, Stopped,
         MonitorJoined, RefreshInjections, Quit, monitorVars, injectorVars
    <2>2. CASE Monitor
      BY <2>2, Zenon DEF FlagType, Monitor, MonitorBegin, Snapshot, MonitorExit, CompareNew,
         WaitProcess, WaitNothing, injectorVars
    <2>3. CASE Injector \/ MessageBoxClosed
      BY <2>3, Zenon DEF FlagType, Injector, Take, DoInject, CopyBack, InjectorWakes,
         MessageBoxClosed, monitorVars
    <2>4. CASE \E p \in Pid : GameStart(p) \/ GameExit(p)
      BY <2>4, Zenon DEF FlagType, GameStart, GameExit, monitorVars, injectorVars
    <2>5. CASE UNCHANGED vars
      BY <2>5, Zenon DEF FlagType, vars, monitorVars, injectorVars
    <2>6. QED
      BY <2>1, <2>2, <2>3, <2>4, <2>5 DEF Next
  <1>3. QED
    BY <1>1, <1>2

-----------------------------------------------------------------------------
(* The theorems.                                                             *)

\* Every variable keeps its type: of the requests that the injector takes, tries
\* again and copies back (InjectorThread) none has more retries than it started
\* with, nor less than none.
THEOREM TypeCorrect == Spec => []TypeOK
  <1>1. Init => ValueType /\ FlagType /\ WatchInv
    BY InitInv, InitType, FlagsType
  <1>2. ValueType /\ FlagType /\ WatchInv /\ [Next]_vars
          => (ValueType /\ FlagType /\ WatchInv)'
    BY NextInv, NextType, FlagsType
  <1>3. ValueType /\ FlagType => TypeOK
    BY TypeParts
  <1>4. QED
    BY <1>1, <1>2, <1>3, PTL DEF Spec

\* The monitor holds one handle of each game it knows, and a game whose id is
\* still taken by a handle is known (ThreadProc, allProcesses and waitList).
THEOREM HandlesHeldCorrect == Spec => []HandlesHeld
  <1>1. WatchInv => HandlesHeld
    BY DEF WatchInv, HandlesInv, HandlesHeld, Distinct
  <1>2. QED
    BY <1>1, InitInv, NextInv, PTL DEF Spec

\* The main window's list of processes follows the monitor's, however the two
\* threads interleave at the start and while messages are sent (OnProcessAdded,
\* OnProcessRemoved).
THEOREM IdsFollowCorrect == Spec => []IdsFollow
  <1>1. WatchInv => IdsFollow
    BY DEF WatchInv
  <1>2. QED
    BY <1>1, InitInv, NextInv, PTL DEF Spec
=============================================================================
