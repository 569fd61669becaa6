---------------------------- MODULE ProcessWatch ----------------------------
(***************************************************************************)
(* The launcher finds the games that run and injects into them.  Three      *)
(* threads: the main thread starts the others, owns the main window and     *)
(* asks for injections; the monitor compares snapshots of the processes     *)
(* with the handles it holds and sends the window what changed; the         *)
(* injector works on the queue of requests.  Games start and exit at will.  *)
(***************************************************************************)
EXTENDS Naturals, SequencesExt

CONSTANTS
    Pid,            \* process ids games may get
    NoPid,          \* none of them
    Watched,        \* the ids liveness is stated of: any one stands for all
    Slow,           \* the ids whose games may not answer an injection yet
    Other,          \* the ids whose games may have another version
    Retries,        \* the retries of a request (10)
    MaxWait,        \* MAXIMUM_WAIT_OBJECTS (64)
    MaxStart,       \* bound: games started
    MaxQueue        \* bound: requests not served when "Refresh Injections" is chosen

ASSUME WatchAssumption ==
    /\ NoPid \notin Pid /\ Watched \cup Slow \cup Other \subseteq Pid
    /\ Retries \in Nat /\ MaxWait \in Nat \ {0}
    /\ MaxStart \in Nat /\ MaxQueue \in Nat

InjectRequest == [pid : Pid, retries : 0..Retries]

VARIABLES
    \* the system
    game,           \* game[p]: an exited game keeps its id while a handle is open
    injected,       \* games that have MQ2Main loaded
    starts,         \* games started so far, for MaxStart
    \* the main thread
    main,           \* where it is
    processIds,     \* s_processIds
    pids,           \* the rest of the list InjectAllRunningProcesses goes over
    \* the monitor: the thread, and what ToolHelpProcessMonitor holds
    monitor,        \* where it is
    running,        \* m_running
    event,          \* m_event: "null" until created
    waitsOn,        \* the first handle of waitList is m_event
    initial,        \* the first pass
    processList,    \* the rest of the snapshot
    allProcesses,   \* the games it holds a handle of, in the order of waitList
    told,           \* the game it is telling the main window of
    \* the injector
    injector,       \* where it is
    injectorRunning,
    requests,       \* s_injectRequests
    working,        \* the requests it has taken, and those to put back
    again,
    \* history
    unsure,         \* ids the first lists of the two threads have, and no message told
    late,           \* running games the monitor's first pass does not find
    dropped         \* running games a request was given up for

system == <<game, injected, starts>>
mainVars == <<main, processIds, pids>>
monitorVars == <<monitor, running, event, waitsOn, initial, processList,
                 allProcesses, told>>
injectorVars == <<injector, injectorRunning, requests, working, again>>
history == <<unsure, late, dropped>>
vars == <<system, mainVars, monitorVars, injectorVars, history>>

Running == {p \in Pid : game[p] = "running"}

Init ==
    /\ game = [p \in Pid |-> "none"]
    /\ injected = {} /\ starts = 0
    /\ main = "ids" /\ processIds = {} /\ pids = {}
    /\ monitor = "off" /\ running = FALSE /\ event = "null" /\ waitsOn = FALSE
    /\ initial = TRUE /\ processList = {} /\ allProcesses = <<>> /\ told = NoPid
    /\ injector = "off" /\ injectorRunning = FALSE
    /\ requests = <<>> /\ working = <<>> /\ again = <<>>
    /\ unsure = {} /\ late = {} /\ dropped = {}

-----------------------------------------------------------------------------
(* The system.                                                              *)

\* The monitor's first pass is still to find p, and will not tell of it.
Unwatched(p) ==
    initial /\ (monitor \in {"off", "begin"} \/ p \in processList)

GameStart(p) ==
    /\ game[p] = "none" /\ starts < MaxStart
    /\ game' = [game EXCEPT ![p] = "running"]
    /\ starts' = starts + 1
    /\ late' = IF Unwatched(p) THEN late ELSE late \cup {p}
    /\ UNCHANGED <<injected, mainVars, monitorVars, injectorVars, unsure,
                   dropped>>

GameExit(p) ==
    /\ game[p] = "running"
    /\ game' = [game EXCEPT
                    ![p] = IF p \in ToSet(allProcesses) THEN "exited" ELSE "none"]
    /\ injected' = injected \ {p}
    /\ late' = late \ {p} /\ dropped' = dropped \ {p}
    /\ UNCHANGED <<starts, mainVars, monitorVars, injectorVars, unsure>>

-----------------------------------------------------------------------------
(* The main thread.                                                         *)

\* A step of the main thread, which leaves the rest alone but for what it names.
Goes(from, to) == main = from /\ main' = to

\* Inject: a request for a process that does not have MQ2Main.
Inject(p) ==
    IF p \in injected THEN requests
    ELSE Append(requests, [pid |-> p, retries |-> Retries])

\* s_processIds = GetAllEqGameSessions(), and ToolHelpProcessMonitor::Start,
\* whose thread runs before the step below.
StartMonitor ==
    /\ Goes("ids", "create event")
    /\ processIds' = Running /\ unsure' = Running
    /\ monitor' = "begin"
    /\ UNCHANGED <<system, pids, running, event, waitsOn, initial,
                   processList, allProcesses, told, injectorVars, late, dropped>>

\* m_running = true; m_event.create()
CreateEvent ==
    /\ Goes("create event", "start injector")
    /\ running' = TRUE /\ event' = "created"
    /\ UNCHANGED <<system, processIds, pids, monitor, waitsOn, initial,
                   processList, allProcesses, told, injectorVars, history>>

\* InitializeInjector, up to GetAllEqGameSessions in InjectAllRunningProcesses.
StartInjector ==
    /\ Goes("start injector", "inject all")
    /\ injector' = "take" /\ injectorRunning' = TRUE
    /\ pids' = Running
    /\ UNCHANGED <<system, processIds, monitorVars, requests, working, again,
                   history>>

\* The rest of InjectAllRunningProcesses.
InjectAll ==
    /\ main = "inject all"
    /\ IF pids = {}
       THEN main' = "pump" /\ UNCHANGED <<pids, requests>>
       ELSE \E p \in pids :
                /\ pids' = pids \ {p}
                /\ requests' = Inject(p)
                /\ UNCHANGED main
    /\ UNCHANGED <<system, processIds, monitorVars, injector,
                   injectorRunning, working, again, history>>

\* Chosen in the menu.  Messages that are being sent are received before.
RefreshInjections ==
    /\ Goes("pump", "inject all")
    /\ monitor \notin {"added", "removed"}
    /\ Len(requests) + Len(working) + Len(again) <= MaxQueue
    /\ pids' = Running
    /\ UNCHANGED <<system, processIds, monitorVars, injectorVars, history>>

\* The window's procedure while the messages are pumped: OnProcessAdded.  The
\* monitor's SendMessage returns.
OnProcessAdded ==
    /\ main = "pump" /\ monitor = "added"
    /\ processIds' = processIds \cup {told}
    /\ requests' = Inject(told)
    /\ monitor' = "compare" /\ told' = NoPid
    /\ unsure' = unsure \ {told}
    /\ UNCHANGED <<system, main, pids, running, event, waitsOn, initial,
                   processList, allProcesses, injector, injectorRunning,
                   working, again, late, dropped>>

OnProcessRemoved ==
    /\ main = "pump" /\ monitor = "removed"
    /\ processIds' = processIds \ {told}
    /\ monitor' = "test" /\ told' = NoPid
    /\ unsure' = unsure \ {told}
    /\ UNCHANGED <<system, main, pids, running, event, waitsOn, initial,
                   processList, allProcesses, injectorVars, late, dropped>>

\* WM_QUIT, which the menu posts, or the injector of a launcher that injects
\* only once; then ShutdownInjector up to the join.  Nothing is pumped any more.
Quit ==
    /\ Goes("pump", "join injector")
    /\ injectorRunning' = FALSE
    /\ UNCHANGED <<system, processIds, pids, monitorVars, injector,
                   requests, working, again, history>>


\* ToolHelpProcessMonitor::Stop up to the join.
Stopped == event' = "set" /\ running' = FALSE

StopProcessMonitor ==
    /\ Goes("join injector", "join monitor")
    /\ injector = "exit"
    /\ Stopped
    /\ UNCHANGED <<system, processIds, pids, monitor, waitsOn, initial,
                   processList, allProcesses, told, injectorVars, history>>

MonitorJoined ==
    /\ Goes("join monitor", "done")
    /\ monitor = "exit"
    /\ UNCHANGED <<system, processIds, pids, monitorVars, injectorVars,
                   history>>

MainThread ==
    \/ StartMonitor \/ CreateEvent \/ StartInjector \/ InjectAll
    \/ OnProcessAdded \/ OnProcessRemoved
    \/ StopProcessMonitor \/ MonitorJoined

-----------------------------------------------------------------------------
(* The monitor: ThreadProc.                                                 *)

MonitorGoes(from, to) == monitor = from /\ monitor' = to

Found ==
    /\ processList' = Running
    /\ unsure' = IF initial THEN unsure \cup Running ELSE unsure

\* waitList.push_back(m_event.get()), and the first snapshot.
MonitorBegin ==
    /\ MonitorGoes("begin", "compare")
    /\ waitsOn' = (event # "null")
    /\ Found
    /\ UNCHANGED <<system, mainVars, running, event, initial, allProcesses, told,
                   injectorVars, late, dropped>>

\* while (m_running), and the next snapshot.
Snapshot ==
    /\ running /\ MonitorGoes("test", "compare")
    /\ Found
    /\ UNCHANGED <<system, mainVars, running, event, waitsOn, initial,
                   allProcesses, told, injectorVars, late, dropped>>

MonitorExit ==
    /\ ~running /\ MonitorGoes("test", "exit")
    /\ UNCHANGED <<system, mainVars, running, event, waitsOn, initial, processList,
                   allProcesses, told, injectorVars, history>>

\* A process that is not known yet: OpenProcess fails if it has exited.  The
\* main window is told of it, and the thread waits until it has been.
CompareNew(p) ==
    /\ monitor = "compare" /\ p \in processList
    /\ processList' = processList \ {p}
    /\ IF p \in ToSet(allProcesses) \/ game[p] # "running"
       THEN UNCHANGED <<monitor, allProcesses, told>>
       ELSE /\ allProcesses' = Append(allProcesses, p)
            /\ IF initial THEN UNCHANGED <<monitor, told>>
                          ELSE monitor' = "added" /\ told' = p
    /\ UNCHANGED <<system, mainVars, running, event, waitsOn, initial,
                   injectorVars, history>>

\* The handles that are signaled, in waitList's order.
Signaled == {i \in DOMAIN allProcesses : game[allProcesses[i]] = "exited"}

\* Mutated form of Forgotten: only waitList loses the handle.
ForgottenHandle(i) == allProcesses

\* allProcesses without the entry of the i-th process handle of waitList.
Forgotten(i) == RemoveAt(allProcesses, i)

\* waitList has too many handles, or one that is null.
WaitFails == Len(allProcesses) + 1 > MaxWait \/ ~waitsOn

\* The whole snapshot has been compared.
Waits == monitor = "compare" /\ processList = {}

\* The first process that is signaled is forgotten, its handle is closed, and
\* the main window is told.
WaitProcess ==
    /\ Waits /\ ~WaitFails /\ event # "set"
    /\ monitor' = "removed" /\ initial' = FALSE
    /\ \E i \in Signaled :
        LET p == allProcesses[i]
        IN  /\ \A j \in Signaled : i <= j
            /\ allProcesses' = Forgotten(i)
            /\ told' = p
            /\ game' = [game EXCEPT ![p] = IF @ = "exited" THEN "none" ELSE @]
    /\ UNCHANGED <<injected, starts, mainVars, running, event, waitsOn,
                   processList, injectorVars, history>>

\* The event is set, the wait times out, or it fails.
WaitNothing ==
    /\ Waits /\ (WaitFails \/ event = "set" \/ Signaled = {})
    /\ monitor' = "test" /\ initial' = FALSE
    /\ UNCHANGED <<system, mainVars, running, event, waitsOn, processList,
                   allProcesses, told, injectorVars, history>>

Monitor ==
    \/ MonitorBegin \/ Snapshot \/ MonitorExit
    \/ \E p \in Pid : CompareNew(p)
    \/ WaitProcess \/ WaitNothing

-----------------------------------------------------------------------------
(* The injector: InjectorThread.                                            *)

\* The requests at the places I of the queue, in their order: one sequence.
RequestsAt(I) ==
    {[k \in DOMAIN f |-> requests[f[k]]] :
        f \in {g \in [1..Cardinality(I) -> I] : IsSorted(g, <)}}

\* The requests whose time has come are taken: the new ones and, when a second
\* has passed, the retries.  Only a notification of a new one ends a wait early.
Take ==
    /\ injector = "take" /\ injector' = "inject"
    /\ LET new == {i \in DOMAIN requests : requests[i].retries = Retries}
       IN  \/ /\ working' = requests /\ requests' = <<>>
           \/ /\ new # {}
              /\ working' \in RequestsAt(new)
              /\ requests' \in RequestsAt(DOMAIN requests \ new)
    /\ UNCHANGED <<system, mainVars, monitorVars, injectorRunning, again, history>>

\* Mutated form of Retryable: one retry too many.
RetryableOneMore(r) == r.retries >= 0

Retryable(r) == r.retries > 0

\* DoInject succeeds in a game that runs; it is tried again when the game does
\* not answer yet or has exited; it fails for good when there is no such process,
\* or access is denied, or the versions differ: then it shows a message box.
DoInject ==
    /\ injector = "inject" /\ working # <<>>
    /\ LET r == Head(working) IN
        /\ working' = Tail(working)
        /\ \/ /\ game[r.pid] = "running"
              /\ injected' = injected \cup {r.pid}
              /\ UNCHANGED <<injector, again, dropped>>
           \/ /\ game[r.pid] # "none" /\ r.pid \in Slow /\ Retryable(r)
              /\ again' = Append(again, [r EXCEPT !.retries = @ - 1])
              /\ UNCHANGED <<injector, injected, dropped>>
           \/ /\ dropped' = dropped \cup ({r.pid} \cap Running)
              /\ \/ UNCHANGED injector
                 \/ game[r.pid] # "none" /\ r.pid \in Other /\ injector' = "asks"
              /\ UNCHANGED <<injected, again>>
    /\ UNCHANGED <<game, starts, mainVars, monitorVars, injectorRunning, requests,
                   unsure, late>>

\* The message box is modal and its owner is the main window: the thread is in
\* DoInject until the user has closed it, which may be never, and which may not
\* be possible while the main thread serves no messages.
MessageBoxClosed ==
    /\ injector = "asks" /\ injector' = "inject"
    /\ UNCHANGED <<system, mainVars, monitorVars, injectorRunning, requests, working,
                   again, history>>

\* Mutated form of PutBack: the queue is replaced by the retries.
PutBackOnly == again

\* What the queue holds when the retries have been copied back.
PutBack == requests \o again

CopyBack ==
    /\ injector = "inject" /\ working = <<>>
    /\ injector' = "wait"
    /\ requests' = PutBack
    /\ again' = <<>>
    /\ UNCHANGED <<system, mainVars, monitorVars, injectorRunning, working, history>>

\* The wait ends, by a notification or its time.  With injectOnce it may post
\* WM_QUIT: see Quit.
InjectorWakes ==
    /\ injector = "wait"
    /\ injector' = IF injectorRunning THEN "take" ELSE "exit"
    /\ UNCHANGED <<system, mainVars, monitorVars, injectorRunning, requests,
                   working, again, history>>

Injector == Take \/ DoInject \/ CopyBack \/ InjectorWakes

-----------------------------------------------------------------------------
Next ==
    \/ MainThread \/ RefreshInjections \/ Quit
    \/ Monitor \/ Injector \/ MessageBoxClosed
    \/ \E p \in Pid : GameStart(p) \/ GameExit(p)

Spec == Init /\ [][Next]_vars

\* Each thread runs.  Nothing says that the user closes a message box.
FairSpec ==
    /\ Spec
    /\ WF_vars(MainThread) /\ WF_vars(Monitor) /\ WF_vars(Injector)

-----------------------------------------------------------------------------
(* Properties.                                                              *)

TypeOK ==
    /\ game \in [Pid -> {"none", "running", "exited"}]
    /\ injected \subseteq Running
    /\ starts \in 0..MaxStart
    /\ main \in {"ids", "create event", "start injector", "inject all", "pump",
                 "join injector", "join monitor", "done"}
    /\ processIds \subseteq Pid /\ pids \subseteq Pid
    /\ monitor \in {"off", "begin", "compare", "added", "removed", "test", "exit"}
    /\ running \in BOOLEAN /\ event \in {"null", "created", "set"}
    /\ waitsOn \in BOOLEAN /\ initial \in BOOLEAN
    /\ processList \subseteq Pid /\ allProcesses \in Seq(Pid)
    /\ told \in Pid \cup {NoPid}
    /\ injector \in {"off", "take", "inject", "asks", "wait", "exit"}
    /\ injectorRunning \in BOOLEAN
    /\ requests \in Seq(InjectRequest) /\ working \in Seq(InjectRequest)
    /\ again \in Seq(InjectRequest)
    /\ unsure \subseteq Pid
    /\ late \subseteq Running /\ dropped \subseteq Running

\* The main window's list follows the monitor's: it has every game the monitor
\* found after its first pass, and none it saw exit.  What only the first lists
\* of the two threads hold may differ.
IdsFollow ==
    LET known == ToSet(allProcesses) \ {told}
        reported == processIds \ {told}
    IN  /\ known \ unsure \subseteq processIds
        /\ reported \ unsure \subseteq known

\* The monitor holds one handle a game, of games that run or have just exited:
\* an id is not used again while it is held.
HandlesHeld ==
    /\ \A i, j \in DOMAIN allProcesses :
            allProcesses[i] = allProcesses[j] => i = j
    /\ \A p \in Pid : game[p] = "exited" => p \in ToSet(allProcesses)
    /\ \A p \in ToSet(allProcesses) : game[p] # "none"

\* The launcher has left its loop.
Stopping == main \in {"join injector", "join monitor", "done"}

\* A game that starts once the monitor watches is injected, unless it exits,
\* injecting it fails, the launcher stops, or a message box about another game
\* stays open for ever.  The monitor's thread may have ended at once: see the
\* README.
LateInjected ==
    []<>(injector # "asks") =>
        \A p \in Watched :
            p \in late ~> \/ p \in injected \cup dropped \/ p \notin late
                          \/ Stopping \/ monitor = "exit"

\* The main thread joins a thread that waits for the user, or for the window that
\* is not served any more.
JoinsMessageBox == main = "join injector" /\ injector = "asks"
JoinsSendMessage == main = "join monitor" /\ monitor \in {"added", "removed"}

\* The launcher's shutdown ends, or hangs for ever in one of these two joins (at
\* ShutdownInjector with the version message open, or at StopProcessMonitor with
\* the monitor in SendMessage), and nowhere else, however the threads, the games
\* and the requests stand when it leaves its loop.
ShutdownEnds ==
    <>Stopping =>
        \/ <>(main = "done")
        \/ <>[]JoinsMessageBox
        \/ <>[]JoinsSendMessage
=============================================================================
