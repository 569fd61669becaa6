# Verification of MacroQuest's launcher, post offices, pipes and plugins

MacroQuest attaches to EverQuest clients. A *launcher* runs on every machine,
watches for game clients and injects MacroQuest into them; each client then runs
plugins, macros and Lua scripts. Launcher and clients talk over a named pipe,
launchers talk to each other over TCP, and on top of both the *actor* system
lets a script on one client send messages to, or call, a mailbox of another.
The modules model that messaging core (`src/src/routing`), where several
processes and several threads of each meet; the plugin handler of a client
(`src/src/main`), where any callback may call back in; and the launcher's process
monitor and injector (`src/src/loader`).

All paths below are relative to the repository's `src/src`.

## 1. Inventory

| Component | State it keeps | Operations | Talks to | What makes it correct |
|---|---|---|---|---|
| Post offices (`routing/PostOffice`, `ServerPostOffice`, `ClientPostOffice`, `main/MQPostOffice`) | mailboxes and their queues, RPC table, next sequence, the launcher's identities and outgoing messages | post, call, reply, route, deliver, process, register and remove a mailbox, announce an identity | pipe endpoints, peer network; callbacks into plugins and Lua | a call runs once at most, its callback once, with its own answer; errors only for calls that did not run; calls are answered |
| Pipe endpoints (`routing/NamedPipes`) | a callback queue each way, dirty flags, interrupt event | post to pipe thread, post to main thread, process, stop | the Windows pipe; handlers of the post office | nothing lost, doubled or reordered; no lost wake-up |
| Pipe connections (`routing/NamedPipes`, `routing/PostOffice.cpp`) | object life, read and write in flight, write queue, pipe-level RPC table, list of connections | connect, accept, read, write, call with a response, close, stop | endpoints; main threads of both sides | one callback a call, whatever ends the connection; messages in order; the end reported last |
| Peer network (`routing/Network`) | sessions in four containers, known, queued and pending hosts, process / receive / write queues | add and remove host, connect, accept, handshake, prune, send, process | sockets (ASIO thread), post office thread | one session per pair of peers, agreed by both; persistent hosts get connected; removed ones go away |
| Launcher directory (`ServerPostOffice`, `Connection`) | identities of clients and launchers, connections by uuid | add, drop, send identities | peer network, pipe connections | complete while a session is up, forgotten afterwards |
| Plugin handler (`main/MQPluginHandler`) | linked list, map by name, map of handles, failed unloads | load, unload, rounds of callbacks, shutdown | everything in the client | rounds survive what they call; no call into a freed DLL; shutdown gets on |
| Actor API (`main/MQActorAPI`) | dropboxes by plugin | add and remove actors, unload of a plugin | post office, plugin handler | no mailbox outlives its receiver |
| Command queues (`main/MQCommandAPI`) | commands and their owners, delayed and timed commands | add, remove, run, delay, pulse | plugins, macros | no handler outlives its plugin; order of what is delayed |
| Process monitor and injector (`loader/ProcessMonitor`, `ProcessList`, `loader/MacroQuest`) | handles of known games, wait list, launcher's list, injection queue | snapshot, compare, wait, notify, request, inject, retry, stop | main window of the launcher, Windows | every game reported once each way; late games injected; stop ends |
| Launcher application (`loader/MacroQuest`, `PostOffice`, `RemoteOps`, `Crashpad`) | windows, tray, settings | start and stop of the threads, window messages, focus | post office, process monitor | no thread waits for one that waits for it |
| Macro interpreter, data API (`MQ2MacroCommands`, `MQ2DataVars`, `MQDataAPI`) | macro stack, variables, events | commands of a macro | command queues | stack discipline |
| Frame limiter, pulse (`MQ2FrameLimiter`, `MQ2Pulse`) | timing state | render and simulation gates | game loop | simulation never starves |
| Autologin (`login/*`, `loader/LoaderAutoLogin`, `plugins/autologin`) | profiles, state machine | transitions on game screens | launcher by message | reaches the world or stops |
| Lua (`plugins/lua`) | threads, coroutines, events, actors | run, yield, event, exit | actor API | no callback into a dead thread |
| Display plugins, hot keys (`plugins/*`, `common/HotKeys`) | presentation | - | game | - |

`contrib`, vendored code, `src/imgui`, `src/zep`, `tools`, `data` and assets are
third-party or presentation and left aside. They are most of the repository's
lines; what the modules cover is its concurrent and re-entrant core.

Hard behaviours: a launcher has six kinds of thread (main, post office, pipe,
ASIO, process monitor, injector) and a client two (game, pipe); answers race
crashes and unloads; identities lag behind the game; two launchers connect to
each other at once; bookkeeping is deferred to another thread; overlapped
operations complete after the object that started them was closed; a callback
unloads what the loop around it is going over. `PROJECT.json` lists them one by
one under `hazards`, at the line where each bites.

## 2. Modules

```
RpcPromise            what a caller of an RPC is promised (abstract)
   ^ implemented by
ActorRouting          post offices of one machine        <- MCActorRouting, ActorRouting_proofs
   | uses a pipe as a FIFO that a crash or a stop ends
PipePromise           what the ends of a pipe are promised (abstract)
   ^ implemented by
PipeLink              connections of a pipe              <- MCPipeLink, PipeLink_proofs
   | uses a queue between threads as a FIFO
CallbackQueue         thread-to-thread queues            <- MCCallbackQueue, CallbackQueue_proofs

PeerNetwork           sessions between launchers         <- MCPeerNetwork, PeerNetwork_proofs
   ^ extended by                                            ^ extended by
LauncherDirectory     identities carried over sessions   <- MCLauncherDirectory, LauncherDirectory_proofs

PluginHandler         plugins of a client, their commands and actors
                                                         <- MCPluginHandler, PluginHandler_proofs
ProcessWatch          monitor and injector               <- MCProcessWatch, ProcessWatch_proofs
SequenceLemmas        facts about sequences, for the proofs of plugins, processes, peers and pipes
```

### ActorRouting

One launcher (`Launcher`) and a set of clients. `up[c]` and `down[c]` are the
pipe of client `c` in each direction together with the main-thread queue behind
it: FIFO, by the guarantee that CallbackQueue establishes. `known` and `identity`
are the launcher's `m_identities`, `boxes` and `mail` the mailboxes of every post
office, `pending` and `nextSeq` the RPC table. A profile (account, server,
character) is a set of facts; an address names some of them and matches every
profile that includes them, as `IsRecipient` compares only the fields that are
set. A mailbox name `b` "ends with" `a` when `<<b, a>> \in Ends`
(`FindMailbox`).

Actions are the handlers: `ClientPost` / `LauncherPost` (Dropbox::Post with its
post callback and `RouteMessage`), `LauncherRoute` (`RouteFromConnection`),
`ProcessOutgoing`, `LauncherIdentify`, `LauncherClosed`, `ClientReceive`
(`OnIncomingMessage`), `ProcessReply` / `ProcessMessage` (`Mailbox::Process`),
`Answer` (`PostReply`), `RemoveMailbox` / `RegisterAddress`, `Connect`,
`SetGameState`, `Crash`, `PipeClosed`; `ChangeProfile` is the game.
A routing step is a set of deliveries, so the answer to a call that is refused
(`RoutingFailed`) is part of the same step, as in the code. `executed` and
`answers` are history: what actors received and which callbacks ran, with the
true caller `of` that no code reads. `MaxPosters` bounds how many of the post
offices that may post do so (`MayPost`); it is a bound on inputs and nothing else.

`RpcPromise` says what a caller may rely on: runs at most once, callback at most
once, "ok" only after a run, an error only if it has not run and never will.
`ActorRouting` is mapped on it by `CallStateOf`; `KeepsPromise` is the refinement.

Abstractions: the launcher's loop handles one message per step (`ProcessOutgoing`
takes the head, not the batch; nothing runs in between that the order would
show); the call branch of `ProcessOutgoingMessage` does not complete the address,
the model does, which no later step tests; a message to oneself is dispatched at
once, as `PostToMainThread` does on its own thread; a client's request for all
identities is answered by messages clients ignore, and left out.

### PipeLink

A connection is one pipe with a `PipeConnection` object at each end. An object
lives as long as its endpoint lists it, an operation in flight holds it, or an
operation that could not be started keeps its reference (`Alive`, `leaked`). The
steps of a pipe thread are the callbacks of its queue (`QueuedSend`), the
completion routines (`HandleReadComplete`, `HandleReadError`,
`HandleWriteComplete`), the connect event of the server (`Accept`) and the loop
of the client (`Connect`, `Greet`). Completion routines run only where the thread
waits alertably. `Settle` is what every one of these steps ends in: a close, if
the step closed, the notices of `CloseConnection` and of the destructor, the
callbacks of the requests that were pending, in any order (`m_rpcRequests` is an
`unordered_map`). `CompleteRead` is Windows. The main
threads post (`Post`), greet an incoming connection (`Welcome`) and reply
(`Reply`); `Crash`, `StopClient` and `StopServer` are the faults.

`asked`, `called`, `answers` are history. Messages are numbered; what they carry
is left to ActorRouting.

`PipePromise` says what is left of all this for whoever uses the pipes: the launcher
receives a beginning of what was posted to each connection, one message after the
other, until that connection is over for good; a callback runs once, and hears of a
reply only if the launcher has received that call and replied to it. It says
nothing of reads, writes, queues, lists and references. `PipeLink` is mapped on it by
`Received` (the launcher's log), `Over` (closed, and no read outstanding: a connection
that is closed may still receive the one message whose read was complete), `Waiting`
and `Told`; `LinkKeepsPromise` is the refinement. This is the FIFO that ActorRouting
has for `up`, which ends with a crash or a stop, and of `down` the part that answers
calls; the order of what the launcher sends otherwise is not part of it.

Found while modelling, and part of the model: a first read that fails at once
closes a connection before it is put into the server's list, where it stays until
the launcher's greeting to it fails (`ErasedFromList`); a read that was completed
before the close is handled after it, so the launcher hears of a message after a
first notice of the end, but always of the end again (`ClosedIsLast`); a read or
write that fails at once leaves a reference that nobody drops, and leaks the object.

### CallbackQueue

`PostToPipeThread`, `PostToMainThread` and `ProcessQueuedCallbacks`, with the
event or the flag and condition variable of the consumer's loop, statement by
statement where another thread can come between: push and dirty flag under the
mutex, the event after it; reset of the event, compare-exchange of the flag
outside the mutex, swap under it, callbacks without it. `NamedPipeServer`'s loop
(event) and `ServerPostOffice::ThreadProc` (flag under a mutex, with a heartbeat)
differ only in `Heartbeat`. `posted` and `ran` are history. `compare_exchange_weak`
does not fail spuriously on the compilers and processors the project builds for.
The branch in which the consumer itself posts runs the callback directly; such a
callback overtakes queued ones and is not part of this queue.

### PeerNetwork

Peers, each with one address and one uuid (`Lower` orders them). `links` are TCP
connections; `sessions[p][l]` is p's `NetworkSession` on link `l`: the container
it is stored in, whether its key there is the host's address (a connection p made
or a session after its handshake) or a generated port, `m_active`, open, reading,
and the messages being written. `wire[p][l]` is what travels to p, `"end"` being
a FIN or a reset. `tasks` are functions posted to the `io_context`; `procs` and
`recvs` are the queues that the post office thread takes at once in `Process`
into `todo`, bookkeeping first, as the code does.

Every ASIO handler is one step that ends in `Finish`, the `PruneSessions` of
`Run`'s loop: it drops closed sessions, moves inactive ones, closes what it can
and queues the disconnect events. The post office thread's work on an event
(`Handle`) erases the known host later and in another thread, which is where the
directory's trouble comes from. `WriteDone` separates the start of a write from
its end, so that a session can read the end of the stream with a write in flight.

Bounds: `MaxLinks` connections at a time (slots are used again), `MaxEvents`
events waiting when a connect succeeds, `MaxAdd`, `MaxSend`, `MaxLoss` of the
environment's steps. `RemoveHost` is not taken for a host whose removed session
is still closing: a second one would destroy a session with its read outstanding
(undefined behaviour, a hazard).

### LauncherDirectory

Extends PeerNetwork: what the post office thread does with each event
(`SessionConnected`, `ReceiveIdentity`, `SessionDisconnected`), clients that
register and leave (`Register`, `Unregister`), and the disconnect handler called
on the ASIO thread when a connect fails (`ConnectFails`, `ProcessDropContainer`).
Identities to send are put at the head of `todo` and sent one by one
(`SendIdentification`), so that the ASIO thread can come between two of them, and
`HasHost` is asked for each. `due` is history: who should learn of a client.
A client that registers while there is no link is due at every launcher, since it
is sent with the others when a session begins; otherwise at the launchers in the
directory, which it is announced to.

### PluginHandler

One client's main thread. `list` is the linked list from `pPlugins`, `map`,
`handles` and `failed` are the handler's three maps, `modules` the plugins whose DLL
is in the process, `deleted` the instances that are freed, `commands`, `mailboxes`,
`dropboxes` what plugins register. Everything runs on one thread, and what makes it
hard is that every callback may call back in. `stack` therefore holds the calls in
progress: a `round` over the list with its place and whether the plugin at that
place has been called; the steps of a load (`add`, `announce`) and of an unload
(`shutdown`, `notify`, `free`), cut at their callbacks; the loops of the client's
shutdown (`unloadAll`, `unloadFailed`) and its question to the user (`ask`); and
`code`, a callback of a plugin, or a user's or an AutoExec file's commands (`Main`).
The operations of the API are enabled when code is innermost and stand for what that
code does. Code of a DLL that is not mapped does nothing more: the process ends
(`Crashed`).

A module may stay in the process when it is freed, because another holds it or
`FreeLibrary` fails (`UnloadFreed`): the plugin then has a record in `failed`, and a
later unload goes straight to its `Shutdown`. Two things follow in the code, and are
part of the model:

* The record's key is a view of the name the caller passed (`MQPluginHandler.cpp:712`,
  `733`): the command's local string (1489), or a plugin's own instance when the client
  shuts down. `Frame.key` says which; once that memory is freed the record may be found
  under its name or not at all (`FailedFinds`). If it is not, the plugin can be loaded
  anew while its earlier DLL is in the process, against `LoadPlugin`'s "3 - previous
  load of plugin is still unloading" (line 499). A freed key is not taken to read as
  another name.
* Whoever else holds the DLL may let go of it at any time (`Release`). It is unmapped
  then if the handler has no reference of its own left. The retry (671-681, 629-646)
  calls `CleanUI` and `Shutdown` in it whether or not it is mapped, and frees it once
  more than it was loaded, which takes the reference of a plugin loaded since.

`UnloadFailedPlugins` is one pass over a copy of the records; it reads the instances,
which may have been deleted meanwhile (755-756), and unloads what has the name it
reads, from the map if there is no record (685). `ShutdownFailedPlugins` makes the
second pass without asking, and asks the user after that and any later one.

`heard` is history: who was told of whose load. `retried` is history: names whose
failed unload was tried again.

`CodeMapped` and `MailboxesMapped` leave out `Exempt`: a DLL whose failed unload was
retried, since the code does call into it when it is gone, and the mailbox that an
`Untidy` plugin does not remove in its `Shutdown`, which
`OnPostUnloadPluginActorAPI` (`MQActorAPI.cpp:58`) does not find, because it looks the
plugin up by its name after that has left `s_pluginMap` (`MQPluginHandler.cpp:698`).

One thing is assumed of callers: nobody loads or unloads the name of a plugin
that a call in progress holds (`HeldNames`). The code does not check this (618,
693, 698), and a plugin that unloads itself from its own callback returns into a
freed module.

### ProcessWatch

Three threads of the launcher. The main thread reads the list of games, starts
the monitor and the injector, asks for an injection of all, and then pumps
messages (`OnProcessAdded`, `OnProcessRemoved`, `RefreshInjections`) until `Quit`
and the two joins. The monitor's `ThreadProc` is cut into snapshot, comparison of
one process at a time, and wait; `SendMessage` to the main window blocks it
(`monitor` "added", "removed") until the window is served. The injector takes the
requests that are due, injects, and copies back what it will retry. For a game of
another version (`Other`) it shows a modal message box whose owner is the main window
(`ProcessList.cpp:1006`), and is in `DoInject` until the user has closed it
(`injector` "asks", `MessageBoxClosed`). Games start and exit at any time; an id is
used again only when no handle of the monitor is open on it. (The box also keeps the
injector's handle of its game open; that the model may use the id again meanwhile only
adds behaviours.)

`unsure`, `late`, `dropped` are history: the games of which the first lists of
the two threads may disagree, those that start after the monitor's first pass has
passed them, those whose injection was given up.

## 3. Runs

| Run | Instance | Shows |
|---|---|---|
| `named` | two clients with different accounts, a character that comes and goes once, one call per client, crashes | TypeOK, AnswersAreOwn, refinement of RpcPromise (KeepsPromise), CallsAnswered |
| `churn` | profiles empty or not, two mailboxes of which one name ends with the other, both removed and registered at any time, messages and calls from any two of three | CallbackOnce, ExecutedOnce |
| `login` | one client without a profile | AnswersAreOwn violated |
| `handover` | two producers, two callbacks each, Stop at any time | TypeOK, RunInOrder, NoLostWakeup, PostedRuns |
| `pipes` | two connections one after the other, two calls over the first, one crash or stop | TypeOK, InOrder, ClosedIsLast, CallAccounted, refinement of PipePromise (LinkKeepsPromise), CallsSettle, ErasedFromList |
| `persistent` | two launchers, each persistent at the other, two links, one loss or failed connect | TypeOK, SessionsAgree, SameLinkKept, PersistentConnected |
| `removal` | p1 adds p2 twice and removes it, one message, one loss | ConnectOnce, AgreeUnlessStalled |
| `stuck` | p1 adds p2 and removes it, one message | RemovedIsPruned violated |
| `crossed` | both add each other over one link, one client at p2 that comes and goes, one loss or failed connect | DirTypeOK, Synced, ConnectionsMatch |
| `double` | both add each other over two links, no client, no loss | Synced violated |
| `plugins` | two names, three loads, one name whose plugins call the handler from their callbacks, one command, two failed unloads at a time, DLLs held and let go of by others, shutdown | TypeOK, EachOnce, CodeMapped, MailboxesMapped, ListsAgree, ToldOfGoing, ShutdownEnds |
| `watch` | two games, one slow to answer, one of another version, one retry, a wait list of two, refresh, quit at any time | TypeOK, IdsFollow, HandlesHeld, LateInjected, ShutdownEnds |

Bounds and why they are enough. Two clients and a launcher are all the roles a
message meets: a sender, a recipient or a wrong recipient, and the router; every
refusal depends on whether there are none, one or more matches. One call per
client suffices for a wrong answer because sequences start at 1 in each. Two
producers are needed for an order between threads and two callbacks each for an
order within one; a third of either repeats the argument (and RunInOrder and
NoLostWakeup are proved for any number).

`pipes`: two calls on one connection make an order, a write that waits behind
another, and a request that is pending while another is answered; the second
connection shows that nothing of the first enters it; one fault meets every stage
of both. The second connection is not posted to (`Busy`), for size: it is greeted,
identified, and may be closed.

`persistent` and `removal`: two links between two peers are what simultaneous
connects create; a third would need a second attempt while both are up, which
ConnectOnce excludes. One loss at any moment meets every stage of a connection.
`persistent` sends no messages, since a message in flight at a loss leaves the
half-closed session of `stuck`. `removal` does, and `AgreeUnlessStalled` says that
such a session is all that can keep two peers from agreeing: one that has stopped
reading and goes on, as `Close` did nothing while a write was under way (`Stalled`).
`SameLinkKept` says that two launchers never each keep the link that the other
discards. That they discard the same one of three links is not claimed: after a loss
each may discard another for a link that the other has left, and both connect again.
In `crossed` both may make the link, and each again after a loss; a connect succeeds
once the post offices have taken the events before it (`MaxEvents = 0`), though they
may not have handled them, which is when the deferred erasure meets a new session.
It claims `Synced` only while nothing was lost: after a loss, the deferred erasure
of the known host can remove it once a new session is established, and identities
are then not sent (`Network.cpp:1149`, `Connection.cpp:314`, `522`). It has one
link, because with two Synced fails without any loss, which is what `double` shows.

`plugins`: two names and three loads are a plugin, one that is loaded or unloaded
meanwhile, and a name that is loaded again while its first DLL, its record or its
registrations are left. One level of code that calls the handler puts a load or an
unload, with a round of its own, inside any other's round, load or unload; two records
make one that is retried and one that is left. No name is `Untidy` in this run, so
that what it shows of mailboxes is about plugins that remove theirs; the theorems are
for any `Untidy`.

`watch`: a wait list of two handles has room for the event and one game, so that
the second one makes the wait fail (64 in the program: with 64 games or more no
exit is noticed any more). Which of two games answers late, and which may have another
version, is all that tells them apart.

Deadlock is not checked: all instances end when their environment's bounds are
used up, and that is no fault of the program.

Fairness. `named`: each queue's consumer keeps running (weak fairness per client
and for the launcher's queues), and actors answer: `MailboxStep` includes
`Answer`, without which no call can be promised anything; CallsAnswered is
claimed while profiles are steady and nobody crashes. `handover`: the consumer
and a producer between push and signal are scheduled; the heartbeat is given no
fairness, so the wake-ups alone carry PostedRuns. `pipes`: Windows completes
reads, both pipe threads run, the launcher's main thread handles what it is told
and replies to calls; faults have none. `persistent`, `stuck`: ASIO completions, posted
functions and the post office's loop happen; a connect to a listening peer may
fail `MaxLoss` times and then succeeds; nothing makes anyone add, remove or lose a
host. `plugins`: the handler's own steps happen; code returns, at every depth
(strong fairness, since code that calls in again disables its own return for a
while): a callback that never returns stops the game's main thread, and no
shutdown could be promised. Nothing makes the user answer, or another holder let go of
a DLL. `watch`: each of the three threads runs; nothing makes a game start or exit, or
the user quit or close a message box.

`ShutdownEnds` of PluginHandler does not say that the shutdown ends, since the code's
loop `while (pPlugins)` (742) has no bound: a plugin that loads another one whenever it
is unloaded keeps it going for ever, and so does a head that has the name of an older
record whose DLL stays (`Shadowed`: each turn retries that record and puts it back, and
the head is never reached). It says that nothing else does: a shutdown that goes on
without ending, without asking the user, without a crash and outside `Shadowed` loads
plugins for ever. In the run, where `MaxPlugin` bounds the loads, that means that it
does not go on. It rests on the handler's own bookkeeping, namely that an unload takes
its plugin off the list even when the DLL stays.

`LateInjected` and `ShutdownEnds` of ProcessWatch name what the code leaves to the user.
LateInjected supposes that message boxes do not stay open for ever, since the injector
does nothing else meanwhile. It also leaves out two cases that the code has: the monitor's thread may
test `m_running` before `Start` has set it, and ends at once, and a game that is
found by the monitor's first pass but started after the list the main thread
injects from is not injected. ShutdownEnds says that the shutdown ends, or hangs for
ever in one of two joins, while the main thread serves no messages: that of the
injector, which shows a message box owned by the main window (`JoinsMessageBox`,
`ProcessList.cpp:1199` and 1006), or that of the monitor, which is in `SendMessage` to
it (`JoinsSendMessage`, `ProcessMonitor.cpp:317`). The code avoids neither, so no
property forbids them; what is checked is that there is no third way. All these are
listed as hazards.

### Violations

* `login`: replies are addressed by profile alone, against the comment at
  `ServerPostOffice.cpp:558`; a client at the login screen receives, and takes for
  its own, the answer to another client's call.
* `stuck`: `Close` is skipped during a write and nobody closes later; against
  `RemoveHost`'s "prune the session gracefully" (`Network.cpp:845`).
* `double`: two launchers connect to each other at once. The one with the higher
  uuid sees the link that it made, and the other discarded, end while it is still
  among its connecting sessions, under the other's address. `PruneSessions` reports
  this as the end of the session with that host, which goes on over the other link:
  the host is forgotten and its identity dropped (`Network.cpp:1211`, 1143), and
  nothing sends it again; against `OnSessionConnectedHandler`'s "send all known
  identities to the remote to sync" (`Connection.cpp:522`).

LauncherDirectory also shows what no run states: an identity that arrives just before
its link is lost is added after the disconnect was handled, since `Process` runs
bookkeeping first (`Network.cpp:785`), and stays; and the disconnect handler drops a
single uuid of the host (`Connection.cpp:528`), against "everything it routes also
needs to be dropped" (`ServerPostOffice.cpp:386`). ConnectionsMatch holds all the same.

## 4. Proofs

`ActorRouting_proofs`, for any constants that satisfy `OfficeAssumption` and
`TargetsAssumption`:

* `TypeCorrect`: `Spec => []TypeOK`, from lemmas on each operator of the routing
  (what `SendToAll`, `RouteFromConnection`, `ReplyTo`, `Enqueue` return) and one
  step per action.
* `CallbackOnceCorrect`: `Spec => []CallbackOnce`. CallbackOnce is not inductive:
  nothing in it says that an answered sequence cannot be pending again. `CallbackInv`
  adds that pending sequences and answered ones have been issued
  (`<= nextSeq`) and that no answered sequence is pending. Posting issues a new
  number, a reply moves one from pending to answered, a crash only empties.

* `AnswersAreOwnCorrect`, under `DistinctProfiles`: no profile that the game may give
  one client is part of one that it may give another. The code does not see to that
  (run `login`), the clients of `named` have it. `OwnInv` says of every reply under
  way that its address has the profile of the caller it is for, at whatever time the
  caller had it, and of every call that its return address does; so whoever matches
  the reply is its caller.
* `ExecutedOnceCorrect`: a call is a token <<caller, number, state>>, `Flow` says which
  tokens each pipe, queue, mailbox and history holds, and `Once` that none is in two
  places nor twice in one. No action sees this as a whole; every action is shown to take
  a token from one place and put it into at most one other (`MoveStep`), which keeps
  `Once` (`MovePreserves`).
* `KeepsPromiseCorrect`, under DistinctProfiles: the refinement of RpcPromise. The
  same token invariant, now followed up to the caller's callback, says that while a
  call is under way its callback has not run; `FitsInv` adds that an outcome under way
  agrees with whether the call was received. `StepPromised` then shows that each action
  changes `CallStateOf` as one abstract action does, or not at all.

`PipeLink_proofs`, for any number of connections, posts and faults:

* `TypeCorrect`, from `LinkInv`: the types, that data is held back exactly while a
  completed read waits for its routine, and how many connections there are.
* `ClosedIsLastCorrect`: an open connection of the launcher has a read outstanding
  (`ReadInv`), so the notice of its end comes with or after the last read.
* `InOrderCorrect`. `BaseInv` clears the ground: nothing has happened to a connection
  that was not made or accepted. `OrderInv` puts everything that a client has sent
  over a connection on one line: what the launcher's log has, the read that is complete, the
  pipe, the write under way, the writes that wait, the posts queued for the
  connection. What has left the client is in order and without gaps (`Ordered`), and
  while both ends are open (`Whole`) what is still at the client completes it; the
  identification is the first of all (`Silent`).
* `CallAccountedCorrect`. `MatchInv`: what travels over a connection with a sequence,
  in queue, pipe, read or log, has the one of the request it belongs to, if that is
  still registered, so that a reply completes its own call. `CallInv`: a call is in
  the client's queue, or registered with one connection, or has been answered, and in
  one of these only. A close empties the registered ones into callbacks, from whichever
  path it comes.
* `LinkKeepsPromiseCorrect`: the refinement of PipePromise, from the invariants above
  and one more. `RealInv`: whatever travels as a reply, at either end, in the pipe or
  in the launcher's queue, is to a call that the launcher has received and replied to,
  so that no callback hears of a reply by mistake. `NextPromised` then shows that each
  action is one step of PipePromise or none. The step that takes the most is a read
  that the launcher handles (`PromisedReceive`): that its message is the next of what
  was posted follows from the line of `OrderInv`, since nothing lies before a read that
  is done but what has been received. A step that closes may end the connection or
  find it ended (`SettledServer`); the steps of Windows and of the client's own
  connections change nothing that PipePromise sees.

`CallbackQueue_proofs`, for any set of producers:

* `TypeCorrect`, with `QueueInv`: types, the mutex is held exactly by the producer
  that has pushed, and the consumer runs only with a batch.
* `RunInOrderCorrect`: `posted = ran \o batch \o queue`, from QueueInv, since Take
  needs an empty batch and Run a batch that is not empty.
* `NoLostWakeupCorrect`: from QueueInv, which says that a pushed callback with the
  mutex free has been flagged.

`PluginHandler_proofs`, for any names, callers, commands, bounds and `Untidy`, and
with everything that becomes of the DLLs and records of failed unloads:

* `HandlerCorrect`: `Spec => []HandlerInv`; from it `TypeCorrect`,
  `CodeMappedCorrect`, `MailboxesMappedCorrect` and `ListsAgreeCorrect`. The first two
  of these properties except what `Exempt` names (section 2) and nothing else. That the
  exceptions are needed is no theorem: without them TLC finds, in an instance like that
  of the run, a retry that calls into a DLL that was let go of, and with an untidy
  plugin a mailbox left behind. Both are what the code does, and no claim of the
  repository contradicts them, so that no run is kept for them.
* Why it takes an invariant of that size. CodeMapped alone says nothing of what
  may run next. `MappedInv` says whose code can be run: that of plugins the handler has
  loaded and not freed since (`Owned`: with a handle, or in an operation under way), or
  that may have left a mailbox (`Reach`; `TablesIn`, `CodeIn`). That these are in the
  process (`OwnedIn`) is endangered by each free and each `Release`, which take away
  all plugins of one name, so no two owned ones may share a name but after a retry
  (`OwnedApart`; `HandlesApart` without exception). A record of a failed unload is not
  owned: nothing is claimed of its DLL, which is why it does not matter who lets go of
  it and whether its record is found.
  `StepInv` says where a plugin is registered at each step of a load or an unload
  (`Placed`, by `RightPlace`), that a handle without an entry in the map is being added
  (`Adding`), and that a record is about a plugin that is gone, and only one is
  (`OneRecord`). `NestInv` says how calls nest: an operation starts on a plugin
  that no call below holds (`Fresh`), a round has called its plugin while another
  call is above it (`RoundsCalled`), a plugin's own code runs directly above its
  shutdown and removes its actor when it returns (`OwnShutdown`), and the client's
  shutdown is below everything else (`ShutdownFirst`).
* How it is laid out. Steps that change only the stack and what rounds and calls
  touch are covered by one lemma, `CallsInv`; the steps of an operation on one
  plugin by another, `OperationInv`; each action is then shown to be an instance.

In the same module, on top of HandlerInv:

* `ToldCorrect`: `Spec => []ToldInv`; from it `EachOnceCorrect` and
  `ToldOfGoingCorrect`.
* `RoundsInv`. EachOnce speaks of where a round stands and of what it has called;
  what makes it inductive is `InPlace`, which relates both to the list: what is due
  and lies before the round's place has been called, what lies behind it has not.
  A load puts its plugin before every place, so no round below misses or repeats
  anything. An unload must not take away the plugin at a round's place, from which
  the round will read its next: `RoundsCode` says that while a round waits, the code
  directly above it is that plugin's, and no operation starts on a plugin whose code
  is running (`Fresh`).
* `HeardInv`. ToldOfGoing can only break when a plugin leaves the list. `GoingTold`
  says of a plugin that is to leave that the round above its shutdown still has to
  call everyone listed who was told of it, and when the round is over, that there is
  nobody left. Nobody may be told of the plugin meanwhile: the rounds that tell of a
  load are about plugins that no call below is about (`LoadRounds`). And a plugin
  must not get onto the list with news of an unlisted one (`NotAdding`).
* The steps that neither change the list nor tell anybody of anything are instances
  of one lemma (`QuietInv`); the rest (rounds, the steps of a load, the announcement
  and the removal of an unload) have a lemma each.

`ProcessWatch_proofs`, for any ids and bounds:

* `HandlesHeldCorrect` and `IdsFollowCorrect`, from `WatchInv`: `HandlesInv`
  (handles are distinct, and an exited game is held) and `ToldInv` (which game the
  window is being told of, at which stage: an added one is held already, a removed
  one no longer). IdsFollow excludes the game being told of, so without ToldInv the
  step in which the window is served could change anything.
* `TypeCorrect`: `Spec => []TypeOK`. Two conjuncts are about more than a type: only
  games that run are injected, and a request's retries stay between none and `Retries`
  through the injector's taking, trying and copying back. The queue is split by the
  places of its elements (`RequestsAt`: an increasing sequence of places) rather than
  by `SelectSeq`, which is recursive and so beyond the provers. `WatchInv` is needed:
  the game that the window is told of is one of the monitor's.

`PeerNetwork_proofs`, for any peers, links, messages, losses and persistent hosts:

* `PeerInvCorrect`: `Spec => []PeerInv`; from it `TypeCorrect`, `ConnectOnceCorrect`
  and `SameLinkKeptCorrect`.
* `NetInv` has the types, that a session belongs to an end of its link (`EndsInv`),
  and that nobody connects to itself (`HostsInv`).
* `SessionInv` has what holds of one link and what holds of two. Of one (`LinkInv(l)`):
  what place and state of a session go together, that nothing is on its way to who
  has left, that the maker of a link sends the handshake and the other the response,
  and that an answered link has been resolved at its far end. Of two (`PairInv`): a
  connect under way and a link made that is not given up exclude each other
  (`OwnInv`), which is what `AddConnections` must find out from three containers; one
  session with a peer (`OneInv`).
* SameLinkKept, the choice by uuid in `ResolveHandshake`, cannot be proved from one
  side's view. A contradiction needs each peer to keep a link the other discards. One
  of the two is a link that the peer with the lower uuid made, or both were made by
  the higher. `LowerInv` excludes the first: the lower peer never discards a link it made,
  and the higher does so only instead of answering it. `HigherInv` excludes the second:
  the lower peer discards one of two links of the higher only once the maker has left
  either.
* Handlers that keep sessions in their place or end them are instances of one lemma;
  what is on the wire after a handler is bounded by `Wired`, whatever was pruned.
* `AgreeUnlessStalledCorrect`: `Spec => []AgreeUnlessStalled`, with messages, removals
  and losses. If nothing is under way and the ends of a link disagree, one has given it
  up or still waits for a response, and the invariant must say that somebody was told.
  `TellInv` does: who goes on can still end the link (`OpenInv`); when one end is given
  up, or the link is lost, the end is on its way to the other, has been read there, or
  no longer can be (`EndInv`, `Told`); and an established session has its response on
  its way to a maker that waits for it (`ReplyInv`). In a quiescent state the wire is
  empty, so that who was told and goes on has stopped reading, and is stalled.
* `SessionsAgreeInSilence`: `Spec => [](sends = 0 => SessionsAgree)`. While no message
  was sent no session stalls in a quiescent state. `SilentInv` has why: a link then
  carries one greeting each way, so who ends it has nothing left to write. `OutInv` is
  about each end, `SentInv` about what travels from one to the other (an end comes
  from who has left, and nobody leaves who is being written to), `HelloInv` about
  the two greetings (who greets waits for the other). With messages the statement is
  false: run `stuck` shows the session that it leaves.

`LauncherDirectory_proofs`, for any launchers and clients:

* `DirInvCorrect`: `DirSpec => [](PeerInv /\ DirInv)`. The handlers of the post office
  are instances of what PeerNetwork allows of its user (`Handle`, `Queue`), so that the
  network's invariant, and ConnectOnce and SameLinkKept with it (`DirNetworkCorrect`),
  carry over.
* `DirTypeCorrect`, and `ConnectionsMatchCorrect` from `RoutesInv`: a remote identity
  has its connection, or waits in `actions` to be dropped, which is the state between
  the disconnect handler on the ASIO thread and the post office thread.
* `FiniteInv`: a directory is finite, so that its identities can be put into a
  sequence and sent.

`SequenceLemmas` has what these need of `Append`, `Tail`, `\o`, `RemoveAt`, `Front`, `SetToSeq`
and of short sequences.

Only model-checked: all liveness (CallsAnswered, PostedRuns, CallsSettle,
ErasedFromList, PersistentConnected, LateInjected, both ShutdownEnds), since liveness
under fairness and ENABLED are beyond the prover; and `Synced`,
which speaks of states where nothing is under way, holds only over one link and is
false over two (`double`), so that it is not true of all constants. `SessionsAgree` is
proved as far as it holds for all constants, in silence and, as `AgreeUnlessStalled`,
up to a stalled end; the rest of it stays with the run. Every other
invariant and action property of the passing runs is the subject of a theorem. No
module that is proved about uses RECURSIVE.

## 5. Not modelled

* Post offices: routing between launchers and the relayed return address
  (`kRouted`), restart of the launcher; data races on the launcher's RPC table and
  on `m_connection` of a client.
* Peers: the branch of `NetworkSession::Shutdown` in which ending the writing half
  fails and the socket is closed at once (`Network.cpp:209`), restart of a peer under
  another uuid, discovery by UDP, broadcast and the
  leader, `DrainSessions` and shutdown, exceptions on the ASIO thread.
* Pipes: messages longer than a pipe's buffer, callbacks that throw, posts from the
  thread that consumes them.
* Plugins: ini file, checks of the DLL before it is loaded, the crash handler's
  unload and reload, a plugin unloaded while a call holds it. `MQActorAPI`'s message
  storage is ActorRouting's.
* Commands: delayed and timed commands, aliases, binds, EverQuest's own commands.
* Launcher: the monitor that uses WMI events, early injection, tray, settings,
  windows and focus.
* Macro interpreter, data API, frame limiter, autologin, Lua, display plugins and
  services that read the game's structures: reasons in `PROJECT.json`. Much of
  this depends on the game process, which is outside the repository.

## 6. Plan

Done: all modules above, and the safety properties of their runs proved but for those
listed at the end of section 4. Next, in order:

1. Routing between launchers on top of LauncherDirectory (`kRouted`, return
   addresses rewritten per hop).
2. Delayed and timed commands against a reference order, with unloads.
3. `LuaThread`: coroutines, events and exits; `AutoLogin`: the state machine.
4. Frame limiter and macro interpreter, as far as their state goes.
