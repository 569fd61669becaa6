--------------------------- MODULE PluginHandler ---------------------------
(***************************************************************************)
(* The client's plugins: loading and unloading them, the rounds that call   *)
(* every plugin, and what plugins register and leave behind: commands and   *)
(* the mailboxes of their actors.                                           *)
(*                                                                         *)
(* All of it runs on the game's main thread, and any callback may call back *)
(* in: stack holds the calls in progress.  An operation is cut into the     *)
(* steps between its callbacks.  Code is [step |-> "code"]: a callback of   *)
(* the plugin, or for Main the commands of a user, a macro or an AutoExec   *)
(* file.                                                                    *)
(***************************************************************************)
EXTENDS Naturals, Sequences, FiniteSets, SequencesExt

CONSTANTS
    Names,      \* names of plugins
    Commands,   \* names of commands plugins may add
    Callers,    \* names of the plugins whose code calls the handler
    Untidy,     \* names of plugins that shut down without removing their actor
    MaxPlugin,  \* bound: plugins loaded
    MaxDepth,   \* bound: nested code that calls the handler
    MaxKept     \* bound: modules that stay in the process when freed

ASSUME HandlerAssumption ==
    /\ Callers \subseteq Names /\ Untidy \subseteq Names
    /\ MaxPlugin \in Nat /\ MaxDepth \in Nat /\ MaxKept \in Nat

\* A plugin is the number of its handle; Main stands for no plugin as well
\* (GetPluginByHandle with noMain, the end of the list).
Main == 0
Plugin == 1..MaxPlugin

Tells == {"Pulse", "LoadPlugin", "UnloadPlugin", "PostUnloadPlugin"}

\* A call in progress.  plugin: the one it is about, or whose code runs.
\* tell, at, called: the round's callback and its place in the list.
\* due, seen: the plugins listed since it started, and those it has called; in
\* UnloadFailedPlugins the records that are left, called from its second pass on.
\* key: whose string UnloadPlugin was given, Main for that of the command
\* /plugin, which is freed when the command returns.
Frame ==
    [step : {"code", "round", "add", "announce", "shutdown", "notify", "free",
             "unloadAll", "unloadFailed", "ask"},
     plugin : Plugin \cup {Main}, tell : Tells, at : Plugin \cup {Main},
     called : BOOLEAN, due : SUBSET Plugin, seen : SUBSET Plugin,
     key : Plugin \cup {Main}]

VARIABLES
    initialized,    \* s_pluginsInitialized
    last,           \* handles created
    name,           \* name[p] of the loaded plugins
    list,           \* pPlugins
    map,            \* s_pluginMap: by name
    handles,        \* s_pluginHandleMap
    failed,         \* s_pluginUnloadFailedMap, and whose string its keys view
    deleted,        \* instances deleted: their memory is freed
    modules,        \* DLLs in the process: the plugins whose code is mapped
    commands,       \* m_pCommands: the owner of each
    mailboxes,      \* receivers registered with the post office
    dropboxes,      \* s_dropboxes: [owner, of]
    stack,          \* the calls in progress, the innermost last
    stage,          \* "running", "stopping" in Shutdown, "stopped"
    heard,          \* history: [who, of]: who was told of the load of of, not
                    \* of its unload
    retried         \* history: names whose failed unload was tried again, since
                    \* their DLL last came into the process

tables == <<commands, mailboxes, dropboxes>>
freeing == <<failed, deleted, modules, retried>>
registry == <<last, name, list, map, handles, freeing>>
vars == <<initialized, registry, tables, stack, stage, heard>>

Top == Last(stack)
Below == Front(stack)
Push(f) == stack' = Append(stack, f)
Step(s) == stack # <<>> /\ Top.step = s

Call(s, p) ==
    [step |-> s, plugin |-> p, tell |-> "Pulse", at |-> Main, called |-> FALSE,
     due |-> {}, seen |-> {}, key |-> Main]

Code(p) == Call("code", p)

\* Depth of the code on the stack.
Depth == Cardinality({i \in DOMAIN stack : stack[i].step = "code"})

\* A callback into a DLL that is no longer mapped: the process ends here.
Crashed == Step("code") /\ Top.plugin \notin modules \cup {Main}

\* The code that may call the handler next.
Running == IF stack = <<>> THEN Main ELSE Top.plugin
Calling ==
    /\ stage # "stopped" /\ ~Crashed
    /\ IF stack = <<>> THEN stage = "running"
                       ELSE /\ Top.step = "code" /\ Depth <= MaxDepth
                            /\ Running # Main => name[Running] \in Callers

Init ==
    /\ initialized = TRUE
    /\ last = 0 /\ name = <<>>
    /\ list = <<>> /\ map = {} /\ handles = {}
    /\ failed = {} /\ deleted = {} /\ modules = {} /\ retried = {}
    /\ commands = <<>> /\ mailboxes = {} /\ dropboxes = {}
    /\ stack = <<>> /\ stage = "running" /\ heard = {}

-----------------------------------------------------------------------------
(* The list, the maps and their lookups.                                    *)

Head1 == IF list = <<>> THEN Main ELSE list[1]

Place(p) == CHOOSE i \in DOMAIN list : list[i] = p

\* pNext
After(p) ==
    IF p \in ToSet(list) /\ Place(p) < Len(list) THEN list[Place(p) + 1] ELSE Main

GetPlugin(n) ==
    IF \E p \in map : name[p] = n THEN CHOOSE p \in map : name[p] = n ELSE Main

GetPluginByHandle(p) == IF p \in handles THEN p ELSE Main

\* What a lookup of n in s_pluginUnloadFailedMap may find.  Its keys are views:
\* one whose string has been freed may read as it did, or as no name at all.
FailedFinds(n) ==
    LET records == {r \in failed : name[r.plugin] = n}
        lost == \A r \in records : r.key \in deleted \cup {Main}
    IN  {{r} : r \in records} \cup IF lost THEN {{}} ELSE {}

FailedPlugins == {r.plugin : r \in failed}

\* The plugins whose DLL the handler has loaded and not freed since.
Owned ==
    handles \cup {stack[i].plugin : i \in {j \in DOMAIN stack :
        stack[j].step \in {"add", "announce", "shutdown", "notify", "free"}}}

\* A plugin is left alone while a call in progress holds it.  Nothing in the
\* code checks this: see the README.
Held == {stack[i].plugin : i \in DOMAIN stack}
HeldNames == {name[p] : p \in Held \ {Main}}

\* Mutated form of RemovePluginFromList: the first of the list stays its head.
RemoveButHead(p) == SelectSeq(list, LAMBDA q : q # p \/ q = list[1])

\* Of a plugin that is listed: a node of the doubly linked list is taken out.
RemovePluginFromList(p) == RemoveAt(list, Place(p))

-----------------------------------------------------------------------------
(* Rounds: ForEachPlugin.                                                   *)

Round(t, p) ==
    [Call("round", p) EXCEPT
        !.tell = t, !.at = Head1, !.due = ToSet(list)]

\* What a round of t about p does once it has called the plugins: ActorAPI
\* looks the unloaded plugin up by its name and removes that owner's actors.
OnPostUnloadPluginActorAPI(p) ==
    LET owner == GetPlugin(name[p])
        mine == {d \in dropboxes : d.owner = owner}
    IN  /\ dropboxes' = dropboxes \ mine
        /\ mailboxes' = mailboxes \ {d.of : d \in mine}

RoundCall ==
    /\ Step("round") /\ Top.at # Main /\ ~Top.called
    /\ stack' = Below \o
        <<[Top EXCEPT !.called = TRUE, !.seen = @ \cup {Top.at}], Code(Top.at)>>
    /\ heard' = CASE Top.tell = "LoadPlugin" ->
                        heard \cup {[who |-> Top.at, of |-> Top.plugin]}
                  [] Top.tell = "UnloadPlugin" ->
                        heard \ {[who |-> Top.at, of |-> Top.plugin]}
                  [] OTHER -> heard
    /\ UNCHANGED <<initialized, registry, tables, stage>>

\* Mutated form of RoundNext: the next is found by its index.
RoundNextByIndex ==
    /\ Step("round") /\ Top.called
    /\ LET i == Cardinality(Top.seen) + 1
       IN  stack' = Below \o
            <<[Top EXCEPT !.at = IF i <= Len(list) THEN list[i] ELSE Main,
                          !.called = FALSE]>>
    /\ UNCHANGED <<initialized, registry, tables, stage, heard>>

RoundNext ==
    /\ Step("round") /\ Top.called
    /\ stack' = Below \o <<[Top EXCEPT !.at = After(Top.at), !.called = FALSE]>>
    /\ UNCHANGED <<initialized, registry, tables, stage, heard>>

RoundEnd ==
    /\ Step("round") /\ Top.at = Main
    /\ stack' = Below
    /\ IF Top.tell = "PostUnloadPlugin"
       THEN OnPostUnloadPluginActorAPI(Top.plugin) /\ UNCHANGED commands
       ELSE UNCHANGED tables
    /\ UNCHANGED <<initialized, registry, stage, heard>>

\* PulsePlugins, and the rounds of the game's other events.
PulsePlugins ==
    /\ stack = <<>> /\ stage = "running" /\ initialized /\ list # <<>>
    /\ Push(Round("Pulse", Main))
    /\ UNCHANGED <<initialized, registry, tables, stage, heard>>

-----------------------------------------------------------------------------
(* LoadPlugin, from the command /plugin.                                    *)

\* LoadPlugin up to the call of Initialize: the plugin has a handle, and is
\* neither listed nor in the map.  LoadLibrary may fail: nothing is done.
LoadPlugin(n) ==
    /\ Calling /\ n \notin HeldNames
    /\ GetPlugin(n) = Main
    /\ {} \in FailedFinds(n)
    /\ last < MaxPlugin
    /\ LET p == last + 1 IN
        /\ last' = p
        /\ name' = Append(name, n)
        /\ handles' = handles \cup {p}
        /\ modules' = modules \cup {p}
        /\ retried' = IF \E q \in modules : name[q] = n
                      THEN retried ELSE retried \ {n}
        /\ stack' = stack \o <<Call("add", p), Code(p)>>
    /\ UNCHANGED <<initialized, list, map, failed, deleted, tables, stage, heard>>

\* AddPluginToList, the map, and the commands of the AutoExec file.
LoadListed ==
    /\ Step("add")
    /\ LET p == Top.plugin IN
        /\ list' = <<p>> \o list
        /\ map' = map \cup {p}
        /\ stack' = Below \o <<Call("announce", p), Code(Main)>>
    /\ UNCHANGED <<initialized, last, name, handles, freeing, tables, stage, heard>>

\* PluginsLoadPlugin
LoadAnnounced ==
    /\ Step("announce")
    /\ stack' = Below \o IF initialized THEN <<Round("LoadPlugin", Top.plugin)>>
                                        ELSE <<>>
    /\ UNCHANGED <<initialized, registry, tables, stage, heard>>

-----------------------------------------------------------------------------
(* UnloadPlugin.                                                            *)

\* Mutated form of UnloadTold: the test every other round starts with.
UnloadToldInitialized(p) == IF initialized THEN <<Round("UnloadPlugin", p)>> ELSE <<>>

\* PluginsUnloadPlugin: told whether or not the system is initialized.
UnloadTold(p) == <<Round("UnloadPlugin", p)>>

\* The frames of UnloadPlugin for p, which is in the map.
UnloadListed(p, k) ==
    <<[Call("shutdown", p) EXCEPT !.key = k]>> \o UnloadTold(p)

\* UnloadPlugin, called from base, given the name n in k's string.  The record
\* of a failed unload is tried first, and goes straight to ShutdownPlugin.
UnloadNamed(base, n, k) ==
    \E found \in FailedFinds(n) :
        \/ \E r \in found :
            /\ failed' = failed \ {r}
            /\ retried' = retried \cup {n}
            /\ stack' = base \o
                <<[Call("notify", r.plugin) EXCEPT !.key = k], Code(r.plugin)>>
        \/ /\ found = {}
           /\ stack' = base \o
                IF GetPlugin(n) = Main THEN <<>> ELSE UnloadListed(GetPlugin(n), k)
           /\ UNCHANGED <<failed, retried>>

\* The command /plugin.
UnloadPlugin(n) ==
    /\ Calling /\ n \notin HeldNames
    /\ UnloadNamed(stack, n, Main)
    /\ UNCHANGED <<initialized, last, name, list, map, handles, deleted, modules,
                   tables, stage, heard>>

\* RemovePluginFromList, the maps, then ShutdownPlugin: CleanUI and Shutdown.
UnloadUnlisted ==
    /\ Step("shutdown")
    /\ LET p == Top.plugin IN
        /\ list' = RemovePluginFromList(p)
        /\ map' = map \ {p}
        /\ handles' = handles \ {p}
        /\ stack' = [i \in DOMAIN Below |->
                        [stack[i] EXCEPT !.due = @ \ {p}]] \o
                    <<[Top EXCEPT !.step = "notify"], Code(p)>>
    /\ UNCHANGED <<initialized, last, name, freeing, tables, stage, heard>>

\* PluginsPostUnloadPlugin
UnloadNotified ==
    /\ Step("notify")
    /\ stack' = Below \o
        <<[Top EXCEPT !.step = "free"], Round("PostUnloadPlugin", Top.plugin)>>
    /\ UNCHANGED <<initialized, registry, tables, stage, heard>>

\* Mutated form of OnPluginUnloaded: the owner is looked up by its handle.
OnPluginUnloadedByHandle(p) ==
    [c \in {d \in DOMAIN commands : commands[d] # GetPluginByHandle(p)} |->
        commands[c]]

\* Mutated form of OnPluginUnloaded: they become Main's.
OnPluginUnloadedToMain(p) ==
    [c \in DOMAIN commands |-> IF commands[c] = p THEN Main ELSE commands[c]]

\* OnPluginUnloaded: the commands the plugin left behind.
OnPluginUnloaded(p) ==
    [c \in {d \in DOMAIN commands : commands[d] # p} |-> commands[c]]

\* FreeLibrary unmaps the DLL, with all that was loaded from it; or it fails, or
\* another still holds the DLL: the record moves to s_pluginUnloadFailedMap,
\* unless emplace finds its name there.
UnloadFreed ==
    /\ Step("free")
    /\ stack' = Below
    /\ commands' = OnPluginUnloaded(Top.plugin)
    /\ LET p == Top.plugin IN
        \/ /\ modules' = {q \in modules : name[q] # name[p]}
           /\ deleted' = deleted \cup {p}
           /\ UNCHANGED failed
        \/ /\ \E found \in FailedFinds(name[p]) :
                failed' = IF found # {} THEN failed
                          ELSE failed \cup {[plugin |-> p, key |-> Top.key]}
           /\ Cardinality(failed') <= MaxKept
           /\ UNCHANGED <<modules, deleted>>
    /\ UNCHANGED <<initialized, last, name, list, map, handles, retried, mailboxes,
                   dropboxes, stage, heard>>

\* Whoever else holds the DLL of n lets go of it.  It stays if the handler has
\* loaded it more often than freed; a retry frees it once more than that.
Release(n) ==
    /\ stage # "stopped" /\ ~Crashed
    /\ \E p \in modules : name[p] = n
    /\ n \in retried \/ \A p \in Owned : name[p] # n
    /\ modules' = {p \in modules : name[p] # n}
    /\ UNCHANGED <<initialized, last, name, list, map, handles, failed, deleted,
                   retried, tables, stack, stage, heard>>

-----------------------------------------------------------------------------
(* Shutdown of the client: ShutdownPlugins, ShutdownFailedPlugins.          *)

ShutdownPlugins ==
    /\ stack = <<>> /\ stage = "running"
    /\ initialized' = FALSE /\ stage' = "stopping"
    /\ Push(Call("unloadAll", Main))
    /\ UNCHANGED <<registry, tables, heard>>

\* One pass of UnloadFailedPlugins goes over a copy of the records.
Pass(again) ==
    <<[Call("unloadFailed", Main) EXCEPT !.called = again, !.due = FailedPlugins]>>

\* UnloadPlugins: the head of the list until there is none.  The name is in the
\* plugin's own instance.
UnloadPlugins ==
    /\ Step("unloadAll")
    /\ IF list # <<>>
       THEN UnloadNamed(stack, name[list[1]], list[1])
       ELSE stack' = Pass(FALSE) /\ UNCHANGED <<failed, retried>>
    /\ UNCHANGED <<initialized, last, name, list, map, handles, deleted, modules,
                   tables, stage, heard>>

\* The name is read from the copied record's instance.  One that was deleted
\* meanwhile may read as any name or none; and what has no record any more is
\* looked for in s_pluginMap.
UnloadFailedPlugins ==
    /\ Step("unloadFailed")
    /\ \E p \in Top.due :
        LET rest == <<[Top EXCEPT !.due = @ \ {p}]>>
        IN  \/ /\ p \in deleted
               /\ stack' = rest
               /\ UNCHANGED <<failed, retried>>
            \/ \E n \in IF p \in deleted THEN Names ELSE {name[p]} :
                UnloadNamed(rest, n, p)
    /\ UNCHANGED <<initialized, last, name, list, map, handles, deleted, modules,
                   tables, stage, heard>>

\* ShutdownFailedPlugins after a pass: the client lets go of its plugin API, or,
\* if records are left and it is not forced to unload, there is a second pass,
\* and after that the user is asked.
ShutdownFailedPlugins ==
    /\ Step("unloadFailed") /\ Top.due = {}
    /\ \/ /\ failed = {} \/ ~Top.called
          /\ stack' = <<>> /\ stage' = "stopped"
       \/ /\ failed # {}
          /\ stack' = IF Top.called THEN <<Call("ask", Main)>> ELSE Pass(TRUE)
          /\ UNCHANGED stage
    /\ UNCHANGED <<initialized, registry, tables, heard>>

\* The user's answer: retry; or ignore, or abort, which ends the process.
AnswerUnloadFailure ==
    /\ Step("ask")
    /\ \/ stack' = Pass(TRUE) /\ UNCHANGED stage
       \/ stack' = <<>> /\ stage' = "stopped"
    /\ UNCHANGED <<initialized, registry, tables, heard>>

-----------------------------------------------------------------------------
(* What code does: commands, actors, and return.                            *)

\* MQCommandAPI::AddCommand refuses a name that is taken.
AddCommand(c) ==
    /\ Calling /\ Running # Main
    /\ c \notin DOMAIN commands
    /\ commands' = [d \in DOMAIN commands \cup {c} |->
                        IF d = c THEN Running ELSE commands[d]]
    /\ UNCHANGED <<initialized, registry, mailboxes, dropboxes, stack, stage, heard>>

\* MQCommandAPI::RemoveCommand, by the owner.
RemoveCommand(c) ==
    /\ Calling /\ Running # Main
    /\ c \in DOMAIN commands /\ commands[c] = Running
    /\ commands' = [d \in DOMAIN commands \ {c} |-> commands[d]]
    /\ UNCHANGED <<initialized, registry, mailboxes, dropboxes, stack, stage, heard>>

\* DoCommand, not delayed: DispatchCommand runs the handler.
DoCommand(c) ==
    /\ Calling
    /\ c \in DOMAIN commands
    /\ Push(Code(commands[c]))
    /\ UNCHANGED <<initialized, registry, tables, stage, heard>>

\* The mailbox has the plugin's name: while an older one is registered the new
\* dropbox is kept all the same, not valid.
AddActor ==
    /\ Calling /\ Running # Main
    /\ Running \notin mailboxes
    /\ name[Running] \in Untidy \/ Running \in handles
    /\ mailboxes' = IF \E q \in mailboxes : name[q] = name[Running]
                    THEN mailboxes ELSE mailboxes \cup {Running}
    /\ dropboxes' = dropboxes \cup
            {[owner |-> GetPluginByHandle(Running), of |-> Running]}
    /\ UNCHANGED <<initialized, registry, commands, stack, stage, heard>>

\* Mutated form of RemoveActorOf: nothing is removed if the entry is not found.
RemoveActorIfFound(p) ==
    LET d == [owner |-> GetPluginByHandle(p), of |-> p]
    IN  /\ mailboxes' = IF d \in dropboxes THEN mailboxes \ {p} ELSE mailboxes
        /\ dropboxes' = dropboxes \ {d}

\* RemoveActor: the entry is looked for under the owner the handle has now.
RemoveActorOf(p) ==
    /\ mailboxes' = mailboxes \ {p}
    /\ dropboxes' = dropboxes \ {[owner |-> GetPluginByHandle(p), of |-> p]}

RemoveActor ==
    /\ Calling /\ Running \in mailboxes
    /\ RemoveActorOf(Running)
    /\ UNCHANGED <<initialized, registry, commands, stack, stage, heard>>

\* A message for a mailbox, when the post office processes its messages.
Receive(p) ==
    /\ stack = <<>> /\ stage = "running"
    /\ p \in mailboxes
    /\ Push(Code(p))
    /\ UNCHANGED <<initialized, registry, tables, stage, heard>>

\* The callback returns.  The Shutdown of a tidy plugin removes its actor.
Return ==
    /\ Step("code") /\ ~Crashed
    /\ stack' = Below
    /\ IF /\ Below # <<>> /\ stack[Len(Below)].step = "notify"
          /\ Top.plugin \in mailboxes /\ name[Top.plugin] \notin Untidy
       THEN RemoveActorOf(Top.plugin)
       ELSE UNCHANGED <<mailboxes, dropboxes>>
    /\ UNCHANGED <<initialized, registry, commands, stage, heard>>

-----------------------------------------------------------------------------
Handler ==
    \/ RoundCall \/ RoundNext \/ RoundEnd
    \/ LoadListed \/ LoadAnnounced
    \/ UnloadUnlisted \/ UnloadNotified \/ UnloadFreed
    \/ UnloadPlugins \/ UnloadFailedPlugins \/ ShutdownFailedPlugins

Next ==
    \/ Handler \/ Return \/ PulsePlugins \/ ShutdownPlugins \/ AnswerUnloadFailure
    \/ \E n \in Names : LoadPlugin(n) \/ UnloadPlugin(n) \/ Release(n)
    \/ \E c \in Commands : AddCommand(c) \/ RemoveCommand(c) \/ DoCommand(c)
    \/ AddActor \/ RemoveActor
    \/ \E p \in Plugin : Receive(p)

Spec == Init /\ [][Next]_vars

\* The main thread runs, and every callback returns, however deep it is.
FairSpec ==
    /\ Spec
    /\ WF_vars(Handler)
    /\ \A d \in 1..(MaxDepth + 1) : SF_vars(Return /\ Depth = d)

-----------------------------------------------------------------------------
(* Properties.                                                              *)

\* Types; and the calls in progress nest: what a plugin is held by is code.
TypeOK ==
    /\ initialized \in BOOLEAN
    /\ last \in 0..MaxPlugin /\ name \in [1..last -> Names]
    /\ ToSet(list) \subseteq 1..last
    /\ map \subseteq 1..last /\ handles \subseteq 1..last
    /\ failed \subseteq [plugin : 1..last, key : Plugin \cup {Main}]
    /\ deleted \subseteq 1..last /\ modules \subseteq 1..last
    /\ retried \subseteq Names
    /\ DOMAIN commands \subseteq Commands
    /\ \A c \in DOMAIN commands : commands[c] \in 1..last
    /\ mailboxes \subseteq 1..last
    /\ dropboxes \subseteq [owner : 0..last, of : 1..last]
    /\ \A i \in DOMAIN stack : stack[i] \in Frame
    /\ stage \in {"running", "stopping", "stopped"}
    /\ heard \subseteq [who : 1..last, of : 1..last]

\* A round calls every plugin that stays listed, and none of them twice, even
\* when the code it calls loads and unloads plugins (ForEachPlugin).  (A round of
\* OnIncomingChat calls no more of them once one has taken the line.)
EachOnce ==
    \A i \in DOMAIN stack :
        LET f == stack[i] IN
            f.step = "round" =>
                /\ f.called \/ f.at \notin f.seen
                /\ f.at = Main => f.due \subseteq f.seen

\* What may reach a DLL that is not in the process: the retry of a failed unload,
\* if who held the DLL has let go of it, and an untidy plugin's mailbox.
Exempt(p) == name[p] \in Untidy \cup retried

\* No call, command or message reaches a DLL that has been unmapped, whoever else
\* held it and whatever its unload's record still reads as, unless a failed
\* unload of it was tried again (UnloadPlugin calls CleanUI and Shutdown in it
\* whether or not it is mapped) or an untidy plugin left its mailbox.
CodeMapped ==
    \A i \in DOMAIN stack :
        LET p == stack[i].plugin IN
            stack[i].step = "code" => p \in modules \cup {Main} \/ Exempt(p)

\* The list, the map and the handles hold the same plugins, but for one that
\* is being loaded and one that was told to go.
ListsAgree ==
    /\ map = ToSet(list)
    /\ Len(list) = Cardinality(map)
    /\ \A p, q \in map : name[p] = name[q] => p = q
    /\ map \subseteq handles
    /\ \A p \in handles \ map :
            \E i \in DOMAIN stack : stack[i].step = "add" /\ stack[i].plugin = p

\* A plugin that is told of another's coming is told of its going, before the
\* other's module is freed (UnloadPlugin: "Inform other plugins").
ToldOfGoing ==
    \A h \in heard : h.who \in map => h.of \in map

\* No mailbox is left whose receiver's DLL has been unmapped, with the same two
\* exceptions: a plugin's Shutdown removes its actor while its handle is no
\* longer in the map, and OnPostUnloadPluginActorAPI comes too late for it.
MailboxesMapped == \A p \in mailboxes : p \in modules \/ Exempt(p)

\* A listed plugin has the name of a record of a failed unload.  UnloadPlugins
\* then retries that record under the name of its head, and never gets further
\* if the DLL stays.
Shadowed == \E p \in map : \E r \in failed : name[r.plugin] = name[p]

\* The client's shutdown gets on: unless plugins load others for ever (the loop
\* while (pPlugins) has no bound then), it does not go on for ever without ending,
\* asking the user, or reaching one of the two states named above.  So unloading
\* takes a plugin off the list even when its DLL stays, and no callback that
\* comes back can hold it up.
ShutdownEnds ==
    <>[](stage = "stopping" /\ ~Step("ask") /\ ~Shadowed /\ ~Crashed)
        => []<><<last' # last>>_last
=============================================================================
