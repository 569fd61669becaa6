------------------------ MODULE PluginHandler_proofs ------------------------
(***************************************************************************)
(* Proofs about PluginHandler, for any plugins, depths and bounds, whoever    *)
(* leaves its actor behind, and whatever the record of a failed unload reads *)
(* as: code runs only from DLLs that are in the process, with the two        *)
(* exceptions of Exempt, no mailbox outlives its plugin's DLL with the same  *)
(* exceptions, the list and the maps agree, a round calls every plugin that  *)
(* stays listed and none twice, and who was told of a plugin's coming is     *)
(* told of its going.                                                        *)
(***************************************************************************)
EXTENDS PluginHandler, SequenceLemmas, FiniteSetTheorems, TLAPS

\* The steps of LoadPlugin and UnloadPlugin, each about one plugin.
Operations == {"add", "announce", "shutdown", "notify", "free"}

\* Types of what TypeOK has elements of, and the list without duplicates.
ShapeInv ==
    /\ TypeOK
    /\ stack \in Seq(Frame)
    /\ \A i \in DOMAIN stack : stack[i].plugin \in 0..last
    /\ list \in Seq(1..last)
    /\ \A i, j \in DOMAIN list : list[i] = list[j] => i = j
    /\ map = ToSet(list)
    /\ map \subseteq handles

\* Whose code can be run: the plugins whose DLL the handler has loaded and not
\* freed, and those that may have left a mailbox behind, ...
Reach == Owned \cup {p \in 1..last : name[p] \in Untidy}

\* ... for all that can run a plugin's code is about one of these, ...
TablesIn ==
    /\ mailboxes \subseteq Reach
    /\ \A c \in DOMAIN commands : commands[c] \in Reach

\* ... and so is the code that runs.
CodeIn ==
    \A i \in DOMAIN stack :
        stack[i].step = "code" => stack[i].plugin \in Reach \cup {Main}

\* A DLL that was loaded and not freed is in the process, and no other plugin is
\* loaded from it, whose unload would take it along; but for retries.
OwnedIn == \A p \in Owned : p \in modules \/ Exempt(p)

OwnedApart == \A p, q \in Owned : name[p] = name[q] => p = q \/ Exempt(p)

\* The plugins that have a handle have a name of their own without exception.
HandlesApart == \A p, q \in handles : name[p] = name[q] => p = q

MappedInv == TablesIn /\ CodeIn /\ OwnedIn /\ OwnedApart /\ HandlesApart

\* No mailbox, unless it was left behind.
NoMailbox(p) == p \in mailboxes => name[p] \in Untidy

\* Where a plugin is registered at each step of its load and unload.
RightPlace(f) ==
    /\ f.step \in Operations => f.plugin \notin FailedPlugins /\ f.plugin # Main
    /\ f.step = "add" => f.plugin \in handles \ map
    /\ f.step \in {"announce", "shutdown"} => f.plugin \in map
    /\ f.step \in {"notify", "free"} => f.plugin \notin handles
    /\ f.step = "free" => NoMailbox(f.plugin)

Placed == \A i \in DOMAIN stack : RightPlace(stack[i])

Adding ==
    \A p \in handles \ map :
        \E i \in DOMAIN stack : stack[i].step = "add" /\ stack[i].plugin = p

OneRecord ==
    /\ FailedPlugins \cap handles = {}
    /\ \A r, s \in failed : r.plugin = s.plugin => r = s

StepInv == Placed /\ Adding /\ OneRecord

\* How calls nest: an operation starts on a plugin that no call below holds;
Fresh ==
    \A i, j \in DOMAIN stack :
        i < j /\ stack[j].step \in Operations => stack[i].plugin # stack[j].plugin

\* a round has called its plugin while another call is above it, and all but
\* that of a pulse are about a plugin;
RoundsCalled ==
    \A i \in DOMAIN stack :
        stack[i].step = "round" =>
            /\ ~stack[i].called => i = Len(stack) /\ stack[i].at \in map \cup {Main}
            /\ stack[i].tell # "Pulse" => stack[i].plugin # Main

\* while a plugin is shut down its own code is directly above, and removes its
\* actor when it returns;
OwnShutdown ==
    \A i \in DOMAIN stack :
        stack[i].step = "notify" =>
            IF i = Len(stack) THEN NoMailbox(stack[i].plugin)
            ELSE /\ stack[i + 1].step = "code"
                 /\ stack[i + 1].plugin = stack[i].plugin

\* and the client's shutdown is below everything else.
ShutdownFirst ==
    \A i \in DOMAIN stack :
        stack[i].step \in {"unloadAll", "unloadFailed", "ask"} =>
            i = 1 /\ stack[i].plugin = Main

NestInv == Fresh /\ RoundsCalled /\ OwnShutdown /\ ShutdownFirst

HandlerInv == ShapeInv /\ MappedInv /\ StepInv /\ NestInv

-----------------------------------------------------------------------------
(* Frames.                                                                  *)

Steps == {"code", "round", "add", "announce", "shutdown", "notify", "free",
          "unloadAll", "unloadFailed", "ask"}

\* A new frame.
LEMMA CallFrame ==
    ASSUME NEW s \in Steps, NEW p \in Plugin \cup {Main}
    PROVE  /\ Call(s, p) \in Frame
           /\ Call(s, p).step = s /\ Call(s, p).plugin = p
  BY DEF Call, Frame, Steps, Tells

\* The frame of a new round starts at the head of the list.
LEMMA RoundFrame ==
    ASSUME NEW t \in Tells, NEW p \in Plugin \cup {Main},
           list \in Seq(1..last), last \in 0..MaxPlugin
    PROVE  /\ Round(t, p) \in Frame
           /\ Round(t, p).step = "round" /\ Round(t, p).plugin = p
           /\ Round(t, p).tell = t /\ Round(t, p).called = FALSE
           /\ Round(t, p).at \in ToSet(list) \cup {Main}
<1>1. ToSet(list) \subseteq Plugin
  BY HandlerAssumption DEF ToSet, Plugin
<1>2. Head1 \in ToSet(list) \cup {Main}
  BY DEF Head1, ToSet
<1> QED  BY <1>1, <1>2 DEF Round, Call, Frame
LEMMA CodeFrame ==
    ASSUME NEW p \in Plugin \cup {Main}
    PROVE  Code(p) \in Frame /\ Code(p).step = "code" /\ Code(p).plugin = p
  BY DEF Code, Call, Frame, Tells

-----------------------------------------------------------------------------
(* The stack after a step.                                                  *)

\* The frames up to n are those there were, but for the plugins their rounds
\* still have to call.
Kept(n) ==
    \A i \in 1..n : /\ stack'[i].step = stack[i].step
                   /\ stack'[i].plugin = stack[i].plugin
                   /\ stack'[i].called = stack[i].called
                   /\ stack'[i].at = stack[i].at
                   /\ stack'[i].tell = stack[i].tell

\* The frames up to n are those there were.
Same(n) == \A i \in 1..n : stack'[i] = stack[i]

LEMMA SameKept == ASSUME NEW n, Same(n) PROVE Kept(n)
<1>1. ASSUME NEW i \in 1..n
      PROVE  /\ stack'[i].step = stack[i].step
             /\ stack'[i].plugin = stack[i].plugin
             /\ stack'[i].called = stack[i].called
             /\ stack'[i].at = stack[i].at
             /\ stack'[i].tell = stack[i].tell
  <2>1. stack'[i] = stack[i]
    BY <1>1 DEF Same
  <2> QED  BY <2>1, Zenon
<1> QED  BY <1>1 DEF Kept

LEMMA TopFacts ==
    ASSUME ShapeInv, stack # <<>>
    PROVE  /\ Len(stack) \in Nat \ {0} /\ DOMAIN stack = 1..Len(stack)
           /\ Len(stack) \in DOMAIN stack
           /\ Top = stack[Len(stack)] /\ Top \in Frame /\ Top.plugin \in 0..last
<1>1. stack \in Seq(Frame)
  BY DEF ShapeInv
<1>2. Len(stack) \in Nat /\ Len(stack) # 0 /\ DOMAIN stack = 1..Len(stack)
  BY <1>1
<1>3. Top = stack[Len(stack)]
  BY DEF Top, Last
<1> QED  BY <1>1, <1>2, <1>3 DEF ShapeInv

LEMMA Replaced ==
    ASSUME ShapeInv, stack # <<>>, NEW f \in Frame, stack' = Below \o <<f>>
    PROVE  /\ stack' \in Seq(Frame) /\ Len(stack') = Len(stack)
           /\ DOMAIN stack' = 1..Len(stack) /\ Same(Len(stack) - 1)
           /\ stack'[Len(stack)] = f /\ Kept(Len(stack) - 1)
<1> DEFINE t == <<f>>
<1>1. stack \in Seq(Frame) /\ Len(stack) \in Nat
  BY DEF ShapeInv
<1>2. t \in Seq(Frame) /\ Len(t) = 1 /\ t[1] = f /\ stack' = Front(stack) \o t
  BY DEF Below
<1> HIDE DEF t
<1>3. /\ stack' \in Seq(Frame) /\ Len(stack') = Len(stack) - 1 + Len(t)
      /\ \A i \in 1..(Len(stack) - 1) : stack'[i] = stack[i]
      /\ \A i \in 1..Len(t) : stack'[Len(stack) - 1 + i] = t[i]
  <2> DEFINE r == Front(stack) \o t
  <2>1. t \in Seq(Frame) /\ stack \in Seq(Frame)
    BY <1>1, <1>2
  <2>2. /\ r \in Seq(Frame) /\ Len(r) = Len(stack) - 1 + Len(t)
        /\ \A i \in 1..(Len(stack) - 1) : r[i] = stack[i]
        /\ \A i \in 1..Len(t) : r[Len(stack) - 1 + i] = t[i]
    BY <2>1, PopPush, SMTT(30)
  <2>3. stack' = r
    <3>1. stack' = Front(stack) \o t
      BY <1>2
    <3> QED  BY <3>1
  <2> HIDE DEF r
  <2> QED  BY <2>2, <2>3
<1>4. Len(stack) - 1 + 1 = Len(stack) /\ 1 \in 1..Len(t)
  <2>1. Len(stack) \in Nat /\ Len(t) = 1
    BY <1>1, <1>2
  <2> QED  BY <2>1
<1>5. stack'[Len(stack)] = f
  BY <1>2, <1>3, <1>4, Zenon
<1>6. Same(Len(stack) - 1) /\ Kept(Len(stack) - 1)
  <2>1. Same(Len(stack) - 1)
    BY <1>3 DEF Same
  <2> QED  BY <2>1, SameKept
<1>7. Len(stack') = Len(stack) /\ DOMAIN stack' = 1..Len(stack)
  <2>1. stack' \in Seq(Frame) /\ Len(stack') = Len(stack) - 1 + 1
    BY <1>2, <1>3, Zenon
  <2>2. Len(stack') = Len(stack)
    BY <1>4, <2>1, Zenon
  <2>3. DOMAIN stack' = 1..Len(stack')
    BY <2>1
  <2> QED  BY <2>2, <2>3
<1> QED  BY <1>3, <1>5, <1>6, <1>7

LEMMA Replaced2 ==
    ASSUME ShapeInv, stack # <<>>, NEW f \in Frame, NEW g \in Frame,
           stack' = Below \o <<f, g>>
    PROVE  /\ stack' \in Seq(Frame) /\ Len(stack') = Len(stack) + 1
           /\ DOMAIN stack' = 1..(Len(stack) + 1) /\ Same(Len(stack) - 1)
           /\ stack'[Len(stack)] = f /\ stack'[Len(stack) + 1] = g
           /\ Kept(Len(stack) - 1)
<1> DEFINE t == <<f, g>>
<1>1. stack \in Seq(Frame) /\ Len(stack) \in Nat
  BY DEF ShapeInv
<1>2. /\ t \in Seq(Frame) /\ Len(t) = 2 /\ t[1] = f /\ t[2] = g
      /\ stack' = Front(stack) \o t
  BY DEF Below
<1> HIDE DEF t
<1>3. /\ stack' \in Seq(Frame) /\ Len(stack') = Len(stack) - 1 + Len(t)
      /\ \A i \in 1..(Len(stack) - 1) : stack'[i] = stack[i]
      /\ \A i \in 1..Len(t) : stack'[Len(stack) - 1 + i] = t[i]
  <2> DEFINE r == Front(stack) \o t
  <2>1. t \in Seq(Frame) /\ stack \in Seq(Frame)
    BY <1>1, <1>2
  <2>2. /\ r \in Seq(Frame) /\ Len(r) = Len(stack) - 1 + Len(t)
        /\ \A i \in 1..(Len(stack) - 1) : r[i] = stack[i]
        /\ \A i \in 1..Len(t) : r[Len(stack) - 1 + i] = t[i]
    BY <2>1, PopPush, SMTT(30)
  <2>3. stack' = r
    <3>1. stack' = Front(stack) \o t
      BY <1>2
    <3> QED  BY <3>1
  <2> HIDE DEF r
  <2> QED  BY <2>2, <2>3
<1>4. /\ Len(stack) - 1 + 1 = Len(stack) /\ Len(stack) - 1 + 2 = Len(stack) + 1
      /\ 1 \in 1..Len(t) /\ 2 \in 1..Len(t)
  <2>1. Len(stack) \in Nat /\ Len(t) = 2
    BY <1>1, <1>2
  <2> QED  BY <2>1
<1>5. stack'[Len(stack)] = f /\ stack'[Len(stack) + 1] = g
  BY <1>2, <1>3, <1>4, Zenon
<1>6. Same(Len(stack) - 1) /\ Kept(Len(stack) - 1)
  <2>1. Same(Len(stack) - 1)
    BY <1>3 DEF Same
  <2> QED  BY <2>1, SameKept
<1>7. Len(stack') = Len(stack) + 1 /\ DOMAIN stack' = 1..(Len(stack) + 1)
  <2>1. stack' \in Seq(Frame) /\ Len(stack') = Len(stack) - 1 + 2
    BY <1>2, <1>3, Zenon
  <2>2. Len(stack') = Len(stack) + 1
    BY <1>4, <2>1, Zenon
  <2>3. DOMAIN stack' = 1..Len(stack')
    BY <2>1
  <2> QED  BY <2>2, <2>3
<1> QED  BY <1>3, <1>5, <1>6, <1>7

LEMMA Popped ==
    ASSUME ShapeInv, stack # <<>>, stack' = Below
    PROVE  /\ stack' \in Seq(Frame) /\ Len(stack') = Len(stack) - 1
           /\ DOMAIN stack' = 1..(Len(stack) - 1) /\ Same(Len(stack) - 1)
           /\ Kept(Len(stack) - 1)
<1>1. stack \in Seq(Frame)
  BY DEF ShapeInv
<1>2. /\ Front(stack) \in Seq(Frame) /\ Len(Front(stack)) = Len(stack) - 1
      /\ \A i \in 1..(Len(stack) - 1) : Front(stack)[i] = stack[i]
  BY <1>1, FrontFacts
<1>3. stack' = Front(stack)
  BY DEF Below
<1>4. /\ stack' \in Seq(Frame) /\ Len(stack') = Len(stack) - 1
      /\ \A i \in 1..(Len(stack) - 1) : stack'[i] = stack[i]
  BY <1>2, <1>3, Zenon
<1>5. Same(Len(stack) - 1) /\ Kept(Len(stack) - 1)
  <2>1. Same(Len(stack) - 1)
    BY <1>4 DEF Same
  <2> QED  BY <2>1, SameKept
<1> QED  BY <1>4, <1>5

LEMMA Pushed ==
    ASSUME ShapeInv, NEW f \in Frame, Push(f)
    PROVE  /\ stack' \in Seq(Frame) /\ Len(stack') = Len(stack) + 1
           /\ DOMAIN stack' = 1..(Len(stack) + 1) /\ Same(Len(stack))
           /\ stack'[Len(stack) + 1] = f /\ Kept(Len(stack))
<1>1. stack \in Seq(Frame) /\ Len(stack) \in Nat
  BY DEF ShapeInv
<1>2. stack' = Append(stack, f)
  BY DEF Push
<1>3. /\ stack' \in Seq(Frame) /\ Len(stack') = Len(stack) + 1
      /\ \A i \in 1..Len(stack) : stack'[i] = stack[i]
      /\ stack'[Len(stack) + 1] = f
  BY <1>1, <1>2
<1>4. Same(Len(stack)) /\ Kept(Len(stack))
  <2>1. Same(Len(stack))
    BY <1>3 DEF Same
  <2> QED  BY <2>1, SameKept
<1> QED  BY <1>3, <1>4

LEMMA Pushed2 ==
    ASSUME ShapeInv, NEW f \in Frame, NEW g \in Frame, stack' = stack \o <<f, g>>
    PROVE  /\ stack' \in Seq(Frame) /\ Len(stack') = Len(stack) + 2
           /\ DOMAIN stack' = 1..(Len(stack) + 2) /\ Same(Len(stack))
           /\ stack'[Len(stack) + 1] = f /\ stack'[Len(stack) + 2] = g
           /\ Kept(Len(stack))
<1> DEFINE t == <<f, g>>
<1>1. stack \in Seq(Frame) /\ Len(stack) \in Nat
  BY DEF ShapeInv
<1>2. t \in Seq(Frame) /\ Len(t) = 2 /\ t[1] = f /\ t[2] = g /\ stack' = stack \o t
  OBVIOUS
<1> HIDE DEF t
<1>3. /\ stack' \in Seq(Frame) /\ Len(stack') = Len(stack) + Len(t)
      /\ \A i \in 1..Len(stack) : stack'[i] = stack[i]
      /\ \A i \in 1..Len(t) : stack'[Len(stack) + i] = t[i]
  BY <1>1, <1>2, PushOn
<1>4. 1 \in 1..Len(t) /\ 2 \in 1..Len(t)
  BY <1>2
<1>5. stack'[Len(stack) + 1] = f /\ stack'[Len(stack) + 2] = g
  BY <1>2, <1>3, <1>4, Zenon
<1>6. Same(Len(stack)) /\ Kept(Len(stack))
  <2>1. Same(Len(stack))
    BY <1>3 DEF Same
  <2> QED  BY <2>1, SameKept
<1>7. Len(stack') = Len(stack) + 2 /\ DOMAIN stack' = 1..(Len(stack) + 2)
  <2>1. stack' \in Seq(Frame) /\ Len(stack') = Len(stack) + 2
    BY <1>2, <1>3, Zenon
  <2>2. DOMAIN stack' = 1..Len(stack')
    BY <2>1
  <2> QED  BY <2>1, <2>2
<1> QED  BY <1>3, <1>5, <1>6, <1>7

-----------------------------------------------------------------------------
(* The invariant holds initially.                                           *)

LEMMA InitInv == Init => HandlerInv
<1> SUFFICES ASSUME Init PROVE HandlerInv
  OBVIOUS
<1>1. /\ DOMAIN stack = {} /\ DOMAIN list = {} /\ DOMAIN commands = {} /\ Len(stack) = 0
      /\ stack \in Seq(Frame) /\ list \in Seq(1..last) /\ last = 0
      /\ DOMAIN name = {} /\ 1..last = {}
  BY DEF Init
<1>2. ToSet(list) = {} /\ FailedPlugins = {}
  BY <1>1 DEF Init, ToSet, FailedPlugins
<1>3. name \in [1..last -> Names]
  BY <1>1 DEF Init
<1>4. ShapeInv
  BY <1>1, <1>2, <1>3, HandlerAssumption DEF Init, ShapeInv, TypeOK
<1>5. MappedInv
  <2>1. Owned = {}
    BY <1>1 DEF Init, Owned
  <2> QED  BY <1>1, <2>1 DEF Init, MappedInv, TablesIn, CodeIn, OwnedIn, OwnedApart,
                             HandlesApart
<1>6. StepInv
  BY <1>1, <1>2 DEF Init, StepInv, Placed, Adding, OneRecord
<1>7. NestInv
  BY <1>1 DEF Init, NestInv, Fresh, RoundsCalled, OwnShutdown, ShutdownFirst
<1> QED  BY <1>4, <1>5, <1>6, <1>7 DEF HandlerInv

-----------------------------------------------------------------------------
(* Steps that change neither the registry nor the commands: rounds and calls. *)

\* The tables of actors lose entries at most.
Fewer ==
    /\ UNCHANGED <<registry, commands>>
    /\ mailboxes' \subseteq mailboxes /\ dropboxes' \subseteq dropboxes

LEMMA ShapeKept ==
    ASSUME ShapeInv, Fewer, stack' \in Seq(Frame),
           \A i \in DOMAIN stack' : stack'[i].plugin \in 0..last,
           initialized' \in BOOLEAN, stage' \in {"running", "stopping", "stopped"},
           heard' \subseteq [who : 1..last, of : 1..last]
    PROVE  ShapeInv'
<1>1. \A i \in DOMAIN stack' : stack'[i] \in Frame
  OBVIOUS
<1> QED  BY <1>1 DEF ShapeInv, TypeOK, Fewer, registry, freeing

\* The operations in progress are those of before, below n; what is above n are
\* rounds and code.
CallsAre(n) ==
    /\ n \in 0..Len(stack)
    /\ n <= Len(stack')
    /\ Kept(n)
    /\ \A i \in DOMAIN stack : i > n => stack[i].step \notin Operations
    /\ \A i \in DOMAIN stack' : i > n =>
            /\ stack'[i].step \in {"round", "code"}
            /\ stack'[i].step = "code" => stack'[i].plugin \in Reach \cup {Main}
            /\ stack'[i].step = "round" =>
                /\ ~stack'[i].called => i = Len(stack') /\ stack'[i].at \in map \cup {Main}
                /\ stack'[i].tell # "Pulse" => stack'[i].plugin # Main
    /\ \A i \in 1..n : stack[i].step = "round" => stack[i].called

ShutdownRuns(n) ==
    n \in DOMAIN stack /\ stack[n].step = "notify" =>
        IF n = Len(stack')
        THEN stack[n].plugin \in mailboxes' => name[stack[n].plugin] \in Untidy
        ELSE /\ stack'[n + 1].step = "code"
             /\ stack'[n + 1].plugin = stack[n].plugin

CallsOnly(n) == CallsAre(n) /\ ShutdownRuns(n)

\* The operations in progress, with or without their frames.
OpPlugins == {stack[i].plugin : i \in {j \in DOMAIN stack : stack[j].step \in Operations}}

LEMMA OwnedOps == Owned = handles \cup OpPlugins
  BY DEF Owned, OpPlugins, Operations

LEMMA CallsInv ==
    ASSUME HandlerInv, Fewer, ShapeInv', NEW n, CallsOnly(n)
    PROVE  HandlerInv'
<1> USE DEF Main
<1>1. /\ DOMAIN stack = 1..Len(stack) /\ Len(stack) \in Nat
      /\ DOMAIN stack' = 1..Len(stack') /\ Len(stack') \in Nat
      /\ n \in Nat /\ n <= Len(stack) /\ n <= Len(stack')
  BY DEF HandlerInv, ShapeInv, CallsOnly, CallsAre, ShutdownRuns
<1>2. /\ modules' = modules /\ map' = map /\ handles' = handles /\ failed' = failed
      /\ name' = name /\ commands' = commands /\ mailboxes' \subseteq mailboxes
      /\ FailedPlugins' = FailedPlugins /\ retried' = retried /\ last' = last
  BY DEF Fewer, registry, freeing, FailedPlugins
<1>3. \A i \in 1..n : /\ stack'[i].step = stack[i].step
                     /\ stack'[i].plugin = stack[i].plugin
                     /\ stack'[i].called = stack[i].called
                     /\ stack'[i].at = stack[i].at
                     /\ stack'[i].tell = stack[i].tell
  BY DEF CallsOnly, CallsAre, ShutdownRuns, Kept
<1>4. \A i \in DOMAIN stack' : i > n => stack'[i].step \notin Operations
  BY DEF CallsOnly, CallsAre, ShutdownRuns, Operations
<1>5. \A i \in DOMAIN stack : i > n => stack[i].step \notin Operations
  BY DEF CallsOnly, CallsAre, ShutdownRuns
<1>6. \A i \in 1..n : i \in DOMAIN stack /\ i \in DOMAIN stack'
  BY <1>1
<1>7. \A i \in DOMAIN stack' : i > n \/ i \in 1..n
  BY <1>1
<1>8. \A i \in DOMAIN stack : i > n \/ i \in 1..n
  BY <1>1
<1>9. MappedInv'
  <2>1. Owned' = Owned
    <3>1. OpPlugins' = OpPlugins
      <4>1. ASSUME NEW i \in DOMAIN stack, stack[i].step \in Operations
            PROVE  /\ i \in DOMAIN stack' /\ stack'[i].step \in Operations
                   /\ stack'[i].plugin = stack[i].plugin
        BY <1>3, <1>5, <1>6, <1>8, <4>1
      <4>2. ASSUME NEW i \in DOMAIN stack', stack'[i].step \in Operations
            PROVE  /\ i \in DOMAIN stack /\ stack[i].step \in Operations
                   /\ stack'[i].plugin = stack[i].plugin
        BY <1>3, <1>4, <1>6, <1>7, <4>2
      <4> QED  BY <4>1, <4>2 DEF OpPlugins
    <3>2. Owned' = handles' \cup OpPlugins'
      BY DEF Owned, OpPlugins, Operations
    <3> QED  BY <1>2, <3>1, <3>2, OwnedOps
  <2>2. Reach' = Reach
    BY <1>2, <2>1 DEF Reach
  <2>3. TablesIn'
    BY <1>2, <2>2 DEF HandlerInv, MappedInv, TablesIn
  <2>4. CodeIn'
    <3>1. \A i \in DOMAIN stack' : i > n /\ stack'[i].step = "code" =>
                stack'[i].plugin \in Reach \cup {Main}
      BY DEF CallsOnly, CallsAre, ShutdownRuns
    <3> QED  BY <1>2, <1>3, <1>6, <1>7, <2>2, <3>1 DEF HandlerInv, MappedInv, CodeIn
  <2>5. OwnedIn' /\ OwnedApart' /\ HandlesApart'
    BY <1>2, <2>1 DEF HandlerInv, MappedInv, OwnedIn, OwnedApart, HandlesApart, Exempt
  <2> QED  BY <2>3, <2>4, <2>5 DEF MappedInv
<1>10. StepInv'
  <2>1. Placed'
    BY <1>2, <1>3, <1>4, <1>6, <1>7 DEF HandlerInv, StepInv, Placed, RightPlace, Operations,
                                       NoMailbox
  <2>2. Adding'
    <3>1. ASSUME NEW i \in DOMAIN stack, stack[i].step = "add"
          PROVE  /\ i \in DOMAIN stack' /\ stack'[i].step = "add"
                 /\ stack'[i].plugin = stack[i].plugin
      BY <1>3, <1>5, <1>6, <1>8, <3>1 DEF Operations
    <3> QED  BY <1>2, <3>1 DEF HandlerInv, StepInv, Adding
  <2>3. OneRecord'
    BY <1>2 DEF HandlerInv, StepInv, OneRecord
  <2> QED  BY <2>1, <2>2, <2>3 DEF StepInv
<1>11. NestInv'
  <2>1. Fresh'
    <3> SUFFICES ASSUME NEW i \in DOMAIN stack', NEW j \in DOMAIN stack', i < j,
                        stack'[j].step \in Operations
                 PROVE  stack'[i].plugin # stack'[j].plugin
      BY DEF Fresh
    <3>1. j \in 1..n /\ i \in 1..n
      BY <1>1, <1>4, <1>7
    <3> QED  BY <1>3, <1>6, <3>1 DEF HandlerInv, NestInv, Fresh
  <2>2. RoundsCalled'
    <3>1. \A i \in DOMAIN stack' : i > n /\ stack'[i].step = "round" =>
                /\ ~stack'[i].called => i = Len(stack') /\ stack'[i].at \in map \cup {Main}
                /\ stack'[i].tell # "Pulse" => stack'[i].plugin # Main
      BY DEF CallsOnly, CallsAre, ShutdownRuns
    <3>2. \A i \in 1..n : stack[i].step = "round" => stack[i].called
      BY DEF CallsOnly, CallsAre, ShutdownRuns
    <3> QED  BY <1>2, <1>3, <1>6, <1>7, <3>1, <3>2 DEF HandlerInv, NestInv, RoundsCalled
  <2>3. OwnShutdown'
    <3> SUFFICES ASSUME NEW i \in DOMAIN stack', stack'[i].step = "notify"
                 PROVE  IF i = Len(stack')
                        THEN stack'[i].plugin \in mailboxes' => name'[stack'[i].plugin] \in Untidy
                        ELSE /\ stack'[i + 1].step = "code"
                             /\ stack'[i + 1].plugin = stack'[i].plugin
      BY DEF OwnShutdown, NoMailbox
    <3>1. i \in 1..n /\ i \in DOMAIN stack /\ stack[i].step = "notify"
      BY <1>3, <1>4, <1>6, <1>7 DEF Operations
    <3>2. stack'[i].plugin = stack[i].plugin
      BY <1>3, <3>1
    <3>3. CASE i = n
      <4>1. IF n = Len(stack')
            THEN stack[n].plugin \in mailboxes' => name[stack[n].plugin] \in Untidy
            ELSE /\ stack'[n + 1].step = "code"
                 /\ stack'[n + 1].plugin = stack[n].plugin
        BY <3>1, <3>3 DEF CallsOnly, CallsAre, ShutdownRuns
      <4> QED  BY <1>2, <3>2, <3>3, <4>1
    <3>4. CASE i # n
      <4>1. i + 1 \in 1..n /\ i # Len(stack) /\ i # Len(stack')
        BY <1>1, <3>1, <3>4
      <4>2. stack[i + 1].step = "code" /\ stack[i + 1].plugin = stack[i].plugin
        BY <3>1, <4>1 DEF HandlerInv, NestInv, OwnShutdown
      <4> QED  BY <1>3, <3>2, <4>1, <4>2
    <3> QED  BY <3>3, <3>4
  <2>4. ShutdownFirst'
    <3>1. \A i \in DOMAIN stack' : i > n => stack'[i].step \in {"round", "code"}
      BY DEF CallsOnly, CallsAre, ShutdownRuns
    <3> QED  BY <1>3, <1>6, <1>7, <3>1 DEF HandlerInv, NestInv, ShutdownFirst
  <2> QED  BY <2>1, <2>2, <2>3, <2>4 DEF NestInv
<1> QED  BY <1>9, <1>10, <1>11 DEF HandlerInv

\* What can be reached is a plugin.
LEMMA ReachPlugins ==
    ASSUME HandlerInv
    PROVE  /\ OpPlugins \subseteq 1..last /\ Owned \subseteq 1..last
           /\ Reach \subseteq 1..last /\ 1..last \subseteq Plugin
           /\ map \subseteq handles /\ handles \subseteq Owned /\ Owned \subseteq Reach
<1>1. OpPlugins \subseteq 1..last
  <2> SUFFICES ASSUME NEW i \in DOMAIN stack, stack[i].step \in Operations
               PROVE  stack[i].plugin \in 1..last
    BY DEF OpPlugins
  <2>1. stack[i].plugin \in 0..last /\ stack[i].plugin # 0
    BY DEF HandlerInv, ShapeInv, StepInv, Placed, RightPlace, Main
  <2>2. last \in Nat
    BY HandlerAssumption DEF HandlerInv, ShapeInv, TypeOK
  <2> QED  BY <2>1, <2>2
<1>2. handles \subseteq 1..last /\ map \subseteq handles
  BY DEF HandlerInv, ShapeInv, TypeOK
<1>3. 1..last \subseteq Plugin
  BY HandlerAssumption DEF HandlerInv, ShapeInv, TypeOK, Plugin
<1>4. Owned \subseteq 1..last /\ handles \subseteq Owned
  BY <1>1, <1>2, OwnedOps
<1> QED  BY <1>1, <1>2, <1>3, <1>4 DEF Reach

\* Below the innermost call: every round has called its plugin, and a plugin
\* that is being shut down is running.
LEMMA BelowTop ==
    ASSUME HandlerInv, stack # <<>>, NEW n, n = Len(stack)
    PROVE  /\ n \in Nat \ {0} /\ DOMAIN stack = 1..n /\ n \in DOMAIN stack
           /\ Top = stack[n] /\ Top \in Frame /\ Top.plugin \in 0..last
           /\ \A i \in 1..(n - 1) : stack[i].step = "round" => stack[i].called
           /\ n - 1 \in DOMAIN stack /\ stack[n - 1].step = "notify" =>
                Top.step = "code" /\ Top.plugin = stack[n - 1].plugin
<1>1. /\ n \in Nat \ {0} /\ DOMAIN stack = 1..n /\ n \in DOMAIN stack
      /\ Top = stack[n] /\ Top \in Frame /\ Top.plugin \in 0..last
  BY TopFacts DEF HandlerInv
<1>2. ASSUME NEW i \in 1..(n - 1), stack[i].step = "round" PROVE stack[i].called
  <2>1. i \in DOMAIN stack /\ i # Len(stack)
    BY <1>1
  <2> QED  BY <1>2, <2>1 DEF HandlerInv, NestInv, RoundsCalled
<1>3. ASSUME n - 1 \in DOMAIN stack, stack[n - 1].step = "notify"
      PROVE  Top.step = "code" /\ Top.plugin = stack[n - 1].plugin
  <2>1. n - 1 # Len(stack) /\ n - 1 + 1 = n
    BY <1>1
  <2> QED  BY <1>1, <1>3, <2>1 DEF HandlerInv, NestInv, OwnShutdown
<1> QED  BY <1>1, <1>2, <1>3

LEMMA RoundCallInv == HandlerInv /\ RoundCall => HandlerInv'
<1> SUFFICES ASSUME HandlerInv, RoundCall PROVE HandlerInv'
  OBVIOUS
<1> DEFINE n == Len(stack)
           f == [Top EXCEPT !.called = TRUE, !.seen = @ \cup {Top.at}]
           g == Code(Top.at)
<1>1. /\ stack # <<>> /\ Top.step = "round" /\ Top.at # Main /\ ~Top.called
      /\ stack' = Below \o <<f, g>> /\ Fewer
  BY DEF RoundCall, Step, Fewer, tables
<1>2. /\ n \in Nat \ {0} /\ DOMAIN stack = 1..n /\ n \in DOMAIN stack
      /\ Top = stack[n] /\ Top \in Frame /\ Top.plugin \in 0..last
      /\ \A i \in 1..(n - 1) : stack[i].step = "round" => stack[i].called
      /\ n - 1 \in DOMAIN stack => stack[n - 1].step # "notify"
  BY <1>1, BelowTop
<1>3. Top.at \in map
  BY <1>1, <1>2 DEF HandlerInv, NestInv, RoundsCalled
<1>4. Top.at \in Reach /\ Top.at \in 1..last /\ Top.at \in Plugin /\ Top.at \in 0..last
  <2>1. Top.at \in Reach /\ Top.at \in 1..last /\ Top.at \in Plugin
    BY <1>3, ReachPlugins
  <2>2. last \in Nat
    BY HandlerAssumption DEF HandlerInv, ShapeInv, TypeOK
  <2> QED  BY <2>1, <2>2
<1>5. /\ f \in Frame /\ f.step = "round" /\ f.plugin = Top.plugin /\ f.called = TRUE
      /\ f.tell = Top.tell
  BY <1>1, <1>2, <1>4 DEF Frame
<1>6. g \in Frame /\ g.step = "code" /\ g.plugin = Top.at
  BY <1>4, CodeFrame
<1> HIDE DEF f, g
<1>7. /\ stack' \in Seq(Frame) /\ Len(stack') = n + 1 /\ DOMAIN stack' = 1..(n + 1)
      /\ Kept(n - 1) /\ stack'[n] = f /\ stack'[n + 1] = g
  BY <1>1, <1>5, <1>6, Replaced2 DEF HandlerInv
<1>8. ShapeInv'
  <2>1. heard' \subseteq [who : 1..last, of : 1..last]
    <3>1. CASE Top.tell = "LoadPlugin"
      <4>1. Top.plugin # Main
        BY <1>1, <1>2, <3>1 DEF HandlerInv, NestInv, RoundsCalled
      <4>2. Top.plugin \in 1..last
        BY <1>2, <4>1 DEF HandlerInv, ShapeInv, TypeOK, Main
      <4> QED BY <3>1, <4>2, <1>4 DEF RoundCall, HandlerInv, ShapeInv, TypeOK
    <3>2. CASE Top.tell # "LoadPlugin"
      BY <3>2 DEF RoundCall, HandlerInv, ShapeInv, TypeOK
    <3> QED  BY <3>1, <3>2
  <2>2. \A i \in DOMAIN stack' : stack'[i].plugin \in 0..last
    BY <1>2, <1>4, <1>5, <1>6, <1>7 DEF HandlerInv, ShapeInv, Kept
  <2> QED  BY <1>1, <1>7, <2>1, <2>2, ShapeKept DEF HandlerInv, ShapeInv, TypeOK, RoundCall
<1>9. CallsOnly(n - 1)
  <2>1. \A i \in DOMAIN stack' : i > n - 1 => i = n \/ i = n + 1
    BY <1>2, <1>7
  <2>2. \A i \in DOMAIN stack : i > n - 1 => i = n
    BY <1>2
  <2>3. n - 1 \in 0..n /\ n - 1 <= Len(stack')
    BY <1>2, <1>7
  <2>4. stack[n].step \notin Operations
    BY <1>1, <1>2 DEF Operations
  <2>5. Top.tell # "Pulse" => Top.plugin # Main
    BY <1>1, <1>2 DEF HandlerInv, NestInv, RoundsCalled
  <2>9. ShutdownRuns(n - 1)
    <3> HIDE DEF n
    <3> QED  BY <1>2 DEF ShutdownRuns
  <2>10. CallsAre(n - 1)
    BY <1>2, <1>4, <1>5, <1>6, <1>7, <2>1, <2>2, <2>3, <2>4, <2>5 DEF CallsAre
  <2> QED  BY <2>9, <2>10 DEF CallsOnly
<1> QED  BY <1>1, <1>8, <1>9, CallsInv

\* The plugin behind one of the list, or one that has left it.
LEMMA AfterFacts ==
    ASSUME ShapeInv, NEW p
    PROVE  /\ After(p) \in map \cup {Main} /\ After(p) \in Plugin \cup {Main}
<1>1. list \in Seq(1..last) /\ map = ToSet(list) /\ last \in 0..MaxPlugin
  BY DEF ShapeInv, TypeOK
<1>2. Len(list) \in Nat /\ DOMAIN list = 1..Len(list)
  BY <1>1
<1>3. CASE p \in ToSet(list) /\ Place(p) < Len(list)
  <2>1. \E i \in DOMAIN list : list[i] = p
    BY <1>3 DEF ToSet
  <2>2. Place(p) \in DOMAIN list
    BY <2>1 DEF Place
  <2>3. Place(p) + 1 \in DOMAIN list
    BY <1>2, <1>3, <2>2
  <2>4. list[Place(p) + 1] \in ToSet(list) /\ list[Place(p) + 1] \in 1..last
    BY <1>1, <2>3 DEF ToSet
  <2> QED  BY <1>1, <1>3, <2>4, HandlerAssumption DEF After, Plugin
<1>4. CASE ~(p \in ToSet(list) /\ Place(p) < Len(list))
  BY <1>4 DEF After
<1> QED  BY <1>3, <1>4

LEMMA RoundNextInv == HandlerInv /\ RoundNext => HandlerInv'
<1> SUFFICES ASSUME HandlerInv, RoundNext PROVE HandlerInv'
  OBVIOUS
<1> DEFINE n == Len(stack)
           f == [Top EXCEPT !.at = After(Top.at), !.called = FALSE]
<1>1. /\ stack # <<>> /\ Top.step = "round" /\ stack' = Below \o <<f>> /\ Fewer
  BY DEF RoundNext, Step, Fewer, tables
<1>2. /\ n \in Nat \ {0} /\ DOMAIN stack = 1..n /\ n \in DOMAIN stack
      /\ Top = stack[n] /\ Top \in Frame /\ Top.plugin \in 0..last
      /\ \A i \in 1..(n - 1) : stack[i].step = "round" => stack[i].called
      /\ n - 1 \in DOMAIN stack => stack[n - 1].step # "notify"
  BY <1>1, BelowTop
<1>3. After(Top.at) \in map \cup {Main} /\ After(Top.at) \in Plugin \cup {Main}
  BY AfterFacts DEF HandlerInv
<1>4. /\ f \in Frame /\ f.step = "round" /\ f.plugin = Top.plugin /\ f.tell = Top.tell
      /\ f.at = After(Top.at)
  BY <1>1, <1>2, <1>3 DEF Frame
<1> HIDE DEF f
<1>5. /\ stack' \in Seq(Frame) /\ Len(stack') = n /\ DOMAIN stack' = 1..n
      /\ Kept(n - 1) /\ stack'[n] = f
  BY <1>1, <1>4, Replaced DEF HandlerInv
<1>6. ShapeInv'
  <2>1. \A i \in DOMAIN stack' : stack'[i].plugin \in 0..last
    BY <1>2, <1>4, <1>5 DEF HandlerInv, ShapeInv, Kept
  <2> QED  BY <1>1, <1>5, <2>1, ShapeKept DEF HandlerInv, ShapeInv, TypeOK, RoundNext
<1>7. CallsOnly(n - 1)
  <2>1. \A i \in DOMAIN stack' : i > n - 1 => i = n
    BY <1>2, <1>5
  <2>2. \A i \in DOMAIN stack : i > n - 1 => i = n
    BY <1>2
  <2>3. n - 1 \in 0..n /\ n - 1 <= Len(stack')
    BY <1>2, <1>5
  <2>4. stack[n].step \notin Operations
    BY <1>1, <1>2 DEF Operations
  <2>5. Top.tell # "Pulse" => Top.plugin # Main
    BY <1>1, <1>2 DEF HandlerInv, NestInv, RoundsCalled
  <2>9. ShutdownRuns(n - 1)
    <3> HIDE DEF n
    <3> QED  BY <1>2 DEF ShutdownRuns
  <2>10. CallsAre(n - 1)
    BY <1>2, <1>3, <1>4, <1>5, <2>1, <2>2, <2>3, <2>4, <2>5 DEF CallsAre
  <2> QED  BY <2>9, <2>10 DEF CallsOnly
<1> QED  BY <1>1, <1>6, <1>7, CallsInv

LEMMA RoundEndInv == HandlerInv /\ RoundEnd => HandlerInv'
<1> SUFFICES ASSUME HandlerInv, RoundEnd PROVE HandlerInv'
  OBVIOUS
<1> DEFINE n == Len(stack)
<1>1. /\ stack # <<>> /\ Top.step = "round" /\ stack' = Below /\ Fewer
  BY DEF RoundEnd, Step, Fewer, tables, OnPostUnloadPluginActorAPI
<1>2. /\ n \in Nat \ {0} /\ DOMAIN stack = 1..n /\ n \in DOMAIN stack
      /\ Top = stack[n] /\ Top \in Frame /\ Top.plugin \in 0..last
      /\ \A i \in 1..(n - 1) : stack[i].step = "round" => stack[i].called
      /\ n - 1 \in DOMAIN stack => stack[n - 1].step # "notify"
  BY <1>1, BelowTop
<1>3. /\ stack' \in Seq(Frame) /\ Len(stack') = n - 1 /\ DOMAIN stack' = 1..(n - 1)
      /\ Kept(n - 1)
  BY <1>1, Popped DEF HandlerInv
<1>4. ShapeInv'
  <2>1. \A i \in DOMAIN stack' : stack'[i].plugin \in 0..last
    BY <1>2, <1>3 DEF HandlerInv, ShapeInv, Kept
  <2> QED  BY <1>1, <1>3, <2>1, ShapeKept DEF HandlerInv, ShapeInv, TypeOK, RoundEnd
<1>5. CallsOnly(n - 1)
  <2>1. \A i \in DOMAIN stack' : ~(i > n - 1)
    BY <1>2, <1>3
  <2>2. \A i \in DOMAIN stack : i > n - 1 => i = n
    BY <1>2
  <2>3. n - 1 \in 0..n /\ n - 1 <= Len(stack')
    BY <1>2, <1>3
  <2>4. stack[n].step \notin Operations
    BY <1>1, <1>2 DEF Operations
  <2>9. ShutdownRuns(n - 1)
    <3> HIDE DEF n
    <3> QED  BY <1>2 DEF ShutdownRuns
  <2>10. CallsAre(n - 1)
    BY <1>2, <1>3, <2>1, <2>2, <2>3, <2>4 DEF CallsAre
  <2> QED  BY <2>9, <2>10 DEF CallsOnly
<1> QED  BY <1>1, <1>4, <1>5, CallsInv

LEMMA ReturnInv == HandlerInv /\ Return => HandlerInv'
<1> SUFFICES ASSUME HandlerInv, Return PROVE HandlerInv'
  OBVIOUS
<1> DEFINE n == Len(stack)
<1>1. /\ stack # <<>> /\ Top.step = "code" /\ stack' = Below /\ Fewer
  BY DEF Return, Step, Fewer, tables, RemoveActorOf
<1>2. /\ n \in Nat \ {0} /\ DOMAIN stack = 1..n /\ n \in DOMAIN stack
      /\ Top = stack[n] /\ Top \in Frame /\ Top.plugin \in 0..last
      /\ \A i \in 1..(n - 1) : stack[i].step = "round" => stack[i].called
      /\ n - 1 \in DOMAIN stack /\ stack[n - 1].step = "notify" =>
            Top.plugin = stack[n - 1].plugin
  BY <1>1, BelowTop
<1>3. /\ stack' \in Seq(Frame) /\ Len(stack') = n - 1 /\ DOMAIN stack' = 1..(n - 1)
      /\ Kept(n - 1)
  BY <1>1, Popped DEF HandlerInv
<1>4. ShapeInv'
  <2>1. \A i \in DOMAIN stack' : stack'[i].plugin \in 0..last
    BY <1>2, <1>3 DEF HandlerInv, ShapeInv, Kept
  <2> QED  BY <1>1, <1>3, <2>1, ShapeKept DEF HandlerInv, ShapeInv, TypeOK, Return
<1>5. CallsOnly(n - 1)
  <2>1. \A i \in DOMAIN stack' : ~(i > n - 1)
    BY <1>2, <1>3
  <2>2. \A i \in DOMAIN stack : i > n - 1 => i = n
    BY <1>2
  <2>3. n - 1 \in 0..n /\ n - 1 <= Len(stack')
    BY <1>2, <1>3
  <2>4. stack[n].step \notin Operations
    BY <1>1, <1>2 DEF Operations
  <2>5. n - 1 \in DOMAIN stack /\ stack[n - 1].step = "notify" =>
            (stack[n - 1].plugin \in mailboxes' => name[stack[n - 1].plugin] \in Untidy)
    <3> SUFFICES ASSUME n - 1 \in DOMAIN stack, stack[n - 1].step = "notify",
                        name[Top.plugin] \notin Untidy
                 PROVE  Top.plugin \notin mailboxes'
      BY <1>2
    <3>1. Below # <<>> /\ Len(Below) = n - 1
      BY <1>1, <1>2, <1>3
    <3>2. stack[Len(Below)].step = "notify"
      BY <3>1
    <3>3. CASE Top.plugin \in mailboxes
      <4>1. mailboxes' = mailboxes \ {Top.plugin}
        BY <3>1, <3>2, <3>3 DEF Return, RemoveActorOf
      <4> QED  BY <4>1
    <3>4. CASE Top.plugin \notin mailboxes
      BY <1>1, <3>4 DEF Fewer
    <3> QED  BY <3>3, <3>4
  <2>9. ShutdownRuns(n - 1)
    BY <1>2, <1>3, <2>5 DEF ShutdownRuns
  <2>10. CallsAre(n - 1)
    BY <1>2, <1>3, <2>1, <2>2, <2>3, <2>4, <2>5 DEF CallsAre
  <2> QED  BY <2>9, <2>10 DEF CallsOnly
<1> QED  BY <1>1, <1>4, <1>5, CallsInv

\* A call of a plugin's code on top of code, or of nothing.
LEMMA CodeOnTop ==
    ASSUME HandlerInv, NEW p \in Reach, Push(Code(p)), Fewer,
           stack = <<>> \/ Top.step = "code",
           UNCHANGED <<initialized, stage, heard>>
    PROVE  HandlerInv'
<1> DEFINE n == Len(stack)
           g == Code(p)
<1>1. n \in Nat /\ DOMAIN stack = 1..n
  BY DEF HandlerInv, ShapeInv
<1>2. p \in 1..last /\ p \in Plugin
  BY ReachPlugins
<1>3. g \in Frame /\ g.step = "code" /\ g.plugin = p
  BY <1>2, CodeFrame
<1> HIDE DEF g
<1>4. /\ stack' \in Seq(Frame) /\ Len(stack') = n + 1 /\ DOMAIN stack' = 1..(n + 1)
      /\ Kept(n) /\ stack'[n + 1] = g
  <2>1. Push(g)
    BY DEF g
  <2> QED  BY <1>3, <2>1, Pushed DEF HandlerInv
<1>5. ShapeInv'
  <2>1. \A i \in DOMAIN stack' : stack'[i].plugin \in 0..last
    BY <1>1, <1>2, <1>3, <1>4 DEF HandlerInv, ShapeInv, Kept
  <2> QED  BY <1>4, <2>1, ShapeKept DEF HandlerInv, ShapeInv, TypeOK
<1>6. CallsOnly(n)
  <2>1. \A i \in DOMAIN stack' : i > n => i = n + 1
    BY <1>1, <1>4
  <2>2. \A i \in DOMAIN stack : ~(i > n)
    BY <1>1
  <2>3. n \in 0..n /\ n <= Len(stack')
    BY <1>1, <1>4
  <2>4. \A i \in 1..n : stack[i].step = "round" => stack[i].called
    <3>1. CASE stack = <<>>
      BY <1>1, <3>1
    <3>2. CASE stack # <<>> /\ Top.step = "code"
      <4>1. /\ Top = stack[n]
            /\ \A i \in 1..(n - 1) : stack[i].step = "round" => stack[i].called
        BY <1>1, <3>2, BelowTop
      <4>2. \A i \in 1..n : i = n \/ i \in 1..(n - 1)
        <5> HIDE DEF n
        <5> QED  BY <1>1
      <4> QED  BY <3>2, <4>1, <4>2
    <3> QED  BY <3>1, <3>2
  <2>5. n \in DOMAIN stack => stack[n].step # "notify"
    <3> SUFFICES ASSUME n \in DOMAIN stack PROVE stack[n].step # "notify"
      OBVIOUS
    <3>1. stack # <<>>
      BY <1>1
    <3>2. Top = stack[n]
      BY <3>1, BelowTop
    <3> QED  BY <3>1, <3>2
  <2>9. ShutdownRuns(n)
    <3> HIDE DEF n
    <3> QED  BY <2>5 DEF ShutdownRuns
  <2>10. CallsAre(n)
    BY <1>1, <1>3, <1>4, <2>1, <2>2, <2>3, <2>4, <2>5 DEF CallsAre
  <2> QED  BY <2>9, <2>10 DEF CallsOnly
<1> QED  BY <1>5, <1>6, CallsInv

LEMMA DoCommandInv ==
    ASSUME NEW c \in Commands PROVE HandlerInv /\ DoCommand(c) => HandlerInv'
<1> SUFFICES ASSUME HandlerInv, DoCommand(c) PROVE HandlerInv'
  OBVIOUS
<1>1. commands[c] \in Reach
  BY DEF DoCommand, HandlerInv, MappedInv, TablesIn
<1>2. Push(Code(commands[c])) /\ Fewer /\ UNCHANGED <<initialized, stage, heard>>
  BY DEF DoCommand, Fewer, tables
<1>3. stack = <<>> \/ Top.step = "code"
  BY DEF DoCommand, Calling
<1> QED  BY <1>1, <1>2, <1>3, CodeOnTop

LEMMA ReceiveInv ==
    ASSUME NEW p \in Plugin PROVE HandlerInv /\ Receive(p) => HandlerInv'
<1> SUFFICES ASSUME HandlerInv, Receive(p) PROVE HandlerInv'
  OBVIOUS
<1>1. p \in Reach
  BY DEF Receive, HandlerInv, MappedInv, TablesIn
<1>2. Push(Code(p)) /\ Fewer /\ stack = <<>> /\ UNCHANGED <<initialized, stage, heard>>
  BY DEF Receive, Fewer, tables
<1> QED  BY <1>1, <1>2, CodeOnTop

LEMMA PulsePluginsInv == HandlerInv /\ PulsePlugins => HandlerInv'
<1> SUFFICES ASSUME HandlerInv, PulsePlugins PROVE HandlerInv'
  OBVIOUS
<1> DEFINE g == Round("Pulse", Main)
<1>1. stack = <<>> /\ Push(g) /\ Fewer /\ UNCHANGED <<initialized, stage, heard>>
  BY DEF PulsePlugins, Fewer, tables
<1>2. /\ g \in Frame /\ g.step = "round" /\ g.plugin = Main
      /\ g.at \in map \cup {Main} /\ g.tell = "Pulse"
  <2>1. list \in Seq(1..last) /\ last \in 0..MaxPlugin /\ map = ToSet(list)
    BY DEF HandlerInv, ShapeInv, TypeOK
  <2>2. "Pulse" \in Tells
    BY DEF Tells
  <2>0. Main \in Plugin \cup {Main}
    OBVIOUS
  <2>3. /\ Round("Pulse", Main) \in Frame /\ Round("Pulse", Main).step = "round"
        /\ Round("Pulse", Main).plugin = Main /\ Round("Pulse", Main).tell = "Pulse"
        /\ Round("Pulse", Main).at \in ToSet(list) \cup {Main}
    BY <2>0, <2>1, <2>2, RoundFrame, Zenon
  <2> QED  BY <2>1, <2>3
<1> HIDE DEF g
<1>3. /\ stack' \in Seq(Frame) /\ Len(stack') = 1 /\ DOMAIN stack' = 1..1 /\ stack'[1] = g
  <2>1. Len(stack) = 0
    BY <1>1
  <2>2. /\ stack' \in Seq(Frame) /\ Len(stack') = Len(stack) + 1
        /\ DOMAIN stack' = 1..(Len(stack) + 1) /\ stack'[Len(stack) + 1] = g
    BY <1>1, <1>2, Pushed DEF HandlerInv
  <2> QED  BY <2>1, <2>2
<1>4. ShapeInv'
  <2>1. \A i \in DOMAIN stack' : stack'[i].plugin \in 0..last
    BY <1>2, <1>3 DEF HandlerInv, ShapeInv, TypeOK, Main
  <2> QED  BY <1>1, <1>3, <2>1, ShapeKept DEF HandlerInv, ShapeInv, TypeOK
<1>5. CallsOnly(0)
  <2>1. \A i \in DOMAIN stack' : i = 1
    BY <1>3
  <2>2. Len(stack) = 0 /\ DOMAIN stack = {} /\ 1..0 = {}
    BY <1>1
  <2>9. ShutdownRuns(0)
    BY <2>2 DEF ShutdownRuns
  <2>10. CallsAre(0)
    BY <1>2, <1>3, <2>1, <2>2 DEF CallsAre, Kept
  <2> QED  BY <2>9, <2>10 DEF CallsOnly
<1> QED  BY <1>1, <1>4, <1>5, CallsInv

-----------------------------------------------------------------------------
(* The steps of an operation on the plugin p.  Its frame is the n-th; no call *)
(* below is about p.                                                        *)

\* What is registered of others stays as it is.
OthersKept(p) ==
    /\ \A q : q # p =>
        /\ q \in map' <=> q \in map
        /\ q \in handles' <=> q \in handles
        /\ q \in FailedPlugins' <=> q \in FailedPlugins
        /\ q \in mailboxes' => q \in mailboxes
    /\ 1..last \subseteq 1..last'
    /\ \A q \in 1..last : name'[q] = name[q]

\* The calls from the n-th on, before and after the step.
AboveWas(n, p) ==
    \A i \in DOMAIN stack : i >= n /\ stack[i].step \in Operations =>
        stack[i].plugin = p

AboveIs(n, p) ==
    \A i \in DOMAIN stack' : i >= n =>
        /\ stack'[i].step \in Operations \cup {"code", "round"}
        /\ stack'[i].step \in Operations =>
                i = n /\ stack'[i].plugin = p /\ RightPlace(stack[i])'
        /\ stack'[i].step = "code" => stack'[i].plugin \in Owned' \cup {Main}
        /\ stack'[i].step = "round" =>
                /\ ~stack'[i].called => i = Len(stack') /\ stack'[i].at \in map' \cup {Main}
                /\ stack'[i].tell # "Pulse" => stack'[i].plugin # Main
        /\ stack'[i].step = "notify" =>
                /\ i # Len(stack') /\ stack'[i + 1].step = "code"
                /\ stack'[i + 1].plugin = p

BelowIs(n, p) ==
    /\ n \in Nat \ {0} /\ n - 1 <= Len(stack) /\ n - 1 <= Len(stack')
    /\ Kept(n - 1)
    /\ \A i \in 1..(n - 1) : stack[i].plugin # p
    /\ \A i \in 1..(n - 1) : stack[i].step = "round" => stack[i].called
    /\ n - 1 \in DOMAIN stack => stack[n - 1].step # "notify"

\* Of the others, the same are owned.
LEMMA OwnedOthers ==
    ASSUME HandlerInv, ShapeInv', NEW n, NEW p, OthersKept(p),
           AboveWas(n, p), AboveIs(n, p), BelowIs(n, p)
    PROVE  \A q : q # p => (q \in Owned' <=> q \in Owned)
<1>1. /\ DOMAIN stack = 1..Len(stack) /\ Len(stack) \in Nat
      /\ DOMAIN stack' = 1..Len(stack') /\ Len(stack') \in Nat
      /\ n \in Nat \ {0} /\ n - 1 <= Len(stack) /\ n - 1 <= Len(stack')
  BY DEF HandlerInv, ShapeInv, BelowIs
<1>2. \A i \in 1..(n - 1) : /\ i \in DOMAIN stack /\ i \in DOMAIN stack'
                           /\ stack'[i].step = stack[i].step
                           /\ stack'[i].plugin = stack[i].plugin
  BY <1>1 DEF BelowIs, Kept
<1>3. \A i \in DOMAIN stack' : i >= n \/ i \in 1..(n - 1)
  BY <1>1
<1>4. \A i \in DOMAIN stack : i >= n \/ i \in 1..(n - 1)
  BY <1>1
<1>5. ASSUME NEW q, q # p, q \in OpPlugins PROVE q \in OpPlugins'
  <2>1. PICK i \in DOMAIN stack : stack[i].step \in Operations /\ stack[i].plugin = q
    BY <1>5 DEF OpPlugins
  <2>2. i \in 1..(n - 1)
    BY <1>4, <1>5, <2>1 DEF AboveWas
  <2> QED  BY <1>2, <2>1, <2>2 DEF OpPlugins
<1>6. ASSUME NEW q, q # p, q \in OpPlugins' PROVE q \in OpPlugins
  <2>1. PICK i \in DOMAIN stack' : stack'[i].step \in Operations /\ stack'[i].plugin = q
    BY <1>6 DEF OpPlugins
  <2>2. i \in 1..(n - 1)
    BY <1>3, <1>6, <2>1 DEF AboveIs
  <2> QED  BY <1>2, <2>1, <2>2 DEF OpPlugins
<1>7. Owned' = handles' \cup OpPlugins'
  BY DEF Owned, OpPlugins, Operations
<1> QED  BY <1>5, <1>6, <1>7, OwnedOps DEF OthersKept

LEMMA OperationInv ==
    ASSUME HandlerInv, ShapeInv', NEW n, NEW p, OthersKept(p),
           AboveWas(n, p), AboveIs(n, p), BelowIs(n, p),
           TablesIn', OwnedIn', OwnedApart', HandlesApart', OneRecord',
           p \in handles' \ map' =>
                /\ n \in DOMAIN stack' /\ stack'[n].step = "add"
                /\ stack'[n].plugin = p
    PROVE  HandlerInv'
<1>1. /\ DOMAIN stack = 1..Len(stack) /\ Len(stack) \in Nat
      /\ DOMAIN stack' = 1..Len(stack') /\ Len(stack') \in Nat
      /\ n \in Nat \ {0} /\ n - 1 <= Len(stack) /\ n - 1 <= Len(stack')
  BY DEF HandlerInv, ShapeInv, BelowIs
<1>2. \A i \in 1..(n - 1) : /\ i \in DOMAIN stack /\ i \in DOMAIN stack'
                           /\ stack[i].plugin # p
                           /\ stack'[i].step = stack[i].step
                           /\ stack'[i].plugin = stack[i].plugin
                           /\ stack'[i].called = stack[i].called
                           /\ stack'[i].at = stack[i].at
                           /\ stack'[i].tell = stack[i].tell
  BY <1>1 DEF BelowIs, Kept
<1>3. \A i \in DOMAIN stack' : i >= n \/ i \in 1..(n - 1)
  BY <1>1
<1>4. \A i \in DOMAIN stack : i >= n \/ i \in 1..(n - 1)
  BY <1>1
<1>5. MappedInv'
  <2>1. \A q : q # p => (q \in Owned' <=> q \in Owned)
    BY OwnedOthers
  <2>2. \A q : q # p /\ q \in Reach => q \in Reach'
    BY <2>1 DEF Reach, OthersKept
  <2>3. CodeIn'
    <3> SUFFICES ASSUME NEW i \in DOMAIN stack', stack'[i].step = "code"
                 PROVE  stack'[i].plugin \in Reach' \cup {Main}
      BY DEF CodeIn
    <3>1. CASE i >= n
      BY <3>1 DEF AboveIs, Reach
    <3>2. CASE i \in 1..(n - 1)
      BY <1>2, <2>2, <3>2 DEF HandlerInv, MappedInv, CodeIn
    <3> QED  BY <1>3, <3>1, <3>2
  <2> QED  BY <2>3 DEF MappedInv
<1>6. StepInv'
  <2>1. Placed'
    <3> SUFFICES ASSUME NEW i \in DOMAIN stack' PROVE RightPlace(stack[i])'
      BY DEF Placed
    <3>1. CASE i >= n /\ stack'[i].step \in Operations
      BY <3>1 DEF AboveIs
    <3>2. CASE stack'[i].step \notin Operations
      BY <3>2 DEF RightPlace, Operations
    <3>3. CASE i \in 1..(n - 1)
      <4>1. RightPlace(stack[i]) /\ stack[i].plugin # p
        BY <1>2, <3>3 DEF HandlerInv, StepInv, Placed
      <4>2. stack'[i].step = stack[i].step /\ stack'[i].plugin = stack[i].plugin
        BY <1>2, <3>3
      <4>3. CASE stack[i].step \in Operations
        <5>1. stack[i].plugin \in OpPlugins
          BY <1>2, <3>3, <4>3 DEF OpPlugins
        <5>2. name'[stack[i].plugin] = name[stack[i].plugin]
          BY <5>1, ReachPlugins DEF OthersKept
        <5> QED  BY <4>1, <4>2, <5>2 DEF RightPlace, OthersKept, NoMailbox
      <4>4. CASE stack[i].step \notin Operations
        BY <4>2, <4>4 DEF RightPlace, Operations
      <4> QED  BY <4>3, <4>4
    <3> QED  BY <1>3, <3>1, <3>2, <3>3
  <2>2. ASSUME NEW q \in handles' \ map'
        PROVE  \E i \in DOMAIN stack' : stack'[i].step = "add" /\ stack'[i].plugin = q
    <3>1. CASE q = p
      BY <2>2, <3>1
    <3>2. CASE q # p
      <4>1. q \in handles \ map
        BY <2>2, <3>2 DEF OthersKept
      <4>2. PICK i \in DOMAIN stack : stack[i].step = "add" /\ stack[i].plugin = q
        BY <4>1 DEF HandlerInv, StepInv, Adding
      <4>3. ~(i >= n)
        BY <3>2, <4>2 DEF AboveWas, Operations
      <4> QED  BY <1>2, <1>4, <4>2, <4>3
    <3> QED  BY <3>1, <3>2
  <2> QED  BY <2>1, <2>2 DEF StepInv, Adding
<1>7. NestInv'
  <2>1. Fresh'
    <3> SUFFICES ASSUME NEW i \in DOMAIN stack', NEW j \in DOMAIN stack', i < j,
                        stack'[j].step \in Operations
                 PROVE  stack'[i].plugin # stack'[j].plugin
      BY DEF Fresh
    <3>1. CASE j >= n
      <4>1. j = n /\ stack'[j].plugin = p
        BY <3>1 DEF AboveIs
      <4>2. i \in 1..(n - 1)
        BY <1>1, <4>1
      <4> QED  BY <1>2, <4>1, <4>2
    <3>2. CASE j \in 1..(n - 1)
      <4>1. i \in 1..(n - 1)
        BY <1>1, <3>2
      <4> QED  BY <1>2, <3>2, <4>1 DEF HandlerInv, NestInv, Fresh
    <3> QED  BY <1>3, <3>1, <3>2
  <2>2. RoundsCalled'
    <3> SUFFICES ASSUME NEW i \in DOMAIN stack', stack'[i].step = "round"
                 PROVE  /\ ~stack'[i].called =>
                                i = Len(stack') /\ stack'[i].at \in map' \cup {Main}
                        /\ stack'[i].tell # "Pulse" => stack'[i].plugin # Main
      BY DEF RoundsCalled
    <3>1. CASE i >= n
      BY <3>1 DEF AboveIs
    <3>2. CASE i \in 1..(n - 1)
      <4>1. stack[i].called
        BY <1>2, <3>2 DEF BelowIs
      <4> QED  BY <1>2, <3>2, <4>1 DEF HandlerInv, NestInv, RoundsCalled
    <3> QED  BY <1>3, <3>1, <3>2
  <2>3. OwnShutdown'
    <3>3. ASSUME NEW i \in DOMAIN stack', stack'[i].step = "notify"
          PROVE  /\ i # Len(stack') /\ stack'[i + 1].step = "code"
                 /\ stack'[i + 1].plugin = stack'[i].plugin
      <4>4. CASE i >= n
        BY <3>3, <4>4 DEF AboveIs, Operations
      <4>5. CASE i \in 1..(n - 1)
        <5>1. i # n - 1
          BY <1>2, <3>3, <4>5 DEF BelowIs
        <5>2. i + 1 \in 1..(n - 1) /\ i # Len(stack) /\ i # Len(stack')
          BY <1>1, <4>5, <5>1
        <5>3. stack[i + 1].step = "code" /\ stack[i + 1].plugin = stack[i].plugin
          BY <1>2, <3>3, <4>5, <5>2 DEF HandlerInv, NestInv, OwnShutdown
        <5> QED  BY <1>2, <4>5, <5>2, <5>3
      <4> QED  BY <1>3, <4>4, <4>5
    <3> QED  BY <3>3 DEF OwnShutdown
  <2>4. ShutdownFirst'
    <3>1. \A i \in DOMAIN stack' : i >= n =>
                stack'[i].step \notin {"unloadAll", "unloadFailed", "ask"}
      BY DEF AboveIs, Operations
    <3> QED  BY <1>2, <1>3, <3>1 DEF HandlerInv, NestInv, ShutdownFirst
  <2> QED  BY <2>1, <2>2, <2>3, <2>4 DEF NestInv
<1> QED  BY <1>5, <1>6, <1>7 DEF HandlerInv

\* A step of an operation on a plugin that is owned before and after it.
LEMMA OwnedSame ==
    ASSUME HandlerInv, ShapeInv', NEW n, NEW p, OthersKept(p),
           AboveWas(n, p), AboveIs(n, p), BelowIs(n, p),
           last' = last, name' = name, modules' = modules, retried' = retried,
           commands' = commands, mailboxes' = mailboxes, handles' \subseteq handles,
           p \in Owned, p \in Owned'
    PROVE  TablesIn' /\ OwnedIn' /\ OwnedApart' /\ HandlesApart'
<1>1. Owned' = Owned
  BY OwnedOthers
<1>2. Reach' = Reach
  BY <1>1 DEF Reach
<1> QED  BY <1>1, <1>2 DEF HandlerInv, MappedInv, TablesIn, OwnedIn, OwnedApart,
                         HandlesApart, Exempt

\* Neither a round nor a plugin's Shutdown is innermost.
LEMMA Settled ==
    ASSUME HandlerInv, stack = <<>> \/ Top.step \notin {"round", "notify"}
    PROVE  /\ \A i \in 1..Len(stack) : stack[i].step = "round" => stack[i].called
           /\ Len(stack) \in DOMAIN stack => stack[Len(stack)].step # "notify"
<1> DEFINE n == Len(stack)
<1>1. n \in Nat /\ DOMAIN stack = 1..n
  BY DEF HandlerInv, ShapeInv
<1>2. \A i \in 1..n : stack[i].step = "round" => stack[i].called
  <2>1. CASE stack = <<>>
    BY <1>1, <2>1
  <2>2. CASE stack # <<>> /\ Top.step # "round"
    <3>1. /\ Top = stack[n]
          /\ \A i \in 1..(n - 1) : stack[i].step = "round" => stack[i].called
      BY <2>2, BelowTop
    <3>2. \A i \in 1..n : i = n \/ i \in 1..(n - 1)
      <4> HIDE DEF n
      <4> QED  BY <1>1
    <3> QED  BY <2>2, <3>1, <3>2
  <2> QED  BY <2>1, <2>2
<1>3. n \in DOMAIN stack => stack[n].step # "notify"
  <2> SUFFICES ASSUME n \in DOMAIN stack PROVE stack[n].step # "notify"
    OBVIOUS
  <2>1. stack # <<>>
    BY <1>1
  <2>2. Top = stack[n]
    BY <2>1, BelowTop
  <2> QED  BY <2>1, <2>2
<1> QED  BY <1>2, <1>3

\* A call that starts on top of code, of the client's shutdown, or of nothing.
LEMMA OnTop ==
    ASSUME HandlerInv, stack = <<>> \/ Top.step \notin {"round", "notify"}, NEW p,
           \A i \in DOMAIN stack : stack[i].plugin # p,
           Len(stack) <= Len(stack'), Kept(Len(stack))
    PROVE  AboveWas(Len(stack) + 1, p) /\ BelowIs(Len(stack) + 1, p)
<1> DEFINE n == Len(stack)
<1>1. n \in Nat /\ DOMAIN stack = 1..n
  BY DEF HandlerInv, ShapeInv
<1>2. \A i \in 1..n : stack[i].step = "round" => stack[i].called
  BY Settled
<1>3. n \in DOMAIN stack => stack[n].step # "notify"
  BY Settled
<1>4. n + 1 - 1 = n /\ n + 1 \in Nat \ {0} /\ n <= n
  BY <1>1
<1>5. AboveWas(n + 1, p)
  BY <1>1 DEF AboveWas
<1>6. n <= Len(stack') /\ Kept(n)
  OBVIOUS
<1> HIDE DEF n
<1>7. BelowIs(n + 1, p)
  <2>1. n <= Len(stack)
    BY <1>1 DEF n
  <2> QED  BY <1>1, <1>2, <1>3, <1>4, <1>6, <2>1 DEF BelowIs
<1> QED  BY <1>5, <1>7 DEF n

\* The names that plugins hold.
LEMMA NamesTaken ==
    ASSUME HandlerInv, NEW n, n \notin HeldNames, GetPlugin(n) = Main
    PROVE  \A q \in Owned : name[q] # n
<1> SUFFICES ASSUME NEW q \in Owned, name[q] = n PROVE FALSE
  OBVIOUS
<1>1. q # Main
  <2>1. q \in 1..last /\ last \in Nat
    BY ReachPlugins, HandlerAssumption DEF HandlerInv, ShapeInv, TypeOK
  <2> QED  BY <2>1 DEF Main
<1>2. q \notin map
  <2> SUFFICES ASSUME q \in map PROVE FALSE
    OBVIOUS
  <2>1. GetPlugin(n) \in map
    BY DEF GetPlugin
  <2> QED  BY <2>1 DEF HandlerInv, ShapeInv, TypeOK, Main
<1>3. \E i \in DOMAIN stack : stack[i].plugin = q
  <2>1. CASE q \in handles
    BY <1>2, <2>1 DEF HandlerInv, StepInv, Adding
  <2>2. CASE q \in OpPlugins
    BY <2>2 DEF OpPlugins
  <2> QED  BY <2>1, <2>2, OwnedOps
<1>4. q \in Held \ {Main}
  BY <1>1, <1>3 DEF Held
<1> QED  BY <1>4 DEF HeldNames

LEMMA LoadPluginInv ==
    ASSUME NEW n \in Names
    PROVE  HandlerInv /\ LoadPlugin(n) => HandlerInv'
<1> SUFFICES ASSUME HandlerInv, LoadPlugin(n) PROVE HandlerInv'
  OBVIOUS
<1> DEFINE p == last + 1
           f == Call("add", p)
           g == Code(p)
<1>0. PICK k : k = Len(stack) + 1
  OBVIOUS
<1>1. /\ last' = p /\ name' = Append(name, n) /\ handles' = handles \cup {p}
      /\ modules' = modules \cup {p} /\ deleted' = deleted
      /\ retried' \subseteq retried /\ retried \ {n} \subseteq retried' /\ stack' = stack \o <<f, g>>
      /\ list' = list /\ map' = map /\ failed' = failed
      /\ commands' = commands /\ mailboxes' = mailboxes /\ dropboxes' = dropboxes
      /\ initialized' = initialized /\ stage' = stage /\ heard' = heard
  BY DEF LoadPlugin, tables
<1>2. /\ last \in Nat /\ p \in Plugin /\ 1..p = (1..last) \cup {p} /\ p \notin 0..last
      /\ p \in 0..MaxPlugin /\ p # Main
  BY HandlerAssumption DEF LoadPlugin, HandlerInv, ShapeInv, TypeOK, Plugin, Main
<1>3. /\ p \notin map /\ p \notin handles /\ p \notin modules /\ p \notin mailboxes
      /\ p \notin FailedPlugins
  BY <1>2 DEF HandlerInv, ShapeInv, TypeOK, FailedPlugins
<1>4. f \in Frame /\ f.step = "add" /\ f.plugin = p
  BY <1>2, CallFrame DEF Steps
<1>5. g \in Frame /\ g.step = "code" /\ g.plugin = p
  BY <1>2, CodeFrame
<1> HIDE DEF f, g
<1>6. /\ stack' \in Seq(Frame) /\ Len(stack') = Len(stack) + 2
      /\ DOMAIN stack' = 1..(Len(stack) + 2) /\ Kept(Len(stack))
      /\ stack'[Len(stack) + 1] = f /\ stack'[Len(stack) + 2] = g
  BY <1>1, <1>4, <1>5, Pushed2 DEF HandlerInv
<1>7. Len(stack) \in Nat /\ DOMAIN stack = 1..Len(stack)
  BY DEF HandlerInv, ShapeInv
<1>8. /\ name' \in [1..p -> Names] /\ name'[p] = n
      /\ \A q \in 1..last : name'[q] = name[q]
  <2>1. name \in Seq(Names) /\ Len(name) = last
    <3>1. name \in [1..last -> Names]
      BY DEF HandlerInv, ShapeInv, TypeOK
    <3>2. name \in Seq(Names)
      BY <1>2, <3>1, SeqDef
    <3> QED  BY <1>2, <3>1, <3>2
  <2>2. name' \in Seq(Names) /\ Len(name') = p /\ \A q \in 1..p : name'[q] \in Names
    BY <1>1, <1>2, <2>1
  <2>3. DOMAIN name' = 1..p /\ name'[p] = n /\ \A q \in 1..last : name'[q] = name[q]
    BY <1>1, <1>2, <2>1
  <2>4. name' = [q \in 1..p |-> name'[q]]
    BY <2>2, <2>3
  <2> HIDE DEF p
  <2> QED  BY <2>2, <2>3, <2>4
<1>9. ShapeInv'
  <2>1. \A i \in DOMAIN stack' : i \in 1..Len(stack) \/ i = Len(stack) + 1 \/ i = Len(stack) + 2
    BY <1>6, <1>7
  <2>2. \A i \in DOMAIN stack' : stack'[i].plugin \in 0..p
    <3>1. \A i \in 1..Len(stack) : stack'[i].plugin \in 0..last
      BY <1>6, <1>7 DEF Kept, HandlerInv, ShapeInv
    <3> QED  BY <1>2, <1>4, <1>5, <1>6, <2>1, <3>1
  <2>3. \A i \in DOMAIN stack' : stack'[i] \in Frame
    BY <1>6
  <2>4. 1..last \subseteq 1..p /\ 0..last \subseteq 0..p /\ p \in 1..p
    BY <1>2
  <2>5. list' \in Seq(1..p)
    <3>1. list \in Seq(1..last)
      BY DEF HandlerInv, ShapeInv
    <3>5. \A i \in 1..Len(list) : list[i] \in 1..last
      BY <1>2, <3>1
    <3> HIDE DEF p
    <3>2. \A i \in 1..Len(list) : list[i] \in 1..p
      BY <2>4, <3>5
    <3>3. Len(list) \in Nat /\ list = [i \in 1..Len(list) |-> list[i]]
      BY <3>1
    <3>4. list \in [1..Len(list) -> 1..p]
      BY <3>2, <3>3, Zenon
    <3> QED  BY <1>1, <3>3, <3>4, SeqDef
  <2>6. TypeOK'
    BY <1>1, <1>2, <1>8, <2>3, <2>4 DEF HandlerInv, ShapeInv, TypeOK
  <2> QED  BY <1>1, <1>6, <2>2, <2>5, <2>6 DEF HandlerInv, ShapeInv
<1>10. \A i \in DOMAIN stack : stack[i].plugin # p
  BY <1>2 DEF HandlerInv, ShapeInv
<1>11. AboveWas(k, p) /\ BelowIs(k, p)
  <2>1. stack = <<>> \/ Top.step \notin {"round", "notify"}
    BY DEF LoadPlugin, Calling
  <2>2. Len(stack) <= Len(stack') /\ Kept(Len(stack))
    BY <1>6, <1>7
  <2> QED  BY <1>0, <1>10, <2>1, <2>2, OnTop
<1>12. FailedPlugins' = FailedPlugins
  BY <1>1 DEF FailedPlugins
<1>13. OthersKept(p)
  <2>1. 1..last \subseteq 1..last'
    BY <1>1, <1>2
  <2> HIDE DEF p
  <2> QED  BY <1>1, <1>8, <1>12, <2>1 DEF OthersKept
<1>14. k \in DOMAIN stack' /\ stack'[k] = f /\ stack'[k + 1] = g /\ k + 1 = Len(stack')
  BY <1>0, <1>6, <1>7
<1>15. p \in Owned'
  BY <1>1 DEF Owned
<1> HIDE DEF p
<1>16. AboveIs(k, p)
  <2>1. \A i \in DOMAIN stack' : i >= k => i = k \/ i = k + 1
    BY <1>0, <1>6, <1>7
  <2>2. RightPlace(stack[k])'
    BY <1>1, <1>2, <1>3, <1>4, <1>12, <1>14 DEF RightPlace
  <2> QED  BY <1>1, <1>4, <1>5, <1>14, <1>15, <2>1, <2>2 DEF AboveIs, Operations
<1>17. Owned' = Owned \cup {p} /\ Reach \subseteq Reach'
  <2>1. \A q : q # p => (q \in Owned' <=> q \in Owned)
    BY <1>9, <1>11, <1>13, <1>16, OwnedOthers
  <2>2. Owned' = Owned \cup {p}
    BY <1>15, <2>1
  <2> QED  BY <2>2, <1>13 DEF Reach, OthersKept
<1>18. \A q \in Owned : name'[q] = name[q] /\ name[q] # n /\ (Exempt(q) => Exempt(q)')
  <2>1. \A q \in Owned : name'[q] = name[q] /\ name[q] # n
    BY <1>8, ReachPlugins, NamesTaken DEF LoadPlugin
  <2> QED  BY <1>1, <2>1 DEF Exempt
<1>19. TablesIn' /\ OneRecord'
  BY <1>1, <1>3, <1>12, <1>17 DEF HandlerInv, MappedInv, TablesIn, StepInv, OneRecord
<1>20. OwnedIn'
  BY <1>1, <1>17, <1>18 DEF HandlerInv, MappedInv, OwnedIn
<1>21. OwnedApart'
  BY <1>8, <1>17, <1>18 DEF HandlerInv, MappedInv, OwnedApart
<1>22. HandlesApart'
  <2>1. handles \subseteq Owned
    BY ReachPlugins
  <2>2. \A q, r \in handles : name'[q] = name'[r] => q = r
    BY <1>18, <2>1 DEF HandlerInv, MappedInv, HandlesApart
  <2>3. \A q \in handles : name'[q] # name'[p]
    BY <1>8, <1>18, <2>1
  <2>4. \A q, r \in handles \cup {p} : name'[q] = name'[r] => q = r
    BY <2>2, <2>3, Zenon
  <2> QED  BY <1>1, <2>4 DEF HandlesApart
<1>23. k \in DOMAIN stack' /\ stack'[k].step = "add" /\ stack'[k].plugin = p
  BY <1>4, <1>14
<1> QED  BY <1>9, <1>11, <1>13, <1>16, <1>19, <1>20, <1>21, <1>22, <1>23, OperationInv

\* The operation in progress, on top of the stack.
LEMMA TopOperation ==
    ASSUME HandlerInv, stack # <<>>, Top.step \in Operations,
           NEW n, n = Len(stack), NEW p, p = Top.plugin
    PROVE  /\ n \in Nat \ {0} /\ DOMAIN stack = 1..n /\ Top = stack[n]
           /\ Top \in Frame /\ RightPlace(Top)
           /\ p \in Owned /\ p \in 1..last /\ p \in Plugin /\ p \in 0..last /\ p # Main
           /\ AboveWas(n, p)
           /\ n - 1 <= Len(stack') /\ Kept(n - 1) => BelowIs(n, p)
<1>1. /\ n \in Nat \ {0} /\ DOMAIN stack = 1..n /\ n \in DOMAIN stack
      /\ Top = stack[n] /\ Top \in Frame
      /\ \A i \in 1..(n - 1) : stack[i].step = "round" => stack[i].called
      /\ n - 1 \in DOMAIN stack => stack[n - 1].step # "notify"
  <2>1. Top.step # "code"
    BY DEF Operations
  <2> QED  BY <2>1, BelowTop
<1>2. p \in OpPlugins
  BY <1>1 DEF OpPlugins
<1>3. p \in Owned /\ p \in 1..last /\ p \in Plugin /\ p \in 0..last /\ p # Main
  <2>1. p \in 1..last /\ p \in Plugin /\ p \in Owned
    BY <1>2, ReachPlugins, OwnedOps
  <2> QED  BY <2>1, HandlerAssumption DEF Plugin, Main, HandlerInv, ShapeInv, TypeOK
<1>4. RightPlace(Top)
  BY <1>1 DEF HandlerInv, StepInv, Placed
<1>5. AboveWas(n, p)
  <2>1. \A i \in DOMAIN stack : i >= n => i = n
    BY <1>1
  <2> QED  BY <1>1, <2>1 DEF AboveWas
<1>6. ASSUME n - 1 <= Len(stack'), Kept(n - 1) PROVE BelowIs(n, p)
  <2>1. \A i \in 1..(n - 1) : stack[i].plugin # p
    <3> SUFFICES ASSUME NEW i \in 1..(n - 1) PROVE stack[i].plugin # p
      OBVIOUS
    <3>1. i \in DOMAIN stack /\ i < n
      BY <1>1
    <3> QED  BY <1>1, <3>1 DEF HandlerInv, NestInv, Fresh
  <2>2. n - 1 <= Len(stack)
    BY <1>1
  <2> QED  BY <1>1, <1>6, <2>1, <2>2 DEF BelowIs
<1> QED  BY <1>1, <1>2, <1>3, <1>4, <1>5, <1>6

LEMMA LoadListedInv == HandlerInv /\ LoadListed => HandlerInv'
<1> SUFFICES ASSUME HandlerInv, LoadListed PROVE HandlerInv'
  OBVIOUS
<1>0. PICK k, p : k = Len(stack) /\ p = Top.plugin
  OBVIOUS
<1> DEFINE f == Call("announce", p)
           g == Code(Main)
<1>1. /\ stack # <<>> /\ Top.step = "add" /\ stack' = Below \o <<f, g>>
      /\ list' = <<p>> \o list /\ map' = map \cup {p}
      /\ last' = last /\ name' = name /\ handles' = handles
      /\ modules' = modules /\ failed' = failed /\ deleted' = deleted
      /\ retried' = retried
      /\ commands' = commands /\ mailboxes' = mailboxes /\ dropboxes' = dropboxes
      /\ initialized' = initialized /\ stage' = stage /\ heard' = heard
  BY <1>0 DEF LoadListed, Step, tables, freeing
<1>2. /\ k \in Nat \ {0} /\ DOMAIN stack = 1..k /\ Top = stack[k]
      /\ RightPlace(Top)
      /\ p \in Owned /\ p \in 1..last /\ p \in Plugin /\ p \in 0..last /\ p # Main
      /\ AboveWas(k, p)
      /\ k - 1 <= Len(stack') /\ Kept(k - 1) => BelowIs(k, p)
  <2>1. Top.step \in Operations
    BY <1>1 DEF Operations
  <2> QED  BY <1>0, <1>1, <2>1, TopOperation
<1>3. f \in Frame /\ f.step = "announce" /\ f.plugin = p
  BY <1>2, CallFrame DEF Steps
<1>4. g \in Frame /\ g.step = "code" /\ g.plugin = Main
  BY CodeFrame
<1> HIDE DEF f, g
<1>5. /\ stack' \in Seq(Frame) /\ Len(stack') = k + 1
      /\ DOMAIN stack' = 1..(k + 1) /\ Kept(k - 1)
      /\ stack'[k] = f /\ stack'[k + 1] = g
  BY <1>0, <1>1, <1>3, <1>4, Replaced2 DEF HandlerInv
<1>6. p \notin FailedPlugins /\ p \in handles /\ p \notin map
  BY <1>0, <1>1, <1>2 DEF RightPlace, Operations
<1>7. /\ list' \in Seq(1..last) /\ ToSet(list') = map'
      /\ \A i, j \in DOMAIN list' : list'[i] = list'[j] => i = j
  <2>1. list \in Seq(1..last) /\ Distinct(list) /\ ToSet(list) = map
    BY DEF HandlerInv, ShapeInv, Distinct
  <2> DEFINE r == <<p>> \o list
  <2>4. p \in 1..last /\ p \notin ToSet(list)
    BY <1>2, <1>6, <2>1
  <2>5. list \in Seq(1..last)
    BY <2>1
  <2>6. p \in 1..last
    BY <2>4
  <2>2. r \in Seq(1..last) /\ ToSet(r) = ToSet(list) \cup {p} /\ Distinct(r)
    <3>1. /\ <<p>> \o list \in Seq(1..last)
          /\ ToSet(<<p>> \o list) = ToSet(list) \cup {p}
          /\ Distinct(list) /\ p \notin ToSet(list) => Distinct(<<p>> \o list)
      BY <2>5, <2>6, PrependElements, Zenon
    <3> QED  BY <2>1, <2>4, <3>1
  <2>3. list' = r
    BY <1>1
  <2> HIDE DEF r
  <2> QED  BY <1>1, <2>1, <2>2, <2>3 DEF Distinct
<1>8. ShapeInv'
  <2>1. \A i \in DOMAIN stack' : stack'[i].plugin \in 0..last
    <3>1. \A i \in DOMAIN stack' : i \in 1..(k - 1) \/ i = k \/ i = k + 1
      BY <1>2, <1>5
    <3>2. \A i \in 1..(k - 1) : i \in DOMAIN stack
      BY <1>2
    <3>3. Main \in 0..last
      BY DEF HandlerInv, ShapeInv, TypeOK, Main
    <3> QED  BY <1>2, <1>3, <1>4, <1>5, <3>1, <3>2, <3>3 DEF HandlerInv, ShapeInv, Kept
  <2>3. ToSet(list') \subseteq 1..last /\ map' \subseteq 1..last
    BY <1>1, <1>2, <1>7 DEF HandlerInv, ShapeInv, TypeOK
  <2>4. \A i \in DOMAIN stack' : stack'[i] \in Frame
    BY <1>5
  <2>2. TypeOK'
    BY <1>1, <2>3, <2>4 DEF HandlerInv, ShapeInv, TypeOK
  <2> QED  BY <1>1, <1>5, <1>6, <1>7, <2>1, <2>2 DEF HandlerInv, ShapeInv
<1>9. FailedPlugins' = FailedPlugins
  BY <1>1 DEF FailedPlugins
<1>10. OthersKept(p)
  BY <1>1, <1>9 DEF OthersKept
<1>15. p \in Owned'
  BY <1>1, <1>6 DEF Owned
<1>11. AboveIs(k, p)
  <2>1. \A i \in DOMAIN stack' : i >= k => i = k \/ i = k + 1
    BY <1>2, <1>5
  <2>2. RightPlace(stack[k])'
    BY <1>1, <1>2, <1>3, <1>5, <1>6, <1>9 DEF RightPlace
  <2> QED  BY <1>1, <1>2, <1>3, <1>4, <1>5, <2>1, <2>2 DEF AboveIs, Operations
<1>12. BelowIs(k, p)
  BY <1>2, <1>5
<1>13. TablesIn' /\ OwnedIn' /\ OwnedApart' /\ HandlesApart'
  <2>1. handles' \subseteq handles
    BY <1>1
  <2> QED  BY <1>1, <1>2, <1>8, <1>10, <1>11, <1>12, <1>15, <2>1, OwnedSame
<1>14. OneRecord'
  BY <1>1, <1>9 DEF HandlerInv, StepInv, OneRecord
<1>16. p \in map'
  BY <1>1
<1> QED  BY <1>2, <1>8, <1>10, <1>11, <1>12, <1>13, <1>14, <1>16, OperationInv

LEMMA LoadAnnouncedInv == HandlerInv /\ LoadAnnounced => HandlerInv'
<1> SUFFICES ASSUME HandlerInv, LoadAnnounced PROVE HandlerInv'
  OBVIOUS
<1>0. PICK k, p : k = Len(stack) /\ p = Top.plugin
  OBVIOUS
<1> DEFINE f == Round("LoadPlugin", p)
<1>1. /\ stack # <<>> /\ Top.step = "announce"
      /\ stack' = Below \o <<f>> \/ stack' = Below \o <<>>
      /\ Fewer /\ initialized' = initialized /\ stage' = stage /\ heard' = heard
      /\ mailboxes' = mailboxes /\ map' = map /\ handles' = handles /\ failed' = failed
      /\ modules' = modules /\ name' = name /\ commands' = commands
      /\ last' = last /\ retried' = retried
  BY <1>0 DEF LoadAnnounced, Step, tables, registry, freeing, Fewer
<1>2. /\ k \in Nat \ {0} /\ DOMAIN stack = 1..k /\ Top = stack[k]
      /\ RightPlace(Top)
      /\ p \in Owned /\ p \in 1..last /\ p \in Plugin /\ p \in 0..last /\ p # Main
      /\ AboveWas(k, p)
      /\ k - 1 <= Len(stack') /\ Kept(k - 1) => BelowIs(k, p)
  <2>1. Top.step \in Operations
    BY <1>1 DEF Operations
  <2> QED  BY <1>0, <1>1, <2>1, TopOperation
<1>3. /\ f \in Frame /\ f.step = "round" /\ f.plugin = p
      /\ f.at \in map \cup {Main}
  BY <1>2, RoundFrame DEF Tells, HandlerInv, ShapeInv, TypeOK
<1> HIDE DEF f
<1>4. /\ stack' \in Seq(Frame) /\ Kept(k - 1) /\ (Len(stack') = k - 1 \/ Len(stack') = k)
      /\ DOMAIN stack' = 1..Len(stack')
      /\ Len(stack') = k => stack'[k] = f
  <2>1. CASE stack' = Below \o <<f>>
    BY <1>0, <1>1, <1>2, <1>3, <2>1, Replaced DEF HandlerInv
  <2>2. CASE stack' = Below \o <<>>
    <3>1. Below \in Seq(Frame)
      BY <1>1, FrontFacts DEF HandlerInv, ShapeInv, Below
    <3>2. stack' = Below
      BY <2>2, <3>1
    <3> QED  BY <1>0, <1>1, <1>2, <3>2, Popped DEF HandlerInv
  <2> QED  BY <1>1, <2>1, <2>2
<1>5. /\ \A i \in DOMAIN stack' : i \in 1..(k - 1) \/ (i = k /\ Len(stack') = k)
      /\ k - 1 <= Len(stack')
  <2>1. k \in Nat \ {0}
    BY <1>2
  <2>2. DOMAIN stack' = 1..Len(stack') /\ (Len(stack') = k - 1 \/ Len(stack') = k)
    BY <1>4
  <2>3. CASE Len(stack') = k - 1
    BY <2>1, <2>2, <2>3
  <2>4. CASE Len(stack') = k
    BY <2>1, <2>2, <2>4
  <2> QED  BY <2>2, <2>3, <2>4
<1>6. ShapeInv'
  <2>1. \A i \in DOMAIN stack' : stack'[i].plugin \in 0..last
    <3>1. \A i \in 1..(k - 1) : i \in DOMAIN stack
      BY <1>2
    <3>2. \A i \in 1..(k - 1) : stack'[i].plugin \in 0..last
      BY <1>4, <3>1 DEF HandlerInv, ShapeInv, Kept
    <3>3. Len(stack') = k => stack'[k].plugin \in 0..last
      BY <1>2, <1>3, <1>4
    <3> QED  BY <1>5, <3>2, <3>3
  <2> QED  BY <1>1, <1>4, <2>1, ShapeKept DEF HandlerInv, ShapeInv, TypeOK
<1>7. FailedPlugins' = FailedPlugins
  BY <1>1 DEF FailedPlugins
<1>8. OthersKept(p)
  BY <1>1, <1>7 DEF OthersKept
<1>9. AboveIs(k, p)
  <2>1. \A i \in DOMAIN stack' : i >= k => i = k /\ Len(stack') = k
    BY <1>2, <1>5
  <2> QED  BY <1>1, <1>2, <1>3, <1>4, <2>1 DEF AboveIs, Operations
<1>10. BelowIs(k, p)
  BY <1>2, <1>4, <1>5
<1>11. p \in map' /\ p \in Owned'
  <2>1. p \in map
    BY <1>0, <1>1, <1>2 DEF RightPlace
  <2>2. p \in handles'
    BY <1>1, <2>1, ReachPlugins
  <2> QED  BY <1>1, <2>1, <2>2 DEF Owned
<1>12. TablesIn' /\ OwnedIn' /\ OwnedApart' /\ HandlesApart'
  <2>1. handles' \subseteq handles
    BY <1>1
  <2> QED  BY <1>1, <1>2, <1>6, <1>8, <1>9, <1>10, <1>11, <2>1, OwnedSame
<1>13. OneRecord'
  BY <1>1, <1>7 DEF HandlerInv, StepInv, OneRecord
<1> QED  BY <1>2, <1>6, <1>8, <1>9, <1>10, <1>11, <1>12, <1>13, OperationInv

LEMMA UnloadNotifiedInv == HandlerInv /\ UnloadNotified => HandlerInv'
<1> SUFFICES ASSUME HandlerInv, UnloadNotified PROVE HandlerInv'
  OBVIOUS
<1>0. PICK k, p : k = Len(stack) /\ p = Top.plugin
  OBVIOUS
<1> DEFINE f == [Top EXCEPT !.step = "free"]
           g == Round("PostUnloadPlugin", p)
<1>1. /\ stack # <<>> /\ Top.step = "notify" /\ stack' = Below \o <<f, g>>
      /\ Fewer /\ initialized' = initialized /\ stage' = stage /\ heard' = heard
      /\ mailboxes' = mailboxes /\ map' = map /\ handles' = handles /\ failed' = failed
      /\ modules' = modules /\ name' = name /\ commands' = commands
      /\ last' = last /\ retried' = retried
  BY <1>0 DEF UnloadNotified, Step, tables, registry, freeing, Fewer
<1>2. /\ k \in Nat \ {0} /\ DOMAIN stack = 1..k /\ Top = stack[k]
      /\ Top \in Frame /\ RightPlace(Top)
      /\ p \in Owned /\ p \in 1..last /\ p \in Plugin /\ p \in 0..last /\ p # Main
      /\ AboveWas(k, p)
      /\ k - 1 <= Len(stack') /\ Kept(k - 1) => BelowIs(k, p)
  <2>1. Top.step \in Operations
    BY <1>1 DEF Operations
  <2> QED  BY <1>0, <1>1, <2>1, TopOperation
<1>3. f \in Frame /\ f.step = "free" /\ f.plugin = p
  BY <1>0, <1>1, <1>2 DEF Frame
<1>4. /\ g \in Frame /\ g.step = "round" /\ g.plugin = p
      /\ g.at \in map \cup {Main}
  BY <1>2, RoundFrame DEF Tells, HandlerInv, ShapeInv, TypeOK
<1> HIDE DEF f, g
<1>5. /\ stack' \in Seq(Frame) /\ Len(stack') = k + 1
      /\ DOMAIN stack' = 1..(k + 1) /\ Kept(k - 1)
      /\ stack'[k] = f /\ stack'[k + 1] = g
  BY <1>0, <1>1, <1>3, <1>4, Replaced2 DEF HandlerInv
<1>6. p \notin FailedPlugins /\ p \notin handles /\ NoMailbox(p)
  <2>1. k = Len(stack) /\ k \in DOMAIN stack /\ stack[k].step = "notify"
    BY <1>0, <1>1, <1>2
  <2>2. NoMailbox(p)
    BY <1>0, <1>2, <2>1 DEF HandlerInv, NestInv, OwnShutdown
  <2> QED  BY <1>0, <1>1, <1>2, <2>2 DEF RightPlace, Operations
<1>7. ShapeInv'
  <2>1. \A i \in DOMAIN stack' : stack'[i].plugin \in 0..last
    <3>1. \A i \in DOMAIN stack' : i \in 1..(k - 1) \/ i = k \/ i = k + 1
      BY <1>2, <1>5
    <3>2. \A i \in 1..(k - 1) : i \in DOMAIN stack
      BY <1>2
    <3> QED  BY <1>2, <1>3, <1>4, <1>5, <3>1, <3>2 DEF HandlerInv, ShapeInv, Kept
  <2> QED  BY <1>1, <1>5, <2>1, ShapeKept DEF HandlerInv, ShapeInv, TypeOK
<1>8. FailedPlugins' = FailedPlugins
  BY <1>1 DEF FailedPlugins
<1>9. OthersKept(p)
  BY <1>1, <1>8 DEF OthersKept
<1>10. AboveIs(k, p)
  <2>1. \A i \in DOMAIN stack' : i >= k => i = k \/ i = k + 1
    BY <1>2, <1>5
  <2>2. RightPlace(stack[k])'
    BY <1>1, <1>2, <1>3, <1>5, <1>6, <1>8 DEF RightPlace, NoMailbox
  <2>3. k + 1 = Len(stack')
    BY <1>5
  <2> QED  BY <1>1, <1>2, <1>3, <1>4, <1>5, <2>1, <2>2, <2>3 DEF AboveIs, Operations
<1>11. BelowIs(k, p)
  BY <1>2, <1>5
<1>12. k \in DOMAIN stack' /\ stack'[k].step \in Operations /\ stack'[k].plugin = p
  BY <1>2, <1>3, <1>5 DEF Operations
<1>13. p \in Owned'
  BY <1>12 DEF Owned, Operations
<1>14. TablesIn' /\ OwnedIn' /\ OwnedApart' /\ HandlesApart'
  <2>1. handles' \subseteq handles
    BY <1>1
  <2> QED  BY <1>1, <1>2, <1>7, <1>9, <1>10, <1>11, <1>13, <2>1, OwnedSame
<1>15. OneRecord'
  BY <1>1, <1>8 DEF HandlerInv, StepInv, OneRecord
<1> QED  BY <1>1, <1>2, <1>6, <1>7, <1>9, <1>10, <1>11, <1>14, <1>15, OperationInv

LEMMA UnloadFreedInv == HandlerInv /\ UnloadFreed => HandlerInv'
<1> SUFFICES ASSUME HandlerInv, UnloadFreed PROVE HandlerInv'
  OBVIOUS
<1>0. PICK k, p : k = Len(stack) /\ p = Top.plugin
  OBVIOUS
<1>1. /\ stack # <<>> /\ Top.step = "free" /\ stack' = Below
      /\ initialized' = initialized /\ stage' = stage /\ heard' = heard
      /\ last' = last /\ name' = name /\ list' = list /\ map' = map
      /\ handles' = handles /\ mailboxes' = mailboxes /\ dropboxes' = dropboxes
      /\ retried' = retried
      /\ DOMAIN commands' \subseteq DOMAIN commands
      /\ \A c \in DOMAIN commands' : commands'[c] = commands[c] /\ commands[c] # p
  BY <1>0 DEF UnloadFreed, Step, OnPluginUnloaded
<1>2. /\ k \in Nat \ {0} /\ DOMAIN stack = 1..k /\ Top = stack[k]
      /\ Top \in Frame /\ RightPlace(Top)
      /\ p \in Owned /\ p \in 1..last /\ p \in Plugin /\ p \in 0..last /\ p # Main
      /\ AboveWas(k, p)
      /\ k - 1 <= Len(stack') /\ Kept(k - 1) => BelowIs(k, p)
  <2>1. Top.step \in Operations
    BY <1>1 DEF Operations
  <2> QED  BY <1>0, <1>1, <2>1, TopOperation
<1>3. /\ stack' \in Seq(Frame) /\ Len(stack') = k - 1 /\ DOMAIN stack' = 1..(k - 1)
      /\ Kept(k - 1)
  BY <1>0, <1>1, Popped DEF HandlerInv
<1>4. /\ p \notin FailedPlugins /\ p \notin handles /\ NoMailbox(p)
      /\ p \notin map
  BY <1>0, <1>1, <1>2 DEF RightPlace, Operations, HandlerInv, ShapeInv
<1>5. /\ modules' = modules \/ modules' = {q \in modules : name[q] # name[p]}
      /\ deleted' \subseteq deleted \cup {p}
  BY <1>0 DEF UnloadFreed
<1>6. failed' = failed \/ failed' = failed \cup {[plugin |-> p, key |-> Top.key]}
  <2>1. ASSUME NEW found \in FailedFinds(name[p]),
               failed' = IF found # {} THEN failed
                         ELSE failed \cup {[plugin |-> p, key |-> Top.key]}
        PROVE  failed' = failed \/ failed' = failed \cup {[plugin |-> p, key |-> Top.key]}
    BY <2>1
  <2> QED  BY <1>0, <2>1 DEF UnloadFreed
<1>7. FailedPlugins' \subseteq FailedPlugins \cup {p} /\ FailedPlugins \subseteq FailedPlugins'
  BY <1>6 DEF FailedPlugins
<1>9. ShapeInv'
  <2>1. \A i \in DOMAIN stack' : stack'[i].plugin \in 0..last
    <3>1. \A i \in 1..(k - 1) : i \in DOMAIN stack
      BY <1>2
    <3> QED  BY <1>3, <3>1 DEF HandlerInv, ShapeInv, Kept
  <2>2. \A i \in DOMAIN stack' : stack'[i] \in Frame
    BY <1>3
  <2>3. modules' \subseteq 1..last /\ deleted' \subseteq 1..last
    BY <1>2, <1>5 DEF HandlerInv, ShapeInv, TypeOK
  <2>4. failed' \subseteq [plugin : 1..last, key : Plugin \cup {Main}]
    <3>1. [plugin |-> p, key |-> Top.key] \in [plugin : 1..last, key : Plugin \cup {Main}]
      BY <1>2 DEF Frame
    <3> QED  BY <1>6, <3>1 DEF HandlerInv, ShapeInv, TypeOK
  <2>5. TypeOK'
    BY <1>1, <2>2, <2>3, <2>4 DEF HandlerInv, ShapeInv, TypeOK
  <2> QED  BY <1>1, <1>3, <2>1, <2>5 DEF HandlerInv, ShapeInv
<1>10. OthersKept(p)
  BY <1>1, <1>6, <1>7 DEF OthersKept
<1>11. AboveIs(k, p)
  <2>1. \A i \in DOMAIN stack' : ~(i >= k)
    BY <1>2, <1>3
  <2> QED  BY <2>1 DEF AboveIs
<1>12. BelowIs(k, p)
  <2>1. k - 1 <= Len(stack')
    BY <1>2, <1>3
  <2> QED  BY <1>2, <1>3, <2>1
<1>13. OneRecord'
  <2>1. FailedPlugins' \cap handles' = {}
    BY <1>1, <1>4, <1>7 DEF HandlerInv, StepInv, OneRecord
  <2>2. \A r \in failed : r.plugin # p
    BY <1>4 DEF FailedPlugins
  <2>3. \A r, s \in failed' : r.plugin = s.plugin => r = s
    BY <1>6, <2>2 DEF HandlerInv, StepInv, OneRecord
  <2> QED  BY <2>1, <2>3 DEF OneRecord
<1>14. Owned' = Owned \ {p}
  <2>1. \A q : q # p => (q \in Owned' <=> q \in Owned)
    BY <1>9, <1>10, <1>2, <1>11, <1>12, OwnedOthers
  <2>2. p \notin OpPlugins'
    <3> SUFFICES ASSUME NEW i \in DOMAIN stack' PROVE stack'[i].plugin # p
      BY DEF OpPlugins
    <3> QED  BY <1>3, <1>12 DEF BelowIs, Kept
  <2>3. Owned' = handles' \cup OpPlugins'
    BY DEF Owned, OpPlugins, Operations
  <2> QED  BY <1>1, <1>4, <2>1, <2>2, <2>3
<1>15. TablesIn'
  <2>1. Reach \ {p} \subseteq Reach'
    BY <1>1, <1>14 DEF Reach
  <2>2. p \in mailboxes => p \in Reach'
    BY <1>1, <1>2, <1>4 DEF NoMailbox, Reach
  <2> QED  BY <1>1, <2>1, <2>2 DEF HandlerInv, MappedInv, TablesIn
<1>16. OwnedIn'
  <2> SUFFICES ASSUME NEW q \in Owned, q # p PROVE q \in modules' \/ Exempt(q)
    BY <1>1, <1>14 DEF OwnedIn, Exempt
  <2>1. q \in modules \/ Exempt(q)
    BY DEF HandlerInv, MappedInv, OwnedIn
  <2>2. name[q] = name[p] => Exempt(q)
    BY <1>2 DEF HandlerInv, MappedInv, OwnedApart
  <2> QED  BY <1>5, <2>1, <2>2
<1>17. OwnedApart' /\ HandlesApart'
  BY <1>1, <1>14 DEF HandlerInv, MappedInv, OwnedApart, HandlesApart, Exempt
<1>18. p \notin handles'
  BY <1>1, <1>4
<1> QED  BY <1>9, <1>10, <1>11, <1>2, <1>12, <1>13, <1>15, <1>16, <1>17, <1>18, OperationInv

\* The calls below when p has left the list: no round still has to call it.
Without(p) == [i \in DOMAIN Below |-> [stack[i] EXCEPT !.due = @ \ {p}]]

Forgot(n, p) == \A i \in 1..n : /\ stack'[i].seen = stack[i].seen
                                /\ stack'[i].due = stack[i].due \ {p}

LEMMA Unlisted ==
    ASSUME HandlerInv, stack # <<>>, NEW k, k = Len(stack), NEW p,
           NEW f \in Frame, NEW g \in Frame,
           stack' = Without(p) \o <<f, g>>
    PROVE  /\ stack' \in Seq(Frame) /\ Len(stack') = k + 1
           /\ DOMAIN stack' = 1..(k + 1) /\ Kept(k - 1)
           /\ stack'[k] = f /\ stack'[k + 1] = g
           /\ Forgot(k - 1, p)
<1> DEFINE b == Without(p)
           t == <<f, g>>
<1>1. k \in Nat \ {0} /\ k - 1 \in Nat /\ DOMAIN stack = 1..k
  BY TopFacts DEF HandlerInv
<1>2. DOMAIN Below = 1..(k - 1)
  <2>1. stack \in Seq(Frame)
    BY DEF HandlerInv, ShapeInv
  <2>2. Front(stack) \in Seq(Frame) /\ Len(Front(stack)) = Len(stack) - 1
    BY <2>1, FrontFacts
  <2> QED  BY <2>2 DEF Below
<1>3. ASSUME NEW i \in 1..(k - 1)
      PROVE  /\ b[i] \in Frame /\ b[i].step = stack[i].step
             /\ b[i].plugin = stack[i].plugin /\ b[i].called = stack[i].called
             /\ b[i].at = stack[i].at /\ b[i].tell = stack[i].tell
             /\ b[i].seen = stack[i].seen /\ b[i].due = stack[i].due \ {p}
  <2>1. stack[i] \in Frame
    BY <1>1, <1>3 DEF HandlerInv, ShapeInv, TypeOK
  <2>2. b[i] = [stack[i] EXCEPT !.due = @ \ {p}]
    BY <1>2, <1>3 DEF Without
  <2>3. /\ [stack[i] EXCEPT !.due = @ \ {p}] \in Frame
        /\ [stack[i] EXCEPT !.due = @ \ {p}].step = stack[i].step
        /\ [stack[i] EXCEPT !.due = @ \ {p}].plugin = stack[i].plugin
        /\ [stack[i] EXCEPT !.due = @ \ {p}].called = stack[i].called
        /\ [stack[i] EXCEPT !.due = @ \ {p}].at = stack[i].at
        /\ [stack[i] EXCEPT !.due = @ \ {p}].tell = stack[i].tell
        /\ [stack[i] EXCEPT !.due = @ \ {p}].seen = stack[i].seen
        /\ [stack[i] EXCEPT !.due = @ \ {p}].due = stack[i].due \ {p}
    BY <2>1 DEF Frame
  <2> HIDE DEF b
  <2> QED  BY <2>2, <2>3
<1>4. b \in Seq(Frame) /\ Len(b) = k - 1
  <2>1. DOMAIN b = 1..(k - 1) /\ b = [i \in 1..(k - 1) |-> b[i]]
    BY <1>2 DEF Without
  <2> HIDE DEF b
  <2>2. b \in [1..(k - 1) -> Frame]
    BY <1>3, <2>1
  <2>3. b \in Seq(Frame)
    BY <1>1, <2>2, SeqDef
  <2> QED  BY <1>1, <2>1, <2>3
<1>5. t \in Seq(Frame) /\ Len(t) = 2 /\ t[1] = f /\ t[2] = g /\ stack' = b \o t
  OBVIOUS
<1> HIDE DEF b, t
<1>6. /\ b \o t \in Seq(Frame) /\ Len(b \o t) = Len(b) + Len(t)
      /\ \A i \in 1..Len(b) : (b \o t)[i] = b[i]
      /\ \A i \in 1..Len(t) : (b \o t)[Len(b) + i] = t[i]
  <2>1. b \in Seq(Frame)
    BY <1>4
  <2>2. t \in Seq(Frame)
    BY <1>5
  <2> QED  BY <2>1, <2>2, PushOn
<1>7. stack' \in Seq(Frame) /\ Len(stack') = k - 1 + 2
  BY <1>4, <1>5, <1>6
<1>8. \A i \in 1..(k - 1) : stack'[i] = b[i]
  BY <1>4, <1>5, <1>6
<1>9. stack'[k - 1 + 1] = f /\ stack'[k - 1 + 2] = g
  <2>1. 1 \in 1..Len(t) /\ 2 \in 1..Len(t)
    BY <1>5
  <2> QED  BY <1>4, <1>5, <1>6, <2>1
<1>10. k - 1 + 1 = k /\ k - 1 + 2 = k + 1
  BY <1>1
<1>11. Kept(k - 1)
  <2>1. ASSUME NEW i \in 1..(k - 1)
        PROVE  /\ stack'[i].step = stack[i].step
               /\ stack'[i].plugin = stack[i].plugin
               /\ stack'[i].called = stack[i].called
               /\ stack'[i].at = stack[i].at
               /\ stack'[i].tell = stack[i].tell
    <3>1. stack'[i] = b[i]
      BY <1>8, <2>1
    <3> QED  BY <1>3, <2>1, <3>1, Zenon
  <2> QED  BY <2>1 DEF Kept
<1>12. Forgot(k - 1, p)
  <2>1. ASSUME NEW i \in 1..(k - 1)
        PROVE  stack'[i].seen = stack[i].seen /\ stack'[i].due = stack[i].due \ {p}
    <3>1. stack'[i] = b[i]
      BY <1>8, <2>1
    <3> QED  BY <1>3, <2>1, <3>1, Zenon
  <2> QED  BY <2>1 DEF Forgot
<1> QED  BY <1>7, <1>9, <1>10, <1>11, <1>12

LEMMA UnloadUnlistedInv == HandlerInv /\ UnloadUnlisted => HandlerInv'
<1> SUFFICES ASSUME HandlerInv, UnloadUnlisted PROVE HandlerInv'
  OBVIOUS
<1>0. PICK k, p : k = Len(stack) /\ p = Top.plugin
  OBVIOUS
<1> DEFINE f == [Top EXCEPT !.step = "notify"]
           g == Code(p)
<1>1. /\ stack # <<>> /\ Top.step = "shutdown"
      /\ stack' = Without(p) \o <<f, g>>
      /\ list' = RemovePluginFromList(p) /\ map' = map \ {p}
      /\ handles' = handles \ {p}
      /\ initialized' = initialized /\ stage' = stage /\ heard' = heard
      /\ last' = last /\ name' = name /\ modules' = modules /\ failed' = failed
      /\ commands' = commands /\ mailboxes' = mailboxes /\ dropboxes' = dropboxes
      /\ deleted' = deleted /\ retried' = retried
  BY <1>0 DEF UnloadUnlisted, Step, tables, freeing, Without
<1>2. /\ k \in Nat \ {0} /\ DOMAIN stack = 1..k /\ Top = stack[k]
      /\ Top \in Frame /\ RightPlace(Top)
      /\ p \in Owned /\ p \in 1..last /\ p \in Plugin /\ p \in 0..last /\ p # Main
      /\ AboveWas(k, p)
      /\ k - 1 <= Len(stack') /\ Kept(k - 1) => BelowIs(k, p)
  <2>1. Top.step \in Operations
    BY <1>1 DEF Operations
  <2> QED  BY <1>0, <1>1, <2>1, TopOperation
<1>3. f \in Frame /\ f.step = "notify" /\ f.plugin = p
  BY <1>0, <1>1, <1>2 DEF Frame
<1>4. g \in Frame /\ g.step = "code" /\ g.plugin = p
  BY <1>2, CodeFrame
<1> HIDE DEF f, g
<1>5. /\ stack' \in Seq(Frame) /\ Len(stack') = k + 1
      /\ DOMAIN stack' = 1..(k + 1) /\ Kept(k - 1)
      /\ stack'[k] = f /\ stack'[k + 1] = g
  <2>1. stack # <<>> /\ k = Len(stack)
    BY <1>0, <1>1
  <2>2. stack' = Without(p) \o <<f, g>>
    BY <1>1
  <2>3. f \in Frame /\ g \in Frame
    BY <1>3, <1>4
  <2> QED  BY <2>1, <2>2, <2>3, Unlisted
<1>6. p \notin FailedPlugins /\ p \in map
  BY <1>0, <1>1, <1>2 DEF RightPlace, Operations
<1>7. /\ list' \in Seq(1..last) /\ ToSet(list') = map'
      /\ \A i, j \in DOMAIN list' : list'[i] = list'[j] => i = j
  <2>1. list \in Seq(1..last)
    BY DEF HandlerInv, ShapeInv
  <2>2. Distinct(list) /\ ToSet(list) = map
    BY DEF HandlerInv, ShapeInv, Distinct
  <2>3. Place(p) \in DOMAIN list /\ list[Place(p)] = p
    <3>1. \E i \in DOMAIN list : list[i] = p
      BY <1>6, <2>2 DEF ToSet
    <3> QED  BY <3>1 DEF Place
  <2> DEFINE r == RemoveAt(list, Place(p))
  <2>4. r \in Seq(1..last) /\ ToSet(r) = ToSet(list) \ {list[Place(p)]} /\ Distinct(r)
    <3>1. Place(p) \in DOMAIN list
      BY <2>3
    <3> QED  BY <2>1, <2>2, <3>1, RemoveElement
  <2>5. list' = r
    BY <1>1 DEF RemovePluginFromList
  <2> HIDE DEF r
  <2> QED  BY <1>1, <2>2, <2>3, <2>4, <2>5 DEF Distinct
<1>8. ShapeInv'
  <2>1. \A i \in DOMAIN stack' : stack'[i].plugin \in 0..last
    <3>1. \A i \in DOMAIN stack' : i \in 1..(k - 1) \/ i = k \/ i = k + 1
      BY <1>2, <1>5
    <3>2. \A i \in 1..(k - 1) : i \in DOMAIN stack
      BY <1>2
    <3> QED  BY <1>2, <1>3, <1>4, <1>5, <3>1, <3>2 DEF HandlerInv, ShapeInv, Kept
  <2>2. \A i \in DOMAIN stack' : stack'[i] \in Frame
    BY <1>5
  <2>3. ToSet(list') \subseteq 1..last /\ map' \subseteq 1..last
    BY <1>1, <1>7 DEF HandlerInv, ShapeInv, TypeOK
  <2>4. handles' \subseteq 1..last /\ map' \subseteq handles'
    BY <1>1 DEF HandlerInv, ShapeInv, TypeOK
  <2>5. TypeOK'
    BY <1>1, <2>2, <2>3, <2>4 DEF HandlerInv, ShapeInv, TypeOK
  <2> QED  BY <1>1, <1>5, <1>7, <2>1, <2>4, <2>5 DEF HandlerInv, ShapeInv
<1>9. FailedPlugins' = FailedPlugins
  BY <1>1 DEF FailedPlugins
<1>10. OthersKept(p)
  BY <1>1, <1>9 DEF OthersKept
<1>14. k \in DOMAIN stack' /\ stack'[k].step \in Operations /\ stack'[k].plugin = p
  BY <1>2, <1>3, <1>5 DEF Operations
<1>16. p \in Owned'
  BY <1>14 DEF Owned, Operations
<1>11. AboveIs(k, p)
  <2>1. \A i \in DOMAIN stack' : i >= k => i = k \/ i = k + 1
    BY <1>2, <1>5
  <2>2. RightPlace(stack[k])'
    BY <1>1, <1>2, <1>3, <1>5, <1>6, <1>9 DEF RightPlace
  <2>3. k # Len(stack')
    BY <1>2, <1>5
  <2> QED  BY <1>1, <1>2, <1>3, <1>4, <1>5, <1>16, <2>1, <2>2, <2>3 DEF AboveIs, Operations
<1>13. BelowIs(k, p)
  <2>1. k - 1 <= Len(stack')
    BY <1>2, <1>5
  <2> QED  BY <1>2, <1>5, <2>1
<1>12. OneRecord'
  BY <1>1, <1>9 DEF HandlerInv, StepInv, OneRecord
<1>15. p \notin handles'
  BY <1>1
<1>17. TablesIn' /\ OwnedIn' /\ OwnedApart' /\ HandlesApart'
  <2>1. handles' \subseteq handles
    BY <1>1
  <2> QED  BY <1>1, <1>2, <1>8, <1>10, <1>11, <1>13, <1>16, <2>1, OwnedSame
<1> QED  BY <1>2, <1>8, <1>10, <1>11, <1>12, <1>13, <1>15, <1>17, OperationInv

\* The calls an operation starts from: those in progress, but for what the
\* rounds and the client's shutdown still have to do.
Like(b) ==
    /\ b \in Seq(Frame) /\ Len(b) = Len(stack)
    /\ \A i \in 1..Len(stack) : /\ b[i].step = stack[i].step
                                 /\ b[i].plugin = stack[i].plugin
                                 /\ b[i].called = stack[i].called
                                 /\ b[i].at = stack[i].at
                                 /\ b[i].tell = stack[i].tell

LEMMA PushedOn ==
    ASSUME ShapeInv, NEW b, Like(b), NEW f \in Frame, NEW g \in Frame,
           stack' = b \o <<f, g>>
    PROVE  /\ stack' \in Seq(Frame) /\ Len(stack') = Len(stack) + 2
           /\ DOMAIN stack' = 1..(Len(stack) + 2)
           /\ stack'[Len(stack) + 1] = f /\ stack'[Len(stack) + 2] = g
           /\ Kept(Len(stack)) /\ \A i \in 1..Len(stack) : stack'[i] = b[i]
<1> DEFINE t == <<f, g>>
<1>1. b \in Seq(Frame) /\ Len(b) = Len(stack) /\ Len(stack) \in Nat
  BY DEF ShapeInv, Like
<1>2. t \in Seq(Frame) /\ Len(t) = 2 /\ t[1] = f /\ t[2] = g /\ stack' = b \o t
  OBVIOUS
<1> HIDE DEF t
<1>3. /\ stack' \in Seq(Frame) /\ Len(stack') = Len(b) + Len(t)
      /\ \A i \in 1..Len(b) : stack'[i] = b[i]
      /\ \A i \in 1..Len(t) : stack'[Len(b) + i] = t[i]
  BY <1>1, <1>2, PushOn
<1>4. 1 \in 1..Len(t) /\ 2 \in 1..Len(t)
  BY <1>2
<1>5. stack'[Len(stack) + 1] = f /\ stack'[Len(stack) + 2] = g
  BY <1>1, <1>2, <1>3, <1>4, Zenon
<1>6. \A i \in 1..Len(stack) : stack'[i] = b[i]
  BY <1>1, <1>3, Zenon
<1>7. Kept(Len(stack))
  <2>1. ASSUME NEW i \in 1..Len(stack)
        PROVE  /\ stack'[i].step = stack[i].step
               /\ stack'[i].plugin = stack[i].plugin
               /\ stack'[i].called = stack[i].called
               /\ stack'[i].at = stack[i].at
               /\ stack'[i].tell = stack[i].tell
    <3>1. stack'[i] = b[i]
      BY <1>6, <2>1
    <3>2. /\ b[i].step = stack[i].step /\ b[i].plugin = stack[i].plugin
          /\ b[i].called = stack[i].called /\ b[i].at = stack[i].at
          /\ b[i].tell = stack[i].tell
      BY <2>1 DEF Like
    <3> QED  BY <3>1, <3>2, Zenon
  <2> QED  BY <2>1 DEF Kept
<1>8. Len(stack') = Len(stack) + 2 /\ DOMAIN stack' = 1..(Len(stack) + 2)
  <2>1. stack' \in Seq(Frame) /\ Len(stack') = Len(stack) + 2
    BY <1>1, <1>2, <1>3, Zenon
  <2>2. DOMAIN stack' = 1..Len(stack')
    BY <2>1
  <2> QED  BY <2>1, <2>2
<1> QED  BY <1>3, <1>5, <1>6, <1>7, <1>8

\* The calls that are left when UnloadPlugin finds nothing of the name.
LEMMA LikeInv ==
    ASSUME HandlerInv, Like(stack'), Fewer, heard' = heard,
           stack = <<>> \/ Top.step \notin {"round", "notify"},
           initialized' \in BOOLEAN, stage' \in {"running", "stopping", "stopped"}
    PROVE  HandlerInv'
<1> DEFINE n == Len(stack)
<1>1. n \in Nat /\ DOMAIN stack = 1..n /\ Len(stack') = n /\ DOMAIN stack' = 1..n
      /\ stack' \in Seq(Frame)
  BY DEF HandlerInv, ShapeInv, Like
<1>2. Kept(n)
  BY DEF Kept, Like
<1>3. ShapeInv'
  <2>1. \A i \in DOMAIN stack' : stack'[i].plugin \in 0..last
    BY <1>1, <1>2 DEF HandlerInv, ShapeInv, Kept
  <2> QED  BY <1>1, <2>1, ShapeKept DEF HandlerInv, ShapeInv, TypeOK
<1>4. ShutdownRuns(n)
  BY Settled DEF ShutdownRuns
<1>5. CallsAre(n)
  <2>1. \A i \in 1..n : ~(i > n)
    BY <1>1
  <2>2. n \in 0..n /\ n <= Len(stack')
    BY <1>1
  <2>3. \A i \in 1..n : stack[i].step = "round" => stack[i].called
    BY Settled
  <2> QED  BY <1>1, <1>2, <2>1, <2>2, <2>3 DEF CallsAre
<1> QED  BY <1>3, <1>4, <1>5, CallsInv DEF CallsOnly

\* UnloadPlugin starts on a name that no call in progress holds.
LEMMA UnloadNamedInv ==
    ASSUME HandlerInv, NEW n, NEW base, NEW key \in Plugin \cup {Main},
           UnloadNamed(base, n, key), Like(base),
           stack = <<>> \/ Top.step \notin {"round", "notify"},
           \A i \in DOMAIN stack :
                stack[i].plugin # Main => name[stack[i].plugin] # n,
           UNCHANGED <<initialized, last, name, list, map, handles, deleted, modules,
                       tables, stage, heard>>
    PROVE  HandlerInv'
<1>1. /\ initialized' = initialized /\ stage' = stage /\ heard' = heard
      /\ last' = last /\ name' = name /\ list' = list /\ map' = map
      /\ handles' = handles /\ modules' = modules /\ deleted' = deleted
      /\ commands' = commands /\ mailboxes' = mailboxes /\ dropboxes' = dropboxes
  BY DEF tables
<1> DEFINE Starts(p, f, g) ==
        /\ name[p] = n
        /\ stack' = base \o <<f, g>> /\ f \in Frame /\ g \in Frame
        /\ f.plugin = p /\ g.plugin = p
        /\ \/ /\ f.step = "notify" /\ g.step = "code"
              /\ p \in FailedPlugins /\ p \notin handles /\ retried' = retried \cup {n}
              /\ failed' \subseteq failed /\ FailedPlugins' = FailedPlugins \ {p}
           \/ /\ f.step = "shutdown" /\ g.step = "round" /\ g.at \in map \cup {Main}
              /\ g.tell # "Pulse"
              /\ p \in map /\ p \notin FailedPlugins /\ failed' = failed
              /\ retried' = retried
<1>2. \/ stack' = base /\ failed' = failed /\ retried' = retried
      \/ \E p, f, g : Starts(p, f, g)
  <2>1. PICK found \in FailedFinds(n) :
            \/ \E r \in found :
                /\ failed' = failed \ {r}
                /\ retried' = retried \cup {n}
                /\ stack' = base \o
                    <<[Call("notify", r.plugin) EXCEPT !.key = key], Code(r.plugin)>>
            \/ /\ found = {}
               /\ stack' = base \o
                    IF GetPlugin(n) = Main THEN <<>> ELSE UnloadListed(GetPlugin(n), key)
               /\ UNCHANGED <<failed, retried>>
    BY DEF UnloadNamed
  <2>2. ASSUME NEW r \in found,
               /\ failed' = failed \ {r}
               /\ retried' = retried \cup {n}
               /\ stack' = base \o
                    <<[Call("notify", r.plugin) EXCEPT !.key = key], Code(r.plugin)>>
        PROVE  \E p, f, g : Starts(p, f, g)
    <3>1. r \in failed /\ name[r.plugin] = n
      BY <2>2 DEF FailedFinds
    <3>2. r.plugin \in FailedPlugins
      BY <3>1 DEF FailedPlugins
    <3>3. r.plugin \notin handles
      BY <3>2 DEF HandlerInv, StepInv, OneRecord
    <3>4. r.plugin \in Plugin
      BY <3>1, ReachPlugins DEF HandlerInv, ShapeInv, TypeOK
    <3>5. FailedPlugins' = FailedPlugins \ {r.plugin}
      BY <2>2, <3>1 DEF FailedPlugins, HandlerInv, StepInv, OneRecord
    <3>6. /\ Call("notify", r.plugin) \in Frame
          /\ Call("notify", r.plugin).step = "notify"
          /\ Call("notify", r.plugin).plugin = r.plugin
      BY <3>4, CallFrame DEF Steps
    <3> DEFINE f == [Call("notify", r.plugin) EXCEPT !.key = key]
               g == Code(r.plugin)
    <3>7. f \in Frame /\ f.step = "notify" /\ f.plugin = r.plugin
      BY <3>6 DEF Frame
    <3>8. g \in Frame /\ g.step = "code" /\ g.plugin = r.plugin
      BY <3>4, CodeFrame
    <3>9. stack' = base \o <<f, g>>
      BY <2>2
    <3>10. failed' \subseteq failed /\ retried' = retried \cup {n}
      BY <2>2
    <3> HIDE DEF f, g
    <3>11. Starts(r.plugin, f, g)
      BY <3>1, <3>2, <3>3, <3>5, <3>7, <3>8, <3>9, <3>10
    <3> HIDE DEF Starts
    <3> QED  BY <3>11
  <2>3. ASSUME stack' = base \o
                    IF GetPlugin(n) = Main THEN <<>> ELSE UnloadListed(GetPlugin(n), key),
               failed' = failed, retried' = retried, GetPlugin(n) # Main
        PROVE  \E p, f, g : Starts(p, f, g)
    <3> DEFINE p == GetPlugin(n)
               f == [Call("shutdown", p) EXCEPT !.key = key]
               g == Round("UnloadPlugin", p)
    <3>1. p # Main /\ stack' = base \o (<<f>> \o <<g>>)
      <4>1. stack' = base \o UnloadListed(p, key)
        BY <2>3
      <4>2. UnloadListed(p, key) = <<f>> \o <<g>>
        BY DEF UnloadListed, UnloadTold
      <4> HIDE DEF f, g
      <4> QED  BY <2>3, <4>1, <4>2
    <3>2. p \in map /\ name[p] = n
      BY <3>1 DEF GetPlugin
    <3>3. p \in handles /\ p \in Plugin /\ p \notin FailedPlugins
      BY <3>2, ReachPlugins DEF HandlerInv, StepInv, OneRecord
    <3> HIDE DEF p
    <3>5. /\ Call("shutdown", p) \in Frame
          /\ Call("shutdown", p).step = "shutdown"
          /\ Call("shutdown", p).plugin = p
      BY <3>3, CallFrame DEF Steps
    <3>6. f \in Frame /\ f.step = "shutdown" /\ f.plugin = p
      BY <3>5 DEF Frame
    <3>7. g \in Frame /\ g.step = "round" /\ g.plugin = p /\ g.at \in map \cup {Main}
          /\ g.tell = "UnloadPlugin"
      BY <3>3, RoundFrame DEF Tells, HandlerInv, ShapeInv, TypeOK
    <3> HIDE DEF f, g
    <3>8. <<f>> \o <<g>> = <<f, g>>
      BY <3>6, <3>7, TwoElements
    <3>9. stack' = base \o <<f, g>>
      BY <3>1, <3>8
    <3>10. Starts(p, f, g)
      BY <2>3, <3>2, <3>3, <3>6, <3>7, <3>9
    <3> HIDE DEF Starts
    <3> QED  BY <3>10
  <2>4. ASSUME stack' = base \o
                    IF GetPlugin(n) = Main THEN <<>> ELSE UnloadListed(GetPlugin(n), key),
               GetPlugin(n) = Main
        PROVE  stack' = base
    <3>1. base \in Seq(Frame)
      BY DEF Like
    <3>2. stack' = base \o <<>>
      BY <2>4
    <3> QED  BY <3>1, <3>2
  <2> HIDE DEF Starts
  <2> QED  BY <2>1, <2>2, <2>3, <2>4
<1>3. CASE stack' = base /\ failed' = failed /\ retried' = retried
  <2>1. Fewer
    BY <1>1, <1>3 DEF Fewer, registry, freeing
  <2>2. Like(stack')
    BY <1>3 DEF Like
  <2>3. initialized' \in BOOLEAN /\ stage' \in {"running", "stopping", "stopped"}
    BY <1>1 DEF HandlerInv, ShapeInv, TypeOK
  <2> QED  BY <1>1, <2>1, <2>2, <2>3, LikeInv
<1>4. ASSUME NEW p, NEW f, NEW g, Starts(p, f, g)
      PROVE  HandlerInv'
  <2>1. PICK k : k = Len(stack) + 1
    OBVIOUS
  <2>3. retried \subseteq retried' /\ retried' \subseteq retried \cup {n}
        /\ failed' \subseteq failed
    BY <1>4
  <2>4. p \in 1..last /\ p # Main /\ name[p] = n /\ n \in Names
    <3>1. p \in FailedPlugins \/ p \in map
      BY <1>4
    <3>2. p \in 1..last
      BY <3>1, ReachPlugins DEF FailedPlugins, HandlerInv, ShapeInv, TypeOK
    <3> QED  BY <1>4, <3>2, HandlerAssumption DEF HandlerInv, ShapeInv, TypeOK, Main
  <2>5. p \in Owned \/ retried' = retried \cup {n}
    BY <1>4, ReachPlugins
  <2>6. /\ stack' \in Seq(Frame) /\ Len(stack') = Len(stack) + 2
        /\ DOMAIN stack' = 1..(Len(stack) + 2) /\ Kept(Len(stack))
        /\ stack'[Len(stack) + 1] = f /\ stack'[Len(stack) + 2] = g
    <3>1. f \in Frame /\ g \in Frame /\ stack' = base \o <<f, g>>
      BY <1>4
    <3> QED  BY <3>1, PushedOn DEF HandlerInv
  <2>7. Len(stack) \in Nat /\ DOMAIN stack = 1..Len(stack)
    BY DEF HandlerInv, ShapeInv
  <2>8. \A i \in DOMAIN stack : stack[i].plugin # p
    BY <2>4
  <2>9. AboveWas(k, p) /\ BelowIs(k, p)
    <3>1. Len(stack) <= Len(stack') /\ Kept(Len(stack))
      BY <2>6, <2>7
    <3> QED  BY <2>1, <2>8, <3>1, OnTop
  <2>10. \A q : q # p => (q \in FailedPlugins' <=> q \in FailedPlugins)
    BY <1>4 DEF FailedPlugins
  <2>11. OthersKept(p)
    BY <1>1, <2>10 DEF OthersKept
  <2>12. p \notin FailedPlugins'
    BY <1>4 DEF FailedPlugins
  <2>13. ShapeInv'
    <3>1. \A i \in DOMAIN stack' : stack'[i].plugin \in 0..last
      <4>1. \A i \in DOMAIN stack' : i \in 1..Len(stack) \/ i = Len(stack) + 1 \/ i = Len(stack) + 2
        BY <2>6, <2>7
      <4>2. f.plugin \in 0..last /\ g.plugin \in 0..last
        BY <1>4, <2>4 DEF HandlerInv, ShapeInv, TypeOK
      <4> HIDE DEF Starts
      <4> QED  BY <2>6, <2>7, <4>1, <4>2 DEF HandlerInv, ShapeInv, Kept
    <3>2. \A i \in DOMAIN stack' : stack'[i] \in Frame
      BY <2>6
    <3>3. TypeOK'
      BY <1>1, <2>3, <2>4, <3>2 DEF HandlerInv, ShapeInv, TypeOK
    <3> QED  BY <1>1, <2>6, <3>1, <3>3 DEF HandlerInv, ShapeInv
  <2>14. stack'[k] = f /\ stack'[k + 1] = g /\ k + 1 = Len(stack') /\ k # Len(stack')
         /\ k \in DOMAIN stack'
    BY <2>1, <2>6, <2>7
  <2>15. k \in DOMAIN stack' /\ stack'[k].step \in Operations /\ stack'[k].plugin = p
    BY <1>4, <2>14 DEF Operations
  <2>16. p \in Owned'
    BY <2>15 DEF Owned, Operations
  <2>17. AboveIs(k, p)
    <3>1. \A i \in DOMAIN stack' : i >= k => i = k \/ i = k + 1
      BY <2>1, <2>6, <2>7
    <3>2. RightPlace(stack[k])'
      BY <1>1, <1>4, <2>4, <2>12, <2>14 DEF RightPlace
    <3> QED  BY <1>1, <1>4, <2>4, <2>14, <2>16, <3>1, <3>2 DEF AboveIs, Operations
  <2>18. \A q \in Owned' : q \in Owned \/ (q = p /\ Exempt(q)')
    <3>1. \A q : q # p => (q \in Owned' <=> q \in Owned)
      BY <2>9, <2>11, <2>13, <2>17, OwnedOthers
    <3> QED  BY <1>1, <2>4, <2>5, <3>1 DEF Exempt
  <2>19. \A q : Exempt(q) => Exempt(q)'
    BY <1>1, <2>3 DEF Exempt
  <2>20. TablesIn'
    <3>1. \A q : q # p => (q \in Owned' <=> q \in Owned)
      BY <2>9, <2>11, <2>13, <2>17, OwnedOthers
    <3>2. Reach \subseteq Reach'
      BY <1>1, <2>16, <3>1 DEF Reach
    <3> QED  BY <1>1, <3>2 DEF HandlerInv, MappedInv, TablesIn
  <2>21. OwnedIn'
    BY <1>1, <2>18, <2>19 DEF HandlerInv, MappedInv, OwnedIn
  <2>22. OwnedApart'
    <3> SUFFICES ASSUME NEW q \in Owned', NEW r \in Owned', name[q] = name[r], q # r
                 PROVE  Exempt(q)'
      BY <1>1 DEF OwnedApart
    <3>1. CASE q \in Owned /\ r \in Owned
      BY <2>19, <3>1 DEF HandlerInv, MappedInv, OwnedApart
    <3>2. CASE r = p /\ Exempt(r)'
      BY <1>1, <3>2 DEF Exempt
    <3> QED  BY <2>18, <3>1, <3>2
  <2>23. HandlesApart'
    BY <1>1 DEF HandlerInv, MappedInv, HandlesApart
  <2>24. OneRecord'
    <3>1. failed' \subseteq failed /\ FailedPlugins' \subseteq FailedPlugins
      BY <2>3 DEF FailedPlugins
    <3> QED  BY <1>1, <3>1 DEF HandlerInv, StepInv, OneRecord
  <2>25. p \in handles' => p \in map'
    BY <1>1, <1>4
  <2> HIDE DEF Starts
  <2> QED  BY <2>9, <2>11, <2>13, <2>15, <2>17, <2>20, <2>21, <2>22, <2>23, <2>24, <2>25,
              OperationInv
<1> HIDE DEF Starts
<1> QED  BY <1>2, <1>3, <1>4

LEMMA UnloadPluginInv ==
    ASSUME NEW n \in Names PROVE HandlerInv /\ UnloadPlugin(n) => HandlerInv'
<1> SUFFICES ASSUME HandlerInv, UnloadPlugin(n) PROVE HandlerInv'
  OBVIOUS
<1>1. stack = <<>> \/ Top.step \notin {"round", "notify"}
  BY DEF UnloadPlugin, Calling
<1>2. \A i \in DOMAIN stack : stack[i].plugin # Main => name[stack[i].plugin] # n
  BY DEF UnloadPlugin, HeldNames, Held
<1>3. UnloadNamed(stack, n, Main)
  BY DEF UnloadPlugin
<1>4. UNCHANGED <<initialized, last, name, list, map, handles, deleted, modules, tables,
                  stage, heard>>
  BY DEF UnloadPlugin
<1>5. Like(stack)
  BY DEF Like, HandlerInv, ShapeInv
<1> QED  BY <1>1, <1>2, <1>3, <1>4, <1>5, UnloadNamedInv

-----------------------------------------------------------------------------
(* Shutdown of the client.                                                  *)

LEMMA MainThere == ASSUME HandlerInv PROVE Main \in 0..last
<1>1. last \in 0..MaxPlugin
  BY DEF HandlerInv, ShapeInv, TypeOK
<1> QED  BY <1>1, HandlerAssumption DEF Main

\* Its call, when it is the only one in progress.
LEMMA OneFrame ==
    ASSUME HandlerInv, NEW f \in Frame, f.step \in {"unloadAll", "unloadFailed", "ask"},
           f.plugin = Main, stack' = <<f>>, Fewer,
           \A i \in DOMAIN stack : stack[i].step \notin Operations,
           initialized' \in BOOLEAN, stage' \in {"running", "stopping", "stopped"},
           heard' = heard
    PROVE  HandlerInv'
<1>1. stack' \in Seq(Frame) /\ DOMAIN stack' = 1..1 /\ stack'[1] = f /\ Len(stack') = 1
  <2>1. /\ <<f>> \in Seq(Frame) /\ Len(<<f>>) = 1 /\ DOMAIN <<f>> = 1..1
        /\ <<f>>[1] = f
    BY OneElement
  <2>2. stack' = <<f>>
    OBVIOUS
  <2> QED  BY <2>1, <2>2, Zenon
<1>2. \A i \in DOMAIN stack' : i = 1
  BY <1>1, OnlyOne, Zenon
<1>3. ShapeInv'
  <2>1. \A i \in DOMAIN stack' : stack'[i].plugin \in 0..last
    <3>1. Main \in 0..last
      BY MainThere
    <3> QED  BY <1>1, <1>2, <3>1
  <2> QED  BY <1>1, <2>1, ShapeKept DEF HandlerInv, ShapeInv, TypeOK
<1>4. /\ modules' = modules /\ map' = map /\ handles' = handles /\ failed' = failed
      /\ name' = name /\ commands' = commands /\ mailboxes' \subseteq mailboxes
      /\ FailedPlugins' = FailedPlugins /\ last' = last /\ retried' = retried
  BY DEF Fewer, registry, freeing, FailedPlugins
<1>5. \A i \in DOMAIN stack' : stack'[i].step \notin Operations \cup {"code", "round"}
  BY <1>1, <1>2 DEF Operations
<1>6. MappedInv'
  <2>1. OpPlugins = {} /\ OpPlugins' = {}
    BY <1>5 DEF OpPlugins
  <2>2. Owned' = Owned
    <3>1. Owned' = handles' \cup OpPlugins'
      BY DEF Owned, OpPlugins, Operations
    <3> QED  BY <1>4, <2>1, <3>1, OwnedOps
  <2>3. Reach' = Reach
    BY <1>4, <2>2 DEF Reach
  <2>4. TablesIn'
    BY <1>4, <2>3 DEF HandlerInv, MappedInv, TablesIn
  <2>5. CodeIn'
    BY <1>5 DEF CodeIn
  <2>6. OwnedIn' /\ OwnedApart' /\ HandlesApart'
    BY <1>4, <2>2 DEF HandlerInv, MappedInv, OwnedIn, OwnedApart, HandlesApart, Exempt
  <2> QED  BY <2>4, <2>5, <2>6 DEF MappedInv
<1>7. StepInv'
  <2>1. Placed'
    BY <1>5 DEF Placed, RightPlace, Operations
  <2>2. Adding'
    BY <1>4 DEF HandlerInv, StepInv, Adding, Operations
  <2> QED  BY <1>4, <2>1, <2>2 DEF HandlerInv, StepInv, OneRecord
<1>8. NestInv'
  <2>1. ShutdownFirst'
    BY <1>1, <1>2 DEF ShutdownFirst
  <2> QED  BY <1>5, <2>1 DEF NestInv, Fresh, RoundsCalled, OwnShutdown, Operations
<1> QED  BY <1>3, <1>6, <1>7, <1>8 DEF HandlerInv

LEMMA ShutdownPluginsInv == HandlerInv /\ ShutdownPlugins => HandlerInv'
<1> SUFFICES ASSUME HandlerInv, ShutdownPlugins PROVE HandlerInv'
  OBVIOUS
<1> DEFINE f == Call("unloadAll", Main)
<1>1. f \in Frame /\ f.step = "unloadAll" /\ f.plugin = Main
  BY CallFrame DEF Steps
<1> HIDE DEF f
<1>2. stack = <<>> /\ stack' = <<f>>
  <2>1. stack = <<>> /\ stack' = Append(stack, f)
    BY DEF ShutdownPlugins, Push, f
  <2>2. f \in Frame
    BY <1>1
  <2>3. Append(<<>>, f) = <<f>>
    BY <2>2, OneElement
  <2> QED  BY <2>1, <2>3, Zenon
<1>3. /\ Fewer /\ initialized' = FALSE /\ stage' = "stopping" /\ heard' = heard
  BY DEF ShutdownPlugins, Fewer, tables
<1>4. \A i \in DOMAIN stack : stack[i].step \notin Operations
  BY <1>2
<1> QED  BY <1>1, <1>2, <1>3, <1>4, OneFrame

\* While the client's shutdown is on top of the stack nothing is below it.
LEMMA ShutdownAlone ==
    ASSUME HandlerInv, stack # <<>>, Top.step \in {"unloadAll", "unloadFailed", "ask"}
    PROVE  /\ Len(stack) = 1 /\ DOMAIN stack = {1} /\ stack[1] = Top
           /\ Top \in Frame /\ Top.plugin = Main
<1>1. /\ Len(stack) \in DOMAIN stack /\ DOMAIN stack = 1..Len(stack)
      /\ Top = stack[Len(stack)] /\ Top \in Frame
  BY TopFacts DEF HandlerInv
<1>2. Len(stack) = 1 /\ Top.plugin = Main
  BY <1>1 DEF HandlerInv, NestInv, ShutdownFirst
<1>3. \A i : i \in 1..1 <=> i = 1
  BY OnlyOne, Zenon
<1> QED  BY <1>1, <1>2, <1>3

\* A pass over the records.
LEMMA PassInv ==
    ASSUME HandlerInv, NEW b \in BOOLEAN, stack' = Pass(b), Fewer,
           \A i \in DOMAIN stack : stack[i].step \notin Operations,
           initialized' \in BOOLEAN, stage' \in {"running", "stopping", "stopped"},
           heard' = heard
    PROVE  HandlerInv'
<1> DEFINE f == [Call("unloadFailed", Main) EXCEPT !.called = b, !.due = FailedPlugins]
<1>1. stack' = <<f>>
  BY DEF Pass
<1>2. f \in Frame /\ f.step = "unloadFailed" /\ f.plugin = Main
  <2>1. FailedPlugins \subseteq Plugin
    BY ReachPlugins DEF FailedPlugins, HandlerInv, ShapeInv, TypeOK
  <2>2. /\ Call("unloadFailed", Main) \in Frame
        /\ Call("unloadFailed", Main).step = "unloadFailed"
        /\ Call("unloadFailed", Main).plugin = Main
    BY CallFrame DEF Steps
  <2> QED  BY <2>1, <2>2 DEF Frame
<1> HIDE DEF f
<1> QED  BY <1>1, <1>2, OneFrame

\* The end of the client.
LEMMA StoppedInv ==
    ASSUME HandlerInv, stack' = <<>>, Fewer,
           \A i \in DOMAIN stack : stack[i].step \notin Operations,
           initialized' \in BOOLEAN, stage' \in {"running", "stopping", "stopped"},
           heard' = heard
    PROVE  HandlerInv'
<1>1. stack' \in Seq(Frame) /\ DOMAIN stack' = {} /\ Len(stack') = 0
  OBVIOUS
<1>2. ShapeInv'
  BY <1>1, ShapeKept DEF HandlerInv, ShapeInv, TypeOK
<1>3. 1..0 = {} /\ 0 \in 0..Len(stack) /\ 0 <= Len(stack') /\ 0 \notin DOMAIN stack
  BY <1>1 DEF HandlerInv, ShapeInv
<1>4. CallsAre(0)
  BY <1>1, <1>3 DEF CallsAre, Kept
<1>5. ShutdownRuns(0)
  BY <1>3 DEF ShutdownRuns
<1> QED  BY <1>2, <1>4, <1>5, CallsInv DEF CallsOnly

LEMMA ListFacts ==
    ASSUME HandlerInv
    PROVE  /\ list \in Seq(1..last) /\ Distinct(list) /\ map = ToSet(list)
           /\ last \in 0..MaxPlugin /\ last \in Nat /\ Main \notin map
           /\ Len(list) \in Nat /\ DOMAIN list = 1..Len(list)
           /\ \A i \in DOMAIN list : list[i] \in map /\ list[i] # Main
<1>1. /\ list \in Seq(1..last) /\ Distinct(list) /\ map = ToSet(list)
      /\ last \in 0..MaxPlugin
  BY DEF HandlerInv, ShapeInv, TypeOK, Distinct
<1>2. last \in Nat
  BY <1>1, HandlerAssumption
<1>3. Len(list) \in Nat /\ DOMAIN list = 1..Len(list)
  BY <1>1
<1>4. \A i \in DOMAIN list : list[i] \in 1..last
  BY <1>1
<1>5. Main \notin 1..last
  BY <1>2 DEF Main
<1> QED  BY <1>1, <1>2, <1>3, <1>4, <1>5 DEF ToSet

LEMMA UnloadPluginsInv == HandlerInv /\ UnloadPlugins => HandlerInv'
<1> SUFFICES ASSUME HandlerInv, UnloadPlugins PROVE HandlerInv'
  OBVIOUS
<1>1. stack # <<>> /\ Top.step = "unloadAll"
  BY DEF UnloadPlugins, Step
<1>2. /\ Len(stack) = 1 /\ DOMAIN stack = {1} /\ stack[1] = Top
      /\ Top \in Frame /\ Top.plugin = Main
  BY <1>1, ShutdownAlone
<1>3. UNCHANGED <<initialized, last, name, list, map, handles, deleted, modules, tables,
                  stage, heard>>
  BY DEF UnloadPlugins
<1>4. CASE list # <<>>
  <2>1. UnloadNamed(stack, name[list[1]], list[1])
    BY <1>4 DEF UnloadPlugins
  <2>2. \A i \in DOMAIN stack :
            stack[i].plugin # Main => name[stack[i].plugin] # name[list[1]]
    BY <1>2
  <2>3. stack = <<>> \/ Top.step \notin {"round", "notify"}
    BY <1>1
  <2>4. Like(stack)
    BY DEF Like, HandlerInv, ShapeInv
  <2>5. list[1] \in Plugin \cup {Main}
    <3>1. list \in Seq(1..last)
      BY DEF HandlerInv, ShapeInv
    <3>2. Len(list) \in Nat \ {0}
      BY <1>4, <3>1
    <3>3. 1 \in 1..Len(list)
      BY <3>2
    <3>4. list[1] \in map
      BY <3>3, ListFacts
    <3> QED  BY <3>4, ReachPlugins
  <2> QED  BY <1>3, <2>1, <2>2, <2>3, <2>4, <2>5, UnloadNamedInv
<1>5. CASE list = <<>>
  <2>1. stack' = Pass(FALSE) /\ failed' = failed /\ retried' = retried
    BY <1>5 DEF UnloadPlugins
  <2>2. Fewer
    BY <1>3, <2>1 DEF Fewer, registry, freeing, tables
  <2>3. \A i \in DOMAIN stack : stack[i].step \notin Operations
    BY <1>1, <1>2 DEF Operations
  <2>4. /\ initialized' \in BOOLEAN /\ stage' \in {"running", "stopping", "stopped"}
        /\ heard' = heard
    BY <1>3 DEF HandlerInv, ShapeInv, TypeOK
  <2> QED  BY <2>1, <2>2, <2>3, <2>4, PassInv
<1> QED  BY <1>4, <1>5

\* The records that are left once that of d is taken.
Rest(d) == <<[Top EXCEPT !.due = @ \ {d}]>>

LEMMA RestLike ==
    ASSUME HandlerInv, stack # <<>>, Top.step = "unloadFailed", NEW d
    PROVE  Like(Rest(d))
<1> DEFINE rest == [Top EXCEPT !.due = @ \ {d}]
<1>1. /\ Len(stack) = 1 /\ DOMAIN stack = {1} /\ stack[1] = Top
      /\ Top \in Frame /\ Top.plugin = Main
  BY ShutdownAlone
<1>2. /\ rest \in Frame /\ rest.step = Top.step /\ rest.plugin = Top.plugin
      /\ rest.called = Top.called /\ rest.at = Top.at /\ rest.tell = Top.tell
  BY <1>1 DEF Frame
<1>3. Rest(d) = <<rest>>
  BY DEF Rest
<1> HIDE DEF rest
<1>4. Rest(d) \in Seq(Frame) /\ Len(Rest(d)) = 1 /\ Rest(d)[1] = rest
  BY <1>2, <1>3, OneElement
<1>5. \A i \in 1..Len(stack) : i = 1
  BY <1>1
<1> QED  BY <1>1, <1>2, <1>4, <1>5 DEF Like

LEMMA UnloadFailedPluginsInv == HandlerInv /\ UnloadFailedPlugins => HandlerInv'
<1> SUFFICES ASSUME HandlerInv, UnloadFailedPlugins PROVE HandlerInv'
  OBVIOUS
<1>1. stack # <<>> /\ Top.step = "unloadFailed"
  BY DEF UnloadFailedPlugins, Step
<1>2. /\ Len(stack) = 1 /\ DOMAIN stack = {1} /\ stack[1] = Top
      /\ Top \in Frame /\ Top.plugin = Main
  BY <1>1, ShutdownAlone
<1>3. UNCHANGED <<initialized, last, name, list, map, handles, deleted, modules, tables,
                  stage, heard>>
  BY DEF UnloadFailedPlugins
<1>4. stack = <<>> \/ Top.step \notin {"round", "notify"}
  BY <1>1
<1>5. PICK d \in Top.due :
        \/ stack' = Rest(d) /\ UNCHANGED <<failed, retried>>
        \/ \E n : UnloadNamed(Rest(d), n, d)
  BY DEF UnloadFailedPlugins, Rest
<1>6. Like(Rest(d))
  BY <1>1, RestLike
<1>7. CASE stack' = Rest(d) /\ failed' = failed /\ retried' = retried
  <2>1. Fewer
    BY <1>3, <1>7 DEF Fewer, registry, freeing, tables
  <2>2. Like(stack')
    BY <1>6, <1>7 DEF Like
  <2>3. /\ initialized' \in BOOLEAN /\ stage' \in {"running", "stopping", "stopped"}
        /\ heard' = heard
    BY <1>3 DEF HandlerInv, ShapeInv, TypeOK
  <2> QED  BY <1>4, <2>1, <2>2, <2>3, LikeInv
<1>8. ASSUME NEW n, UnloadNamed(Rest(d), n, d) PROVE HandlerInv'
  <2>1. d \in Plugin \cup {Main}
    BY <1>2 DEF Frame
  <2>2. \A i \in DOMAIN stack : stack[i].plugin # Main => name[stack[i].plugin] # n
    BY <1>2
  <2> QED  BY <1>3, <1>4, <1>6, <1>8, <2>1, <2>2, UnloadNamedInv
<1> QED  BY <1>5, <1>7, <1>8

LEMMA ShutdownFailedPluginsInv == HandlerInv /\ ShutdownFailedPlugins => HandlerInv'
<1> SUFFICES ASSUME HandlerInv, ShutdownFailedPlugins PROVE HandlerInv'
  OBVIOUS
<1>1. stack # <<>> /\ Top.step = "unloadFailed"
  BY DEF ShutdownFailedPlugins, Step
<1>2. \A i \in DOMAIN stack : stack[i].step \notin Operations
  <2>1. DOMAIN stack = {1} /\ stack[1] = Top
    BY <1>1, ShutdownAlone
  <2> QED  BY <1>1, <2>1 DEF Operations
<1>3. Fewer /\ initialized' = initialized /\ heard' = heard
  BY DEF ShutdownFailedPlugins, Fewer, tables
<1>4. initialized' \in BOOLEAN /\ stage' \in {"running", "stopping", "stopped"}
  BY <1>3 DEF ShutdownFailedPlugins, HandlerInv, ShapeInv, TypeOK
<1>5. \/ stack' = <<>>
      \/ stack' = <<Call("ask", Main)>>
      \/ stack' = Pass(TRUE)
  BY DEF ShutdownFailedPlugins
<1>6. CASE stack' = <<>>
  BY <1>2, <1>3, <1>4, <1>6, StoppedInv
<1>7. CASE stack' = <<Call("ask", Main)>>
  <2>1. /\ Call("ask", Main) \in Frame /\ Call("ask", Main).step = "ask"
        /\ Call("ask", Main).plugin = Main
    BY CallFrame DEF Steps
  <2> QED  BY <1>2, <1>3, <1>4, <1>7, <2>1, OneFrame
<1>8. CASE stack' = Pass(TRUE)
  BY <1>2, <1>3, <1>4, <1>8, PassInv
<1> QED  BY <1>5, <1>6, <1>7, <1>8

LEMMA AnswerUnloadFailureInv == HandlerInv /\ AnswerUnloadFailure => HandlerInv'
<1> SUFFICES ASSUME HandlerInv, AnswerUnloadFailure PROVE HandlerInv'
  OBVIOUS
<1>1. stack # <<>> /\ Top.step = "ask"
  BY DEF AnswerUnloadFailure, Step
<1>2. \A i \in DOMAIN stack : stack[i].step \notin Operations
  <2>1. DOMAIN stack = {1} /\ stack[1] = Top
    BY <1>1, ShutdownAlone
  <2> QED  BY <1>1, <2>1 DEF Operations
<1>3. Fewer /\ initialized' = initialized /\ heard' = heard
  BY DEF AnswerUnloadFailure, Fewer, tables
<1>4. initialized' \in BOOLEAN /\ stage' \in {"running", "stopping", "stopped"}
  BY <1>3 DEF AnswerUnloadFailure, HandlerInv, ShapeInv, TypeOK
<1>5. stack' = <<>> \/ stack' = Pass(TRUE)
  BY DEF AnswerUnloadFailure
<1>6. CASE stack' = <<>>
  BY <1>2, <1>3, <1>4, <1>6, StoppedInv
<1>7. CASE stack' = Pass(TRUE)
  BY <1>2, <1>3, <1>4, <1>7, PassInv
<1> QED  BY <1>5, <1>6, <1>7

-----------------------------------------------------------------------------
(* Others let go of a DLL.                                                  *)

LEMMA ReleaseInv ==
    ASSUME NEW n \in Names PROVE HandlerInv /\ Release(n) => HandlerInv'
<1> SUFFICES ASSUME HandlerInv, Release(n) PROVE HandlerInv'
  OBVIOUS
<1>1. /\ initialized' = initialized /\ stage' = stage /\ heard' = heard
      /\ last' = last /\ name' = name /\ list' = list /\ map' = map
      /\ handles' = handles /\ failed' = failed /\ deleted' = deleted
      /\ retried' = retried /\ commands' = commands /\ mailboxes' = mailboxes
      /\ dropboxes' = dropboxes /\ stack' = stack
  BY DEF Release, tables
<1>2. FailedPlugins' = FailedPlugins /\ Owned' = Owned /\ Reach' = Reach
  BY <1>1 DEF FailedPlugins, Owned, Reach
<1>3. ShapeInv'
  <2>1. modules' \subseteq 1..last
    BY DEF Release, HandlerInv, ShapeInv, TypeOK
  <2>2. TypeOK'
    BY <1>1, <2>1 DEF HandlerInv, ShapeInv, TypeOK
  <2> QED  BY <1>1, <2>2 DEF HandlerInv, ShapeInv
<1>4. OwnedIn'
  <2> SUFFICES ASSUME NEW q \in Owned PROVE q \in modules' \/ Exempt(q)
    BY <1>1, <1>2 DEF OwnedIn, Exempt
  <2>1. q \in modules \/ Exempt(q)
    BY DEF HandlerInv, MappedInv, OwnedIn
  <2>2. name[q] = n => Exempt(q)
    BY DEF Release, Exempt
  <2> QED  BY <2>1, <2>2 DEF Release
<1>5. MappedInv'
  BY <1>1, <1>2, <1>4 DEF HandlerInv, MappedInv, TablesIn, CodeIn, OwnedApart, HandlesApart,
                         Exempt
<1>6. StepInv'
  <2>1. Placed'
    BY <1>1, <1>2 DEF HandlerInv, StepInv, Placed, RightPlace, NoMailbox
  <2>2. Adding' /\ OneRecord'
    BY <1>1, <1>2 DEF HandlerInv, StepInv, Adding, OneRecord
  <2> QED  BY <2>1, <2>2 DEF StepInv
<1>7. NestInv'
  BY <1>1 DEF HandlerInv, NestInv, Fresh, RoundsCalled, OwnShutdown, ShutdownFirst,
              NoMailbox
<1> QED  BY <1>3, <1>5, <1>6, <1>7 DEF HandlerInv

-----------------------------------------------------------------------------
(* Steps that change only what plugins register.                            *)

LEMMA TablesOnly ==
    ASSUME HandlerInv, ShapeInv', TablesIn', UNCHANGED <<registry, stack>>,
           \A i \in DOMAIN stack :
                stack[i].step = "free" =>
                    (stack[i].plugin \in mailboxes' => name[stack[i].plugin] \in Untidy),
           \A i \in DOMAIN stack : stack[i].step = "notify" /\ i = Len(stack) =>
                (stack[i].plugin \in mailboxes' => name[stack[i].plugin] \in Untidy)
    PROVE  HandlerInv'
<1>1. /\ modules' = modules /\ map' = map /\ handles' = handles /\ failed' = failed
      /\ name' = name /\ stack' = stack /\ FailedPlugins' = FailedPlugins
      /\ last' = last /\ retried' = retried
  BY DEF registry, freeing, FailedPlugins
<1>2. MappedInv'
  <2>1. Owned' = Owned
    BY <1>1 DEF Owned
  <2>2. Reach' = Reach
    BY <1>1, <2>1 DEF Reach
  <2> QED  BY <1>1, <2>1, <2>2 DEF HandlerInv, MappedInv, CodeIn, OwnedIn, OwnedApart,
                                  HandlesApart, Exempt
<1>3. StepInv'
  <2>1. Placed'
    BY <1>1 DEF HandlerInv, StepInv, Placed, RightPlace, NoMailbox
  <2>2. Adding' /\ OneRecord'
    BY <1>1 DEF HandlerInv, StepInv, Adding, OneRecord
  <2> QED  BY <2>1, <2>2 DEF StepInv
<1>4. NestInv'
  <2>1. OwnShutdown'
    BY <1>1 DEF HandlerInv, NestInv, OwnShutdown, NoMailbox
  <2>2. Fresh' /\ RoundsCalled' /\ ShutdownFirst'
    BY <1>1 DEF HandlerInv, NestInv, Fresh, RoundsCalled, ShutdownFirst
  <2> QED  BY <2>1, <2>2 DEF NestInv
<1> QED  BY <1>2, <1>3, <1>4 DEF HandlerInv

\* Where code may register something: no call on top is a step of an unload.
LEMMA RunningFacts ==
    ASSUME HandlerInv, Calling, Running # Main
    PROVE  /\ Running \in Reach /\ Running \in 1..last
           /\ \A i \in DOMAIN stack : i = Len(stack) => stack[i].step = "code"
<1>1. stack # <<>> /\ Top.step = "code" /\ Running = Top.plugin
  BY DEF Calling, Running
<1>2. Len(stack) \in DOMAIN stack /\ Top = stack[Len(stack)]
  BY <1>1, TopFacts DEF HandlerInv
<1>3. Running \in Reach
  BY <1>1, <1>2 DEF HandlerInv, MappedInv, CodeIn
<1> QED  BY <1>1, <1>2, <1>3, ReachPlugins

\* The types, when only the tables change.
LEMMA TablesShape ==
    ASSUME HandlerInv, UNCHANGED <<initialized, registry, stack, stage, heard>>,
           DOMAIN commands' \subseteq Commands,
           \A c \in DOMAIN commands' : commands'[c] \in 1..last,
           mailboxes' \subseteq 1..last,
           dropboxes' \subseteq [owner : 0..last, of : 1..last]
    PROVE  ShapeInv'
<1>1. /\ initialized' = initialized /\ last' = last /\ name' = name /\ list' = list
      /\ map' = map /\ handles' = handles /\ failed' = failed /\ modules' = modules
      /\ stack' = stack /\ stage' = stage /\ heard' = heard
      /\ deleted' = deleted /\ retried' = retried
  BY DEF registry, freeing
<1>2. TypeOK'
  BY <1>1 DEF HandlerInv, ShapeInv, TypeOK
<1> QED  BY <1>1, <1>2 DEF HandlerInv, ShapeInv

LEMMA AddCommandInv ==
    ASSUME NEW c \in Commands PROVE HandlerInv /\ AddCommand(c) => HandlerInv'
<1> SUFFICES ASSUME HandlerInv, AddCommand(c) PROVE HandlerInv'
  OBVIOUS
<1>1. /\ commands' = [d \in DOMAIN commands \cup {c} |->
                        IF d = c THEN Running ELSE commands[d]]
      /\ mailboxes' = mailboxes /\ dropboxes' = dropboxes
      /\ UNCHANGED <<initialized, registry, stack, stage, heard>>
  BY DEF AddCommand
<1>2. /\ Running \in Reach /\ Running \in 1..last
      /\ \A i \in DOMAIN stack : i = Len(stack) => stack[i].step = "code"
  BY RunningFacts DEF AddCommand
<1>3. /\ DOMAIN commands' = DOMAIN commands \cup {c}
      /\ \A d \in DOMAIN commands' :
            commands'[d] = Running \/ (d \in DOMAIN commands /\ commands'[d] = commands[d])
  BY <1>1
<1>4. ShapeInv'
  <2>1. DOMAIN commands' \subseteq Commands
    BY <1>3 DEF HandlerInv, ShapeInv, TypeOK
  <2>2. \A d \in DOMAIN commands' : commands'[d] \in 1..last
    BY <1>2, <1>3 DEF HandlerInv, ShapeInv, TypeOK
  <2>3. mailboxes' \subseteq 1..last /\ dropboxes' \subseteq [owner : 0..last, of : 1..last]
    BY <1>1 DEF HandlerInv, ShapeInv, TypeOK
  <2> QED  BY <1>1, <2>1, <2>2, <2>3, TablesShape
<1>9. Reach' = Reach
  BY <1>1 DEF Reach, Owned, registry
<1>5. TablesIn'
  BY <1>1, <1>9, <1>2, <1>3 DEF HandlerInv, MappedInv, TablesIn
<1>6. \A i \in DOMAIN stack :
            stack[i].step = "free" =>
                (stack[i].plugin \in mailboxes' => name[stack[i].plugin] \in Untidy)
  BY <1>1 DEF HandlerInv, StepInv, Placed, RightPlace, NoMailbox
<1> QED  BY <1>1, <1>2, <1>4, <1>5, <1>6, TablesOnly

LEMMA RemoveCommandInv ==
    ASSUME NEW c \in Commands PROVE HandlerInv /\ RemoveCommand(c) => HandlerInv'
<1> SUFFICES ASSUME HandlerInv, RemoveCommand(c) PROVE HandlerInv'
  OBVIOUS
<1>1. /\ commands' = [d \in DOMAIN commands \ {c} |-> commands[d]]
      /\ mailboxes' = mailboxes /\ dropboxes' = dropboxes
      /\ UNCHANGED <<initialized, registry, stack, stage, heard>>
  BY DEF RemoveCommand
<1>2. \A i \in DOMAIN stack : i = Len(stack) => stack[i].step = "code"
  BY RunningFacts DEF RemoveCommand
<1>3. /\ DOMAIN commands' \subseteq DOMAIN commands
      /\ \A d \in DOMAIN commands' : commands'[d] = commands[d]
  BY <1>1
<1>4. ShapeInv'
  <2>1. DOMAIN commands' \subseteq Commands
    BY <1>3 DEF HandlerInv, ShapeInv, TypeOK
  <2>2. \A d \in DOMAIN commands' : commands'[d] \in 1..last
    BY <1>3 DEF HandlerInv, ShapeInv, TypeOK
  <2>3. mailboxes' \subseteq 1..last /\ dropboxes' \subseteq [owner : 0..last, of : 1..last]
    BY <1>1 DEF HandlerInv, ShapeInv, TypeOK
  <2> QED  BY <1>1, <2>1, <2>2, <2>3, TablesShape
<1>9. Reach' = Reach
  BY <1>1 DEF Reach, Owned, registry
<1>5. TablesIn'
  BY <1>1, <1>9, <1>3 DEF HandlerInv, MappedInv, TablesIn
<1>6. \A i \in DOMAIN stack :
            stack[i].step = "free" =>
                (stack[i].plugin \in mailboxes' => name[stack[i].plugin] \in Untidy)
  BY <1>1 DEF HandlerInv, StepInv, Placed, RightPlace, NoMailbox
<1> QED  BY <1>1, <1>2, <1>4, <1>5, <1>6, TablesOnly

LEMMA AddActorInv == HandlerInv /\ AddActor => HandlerInv'
<1> SUFFICES ASSUME HandlerInv, AddActor PROVE HandlerInv'
  OBVIOUS
<1>1. /\ mailboxes' \subseteq mailboxes \cup {Running}
      /\ dropboxes' = dropboxes \cup
            {[owner |-> GetPluginByHandle(Running), of |-> Running]}
      /\ commands' = commands /\ (name[Running] \in Untidy \/ Running \in handles)
      /\ UNCHANGED <<initialized, registry, stack, stage, heard>>
  BY DEF AddActor
<1>2. /\ Running \in Reach /\ Running \in 1..last
      /\ \A i \in DOMAIN stack : i = Len(stack) => stack[i].step = "code"
  BY RunningFacts DEF AddActor
<1>3. GetPluginByHandle(Running) \in 0..last
  <2>1. GetPluginByHandle(Running) \in {Running, Main}
    BY DEF GetPluginByHandle
  <2>2. last \in Nat
    BY HandlerAssumption DEF HandlerInv, ShapeInv, TypeOK
  <2> QED  BY <1>2, <2>1, <2>2 DEF Main
<1>4. ShapeInv'
  <2>1. mailboxes' \subseteq 1..last
    BY <1>1, <1>2 DEF HandlerInv, ShapeInv, TypeOK
  <2>2. dropboxes' \subseteq [owner : 0..last, of : 1..last]
    BY <1>1, <1>2, <1>3 DEF HandlerInv, ShapeInv, TypeOK
  <2>3. /\ DOMAIN commands' \subseteq Commands
        /\ \A d \in DOMAIN commands' : commands'[d] \in 1..last
    BY <1>1 DEF HandlerInv, ShapeInv, TypeOK
  <2> QED  BY <1>1, <2>1, <2>2, <2>3, TablesShape
<1>9. Reach' = Reach
  BY <1>1 DEF Reach, Owned, registry
<1>5. TablesIn'
  BY <1>1, <1>9, <1>2 DEF HandlerInv, MappedInv, TablesIn
<1>6. \A i \in DOMAIN stack :
            stack[i].step = "free" =>
                (stack[i].plugin \in mailboxes' => name[stack[i].plugin] \in Untidy)
  BY <1>1 DEF HandlerInv, StepInv, Placed, RightPlace, NoMailbox
<1> QED  BY <1>1, <1>2, <1>4, <1>5, <1>6, TablesOnly

LEMMA RemoveActorInv == HandlerInv /\ RemoveActor => HandlerInv'
<1> SUFFICES ASSUME HandlerInv, RemoveActor PROVE HandlerInv'
  OBVIOUS
<1>1. /\ mailboxes' \subseteq mailboxes /\ dropboxes' \subseteq dropboxes
      /\ commands' = commands
      /\ UNCHANGED <<initialized, registry, stack, stage, heard>>
  BY DEF RemoveActor, RemoveActorOf
<1>2. \A i \in DOMAIN stack : i = Len(stack) => stack[i].step = "code"
  <2>1. Running # Main
    BY DEF RemoveActor, HandlerInv, ShapeInv, TypeOK, Main
  <2> QED  BY <2>1, RunningFacts DEF RemoveActor
<1>4. ShapeInv'
  <2>1. /\ mailboxes' \subseteq 1..last
        /\ dropboxes' \subseteq [owner : 0..last, of : 1..last]
        /\ DOMAIN commands' \subseteq Commands
        /\ \A d \in DOMAIN commands' : commands'[d] \in 1..last
    BY <1>1 DEF HandlerInv, ShapeInv, TypeOK
  <2> QED  BY <1>1, <2>1, TablesShape
<1>9. Reach' = Reach
  BY <1>1 DEF Reach, Owned, registry
<1>5. TablesIn'
  BY <1>1, <1>9 DEF HandlerInv, MappedInv, TablesIn
<1>6. \A i \in DOMAIN stack :
            stack[i].step = "free" =>
                (stack[i].plugin \in mailboxes' => name[stack[i].plugin] \in Untidy)
  BY <1>1 DEF HandlerInv, StepInv, Placed, RightPlace, NoMailbox
<1> QED  BY <1>1, <1>2, <1>4, <1>5, <1>6, TablesOnly

LEMMA StutterInv == HandlerInv /\ UNCHANGED vars => HandlerInv'
<1> SUFFICES ASSUME HandlerInv, UNCHANGED vars PROVE HandlerInv'
  OBVIOUS
<1>1. /\ UNCHANGED <<initialized, registry, stack, stage, heard>>
      /\ commands' = commands /\ mailboxes' = mailboxes /\ dropboxes' = dropboxes
  BY DEF vars, tables
<1>2. ShapeInv'
  <2>1. /\ mailboxes' \subseteq 1..last
        /\ dropboxes' \subseteq [owner : 0..last, of : 1..last]
        /\ DOMAIN commands' \subseteq Commands
        /\ \A d \in DOMAIN commands' : commands'[d] \in 1..last
    BY <1>1 DEF HandlerInv, ShapeInv, TypeOK
  <2> QED  BY <1>1, <2>1, TablesShape
<1>3. TablesIn'
  <2>1. Reach' = Reach
    BY <1>1 DEF Reach, Owned, registry
  <2> QED  BY <1>1, <2>1 DEF HandlerInv, MappedInv, TablesIn
<1>4. \A i \in DOMAIN stack : stack[i].step = "free" =>
            (stack[i].plugin \in mailboxes' => name[stack[i].plugin] \in Untidy)
  BY <1>1 DEF HandlerInv, StepInv, Placed, RightPlace, NoMailbox
<1>5. \A i \in DOMAIN stack : stack[i].step = "notify" /\ i = Len(stack) =>
            (stack[i].plugin \in mailboxes' => name[stack[i].plugin] \in Untidy)
  BY <1>1 DEF HandlerInv, NestInv, OwnShutdown, NoMailbox
<1> QED  BY <1>1, <1>2, <1>3, <1>4, <1>5, TablesOnly

-----------------------------------------------------------------------------
(* The invariant, and what follows from it.                                 *)

LEMMA NextInv ==
    ASSUME HandlerInv, [Next]_vars PROVE HandlerInv'
<1>1. CASE Handler
  BY <1>1, RoundCallInv, RoundNextInv, RoundEndInv, LoadListedInv, LoadAnnouncedInv,
     UnloadUnlistedInv, UnloadNotifiedInv, UnloadFreedInv, UnloadPluginsInv,
     UnloadFailedPluginsInv, ShutdownFailedPluginsInv DEF Handler
<1>2. CASE Return
  BY <1>2, ReturnInv
<1>3. CASE PulsePlugins
  BY <1>3, PulsePluginsInv
<1>4. CASE ShutdownPlugins
  BY <1>4, ShutdownPluginsInv
<1>5. ASSUME NEW n \in Names, LoadPlugin(n) PROVE HandlerInv'
  BY <1>5, LoadPluginInv
<1>6. ASSUME NEW n \in Names, UnloadPlugin(n) PROVE HandlerInv'
  BY <1>6, UnloadPluginInv
<1>7. ASSUME NEW c \in Commands, AddCommand(c) PROVE HandlerInv'
  BY <1>7, AddCommandInv
<1>8. ASSUME NEW c \in Commands, RemoveCommand(c) PROVE HandlerInv'
  BY <1>8, RemoveCommandInv
<1>9. ASSUME NEW c \in Commands, DoCommand(c) PROVE HandlerInv'
  BY <1>9, DoCommandInv
<1>10. CASE AddActor
  BY <1>10, AddActorInv
<1>11. CASE RemoveActor
  BY <1>11, RemoveActorInv
<1>12. ASSUME NEW p \in Plugin, Receive(p) PROVE HandlerInv'
  BY <1>12, ReceiveInv
<1>13. CASE UNCHANGED vars
  BY <1>13, StutterInv
<1>14. CASE AnswerUnloadFailure
  BY <1>14, AnswerUnloadFailureInv
<1>15. ASSUME NEW n \in Names, Release(n) PROVE HandlerInv'
  BY <1>15, ReleaseInv
<1> QED
  BY <1>1, <1>2, <1>3, <1>4, <1>5, <1>6, <1>7, <1>8, <1>9, <1>10, <1>11, <1>12, <1>13,
     <1>14, <1>15 DEF Next

\* HandlerInv is an invariant, whatever callbacks load, unload and register.
THEOREM HandlerCorrect == Spec => []HandlerInv
<1>1. HandlerInv /\ [Next]_vars => HandlerInv'
  BY NextInv
<1> QED  BY InitInv, <1>1, PTL DEF Spec

\* The variables keep their types.
THEOREM TypeCorrect == Spec => []TypeOK
<1>1. HandlerInv => TypeOK
  BY DEF HandlerInv, ShapeInv
<1> QED  BY HandlerCorrect, <1>1, PTL

\* Whatever callbacks load, unload and register, however deep they nest, whoever
\* else holds a DLL, and whatever a failed unload's record reads as, no code of a
\* plugin runs that is not in the process: only the retry of a failed unload and
\* the mailbox that an untidy plugin leaves can reach such code.
THEOREM CodeMappedCorrect == Spec => []CodeMapped
<1>1. ASSUME HandlerInv PROVE CodeMapped
  <2>1. \A p \in Reach : p \in modules \/ Exempt(p)
    BY <1>1 DEF HandlerInv, MappedInv, OwnedIn, Reach, Exempt
  <2> QED  BY <1>1, <2>1 DEF HandlerInv, MappedInv, CodeIn, CodeMapped
<1> QED  BY HandlerCorrect, <1>1, PTL

\* No mailbox outlives the module its receiver's code is in, with the same two
\* exceptions.
THEOREM MailboxesMappedCorrect == Spec => []MailboxesMapped
<1>1. ASSUME HandlerInv PROVE MailboxesMapped
  <2>1. \A p \in Reach : p \in modules \/ Exempt(p)
    BY <1>1 DEF HandlerInv, MappedInv, OwnedIn, Reach, Exempt
  <2> QED  BY <1>1, <2>1 DEF HandlerInv, MappedInv, TablesIn, MailboxesMapped
<1> QED  BY HandlerCorrect, <1>1, PTL

\* The list, the map and the handles hold the same plugins, under different
\* names, but for those that are on their way in.
THEOREM ListsAgreeCorrect == Spec => []ListsAgree
<1>1. ASSUME HandlerInv PROVE ListsAgree
  <2>1. /\ list \in Seq(1..last) /\ map = ToSet(list) /\ map \subseteq handles
        /\ \A i, j \in DOMAIN list : list[i] = list[j] => i = j
    BY <1>1 DEF HandlerInv, ShapeInv
  <2>2. Cardinality(map) = Len(list)
    <3>1. Len(list) \in Nat /\ DOMAIN list = 1..Len(list)
      BY <2>1
    <3>2. list \in [1..Len(list) -> map]
      <4>1. list = [i \in 1..Len(list) |-> list[i]]
        BY <2>1
      <4>2. \A i \in 1..Len(list) : list[i] \in map
        BY <2>1, <3>1 DEF ToSet
      <4> QED  BY <4>1, <4>2
    <3>3. \A q \in map : \E i \in 1..Len(list) : list[i] = q
      BY <2>1, <3>1 DEF ToSet
    <3>4. list \in Bijection(1..Len(list), map)
      BY <2>1, <3>1, <3>2, <3>3 DEF Bijection, Injection, Surjection, IsInjective
    <3>5. ExistsBijection(1..Len(list), map)
      BY <3>4 DEF ExistsBijection
    <3> QED  BY <3>1, <3>5, FS_CountingElements
  <2>3. \A p, q \in map : name[p] = name[q] => p = q
    BY <1>1, <2>1 DEF HandlerInv, MappedInv, HandlesApart
  <2>4. \A p \in handles \ map :
            \E i \in DOMAIN stack : stack[i].step = "add" /\ stack[i].plugin = p
    BY <1>1 DEF HandlerInv, StepInv, Adding
  <2> QED  BY <2>1, <2>2, <2>3, <2>4 DEF ListsAgree
<1> QED  BY HandlerCorrect, <1>1, PTL

-----------------------------------------------------------------------------
(* The rounds over the list.                                                *)

\* A round f has its place in the list l: what it still has to call is there or
\* behind, and what is behind has not been called.
InPlace(l, f) ==
    /\ f.at \in ToSet(l) \cup {Main}
    /\ f.due \subseteq ToSet(l)
    /\ f.at = Main => ~f.called /\ f.due \subseteq f.seen
    /\ Main \notin f.seen
    /\ \A i, j \in DOMAIN l : l[i] = f.at =>
        /\ i = j => (f.called <=> l[j] \in f.seen)
        /\ j < i /\ l[j] \in f.due => l[j] \in f.seen
        /\ i < j => l[j] \notin f.seen

RoundsPlaced ==
    \A i \in DOMAIN stack : stack[i].step = "round" => InPlace(list, stack[i])

\* While a round waits, the plugin at its place is held by its code, ...
RoundsCode ==
    \A i \in DOMAIN stack :
        stack[i].step = "round" /\ i + 1 \in DOMAIN stack =>
            stack[i + 1].step = "code" /\ stack[i + 1].plugin = stack[i].at

RoundsInv == RoundsPlaced /\ RoundsCode

\* A plugin that is being loaded has not been told of anything.
NotAdding == \A h \in heard : h.who \notin handles \ map

\* The round f still has to call those of l who were told of p.
Telling(told, l, p, f) ==
    /\ f.step = "round" /\ f.tell = "UnloadPlugin" /\ f.plugin = p
    /\ \A h \in told : h.of = p /\ h.who \in l => h.who \in f.due \ f.seen

\* A plugin leaves the list when nobody listed is left who was told of it.
GoingTold ==
    \A i \in DOMAIN stack :
        stack[i].step = "shutdown" =>
            IF i = Len(stack)
            THEN \A h \in heard : h.of = stack[i].plugin => h.who \notin map
            ELSE Telling(heard, map, stack[i].plugin, stack[i + 1])

\* The plugins that a round tells of are listed, and no call below is about them.
LoadRounds ==
    \A i \in DOMAIN stack :
        stack[i].step = "round" /\ stack[i].tell = "LoadPlugin" =>
            /\ stack[i].plugin \in map
            /\ \A j \in 1..(i - 1) : stack[j].plugin # stack[i].plugin

HeardInv == NotAdding /\ ToldOfGoing /\ GoingTold /\ LoadRounds

ToldInv == HandlerInv /\ RoundsInv /\ HeardInv

-----------------------------------------------------------------------------
(* Frames.                                                                  *)

\* The calls up to n are the same, and their rounds where they were.
Still(n) ==
    \A i \in 1..n : /\ stack'[i].step = stack[i].step
                    /\ stack'[i].plugin = stack[i].plugin
                    /\ stack[i].step = "round" => stack'[i] = stack[i]

\* The step keeps the list and all it was told, and the calls up to n; those it
\* adds are not about leaving plugins, and none of them tells of a load.
Quiet(n) ==
    /\ list' = list /\ map' = map /\ heard' = heard
    /\ stack' \in Seq(Frame)
    /\ n \in 0..Len(stack) /\ n <= Len(stack') /\ Still(n)
    /\ n > 0 => stack[n].step # "shutdown"
    /\ n < Len(stack') /\ n > 0 => stack[n].step # "round"
    /\ \A i \in DOMAIN stack' : i > n =>
            /\ stack'[i].step # "shutdown"
            /\ stack'[i].step = "round" =>
                /\ i = Len(stack')
                /\ InPlace(list, stack'[i])
                /\ stack'[i].tell # "LoadPlugin"

LEMMA QuietRounds ==
    ASSUME ToldInv, NEW n, Quiet(n)
    PROVE  RoundsInv'
<1>1. /\ DOMAIN stack' = 1..Len(stack') /\ Len(stack') \in Nat
      /\ DOMAIN stack = 1..Len(stack) /\ Len(stack) \in Nat
      /\ n \in Nat /\ n <= Len(stack) /\ n <= Len(stack')
      /\ \A i \in 1..n : /\ stack'[i].step = stack[i].step
                         /\ stack'[i].plugin = stack[i].plugin
                         /\ stack[i].step = "round" => stack'[i] = stack[i]
  BY DEF ToldInv, HandlerInv, ShapeInv, Quiet, Still
<1>2. ASSUME NEW i \in DOMAIN stack', stack'[i].step = "round"
      PROVE  InPlace(list, stack'[i])
  <2>1. CASE i > n
    BY <1>2, <2>1 DEF Quiet
  <2>2. CASE ~(i > n)
    <3>1. i \in 1..n /\ i \in DOMAIN stack
      BY <1>1, <1>2, <2>2
    <3> QED  BY <1>1, <1>2, <3>1 DEF ToldInv, RoundsInv, RoundsPlaced
  <2> QED  BY <2>1, <2>2
<1>3. RoundsPlaced'
  <2>1. list' = list
    BY DEF Quiet
  <2> QED  BY <1>2, <2>1 DEF RoundsPlaced
<1>4. ASSUME NEW i \in DOMAIN stack', stack'[i].step = "round", i + 1 \in DOMAIN stack'
      PROVE  stack'[i + 1].step = "code" /\ stack'[i + 1].plugin = stack'[i].at
  <2>1. CASE i > n
    <3>1. i = Len(stack')
      BY <1>4, <2>1 DEF Quiet
    <3> QED  BY <1>1, <1>4, <3>1
  <2>2. CASE i = n
    <3>1. n > 0 /\ n < Len(stack') /\ n \in 1..n
      BY <1>1, <1>4, <2>2
    <3> QED  BY <1>1, <1>4, <2>2, <3>1 DEF Quiet
  <2>3. CASE i < n
    <3>1. i \in 1..n /\ i + 1 \in 1..n /\ i \in DOMAIN stack /\ i + 1 \in DOMAIN stack
      BY <1>1, <1>4, <2>3
    <3> QED  BY <1>1, <1>4, <3>1 DEF ToldInv, RoundsInv, RoundsCode
  <2> QED  BY <1>1, <1>4, <2>1, <2>2, <2>3
<1>5. RoundsCode'
  BY <1>4 DEF RoundsCode
<1> QED  BY <1>3, <1>5 DEF RoundsInv

LEMMA QuietHeard ==
    ASSUME ToldInv, NEW n, Quiet(n), NotAdding'
    PROVE  HeardInv'
<1>1. /\ DOMAIN stack' = 1..Len(stack') /\ Len(stack') \in Nat
      /\ DOMAIN stack = 1..Len(stack) /\ Len(stack) \in Nat
      /\ n \in Nat /\ n <= Len(stack) /\ n <= Len(stack')
      /\ \A i \in 1..n : /\ stack'[i].step = stack[i].step
                         /\ stack'[i].plugin = stack[i].plugin
                         /\ stack[i].step = "round" => stack'[i] = stack[i]
      /\ map' = map /\ heard' = heard
  BY DEF ToldInv, HandlerInv, ShapeInv, Quiet, Still
<1>2. ToldOfGoing'
  BY <1>1 DEF ToldInv, HeardInv, ToldOfGoing
<1>3. ASSUME NEW i \in DOMAIN stack', stack'[i].step = "shutdown"
      PROVE  i # Len(stack') /\ Telling(heard', map', stack'[i].plugin, stack'[i + 1])
  <2>1. ~(i > n)
    BY <1>3 DEF Quiet
  <2>2. i \in 1..n /\ i \in DOMAIN stack
    BY <1>1, <1>3, <2>1
  <2>3. stack'[i].plugin = stack[i].plugin /\ stack[i].step = "shutdown" /\ i # n
    BY <1>1, <1>3, <2>2 DEF Quiet
  <2>4. i + 1 \in 1..n /\ i # Len(stack) /\ i # Len(stack')
    BY <1>1, <2>2, <2>3
  <2>5. Telling(heard, map, stack[i].plugin, stack[i + 1])
    BY <1>3, <2>2, <2>3, <2>4 DEF ToldInv, HeardInv, GoingTold
  <2>6. stack'[i + 1] = stack[i + 1]
    BY <1>1, <2>4, <2>5 DEF Telling
  <2> QED  BY <1>1, <2>3, <2>4, <2>5, <2>6 DEF Telling
<1>4. GoingTold'
  BY <1>3 DEF GoingTold
<1>5. ASSUME NEW i \in DOMAIN stack', stack'[i].step = "round",
             stack'[i].tell = "LoadPlugin"
      PROVE  /\ stack'[i].plugin \in map
             /\ \A j \in 1..(i - 1) : stack'[j].plugin # stack'[i].plugin
  <2>1. ~(i > n)
    BY <1>5 DEF Quiet
  <2>2. i \in 1..n /\ i \in DOMAIN stack /\ \A j \in 1..(i - 1) : j \in 1..n
    BY <1>1, <1>5, <2>1
  <2> QED  BY <1>1, <1>5, <2>2 DEF ToldInv, HeardInv, LoadRounds
<1>6. LoadRounds'
  BY <1>1, <1>5 DEF LoadRounds
<1> QED  BY <1>2, <1>4, <1>6 DEF HeardInv

\* A step that keeps the calls, the list and all that was told.
LEMMA NothingTold ==
    ASSUME ToldInv, HandlerInv', UNCHANGED <<list, map, handles, stack, heard>>
    PROVE  ToldInv'
<1>1. RoundsInv'
  BY DEF ToldInv, RoundsInv, RoundsPlaced, RoundsCode
<1>2. NotAdding' /\ ToldOfGoing'
  BY DEF ToldInv, HeardInv, NotAdding, ToldOfGoing
<1>3. GoingTold'
  BY DEF ToldInv, HeardInv, GoingTold
<1>4. LoadRounds'
  BY DEF ToldInv, HeardInv, LoadRounds
<1> QED  BY <1>1, <1>2, <1>3, <1>4 DEF ToldInv, HeardInv

LEMMA QuietInv ==
    ASSUME ToldInv, HandlerInv', NEW n, Quiet(n), handles' = handles
    PROVE  ToldInv'
<1>1. NotAdding'
  BY DEF Quiet, ToldInv, HeardInv, NotAdding
<1> QED  BY <1>1, QuietRounds, QuietHeard DEF ToldInv

\* Directly below a call that is not code there is no round, and below one that
\* is not a round no plugin that is to leave.
LEMMA UnderTop ==
    ASSUME ToldInv, stack # <<>>, NEW k, k = Len(stack)
    PROVE  /\ k \in Nat \ {0} /\ k - 1 \in Nat /\ DOMAIN stack = 1..k /\ Top = stack[k]
           /\ stack \in Seq(Frame)
           /\ Top.step # "code" /\ k > 1 => stack[k - 1].step # "round"
           /\ Top.step # "round" /\ k > 1 => stack[k - 1].step # "shutdown"
<1>1. k \in Nat \ {0} /\ k - 1 \in Nat /\ DOMAIN stack = 1..k /\ Top = stack[k]
  BY TopFacts DEF ToldInv, HandlerInv
<1>2. k > 1 => k - 1 \in DOMAIN stack /\ k - 1 + 1 = k /\ k - 1 # k
  BY <1>1
<1>3. ASSUME k > 1, stack[k - 1].step = "round" PROVE Top.step = "code"
  BY <1>1, <1>2, <1>3 DEF ToldInv, RoundsInv, RoundsCode
<1>4. ASSUME k > 1, stack[k - 1].step = "shutdown" PROVE Top.step = "round"
  <2>1. Telling(heard, map, stack[k - 1].plugin, stack[k - 1 + 1])
    BY <1>1, <1>2, <1>4 DEF ToldInv, HeardInv, GoingTold
  <2> QED  BY <1>1, <1>2, <1>4, <2>1 DEF Telling
<1>5. stack \in Seq(Frame)
  BY DEF ToldInv, HandlerInv, ShapeInv
<1> QED  BY <1>1, <1>3, <1>4, <1>5

-----------------------------------------------------------------------------
(* Steps that call, return, and unload what is no longer listed.            *)

\* Frames that a quiet step may add.
LeavesNobody(f) == f.step \notin {"shutdown", "round"}

LEMMA QuietPush ==
    ASSUME ToldInv, NEW f \in Frame, Push(f), LeavesNobody(f),
           stack = <<>> \/ LeavesNobody(Top), UNCHANGED <<list, map, heard>>
    PROVE  Quiet(Len(stack))
<1> DEFINE n == Len(stack)
<1>1. /\ stack' \in Seq(Frame) /\ Len(stack') = n + 1
      /\ DOMAIN stack' = 1..(n + 1) /\ Same(n) /\ stack'[n + 1] = f
  BY Pushed DEF ToldInv, HandlerInv
<1>2. n \in Nat /\ (n > 0 => stack # <<>> /\ Top = stack[n])
  BY DEF ToldInv, HandlerInv, ShapeInv, Top, Last
<1>3. \A i \in DOMAIN stack' : i > n => i = n + 1
  BY <1>1, <1>2
<1>4. n \in 0..Len(stack) /\ n <= Len(stack')
  BY <1>1, <1>2
<1> HIDE DEF n
<1> QED  BY <1>1, <1>2, <1>3, <1>4 DEF Quiet, Same, Still, LeavesNobody, n

LEMMA QuietPush2 ==
    ASSUME ToldInv, NEW f \in Frame, NEW g \in Frame, stack' = stack \o <<f, g>>,
           LeavesNobody(f), LeavesNobody(g),
           stack = <<>> \/ LeavesNobody(Top), UNCHANGED <<list, map, heard>>
    PROVE  Quiet(Len(stack))
<1> DEFINE n == Len(stack)
<1>1. /\ stack' \in Seq(Frame) /\ Len(stack') = n + 2
      /\ DOMAIN stack' = 1..(n + 2) /\ Same(n) /\ stack'[n + 1] = f /\ stack'[n + 2] = g
  BY Pushed2 DEF ToldInv, HandlerInv
<1>2. n \in Nat /\ (n > 0 => stack # <<>> /\ Top = stack[n])
  BY DEF ToldInv, HandlerInv, ShapeInv, Top, Last
<1>3. \A i \in DOMAIN stack' : i > n => i = n + 1 \/ i = n + 2
  BY <1>1, <1>2
<1>4. n \in 0..Len(stack) /\ n <= Len(stack')
  BY <1>1, <1>2
<1> HIDE DEF n
<1> QED  BY <1>1, <1>2, <1>3, <1>4 DEF Quiet, Same, Still, LeavesNobody, n

LEMMA QuietPop ==
    ASSUME ToldInv, stack # <<>>, stack' = Below, Top.step # "round",
           UNCHANGED <<list, map, heard>>
    PROVE  Quiet(Len(stack) - 1)
<1> DEFINE k == Len(stack)
           n == k - 1
<1>1. /\ stack' \in Seq(Frame) /\ Len(stack') = n /\ DOMAIN stack' = 1..n /\ Same(n)
  BY Popped DEF ToldInv, HandlerInv
<1>2. k \in Nat \ {0} /\ n \in Nat /\ (k > 1 => stack[n].step # "shutdown")
  BY UnderTop
<1>3. n \in 0..Len(stack) /\ n <= Len(stack') /\ (n > 0 => k > 1) /\ ~(n < Len(stack'))
  BY <1>1, <1>2
<1>4. \A i \in DOMAIN stack' : ~(i > n)
  BY <1>1, <1>2
<1> HIDE DEF n, k
<1> QED  BY <1>1, <1>2, <1>3, <1>4 DEF Quiet, Same, Still, n, k

\* No call is left of those before.
LEMMA QuietAnew ==
    ASSUME ToldInv, stack' \in Seq(Frame), UNCHANGED <<list, map, heard>>,
           \A i \in DOMAIN stack' : LeavesNobody(stack'[i])
    PROVE  Quiet(0)
<1>1. Len(stack) \in Nat /\ Len(stack') \in Nat /\ 1..0 = {}
  BY DEF ToldInv, HandlerInv, ShapeInv
<1> QED  BY <1>1 DEF Quiet, Still, LeavesNobody

\* The calls go on as they are, whatever is left for them to do.
Calm(b) == /\ Like(b)
           /\ \A i \in 1..Len(stack) : stack[i].step = "round" => b[i] = stack[i]

LEMMA QuietCalm ==
    ASSUME ToldInv, Calm(stack'), stack = <<>> \/ LeavesNobody(Top),
           UNCHANGED <<list, map, heard>>
    PROVE  Quiet(Len(stack))
<1> DEFINE n == Len(stack)
<1>1. /\ n \in Nat /\ (n > 0 => stack # <<>> /\ Top = stack[n])
      /\ stack' \in Seq(Frame) /\ Len(stack') = n /\ DOMAIN stack' = 1..n
  BY DEF ToldInv, HandlerInv, ShapeInv, Top, Last, Calm, Like
<1>2. Still(n)
  BY DEF Calm, Like, Still
<1>3. n \in 0..n /\ n <= n /\ ~(n < n) /\ \A i \in DOMAIN stack' : ~(i > n)
  BY <1>1
<1>4. n > 0 => stack[n].step # "shutdown"
  BY <1>1 DEF LeavesNobody
<1> HIDE DEF n
<1> QED  BY <1>1, <1>2, <1>3, <1>4 DEF Quiet, n

LEMMA QuietOn2 ==
    ASSUME ToldInv, NEW b, Calm(b), NEW f \in Frame, NEW g \in Frame,
           stack' = b \o <<f, g>>, LeavesNobody(f), LeavesNobody(g),
           stack = <<>> \/ LeavesNobody(Top), UNCHANGED <<list, map, heard>>
    PROVE  Quiet(Len(stack))
<1> DEFINE n == Len(stack)
<1>1. /\ stack' \in Seq(Frame) /\ Len(stack') = n + 2
      /\ DOMAIN stack' = 1..(n + 2) /\ stack'[n + 1] = f /\ stack'[n + 2] = g
      /\ \A i \in 1..n : stack'[i] = b[i]
  BY PushedOn DEF ToldInv, HandlerInv, Calm
<1>2. n \in Nat /\ (n > 0 => stack # <<>> /\ Top = stack[n])
  BY DEF ToldInv, HandlerInv, ShapeInv, Top, Last
<1>3. Still(n)
  BY <1>1 DEF Calm, Like, Still
<1>4. \A i \in DOMAIN stack' : i > n => i = n + 1 \/ i = n + 2
  BY <1>1, <1>2
<1>5. n \in 0..Len(stack) /\ n <= Len(stack')
  BY <1>1, <1>2
<1> HIDE DEF n
<1> QED  BY <1>1, <1>2, <1>3, <1>4, <1>5 DEF Quiet, LeavesNobody, n

LEMMA ReturnTold == ToldInv /\ Return /\ HandlerInv' => ToldInv'
<1> SUFFICES ASSUME ToldInv, Return, HandlerInv' PROVE ToldInv'
  OBVIOUS
<1>1. /\ stack # <<>> /\ Top.step # "round" /\ stack' = Below
      /\ UNCHANGED <<list, map, handles, heard>>
  BY DEF Return, Step, registry
<1> QED  BY <1>1, QuietPop, QuietInv

LEMMA UnloadFreedTold == ToldInv /\ UnloadFreed /\ HandlerInv' => ToldInv'
<1> SUFFICES ASSUME ToldInv, UnloadFreed, HandlerInv' PROVE ToldInv'
  OBVIOUS
<1>1. /\ stack # <<>> /\ Top.step # "round" /\ stack' = Below
      /\ UNCHANGED <<list, map, handles, heard>>
  BY DEF UnloadFreed, Step
<1> QED  BY <1>1, QuietPop, QuietInv

LEMMA CallingTop == Calling => stack = <<>> \/ LeavesNobody(Top)
  BY DEF Calling, LeavesNobody

LEMMA DoCommandTold ==
    ASSUME ToldInv, HandlerInv', NEW c \in Commands, DoCommand(c) PROVE ToldInv'
<1> DEFINE f == Code(commands[c])
<1>1. /\ Calling /\ c \in DOMAIN commands /\ Push(f)
      /\ UNCHANGED <<list, map, handles, heard>>
  BY DEF DoCommand, registry
<1>2. commands[c] \in Reach
  BY <1>1 DEF ToldInv, HandlerInv, MappedInv, TablesIn
<1>3. commands[c] \in Plugin
  BY <1>2, ReachPlugins DEF ToldInv
<1>4. f \in Frame /\ LeavesNobody(f)
  BY <1>3, CodeFrame DEF LeavesNobody
<1> HIDE DEF f
<1> QED  BY <1>1, <1>4, CallingTop, QuietPush, QuietInv

LEMMA ReceiveTold ==
    ASSUME ToldInv, HandlerInv', NEW p \in Plugin, Receive(p) PROVE ToldInv'
<1> DEFINE f == Code(p)
<1>1. stack = <<>> /\ Push(f) /\ UNCHANGED <<list, map, handles, heard>>
  BY DEF Receive, registry
<1>2. f \in Frame /\ LeavesNobody(f)
  BY CodeFrame DEF LeavesNobody
<1> HIDE DEF f
<1> QED  BY <1>1, <1>2, QuietPush, QuietInv

LEMMA ShutdownPluginsTold == ToldInv /\ ShutdownPlugins /\ HandlerInv' => ToldInv'
<1> SUFFICES ASSUME ToldInv, ShutdownPlugins, HandlerInv' PROVE ToldInv'
  OBVIOUS
<1> DEFINE f == Call("unloadAll", Main)
<1>1. stack = <<>> /\ Push(f) /\ UNCHANGED <<list, map, handles, heard>>
  BY DEF ShutdownPlugins, registry
<1>2. f \in Frame /\ LeavesNobody(f)
  BY CallFrame DEF LeavesNobody, Steps
<1> HIDE DEF f
<1> QED  BY <1>1, <1>2, QuietPush, QuietInv

\* The new plugin's number is larger than those that were told of anything.
LEMMA LoadPluginTold ==
    ASSUME ToldInv, HandlerInv', NEW n \in Names, LoadPlugin(n) PROVE ToldInv'
<1> DEFINE p == last + 1
           f == Call("add", p)
           g == Code(p)
<1>1. /\ Calling /\ stack' = stack \o <<f, g>> /\ handles' = handles \cup {p}
      /\ last < MaxPlugin /\ UNCHANGED <<list, map, heard>>
  BY DEF LoadPlugin
<1>2. last \in 0..MaxPlugin /\ heard \subseteq [who : 1..last, of : 1..last]
  BY DEF ToldInv, HandlerInv, ShapeInv, TypeOK
<1>3. p \in Plugin /\ p \notin 1..last
  BY <1>1, <1>2, HandlerAssumption DEF Plugin
<1>4. f \in Frame /\ g \in Frame /\ LeavesNobody(f) /\ LeavesNobody(g)
  BY <1>3, CallFrame, CodeFrame DEF LeavesNobody, Steps
<1>5. NotAdding'
  <2>1. \A h \in heard : h.who \in 1..last
    BY <1>2
  <2> HIDE DEF p
  <2> QED  BY <1>1, <1>3, <2>1 DEF NotAdding, ToldInv, HeardInv
<1> HIDE DEF f, g
<1>6. Quiet(Len(stack))
  BY <1>1, <1>4, CallingTop, QuietPush2
<1> QED  BY <1>5, <1>6, QuietRounds, QuietHeard DEF ToldInv

-----------------------------------------------------------------------------
(* The places of rounds in the list.                                        *)

\* A new round.
LEMMA NewRound ==
    ASSUME HandlerInv, NEW t \in Tells, NEW p \in Plugin \cup {Main}
    PROVE  /\ Round(t, p) \in Frame /\ Round(t, p).step = "round"
           /\ Round(t, p).tell = t /\ Round(t, p).plugin = p
           /\ InPlace(list, Round(t, p))
           /\ Round(t, p).due = map /\ Round(t, p).seen = {}
<1> DEFINE f == Round(t, p)
<1>1. /\ f.at = Head1 /\ f.called = FALSE /\ f.due = ToSet(list) /\ f.seen = {}
  BY DEF Round, Call
<1>2. /\ f \in Frame /\ f.step = "round" /\ f.tell = t /\ f.plugin = p
      /\ f.at \in ToSet(list) \cup {Main}
  <2>1. list \in Seq(1..last) /\ last \in 0..MaxPlugin
    BY ListFacts
  <2> QED  BY <2>1, RoundFrame
<1> HIDE DEF f
<1>3. ASSUME f.at = Main PROVE f.due \subseteq f.seen
  <2>1. list = <<>>
    <3>1. CASE list # <<>>
      <4>1. 1 \in DOMAIN list
        BY <3>1, ListFacts
      <4> QED  BY <1>1, <1>3, <3>1, <4>1, ListFacts DEF Head1
    <3> QED  BY <3>1
  <2>2. ToSet(list) = {}
    BY <2>1 DEF ToSet
  <2> QED  BY <1>1, <2>2
<1>4. ASSUME NEW i \in DOMAIN list, NEW j \in DOMAIN list, list[i] = f.at, j < i
      PROVE  FALSE
  <2>1. list # <<>> /\ 1 \in DOMAIN list
    BY <1>4, ListFacts
  <2>2. list[1] = list[i]
    BY <1>1, <1>4, <2>1 DEF Head1
  <2>3. i = 1
    BY <1>4, <2>1, <2>2, ListFacts DEF Distinct
  <2> QED  BY <1>4, <2>3, ListFacts
<1>5. InPlace(list, f)
  BY <1>1, <1>2, <1>3, <1>4 DEF InPlace
<1> QED  BY <1>1, <1>2, <1>5, ListFacts DEF f

\* A round that calls the plugin at its place.
LEMMA CalledPlace ==
    ASSUME HandlerInv, NEW f, NEW g, InPlace(list, f), f.at # Main,
           g.at = f.at, g.due = f.due, g.called = TRUE, g.seen = f.seen \cup {f.at}
    PROVE  InPlace(list, g)
<1>1. Distinct(list)
  BY ListFacts
<1>2. /\ g.at \in ToSet(list) \cup {Main} /\ g.due \subseteq ToSet(list)
      /\ g.at # Main /\ Main \notin g.seen
  BY DEF InPlace
<1>3. ASSUME NEW i \in DOMAIN list, NEW j \in DOMAIN list, list[i] = g.at
      PROVE  /\ i = j => (g.called <=> list[j] \in g.seen)
             /\ j < i /\ list[j] \in g.due => list[j] \in g.seen
             /\ i < j => list[j] \notin g.seen
  <2>1. i < j => list[j] # f.at
    <3>1. i \in Nat /\ j \in Nat
      BY ListFacts
    <3> QED  BY <1>1, <1>3, <3>1 DEF Distinct
  <2> QED  BY <1>3, <2>1 DEF InPlace
<1> QED  BY <1>2, <1>3 DEF InPlace

\* One that goes on to the next.
LEMMA NextPlace ==
    ASSUME HandlerInv, NEW f, NEW g, InPlace(list, f), f.called = TRUE,
           g.at = After(f.at), g.due = f.due, g.called = FALSE, g.seen = f.seen
    PROVE  InPlace(list, g)
<1> DEFINE i == Place(f.at)
<1>1. f.at \in ToSet(list)
  BY DEF InPlace
<1>2. i \in DOMAIN list /\ list[i] = f.at
  <2>1. \E m \in DOMAIN list : list[m] = f.at
    BY <1>1 DEF ToSet
  <2> QED  BY <2>1 DEF Place
<1>3. /\ Distinct(list) /\ Len(list) \in Nat /\ DOMAIN list = 1..Len(list)
      /\ \A m \in DOMAIN list : list[m] \in ToSet(list) /\ list[m] # Main
  BY ListFacts
<1>4. g.at = IF i < Len(list) THEN list[i + 1] ELSE Main
  BY <1>1 DEF After
<1>5. /\ f.due \subseteq ToSet(list) /\ Main \notin f.seen /\ list[i] \in f.seen
      /\ \A j \in DOMAIN list : j < i /\ list[j] \in f.due => list[j] \in f.seen
      /\ \A j \in DOMAIN list : i < j => list[j] \notin f.seen
  BY <1>2 DEF InPlace
<1> HIDE DEF i
<1>6. CASE i < Len(list)
  <2>1. i + 1 \in DOMAIN list /\ g.at = list[i + 1] /\ i < i + 1
    BY <1>2, <1>3, <1>4, <1>6
  <2>2. ASSUME NEW m \in DOMAIN list, NEW j \in DOMAIN list, list[m] = g.at
        PROVE  /\ m = j => (g.called <=> list[j] \in g.seen)
               /\ j < m /\ list[j] \in g.due => list[j] \in g.seen
               /\ m < j => list[j] \notin g.seen
    <3>1. m = i + 1
      BY <1>3, <2>1, <2>2 DEF Distinct
    <3>2. m = j => list[j] \notin f.seen
      BY <1>5, <2>1, <3>1
    <3>3. j < m => j < i \/ j = i
      BY <1>2, <1>3, <3>1
    <3>4. j < m /\ list[j] \in f.due => list[j] \in f.seen
      BY <1>5, <3>3
    <3>5. m < j => i < j
      BY <1>2, <1>3, <3>1
    <3> QED  BY <1>5, <3>2, <3>4, <3>5
  <2>3. g.at \in ToSet(list) /\ g.at # Main
    BY <1>3, <2>1
  <2> QED  BY <1>5, <2>2, <2>3 DEF InPlace
<1>7. CASE ~(i < Len(list))
  <2>1. g.at = Main
    BY <1>4, <1>7
  <2>2. ASSUME NEW q \in f.due PROVE q \in f.seen
    <3>1. PICK j \in DOMAIN list : list[j] = q
      BY <1>5, <2>2 DEF ToSet
    <3>2. j < i \/ j = i
      BY <1>2, <1>3, <1>7
    <3> QED  BY <1>5, <2>2, <3>1, <3>2
  <2> QED  BY <1>3, <1>5, <2>1, <2>2 DEF InPlace
<1> QED  BY <1>6, <1>7

\* A plugin in front of the list, where no round will come.
LEMMA PrependedPlace ==
    ASSUME HandlerInv, NEW f, InPlace(list, f), f.at # Main,
           NEW p \in 1..last, p \notin map, list' = <<p>> \o list
    PROVE  InPlace(list', f)
<1>1. /\ list \in Seq(1..last) /\ map = ToSet(list) /\ Main \notin map
      /\ Len(list) \in Nat /\ DOMAIN list = 1..Len(list)
  BY ListFacts
<1> DEFINE l == <<p>> \o list
<1>2. /\ DOMAIN l = 1..(Len(list) + 1) /\ l[1] = p
      /\ \A k \in 1..(Len(list) + 1) :
             k # 1 => k - 1 \in 1..Len(list) /\ l[k] = list[k - 1]
  BY <1>1, PrependPlaces
<1>3. ToSet(l) = ToSet(list) \cup {p}
  <2>1. list \in Seq(1..last) /\ p \in 1..last
    BY <1>1
  <2> HIDE DEF l
  <2>2. /\ <<p>> \o list \in Seq(1..last)
        /\ ToSet(<<p>> \o list) = ToSet(list) \cup {p}
        /\ Distinct(list) /\ p \notin ToSet(list) => Distinct(<<p>> \o list)
    BY <2>1, PrependElements, Zenon
  <2> QED  BY <2>2 DEF l
<1>4. l = list'
  OBVIOUS
<1> HIDE DEF l
<1>5. /\ f.at \in ToSet(l) /\ f.due \subseteq ToSet(l) /\ Main \notin f.seen
      /\ f.at # p /\ p \notin f.due
  BY <1>1, <1>3 DEF InPlace
<1>6. ASSUME NEW i \in DOMAIN l, NEW j \in DOMAIN l, l[i] = f.at
      PROVE  /\ i = j => (f.called <=> l[j] \in f.seen)
             /\ j < i /\ l[j] \in f.due => l[j] \in f.seen
             /\ i < j => l[j] \notin f.seen
  <2>1. i # 1 /\ i - 1 \in DOMAIN list /\ list[i - 1] = f.at
    BY <1>1, <1>2, <1>5, <1>6
  <2>2. CASE j = 1
    BY <1>2, <1>5, <2>1, <2>2
  <2>3. CASE j # 1
    <3>1. j - 1 \in DOMAIN list /\ l[j] = list[j - 1]
      BY <1>1, <1>2, <2>3
    <3>2. /\ i = j => i - 1 = j - 1
          /\ j < i => j - 1 < i - 1
          /\ i < j => i - 1 < j - 1
      BY <1>2
    <3> QED  BY <2>1, <3>1, <3>2 DEF InPlace
  <2> QED  BY <2>2, <2>3
<1> QED  BY <1>4, <1>5, <1>6 DEF InPlace

\* One taken out of it, where no round is.
LEMMA RemovedPlace ==
    ASSUME HandlerInv, NEW f, NEW g, InPlace(list, f), f.at # Main,
           NEW p \in map, p # f.at, list' = RemoveAt(list, Place(p)),
           g.at = f.at, g.called = f.called, g.seen = f.seen, g.due = f.due \ {p}
    PROVE  InPlace(list', g)
<1>1. /\ list \in Seq(1..last) /\ map = ToSet(list) /\ Distinct(list)
      /\ Len(list) \in Nat /\ DOMAIN list = 1..Len(list)
  BY ListFacts
<1>2. PICK i : i = Place(p)
  OBVIOUS
<1>3. i \in DOMAIN list /\ list[i] = p
  <2>1. \E m \in DOMAIN list : list[m] = p
    BY <1>1 DEF ToSet
  <2> QED  BY <1>2, <2>1 DEF Place
<1> DEFINE l == RemoveAt(list, i)
           From(k) == IF k < i THEN k ELSE k + 1
<1>4. /\ DOMAIN l = 1..(Len(list) - 1)
      /\ \A k \in 1..(Len(list) - 1) :
                From(k) \in 1..Len(list) /\ From(k) # i /\ l[k] = list[From(k)]
  <2>1. list \in Seq(1..last) /\ i \in DOMAIN list
    BY <1>1, <1>3
  <2>2. /\ DOMAIN RemoveAt(list, i) = 1..(Len(list) - 1)
        /\ \A k \in 1..(Len(list) - 1) :
               LET m == IF k < i THEN k ELSE k + 1
               IN  m \in 1..Len(list) /\ m # i /\ RemoveAt(list, i)[k] = list[m]
    BY <2>1, RemovePlaces
  <2> QED  BY <2>2
<1>5. ToSet(l) = ToSet(list) \ {p}
  BY <1>1, <1>3, RemoveElement
<1>6. l = list'
  BY <1>2
<1> HIDE DEF l
<1>7. /\ g.at \in ToSet(l) /\ g.due \subseteq ToSet(l) /\ Main \notin g.seen /\ g.at # Main
  BY <1>5 DEF InPlace
<1>8. ASSUME NEW a \in DOMAIN l, NEW b \in DOMAIN l, l[a] = g.at
      PROVE  /\ a = b => (g.called <=> l[b] \in g.seen)
             /\ b < a /\ l[b] \in g.due => l[b] \in g.seen
             /\ a < b => l[b] \notin g.seen
  <2>1. /\ From(a) \in DOMAIN list /\ list[From(a)] = f.at
        /\ From(b) \in DOMAIN list /\ l[b] = list[From(b)]
    BY <1>1, <1>4, <1>8
  <2>2. /\ a = b => From(a) = From(b)
        /\ b < a => From(b) < From(a)
        /\ a < b => From(a) < From(b)
    <3>1. a \in Nat /\ b \in Nat /\ i \in Nat
      BY <1>1, <1>3, <1>4
    <3> QED  BY <3>1
  <2> HIDE DEF From
  <2> QED  BY <2>1, <2>2 DEF InPlace
<1> QED  BY <1>6, <1>7, <1>8 DEF InPlace

-----------------------------------------------------------------------------
(* The calls below the innermost one.                                       *)

\* A round below has called the plugin at its place, which its code holds.
LEMMA RoundBelow ==
    ASSUME ToldInv, stack # <<>>, NEW i \in 1..(Len(stack) - 1), stack[i].step = "round"
    PROVE  /\ InPlace(list, stack[i]) /\ stack[i].called /\ stack[i].at # Main
           /\ i + 1 \in DOMAIN stack
           /\ stack[i + 1].step = "code" /\ stack[i + 1].plugin = stack[i].at
<1>1. Len(stack) \in Nat \ {0} /\ DOMAIN stack = 1..Len(stack)
  BY UnderTop
<1>2. i \in DOMAIN stack /\ i + 1 \in DOMAIN stack /\ i # Len(stack)
  <2>1. PICK k : k = Len(stack) /\ i \in 1..(k - 1)
    OBVIOUS
  <2>2. k \in Nat /\ DOMAIN stack = 1..k
    BY <1>1, <2>1
  <2>3. i \in 1..k /\ i + 1 \in 1..k /\ i # k
    BY <2>1, <2>2
  <2> QED  BY <2>1, <2>2, <2>3
<1>3. InPlace(list, stack[i])
  BY <1>2 DEF ToldInv, RoundsInv, RoundsPlaced
<1>4. stack[i].called
  BY <1>2 DEF ToldInv, HandlerInv, NestInv, RoundsCalled
<1>5. stack[i].at # Main
  BY <1>3, <1>4 DEF InPlace
<1>6. stack[i + 1].step = "code" /\ stack[i + 1].plugin = stack[i].at
  BY <1>2 DEF ToldInv, RoundsInv, RoundsCode
<1> QED  BY <1>2, <1>3, <1>4, <1>5, <1>6

\* The step ends the innermost call, the k-th, or goes on with it.
OnlyTop(k) ==
    /\ stack # <<>> /\ k = Len(stack)
    /\ stack' \in Seq(Frame) /\ k - 1 <= Len(stack') /\ Kept(k - 1)

LEMMA CodeKept ==
    ASSUME ToldInv, NEW k, OnlyTop(k), Top.step # "code",
           \A i \in DOMAIN stack' :
                i >= k /\ stack'[i].step = "round" /\ i + 1 \in DOMAIN stack' =>
                    /\ stack'[i + 1].step = "code"
                    /\ stack'[i + 1].plugin = stack'[i].at
    PROVE  RoundsCode'
<1>1. /\ k \in Nat \ {0} /\ DOMAIN stack = 1..k
      /\ (k > 1 => stack[k - 1].step # "round")
      /\ Len(stack') \in Nat /\ DOMAIN stack' = 1..Len(stack')
  BY UnderTop DEF OnlyTop
<1>2. ASSUME NEW i \in DOMAIN stack', stack'[i].step = "round", i + 1 \in DOMAIN stack'
      PROVE  stack'[i + 1].step = "code" /\ stack'[i + 1].plugin = stack'[i].at
  <2>1. CASE i >= k
    BY <1>2, <2>1
  <2>2. CASE ~(i >= k)
    <3>1. i \in 1..(k - 1)
      BY <1>1, <2>2
    <3>2. stack[i].step = "round" /\ stack'[i].at = stack[i].at
      BY <1>2, <3>1 DEF OnlyTop, Kept
    <3>3. i # k - 1
      BY <1>1, <3>1, <3>2
    <3>4. i + 1 \in 1..(k - 1) /\ i \in DOMAIN stack /\ i + 1 \in DOMAIN stack
      BY <1>1, <3>1, <3>3
    <3>5. stack[i + 1].step = "code" /\ stack[i + 1].plugin = stack[i].at
      BY <3>2, <3>4 DEF ToldInv, RoundsInv, RoundsCode
    <3> QED  BY <3>2, <3>4, <3>5 DEF OnlyTop, Kept
  <2> QED  BY <2>1, <2>2
<1> QED  BY <1>2 DEF RoundsCode

\* Who was told of a leaving plugin, and still is listed, was before.
ToldAmong(p) ==
    \A h \in heard' : h.of = p /\ h.who \in map' => h \in heard /\ h.who \in map

LEMMA GoingKept ==
    ASSUME ToldInv, NEW k, OnlyTop(k),
           \A i \in 1..(k - 1) : stack[i].step = "shutdown" => ToldAmong(stack[i].plugin),
           \A i \in 1..(k - 1) : \A q \in map' :
                q \in stack[i].due \ stack[i].seen => q \in stack'[i].due \ stack'[i].seen,
           k > 1 /\ stack[k - 1].step = "shutdown" =>
                IF k - 1 = Len(stack')
                THEN \A h \in heard' : h.of = stack[k - 1].plugin => h.who \notin map'
                ELSE Telling(heard', map', stack[k - 1].plugin, stack'[k]),
           \A i \in DOMAIN stack' : i >= k => stack'[i].step # "shutdown"
    PROVE  GoingTold'
<1>1. /\ k \in Nat \ {0} /\ DOMAIN stack = 1..k
      /\ Len(stack') \in Nat /\ DOMAIN stack' = 1..Len(stack')
  BY UnderTop DEF OnlyTop
<1>2. ASSUME NEW i \in DOMAIN stack', stack'[i].step = "shutdown"
      PROVE  IF i = Len(stack')
             THEN \A h \in heard' : h.of = stack'[i].plugin => h.who \notin map'
             ELSE Telling(heard', map', stack'[i].plugin, stack'[i + 1])
  <2>1. i \in 1..(k - 1)
    BY <1>1, <1>2
  <2>2. stack[i].step = "shutdown" /\ stack'[i].plugin = stack[i].plugin
    BY <1>2, <2>1 DEF OnlyTop, Kept
  <2>3. CASE i = k - 1
    <3>1. k > 1 /\ i + 1 = k
      BY <1>1, <2>1, <2>3
    <3> QED  BY <2>2, <2>3, <3>1
  <2>4. CASE i # k - 1
    <3>1. i + 1 \in 1..(k - 1) /\ i # Len(stack) /\ i # Len(stack') /\ i \in DOMAIN stack
      BY <1>1, <2>1, <2>4 DEF OnlyTop
    <3>2. Telling(heard, map, stack[i].plugin, stack[i + 1])
      BY <2>2, <3>1 DEF ToldInv, HeardInv, GoingTold
    <3>3. ToldAmong(stack[i].plugin)
      BY <2>1, <2>2
    <3>4. \A q \in map' : q \in stack[i + 1].due \ stack[i + 1].seen =>
                            q \in stack'[i + 1].due \ stack'[i + 1].seen
      BY <3>1
    <3>5. /\ stack'[i + 1].step = stack[i + 1].step
          /\ stack'[i + 1].plugin = stack[i + 1].plugin
          /\ stack'[i + 1].tell = stack[i + 1].tell
      BY <3>1 DEF OnlyTop, Kept
    <3>6. Telling(heard', map', stack[i].plugin, stack'[i + 1])
      BY <3>2, <3>3, <3>4, <3>5 DEF Telling, ToldAmong
    <3> QED  BY <2>2, <3>1, <3>6
  <2> QED  BY <2>3, <2>4
<1> QED  BY <1>2 DEF GoingTold

LEMMA LoadsKept ==
    ASSUME ToldInv, NEW k, OnlyTop(k),
           \A i \in 1..(k - 1) : stack[i].plugin \in map => stack[i].plugin \in map',
           \A i \in DOMAIN stack' :
                i >= k /\ stack'[i].step = "round" /\ stack'[i].tell = "LoadPlugin" =>
                    /\ stack'[i].plugin \in map'
                    /\ i = k
                    /\ \A j \in 1..(k - 1) : stack[j].plugin # stack'[i].plugin
    PROVE  LoadRounds'
<1>1. /\ k \in Nat \ {0} /\ DOMAIN stack = 1..k
      /\ Len(stack') \in Nat /\ DOMAIN stack' = 1..Len(stack')
  BY UnderTop DEF OnlyTop
<1>2. \A j \in 1..(k - 1) : stack'[j].plugin = stack[j].plugin
  BY DEF OnlyTop, Kept
<1>3. ASSUME NEW i \in DOMAIN stack', stack'[i].step = "round",
             stack'[i].tell = "LoadPlugin"
      PROVE  /\ stack'[i].plugin \in map'
             /\ \A j \in 1..(i - 1) : stack'[j].plugin # stack'[i].plugin
  <2>1. CASE i >= k
    BY <1>2, <1>3, <2>1
  <2>2. CASE ~(i >= k)
    <3>1. i \in 1..(k - 1) /\ i \in DOMAIN stack /\ \A j \in 1..(i - 1) : j \in 1..(k - 1)
      BY <1>1, <2>2
    <3>2. stack[i].step = "round" /\ stack[i].tell = "LoadPlugin"
      BY <1>3, <3>1 DEF OnlyTop, Kept
    <3>3. /\ stack[i].plugin \in map
          /\ \A j \in 1..(i - 1) : stack[j].plugin # stack[i].plugin
      BY <3>1, <3>2 DEF ToldInv, HeardInv, LoadRounds
    <3> QED  BY <1>2, <3>1, <3>3
  <2> QED  BY <2>1, <2>2
<1> QED  BY <1>3 DEF LoadRounds

-----------------------------------------------------------------------------
(* The steps of a round.                                                    *)

LEMMA RoundCallTold == ToldInv /\ RoundCall /\ HandlerInv' => ToldInv'
<1> SUFFICES ASSUME ToldInv, RoundCall, HandlerInv' PROVE ToldInv'
  OBVIOUS
<1>0. PICK k, q, p : k = Len(stack) /\ q = Top.at /\ p = Top.plugin
  OBVIOUS
<1> DEFINE f == [Top EXCEPT !.called = TRUE, !.seen = @ \cup {Top.at}]
           g == Code(Top.at)
<1>1. /\ stack # <<>> /\ Top.step = "round" /\ q # Main /\ ~Top.called
      /\ stack' = Below \o <<f, g>> /\ UNCHANGED <<list, map, handles>>
  BY <1>0 DEF RoundCall, Step, registry
<1>2. /\ k \in Nat \ {0} /\ k - 1 \in Nat /\ DOMAIN stack = 1..k /\ Top = stack[k]
      /\ (k > 1 => stack[k - 1].step # "round") /\ Top \in Frame /\ k \in DOMAIN stack
  BY <1>0, <1>1, UnderTop, TopFacts DEF ToldInv, HandlerInv
<1>3. q \in map /\ InPlace(list, Top)
  BY <1>0, <1>1, <1>2
     DEF ToldInv, HandlerInv, NestInv, RoundsCalled, RoundsInv, RoundsPlaced
<1>4. q \in Plugin
  BY <1>3, ListFacts, HandlerAssumption DEF ToldInv, HandlerInv, ShapeInv, TypeOK, Plugin
<1>5. /\ f \in Frame /\ f.step = "round" /\ f.plugin = p /\ f.tell = Top.tell
      /\ f.at = q /\ f.due = Top.due /\ f.called = TRUE /\ f.seen = Top.seen \cup {q}
  BY <1>0, <1>1, <1>2, <1>4 DEF Frame
<1>6. g \in Frame /\ g.step = "code" /\ g.plugin = q
  BY <1>0, <1>4, CodeFrame
<1> HIDE DEF f, g
<1>7. /\ stack' \in Seq(Frame) /\ Len(stack') = k + 1 /\ DOMAIN stack' = 1..(k + 1)
      /\ Same(k - 1) /\ Kept(k - 1) /\ stack'[k] = f /\ stack'[k + 1] = g
  BY <1>0, <1>1, <1>5, <1>6, Replaced2 DEF ToldInv, HandlerInv
<1>8. /\ k - 1 <= Len(stack') /\ k - 1 # Len(stack')
      /\ \A i \in DOMAIN stack' : i \in 1..(k - 1) \/ i = k \/ i = k + 1
      /\ \A i \in 1..(k - 1) : i \in DOMAIN stack /\ ~(i >= k)
  BY <1>2, <1>7
<1>top. OnlyTop(k)
  BY <1>0, <1>1, <1>7, <1>8 DEF OnlyTop
<1>9. RoundsPlaced'
  <2>1. InPlace(list, f)
    BY <1>0, <1>1, <1>3, <1>5, CalledPlace DEF ToldInv
  <2>2. ASSUME NEW i \in DOMAIN stack', stack'[i].step = "round"
        PROVE  InPlace(list, stack'[i])
    <3>1. CASE i \in 1..(k - 1)
      BY <1>7, <1>8, <2>2, <3>1 DEF Same, ToldInv, RoundsInv, RoundsPlaced
    <3>2. CASE i = k
      BY <1>7, <2>1, <3>2
    <3>3. CASE i = k + 1
      BY <1>6, <1>7, <2>2, <3>3
    <3> QED  BY <1>8, <3>1, <3>2, <3>3
  <2>3. list' = list
    BY <1>1
  <2> QED  BY <2>2, <2>3 DEF RoundsPlaced
<1>10. RoundsCode'
  <2>1. ASSUME NEW i \in DOMAIN stack', i >= k, stack'[i].step = "round",
               i + 1 \in DOMAIN stack'
        PROVE  stack'[i + 1].step = "code" /\ stack'[i + 1].plugin = stack'[i].at
    <3>1. i = k
      BY <1>2, <1>7, <2>1
    <3> QED  BY <1>5, <1>6, <1>7, <3>1
  <2>2. Top.step # "code"
    BY <1>1
  <2> QED  BY <1>top, <1>8, <2>1, <2>2, CodeKept
<1>11. heard' = CASE Top.tell = "LoadPlugin" -> heard \cup {[who |-> q, of |-> p]}
                  [] Top.tell = "UnloadPlugin" -> heard \ {[who |-> q, of |-> p]}
                  [] OTHER -> heard
  BY <1>0 DEF RoundCall
<1>12. /\ \A h \in heard' : h \in heard \/ (h.who = q /\ h.of = p /\ Top.tell = "LoadPlugin")
       /\ Top.tell = "LoadPlugin" =>
            p \in map /\ \A j \in 1..(k - 1) : stack[j].plugin # p
  <2>1. Top.tell = "LoadPlugin" =>
            p \in map /\ \A j \in 1..(k - 1) : stack[j].plugin # p
    BY <1>0, <1>1, <1>2 DEF ToldInv, HeardInv, LoadRounds
  <2> QED  BY <1>11, <2>1
<1>13. NotAdding' /\ ToldOfGoing'
  BY <1>1, <1>3, <1>12 DEF NotAdding, ToldOfGoing, ToldInv, HeardInv
<1>14. GoingTold'
  <2>1. \A i \in 1..(k - 1) : ToldAmong(stack[i].plugin)
    BY <1>1, <1>12 DEF ToldAmong
  <2>2. \A i \in 1..(k - 1) : \A r \in map' :
            r \in stack[i].due \ stack[i].seen => r \in stack'[i].due \ stack'[i].seen
    BY <1>7 DEF Same
  <2>3. ASSUME k > 1, stack[k - 1].step = "shutdown"
        PROVE  Telling(heard', map', stack[k - 1].plugin, stack'[k])
    <3>1. Telling(heard, map, stack[k - 1].plugin, Top)
      <4>1. k - 1 \in DOMAIN stack /\ k - 1 # Len(stack) /\ k - 1 + 1 = k
        BY <1>0, <1>2, <2>3
      <4> QED  BY <1>2, <2>3, <4>1 DEF ToldInv, HeardInv, GoingTold
    <3>2. Top.tell = "UnloadPlugin" /\ p = stack[k - 1].plugin
      BY <1>0, <3>1 DEF Telling
    <3>3. heard' = heard \ {[who |-> q, of |-> p]}
      BY <1>11, <3>2
    <3>4. ASSUME NEW h \in heard', h.of = p, h.who \in map
          PROVE  h \in heard /\ h.who # q
      <4>1. h \in heard /\ h # [who |-> q, of |-> p]
        BY <3>3, <3>4
      <4>2. h \in [who : 1..last, of : 1..last]
        BY <4>1 DEF ToldInv, HandlerInv, ShapeInv, TypeOK
      <4>3. h = [who |-> h.who, of |-> h.of]
        BY <4>2
      <4> QED  BY <3>4, <4>1, <4>3
    <3>5. map' = map /\ stack'[k] = f
      BY <1>1, <1>7
    <3> QED  BY <1>5, <3>1, <3>2, <3>4, <3>5 DEF Telling
  <2>4. \A i \in DOMAIN stack' : i >= k => stack'[i].step # "shutdown"
    BY <1>5, <1>6, <1>7, <1>8
  <2> QED  BY <1>top, <1>8, <2>1, <2>2, <2>3, <2>4, GoingKept
<1>15. LoadRounds'
  <2>1. ASSUME NEW i \in DOMAIN stack', i >= k, stack'[i].step = "round",
               stack'[i].tell = "LoadPlugin"
        PROVE  /\ stack'[i].plugin \in map' /\ i = k
               /\ \A j \in 1..(k - 1) : stack[j].plugin # stack'[i].plugin
    <3>1. i = k
      BY <1>6, <1>7, <1>8, <2>1
    <3> QED  BY <1>1, <1>5, <1>7, <1>12, <2>1, <3>1
  <2>2. \A i \in 1..(k - 1) : stack[i].plugin \in map => stack[i].plugin \in map'
    BY <1>1
  <2> QED  BY <1>top, <1>8, <2>1, <2>2, LoadsKept
<1> QED  BY <1>9, <1>10, <1>13, <1>14, <1>15 DEF ToldInv, RoundsInv, HeardInv

LEMMA RoundNextTold == ToldInv /\ RoundNext /\ HandlerInv' => ToldInv'
<1> SUFFICES ASSUME ToldInv, RoundNext, HandlerInv' PROVE ToldInv'
  OBVIOUS
<1>0. PICK k : k = Len(stack)
  OBVIOUS
<1> DEFINE f == [Top EXCEPT !.at = After(Top.at), !.called = FALSE]
<1>1. /\ stack # <<>> /\ Top.step = "round" /\ Top.called /\ stack' = Below \o <<f>>
      /\ UNCHANGED <<list, map, handles, heard>>
  BY DEF RoundNext, Step, registry
<1>2. /\ k \in Nat \ {0} /\ k - 1 \in Nat /\ DOMAIN stack = 1..k /\ Top = stack[k]
      /\ (k > 1 => stack[k - 1].step # "round") /\ Top \in Frame /\ k \in DOMAIN stack
  BY <1>0, <1>1, UnderTop, TopFacts DEF ToldInv, HandlerInv
<1>3. InPlace(list, Top)
  BY <1>1, <1>2 DEF ToldInv, RoundsInv, RoundsPlaced
<1>4. After(Top.at) \in Plugin \cup {Main}
  BY AfterFacts DEF ToldInv, HandlerInv
<1>5. /\ f \in Frame /\ f.step = "round" /\ f.plugin = Top.plugin /\ f.tell = Top.tell
      /\ f.at = After(Top.at) /\ f.due = Top.due /\ f.called = FALSE /\ f.seen = Top.seen
  BY <1>1, <1>2, <1>4 DEF Frame
<1> HIDE DEF f
<1>6. /\ stack' \in Seq(Frame) /\ Len(stack') = k /\ DOMAIN stack' = 1..k
      /\ Same(k - 1) /\ Kept(k - 1) /\ stack'[k] = f
  BY <1>0, <1>1, <1>5, Replaced DEF ToldInv, HandlerInv
<1>7. /\ k - 1 <= Len(stack') /\ k - 1 # Len(stack')
      /\ \A i \in DOMAIN stack' : i \in 1..(k - 1) \/ i = k
      /\ \A i \in 1..(k - 1) : i \in DOMAIN stack
      /\ k + 1 \notin DOMAIN stack' /\ \A i \in 1..(k - 1) : ~(i >= k)
  BY <1>2, <1>6
<1>top. OnlyTop(k)
  BY <1>0, <1>1, <1>6, <1>7 DEF OnlyTop
<1>8. RoundsPlaced'
  <2>1. InPlace(list, f)
    <3>1. Top.called = TRUE
      BY <1>1, <1>2 DEF Frame
    <3> QED  BY <1>3, <1>5, <3>1, NextPlace DEF ToldInv
  <2>2. ASSUME NEW i \in DOMAIN stack', stack'[i].step = "round"
        PROVE  InPlace(list, stack'[i])
    <3>1. CASE i \in 1..(k - 1)
      BY <1>6, <1>7, <2>2, <3>1 DEF Same, ToldInv, RoundsInv, RoundsPlaced
    <3>2. CASE i = k
      BY <1>6, <2>1, <3>2
    <3> QED  BY <1>7, <3>1, <3>2
  <2>3. list' = list
    BY <1>1
  <2> QED  BY <2>2, <2>3 DEF RoundsPlaced
<1>9. RoundsCode'
  <2>1. \A i \in DOMAIN stack' : i >= k => i = k /\ i + 1 \notin DOMAIN stack'
    BY <1>7
  <2>2. Top.step # "code"
    BY <1>1
  <2> QED  BY <1>top, <1>7, <2>1, <2>2, CodeKept
<1>10. NotAdding' /\ ToldOfGoing'
  BY <1>1 DEF NotAdding, ToldOfGoing, ToldInv, HeardInv
<1>11. GoingTold'
  <2>1. \A i \in 1..(k - 1) : ToldAmong(stack[i].plugin)
    BY <1>1 DEF ToldAmong
  <2>2. \A i \in 1..(k - 1) : \A r \in map' :
            r \in stack[i].due \ stack[i].seen => r \in stack'[i].due \ stack'[i].seen
    BY <1>6 DEF Same
  <2>3. ASSUME k > 1, stack[k - 1].step = "shutdown"
        PROVE  Telling(heard', map', stack[k - 1].plugin, stack'[k])
    <3>1. Telling(heard, map, stack[k - 1].plugin, Top)
      <4>1. k - 1 \in DOMAIN stack /\ k - 1 # Len(stack) /\ k - 1 + 1 = k
        BY <1>0, <1>2, <2>3
      <4> QED  BY <1>2, <2>3, <4>1 DEF ToldInv, HeardInv, GoingTold
    <3>2. map' = map /\ heard' = heard /\ stack'[k] = f
      BY <1>1, <1>6
    <3> QED  BY <1>5, <3>1, <3>2 DEF Telling
  <2>4. \A i \in DOMAIN stack' : i >= k => stack'[i].step # "shutdown"
    BY <1>5, <1>6, <1>7
  <2> QED  BY <1>top, <1>7, <2>1, <2>2, <2>3, <2>4, GoingKept
<1>12. LoadRounds'
  <2>1. ASSUME NEW i \in DOMAIN stack', i >= k, stack'[i].step = "round",
               stack'[i].tell = "LoadPlugin"
        PROVE  /\ stack'[i].plugin \in map' /\ i = k
               /\ \A j \in 1..(k - 1) : stack[j].plugin # stack'[i].plugin
    <3>1. i = k
      BY <1>7, <2>1
    <3>2. stack[k].tell = "LoadPlugin" /\ stack[k].step = "round"
      BY <1>1, <1>2, <1>5, <1>6, <2>1, <3>1
    <3>3. /\ stack[k].plugin \in map
          /\ \A j \in 1..(k - 1) : stack[j].plugin # stack[k].plugin
      BY <1>2, <3>2 DEF ToldInv, HeardInv, LoadRounds
    <3> QED  BY <1>1, <1>2, <1>5, <1>6, <3>1, <3>3
  <2>2. \A i \in 1..(k - 1) : stack[i].plugin \in map => stack[i].plugin \in map'
    BY <1>1
  <2> QED  BY <1>top, <1>7, <2>1, <2>2, LoadsKept
<1> QED  BY <1>8, <1>9, <1>10, <1>11, <1>12 DEF ToldInv, RoundsInv, HeardInv

\* A round that ends has called all it had to: who was told of the plugin that
\* leaves has been told that it does.
LEMMA RoundEndTold == ToldInv /\ RoundEnd /\ HandlerInv' => ToldInv'
<1> SUFFICES ASSUME ToldInv, RoundEnd, HandlerInv' PROVE ToldInv'
  OBVIOUS
<1>0. PICK k : k = Len(stack)
  OBVIOUS
<1>1. /\ stack # <<>> /\ Top.step = "round" /\ Top.at = Main /\ stack' = Below
      /\ UNCHANGED <<list, map, handles, heard>>
  BY DEF RoundEnd, Step, registry
<1>2. /\ k \in Nat \ {0} /\ k - 1 \in Nat /\ DOMAIN stack = 1..k /\ Top = stack[k]
      /\ k \in DOMAIN stack
  BY <1>0, <1>1, UnderTop
<1>3. InPlace(list, Top)
  BY <1>1, <1>2 DEF ToldInv, RoundsInv, RoundsPlaced
<1>4. Top.due \ Top.seen = {}
  BY <1>1, <1>3 DEF InPlace
<1>5. /\ stack' \in Seq(Frame) /\ Len(stack') = k - 1 /\ DOMAIN stack' = 1..(k - 1)
      /\ Same(k - 1) /\ Kept(k - 1)
  BY <1>0, <1>1, Popped DEF ToldInv, HandlerInv
<1>6. /\ k - 1 <= Len(stack')
      /\ \A i \in DOMAIN stack' : i \in 1..(k - 1) /\ i \in DOMAIN stack /\ ~(i >= k)
  BY <1>2, <1>5
<1>top. OnlyTop(k)
  BY <1>0, <1>1, <1>5, <1>6 DEF OnlyTop
<1>7. RoundsPlaced'
  <2>1. ASSUME NEW i \in DOMAIN stack', stack'[i].step = "round"
        PROVE  InPlace(list, stack'[i])
    BY <1>5, <1>6, <2>1 DEF Same, ToldInv, RoundsInv, RoundsPlaced
  <2>2. list' = list
    BY <1>1
  <2> QED  BY <2>1, <2>2 DEF RoundsPlaced
<1>8. RoundsCode'
  <2>1. Top.step # "code"
    BY <1>1
  <2> QED  BY <1>top, <1>5, <1>6, <2>1, CodeKept
<1>9. NotAdding' /\ ToldOfGoing'
  BY <1>1 DEF NotAdding, ToldOfGoing, ToldInv, HeardInv
<1>10. GoingTold'
  <2>1. \A i \in 1..(k - 1) : ToldAmong(stack[i].plugin)
    BY <1>1 DEF ToldAmong
  <2>2. \A i \in 1..(k - 1) : \A r \in map' :
            r \in stack[i].due \ stack[i].seen => r \in stack'[i].due \ stack'[i].seen
    BY <1>5 DEF Same
  <2>3. ASSUME k > 1, stack[k - 1].step = "shutdown"
        PROVE  \A h \in heard' : h.of = stack[k - 1].plugin => h.who \notin map'
    <3>1. Telling(heard, map, stack[k - 1].plugin, Top)
      <4>1. k - 1 \in DOMAIN stack /\ k - 1 # Len(stack) /\ k - 1 + 1 = k
        BY <1>0, <1>2, <2>3
      <4> QED  BY <1>2, <2>3, <4>1 DEF ToldInv, HeardInv, GoingTold
    <3> QED  BY <1>1, <1>4, <3>1 DEF Telling
  <2> QED  BY <1>top, <1>5, <1>6, <2>1, <2>2, <2>3, GoingKept
<1>11. LoadRounds'
  <2>1. \A i \in 1..(k - 1) : stack[i].plugin \in map => stack[i].plugin \in map'
    BY <1>1
  <2> QED  BY <1>top, <1>5, <1>6, <2>1, LoadsKept
<1> QED  BY <1>7, <1>8, <1>9, <1>10, <1>11 DEF ToldInv, RoundsInv, HeardInv

LEMMA PulsePluginsTold == ToldInv /\ PulsePlugins /\ HandlerInv' => ToldInv'
<1> SUFFICES ASSUME ToldInv, PulsePlugins, HandlerInv' PROVE ToldInv'
  OBVIOUS
<1> DEFINE f == Round("Pulse", Main)
<1>1. stack = <<>> /\ Push(f) /\ UNCHANGED <<list, map, handles, heard>>
  BY DEF PulsePlugins, registry
<1>2. f \in Frame /\ f.step = "round" /\ f.tell = "Pulse" /\ InPlace(list, f)
  BY NewRound DEF Tells, ToldInv
<1> HIDE DEF f
<1>4. /\ stack' \in Seq(Frame) /\ Len(stack') = Len(stack) + 1
      /\ DOMAIN stack' = 1..(Len(stack) + 1) /\ stack'[Len(stack) + 1] = f
  BY <1>1, <1>2, Pushed DEF ToldInv, HandlerInv
<1>5. Len(stack) = 0 /\ 1..0 = {} /\ 1..(0 + 1) = {1} /\ 0 + 1 = 1
  BY <1>1
<1>6. /\ Len(stack') = 1 /\ DOMAIN stack' = {1} /\ stack'[1] = f
  BY <1>4, <1>5
<1>7. Quiet(0)
  BY <1>1, <1>2, <1>4, <1>5, <1>6 DEF Quiet, Still
<1> QED  BY <1>1, <1>7, QuietInv

-----------------------------------------------------------------------------
(* The steps of a load.                                                     *)

\* No round below has the new plugin's place still to come: it is put in front.
LEMMA LoadListedTold == ToldInv /\ LoadListed /\ HandlerInv' => ToldInv'
<1> SUFFICES ASSUME ToldInv, LoadListed, HandlerInv' PROVE ToldInv'
  OBVIOUS
<1>0. PICK k, p : k = Len(stack) /\ p = Top.plugin
  OBVIOUS
<1> DEFINE f == Call("announce", p)
           g == Code(Main)
<1>1. /\ stack # <<>> /\ Top.step = "add" /\ stack' = Below \o <<f, g>>
      /\ list' = <<p>> \o list /\ map' = map \cup {p}
      /\ handles' = handles /\ heard' = heard
  BY <1>0 DEF LoadListed, Step
<1>2. /\ k \in Nat \ {0} /\ k - 1 \in Nat /\ DOMAIN stack = 1..k /\ Top = stack[k]
      /\ (k > 1 => stack[k - 1].step # "shutdown") /\ k \in DOMAIN stack
  BY <1>0, <1>1, UnderTop
<1>3. p \in 1..last /\ p \in Plugin /\ p \in handles \ map
  <2>1. Top.step \in Operations
    BY <1>1 DEF Operations
  <2>2. p \in 1..last /\ p \in Plugin /\ RightPlace(Top)
    BY <1>0, <1>1, <2>1, TopOperation DEF ToldInv
  <2> QED  BY <1>0, <1>1, <2>2 DEF RightPlace
<1>4. f \in Frame /\ LeavesNobody(f) /\ g \in Frame /\ LeavesNobody(g)
  BY <1>3, CallFrame, CodeFrame DEF LeavesNobody, Steps
<1> HIDE DEF f, g
<1>5. /\ stack' \in Seq(Frame) /\ Len(stack') = k + 1 /\ DOMAIN stack' = 1..(k + 1)
      /\ Same(k - 1) /\ Kept(k - 1) /\ stack'[k] = f /\ stack'[k + 1] = g
  BY <1>0, <1>1, <1>4, Replaced2 DEF ToldInv, HandlerInv
<1>6. /\ k - 1 <= Len(stack')
      /\ \A i \in DOMAIN stack' : i \in 1..(k - 1) \/ LeavesNobody(stack'[i])
      /\ \A i \in DOMAIN stack' : i >= k => LeavesNobody(stack'[i])
  <2>1. \A i \in DOMAIN stack' : i \in 1..(k - 1) \/ i = k \/ i = k + 1
    BY <1>2, <1>5
  <2>2. \A i \in 1..(k - 1) : ~(i >= k)
    BY <1>2
  <2> QED  BY <1>2, <1>4, <1>5, <2>1, <2>2
<1>top. OnlyTop(k)
  BY <1>0, <1>1, <1>5, <1>6 DEF OnlyTop
<1>7. RoundsPlaced'
  <2>1. ASSUME NEW i \in DOMAIN stack', stack'[i].step = "round"
        PROVE  InPlace(list', stack'[i])
    <3>1. i \in 1..(k - 1) /\ i \in 1..(Len(stack) - 1)
      BY <1>0, <1>6, <2>1 DEF LeavesNobody
    <3>2. stack'[i] = stack[i]
      BY <1>5, <3>1 DEF Same
    <3>3. InPlace(list, stack[i]) /\ stack[i].at # Main
      BY <1>1, <2>1, <3>1, <3>2, RoundBelow
    <3>4. InPlace(list', stack[i])
      BY <1>1, <1>3, <3>3, PrependedPlace DEF ToldInv
    <3> QED  BY <3>2, <3>4
  <2> QED  BY <2>1 DEF RoundsPlaced
<1>8. RoundsCode'
  <2>1. \A i \in DOMAIN stack' : i >= k => stack'[i].step # "round"
    BY <1>6 DEF LeavesNobody
  <2>2. Top.step # "code"
    BY <1>1
  <2> QED  BY <1>top, <1>6, <2>1, <2>2, CodeKept
<1>9. \A h \in heard' : h.who \in map' => h \in heard /\ h.who \in map
  BY <1>1, <1>3 DEF ToldInv, HeardInv, NotAdding
<1>10. NotAdding' /\ ToldOfGoing'
  BY <1>1, <1>9 DEF NotAdding, ToldOfGoing, ToldInv, HeardInv
<1>11. GoingTold'
  <2>1. \A i \in 1..(k - 1) : ToldAmong(stack[i].plugin)
    BY <1>9 DEF ToldAmong
  <2>2. \A i \in 1..(k - 1) : \A r \in map' :
            r \in stack[i].due \ stack[i].seen => r \in stack'[i].due \ stack'[i].seen
    BY <1>5 DEF Same
  <2>3. \A i \in DOMAIN stack' : i >= k => stack'[i].step # "shutdown"
    BY <1>6 DEF LeavesNobody
  <2>4. ~(k > 1 /\ stack[k - 1].step = "shutdown")
    BY <1>2
  <2> QED  BY <1>top, <1>6, <2>1, <2>2, <2>3, <2>4, GoingKept
<1>12. LoadRounds'
  <2>1. \A i \in 1..(k - 1) : stack[i].plugin \in map => stack[i].plugin \in map'
    BY <1>1
  <2>2. \A i \in DOMAIN stack' : i >= k => stack'[i].step # "round"
    BY <1>6 DEF LeavesNobody
  <2> QED  BY <1>top, <1>6, <2>1, <2>2, LoadsKept
<1> QED  BY <1>7, <1>8, <1>10, <1>11, <1>12 DEF ToldInv, RoundsInv, HeardInv

LEMMA LoadAnnouncedTold == ToldInv /\ LoadAnnounced /\ HandlerInv' => ToldInv'
<1> SUFFICES ASSUME ToldInv, LoadAnnounced, HandlerInv' PROVE ToldInv'
  OBVIOUS
<1>0. PICK k, p : k = Len(stack) /\ p = Top.plugin
  OBVIOUS
<1>1. /\ stack # <<>> /\ Top.step = "announce"
      /\ UNCHANGED <<list, map, handles, heard>>
  BY DEF LoadAnnounced, Step, registry
<1>2. CASE ~initialized
  <2>1. stack' = Below
    <3>1. stack \in Seq(Frame)
      BY <1>1, UnderTop
    <3>2. Front(stack) \in Seq(Frame)
      BY <1>1, <3>1, FrontFacts
    <3>3. Front(stack) \o <<>> = Front(stack)
      BY <3>2
    <3> QED  BY <1>2, <3>3 DEF LoadAnnounced, Below
  <2> QED  BY <1>1, <2>1, QuietPop, QuietInv
<1>3. CASE initialized
  <2> DEFINE f == Round("LoadPlugin", p)
  <2>1. stack' = Below \o <<f>>
    BY <1>0, <1>3 DEF LoadAnnounced
  <2>2. /\ k \in Nat \ {0} /\ k - 1 \in Nat /\ DOMAIN stack = 1..k /\ Top = stack[k]
        /\ (k > 1 => stack[k - 1].step # "shutdown") /\ k \in DOMAIN stack
    BY <1>0, <1>1, UnderTop
  <2>3. Top.step \in Operations
    BY <1>1 DEF Operations
  <2>4. p \in Plugin /\ p \in map
    <3>1. p \in Plugin /\ RightPlace(Top)
      BY <1>0, <1>1, <2>3, TopOperation DEF ToldInv
    <3> QED  BY <1>0, <1>1, <3>1 DEF RightPlace
  <2>5. \A j \in 1..(k - 1) : stack[j].plugin # p
    <3> SUFFICES ASSUME NEW j \in 1..(k - 1) PROVE stack[j].plugin # p
      OBVIOUS
    <3>1. j \in DOMAIN stack /\ j < k
      BY <2>2
    <3> QED  BY <1>0, <2>2, <2>3, <3>1 DEF ToldInv, HandlerInv, NestInv, Fresh
  <2>6. /\ f \in Frame /\ f.step = "round" /\ f.tell = "LoadPlugin" /\ f.plugin = p
        /\ InPlace(list, f)
    <3>1. "LoadPlugin" \in Tells
      BY DEF Tells
    <3> QED  BY <2>4, <3>1, NewRound DEF ToldInv
  <2> HIDE DEF f
  <2>7. /\ stack' \in Seq(Frame) /\ Len(stack') = k /\ DOMAIN stack' = 1..k
        /\ Same(k - 1) /\ Kept(k - 1) /\ stack'[k] = f
    BY <1>0, <1>1, <2>1, <2>6, Replaced DEF ToldInv, HandlerInv
  <2>8. /\ k - 1 <= Len(stack')
        /\ \A i \in DOMAIN stack' : i \in 1..(k - 1) \/ i = k
        /\ \A i \in DOMAIN stack' : i >= k => i = k /\ i + 1 \notin DOMAIN stack'
        /\ \A i \in 1..(k - 1) : i \in DOMAIN stack
    BY <2>2, <2>7
  <2>top. OnlyTop(k)
    BY <1>0, <1>1, <2>7, <2>8 DEF OnlyTop
  <2>9. RoundsPlaced'
    <3>1. ASSUME NEW i \in DOMAIN stack', stack'[i].step = "round"
          PROVE  InPlace(list, stack'[i])
      <4>1. CASE i \in 1..(k - 1)
        BY <2>7, <2>8, <3>1, <4>1 DEF Same, ToldInv, RoundsInv, RoundsPlaced
      <4>2. CASE i = k
        BY <2>6, <2>7, <4>2
      <4> QED  BY <2>8, <4>1, <4>2
    <3>2. list' = list
      BY <1>1
    <3> QED  BY <3>1, <3>2 DEF RoundsPlaced
  <2>10. RoundsCode'
    <3>1. Top.step # "code"
      BY <1>1
    <3> QED  BY <2>top, <2>8, <3>1, CodeKept
  <2>11. NotAdding' /\ ToldOfGoing'
    BY <1>1 DEF NotAdding, ToldOfGoing, ToldInv, HeardInv
  <2>12. GoingTold'
    <3>1. \A i \in 1..(k - 1) : ToldAmong(stack[i].plugin)
      BY <1>1 DEF ToldAmong
    <3>2. \A i \in 1..(k - 1) : \A r \in map' :
              r \in stack[i].due \ stack[i].seen => r \in stack'[i].due \ stack'[i].seen
      BY <2>7 DEF Same
    <3>3. \A i \in DOMAIN stack' : i >= k => stack'[i].step # "shutdown"
      BY <2>6, <2>7, <2>8
    <3>4. ~(k > 1 /\ stack[k - 1].step = "shutdown")
      BY <2>2
    <3> QED  BY <2>top, <2>8, <3>1, <3>2, <3>3, <3>4, GoingKept
  <2>13. LoadRounds'
    <3>1. \A i \in 1..(k - 1) : stack[i].plugin \in map => stack[i].plugin \in map'
      BY <1>1
    <3>2. ASSUME NEW i \in DOMAIN stack', i >= k
          PROVE  /\ stack'[i].plugin \in map' /\ i = k
                 /\ \A j \in 1..(k - 1) : stack[j].plugin # stack'[i].plugin
      BY <1>1, <2>4, <2>5, <2>6, <2>7, <2>8, <3>2
    <3> QED  BY <2>top, <2>8, <3>1, <3>2, LoadsKept
  <2> QED  BY <2>9, <2>10, <2>11, <2>12, <2>13 DEF ToldInv, RoundsInv, HeardInv
<1> QED  BY <1>2, <1>3

-----------------------------------------------------------------------------
(* The steps of an unload.                                                  *)

\* The round that tells of an unload starts with every listed plugin to call.
LEMMA UnloadNamedTold ==
    ASSUME ToldInv, HandlerInv', NEW n, NEW base, NEW key \in Plugin \cup {Main},
           UnloadNamed(base, n, key), Calm(base), stack = <<>> \/ LeavesNobody(Top),
           UNCHANGED <<list, map, handles, heard>>
    PROVE  ToldInv'
<1>1. PICK found \in FailedFinds(n) :
        \/ \E r \in found :
            stack' = base \o
                <<[Call("notify", r.plugin) EXCEPT !.key = key], Code(r.plugin)>>
        \/ stack' = base \o
                IF GetPlugin(n) = Main THEN <<>> ELSE UnloadListed(GetPlugin(n), key)
  BY DEF UnloadNamed
<1>2. ASSUME NEW r \in found,
             stack' = base \o
                <<[Call("notify", r.plugin) EXCEPT !.key = key], Code(r.plugin)>>
      PROVE  ToldInv'
  <2> DEFINE f == [Call("notify", r.plugin) EXCEPT !.key = key]
             g == Code(r.plugin)
  <2>1. r \in failed
    BY <1>2 DEF FailedFinds
  <2>2. r.plugin \in Plugin
    BY <2>1, ReachPlugins DEF ToldInv, HandlerInv, ShapeInv, TypeOK
  <2>3. f \in Frame /\ LeavesNobody(f)
    <3>1. /\ Call("notify", r.plugin) \in Frame
          /\ Call("notify", r.plugin).step = "notify"
      BY <2>2, CallFrame DEF Steps
    <3> QED  BY <3>1 DEF Frame, LeavesNobody
  <2>4. g \in Frame /\ LeavesNobody(g)
    BY <2>2, CodeFrame DEF LeavesNobody
  <2>5. stack' = base \o <<f, g>>
    BY <1>2
  <2> HIDE DEF f, g
  <2>6. Quiet(Len(stack))
    BY <2>3, <2>4, <2>5, QuietOn2
  <2> QED  BY <2>6, QuietInv
<1>3. ASSUME GetPlugin(n) = Main, stack' = base \o <<>> PROVE ToldInv'
  <2>1. base \in Seq(Frame)
    BY DEF Calm, Like
  <2>2. stack' = base
    BY <1>3, <2>1
  <2>3. Calm(stack')
    BY <2>2
  <2>4. Quiet(Len(stack))
    BY <2>3, QuietCalm
  <2> QED  BY <2>4, QuietInv
<1>4. ASSUME GetPlugin(n) # Main, stack' = base \o UnloadListed(GetPlugin(n), key)
      PROVE  ToldInv'
  <2>0. PICK p, k : p = GetPlugin(n) /\ k = Len(stack)
    OBVIOUS
  <2> DEFINE f == [Call("shutdown", p) EXCEPT !.key = key]
             g == Round("UnloadPlugin", p)
  <2>1. p # Main /\ stack' = base \o (<<f>> \o <<g>>)
    <3>1. p # Main /\ stack' = base \o UnloadListed(p, key)
      BY <1>4, <2>0
    <3>2. UnloadListed(p, key) = <<f>> \o <<g>>
      BY DEF UnloadListed, UnloadTold
    <3> HIDE DEF f, g
    <3> QED  BY <3>1, <3>2
  <2>2. p \in map
    BY <2>0, <2>1 DEF GetPlugin
  <2>3. p \in Plugin
    BY <2>2, ListFacts, HandlerAssumption
       DEF ToldInv, HandlerInv, ShapeInv, TypeOK, Plugin
  <2>4. f \in Frame /\ f.step = "shutdown" /\ f.plugin = p
    <3>1. /\ Call("shutdown", p) \in Frame
          /\ Call("shutdown", p).step = "shutdown" /\ Call("shutdown", p).plugin = p
      BY <2>3, CallFrame DEF Steps
    <3> QED  BY <3>1 DEF Frame
  <2>5. /\ g \in Frame /\ g.step = "round" /\ g.tell = "UnloadPlugin" /\ g.plugin = p
        /\ InPlace(list, g) /\ g.due = map /\ g.seen = {}
    <3>1. "UnloadPlugin" \in Tells
      BY DEF Tells
    <3> QED  BY <2>3, <3>1, NewRound DEF ToldInv
  <2> HIDE DEF f, g
  <2>6. stack' = base \o <<f, g>>
    BY <2>1, <2>4, <2>5, TwoElements
  <2>7. /\ stack' \in Seq(Frame) /\ Len(stack') = k + 2 /\ DOMAIN stack' = 1..(k + 2)
        /\ stack'[k + 1] = f /\ stack'[k + 2] = g
        /\ \A i \in 1..k : stack'[i] = base[i]
    BY <2>0, <2>4, <2>5, <2>6, PushedOn DEF ToldInv, HandlerInv, Calm
  <2>8. /\ k \in Nat /\ DOMAIN stack = 1..k
        /\ k > 0 => stack[k].step \notin {"shutdown", "round"}
    BY <2>0 DEF ToldInv, HandlerInv, ShapeInv, Top, Last, LeavesNobody
  <2>9. /\ \A i \in DOMAIN stack' : i \in 1..k \/ i = k + 1 \/ i = k + 2
        /\ \A i \in 1..k : /\ i \in DOMAIN stack /\ stack'[i].step = stack[i].step
                           /\ stack'[i].plugin = stack[i].plugin
                           /\ stack[i].step = "round" => stack'[i] = stack[i]
    BY <2>0, <2>7, <2>8 DEF Calm, Like
  <2>10. RoundsPlaced'
    <3>1. ASSUME NEW i \in DOMAIN stack', stack'[i].step = "round"
          PROVE  InPlace(list, stack'[i])
      <4>1. CASE i \in 1..k
        BY <2>9, <3>1, <4>1 DEF ToldInv, RoundsInv, RoundsPlaced
      <4>2. CASE i = k + 1
        BY <2>4, <2>7, <3>1, <4>2
      <4>3. CASE i = k + 2
        BY <2>5, <2>7, <4>3
      <4> QED  BY <2>9, <4>1, <4>2, <4>3
    <3>2. list' = list
      OBVIOUS
    <3> QED  BY <3>1, <3>2 DEF RoundsPlaced
  <2>11. RoundsCode'
    <3>1. ASSUME NEW i \in DOMAIN stack', stack'[i].step = "round", i + 1 \in DOMAIN stack'
          PROVE  stack'[i + 1].step = "code" /\ stack'[i + 1].plugin = stack'[i].at
      <4>1. i # k + 2
        BY <2>7, <2>8, <3>1
      <4>2. i # k + 1
        BY <2>4, <2>7, <3>1
      <4>3. i # k
        BY <2>8, <2>9, <3>1
      <4>4. i \in 1..k /\ i + 1 \in 1..k
        BY <2>8, <2>9, <4>1, <4>2, <4>3
      <4> QED  BY <2>9, <3>1, <4>4 DEF ToldInv, RoundsInv, RoundsCode
    <3> QED  BY <3>1 DEF RoundsCode
  <2>12. NotAdding' /\ ToldOfGoing'
    BY DEF NotAdding, ToldOfGoing, ToldInv, HeardInv
  <2>13. GoingTold'
    <3>1. ASSUME NEW i \in DOMAIN stack', stack'[i].step = "shutdown"
          PROVE  i # Len(stack') /\ Telling(heard', map', stack'[i].plugin, stack'[i + 1])
      <4>1. i # k + 2
        BY <2>5, <2>7, <3>1
      <4>2. CASE i = k + 1
        <5>1. i # Len(stack') /\ i + 1 = k + 2
          BY <2>7, <2>8, <4>2
        <5>2. Telling(heard, map, p, g)
          BY <2>5 DEF Telling
        <5> QED  BY <2>4, <2>7, <4>2, <5>1, <5>2
      <4>3. CASE i \in 1..k
        <5>1. i # k
          BY <2>8, <2>9, <3>1, <4>3
        <5>2. i + 1 \in 1..k /\ i # Len(stack) /\ i # Len(stack')
          BY <2>0, <2>7, <2>8, <4>3, <5>1
        <5>3. Telling(heard, map, stack[i].plugin, stack[i + 1])
          BY <2>9, <3>1, <4>3, <5>2 DEF ToldInv, HeardInv, GoingTold
        <5>4. stack'[i + 1] = stack[i + 1]
          BY <2>9, <5>2, <5>3 DEF Telling
        <5> QED  BY <2>9, <4>3, <5>2, <5>3, <5>4
      <4> QED  BY <2>9, <4>1, <4>2, <4>3
    <3> QED  BY <3>1 DEF GoingTold
  <2>14. LoadRounds'
    <3>1. ASSUME NEW i \in DOMAIN stack', stack'[i].step = "round",
                 stack'[i].tell = "LoadPlugin"
          PROVE  /\ stack'[i].plugin \in map
                 /\ \A j \in 1..(i - 1) : stack'[j].plugin # stack'[i].plugin
      <4>1. i # k + 1 /\ i # k + 2
        BY <2>4, <2>5, <2>7, <3>1
      <4>2. i \in 1..k /\ \A j \in 1..(i - 1) : j \in 1..k
        BY <2>8, <2>9, <4>1
      <4> QED  BY <2>9, <3>1, <4>2 DEF ToldInv, HeardInv, LoadRounds
    <3> QED  BY <3>1 DEF LoadRounds
  <2> QED  BY <2>10, <2>11, <2>12, <2>13, <2>14 DEF ToldInv, RoundsInv, HeardInv
<1> QED  BY <1>1, <1>2, <1>3, <1>4

LEMMA CalmAsIs ==
    ASSUME HandlerInv PROVE Calm(stack)
  BY DEF Calm, Like, HandlerInv, ShapeInv

LEMMA UnloadPluginTold ==
    ASSUME ToldInv, HandlerInv', NEW n \in Names, UnloadPlugin(n) PROVE ToldInv'
<1>1. /\ Calling /\ UnloadNamed(stack, n, Main)
      /\ UNCHANGED <<list, map, handles, heard>>
  BY DEF UnloadPlugin
<1>2. stack = <<>> \/ LeavesNobody(Top)
  BY <1>1, CallingTop
<1>3. Calm(stack) /\ Main \in Plugin \cup {Main}
  BY CalmAsIs DEF ToldInv
<1> QED  BY <1>1, <1>2, <1>3, UnloadNamedTold

\* Nothing is in progress but a call of the shutdown.
LEMMA NoneTold ==
    ASSUME ToldInv, HandlerInv', UNCHANGED <<list, map, handles, heard>>,
           \/ stack' = <<>>
           \/ \E f : stack' = <<f>> /\ LeavesNobody(f)
    PROVE  ToldInv'
<1>1. \A i \in DOMAIN stack' : LeavesNobody(stack'[i])
  OBVIOUS
<1>2. stack' \in Seq(Frame)
  BY DEF HandlerInv, ShapeInv
<1> QED  BY <1>1, <1>2, QuietAnew, QuietInv

LEMMA PassTold ==
    ASSUME ToldInv, HandlerInv', NEW b \in BOOLEAN, stack' = Pass(b),
           UNCHANGED <<list, map, handles, heard>>
    PROVE  ToldInv'
<1> DEFINE f == [Call("unloadFailed", Main) EXCEPT !.called = b, !.due = FailedPlugins]
<1>1. stack' = <<f>>
  BY DEF Pass
<1>2. LeavesNobody(f)
  BY DEF LeavesNobody, Call
<1> HIDE DEF f
<1> QED  BY <1>1, <1>2, NoneTold

LEMMA UnloadPluginsTold == ToldInv /\ UnloadPlugins /\ HandlerInv' => ToldInv'
<1> SUFFICES ASSUME ToldInv, UnloadPlugins, HandlerInv' PROVE ToldInv'
  OBVIOUS
<1>1. LeavesNobody(Top) /\ UNCHANGED <<list, map, handles, heard>>
  BY DEF UnloadPlugins, Step, LeavesNobody
<1>2. CASE list # <<>>
  <2>1. UnloadNamed(stack, name[list[1]], list[1])
    BY <1>2 DEF UnloadPlugins
  <2>2. list[1] \in Plugin \cup {Main}
    <3>1. 1 \in DOMAIN list
      BY <1>2, ListFacts DEF ToldInv
    <3> QED  BY <3>1, ListFacts, ReachPlugins DEF ToldInv
  <2>3. Calm(stack)
    BY CalmAsIs DEF ToldInv
  <2> QED  BY <1>1, <2>1, <2>2, <2>3, UnloadNamedTold
<1>3. CASE list = <<>>
  <2>1. stack' = Pass(FALSE)
    BY <1>3 DEF UnloadPlugins
  <2> QED  BY <1>1, <2>1, PassTold
<1> QED  BY <1>2, <1>3

LEMMA UnloadFailedPluginsTold == ToldInv /\ UnloadFailedPlugins /\ HandlerInv' => ToldInv'
<1> SUFFICES ASSUME ToldInv, UnloadFailedPlugins, HandlerInv' PROVE ToldInv'
  OBVIOUS
<1>1. /\ stack # <<>> /\ Top.step = "unloadFailed"
      /\ UNCHANGED <<list, map, handles, heard>>
  BY DEF UnloadFailedPlugins, Step
<1>2. /\ DOMAIN stack = {1} /\ Len(stack) = 1 /\ stack[1] = Top /\ Top \in Frame
      /\ LeavesNobody(Top)
  BY <1>1, ShutdownAlone DEF ToldInv, LeavesNobody
<1>3. PICK d \in Top.due :
        \/ stack' = Rest(d)
        \/ \E n : UnloadNamed(Rest(d), n, d)
  BY DEF UnloadFailedPlugins, Rest
<1>4. Calm(Rest(d))
  <2>1. Like(Rest(d))
    BY <1>1, RestLike DEF ToldInv
  <2>2. \A i \in 1..Len(stack) : stack[i].step # "round"
    BY <1>1, <1>2
  <2> QED  BY <2>1, <2>2 DEF Calm
<1>5. CASE stack' = Rest(d)
  <2>1. Calm(stack')
    BY <1>4, <1>5
  <2>2. Quiet(Len(stack))
    BY <1>1, <1>2, <2>1, QuietCalm
  <2> QED  BY <1>1, <2>2, QuietInv
<1>6. ASSUME NEW n, UnloadNamed(Rest(d), n, d) PROVE ToldInv'
  <2>1. d \in Plugin \cup {Main}
    BY <1>2 DEF Frame
  <2> QED  BY <1>1, <1>2, <1>4, <1>6, <2>1, UnloadNamedTold
<1> QED  BY <1>3, <1>5, <1>6

LEMMA ShutdownFailedPluginsTold ==
    ToldInv /\ ShutdownFailedPlugins /\ HandlerInv' => ToldInv'
<1> SUFFICES ASSUME ToldInv, ShutdownFailedPlugins, HandlerInv' PROVE ToldInv'
  OBVIOUS
<1>1. UNCHANGED <<list, map, handles, heard>>
  BY DEF ShutdownFailedPlugins, registry
<1>2. \/ stack' = <<>>
      \/ stack' = <<Call("ask", Main)>>
      \/ stack' = Pass(TRUE)
  BY DEF ShutdownFailedPlugins
<1>3. LeavesNobody(Call("ask", Main))
  BY DEF LeavesNobody, Call
<1> QED  BY <1>1, <1>2, <1>3, PassTold, NoneTold

LEMMA AnswerUnloadFailureTold ==
    ToldInv /\ AnswerUnloadFailure /\ HandlerInv' => ToldInv'
<1> SUFFICES ASSUME ToldInv, AnswerUnloadFailure, HandlerInv' PROVE ToldInv'
  OBVIOUS
<1>1. UNCHANGED <<list, map, handles, heard>>
  BY DEF AnswerUnloadFailure, registry
<1>2. stack' = <<>> \/ stack' = Pass(TRUE)
  BY DEF AnswerUnloadFailure
<1> QED  BY <1>1, <1>2, PassTold, NoneTold

LEMMA UnloadNotifiedTold == ToldInv /\ UnloadNotified /\ HandlerInv' => ToldInv'
<1> SUFFICES ASSUME ToldInv, UnloadNotified, HandlerInv' PROVE ToldInv'
  OBVIOUS
<1>0. PICK k, p : k = Len(stack) /\ p = Top.plugin
  OBVIOUS
<1> DEFINE f == [Top EXCEPT !.step = "free"]
           g == Round("PostUnloadPlugin", p)
           n == k - 1
<1>1. /\ stack # <<>> /\ Top.step = "notify" /\ stack' = Below \o <<f, g>>
      /\ UNCHANGED <<list, map, handles, heard>>
  BY <1>0 DEF UnloadNotified, Step, registry
<1>2. /\ k \in Nat \ {0} /\ n \in Nat /\ DOMAIN stack = 1..k /\ Top = stack[k]
      /\ Top \in Frame
      /\ k > 1 => stack[n].step \notin {"shutdown", "round"}
  BY <1>0, <1>1, UnderTop, TopFacts DEF ToldInv, HandlerInv
<1>3. p \in Plugin
  BY <1>0, <1>1, TopOperation DEF Operations, ToldInv
<1>4. f \in Frame /\ f.step = "free"
  BY <1>2 DEF Frame
<1>5. /\ g \in Frame /\ g.step = "round" /\ g.tell = "PostUnloadPlugin"
      /\ InPlace(list, g)
  <2>1. "PostUnloadPlugin" \in Tells
    BY DEF Tells
  <2> QED  BY <1>3, <2>1, NewRound DEF ToldInv
<1> HIDE DEF f, g
<1>6. /\ stack' \in Seq(Frame) /\ Len(stack') = k + 1 /\ DOMAIN stack' = 1..(k + 1)
      /\ Same(n) /\ stack'[k] = f /\ stack'[k + 1] = g
  BY <1>0, <1>1, <1>4, <1>5, Replaced2 DEF ToldInv, HandlerInv
<1>7. /\ n \in 0..Len(stack) /\ n <= Len(stack') /\ (n > 0 => k > 1)
      /\ \A i \in DOMAIN stack' : i > n => i = k \/ i = k + 1
  BY <1>0, <1>2, <1>6
<1> HIDE DEF n
<1>8. Quiet(n)
  BY <1>1, <1>2, <1>4, <1>5, <1>6, <1>7 DEF Quiet, Same, Still
<1> QED  BY <1>1, <1>8, QuietInv

\* Nobody listed is left who was told of the plugin; and it is not at the place
\* of a round below, for that one's code holds the plugin there.
LEMMA UnloadUnlistedTold == ToldInv /\ UnloadUnlisted /\ HandlerInv' => ToldInv'
<1> SUFFICES ASSUME ToldInv, UnloadUnlisted, HandlerInv' PROVE ToldInv'
  OBVIOUS
<1>0. PICK k, p : k = Len(stack) /\ p = Top.plugin
  OBVIOUS
<1> DEFINE f == [Top EXCEPT !.step = "notify"]
           g == Code(p)
<1>1. /\ stack # <<>> /\ Top.step = "shutdown" /\ stack' = Without(p) \o <<f, g>>
      /\ list' = RemoveAt(list, Place(p)) /\ map' = map \ {p}
      /\ handles' = handles \ {p} /\ heard' = heard
  BY <1>0 DEF UnloadUnlisted, Step, Without, RemovePluginFromList
<1>2. /\ k \in Nat \ {0} /\ k - 1 \in Nat /\ DOMAIN stack = 1..k /\ Top = stack[k]
      /\ (k > 1 => stack[k - 1].step # "shutdown") /\ k \in DOMAIN stack
      /\ Top \in Frame
  BY <1>0, <1>1, UnderTop, TopFacts DEF ToldInv, HandlerInv
<1>3. Top.step \in Operations
  BY <1>1 DEF Operations
<1>4. p \in Plugin /\ p \in map
  <2>1. p \in Plugin /\ RightPlace(Top)
    BY <1>0, <1>1, <1>3, TopOperation DEF ToldInv
  <2> QED  BY <1>0, <1>1, <2>1 DEF RightPlace
<1>5. \A j \in 1..(k - 1) : stack[j].plugin # p
  <2> SUFFICES ASSUME NEW j \in 1..(k - 1) PROVE stack[j].plugin # p
    OBVIOUS
  <2>1. j \in DOMAIN stack /\ j < k
    BY <1>2
  <2> QED  BY <1>0, <1>2, <1>3, <2>1 DEF ToldInv, HandlerInv, NestInv, Fresh
<1>6. /\ f \in Frame /\ LeavesNobody(f) /\ g \in Frame /\ LeavesNobody(g)
  <2>1. f \in Frame /\ LeavesNobody(f)
    BY <1>2 DEF Frame, LeavesNobody
  <2>2. g \in Frame /\ LeavesNobody(g)
    BY <1>4, CodeFrame DEF LeavesNobody
  <2> QED  BY <2>1, <2>2
<1> HIDE DEF f, g
<1>7. /\ stack' \in Seq(Frame) /\ Len(stack') = k + 1 /\ DOMAIN stack' = 1..(k + 1)
      /\ Kept(k - 1) /\ stack'[k] = f /\ stack'[k + 1] = g /\ Forgot(k - 1, p)
  BY <1>0, <1>1, <1>6, Unlisted DEF ToldInv
<1>8. /\ k - 1 <= Len(stack')
      /\ \A i \in DOMAIN stack' : i \in 1..(k - 1) \/ LeavesNobody(stack'[i])
      /\ \A i \in DOMAIN stack' : i >= k => LeavesNobody(stack'[i])
  <2>1. \A i \in DOMAIN stack' : i \in 1..(k - 1) \/ i = k \/ i = k + 1
    BY <1>2, <1>7
  <2>2. \A i \in 1..(k - 1) : ~(i >= k)
    BY <1>2
  <2> QED  BY <1>2, <1>6, <1>7, <2>1, <2>2
<1>top. OnlyTop(k)
  BY <1>0, <1>1, <1>7, <1>8 DEF OnlyTop
<1>9. RoundsPlaced'
  <2>1. ASSUME NEW i \in DOMAIN stack', stack'[i].step = "round"
        PROVE  InPlace(list', stack'[i])
    <3>1. i \in 1..(k - 1) /\ i \in 1..(Len(stack) - 1)
      BY <1>0, <1>8, <2>1 DEF LeavesNobody
    <3>2. /\ stack'[i].step = stack[i].step /\ stack'[i].at = stack[i].at
          /\ stack'[i].called = stack[i].called /\ stack'[i].seen = stack[i].seen
          /\ stack'[i].due = stack[i].due \ {p}
      BY <1>7, <3>1 DEF Kept, Forgot
    <3>3. /\ InPlace(list, stack[i]) /\ stack[i].at # Main /\ i + 1 \in DOMAIN stack
          /\ stack[i + 1].step = "code" /\ stack[i + 1].plugin = stack[i].at
      BY <1>1, <2>1, <3>1, <3>2, RoundBelow
    <3>4. i + 1 # k
      BY <1>1, <1>2, <3>3
    <3>5. i + 1 \in 1..(k - 1)
      BY <1>2, <3>1, <3>4
    <3>6. stack[i].at # p
      BY <1>5, <3>3, <3>5
    <3> QED  BY <1>1, <1>4, <3>2, <3>3, <3>6, RemovedPlace DEF ToldInv
  <2> QED  BY <2>1 DEF RoundsPlaced
<1>10. RoundsCode'
  <2>1. \A i \in DOMAIN stack' : i >= k => stack'[i].step # "round"
    BY <1>8 DEF LeavesNobody
  <2>2. Top.step # "code"
    BY <1>1
  <2> QED  BY <1>top, <1>8, <2>1, <2>2, CodeKept
<1>11. NotAdding'
  BY <1>1 DEF NotAdding, ToldInv, HeardInv
<1>12. ToldOfGoing'
  <2>1. \A h \in heard : h.of = p => h.who \notin map
    BY <1>0, <1>1, <1>2 DEF ToldInv, HeardInv, GoingTold
  <2> QED  BY <1>1, <2>1 DEF ToldOfGoing, ToldInv, HeardInv
<1>13. GoingTold'
  <2>1. \A i \in 1..(k - 1) : ToldAmong(stack[i].plugin)
    BY <1>1 DEF ToldAmong
  <2>2. \A i \in 1..(k - 1) : \A r \in map' :
            r \in stack[i].due \ stack[i].seen => r \in stack'[i].due \ stack'[i].seen
    BY <1>1, <1>7 DEF Forgot
  <2>3. \A i \in DOMAIN stack' : i >= k => stack'[i].step # "shutdown"
    BY <1>8 DEF LeavesNobody
  <2>4. ~(k > 1 /\ stack[k - 1].step = "shutdown")
    BY <1>2
  <2> QED  BY <1>top, <1>8, <2>1, <2>2, <2>3, <2>4, GoingKept
<1>14. LoadRounds'
  <2>1. \A i \in 1..(k - 1) : stack[i].plugin \in map => stack[i].plugin \in map'
    BY <1>1, <1>5
  <2>2. \A i \in DOMAIN stack' : i >= k => stack'[i].step # "round"
    BY <1>8 DEF LeavesNobody
  <2> QED  BY <1>top, <1>8, <2>1, <2>2, LoadsKept
<1> QED  BY <1>9, <1>10, <1>11, <1>12, <1>13, <1>14 DEF ToldInv, RoundsInv, HeardInv

-----------------------------------------------------------------------------
(* Every step, and the theorems.                                            *)

LEMMA HandlerTold == ToldInv /\ Handler /\ HandlerInv' => ToldInv'
  BY RoundCallTold, RoundNextTold, RoundEndTold, LoadListedTold, LoadAnnouncedTold,
     UnloadUnlistedTold, UnloadNotifiedTold, UnloadFreedTold, UnloadPluginsTold,
     UnloadFailedPluginsTold, ShutdownFailedPluginsTold
     DEF Handler

\* Commands, actors, and DLLs that others let go of.
LEMMA TablesTold ==
    ASSUME ToldInv, HandlerInv',
           \/ \E c \in Commands : AddCommand(c) \/ RemoveCommand(c)
           \/ \E n \in Names : Release(n)
           \/ AddActor \/ RemoveActor \/ UNCHANGED vars
    PROVE  ToldInv'
<1>1. UNCHANGED <<list, map, handles, stack, heard>>
  <2>1. ASSUME NEW c \in Commands, AddCommand(c)
        PROVE  UNCHANGED <<list, map, handles, stack, heard>>
    BY <2>1 DEF AddCommand, registry
  <2>2. ASSUME NEW c \in Commands, RemoveCommand(c)
        PROVE  UNCHANGED <<list, map, handles, stack, heard>>
    BY <2>2 DEF RemoveCommand, registry
  <2>3. CASE AddActor
    BY <2>3 DEF AddActor, registry
  <2>4. CASE RemoveActor
    BY <2>4 DEF RemoveActor, registry
  <2>5. CASE UNCHANGED vars
    BY <2>5 DEF vars, registry
  <2>6. ASSUME NEW n \in Names, Release(n)
        PROVE  UNCHANGED <<list, map, handles, stack, heard>>
    BY <2>6 DEF Release
  <2> QED  BY <2>1, <2>2, <2>3, <2>4, <2>5, <2>6
<1> QED  BY <1>1, NothingTold

LEMMA NextTold ==
    ASSUME ToldInv, [Next]_vars PROVE ToldInv'
<1>1. HandlerInv'
  BY NextInv DEF ToldInv
<1>2. CASE Handler
  BY <1>1, <1>2, HandlerTold
<1>3. CASE Return
  BY <1>1, <1>3, ReturnTold
<1>4. CASE PulsePlugins
  BY <1>1, <1>4, PulsePluginsTold
<1>5. CASE ShutdownPlugins
  BY <1>1, <1>5, ShutdownPluginsTold
<1>6. ASSUME NEW n \in Names, LoadPlugin(n) PROVE ToldInv'
  BY <1>1, <1>6, LoadPluginTold
<1>7. ASSUME NEW n \in Names, UnloadPlugin(n) PROVE ToldInv'
  BY <1>1, <1>7, UnloadPluginTold
<1>8. ASSUME NEW c \in Commands, DoCommand(c) PROVE ToldInv'
  BY <1>1, <1>8, DoCommandTold
<1>9. ASSUME NEW p \in Plugin, Receive(p) PROVE ToldInv'
  BY <1>1, <1>9, ReceiveTold
<1>10. CASE \/ \E c \in Commands : AddCommand(c) \/ RemoveCommand(c)
            \/ \E n \in Names : Release(n)
            \/ AddActor \/ RemoveActor \/ UNCHANGED vars
  BY <1>1, <1>10, TablesTold
<1>11. CASE AnswerUnloadFailure
  BY <1>1, <1>11, AnswerUnloadFailureTold
<1> QED
  BY <1>2, <1>3, <1>4, <1>5, <1>6, <1>7, <1>8, <1>9, <1>10, <1>11 DEF Next

\* The rounds, and what plugins were told, keep their invariant, whatever becomes
\* of the DLLs and of the records of failed unloads.
THEOREM ToldCorrect == Spec => []ToldInv
<1>1. Init => ToldInv
  <2> SUFFICES ASSUME Init PROVE ToldInv
    OBVIOUS
  <2>1. HandlerInv
    BY InitInv
  <2>2. DOMAIN stack = {} /\ heard = {}
    BY DEF Init
  <2>3. RoundsInv /\ HeardInv
    BY <2>2 DEF RoundsInv, RoundsPlaced, RoundsCode, HeardInv, NotAdding, ToldOfGoing,
                GoingTold, LoadRounds
  <2> QED  BY <2>1, <2>3 DEF ToldInv
<1>2. ToldInv /\ [Next]_vars => ToldInv'
  BY NextTold
<1> QED  BY <1>1, <1>2, PTL DEF Spec

\* A round calls every plugin that stays listed and none twice, whatever the code
\* it calls loads and unloads, and whatever rounds that starts.
THEOREM EachOnceCorrect == Spec => []EachOnce
<1>1. ASSUME ToldInv PROVE EachOnce
  <2> SUFFICES ASSUME NEW i \in DOMAIN stack, stack[i].step = "round"
               PROVE  /\ stack[i].called \/ stack[i].at \notin stack[i].seen
                      /\ stack[i].at = Main => stack[i].due \subseteq stack[i].seen
    BY DEF EachOnce
  <2>1. InPlace(list, stack[i])
    BY <1>1 DEF ToldInv, RoundsInv, RoundsPlaced
  <2>2. CASE stack[i].at = Main
    BY <2>1, <2>2 DEF InPlace
  <2>3. CASE stack[i].at # Main
    <3>1. PICK m \in DOMAIN list : list[m] = stack[i].at
      BY <2>1, <2>3 DEF InPlace, ToSet
    <3>2. stack[i].called <=> list[m] \in stack[i].seen
      BY <2>1, <3>1 DEF InPlace
    <3> QED  BY <2>3, <3>1, <3>2
  <2> QED  BY <2>2, <2>3
<1> QED  BY ToldCorrect, <1>1, PTL

\* Who was told that a plugin was loaded, and is still there, is told before it
\* is shut down, even when plugins come and go in between.
THEOREM ToldOfGoingCorrect == Spec => []ToldOfGoing
<1>1. ToldInv => ToldOfGoing
  BY DEF ToldInv, HeardInv
<1> QED  BY ToldCorrect, <1>1, PTL
=============================================================================
