---------------------------- MODULE ActorRouting ----------------------------
(***************************************************************************)
(* Actor messages between the post offices of one machine: the launcher    *)
(* (ServerPostOffice) and the game clients attached to it by named pipe    *)
(* (ClientPostOffice / MQPostOffice).  An actor posts a message or a call  *)
(* (RPC) to a possibly ambiguous address; the launcher resolves it against *)
(* the identities the clients have announced, the receiving post office    *)
(* resolves the mailbox, and the reply travels back the same way.          *)
(*                                                                         *)
(* Client profiles (account, server, character) are sets of facts: an      *)
(* address names some facts, an identity has some facts.                   *)
(***************************************************************************)
EXTENDS Naturals, Sequences, FiniteSets

CONSTANTS
    Client,         \* the client processes, one uuid and one pid each
    Launcher,       \* the launcher's post office
    None,           \* an address component that is not set
    Fact,           \* what a profile may say: an account, a server, a character
    CharacterFact,  \* the facts that are only there when a character is loaded
    Box,            \* mailbox names
    Ends,           \* <<b, a>>: mailbox name b ends with a, ignoring case
    InitBoxes,      \* the mailboxes each post office has at the start
    Churn,          \* client mailboxes that may be removed and added again
    Profiles,       \* the profiles the game may give each client
    Targets,        \* the addresses that actors send to
    Posters,        \* the post offices whose actors post
    Modes,          \* what they post: messages, calls
    MaxPost,        \* bound: messages each of them posts
    MaxPosters,     \* bound: how many of them post
    MaxChange,      \* bound: profile and game state changes, all clients together
    CanCrash        \* whether clients may crash

Office == Client \cup {Launcher}

ASSUME OfficeAssumption ==
    /\ Launcher \notin Client
    /\ None \notin Office
    /\ CharacterFact \subseteq Fact
    /\ Ends \subseteq Box \X Box /\ \A b \in Box : <<b, b>> \in Ends
    /\ InitBoxes \in [Office -> SUBSET Box]
    /\ Churn \subseteq Box
    /\ Profiles \in [Client -> SUBSET SUBSET Fact]
    /\ \A c \in Client : Profiles[c] # {}
    /\ Posters \subseteq Office /\ Modes \subseteq {"message", "call"}
    /\ MaxPost \in Nat /\ MaxPosters \in Nat /\ MaxChange \in Nat /\ CanCrash \in BOOLEAN

\* proto::routing::Address
Address == [uuid : Office \cup {None}, pid : Office \cup {None},
            who : {"any", "launcher", "client"}, facts : SUBSET Fact, box : Box]

ASSUME TargetsAssumption == Targets \subseteq Address

Status == {"ok", "RoutingFailed", "Ambiguous", "NoConnection"}

\* proto::routing::Envelope; of (history): who posted the message answered.
Envelope == [mode : {"message", "call", "reply"}, seq : Nat,
             addr : Address, ret : Address, status : Status,
             of : Office]

\* What a client writes into its pipe.
Identification == [kind : {"identification"}, facts : SUBSET Fact]
Route          == [kind : {"route"}, env : Envelope]
Closed         == [kind : {"closed"}]

VARIABLES
    profile,    \* profile[c]: what GetClientIdentification reads from the game
    loggedIn,   \* loggedIn[c]: m_loggedIn of the client's MQPostOffice
    pipe,       \* pipe[c]: "down" | "up" | "broken" (not noticed) | "closed" | "gone"
    boxes,      \* boxes[o]: the names in m_mailboxes
    nextSeq,    \* nextSeq[o]: m_nextSequence
    pending,    \* pending[o]: the sequences in m_rpcRequests
    mail,       \* mail[o][b]: m_receiveQueue of mailbox b
    held,       \* held[o]: calls an actor has received and not yet answered
    outgoing,   \* the launcher's m_outgoingMessages
    up,         \* up[c]: pipe and main-thread queue from c to the launcher
    down,       \* down[c]: pipe and main-thread queue from the launcher to c
    known,      \* the clients in m_identities (and in m_connections)
    identity,   \* identity[c]: the profile m_identities has for c
    executed,   \* history: the receptions of calls by actors, as a sequence
    answers,    \* history: the callbacks invoked at o, as a sequence
    changes     \* changes so far, for MaxChange

net  == <<up, down, outgoing>>
dir  == <<known, identity>>
game == <<profile, loggedIn, changes>>
vars == <<profile, loggedIn, pipe, boxes, nextSeq, pending, mail, held, outgoing,
          up, down, known, identity, executed, answers, changes>>

Alive(c) == pipe[c] \in {"down", "up"}
Running(o) == o \in {Launcher} \cup {c \in Client : Alive(c)}

-----------------------------------------------------------------------------
\* Addresses

\* ActorIdentification::BuildAddress: the fully qualified address of o.
\* A client fills in what the game says now.
FullAddress(o, box) ==
    [uuid |-> o, pid |-> o, who |-> IF o = Launcher THEN "launcher" ELSE "client",
     facts |-> IF o = Launcher THEN {} ELSE profile[o], box |-> box]

\* ServerPostOffice::IsRecipient for an identity of this machine.
IsRecipient(addr, o) ==
    /\ addr.uuid \in {None, o}
    /\ addr.pid \in {None, o}
    /\ \/ addr.who = "any"
       \/ addr.who = "launcher" /\ o = Launcher
       \/ addr.who = "client" /\ o # Launcher /\ addr.facts \subseteq identity[o]

Recipients(addr) == {o \in known \cup {Launcher} : IsRecipient(addr, o)}

\* Dropbox::PostReply, with the return address the post callback sets.
ReplyTo(m, from, status) ==
    [mode |-> "reply", seq |-> m.seq, addr |-> m.ret, status |-> status, of |-> m.of,
     ret |-> FullAddress(from, m.addr.box)]

-----------------------------------------------------------------------------
(***************************************************************************)
(* The launcher's routing.  A routing step makes a set of deliveries       *)
(* <<o, m>>: into a mailbox queue of the launcher, or into o's pipe.       *)
(***************************************************************************)

\* LocalConnection::SendMessage finds a pipe (or the launcher's own mailbox).
Reachable(o, box) ==
    IF o = Launcher THEN box \in boxes[Launcher] ELSE pipe[o] \in {"up", "broken"}

\* PostOffice::RoutingFailed: only a call is told; the reply is routed at once.
Failed(m, status) ==
    IF m.mode # "call" THEN {}
    ELSE LET r == ReplyTo(m, Launcher, status)
         IN {<<o, r>> : o \in {p \in Recipients(r.addr) : Reachable(p, r.addr.box)}}

SendMessage(o, m) ==
    IF Reachable(o, m.addr.box) THEN {<<o, m>>}
    ELSE Failed(m, IF o = Launcher THEN "RoutingFailed" ELSE "NoConnection")

\* Mutated form of FillAddress: the kind of the recipient is left unset.
FillAddressUnset(m, o) ==
    [m EXCEPT !.addr.uuid = o, !.addr.pid = o, !.addr.who = None,
              !.addr.facts = IF o = Launcher THEN {} ELSE identity[o]]

FillAddress(m, o) ==
    [m EXCEPT !.addr.uuid = o, !.addr.pid = o,
              !.addr.who = IF o = Launcher THEN "launcher" ELSE "client",
              !.addr.facts = IF o = Launcher THEN {} ELSE identity[o]]

\* Mutated forms of SendToAll: a call that is ambiguous goes to everyone, or to
\* nobody without a word.
SendToAllUnchecked(m, recipients) ==
    IF m.mode = "call" /\ recipients = {} THEN Failed(m, "RoutingFailed")
    ELSE UNION {SendMessage(o, FillAddress(m, o)) : o \in recipients}

SendToAllSilent(m, recipients) ==
    IF m.mode = "call" /\ recipients = {} THEN Failed(m, "RoutingFailed")
    ELSE IF m.mode = "call" /\ Cardinality(recipients) > 1 THEN {}
    ELSE UNION {SendMessage(o, FillAddress(m, o)) : o \in recipients}

\* FillAndSend, and ProcessOutgoingMessage which resolves in the same way.
SendToAll(m, recipients) ==
    IF m.mode = "call" /\ recipients = {} THEN Failed(m, "RoutingFailed")
    ELSE IF m.mode = "call" /\ Cardinality(recipients) > 1 THEN Failed(m, "Ambiguous")
    ELSE UNION {SendMessage(o, FillAddress(m, o)) : o \in recipients}

\* Mutated form of LocalAddress: the profile is forgotten too.
LocalAddressOfAnyone(addr) ==
    [addr EXCEPT !.uuid = None, !.pid = None, !.who = "any", !.facts = {}]

\* A message that must stay on this machine is matched by name or profile only.
LocalAddress(addr) == [addr EXCEPT !.uuid = None, !.pid = None]

ToThisLauncher(addr) ==
    \/ addr.uuid = Launcher
    \/ addr.uuid = None /\ addr.pid = Launcher /\ addr.who = "launcher"

RouteFromConnection(m) ==
    IF ToThisLauncher(m.addr) THEN SendMessage(Launcher, m)
    ELSE IF m.addr.pid # None THEN SendToAll(m, Recipients(LocalAddress(m.addr)))
    ELSE SendToAll(m, Recipients(m.addr))

ProcessOutgoingMessage(m) == SendToAll(m, Recipients(m.addr))

\* The effect of a set of deliveries; what is written to a broken pipe is lost.
Received(c, sent) == {d \in sent : d[1] = c /\ pipe[c] = "up"}
AppendEach(q, ds) == IF ds = {} THEN q ELSE Append(q, (CHOOSE d \in ds : TRUE)[2])

DownAfter(sent) == [c \in Client |-> AppendEach(down[c], Received(c, sent))]

LauncherMailAfter(sent) ==
    [mail EXCEPT ![Launcher] =
        [b \in Box |-> AppendEach(@[b], {d \in sent : d[1] = Launcher /\ d[2].addr.box = b})]]

Deliver(sent) ==
    /\ down' = DownAfter(sent)
    /\ mail' = LauncherMailAfter(sent)

-----------------------------------------------------------------------------
\* A client's routing

\* NamedPipeClient::SendMessage: dropped while there is no connection.
WritePipe(c, x) == IF pipe[c] = "up" THEN [up EXCEPT ![c] = Append(@, x)] ELSE up

Enqueue(o, m) ==
    IF m.addr.box \in boxes[o] THEN [mail EXCEPT ![o][m.addr.box] = Append(@, m)] ELSE mail

\* ClientPostOffice::RouteMessage of a reply: by pipe, or dispatched at once
\* when the reply goes to this very client.
ClientReply(c, r) ==
    IF r.addr.uuid = c
    THEN mail' = Enqueue(c, r) /\ UNCHANGED up
    ELSE up' = WritePipe(c, [kind |-> "route", env |-> r]) /\ UNCHANGED mail

\* Mailboxes the address may mean.
Matching(c, m) == {b \in boxes[c] : <<b, m.addr.box>> \in Ends}

\* Why ClientPostOffice::OnIncomingMessage refuses a call ("ok": it does not).
Refusal(c, m) ==
    CASE Matching(c, m) = {}             -> "RoutingFailed"
      [] Cardinality(Matching(c, m)) > 1 -> "Ambiguous"
      [] m.addr.box \notin boxes[c]      -> "RoutingFailed"
      [] OTHER                           -> "ok"

\* ClientPostOffice::OnIncomingMessage of a routed envelope.
Arrive(c, m) ==
    IF m.mode = "call" /\ Refusal(c, m) # "ok"
    THEN ClientReply(c, ReplyTo(m, c, Refusal(c, m)))
    ELSE mail' = Enqueue(c, m) /\ UNCHANGED up

-----------------------------------------------------------------------------
Init ==
    /\ profile \in [Client -> SUBSET Fact] /\ \A c \in Client : profile[c] \in Profiles[c]
    /\ loggedIn = [c \in Client |-> FALSE]
    /\ pipe = [c \in Client |-> "down"]
    /\ boxes = InitBoxes
    /\ nextSeq = [o \in Office |-> 0]
    /\ pending = [o \in Office |-> {}]
    /\ mail = [o \in Office |-> [b \in Box |-> <<>>]]
    /\ held = [o \in Office |-> {}]
    /\ outgoing = <<>>
    /\ up = [c \in Client |-> <<>>]
    /\ down = [c \in Client |-> <<>>]
    /\ known = {}
    /\ identity = [c \in Client |-> {}]
    /\ executed = <<>>
    /\ answers = [o \in Office |-> <<>>]
    /\ changes = 0

\* The game loads or drops account, server or character (environment).
ChangeProfile(c, p) ==
    /\ Alive(c) /\ changes < MaxChange
    /\ p \in Profiles[c] /\ p # profile[c]
    /\ profile' = [profile EXCEPT ![c] = p]
    /\ changes' = changes + 1
    /\ UNCHANGED <<loggedIn, pipe, boxes, nextSeq, pending, mail, held, net, dir,
                   executed, answers>>

\* MQPostOffice::SetGameState: inWorld is LOGGINGIN or INGAME.
SetGameState(c, inWorld) ==
    /\ Alive(c) /\ changes < MaxChange
    /\ loggedIn[c] # inWorld
    /\ changes' = changes + 1
    /\ loggedIn' = [loggedIn EXCEPT ![c] = inWorld]
    /\ up' = WritePipe(c, [kind |-> "identification", facts |-> profile[c]])
    /\ UNCHANGED <<profile, pipe, boxes, nextSeq, pending, mail, held, outgoing, down, dir,
                   executed, answers>>

\* NamedPipeClient's connect loop, then OnClientConnected: SendSelfIdentification.
Connect(c) ==
    /\ pipe[c] = "down"
    /\ pipe' = [pipe EXCEPT ![c] = "up"]
    /\ loggedIn' = [loggedIn EXCEPT ![c] = @ \/ profile[c] \cap CharacterFact # {}]
    /\ up' = [up EXCEPT ![c] = Append(@, [kind |-> "identification", facts |-> profile[c]])]
    /\ UNCHANGED <<profile, boxes, nextSeq, pending, mail, held, outgoing, down, dir,
                   executed, answers, changes>>

\* Dropbox::Post and the post callback: number, return address, RPC table.
NewEnvelope(o, mode, addr, box) ==
    [mode |-> mode, seq |-> nextSeq[o] + 1, addr |-> addr, status |-> "ok", of |-> o,
     ret |-> FullAddress(o, box)]

Register(o, mode) ==
    /\ nextSeq' = [nextSeq EXCEPT ![o] = @ + 1]
    /\ pending' = [pending EXCEPT ![o] = IF mode = "call" THEN @ \cup {nextSeq[o] + 1} ELSE @]

\* The bound MaxPosters.
MayPost(o) == Cardinality({p \in Office : nextSeq[p] > 0} \cup {o}) <= MaxPosters

ClientPost(c, mode, addr, box) ==
    /\ c \in Posters /\ Alive(c) /\ box \in boxes[c] /\ nextSeq[c] < MaxPost
    /\ MayPost(c)
    /\ Register(c, mode)
    /\ LET m == NewEnvelope(c, mode, addr, box)
       IN IF addr.uuid = c
          THEN Arrive(c, m)
          ELSE up' = WritePipe(c, [kind |-> "route", env |-> m]) /\ UNCHANGED mail
    /\ UNCHANGED <<pipe, boxes, held, outgoing, down, dir, executed, answers, game>>

\* Posted from another thread of the launcher: queued for the post office thread.
LauncherPost(mode, addr, box) ==
    /\ Launcher \in Posters /\ box \in boxes[Launcher] /\ nextSeq[Launcher] < MaxPost
    /\ MayPost(Launcher)
    /\ Register(Launcher, mode)
    /\ outgoing' = Append(outgoing, NewEnvelope(Launcher, mode, addr, box))
    /\ UNCHANGED <<pipe, boxes, mail, held, up, down, dir, executed, answers, game>>

ProcessOutgoing ==
    /\ outgoing # <<>>
    /\ Deliver(ProcessOutgoingMessage(Head(outgoing)))
    /\ outgoing' = Tail(outgoing)
    /\ UNCHANGED <<pipe, boxes, nextSeq, pending, held, up, dir, executed, answers, game>>

\* HandleIncomingMessage, MSG_ROUTE
LauncherRoute(c) ==
    /\ up[c] # <<>> /\ Head(up[c]).kind = "route"
    /\ Deliver(RouteFromConnection(Head(up[c]).env))
    /\ up' = [up EXCEPT ![c] = Tail(@)]
    /\ UNCHANGED <<pipe, boxes, nextSeq, pending, held, outgoing, dir, executed, answers, game>>

\* HandleIncomingMessage, MSG_IDENTIFICATION: UpdateConnection, AddIdentity
LauncherIdentify(c) ==
    /\ up[c] # <<>> /\ Head(up[c]).kind = "identification"
    /\ known' = known \cup {c}
    /\ identity' = [identity EXCEPT ![c] = Head(up[c]).facts]
    /\ up' = [up EXCEPT ![c] = Tail(@)]
    /\ UNCHANGED <<pipe, boxes, nextSeq, pending, mail, held, outgoing, down, executed, answers,
                   game>>

\* OnConnectionClosed: DropConnection, DropProcess
LauncherClosed(c) ==
    /\ up[c] # <<>> /\ Head(up[c]).kind = "closed"
    /\ known' = known \ {c}
    /\ pipe' = [pipe EXCEPT ![c] = "gone"]
    /\ up' = [up EXCEPT ![c] = Tail(@)]
    /\ UNCHANGED <<boxes, nextSeq, pending, mail, held, outgoing, down, identity, executed,
                   answers, game>>

\* ClientPostOffice::OnIncomingMessage
ClientReceive(c) ==
    /\ pipe[c] = "up" /\ down[c] # <<>>
    /\ down' = [down EXCEPT ![c] = Tail(@)]
    /\ Arrive(c, Head(down[c]))
    /\ UNCHANGED <<pipe, boxes, nextSeq, pending, held, outgoing, dir, executed, answers, game>>

\* The RPC table after the callback of seq; mutated form: it is never erased.
RequestKept(o, seq) == pending[o]
EraseRequest(o, seq) == pending[o] \ {seq}

\* Mailbox::Process: a reply ends its call, anything else goes to the actor.
ProcessReply(o, b) ==
    /\ Running(o) /\ mail[o][b] # <<>> /\ Head(mail[o][b]).mode = "reply"
    /\ LET r == Head(mail[o][b])
       IN IF r.seq \in pending[o]
          THEN /\ answers' = [answers EXCEPT ![o] =
                      Append(@, [seq |-> r.seq, caller |-> r.of, status |-> r.status])]
               /\ pending' = [pending EXCEPT ![o] = EraseRequest(o, r.seq)]
          ELSE UNCHANGED <<answers, pending>>
    /\ mail' = [mail EXCEPT ![o][b] = Tail(@)]
    /\ UNCHANGED <<pipe, boxes, nextSeq, held, net, dir, executed, game>>

ProcessMessage(o, b) ==
    /\ Running(o) /\ mail[o][b] # <<>> /\ Head(mail[o][b]).mode # "reply"
    /\ LET m == Head(mail[o][b])
       IN IF m.mode = "call"
          THEN /\ held' = [held EXCEPT ![o] = @ \cup {m}]
               /\ executed' = Append(executed, [caller |-> m.of, seq |-> m.seq, at |-> o])
          ELSE UNCHANGED <<held, executed>>
    /\ mail' = [mail EXCEPT ![o][b] = Tail(@)]
    /\ UNCHANGED <<pipe, boxes, nextSeq, pending, net, dir, answers, game>>

\* The actor answers a call once (the message is moved into the reply).  A
\* dropbox that was removed sends nothing.
Answer(o, m) ==
    /\ Running(o) /\ m \in held[o]
    /\ held' = [held EXCEPT ![o] = @ \ {m}]
    /\ \/ /\ m.addr.box \notin boxes[o]
          /\ UNCHANGED <<mail, up, down>>
       \/ /\ m.addr.box \in boxes[o] /\ o = Launcher
          /\ Deliver(ProcessOutgoingMessage(ReplyTo(m, o, "ok")))
          /\ UNCHANGED up
       \/ /\ m.addr.box \in boxes[o] /\ o # Launcher
          /\ ClientReply(o, ReplyTo(m, o, "ok"))
          /\ UNCHANGED down
    /\ UNCHANGED <<pipe, boxes, nextSeq, pending, outgoing, dir, executed, answers, game>>

\* Dropbox::Remove (a plugin unloads, a script ends) and RegisterAddress.
RemoveMailbox(c, b) ==
    /\ Alive(c) /\ b \in boxes[c] \cap Churn
    /\ boxes' = [boxes EXCEPT ![c] = @ \ {b}]
    /\ mail' = [mail EXCEPT ![c][b] = <<>>]
    /\ UNCHANGED <<pipe, nextSeq, pending, held, net, dir, executed, answers, game>>

RegisterAddress(c, b) ==
    /\ Alive(c) /\ b \in Churn \ boxes[c]
    /\ boxes' = [boxes EXCEPT ![c] = @ \cup {b}]
    /\ UNCHANGED <<pipe, nextSeq, pending, mail, held, net, dir, executed, answers, game>>

\* The client process dies; later the launcher's pipe thread reads the broken
\* pipe and queues OnConnectionClosed behind what it has already read.
Crash(c) ==
    /\ CanCrash /\ Alive(c)
    /\ pipe' = [pipe EXCEPT ![c] = IF @ = "up" THEN "broken" ELSE "gone"]
    /\ pending' = [pending EXCEPT ![c] = {}]
    /\ mail' = [mail EXCEPT ![c] = [b \in Box |-> <<>>]]
    /\ held' = [held EXCEPT ![c] = {}]
    /\ down' = [down EXCEPT ![c] = <<>>]
    /\ UNCHANGED <<boxes, nextSeq, outgoing, up, dir, executed, answers, game>>

PipeClosed(c) ==
    /\ pipe[c] = "broken"
    /\ pipe' = [pipe EXCEPT ![c] = "closed"]
    /\ up' = [up EXCEPT ![c] = Append(@, [kind |-> "closed"])]
    /\ UNCHANGED <<boxes, nextSeq, pending, mail, held, outgoing, down, dir, executed, answers,
                   game>>

-----------------------------------------------------------------------------
ClientStep(c) ==
    \/ \E p \in Profiles[c] : ChangeProfile(c, p)
    \/ \E inWorld \in BOOLEAN : SetGameState(c, inWorld)
    \/ Connect(c)
    \/ \E mode \in Modes, addr \in Targets, b \in boxes[c] :
          ClientPost(c, mode, addr, b)
    \/ ClientReceive(c)
    \/ \E b \in Box : RemoveMailbox(c, b) \/ RegisterAddress(c, b)
    \/ Crash(c)

LauncherStep ==
    \/ \E mode \in Modes, addr \in Targets, b \in boxes[Launcher] :
          LauncherPost(mode, addr, b)
    \/ ProcessOutgoing
    \/ \E c \in Client :
          LauncherRoute(c) \/ LauncherIdentify(c) \/ LauncherClosed(c) \/ PipeClosed(c)

MailboxStep(o) ==
    \/ \E b \in Box : ProcessReply(o, b) \/ ProcessMessage(o, b)
    \/ \E m \in held[o] : Answer(o, m)

Next ==
    \/ \E c \in Client : ClientStep(c)
    \/ LauncherStep
    \/ \E o \in Office : MailboxStep(o)

Spec == Init /\ [][Next]_vars

\* Every process keeps running its queues, and an actor answers its calls.
Fairness ==
    /\ \A c \in Client : WF_vars(ClientReceive(c))
    /\ WF_vars(ProcessOutgoing)
    /\ \A c \in Client : WF_vars(LauncherRoute(c)) /\ WF_vars(LauncherIdentify(c))
    /\ \A o \in Office : WF_vars(MailboxStep(o))

FairSpec == Spec /\ Fairness

-----------------------------------------------------------------------------
\* The types of the variables.
PipeMessage == Identification \cup Route \cup Closed

TypeOK ==
    /\ profile \in [Client -> SUBSET Fact]
    /\ loggedIn \in [Client -> BOOLEAN]
    /\ pipe \in [Client -> {"down", "up", "broken", "closed", "gone"}]
    /\ boxes \in [Office -> SUBSET Box]
    /\ nextSeq \in [Office -> Nat]
    /\ pending \in [Office -> SUBSET Nat]
    /\ mail \in [Office -> [Box -> Seq(Envelope)]]
    /\ held \in [Office -> SUBSET Envelope]
    /\ outgoing \in Seq(Envelope)
    /\ up \in [Client -> Seq(PipeMessage)]
    /\ down \in [Client -> Seq(Envelope)]
    /\ known \subseteq Client
    /\ identity \in [Client -> SUBSET Fact]
    /\ executed \in Seq([caller : Office, seq : Nat, at : Office])
    /\ answers \in [Office -> Seq([seq : Nat, caller : Office, status : Status])]
    /\ changes \in Nat

\* The callback of a call runs at most once, however many replies with its
\* sequence arrive (RegisterAddress: find, call, erase).
CallbackOnce ==
    \A o \in Office : \A i, j \in DOMAIN answers[o] :
        answers[o][i].seq = answers[o][j].seq => i = j

\* A call is received by at most one actor, once, wherever its address is
\* resolved: the launcher and the receiving client both refuse ambiguous calls.
ExecutedOnce ==
    \A i, j \in DOMAIN executed :
        executed[i].caller = executed[j].caller /\ executed[i].seq = executed[j].seq => i = j

\* A callback only ever gets the reply to its own call (RouteFromConnection:
\* "any RPC requests will get routed back to the originating connection").
AnswersAreOwn ==
    \A o \in Office : \A i \in DOMAIN answers[o] : answers[o][i].caller = o

\* A call that a connected client has written is eventually answered, with a
\* result or an error.
CallInPipe(c, n) ==
    \E i \in DOMAIN up[c] :
        up[c][i].kind = "route" /\ up[c][i].env.mode = "call" /\ up[c][i].env.seq = n

CallsAnswered ==
    \A c \in Client : \A n \in 1 .. MaxPost :
        CallInPipe(c, n) ~> \/ n \notin pending[c]
                            \/ changes > 0 \/ \E d \in Client : ~Alive(d)

-----------------------------------------------------------------------------
\* What a caller is promised (RpcPromise), and the call table it is read from.
CallStateOf(o, n) ==
    LET mine == {i \in DOMAIN answers[o] : answers[o][i].seq = n}
    IN CASE n > nextSeq[o]    -> "unused"
         [] n \in pending[o]  -> "pending"
         [] n \notin pending[o] /\ n <= nextSeq[o] /\ mine = {} -> "closed"
         [] OTHER -> IF \E i \in mine : answers[o][i].status = "ok" THEN "ok" ELSE "error"

Promise == INSTANCE RpcPromise WITH
    Caller <- Office,
    call <- [o \in Office |-> [n \in 1 .. MaxPost |-> CallStateOf(o, n)]],
    executions <- [i \in DOMAIN executed |-> <<executed[i].caller, executed[i].seq>>]

\* The routing keeps the promise when no profile is part of another.
KeepsPromise == Promise!Spec
=============================================================================
