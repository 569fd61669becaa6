----------------------------- MODULE PeerNetwork -----------------------------
(***************************************************************************)
(* The TCP network between launchers (NetworkPeer, NetworkSession).  Each    *)
(* peer connects to the hosts it is given and accepts the others; both ends  *)
(* of a link shake hands, and two links between the same peers are reduced   *)
(* to one.  Everything about sessions runs on the peer's ASIO thread, which  *)
(* prunes the sessions after every handler; what the launcher must know is   *)
(* queued for its post office thread.                                        *)
(***************************************************************************)
EXTENDS Naturals, Sequences, FiniteSets, SequencesExt

CONSTANTS
    Peer,       \* the launchers; each has one NetworkAddress and one uuid
    Lower,      \* <<p, q>>: the uuid of p is less than the uuid of q
    Hosts,      \* Hosts[p]: the hosts p is asked to add
    Removable,  \* Removable[p]: the hosts p may be asked to remove
    Persistent, \* Persistent[p]: m_persistentHosts of the launcher
    Body,       \* what routed messages say
    NoBody,     \* the body of every other message
    MaxLinks,   \* bound: TCP connections at a time
    MaxEvents,  \* bound: events that wait at a peer when a link is made
    MaxAdd,     \* bound: calls of AddHost, all peers together
    MaxSend,    \* bound: messages sent, all peers together
    MaxLoss     \* bound: links lost and connects that fail

ASSUME PeerAssumption ==
    /\ Lower \subseteq Peer \X Peer
    /\ \A p, q \in Peer : p # q => (<<p, q>> \in Lower <=> <<q, p>> \notin Lower)
    /\ Hosts \in [Peer -> SUBSET Peer] /\ Removable \in [Peer -> SUBSET Peer]
    /\ Persistent \in [Peer -> SUBSET Peer]
    /\ \A p \in Peer : p \notin Hosts[p] \cup Persistent[p]
    /\ NoBody \notin Body
    /\ {MaxLinks, MaxEvents, MaxAdd, MaxSend, MaxLoss} \subseteq Nat

Link == 1 .. MaxLinks

Message == [kind : {"route"}, body : Body]
           \cup [kind : {"handshake", "response", "end"}, body : {NoBody}]
Plain(kind) == [kind |-> kind, body |-> NoBody]

\* One end of a link: where the session is stored, whether its key there is the
\* peer's host address, m_active, is_open, m_reading and m_outgoing with the
\* message being written (m_writing is out # <<>>).
Place == {"none", "connecting", "session", "closing", "duplicate"}
Session == [place : Place, hosted : BOOLEAN, active : BOOLEAN, open : BOOLEAN,
            reading : BOOLEAN, out : Seq(Message)]

NoSession ==
    [place |-> "none", hosted |-> FALSE, active |-> FALSE, open |-> FALSE,
     reading |-> FALSE, out |-> <<>>]

VARIABLES
    links,      \* the TCP connections: [from, to, up, accepted]; a closed one may be replaced
    sessions,   \* sessions[p][l]: p's end of link l
    wire,       \* wire[p][l]: what is on its way to p, "end" being a FIN or a reset
    known,      \* known[p]: m_knownHosts
    queued,     \* queued[p]: m_queuedConnects
    pending,    \* pending[p]: m_pendingConnects
    tasks,      \* tasks[p]: functions posted to m_ioContext
    writes,     \* writes[p][q]: what m_writeQueue has for q
    procs,      \* procs[p]: m_processQueue
    recvs,      \* recvs[p]: m_receiveQueue
    todo,       \* todo[p]: what Process has taken from both and not yet handled
    adds, sends, losses     \* so far, for MaxAdd, MaxSend and MaxLoss

bounds == <<adds, sends, losses>>
asio == <<links, sessions, wire>>
vars == <<links, sessions, wire, known, queued, pending, tasks, writes, procs, recvs, todo,
          adds, sends, losses>>

-----------------------------------------------------------------------------
\* Links and sessions

Joins(l, p, q) == l \in DOMAIN links /\ {links[l].from, links[l].to} = {p, q}
Other(p, l) == IF links[l].from = p THEN links[l].to ELSE links[l].from

\* p has closed its end of link l.
Gone(p, l) == sessions[p][l].place = "none" /\ (links[l].from = p \/ links[l].accepted)

FreeLinks == {l \in Link : l \in DOMAIN links =>
                              Gone(links[l].from, l) /\ Gone(links[l].to, l)}

SessionsWith(t, p, q) == {l \in Link : t[l].place = "session" /\ Joins(l, p, q)}

\* m_connectingSessions is keyed by the address at the other end: the host for a
\* link p made, a generated port for a link it accepted.
ConnectingTo(t, p, q) ==
    {l \in Link : t[l].place = "connecting" /\ t[l].hosted /\ Joins(l, p, q)}

\* NetworkSession::Shutdown ends the writing half, after the write under way.  (If
\* that fails it closes the socket at once, which is left out: see the README.)
Shutdown(r) == [r EXCEPT !.active = FALSE, !.out = <<>>]

\* NetworkSession::Close does nothing while a read or a write is under way.
Close(r) == IF r.reading \/ r.out # <<>> THEN r ELSE [r EXCEPT !.open = FALSE]

\* A bug: the kind is written where the payload belongs.
WriteKind(r, m) == IF r.active THEN [r EXCEPT !.out = Append(@, [m EXCEPT !.body = m.kind])] ELSE r

Write(r, m) == IF r.active THEN [r EXCEPT !.out = Append(@, m)] ELSE r

WriteRoutes(r, bodies) ==
    IF r.active
    THEN [r EXCEPT !.out = @ \o [i \in DOMAIN bodies |-> [kind |-> "route", body |-> bodies[i]]]]
    ELSE r

\* What a change of p's end from r to n puts on the wire besides WriteDone.
Emitted(r, n) ==
    IF ~ (r.active /\ r.open) \/ (n.active /\ n.open) THEN <<>>
    ELSE (IF r.out = <<>> THEN <<>> ELSE <<Head(r.out)>>) \o <<Plain("end")>>

\* PruneSessions, for one session, and the sessions it reports disconnected.
PruneOne(r) ==
    CASE r.place \in {"duplicate", "closing"} ->
            IF ~ r.open THEN NoSession ELSE IF r.active THEN Shutdown(r) ELSE Close(r)
      [] r.place \in {"session", "connecting"} ->
            IF ~ r.open THEN NoSession
            ELSE IF r.active THEN r ELSE [r EXCEPT !.place = "closing"]
      [] OTHER -> r

Prune(t) == [l \in Link |-> PruneOne(t[l])]

\* The host addresses do_disco is called with (a generated port is nobody's host).
Disconnected(p, t) ==
    {Other(p, l) : l \in {k \in Link : /\ t[k].place \in {"closing", "session", "connecting"}
                                       /\ t[k].hosted /\ ~ t[k].open}}

Event(kind, q) == [kind |-> kind, peer |-> q, body |-> NoBody]
DiscoEvents(hosts) == SetToSeq({Event("disconnected", q) : q \in hosts})

\* What is on its way once p has read a message from link l, or written one to it.
Read(p, l) == [wire EXCEPT ![p][l] = Tail(@)]
Written(p, l) ==
    LET q == Other(p, l)
    IN [wire EXCEPT ![q][l] = IF Gone(q, l) THEN @ ELSE Append(@, Head(sessions[p][l].out))]

\* The end of a handler of p that leaves the sessions t, has queued the events es
\* and has made w of what is on its way: prune, and tell both sides.
Finish(p, t, es, w) ==
    LET n == Prune(t)
    IN /\ sessions' = [sessions EXCEPT ![p] = n]
       /\ procs' = [procs EXCEPT ![p] = @ \o es \o DiscoEvents(Disconnected(p, t))]
       /\ wire' = [q \in Peer |-> [l \in Link |->
              IF q = p THEN IF sessions[p][l].place # "none" /\ n[l].place = "none" THEN <<>>
                            ELSE w[p][l]
              ELSE IF Joins(l, p, q) /\ links[l].up /\ ~ Gone(q, l)
                   THEN w[q][l] \o Emitted(sessions[p][l], n[l])
                   ELSE w[q][l]]]

-----------------------------------------------------------------------------
Init ==
    /\ links = <<>>
    /\ sessions = [p \in Peer |-> [l \in Link |-> NoSession]]
    /\ wire = [p \in Peer |-> [l \in Link |-> <<>>]]
    /\ known = [p \in Peer |-> {}]
    /\ queued = [p \in Peer |-> {}]
    /\ pending = [p \in Peer |-> {}]
    /\ tasks = [p \in Peer |-> <<>>]
    /\ writes = [p \in Peer |-> [q \in Peer |-> <<>>]]
    /\ procs = [p \in Peer |-> <<>>]
    /\ recvs = [p \in Peer |-> <<>>]
    /\ todo = [p \in Peer |-> <<>>]
    /\ adds = 0 /\ sends = 0 /\ losses = 0

Post(p, task) == tasks' = [tasks EXCEPT ![p] = Append(@, task)]

\* Called from the launcher's threads and by the discoverer.
AddHost(p, q) ==
    /\ adds < MaxAdd /\ adds' = adds + 1
    /\ known' = [known EXCEPT ![p] = @ \cup {q}]
    /\ queued' = [queued EXCEPT ![p] = @ \cup {q}]
    /\ Post(p, [kind |-> "connect", peer |-> q])
    /\ UNCHANGED <<asio, pending, writes, procs, recvs, todo, sends, losses>>

\* The post office calls EnsureHosts on every turn of its loop, after Process.
EnsureHosts(p) ==
    LET missing == Persistent[p] \ known[p]
    IN /\ todo[p] = <<>> /\ missing # {}
       /\ known' = [known EXCEPT ![p] = @ \cup missing]
       /\ queued' = [queued EXCEPT ![p] = @ \cup missing]
       /\ Post(p, [kind |-> "connect", peer |-> p])
       /\ UNCHANGED <<asio, pending, writes, procs, recvs, todo, bounds>>

\* Bound: a host is not removed again while its removed session closes (the
\* second session would be destroyed with its read outstanding, as
\* m_closingSessions is keyed by host).
Closing(p, q) ==
    \/ \E l \in Link : sessions[p][l].place = "closing" /\ sessions[p][l].hosted /\ Joins(l, p, q)
    \/ \E i \in DOMAIN tasks[p] : tasks[p][i] = [kind |-> "remove", peer |-> q]

RemoveHost(p, q) ==
    /\ q \in known[p] /\ ~ Closing(p, q)
    /\ known' = [known EXCEPT ![p] = @ \ {q}]
    /\ Post(p, [kind |-> "remove", peer |-> q])
    /\ UNCHANGED <<asio, queued, pending, writes, procs, recvs, todo, bounds>>

\* Send, called when HasHost says so (PeerConnection does).
Queue(p, q, b) ==
    IF q \in known[p]
    THEN /\ writes' = [writes EXCEPT ![p][q] = Append(@, b)]
         /\ Post(p, [kind |-> "write", peer |-> q])
    ELSE UNCHANGED <<writes, tasks>>

-----------------------------------------------------------------------------
(* The ASIO thread: posted functions.                                       *)

Task(p, kind) == tasks[p] # <<>> /\ Head(tasks[p]).kind = kind

Done(p) == tasks' = [tasks EXCEPT ![p] = Tail(@)]

\* A bug: links being made are not considered.
AddConnectionsAgain(p) ==
    /\ Task(p, "connect") /\ Done(p)
    /\ pending' = [pending EXCEPT ![p] = @ \cup
           {q \in queued[p] : SessionsWith(sessions[p], p, q) = {}}]
    /\ queued' = [queued EXCEPT ![p] = {}]
    /\ Finish(p, sessions[p], <<>>, wire)
    /\ UNCHANGED <<links, known, writes, recvs, todo, bounds>>

AddConnections(p) ==
    /\ Task(p, "connect") /\ Done(p)
    /\ pending' = [pending EXCEPT ![p] = @ \cup
           {q \in queued[p] : /\ SessionsWith(sessions[p], p, q) = {}
                              /\ ConnectingTo(sessions[p], p, q) = {}}]
    /\ queued' = [queued EXCEPT ![p] = {}]
    /\ Finish(p, sessions[p], <<>>, wire)
    /\ UNCHANGED <<links, known, writes, recvs, todo, bounds>>

\* What RemoveHost posts.
ShutdownSession(p) ==
    /\ Task(p, "remove") /\ Done(p)
    /\ LET q == Head(tasks[p]).peer
           t == [l \in Link |-> IF l \in SessionsWith(sessions[p], p, q) /\ sessions[p][l].active
                                THEN Shutdown(sessions[p][l]) ELSE sessions[p][l]]
       IN Finish(p, t, <<>>, wire)
    /\ UNCHANGED <<links, known, queued, pending, writes, recvs, todo, bounds>>

\* The sessions that the queued messages are written to: a link being made
\* comes before an established one; a message to nobody is dropped.
WriteTo(p, q) ==
    IF ConnectingTo(sessions[p], p, q) # {} THEN ConnectingTo(sessions[p], p, q)
    ELSE SessionsWith(sessions[p], p, q)

ProcessWrites(p) ==
    /\ Task(p, "write") /\ Done(p)
    /\ LET t == [l \in Link |->
                   IF l \in DOMAIN links /\ l \in WriteTo(p, Other(p, l))
                   THEN WriteRoutes(sessions[p][l], writes[p][Other(p, l)]) ELSE sessions[p][l]]
       IN Finish(p, t, <<>>, wire)
    /\ writes' = [writes EXCEPT ![p] = [q \in Peer |-> <<>>]]
    /\ UNCHANGED <<links, known, queued, pending, recvs, todo, bounds>>

-----------------------------------------------------------------------------
(* The ASIO thread: connections.                                            *)

Fresh(hosted) ==
    [place |-> "connecting", hosted |-> hosted, active |-> TRUE, open |-> TRUE,
     reading |-> TRUE, out |-> <<>>]

\* Connect succeeds: AddSession, Handshake (ConnectOnce: no such session yet).
Connected(p, q) ==
    /\ q \in pending[p] /\ \A r \in Peer : Len(procs[r]) <= MaxEvents
    /\ \E l \in FreeLinks :
          /\ \A k \in FreeLinks : l <= k
          /\ links' = [k \in DOMAIN links \cup {l} |->
                IF k = l THEN [from |-> p, to |-> q, up |-> TRUE, accepted |-> FALSE] ELSE links[k]]
          /\ Finish(p, [sessions[p] EXCEPT ![l] = Write(Fresh(TRUE), Plain("handshake"))], <<>>, wire)
    /\ pending' = [pending EXCEPT ![p] = @ \ {q}]
    /\ UNCHANGED <<known, queued, tasks, writes, recvs, todo, bounds>>

\* Connect fails.
ConnectFailed(p, q) ==
    /\ q \in pending[p] /\ losses < MaxLoss
    /\ losses' = losses + 1
    /\ known' = [known EXCEPT ![p] = @ \ {q}]
    /\ pending' = [pending EXCEPT ![p] = @ \ {q}]
    /\ Finish(p, sessions[p], <<>>, wire)
    /\ UNCHANGED <<links, queued, tasks, writes, recvs, todo, adds, sends>>

Accept(p, l) ==
    /\ l \in DOMAIN links /\ links[l].to = p /\ ~ links[l].accepted
    /\ links' = [links EXCEPT ![l].accepted = TRUE]
    /\ Finish(p, [sessions[p] EXCEPT ![l] = Fresh(FALSE)], <<>>, wire)
    /\ UNCHANGED <<known, queued, pending, tasks, writes, recvs, todo, bounds>>

\* The operating system drops a link; each end will notice by itself.
LinkLost(l) ==
    /\ l \in DOMAIN links /\ links[l].up /\ losses < MaxLoss
    /\ losses' = losses + 1
    /\ links' = [links EXCEPT ![l].up = FALSE]
    /\ wire' = [p \in Peer |-> IF p \in {links[l].from, links[l].to} /\ ~ Gone(p, l)
                              THEN [wire[p] EXCEPT ![l] = <<Plain("end")>>] ELSE wire[p]]
    /\ UNCHANGED <<sessions, known, queued, pending, tasks, writes, procs, recvs, todo, adds, sends>>

\* A write ends: the message is on its way, or the far end has gone.
Transmit(p, l) ==
    /\ links[l].up
    /\ Finish(p, [sessions[p] EXCEPT ![l].out = Tail(@)], <<>>, Written(p, l))

WriteFails(p, l) ==
    /\ links[l].up => Gone(Other(p, l), l)
    /\ Finish(p, [sessions[p] EXCEPT ![l] = Close([@ EXCEPT !.out = <<>>])], <<>>, wire)

WriteDone(p, l) ==
    /\ l \in DOMAIN links /\ sessions[p][l].open /\ sessions[p][l].out # <<>>
    /\ Transmit(p, l) \/ WriteFails(p, l)
    /\ UNCHANGED <<links, known, queued, pending, tasks, writes, recvs, todo, bounds>>

-----------------------------------------------------------------------------
(* The ASIO thread: messages.                                               *)

Readable(p, l, kind) ==
    /\ l \in DOMAIN links /\ sessions[p][l].reading /\ wire[p][l] # <<>>
    /\ Head(wire[p][l]).kind = kind

\* A bug: each peer keeps the link that it completed last.
LatestSurvives(p, q, old) == TRUE

\* Which of two sessions with q survives is decided by the uuids: the peer with
\* the lower one keeps the link it made, the other peer the one it accepted.
NewSurvives(p, q, old) ==
    IF <<p, q>> \in Lower THEN links[old].from # p ELSE links[old].from = p

Keep(t, l) == [t EXCEPT ![l].place = "session", ![l].hosted = TRUE]
Discard(t, l) == [t EXCEPT ![l] = [Shutdown(@) EXCEPT !.place = "duplicate"]]

\* ResolveHandshake, on link l with q.
Resolve(p, q, l) ==
    LET t == sessions[p]
        old == SessionsWith(t, p, q)
    IN IF t[l].place # "connecting" THEN t
       ELSE IF old = {} THEN Keep(t, l)
       ELSE LET k == CHOOSE x \in old : TRUE
            IN IF NewSurvives(p, q, k) THEN Keep(Discard(t, k), l) ELSE Discard(t, l)

ResolveEvents(p, q, l) ==
    IF sessions[p][l].place = "connecting" THEN <<Event("connected", q)>> ELSE <<>>

\* A bug: a peer that is known already gets no response.
HandshakeOfKnown(p, l) ==
    /\ Readable(p, l, "handshake")
    /\ LET q == Other(p, l)
           t == Resolve(p, q, l)
       IN /\ known' = [known EXCEPT ![p] = @ \cup {q}]
          /\ Finish(p, IF q \in known[p] THEN t ELSE [t EXCEPT ![l] = Write(@, Plain("response"))],
                    ResolveEvents(p, q, l), Read(p, l))
    /\ UNCHANGED <<links, queued, pending, tasks, writes, recvs, todo, bounds>>

Handshake(p, l) ==
    /\ Readable(p, l, "handshake")
    /\ LET q == Other(p, l)
           t == Resolve(p, q, l)
       IN /\ known' = [known EXCEPT ![p] = @ \cup {q}]
          /\ Finish(p, [t EXCEPT ![l] = Write(@, Plain("response"))], ResolveEvents(p, q, l), Read(p, l))
    /\ UNCHANGED <<links, queued, pending, tasks, writes, recvs, todo, bounds>>

Response(p, l) ==
    /\ Readable(p, l, "response")
    /\ LET q == Other(p, l)
       IN /\ known' = [known EXCEPT ![p] = @ \cup {q}]
          /\ Finish(p, Resolve(p, q, l), ResolveEvents(p, q, l), Read(p, l))
    /\ UNCHANGED <<links, queued, pending, tasks, writes, recvs, todo, bounds>>

Routed(p, l) ==
    /\ Readable(p, l, "route")
    /\ recvs' = [recvs EXCEPT ![p] = Append(@, [kind |-> "received", peer |-> Other(p, l),
                                               body |-> Head(wire[p][l]).body])]
    /\ Finish(p, sessions[p], <<>>, Read(p, l))
    /\ UNCHANGED <<links, known, queued, pending, tasks, writes, todo, bounds>>

\* A bug: the session stops reading and is not closed.
ReadEndsOnly(p, l) ==
    /\ Readable(p, l, "end")
    /\ Finish(p, [sessions[p] EXCEPT ![l].reading = FALSE], <<>>, Read(p, l))
    /\ UNCHANGED <<links, known, queued, pending, tasks, writes, recvs, todo, bounds>>

\* CloseWithMessage, for every error of a read.
ReadEnds(p, l) ==
    /\ Readable(p, l, "end")
    /\ Finish(p, [sessions[p] EXCEPT ![l] = Close([@ EXCEPT !.reading = FALSE])], <<>>, Read(p, l))
    /\ UNCHANGED <<links, known, queued, pending, tasks, writes, recvs, todo, bounds>>

-----------------------------------------------------------------------------
(* The post office thread: Process.                                         *)

TakeProcesses(p) ==
    /\ todo[p] = <<>> /\ procs[p] \o recvs[p] # <<>>
    /\ todo' = [todo EXCEPT ![p] = procs[p] \o recvs[p]]
    /\ procs' = [procs EXCEPT ![p] = <<>>]
    /\ recvs' = [recvs EXCEPT ![p] = <<>>]
    /\ UNCHANGED <<asio, known, queued, pending, tasks, writes, bounds>>

\* A bug: a host that disconnects stays known.
HandleOnly(p, kind, more) ==
    /\ todo[p] # <<>> /\ Head(todo[p]).kind = kind
    /\ todo' = [todo EXCEPT ![p] = more \o Tail(@)]
    /\ UNCHANGED <<asio, known, queued, pending, procs, recvs, bounds>>

\* The part of handling an event that is the network's: do_disco's.  A handler
\* may have more to do before the next event.
Handle(p, kind, more) ==
    /\ todo[p] # <<>> /\ Head(todo[p]).kind = kind
    /\ todo' = [todo EXCEPT ![p] = more \o Tail(@)]
    /\ known' = [known EXCEPT ![p] = IF kind = "disconnected" THEN @ \ {Head(todo[p]).peer} ELSE @]
    /\ UNCHANGED <<asio, queued, pending, procs, recvs, bounds>>

-----------------------------------------------------------------------------
AsioStep(p) ==
    \/ AddConnections(p) \/ ShutdownSession(p) \/ ProcessWrites(p)
    \/ \E q \in Peer : Connected(p, q)
    \/ \E l \in Link :
          \/ Accept(p, l) \/ WriteDone(p, l)
          \/ Handshake(p, l) \/ Response(p, l) \/ Routed(p, l) \/ ReadEnds(p, l)

NetworkStep ==
    \/ \E p \in Peer :
          \/ AsioStep(p)
          \/ \E q \in Hosts[p] : AddHost(p, q)
          \/ \E q \in Removable[p] : RemoveHost(p, q)
          \/ EnsureHosts(p)
          \/ TakeProcesses(p)
    \/ \E l \in Link : LinkLost(l)

\* The launcher on top: here it only sends.
AppSend(p, q, b) ==
    /\ sends < MaxSend /\ sends' = sends + 1
    /\ q \in known[p]
    /\ Queue(p, q, b)
    /\ UNCHANGED <<asio, known, queued, pending, procs, recvs, todo, adds, losses>>

HandleAny(p) ==
    /\ \E kind \in {"connected", "disconnected", "received"} : Handle(p, kind, <<>>)
    /\ UNCHANGED <<tasks, writes>>

Next ==
    \/ NetworkStep
    \/ \E p \in Peer :
          \/ HandleAny(p)
          \/ \E q \in Peer : ConnectFailed(p, q)
          \/ \E q \in Peer \ {p}, b \in Body : AppSend(p, q, b)

Spec == Init /\ [][Next]_vars

\* Threads run, connects to a listening peer succeed and persistent hosts are
\* retried; nothing makes anyone add, remove or lose a host.
NetworkFairness ==
    \A p \in Peer :
        /\ WF_vars(AddConnections(p) \/ ShutdownSession(p) \/ ProcessWrites(p))
        /\ \A q \in Peer : WF_vars(Connected(p, q))
        /\ \A l \in Link :
              /\ WF_vars(Accept(p, l)) /\ WF_vars(WriteDone(p, l))
              /\ WF_vars(Handshake(p, l) \/ Response(p, l) \/ Routed(p, l) \/ ReadEnds(p, l))
        /\ WF_vars(EnsureHosts(p))
        /\ WF_vars(TakeProcesses(p))

FairSpec == Spec /\ NetworkFairness /\ \A p \in Peer : WF_vars(HandleAny(p))

-----------------------------------------------------------------------------
AnyEvent == [kind : {"received", "send"}, peer : Peer, body : Body]
            \cup [kind : {"connected", "disconnected"}, peer : Peer, body : {NoBody}]

\* The types of the variables.
TypeOK ==
    /\ DOMAIN links \subseteq Link
    /\ \A l \in DOMAIN links :
          links[l] \in [from : Peer, to : Peer, up : BOOLEAN, accepted : BOOLEAN]
    /\ sessions \in [Peer -> [Link -> Session]]
    /\ wire \in [Peer -> [Link -> Seq(Message)]]
    /\ known \in [Peer -> SUBSET Peer]
    /\ queued \in [Peer -> SUBSET Peer]
    /\ pending \in [Peer -> SUBSET Peer]
    /\ tasks \in [Peer -> Seq([kind : {"connect", "remove", "write"}, peer : Peer])]
    /\ writes \in [Peer -> [Peer -> Seq(Body)]]
    /\ procs \in [Peer -> Seq(AnyEvent)] /\ recvs \in [Peer -> Seq(AnyEvent)]
    /\ todo \in [Peer -> Seq(AnyEvent)]
    /\ {adds, sends, losses} \subseteq Nat

\* Nothing is under way.
Quiescent ==
    /\ \A p \in Peer :
          /\ queued[p] = {} /\ pending[p] = {} /\ tasks[p] = <<>>
          /\ procs[p] = <<>> /\ recvs[p] = <<>> /\ todo[p] = <<>>
          /\ \A l \in Link : sessions[p][l].out = <<>> /\ (sessions[p][l].reading => wire[p][l] = <<>>)
    /\ \A l \in DOMAIN links : links[l].accepted

HasSession(p, q) == SessionsWith(sessions[p], p, q) # {}

\* A peer never has two links it made to one host, nor two sessions with one
\* peer (AddSession: "this is guaranteed to be unique").
ConnectOnce ==
    \A p, q \in Peer :
        /\ q \in pending[p] => ConnectingTo(sessions[p], p, q) = {}
        /\ Cardinality(SessionsWith(sessions[p], p, q)) <= 1

\* When nothing is under way, both ends of a link agree that it is the session
\* (ResolveHandshake: "this peer and the remote peer are in synced states").
SessionsAgree ==
    Quiescent => \A p, q \in Peer : SessionsWith(sessions[p], p, q) = SessionsWith(sessions[q], q, p)

\* A session goes on that has stopped reading: Close did nothing, as a write was
\* under way.
Stalled ==
    \E p \in Peer, l \in Link :
        sessions[p][l].place \in {"connecting", "session"} /\ ~ sessions[p][l].reading

\* Whatever is sent, removed and lost, a session that stalls is all that can keep
\* the ends of a link from agreeing (ResolveHandshake: "in synced states").
AgreeUnlessStalled == ~ Stalled => SessionsAgree

\* Of two links between two peers, they never each keep the one that the other
\* discards (ResolveHandshake: "we need to choose one session to close
\* deterministically").
SameLinkKept ==
    \A p, q \in Peer : \A l, k \in Link :
        ~ /\ p # q /\ Joins(l, p, q) /\ Joins(k, p, q)
          /\ sessions[p][l].place = "duplicate" /\ sessions[q][l].place = "session"
          /\ sessions[q][k].place = "duplicate" /\ sessions[p][k].place = "session"

\* A persistent host ends up connected once links stop failing.
PersistentConnected ==
    <>[](\A p \in Peer : \A q \in Persistent[p] : HasSession(p, q))

\* The session with a host that is removed ends (RemoveHost: "This will prune the
\* session gracefully").
RemovedIsPruned ==
    \A p \in Peer, l \in Link : sessions[p][l].place = "closing" ~> sessions[p][l].place = "none"
=============================================================================
