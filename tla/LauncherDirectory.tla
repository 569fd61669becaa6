-------------------------- MODULE LauncherDirectory --------------------------
(***************************************************************************)
(* The directory of each launcher (ServerPostOffice::m_identities): who can  *)
(* be routed to, and through which launcher.  Clients register over their    *)
(* pipe; launchers tell each other over the network of PeerNetwork when a    *)
(* session begins and when a client registers, and forget a launcher when    *)
(* its session ends.  An identity is named by its uuid.                      *)
(***************************************************************************)
EXTENDS PeerNetwork

CONSTANTS
    Client,     \* the uuids of the game clients
    Home        \* Home[c]: the launcher whose pipe c connects to

ASSUME DirectoryAssumption ==
    /\ Body = Peer \cup Client /\ Peer \cap Client = {}
    /\ Home \in [Client -> Peer]

VARIABLES
    identities,  \* identities[p]: m_identities, uuid |-> its launcher (p itself: local)
    connections, \* connections[p]: PeerConnection::m_connections, uuid |-> its host
    actions,     \* actions[p]: the drops in m_identityActions
    client,      \* client[c]: whether c's pipe is not yet, is, or is no more connected
    due          \* due[c]: the launchers that must learn of c (history, for Synced)

directory == <<identities, connections, actions, client, due>>
dirVars == <<vars, directory>>

With(f, u, v) == [x \in DOMAIN f \cup {u} |-> IF x = u THEN v ELSE f[x]]
Without(f, u) == [x \in DOMAIN f \ {u} |-> f[x]]

DirInit ==
    /\ Init
    /\ client = [c \in Client |-> "out"]
    /\ due = [c \in Client |-> {}]
    /\ identities = [p \in Peer |-> [u \in {p} |-> p]]
    /\ connections = [p \in Peer |-> <<>>]
    /\ actions = [p \in Peer |-> <<>>]

Local(p) == {u \in DOMAIN identities[p] : identities[p][u] = p}
Through(p, q) == {u \in DOMAIN connections[p] : connections[p][u] = q}

\* The other launchers in the directory of p.
Launchers(p) == (Peer \ {p}) \cap DOMAIN identities[p]

Announce(q, u) == [kind |-> "send", peer |-> q, body |-> u]

-----------------------------------------------------------------------------
(* The post office thread: clients.                                         *)

\* A client's identification is new: ProcessAddIdentity tells every launcher
\* in the directory.
Register(c) ==
    LET p == Home[c]
    IN /\ client[c] = "out" /\ todo[p] = <<>>
       /\ client' = [client EXCEPT ![c] = "in"]
       /\ identities' = [identities EXCEPT ![p] = With(@, c, p)]
       /\ todo' = [todo EXCEPT ![p] =
              SetToSeq({Announce(identities[p][q], c) : q \in Launchers(p)})]
       /\ due' = [due EXCEPT ![c] = IF links = <<>> THEN Peer ELSE Launchers(p)]
       /\ UNCHANGED <<asio, known, queued, pending, tasks, writes, procs, recvs, bounds,
                      connections, actions>>

\* The pipe of a client closes: ProcessDropContainer erases its identity only
\* (nothing is IsIn the container of a client, so no launcher is told).
Unregister(c) ==
    LET p == Home[c]
    IN /\ client[c] = "in" /\ todo[p] = <<>>
       /\ client' = [client EXCEPT ![c] = "gone"]
       /\ identities' = [identities EXCEPT ![p] = Without(@, c)]
       /\ UNCHANGED <<vars, connections, actions, due>>

-----------------------------------------------------------------------------
(* The post office thread: the network.                                     *)

\* A bug: only the launcher's own identity is sent.
SessionConnectedSelf(p) ==
    /\ Handle(p, "connected", <<Announce(Head(todo[p]).peer, p)>>)
    /\ UNCHANGED <<tasks, writes, directory>>

\* OnSessionConnectedHandler: ProcessSendIdentities.
SessionConnected(p) ==
    /\ Handle(p, "connected", SetToSeq({Announce(Head(todo[p]).peer, u) : u \in Local(p)}))
    /\ UNCHANGED <<tasks, writes, directory>>

\* SendIdentification, one after the other.
SendIdentification(p) ==
    /\ Handle(p, "send", <<>>)
    /\ Queue(p, Head(todo[p]).peer, Head(todo[p]).body)
    /\ UNCHANGED directory

\* A bug: host and uuid are swapped.
ReceiveIdentitySwapped(p) ==
    /\ Handle(p, "received", <<>>)
    /\ LET q == Head(todo[p]).peer
           u == Head(todo[p]).body
       IN /\ connections' = [connections EXCEPT ![p] = With(@, q, u)]
          /\ identities' = [identities EXCEPT ![p] = With(@, q, u)]
    /\ UNCHANGED <<tasks, writes, actions, client, due>>

\* PeerMessageHandler for an identity: UpdateConnection, ProcessAddIdentity.
ReceiveIdentity(p) ==
    /\ Handle(p, "received", <<>>)
    /\ LET q == Head(todo[p]).peer
           u == Head(todo[p]).body
       IN /\ connections' = [connections EXCEPT ![p] = With(@, u, q)]
          /\ identities' = [identities EXCEPT ![p] = With(@, u, q)]
    /\ UNCHANGED <<tasks, writes, actions, client, due>>

\* A bug: the identity stays in the directory.
SessionDisconnectedOnly(p) ==
    /\ Handle(p, "disconnected", <<>>)
    /\ connections' = [connections EXCEPT ![p] =
           [u \in DOMAIN @ \ Through(p, Head(todo[p]).peer) |-> @[u]]]
    /\ UNCHANGED <<tasks, writes, identities, actions, client, due>>

\* OnSessionDisconnectedHandler: the first uuid found with this host, if any, is
\* dropped from the connections and from the directory.
SessionDisconnected(p) ==
    /\ Handle(p, "disconnected", <<>>)
    /\ LET us == Through(p, Head(todo[p]).peer)
       IN IF us = {} THEN UNCHANGED <<identities, connections>>
          ELSE \E u \in us :
                 /\ connections' = [connections EXCEPT ![p] = Without(@, u)]
                 /\ identities' = [identities EXCEPT ![p] = Without(@, u)]
    /\ UNCHANGED <<tasks, writes, actions, client, due>>

\* The same handler called on the ASIO thread, when a connect fails.
ConnectFails(p, q) ==
    /\ ConnectFailed(p, q)
    /\ IF Through(p, q) = {} THEN UNCHANGED <<connections, actions>>
       ELSE \E u \in Through(p, q) :
              /\ connections' = [connections EXCEPT ![p] = Without(@, u)]
              /\ actions' = [actions EXCEPT ![p] = Append(@, u)]
    /\ UNCHANGED <<identities, client, due>>

\* ProcessIdentities.
ProcessDropContainer(p) ==
    /\ todo[p] = <<>> /\ actions[p] # <<>>
    /\ actions' = [actions EXCEPT ![p] = Tail(@)]
    /\ identities' = [identities EXCEPT ![p] = Without(@, Head(actions[p]))]
    /\ UNCHANGED <<vars, connections, client, due>>

-----------------------------------------------------------------------------
HandleEvent(p) ==
    SessionConnected(p) \/ SendIdentification(p) \/ ReceiveIdentity(p) \/ SessionDisconnected(p)

DirNext ==
    \/ NetworkStep /\ UNCHANGED directory
    \/ \E c \in Client : Register(c) \/ Unregister(c)
    \/ \E p \in Peer :
          \/ HandleEvent(p)
          \/ ProcessDropContainer(p)
          \/ \E q \in Peer : ConnectFails(p, q)

DirSpec == DirInit /\ [][DirNext]_dirVars

-----------------------------------------------------------------------------
Directory == UNION {[D -> Peer] : D \in SUBSET Body}

\* The types of the directory.
DirTypeOK ==
    /\ identities \in [Peer -> Directory] /\ connections \in [Peer -> Directory]
    /\ actions \in [Peer -> Seq(Body)]
    /\ client \in [Client -> {"out", "in", "gone"}] /\ due \in [Client -> SUBSET Peer]

Settled == Quiescent /\ \A p \in Peer : actions[p] = <<>> /\ \A q \in Peer : writes[p][q] = <<>>

\* When nothing is under way and no link has been lost, a launcher with a session
\* to another knows it and those of its clients that registered before the two
\* were linked, or that it was told of when they did (OnSessionConnectedHandler:
\* "send all known identities to the remote to sync").
Synced ==
    Settled /\ losses = 0 => \A p, q \in Peer :
        SessionsWith(sessions[p], p, q) \cap SessionsWith(sessions[q], q, p) # {}
            => \A u \in Local(q) : u = q \/ p \in due[u] =>
                   u \in DOMAIN identities[p] /\ identities[p][u] = q

\* When nothing is under way, the identities of other launchers are those that
\* messages can be sent to (PeerConnection::m_connections).
ConnectionsMatch ==
    Settled => \A p \in Peer :
        \A u \in DOMAIN identities[p] \ Local(p) :
            u \in DOMAIN connections[p] /\ connections[p][u] = identities[p][u]
=============================================================================
