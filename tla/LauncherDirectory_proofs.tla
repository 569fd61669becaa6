------------------------ MODULE LauncherDirectory_proofs ------------------------
(***************************************************************************)
(* Proofs about LauncherDirectory, for any launchers, clients and bounds:   *)
(* the network keeps its invariant under the launchers that use it, and the  *)
(* identities of other launchers match the connections they are routed       *)
(* through.                                                                 *)
(***************************************************************************)
EXTENDS LauncherDirectory, PeerNetwork_proofs

\* Only as many identities as have been told of, so that they can be sent.
FiniteInv == \A p \in Peer : IsFiniteSet(DOMAIN identities[p])

\* An identity whose connection is lost is about to be dropped.
Kept(p, i, c, a) ==
    \A u \in DOMAIN i : i[u] # p =>
        (u \in DOMAIN c /\ c[u] = i[u]) \/ u \in ToSet(a)

RoutesInv == \A p \in Peer : Kept(p, identities[p], connections[p], actions[p])

DirInv == DirTypeOK /\ FiniteInv /\ RoutesInv

-----------------------------------------------------------------------------
(* Operators and their types.                                               *)

LEMMA DirectoryIs ==
    ASSUME NEW f
    PROVE  f \in Directory <=> \E D \in SUBSET Body : f \in [D -> Peer]
  BY DEF Directory

LEMMA WithFacts ==
    ASSUME NEW f \in Directory, NEW u \in Body, NEW v \in Peer
    PROVE  /\ With(f, u, v) \in Directory /\ With(f, u, v)[u] = v
           /\ \A x : x \in DOMAIN With(f, u, v) <=> x \in DOMAIN f \/ x = u
           /\ \A x \in DOMAIN f \ {u} : With(f, u, v)[x] = f[x]
           /\ IsFiniteSet(DOMAIN f) => IsFiniteSet(DOMAIN With(f, u, v))
  <1>1. PICK D \in SUBSET Body : f \in [D -> Peer]
    BY DirectoryIs
  <1>2. With(f, u, v) \in [D \cup {u} -> Peer] /\ D \cup {u} \in SUBSET Body
    BY <1>1 DEF With
  <1>3. DOMAIN With(f, u, v) = DOMAIN f \cup {u}
    BY DEF With
  <1>4. IsFiniteSet(DOMAIN f) => IsFiniteSet(DOMAIN f \cup {u})
    BY FS_AddElement
  <1> QED
    BY <1>2, <1>3, <1>4, DirectoryIs DEF With

LEMMA WithoutFacts ==
    ASSUME NEW f \in Directory, NEW u
    PROVE  /\ Without(f, u) \in Directory /\ DOMAIN Without(f, u) = DOMAIN f \ {u}
           /\ \A x \in DOMAIN f \ {u} : Without(f, u)[x] = f[x]
           /\ IsFiniteSet(DOMAIN f) => IsFiniteSet(DOMAIN Without(f, u))
  <1>1. PICK D \in SUBSET Body : f \in [D -> Peer]
    BY DirectoryIs
  <1>2. Without(f, u) \in [D \ {u} -> Peer] /\ D \ {u} \in SUBSET Body
    BY <1>1 DEF Without
  <1>3. DOMAIN Without(f, u) = DOMAIN f \ {u}
    BY DEF Without
  <1>4. IsFiniteSet(DOMAIN f) => IsFiniteSet(DOMAIN f \ {u})
    BY FS_Subset
  <1> QED
    BY <1>2, <1>3, <1>4, DirectoryIs DEF Without

LEMMA DirectoryDomain ==
    ASSUME NEW f \in Directory
    PROVE  DOMAIN f \subseteq Body /\ \A u \in DOMAIN f : f[u] \in Peer
  BY DirectoryIs

LEMMA HeadOrTail ==
    ASSUME NEW S, NEW s \in Seq(S), s # <<>>
    PROVE  Tail(s) \in Seq(S) /\ ToSet(s) \subseteq ToSet(Tail(s)) \cup {Head(s)}
  <1>1. /\ Tail(s) \in Seq(S) /\ Len(Tail(s)) = Len(s) - 1 /\ Len(s) \in Nat \ {0}
        /\ \A i \in 1..Len(Tail(s)) : Tail(s)[i] = s[i + 1]
    BY HeadTailProperties, EmptySeq, LenProperties
  <1>2. ASSUME NEW i \in 1..Len(s), i # 1 PROVE s[i] \in ToSet(Tail(s))
    <2>1. i - 1 \in DOMAIN Tail(s) /\ Tail(s)[i - 1] = s[i]
      BY <1>1, <1>2
    <2> QED
      BY <2>1 DEF ToSet
  <1> QED
    BY <1>1, <1>2 DEF ToSet

\* The head of what a launcher has to do.
LEMMA HeadEvent ==
    ASSUME PeerInv, NEW p \in Peer, NEW kind, NEW more, Handle(p, kind, more)
    PROVE  /\ Head(todo[p]).peer \in Peer
           /\ kind \in {"received", "send"} => Head(todo[p]).body \in Body
  <1>1. todo[p] \in Seq(AnyEvent) /\ todo[p] # <<>> /\ Head(todo[p]).kind = kind
    BY DEF Handle, PeerInv, NetInv, TypeOK
  <1>2. PICK e \in AnyEvent : e = Head(todo[p])
    BY <1>1, HeadTailProperties
  <1> QED
    BY <1>1, <1>2 DEF AnyEvent

\* Identities are sent to one launcher, or one identity to some launchers.
LEMMA AnnounceTypes ==
    ASSUME NEW U \in SUBSET Body, IsFiniteSet(U), NEW f \in [U -> Peer], NEW g \in [U -> Body]
    PROVE  SetToSeq({Announce(f[u], g[u]) : u \in U}) \in Seq(AnyEvent)
  <1> DEFINE E == {Announce(f[u], g[u]) : u \in U}
             h == [u \in U |-> Announce(f[u], g[u])]
  <1>1. h \in Surjection(U, E)
    BY DEF Surjection
  <1>2. IsFiniteSet(E)
    BY <1>1, FS_Surjection
  <1>3. E \in SUBSET AnyEvent
    BY DEF Announce, AnyEvent
  <1> HIDE DEF E
  <1>4. SetToSeq(E) \in Seq(AnyEvent)
    BY <1>2, <1>3, SetToSeqType
  <1> QED
    BY <1>4 DEF E

-----------------------------------------------------------------------------
(* The network under the directory.                                         *)

LEMMA RegisterNet ==
    ASSUME PeerInv, DirInv, NEW c \in Client, Register(c)
    PROVE  PeerInv'
  <1>1. PICK p \in Peer : p = Home[c]
    BY DirectoryAssumption
  <1>2. c \in Body /\ Peer \subseteq Body
    BY DirectoryAssumption
  <1>3. PICK U : U = Launchers(p)
    OBVIOUS
  <1>4. /\ todo' = [todo EXCEPT ![p] = SetToSeq({Announce(identities[p][q], c) : q \in U})]
        /\ UNCHANGED <<asio, known, queued, pending, tasks, writes, procs, recvs, bounds>>
    BY <1>1, <1>3 DEF Register
  <1>5. identities[p] \in Directory /\ IsFiniteSet(DOMAIN identities[p])
    BY DEF DirInv, DirTypeOK, FiniteInv
  <1>6. U \in SUBSET Body /\ IsFiniteSet(U) /\ U \subseteq DOMAIN identities[p]
    BY <1>2, <1>3, <1>5, FS_Subset DEF Launchers
  <1>7. PICK es \in Seq(AnyEvent) : es = SetToSeq({Announce(identities[p][q], c) : q \in U})
    <2> DEFINE f == [u \in U |-> identities[p][u]]
               g == [u \in U |-> c]
    <2>1. f \in [U -> Peer] /\ g \in [U -> Body]
      BY <1>2, <1>5, <1>6, DirectoryDomain
    <2>2. SetToSeq({Announce(f[u], g[u]) : u \in U}) \in Seq(AnyEvent)
      BY <1>6, <2>1, AnnounceTypes
    <2>3. {Announce(f[u], g[u]) : u \in U} = {Announce(identities[p][q], c) : q \in U}
      OBVIOUS
    <2> QED
      BY <2>2, <2>3
  <1>8. todo' \in [Peer -> Seq(AnyEvent)]
    <2>1. todo \in [Peer -> Seq(AnyEvent)]
      BY DEF PeerInv, NetInv, TypeOK
    <2> QED
      BY <1>4, <1>7, <2>1
  <1>9. SessionInv' /\ EndsInv' /\ HostsInv'
    BY <1>4, QuietInv DEF asio, PeerInv, NetInv, HostsInv
  <1>10. TypeOK'
    <2>1. UNCHANGED <<links, sessions, wire, known, queued, pending, tasks, writes, procs, recvs,
                      adds, sends, losses>>
      BY <1>4 DEF asio, bounds
    <2> QED
      BY <1>8, <2>1 DEF PeerInv, NetInv, TypeOK
  <1> QED
    BY <1>9, <1>10 DEF PeerInv, NetInv

LEMMA SessionConnectedNet ==
    ASSUME PeerInv, DirInv, NEW p \in Peer, SessionConnected(p)
    PROVE  PeerInv'
  <1>1. PICK q : q = Head(todo[p]).peer
    OBVIOUS
  <1>2. PICK U : U = Local(p)
    OBVIOUS
  <1>3. /\ Handle(p, "connected", SetToSeq({Announce(q, u) : u \in U}))
        /\ UNCHANGED <<tasks, writes>>
    BY <1>1, <1>2 DEF SessionConnected
  <1>4. q \in Peer
    BY <1>1, <1>3, HeadEvent
  <1>5. U \in SUBSET Body /\ IsFiniteSet(U)
    <2>1. identities[p] \in Directory /\ IsFiniteSet(DOMAIN identities[p])
      BY DEF DirInv, DirTypeOK, FiniteInv
    <2>2. U \subseteq DOMAIN identities[p]
      BY <1>2 DEF Local
    <2> QED
      BY <2>1, <2>2, FS_Subset, DirectoryDomain
  <1>6. PICK es \in Seq(AnyEvent) : es = SetToSeq({Announce(q, u) : u \in U})
    <2> DEFINE f == [u \in U |-> q]
               g == [u \in U |-> u]
    <2>1. f \in [U -> Peer] /\ g \in [U -> Body]
      BY <1>4, <1>5
    <2>2. SetToSeq({Announce(f[u], g[u]) : u \in U}) \in Seq(AnyEvent)
      BY <1>5, <2>1, AnnounceTypes
    <2>3. {Announce(f[u], g[u]) : u \in U} = {Announce(q, u) : u \in U}
      OBVIOUS
    <2> QED
      BY <2>2, <2>3
  <1>7. writes' \in [Peer -> [Peer -> Seq(Body)]] /\ tasks' \in [Peer -> Seq(Tasks)]
    BY <1>3 DEF Tasks, PeerInv, NetInv, TypeOK
  <1> QED
    BY <1>3, <1>6, <1>7, HandleInv

LEMMA SendIdentificationNet ==
    ASSUME PeerInv, NEW p \in Peer, SendIdentification(p)
    PROVE  PeerInv'
  <1>1. PICK q, b : q = Head(todo[p]).peer /\ b = Head(todo[p]).body
    OBVIOUS
  <1>2. Handle(p, "send", <<>>) /\ Queue(p, q, b)
    BY <1>1 DEF SendIdentification
  <1>3. q \in Peer /\ b \in Body
    BY <1>1, <1>2, HeadEvent
  <1>4. <<>> \in Seq(AnyEvent)
    OBVIOUS
  <1> QED
    BY <1>2, <1>3, <1>4, QueueTypes, HandleInv

\* The other events leave nothing more to do.
LEMMA HandledNet ==
    ASSUME PeerInv, NEW p \in Peer, NEW kind, Handle(p, kind, <<>>), UNCHANGED <<tasks, writes>>
    PROVE  PeerInv'
  <1>1. writes' \in [Peer -> [Peer -> Seq(Body)]] /\ tasks' \in [Peer -> Seq(Tasks)]
    BY DEF Tasks, PeerInv, NetInv, TypeOK
  <1>2. <<>> \in Seq(AnyEvent)
    OBVIOUS
  <1> QED
    BY <1>1, <1>2, HandleInv

LEMMA DirNextNet ==
    ASSUME PeerInv, DirInv, [DirNext]_dirVars
    PROVE  PeerInv'
  <1>1. ASSUME NEW p \in Peer, HandleEvent(p) PROVE PeerInv'
    <2>1. CASE ReceiveIdentity(p)
      BY <2>1, HandledNet DEF ReceiveIdentity
    <2>2. CASE SessionDisconnected(p)
      BY <2>2, HandledNet DEF SessionDisconnected
    <2> QED
      BY <1>1, <2>1, <2>2, SessionConnectedNet, SendIdentificationNet DEF HandleEvent
  <1>2. ASSUME NEW c \in Client, Register(c) \/ Unregister(c) PROVE PeerInv'
    BY <1>2, RegisterNet, StutterInv DEF Unregister
  <1>3. ASSUME NEW p \in Peer, NEW q \in Peer, ConnectFails(p, q) PROVE PeerInv'
    BY <1>3, ConnectFailedInv DEF ConnectFails
  <1>4. ASSUME NEW p \in Peer, ProcessDropContainer(p) PROVE PeerInv'
    BY <1>4, StutterInv DEF ProcessDropContainer
  <1>5. ASSUME UNCHANGED dirVars PROVE PeerInv'
    BY <1>5, StutterInv DEF dirVars
  <1> QED
    BY <1>1, <1>2, <1>3, <1>4, <1>5, NetworkStepInv DEF DirNext

-----------------------------------------------------------------------------
(* The directory.                                                           *)

\* A step that changes the directory of one launcher.
LEMMA OneDirectory ==
    ASSUME DirInv, NEW p \in Peer, NEW i \in Directory, NEW c \in Directory, NEW a \in Seq(Body),
           identities' = [identities EXCEPT ![p] = i],
           connections' = [connections EXCEPT ![p] = c],
           actions' = [actions EXCEPT ![p] = a],
           IsFiniteSet(DOMAIN i), Kept(p, i, c, a),
           client' \in [Client -> {"out", "in", "gone"}], due' \in [Client -> SUBSET Peer]
    PROVE  DirInv'
  <1>1. /\ identities \in [Peer -> Directory] /\ connections \in [Peer -> Directory]
        /\ actions \in [Peer -> Seq(Body)]
    BY DEF DirInv, DirTypeOK
  <1>2. DirTypeOK'
    <2>1. identities' \in [Peer -> Directory]
      BY <1>1
    <2>2. connections' \in [Peer -> Directory]
      BY <1>1
    <2>3. actions' \in [Peer -> Seq(Body)]
      BY <1>1
    <2> QED
      BY <2>1, <2>2, <2>3 DEF DirTypeOK
  <1>3. /\ identities'[p] = i /\ connections'[p] = c /\ actions'[p] = a
        /\ \A q \in Peer \ {p} : /\ identities'[q] = identities[q]
                                /\ connections'[q] = connections[q] /\ actions'[q] = actions[q]
    BY <1>1
  <1>4. FiniteInv'
    BY <1>3 DEF FiniteInv, DirInv
  <1>5. RoutesInv'
    <2> SUFFICES ASSUME NEW q \in Peer PROVE Kept(q, identities'[q], connections'[q], actions'[q])
      BY DEF RoutesInv
    <2>1. CASE q = p
      BY <1>3, <2>1
    <2>2. CASE q # p
      BY <1>3, <2>2 DEF DirInv, RoutesInv
    <2> QED
      BY <2>1, <2>2
  <1> QED
    BY <1>2, <1>4, <1>5 DEF DirInv

LEMMA SameDirectory ==
    ASSUME DirInv, UNCHANGED directory
    PROVE  DirInv'
  BY DEF directory, DirInv, DirTypeOK, FiniteInv, RoutesInv

\* What DirInv says of one launcher.
LEMMA DirectoryOf ==
    ASSUME DirInv, NEW p \in Peer
    PROVE  /\ identities[p] \in Directory /\ connections[p] \in Directory /\ actions[p] \in Seq(Body)
           /\ IsFiniteSet(DOMAIN identities[p])
           /\ Kept(p, identities[p], connections[p], actions[p])
           /\ client \in [Client -> {"out", "in", "gone"}] /\ due \in [Client -> SUBSET Peer]
  BY DEF DirInv, DirTypeOK, FiniteInv, RoutesInv

LEMMA SameAt ==
    ASSUME DirInv, NEW p \in Peer
    PROVE  /\ identities = [identities EXCEPT ![p] = identities[p]]
           /\ connections = [connections EXCEPT ![p] = connections[p]]
           /\ actions = [actions EXCEPT ![p] = actions[p]]
  BY DEF DirInv, DirTypeOK

\* A client of its own gives a launcher no route to keep.
LEMMA RegisterDir ==
    ASSUME DirInv, NEW c \in Client, Register(c)
    PROVE  DirInv'
  <1>1. PICK p \in Peer : p = Home[c]
    BY DirectoryAssumption
  <1>2. c \in Body
    BY DirectoryAssumption
  <1>3. PICK i : i = With(identities[p], c, p)
    OBVIOUS
  <1>4. /\ client' = [client EXCEPT ![c] = "in"]
        /\ identities' = [identities EXCEPT ![p] = i]
        /\ due' = [due EXCEPT ![c] = IF links = <<>> THEN Peer ELSE Launchers(p)]
        /\ UNCHANGED <<connections, actions>>
    BY <1>1, <1>3 DEF Register
  <1>5. /\ i \in Directory /\ IsFiniteSet(DOMAIN i)
        /\ \A x : x \in DOMAIN i <=> x \in DOMAIN identities[p] \/ x = c
        /\ i[c] = p /\ \A u \in DOMAIN identities[p] \ {c} : i[u] = identities[p][u]
    <2>1. PICK f \in Directory : f = identities[p]
      BY DirectoryOf
    <2>2. /\ With(f, c, p) \in Directory /\ With(f, c, p)[c] = p
          /\ \A x : x \in DOMAIN With(f, c, p) <=> x \in DOMAIN f \/ x = c
          /\ \A x \in DOMAIN f \ {c} : With(f, c, p)[x] = f[x]
          /\ IsFiniteSet(DOMAIN f) => IsFiniteSet(DOMAIN With(f, c, p))
      BY <1>2, WithFacts
    <2>3. With(f, c, p) = i
      BY <1>3, <2>1
    <2> QED
      BY <2>1, <2>2, <2>3, DirectoryOf
  <1>6. Kept(p, i, connections[p], actions[p])
    BY <1>5, DirectoryOf DEF Kept
  <1>7. client' \in [Client -> {"out", "in", "gone"}] /\ due' \in [Client -> SUBSET Peer]
    <2>1. (IF links = <<>> THEN Peer ELSE Launchers(p)) \in SUBSET Peer
      BY DEF Launchers
    <2> QED
      BY <1>1, <1>4, <2>1, DirectoryOf
  <1>8. /\ identities' = [identities EXCEPT ![p] = i]
        /\ connections' = [connections EXCEPT ![p] = connections[p]]
        /\ actions' = [actions EXCEPT ![p] = actions[p]]
    BY <1>4, SameAt
  <1>9. connections[p] \in Directory /\ actions[p] \in Seq(Body)
    BY DirectoryOf
  <1> QED
    BY <1>5, <1>6, <1>7, <1>8, <1>9, OneDirectory

LEMMA UnregisterDir ==
    ASSUME DirInv, NEW c \in Client, Unregister(c)
    PROVE  DirInv'
  <1>1. PICK p \in Peer : p = Home[c]
    BY DirectoryAssumption
  <1>2. PICK i : i = Without(identities[p], c)
    OBVIOUS
  <1>3. /\ client' = [client EXCEPT ![c] = "gone"]
        /\ identities' = [identities EXCEPT ![p] = i]
        /\ UNCHANGED <<connections, actions, due>>
    BY <1>1, <1>2 DEF Unregister
  <1>4. /\ i \in Directory /\ IsFiniteSet(DOMAIN i) /\ DOMAIN i = DOMAIN identities[p] \ {c}
        /\ \A u \in DOMAIN identities[p] \ {c} : i[u] = identities[p][u]
    BY <1>2, DirectoryOf, WithoutFacts
  <1>5. Kept(p, i, connections[p], actions[p])
    BY <1>4, DirectoryOf DEF Kept
  <1>6. client' \in [Client -> {"out", "in", "gone"}] /\ due' \in [Client -> SUBSET Peer]
    BY <1>1, <1>3, DirectoryOf
  <1> QED
    BY <1>3, <1>4, <1>5, <1>6, DirectoryOf, SameAt, OneDirectory

\* An identity that is received comes with its connection.
LEMMA ReceiveIdentityDir ==
    ASSUME PeerInv, DirInv, NEW p \in Peer, ReceiveIdentity(p)
    PROVE  DirInv'
  <1>1. PICK q, u : q = Head(todo[p]).peer /\ u = Head(todo[p]).body
    OBVIOUS
  <1>2. q \in Peer /\ u \in Body
    BY <1>1, HeadEvent DEF ReceiveIdentity
  <1>3. PICK i, c : i = With(identities[p], u, q) /\ c = With(connections[p], u, q)
    OBVIOUS
  <1>4. /\ identities' = [identities EXCEPT ![p] = i] /\ connections' = [connections EXCEPT ![p] = c]
        /\ UNCHANGED <<actions, client, due>>
    BY <1>1, <1>3 DEF ReceiveIdentity
  <1>5. /\ i \in Directory /\ IsFiniteSet(DOMAIN i)
        /\ \A x : x \in DOMAIN i <=> x \in DOMAIN identities[p] \/ x = u
        /\ i[u] = q /\ \A x \in DOMAIN identities[p] \ {u} : i[x] = identities[p][x]
    <2>1. PICK f \in Directory : f = identities[p]
      BY DirectoryOf
    <2>2. /\ With(f, u, q) \in Directory /\ With(f, u, q)[u] = q
          /\ \A x : x \in DOMAIN With(f, u, q) <=> x \in DOMAIN f \/ x = u
          /\ \A x \in DOMAIN f \ {u} : With(f, u, q)[x] = f[x]
          /\ IsFiniteSet(DOMAIN f) => IsFiniteSet(DOMAIN With(f, u, q))
      BY <1>2, WithFacts
    <2>3. With(f, u, q) = i
      BY <1>3, <2>1
    <2> QED
      BY <2>1, <2>2, <2>3, DirectoryOf
  <1>6. /\ c \in Directory /\ \A x : x \in DOMAIN c <=> x \in DOMAIN connections[p] \/ x = u
        /\ c[u] = q /\ \A x \in DOMAIN connections[p] \ {u} : c[x] = connections[p][x]
    <2>1. PICK f \in Directory : f = connections[p]
      BY DirectoryOf
    <2>2. /\ With(f, u, q) \in Directory /\ With(f, u, q)[u] = q
          /\ \A x : x \in DOMAIN With(f, u, q) <=> x \in DOMAIN f \/ x = u
          /\ \A x \in DOMAIN f \ {u} : With(f, u, q)[x] = f[x]
          /\ IsFiniteSet(DOMAIN f) => IsFiniteSet(DOMAIN With(f, u, q))
      BY <1>2, WithFacts
    <2>3. With(f, u, q) = c
      BY <1>3, <2>1
    <2> QED
      BY <2>1, <2>2, <2>3, DirectoryOf
  <1>7. Kept(p, i, c, actions[p])
    BY <1>5, <1>6, DirectoryOf DEF Kept
  <1> QED
    BY <1>4, <1>5, <1>6, <1>7, DirectoryOf, SameAt, OneDirectory

\* Both go with the session.
LEMMA SessionDisconnectedDir ==
    ASSUME DirInv, NEW p \in Peer, SessionDisconnected(p)
    PROVE  DirInv'
  <1>1. CASE UNCHANGED <<identities, connections>>
    BY <1>1, SameDirectory DEF SessionDisconnected, directory
  <1>2. ASSUME NEW u, connections' = [connections EXCEPT ![p] = Without(@, u)],
               identities' = [identities EXCEPT ![p] = Without(@, u)]
        PROVE  DirInv'
    <2>1. PICK i, c : i = Without(identities[p], u) /\ c = Without(connections[p], u)
      OBVIOUS
    <2>2. /\ identities' = [identities EXCEPT ![p] = i] /\ connections' = [connections EXCEPT ![p] = c]
          /\ UNCHANGED <<actions, client, due>>
      BY <1>2, <2>1 DEF SessionDisconnected
    <2>3. /\ i \in Directory /\ IsFiniteSet(DOMAIN i) /\ DOMAIN i = DOMAIN identities[p] \ {u}
          /\ \A x \in DOMAIN identities[p] \ {u} : i[x] = identities[p][x]
      BY <2>1, DirectoryOf, WithoutFacts
    <2>4. /\ c \in Directory /\ DOMAIN c = DOMAIN connections[p] \ {u}
          /\ \A x \in DOMAIN connections[p] \ {u} : c[x] = connections[p][x]
      BY <2>1, DirectoryOf, WithoutFacts
    <2>5. Kept(p, i, c, actions[p])
      BY <2>3, <2>4, DirectoryOf DEF Kept
    <2> QED
      BY <2>2, <2>3, <2>4, <2>5, DirectoryOf, SameAt, OneDirectory
  <1> QED
    BY <1>1, <1>2 DEF SessionDisconnected

\* On the ASIO thread, the connection goes first, and the drop of the identity is
\* queued.
LEMMA ConnectFailsDir ==
    ASSUME DirInv, NEW p \in Peer, NEW q \in Peer, ConnectFails(p, q)
    PROVE  DirInv'
  <1>1. CASE UNCHANGED <<connections, actions>>
    BY <1>1, SameDirectory DEF ConnectFails, directory
  <1>2. ASSUME NEW u \in Through(p, q), connections' = [connections EXCEPT ![p] = Without(@, u)],
               actions' = [actions EXCEPT ![p] = Append(@, u)]
        PROVE  DirInv'
    <2>1. u \in Body
      BY DirectoryOf, DirectoryDomain DEF Through
    <2>2. PICK c, a : c = Without(connections[p], u) /\ a = Append(actions[p], u)
      OBVIOUS
    <2>3. /\ connections' = [connections EXCEPT ![p] = c] /\ actions' = [actions EXCEPT ![p] = a]
          /\ UNCHANGED <<identities, client, due>>
      BY <1>2, <2>2 DEF ConnectFails
    <2>4. /\ c \in Directory /\ DOMAIN c = DOMAIN connections[p] \ {u}
          /\ \A x \in DOMAIN connections[p] \ {u} : c[x] = connections[p][x]
      BY <2>2, DirectoryOf, WithoutFacts
    <2>5. a \in Seq(Body) /\ ToSet(a) = ToSet(actions[p]) \cup {u}
      BY <2>1, <2>2, DirectoryOf, AppendElements
    <2>6. Kept(p, identities[p], c, a)
      BY <2>4, <2>5, DirectoryOf DEF Kept
    <2> QED
      BY <2>3, <2>4, <2>5, <2>6, DirectoryOf, SameAt, OneDirectory
  <1> QED
    BY <1>1, <1>2 DEF ConnectFails

LEMMA ProcessDropContainerDir ==
    ASSUME DirInv, NEW p \in Peer, ProcessDropContainer(p)
    PROVE  DirInv'
  <1>1. PICK i, a, u : u = Head(actions[p]) /\ i = Without(identities[p], u) /\ a = Tail(actions[p])
    OBVIOUS
  <1>2. /\ actions[p] # <<>> /\ identities' = [identities EXCEPT ![p] = i]
        /\ actions' = [actions EXCEPT ![p] = a]
        /\ UNCHANGED <<connections, client, due>>
    BY <1>1 DEF ProcessDropContainer
  <1>3. /\ i \in Directory /\ IsFiniteSet(DOMAIN i) /\ DOMAIN i = DOMAIN identities[p] \ {u}
        /\ \A x \in DOMAIN identities[p] \ {u} : i[x] = identities[p][x]
    BY <1>1, DirectoryOf, WithoutFacts
  <1>4. a \in Seq(Body) /\ ToSet(actions[p]) \subseteq ToSet(a) \cup {u}
    BY <1>1, <1>2, DirectoryOf, HeadOrTail
  <1>5. Kept(p, i, connections[p], a)
    BY <1>3, <1>4, DirectoryOf DEF Kept
  <1> QED
    BY <1>2, <1>3, <1>4, <1>5, DirectoryOf, SameAt, OneDirectory

LEMMA DirNextDir ==
    ASSUME PeerInv, DirInv, [DirNext]_dirVars
    PROVE  DirInv'
  <1>1. ASSUME NEW p \in Peer, HandleEvent(p) PROVE DirInv'
    BY <1>1, SameDirectory, ReceiveIdentityDir, SessionDisconnectedDir
       DEF HandleEvent, SessionConnected, SendIdentification
  <1>2. CASE UNCHANGED dirVars
    BY <1>2, SameDirectory DEF dirVars
  <1> QED
    BY <1>1, <1>2, SameDirectory, RegisterDir, UnregisterDir, ConnectFailsDir, ProcessDropContainerDir
       DEF DirNext

-----------------------------------------------------------------------------
LEMMA DirInitInv == DirInit => PeerInv /\ DirInv
  <1> SUFFICES ASSUME DirInit PROVE PeerInv /\ DirInv
    OBVIOUS
  <1>1. PeerInv
    BY InitInv DEF DirInit
  <1>2. Peer \subseteq Body
    BY DirectoryAssumption
  <1>3. ASSUME NEW p \in Peer
        PROVE  /\ identities[p] \in Directory /\ connections[p] \in Directory
               /\ IsFiniteSet(DOMAIN identities[p])
               /\ Kept(p, identities[p], connections[p], actions[p])
    <2>1. /\ identities[p] = [u \in {p} |-> p] /\ connections[p] = <<>>
      BY DEF DirInit
    <2>2. identities[p] \in [{p} -> Peer] /\ {p} \in SUBSET Body
      BY <1>2, <2>1
    <2>3. connections[p] \in [{} -> Peer] /\ {} \in SUBSET Body
      BY <2>1
    <2>4. identities[p] \in Directory /\ connections[p] \in Directory
      BY <2>2, <2>3, DirectoryIs
    <2>5. DOMAIN identities[p] = {p} /\ IsFiniteSet({p})
      BY <2>1, FS_Singleton
    <2> QED
      BY <2>1, <2>4, <2>5 DEF Kept
  <1>4. DirTypeOK
    <2>1. /\ client = [c \in Client |-> "out"] /\ due = [c \in Client |-> {}]
          /\ DOMAIN identities = Peer /\ DOMAIN connections = Peer
          /\ actions = [p \in Peer |-> <<>>]
          /\ identities = [p \in Peer |-> identities[p]] /\ connections = [p \in Peer |-> connections[p]]
      BY DEF DirInit
    <2>2. <<>> \in Seq(Body)
      OBVIOUS
    <2> QED
      BY <1>3, <2>1, <2>2 DEF DirTypeOK
  <1> QED
    BY <1>1, <1>3, <1>4 DEF DirInv, FiniteInv, RoutesInv

\* Network and directory together keep their invariants: the launchers' handlers
\* are handlers that PeerNetwork allows for.
THEOREM DirInvCorrect == DirSpec => [](PeerInv /\ DirInv)
  BY DirInitInv, DirNextNet, DirNextDir, PTL DEF DirSpec

\* The directory of a launcher has uuids of launchers and clients, each with the
\* launcher it is routed through.
THEOREM DirTypeCorrect == DirSpec => []DirTypeOK
  <1>1. DirInv => DirTypeOK
    BY DEF DirInv
  <1> QED
    BY <1>1, DirInvCorrect, PTL

\* Under the launchers that use it, the network still makes one connection to a host,
\* and two launchers never each keep the link that the other discards.
THEOREM DirNetworkCorrect == DirSpec => [](ConnectOnce /\ SameLinkKept)
  BY DirInvCorrect, ConnectOnceIs, SameLinkKeptIs, PTL

\* When nothing is under way, the identities of other launchers are those that
\* messages can be sent to: an identity without its connection waits to be dropped.
THEOREM ConnectionsMatchCorrect == DirSpec => []ConnectionsMatch
  <1>1. DirInv => ConnectionsMatch
    <2> SUFFICES ASSUME DirInv, Settled, NEW p \in Peer, NEW u \in DOMAIN identities[p] \ Local(p)
                 PROVE  u \in DOMAIN connections[p] /\ connections[p][u] = identities[p][u]
      BY DEF ConnectionsMatch
    <2>1. identities[p][u] # p /\ Kept(p, identities[p], connections[p], actions[p])
      BY DirectoryOf DEF Local
    <2>2. actions[p] = <<>>
      BY DEF Settled
    <2>3. u \notin ToSet(actions[p])
      BY <2>2 DEF ToSet
    <2> QED
      BY <2>1, <2>3 DEF Kept
  <1> QED
    BY <1>1, DirInvCorrect, PTL
=============================================================================
