------------------------- MODULE PeerNetwork_proofs -------------------------
(***************************************************************************)
(* Proofs about PeerNetwork, for any number of peers, links, messages and    *)
(* losses.                                                                  *)
(***************************************************************************)
EXTENDS PeerNetwork, SequenceLemmas, FiniteSetTheorems, TLAPS

\* Types, with what makes them hold: a session belongs to an end of its link.
HostsInv ==
    /\ \A l \in DOMAIN links : links[l].from # links[l].to
    /\ \A p \in Peer : p \notin queued[p] /\ p \notin pending[p]

EndsInv ==
    \A p \in Peer, l \in Link : sessions[p][l].place # "none" =>
        /\ l \in DOMAIN links
        /\ links[l].from = p \/ (links[l].to = p /\ links[l].accepted)

NetInv == TypeOK /\ HostsInv /\ EndsInv

\* A state of p's sessions between the steps of a handler.
Ends(p, t) ==
    \A l \in Link : t[l].place # "none" /\ ~t[l].open =>
        l \in DOMAIN links /\ p \in {links[l].from, links[l].to}

Table == [Link -> Session]

-----------------------------------------------------------------------------
(* Operators and their types.                                               *)

LEMMA PlainType ==
    ASSUME NEW kind \in {"handshake", "response", "end"}
    PROVE  Plain(kind) \in Message /\ Plain(kind).kind = kind
  BY DEF Plain, Message

LEMMA EventType ==
    ASSUME NEW kind \in {"connected", "disconnected"}, NEW q \in Peer
    PROVE  Event(kind, q) \in AnyEvent
  BY DEF Event, AnyEvent

LEMMA SessionTypes ==
    ASSUME NEW r \in Session
    PROVE  /\ r.place \in Place /\ r.hosted \in BOOLEAN /\ r.active \in BOOLEAN
           /\ r.open \in BOOLEAN /\ r.reading \in BOOLEAN /\ r.out \in Seq(Message)
  BY DEF Session

LEMMA NoSessionType == NoSession \in Session
  BY DEF NoSession, Session, Place

\* What the operations on a session keep.
LEMMA ShutdownFacts ==
    ASSUME NEW r \in Session
    PROVE  /\ Shutdown(r) \in Session /\ ~Shutdown(r).active /\ Shutdown(r).out = <<>>
           /\ Shutdown(r).place = r.place /\ Shutdown(r).hosted = r.hosted
           /\ Shutdown(r).open = r.open /\ Shutdown(r).reading = r.reading
  <1>1. <<>> \in Seq(Message)
    OBVIOUS
  <1> QED
    BY <1>1 DEF Shutdown, Session

LEMMA CloseFacts ==
    ASSUME NEW r \in Session
    PROVE  /\ Close(r) \in Session /\ Close(r).active = r.active /\ Close(r).out = r.out
           /\ Close(r).place = r.place /\ Close(r).hosted = r.hosted
           /\ Close(r).reading = r.reading
  BY DEF Close, Session

LEMMA WriteFacts ==
    ASSUME NEW r \in Session, NEW m \in Message
    PROVE  /\ Write(r, m) \in Session /\ Write(r, m).active = r.active
           /\ Write(r, m).out = IF r.active THEN Append(r.out, m) ELSE r.out
           /\ Write(r, m).place = r.place /\ Write(r, m).hosted = r.hosted
           /\ Write(r, m).open = r.open /\ Write(r, m).reading = r.reading
  <1>1. r.out \in Seq(Message)
    BY DEF Session
  <1>2. Append(r.out, m) \in Seq(Message)
    BY <1>1, AppendProperties
  <1> QED
    BY <1>2 DEF Write, Session

\* A message of some kind is on its way.
Has(s, kind) == \E i \in DOMAIN s : s[i].kind = kind

LEMMA HasNone ==
    ASSUME NEW kind PROVE ~Has(<<>>, kind)
  BY DEF Has

LEMMA HasOf ==
    ASSUME NEW s \in Seq(Message), NEW m \in Message, NEW kind
    PROVE  /\ Has(Append(s, m), kind) <=> Has(s, kind) \/ m.kind = kind
           /\ s # <<>> => Tail(s) \in Seq(Message) /\ Head(s) \in Message
           /\ s # <<>> => (Has(s, kind) <=> Head(s).kind = kind \/ Has(Tail(s), kind))
  <1>1. Has(Append(s, m), kind) <=> Has(s, kind) \/ m.kind = kind
    <2>1. /\ DOMAIN s = 1..Len(s) /\ DOMAIN Append(s, m) = 1..(Len(s) + 1)
          /\ Append(s, m)[Len(s) + 1] = m /\ Len(s) \in Nat
          /\ \A i \in 1..Len(s) : Append(s, m)[i] = s[i]
      BY AppendProperties
    <2> QED
      BY <2>1 DEF Has
  <1>2. s # <<>> => Tail(s) \in Seq(Message) /\ Head(s) \in Message
    BY HeadTailProperties
  <1>3. ASSUME s # <<>> PROVE Has(s, kind) <=> Head(s).kind = kind \/ Has(Tail(s), kind)
    <2>1. /\ Len(s) \in Nat \ {0} /\ DOMAIN s = 1..Len(s) /\ DOMAIN Tail(s) = 1..(Len(s) - 1)
          /\ Head(s) = s[1] /\ \A i \in 1..(Len(s) - 1) : Tail(s)[i] = s[i + 1]
      BY <1>3, HeadTailProperties
    <2>2. ASSUME NEW i \in DOMAIN s PROVE i = 1 \/ (i - 1 \in DOMAIN Tail(s) /\ Tail(s)[i - 1] = s[i])
      BY <2>1
    <2>3. ASSUME NEW i \in DOMAIN Tail(s) PROVE i + 1 \in DOMAIN s /\ Tail(s)[i] = s[i + 1]
      BY <2>1
    <2>4. 1 \in DOMAIN s /\ s[1] = Head(s)
      BY <2>1
    <2>5. ASSUME NEW i \in DOMAIN s, s[i].kind = kind PROVE Head(s).kind = kind \/ Has(Tail(s), kind)
      BY <2>2, <2>4, <2>5 DEF Has
    <2>6. Head(s).kind = kind \/ Has(Tail(s), kind) => Has(s, kind)
      BY <2>3, <2>4 DEF Has
    <2> QED
      BY <2>5, <2>6 DEF Has
  <1> QED
    BY <1>1, <1>2, <1>3

LEMMA HasBoth ==
    ASSUME NEW s \in Seq(Message), NEW t \in Seq(Message), NEW kind
    PROVE  s \o t \in Seq(Message) /\ (Has(s \o t, kind) <=> Has(s, kind) \/ Has(t, kind))
  <1>1. /\ s \o t \in Seq(Message) /\ Len(s \o t) = Len(s) + Len(t)
        /\ \A i \in 1..Len(s) : (s \o t)[i] = s[i]
        /\ \A i \in 1..Len(t) : (s \o t)[Len(s) + i] = t[i]
    BY PushOn
  <1>2. /\ DOMAIN s = 1..Len(s) /\ DOMAIN t = 1..Len(t) /\ DOMAIN (s \o t) = 1..Len(s \o t)
        /\ Len(s) \in Nat /\ Len(t) \in Nat
    BY <1>1
  <1>3. ASSUME NEW i \in DOMAIN (s \o t)
        PROVE  \/ i \in DOMAIN s /\ (s \o t)[i] = s[i]
               \/ i - Len(s) \in DOMAIN t /\ (s \o t)[i] = t[i - Len(s)]
    <2>1. CASE i \in 1..Len(s)
      BY <1>1, <1>2, <2>1
    <2>2. CASE i \notin 1..Len(s)
      <3>1. i - Len(s) \in 1..Len(t) /\ Len(s) + (i - Len(s)) = i
        BY <1>1, <1>2, <2>2
      <3> QED
        BY <1>1, <1>2, <3>1
    <2> QED
      BY <2>1, <2>2
  <1>4. ASSUME NEW i \in DOMAIN s PROVE i \in DOMAIN (s \o t) /\ (s \o t)[i] = s[i]
    BY <1>1, <1>2
  <1>5. ASSUME NEW i \in DOMAIN t
        PROVE  Len(s) + i \in DOMAIN (s \o t) /\ (s \o t)[Len(s) + i] = t[i]
    BY <1>1, <1>2
  <1> DEFINE r == s \o t
  <1>6. Has(r, kind) <=> Has(s, kind) \/ Has(t, kind)
    <2> HIDE DEF r
    <2>1. ASSUME NEW i \in DOMAIN r, r[i].kind = kind PROVE Has(s, kind) \/ Has(t, kind)
      <3>1. \/ i \in DOMAIN s /\ r[i] = s[i]
            \/ i - Len(s) \in DOMAIN t /\ r[i] = t[i - Len(s)]
        BY <1>3 DEF r
      <3>2. \/ i \in DOMAIN s /\ s[i].kind = kind
            \/ i - Len(s) \in DOMAIN t /\ t[i - Len(s)].kind = kind
        BY <2>1, <3>1
      <3> QED
        BY <3>2, Zenon DEF Has
    <2>2. ASSUME NEW i \in DOMAIN s, s[i].kind = kind PROVE Has(r, kind)
      <3>1. i \in DOMAIN r /\ r[i].kind = kind
        BY <1>4, <2>2 DEF r
      <3> QED
        BY <3>1, Zenon DEF Has
    <2>3. ASSUME NEW i \in DOMAIN t, t[i].kind = kind PROVE Has(r, kind)
      <3>1. Len(s) + i \in DOMAIN r /\ r[Len(s) + i].kind = kind
        BY <1>5, <2>3 DEF r
      <3> QED
        BY <3>1, Zenon DEF Has
    <2> QED
      BY <2>1, <2>2, <2>3, Zenon DEF Has
  <1> QED
    BY <1>1, <1>6

-----------------------------------------------------------------------------
(* The end of a handler.                                                    *)

Greetings == {"handshake", "response"}

\* What pruning makes of a session.
PrunedTo(r, n) ==
    /\ n \in Session
    /\ n.place = "none" => n = NoSession \/ n = r
    /\ r.place = "none" => n = r
    /\ n.place \in {"connecting", "session"} => n = r
    /\ r.place \in {"connecting", "session"} /\ r.open /\ r.active => n = r
    /\ n.place = "duplicate" => r.place = "duplicate" /\ ~n.active
    /\ n.out = r.out \/ n.out = <<>>

LEMMA PruneFacts ==
    ASSUME NEW r \in Session
    PROVE  PrunedTo(r, PruneOne(r))
  <1>1. r.place \in Place /\ Place = {"none", "connecting", "session", "closing", "duplicate"}
    BY SessionTypes DEF Place
  <1>2. NoSession \in Session /\ NoSession.place = "none" /\ NoSession.out = <<>>
    BY NoSessionType DEF NoSession
  <1>3. /\ Shutdown(r) \in Session /\ ~Shutdown(r).active /\ Shutdown(r).out = <<>>
        /\ Shutdown(r).place = r.place
    BY ShutdownFacts
  <1>4. /\ Close(r) \in Session /\ Close(r).active = r.active /\ Close(r).out = r.out
        /\ Close(r).place = r.place
    BY CloseFacts
  <1>5. CASE r.place \in {"duplicate", "closing"} /\ ~r.open
    <2>1. PruneOne(r) = NoSession
      BY <1>5 DEF PruneOne
    <2> QED
      BY <1>2, <1>5, <2>1 DEF PrunedTo
  <1>6. CASE r.place \in {"duplicate", "closing"} /\ r.open
    <2>1. PruneOne(r) = IF r.active THEN Shutdown(r) ELSE Close(r)
      BY <1>6 DEF PruneOne
    <2> QED
      BY <1>3, <1>4, <1>6, <2>1 DEF PrunedTo
  <1>7. CASE r.place \in {"session", "connecting"}
    <2> DEFINE closing == [r EXCEPT !.place = "closing"]
    <2>1. PruneOne(r) = IF ~r.open THEN NoSession ELSE IF r.active THEN r ELSE closing
      BY <1>7 DEF PruneOne
    <2>2. closing \in Session /\ closing.place = "closing" /\ closing.out = r.out
      BY <1>1 DEF Session
    <2> HIDE DEF closing
    <2> QED
      BY <1>2, <1>7, <2>1, <2>2 DEF PrunedTo
  <1>8. CASE r.place = "none"
    <2>1. PruneOne(r) = r
      BY <1>8 DEF PruneOne
    <2> QED
      BY <1>8, <2>1 DEF PrunedTo
  <1> QED
    BY <1>1, <1>5, <1>6, <1>7, <1>8

LEMMA EmittedFacts ==
    ASSUME NEW r \in Session, NEW n
    PROVE  /\ Emitted(r, n) \in Seq(Message)
           /\ \A K \in Greetings : Has(Emitted(r, n), K) => Has(r.out, K)
           /\ ~(r.active /\ r.open) => Emitted(r, n) = <<>>
  <1>1. r.out \in Seq(Message)
    BY DEF Session
  <1>2. PICK e : e = Plain("end")
    OBVIOUS
  <1>3. e \in Message /\ e.kind = "end"
    BY <1>2, PlainType
  <1>4. /\ <<>> \in Seq(Message) /\ <<e>> \in Seq(Message) /\ <<>> \o <<e>> = <<e>>
        /\ \A K \in Greetings : ~Has(<<e>>, K) /\ ~Has(<<>>, K)
    BY <1>3 DEF Has, Greetings
  <1>5. CASE ~(r.active /\ r.open) \/ (n.active /\ n.open)
    <2>1. Emitted(r, n) = <<>>
      BY <1>5 DEF Emitted
    <2> QED
      BY <1>4, <2>1
  <1>6. CASE (r.active /\ r.open) /\ ~(n.active /\ n.open) /\ r.out = <<>>
    <2>1. Emitted(r, n) = <<>> \o <<e>>
      BY <1>2, <1>6, Zenon DEF Emitted
    <2> QED
      BY <1>4, <1>6, <2>1
  <1>7. CASE (r.active /\ r.open) /\ ~(n.active /\ n.open) /\ r.out # <<>>
    <2>1. PICK h : h = Head(r.out)
      OBVIOUS
    <2>2. Emitted(r, n) = <<h>> \o <<e>>
      BY <1>2, <1>7, <2>1, Zenon DEF Emitted
    <2>3. h \in Message /\ \A K : h.kind = K => Has(r.out, K)
      BY <1>1, <1>7, <2>1, HasOf
    <2>4. <<h>> \in Seq(Message) /\ \A K : Has(<<h>>, K) => h.kind = K
      BY <2>3 DEF Has
    <2>5. <<h>> \o <<e>> \in Seq(Message)
          /\ \A K : Has(<<h>> \o <<e>>, K) <=> Has(<<h>>, K) \/ Has(<<e>>, K)
      BY <1>4, <2>4, HasBoth
    <2> QED
      BY <1>4, <1>7, <2>2, <2>3, <2>4, <2>5
  <1> QED
    BY <1>5, <1>6, <1>7

\* The sequence that SetToSeq chooses exists.
LEMMA SetToSeqType ==
    ASSUME NEW T, NEW S \in SUBSET T, IsFiniteSet(S)
    PROVE  SetToSeq(S) \in Seq(T)
  <1>1. PICK n \in Nat : n = Cardinality(S)
    BY FS_CardinalityType
  <1>2. \E f \in [1..n -> S] : IsInjective(f)
    BY <1>1, FS_CardinalityType DEF ExistsBijection, Bijection, Injection
  <1>3. SetToSeq(S) \in [1..n -> S]
    BY <1>1, <1>2 DEF SetToSeq
  <1> QED
    BY <1>3

LEMMA DiscoType ==
    ASSUME NEW f, IsFiniteSet(DOMAIN f), \A x \in DOMAIN f : f[x] \in Peer
    PROVE  DiscoEvents({f[x] : x \in DOMAIN f}) \in Seq(AnyEvent)
  <1> DEFINE E == {Event("disconnected", q) : q \in {f[x] : x \in DOMAIN f}}
             g == [x \in DOMAIN f |-> Event("disconnected", f[x])]
  <1>1. g \in Surjection(DOMAIN f, E)
    BY DEF Surjection
  <1>2. IsFiniteSet(E)
    BY <1>1, FS_Surjection
  <1>3. E \in SUBSET AnyEvent
    BY EventType
  <1> HIDE DEF E
  <1>4. SetToSeq(E) \in Seq(AnyEvent)
    BY <1>2, <1>3, SetToSeqType
  <1> QED
    BY <1>4 DEF DiscoEvents, E

LEMMA LinkFacts == MaxLinks \in Nat /\ IsFiniteSet(Link)
  BY PeerAssumption, FS_Interval DEF Link

LEMMA OtherType ==
    ASSUME TypeOK, NEW p \in Peer, NEW l \in DOMAIN links, p \in {links[l].from, links[l].to}
    PROVE  Other(p, l) \in Peer /\ Joins(l, p, Other(p, l))
           /\ {p, Other(p, l)} = {links[l].from, links[l].to}
  BY DEF TypeOK, Other, Joins

LEMMA DisconnectedType ==
    ASSUME TypeOK, NEW p \in Peer, NEW t \in Table, Ends(p, t)
    PROVE  DiscoEvents(Disconnected(p, t)) \in Seq(AnyEvent)
  <1> DEFINE D == {l \in Link : /\ t[l].place \in {"closing", "session", "connecting"}
                                /\ t[l].hosted /\ ~ t[l].open}
             f == [l \in D |-> Other(p, l)]
  <1>1. DOMAIN f = D /\ D \in SUBSET Link
    OBVIOUS
  <1>2. IsFiniteSet(D)
    BY <1>1, LinkFacts, FS_Subset
  <1>3. ASSUME NEW l \in D PROVE f[l] \in Peer
    BY OtherType DEF Ends
  <1>4. Disconnected(p, t) = {f[l] : l \in DOMAIN f}
    BY DEF Disconnected
  <1> HIDE DEF D, f
  <1> QED
    BY <1>1, <1>2, <1>3, <1>4, DiscoType

Wire == [Peer -> [Link -> Seq(Message)]]

\* What the end of a handler of p does with the sessions t and with what w has on
\* its way: who has left the link reads nothing more from it, and greetings come
\* from who is at the other end.
Finished(p, t, w) ==
    /\ sessions' \in [Peer -> Table] /\ procs' \in [Peer -> Seq(AnyEvent)] /\ wire' \in Wire
    /\ \A q \in Peer : q # p => sessions'[q] = sessions[q]
    /\ \A l \in Link : PrunedTo(t[l], sessions'[p][l])
    /\ \A l \in Link :
            IF sessions[p][l].place # "none" /\ sessions'[p][l].place = "none"
            THEN wire'[p][l] = <<>> ELSE wire'[p][l] = w[p][l]
    /\ \A q \in Peer, l \in Link : q # p =>
            /\ ~(Joins(l, p, q) /\ ~Gone(q, l)) \/ ~sessions[p][l].active => wire'[q][l] = w[q][l]
            /\ \A K \in Greetings : Has(wire'[q][l], K) =>
                    \/ Has(w[q][l], K)
                    \/ Joins(l, p, q) /\ Has(sessions[p][l].out, K)

LEMMA FinishFacts ==
    ASSUME TypeOK, NEW p \in Peer, NEW t \in Table, Ends(p, t), NEW es \in Seq(AnyEvent),
           NEW w \in Wire, Finish(p, t, es, w)
    PROVE  Finished(p, t, w)
  <1> DEFINE n == Prune(t)
             events == DiscoEvents(Disconnected(p, t))
  <1>1. n \in Table /\ \A l \in Link : n[l] = PruneOne(t[l]) /\ PrunedTo(t[l], n[l])
    BY PruneFacts DEF Prune, Table, PrunedTo
  <1>2. sessions \in [Peer -> Table] /\ procs \in [Peer -> Seq(AnyEvent)]
    BY DEF TypeOK, Table
  <1>3. events \in Seq(AnyEvent)
    BY DisconnectedType
  <1>4. /\ sessions' = [sessions EXCEPT ![p] = n]
        /\ procs' = [procs EXCEPT ![p] = @ \o es \o events]
        /\ wire' = [q \in Peer |-> [l \in Link |->
              IF q = p THEN IF sessions[p][l].place # "none" /\ n[l].place = "none" THEN <<>>
                            ELSE w[p][l]
              ELSE IF Joins(l, p, q) /\ links[l].up /\ ~ Gone(q, l)
                   THEN w[q][l] \o Emitted(sessions[p][l], n[l])
                   ELSE w[q][l]]]
    BY DEF Finish
  <1> HIDE DEF n, events
  <1>5. sessions' \in [Peer -> Table] /\ sessions'[p] = n
        /\ \A q \in Peer : q # p => sessions'[q] = sessions[q]
    BY <1>1, <1>2, <1>4
  <1>6. procs' \in [Peer -> Seq(AnyEvent)]
    <2>1. procs[p] \o es \o events \in Seq(AnyEvent)
      BY <1>2, <1>3
    <2> QED
      BY <1>2, <1>4, <2>1
  <1>7. ASSUME NEW l \in Link
        PROVE  IF sessions[p][l].place # "none" /\ sessions'[p][l].place = "none"
               THEN wire'[p][l] = <<>> ELSE wire'[p][l] = w[p][l]
    BY <1>4, <1>5
  <1>8. ASSUME NEW q \in Peer, NEW l \in Link, q # p
        PROVE  /\ ~(Joins(l, p, q) /\ ~Gone(q, l)) \/ ~sessions[p][l].active => wire'[q][l] = w[q][l]
               /\ wire'[q][l] \in Seq(Message)
               /\ \A K \in Greetings : Has(wire'[q][l], K) =>
                    \/ Has(w[q][l], K)
                    \/ Joins(l, p, q) /\ Has(sessions[p][l].out, K)
    <2>1. w[q][l] \in Seq(Message) /\ sessions[p][l] \in Session
      BY <1>2 DEF Wire, Table
    <2>2. PICK e : e = Emitted(sessions[p][l], n[l])
      OBVIOUS
    <2>3. /\ e \in Seq(Message)
          /\ \A K \in Greetings : Has(e, K) => Has(sessions[p][l].out, K)
          /\ ~(sessions[p][l].active /\ sessions[p][l].open) => e = <<>>
      BY <2>1, <2>2, EmittedFacts
    <2>4. wire'[q][l] = IF Joins(l, p, q) /\ links[l].up /\ ~ Gone(q, l)
                        THEN w[q][l] \o e ELSE w[q][l]
      BY <1>4, <1>8, <2>2
    <2>5. w[q][l] \o <<>> = w[q][l]
      BY <2>1
    <2>6. /\ w[q][l] \o e \in Seq(Message)
          /\ \A K : Has(w[q][l] \o e, K) <=> Has(w[q][l], K) \/ Has(e, K)
      BY <2>1, <2>3, HasBoth
    <2>7. CASE Joins(l, p, q) /\ links[l].up /\ ~ Gone(q, l)
      <3>1. wire'[q][l] = w[q][l] \o e
        BY <2>4, <2>7
      <3> QED
        BY <2>3, <2>5, <2>6, <2>7, <3>1
    <2>8. CASE ~(Joins(l, p, q) /\ links[l].up /\ ~ Gone(q, l))
      <3>1. wire'[q][l] = w[q][l]
        BY <2>4, <2>8
      <3> QED
        BY <2>1, <3>1
    <2> QED
      BY <2>7, <2>8
  <1>9. wire' \in Wire
    <2>1. wire' = [q \in Peer |-> [l \in Link |-> wire'[q][l]]]
      BY <1>4
    <2>2. ASSUME NEW l \in Link PROVE wire'[p][l] \in Seq(Message)
      <3>1. w[p][l] \in Seq(Message) /\ <<>> \in Seq(Message)
        BY DEF Wire
      <3> QED
        BY <1>7, <3>1
    <2>3. \A q \in Peer, l \in Link : wire'[q][l] \in Seq(Message)
      BY <1>8, <2>2
    <2> QED
      BY <2>1, <2>3 DEF Wire
  <1> QED
    BY <1>1, <1>5, <1>6, <1>7, <1>8, <1>9, Zenon DEF Finished

-----------------------------------------------------------------------------
(* The invariant.                                                           *)

Live == {"connecting", "session"}

\* l is a link that p has made to q.
Made(l, p, q) == l \in DOMAIN links /\ links[l].from = p /\ links[l].to = q

\* Of one link.  A session not there has no state, a discarded one writes no more;
\* one being made is stored under the host exactly at the peer that made the link.
StateInv(l) ==
    \A p \in Peer :
        /\ sessions[p][l].place = "none" => sessions[p][l] = NoSession
        /\ sessions[p][l].place = "duplicate" => ~sessions[p][l].active
        /\ sessions[p][l].place = "connecting" => (sessions[p][l].hosted <=> links[l].from = p)

\* Nothing is on its way to who has left the link, or never was on it.
WireInv(l) ==
    \A p \in Peer :
        \/ l \notin DOMAIN links
        \/ l \in DOMAIN links /\ (p \notin {links[l].from, links[l].to} \/ Gone(p, l))
        => wire[p][l] = <<>>

\* Who made the link sends the handshake, the other peer the response.
KindInv(l) ==
    \A p \in Peer : l \in DOMAIN links =>
        /\ Has(sessions[p][l].out, "handshake") => links[l].from = p
        /\ Has(sessions[p][l].out, "response") => links[l].to = p
        /\ Has(wire[p][l], "handshake") => links[l].to = p
        /\ Has(wire[p][l], "response") => links[l].from = p

\* The far end of l has taken it, and this end knows or will.
Answered(l) ==
    \/ Has(sessions[links[l].to][l].out, "response")
    \/ Has(wire[links[l].from][l], "response")
    \/ sessions[links[l].from][l].place \in {"session", "duplicate"}

AnswerInv(l) ==
    l \in DOMAIN links /\ Answered(l) =>
        links[l].accepted /\ sessions[links[l].to][l].place # "connecting"

\* A link that the peer with the lower uuid has made is not discarded there, and
\* at the other end only instead of being answered.
LowerInv(l) ==
    l \in DOMAIN links /\ <<links[l].from, links[l].to>> \in Lower =>
        /\ sessions[links[l].from][l].place # "duplicate"
        /\ sessions[links[l].to][l].place = "duplicate" => ~Answered(l)

LinkInv(l) == StateInv(l) /\ WireInv(l) /\ KindInv(l) /\ AnswerInv(l) /\ LowerInv(l)

\* Of two links.  A connect under way and a link made that is not given up exclude
\* each other, and there is one at most of them.
OwnInv ==
    \A p, q \in Peer, l, k \in Link :
        Made(l, p, q) /\ sessions[p][l].place \in Live =>
            /\ q \notin pending[p]
            /\ Made(k, p, q) /\ sessions[p][k].place \in Live => l = k

OneInv ==
    \A p, q \in Peer, l, k \in Link :
        /\ Joins(l, p, q) /\ sessions[p][l].place = "session"
        /\ Joins(k, p, q) /\ sessions[p][k].place = "session"
        => l = k

\* Of the links that the other peer has made, the lower one only discards one for
\* another once the maker has left either.
HigherInv ==
    \A p, q \in Peer, l, k \in Link :
        /\ <<p, q>> \in Lower /\ Made(l, q, p) /\ Made(k, q, p)
        /\ sessions[p][k].place = "session" /\ sessions[p][l].place = "duplicate"
        => \/ sessions[q][k].place \notin Live \cup {"duplicate"}
           \/ sessions[q][l].place \notin Live

PairInv == OwnInv /\ OneInv /\ HigherInv

SessionInv == PairInv /\ \A l \in Link : LinkInv(l)

PeerInv == NetInv /\ SessionInv

-----------------------------------------------------------------------------
(* Steps that leave sessions where they are, or end them.                   *)

\* What a handler of p may have made of what is on its way: p reads, and writes to
\* who is there.
Wired(p, w) ==
    /\ \A l \in Link : wire[p][l] = <<>> => w[p][l] = <<>>
    /\ \A q \in Peer, l \in Link : q # p /\ ~(Joins(l, p, q) /\ ~Gone(q, l)) => w[q][l] = wire[q][l]
    /\ \A q \in Peer, l \in Link, K \in Greetings : Has(w[q][l], K) =>
            \/ Has(wire[q][l], K)
            \/ q # p /\ Joins(l, p, q) /\ Has(sessions[p][l].out, K)

\* The session t is r, as far as greetings go.
Alike(r, t) ==
    /\ t.place = r.place /\ t.hosted = r.hosted
    /\ r.place = "none" => t = r
    /\ \A K \in Greetings : Has(t.out, K) => Has(r.out, K)

Calm(p, t) == \A l \in Link : Alike(sessions[p][l], t[l])

\* The session r goes on as n, is given up, or has ended.
Falls(r, n) ==
    /\ n.place = r.place \/ n.place \in {"closing", "none"}
    /\ r.place = "none" => n = r
    /\ n.place = "none" => n = NoSession
    /\ n.place = "connecting" => n.hosted = r.hosted
    /\ n.place = "duplicate" => ~n.active
    /\ \A K \in Greetings : Has(n.out, K) => Has(r.out, K)

\* p's session on link l goes on as, or ends.
FallsAt(l) == \A q \in Peer : Falls(sessions[q][l], sessions'[q][l])

SameLink(l) ==
    /\ l \in DOMAIN links' <=> l \in DOMAIN links
    /\ l \in DOMAIN links =>
            /\ links'[l].from = links[l].from /\ links'[l].to = links[l].to
            /\ links'[l].accepted = links[l].accepted

\* Greetings come from the other end.
Greeted ==
    \A q \in Peer, l \in Link, K \in Greetings : Has(wire'[q][l], K) =>
        \/ Has(wire[q][l], K)
        \/ \E p \in Peer : q # p /\ Joins(l, p, q) /\ Has(sessions[p][l].out, K)

\* A host that p will connect to has neither a session nor a link being made.
Connects ==
    \A p, q \in Peer : q \in pending'[p] =>
        \/ q \in pending[p]
        \/ SessionsWith(sessions[p], p, q) = {} /\ ConnectingTo(sessions[p], p, q) = {}

\* No session is new, or made.
PairStep ==
    /\ Connects
    /\ \A l \in Link :
            /\ l \in DOMAIN links' <=> l \in DOMAIN links
            /\ l \in DOMAIN links => links'[l].from = links[l].from /\ links'[l].to = links[l].to
            /\ \A q \in Peer :
                  /\ sessions'[q][l].place \in {"session", "duplicate"} =>
                        sessions'[q][l].place = sessions[q][l].place
                  /\ l \in DOMAIN links /\ links[l].from = q /\ sessions'[q][l].place \in Live =>
                        sessions'[q][l].place = sessions[q][l].place

LEMMA WiredSame ==
    ASSUME NEW p \in Peer PROVE Wired(p, wire)
  BY DEF Wired

LEMMA WiredRead ==
    ASSUME TypeOK, NEW p \in Peer, NEW l \in Link, wire[p][l] # <<>>
    PROVE  Wired(p, Read(p, l)) /\ Read(p, l) \in Wire
  <1>1. wire \in Wire /\ wire[p][l] \in Seq(Message)
    BY DEF TypeOK, Wire
  <1>2. PICK s : s = Tail(wire[p][l])
    OBVIOUS
  <1>3. s \in Seq(Message) /\ \A K : Has(s, K) => Has(wire[p][l], K)
    BY <1>1, <1>2, HasOf, HeadTailProperties
  <1>4. Read(p, l) = [wire EXCEPT ![p][l] = s]
    BY <1>2 DEF Read
  <1>5. Read(p, l) \in Wire
    BY <1>1, <1>3, <1>4 DEF Wire
  <1>6. \A q \in Peer, k \in Link :
            Read(p, l)[q][k] = IF q = p /\ k = l THEN s ELSE wire[q][k]
    BY <1>1, <1>4 DEF Wire
  <1> QED
    BY <1>3, <1>5, <1>6 DEF Wired

LEMMA WiredWritten ==
    ASSUME NetInv, NEW p \in Peer, NEW l \in Link, l \in DOMAIN links,
           sessions[p][l].place # "none", sessions[p][l].out # <<>>
    PROVE  Wired(p, Written(p, l)) /\ Written(p, l) \in Wire
  <1>1. wire \in Wire /\ sessions[p][l].out \in Seq(Message)
    <2>1. wire \in Wire /\ sessions[p][l] \in Session
      BY DEF NetInv, TypeOK, Wire
    <2> QED
      BY <2>1, SessionTypes
  <1>2. PICK q : q = Other(p, l)
    OBVIOUS
  <1>3. q \in Peer /\ Joins(l, p, q) /\ {p, q} = {links[l].from, links[l].to} /\ q # p
    <2>1. p \in {links[l].from, links[l].to}
      BY DEF NetInv, EndsInv
    <2>2. q \in Peer /\ Joins(l, p, q) /\ {p, q} = {links[l].from, links[l].to}
      BY <1>2, <2>1, OtherType DEF NetInv
    <2>3. links[l].from # links[l].to
      BY DEF NetInv, HostsInv
    <2> QED
      BY <2>2, <2>3
  <1>4. PICK m : m = Head(sessions[p][l].out)
    OBVIOUS
  <1>5. m \in Message /\ \A K : m.kind = K => Has(sessions[p][l].out, K)
    BY <1>1, <1>4, HasOf
  <1>6. PICK s : s = IF Gone(q, l) THEN wire[q][l] ELSE Append(wire[q][l], m)
    OBVIOUS
  <1>7. wire[q][l] \in Seq(Message)
    BY <1>1, <1>3 DEF Wire
  <1>8. s \in Seq(Message) /\ \A K : Has(s, K) => Has(wire[q][l], K) \/ Has(sessions[p][l].out, K)
    BY <1>5, <1>6, <1>7, HasOf, AppendProperties
  <1>9. Written(p, l) = [wire EXCEPT ![q][l] = s]
    <2>1. Written(p, l) = [wire EXCEPT ![q][l] = IF Gone(q, l) THEN wire[q][l] ELSE Append(wire[q][l], m)]
      BY <1>2, <1>4 DEF Written
    <2> QED
      BY <1>6, <2>1, Zenon
  <1>10. Written(p, l) \in Wire
    <2>1. [wire[q] EXCEPT ![l] = s] \in [Link -> Seq(Message)]
      BY <1>1, <1>3, <1>8 DEF Wire
    <2>2. Written(p, l) = [wire EXCEPT ![q] = [wire[q] EXCEPT ![l] = s]]
      BY <1>9
    <2> QED
      BY <1>1, <2>1, <2>2 DEF Wire
  <1>11. \A r \in Peer, k \in Link :
            Written(p, l)[r][k] = IF r = q /\ k = l THEN s ELSE wire[r][k]
    BY <1>1, <1>9 DEF Wire
  <1>12. Gone(q, l) => s = wire[q][l]
    BY <1>6
  <1> QED
    BY <1>3, <1>8, <1>10, <1>11, <1>12 DEF Wired

\* What is on its way after a handler.
LEMMA FinishedWire ==
    ASSUME PeerInv, NEW p \in Peer, NEW t, NEW w, Finished(p, t, w), Wired(p, w)
    PROVE  Greeted /\ \A l \in Link : SameLink(l) => WireInv(l)'
  <1>1. Greeted
    <2> SUFFICES ASSUME NEW q \in Peer, NEW l \in Link, NEW K \in Greetings, Has(wire'[q][l], K)
                 PROVE  \/ Has(wire[q][l], K)
                        \/ q # p /\ Joins(l, p, q) /\ Has(sessions[p][l].out, K)
      BY DEF Greeted
    <2>1. \/ Has(w[q][l], K)
          \/ q # p /\ Joins(l, p, q) /\ Has(sessions[p][l].out, K)
      BY HasNone DEF Finished
    <2> QED
      BY <2>1 DEF Wired
  <1>2. ASSUME NEW l \in Link, SameLink(l) PROVE WireInv(l)'
    <2> SUFFICES ASSUME NEW q \in Peer,
                        \/ l \notin DOMAIN links'
                        \/ l \in DOMAIN links' /\ (q \notin {links'[l].from, links'[l].to} \/ Gone(q, l)')
                 PROVE  wire'[q][l] = <<>>
      BY DEF WireInv
    <2>0. WireInv(l)
      BY DEF PeerInv, SessionInv, LinkInv
    <2>1. \/ l \notin DOMAIN links
          \/ l \in DOMAIN links /\ q \notin {links[l].from, links[l].to}
          \/ l \in DOMAIN links /\ sessions'[q][l].place = "none" /\ (links[l].from = q \/ links[l].accepted)
      BY <1>2 DEF SameLink, Gone
    <2>2. CASE q # p
      <3>1. sessions'[q] = sessions[q]
        BY <2>2 DEF Finished
      <3>2. /\ \/ l \notin DOMAIN links
               \/ l \in DOMAIN links /\ (q \notin {links[l].from, links[l].to} \/ Gone(q, l))
            /\ ~(Joins(l, p, q) /\ ~Gone(q, l))
        BY <2>1, <3>1 DEF Gone, Joins
      <3>3. wire[q][l] = <<>>
        BY <2>0, <3>2 DEF WireInv
      <3>4. w[q][l] = wire[q][l] /\ wire'[q][l] = w[q][l]
        BY <2>2, <3>2 DEF Wired, Finished
      <3> QED
        BY <3>3, <3>4
    <2>3. CASE q = p
      <3>1. CASE sessions[p][l].place # "none" /\ sessions'[p][l].place = "none"
        BY <2>3, <3>1 DEF Finished
      <3>2. CASE ~(sessions[p][l].place # "none" /\ sessions'[p][l].place = "none")
        <4>1. \/ l \notin DOMAIN links
              \/ l \in DOMAIN links /\ (p \notin {links[l].from, links[l].to} \/ Gone(p, l))
          BY <2>1, <2>3, <3>2 DEF Gone
        <4>2. wire[p][l] = <<>>
          BY <2>0, <4>1 DEF WireInv
        <4>3. w[p][l] = <<>> /\ wire'[p][l] = w[p][l]
          BY <3>2, <4>2 DEF Wired, Finished
        <4> QED
          BY <2>3, <4>3
      <3> QED
        BY <3>1, <3>2
    <2> QED
      BY <2>2, <2>3
  <1> QED
    BY <1>1, <1>2

\* A session that the handler leaves as it is.
LEMMA FinishedFalls ==
    ASSUME PeerInv, NEW p \in Peer, NEW t, NEW w, Finished(p, t, w),
           NEW l \in Link, Alike(sessions[p][l], t[l])
    PROVE  FallsAt(l)
  <1>1. sessions \in [Peer -> Table] /\ sessions' \in [Peer -> Table]
    BY DEF PeerInv, NetInv, TypeOK, Table, Finished
  <1>2. ASSUME NEW q \in Peer PROVE Falls(sessions[q][l], sessions'[q][l])
    <2>1. PICK r \in Session : r = sessions[q][l]
      BY <1>1 DEF Table
    <2>2. PICK n \in Session : n = sessions'[q][l]
      BY <1>1 DEF Table
    <2>3. /\ r.place = "none" => r = NoSession
          /\ r.place = "duplicate" => ~r.active
      BY <2>1 DEF PeerInv, SessionInv, LinkInv, StateInv
    <2>4. n.place \in {"none", "connecting", "session", "closing", "duplicate"}
      BY SessionTypes DEF Place
    <2>5. CASE q # p
      <3>1. n = r
        BY <2>1, <2>2, <2>5 DEF Finished
      <3> QED
        BY <2>1, <2>2, <2>3, <3>1 DEF Falls
    <2>6. CASE q = p
      <3>1. PICK x : x = t[l]
        OBVIOUS
      <3>2. PrunedTo(x, n) /\ Alike(r, x)
        BY <2>1, <2>2, <2>6, <3>1, Zenon DEF Finished
      <3>3. /\ n.place = r.place \/ n.place \in {"closing", "none"}
            /\ r.place = "none" => n = r
            /\ n.place = "none" => n = NoSession
            /\ n.place = "connecting" => n.hosted = r.hosted
            /\ n.place = "duplicate" => ~n.active
        BY <2>3, <2>4, <3>2 DEF PrunedTo, Alike
      <3>4. ASSUME NEW K \in Greetings, Has(n.out, K) PROVE Has(r.out, K)
        BY <3>2, <3>4, HasNone DEF PrunedTo, Alike
      <3> QED
        BY <2>1, <2>2, <3>3, <3>4 DEF Falls
    <2> QED
      BY <2>5, <2>6
  <1> QED
    BY <1>2 DEF FallsAt

\* What a link that only goes on or ends looks like after the step.
LEMMA LinkStep ==
    ASSUME PeerInv, NEW l \in Link, SameLink(l), FallsAt(l), sessions' \in [Peer -> Table]
    PROVE  /\ \A q \in Peer :
                 /\ sessions'[q][l].place \in {"none", "connecting", "session", "closing", "duplicate"}
                 /\ sessions'[q][l].place \notin {"none", "closing"} =>
                        sessions'[q][l].place = sessions[q][l].place
                 /\ sessions[q][l].place # "none" => l \in DOMAIN links
                 /\ \A K \in Greetings : Has(sessions'[q][l].out, K) => Has(sessions[q][l].out, K)
           /\ l \in DOMAIN links' <=> l \in DOMAIN links
           /\ l \in DOMAIN links =>
                 /\ links'[l].from = links[l].from /\ links'[l].to = links[l].to
                 /\ links'[l].accepted = links[l].accepted
                 /\ links[l].from \in Peer /\ links[l].to \in Peer /\ links[l].from # links[l].to
  <1>1. ASSUME NEW q \in Peer
        PROVE  /\ sessions'[q][l].place \in {"none", "connecting", "session", "closing", "duplicate"}
               /\ sessions'[q][l].place \notin {"none", "closing"} =>
                        sessions'[q][l].place = sessions[q][l].place
               /\ sessions[q][l].place # "none" => l \in DOMAIN links
               /\ \A K \in Greetings : Has(sessions'[q][l].out, K) => Has(sessions[q][l].out, K)
    <2>1. sessions'[q][l] \in Session
      BY DEF Table
    <2>2. sessions'[q][l].place \in Place
      BY <2>1, SessionTypes
    <2> QED
      BY <2>2 DEF FallsAt, Falls, Place, PeerInv, NetInv, EndsInv
  <1> QED
    BY <1>1 DEF SameLink, PeerInv, NetInv, HostsInv, TypeOK

LEMMA GreetedFrom ==
    ASSUME PeerInv, Greeted, NEW l \in DOMAIN links, NEW q \in Peer, NEW K \in Greetings,
           Has(wire'[q][l], K)
    PROVE  \/ Has(wire[q][l], K)
           \/ q = links[l].to /\ Has(sessions[links[l].from][l].out, K)
           \/ q = links[l].from /\ Has(sessions[links[l].to][l].out, K)
  <1>0. l \in Link
    BY DEF PeerInv, NetInv, TypeOK
  <1>1. CASE Has(wire[q][l], K)
    BY <1>1
  <1>2. CASE ~Has(wire[q][l], K)
    <2>1. PICK p \in Peer : q # p /\ Joins(l, p, q) /\ Has(sessions[p][l].out, K)
      BY <1>0, <1>2 DEF Greeted
    <2>2. \/ p = links[l].from /\ q = links[l].to
          \/ p = links[l].to /\ q = links[l].from
      BY <2>1 DEF Joins
    <2> QED
      BY <2>1, <2>2
  <1> QED
    BY <1>1, <1>2

LEMMA SentKinds ==
    ASSUME PeerInv, Greeted, NEW l \in DOMAIN links, NEW q \in Peer
    PROVE  /\ Has(wire'[q][l], "handshake") => links[l].to = q
           /\ Has(wire'[q][l], "response") => links[l].from = q
  <1>1. l \in Link /\ links[l].from \in Peer /\ links[l].to \in Peer /\ links[l].from # links[l].to
        /\ "handshake" \in Greetings /\ "response" \in Greetings
    BY DEF PeerInv, NetInv, TypeOK, HostsInv, Greetings
  <1>2. \A p \in Peer :
            /\ Has(sessions[p][l].out, "handshake") => links[l].from = p
            /\ Has(sessions[p][l].out, "response") => links[l].to = p
            /\ Has(wire[p][l], "handshake") => links[l].to = p
            /\ Has(wire[p][l], "response") => links[l].from = p
    BY <1>1 DEF PeerInv, SessionInv, LinkInv, KindInv
  <1>3. Has(wire'[q][l], "handshake") => links[l].to = q
    BY <1>1, <1>2, GreetedFrom
  <1>4. Has(wire'[q][l], "response") => links[l].from = q
    BY <1>1, <1>2, GreetedFrom
  <1> QED
    BY <1>3, <1>4

LEMMA CalmLink ==
    ASSUME PeerInv, NEW l \in Link, SameLink(l), FallsAt(l), Greeted, WireInv(l)',
           sessions' \in [Peer -> Table]
    PROVE  LinkInv(l)'
  <1>1. StateInv(l)'
    <2> SUFFICES ASSUME NEW q \in Peer
                 PROVE  /\ sessions'[q][l].place = "none" => sessions'[q][l] = NoSession
                        /\ sessions'[q][l].place = "duplicate" => ~sessions'[q][l].active
                        /\ sessions'[q][l].place = "connecting" =>
                                (sessions'[q][l].hosted <=> links'[l].from = q)
      BY DEF StateInv
    <2>1. /\ sessions'[q][l].place = "none" => sessions'[q][l] = NoSession
          /\ sessions'[q][l].place = "duplicate" => ~sessions'[q][l].active
      BY DEF FallsAt, Falls
    <2>2. ASSUME sessions'[q][l].place = "connecting"
          PROVE  sessions'[q][l].hosted <=> links'[l].from = q
      <3>1. sessions[q][l].place = "connecting" /\ links'[l].from = links[l].from
        BY <2>2, LinkStep
      <3>2. sessions'[q][l].hosted = sessions[q][l].hosted
        BY <2>2 DEF FallsAt, Falls
      <3>3. sessions[q][l].hosted <=> links[l].from = q
        BY <3>1 DEF PeerInv, SessionInv, LinkInv, StateInv
      <3> QED
        BY <3>1, <3>2, <3>3
    <2> QED
      BY <2>1, <2>2
  <1>2. KindInv(l)'
    <2> SUFFICES ASSUME NEW q \in Peer, l \in DOMAIN links
                 PROVE  /\ Has(sessions'[q][l].out, "handshake") => links[l].from = q
                        /\ Has(sessions'[q][l].out, "response") => links[l].to = q
                        /\ Has(wire'[q][l], "handshake") => links[l].to = q
                        /\ Has(wire'[q][l], "response") => links[l].from = q
      BY LinkStep DEF KindInv
    <2>1. /\ Has(sessions[q][l].out, "handshake") => links[l].from = q
          /\ Has(sessions[q][l].out, "response") => links[l].to = q
      BY DEF PeerInv, SessionInv, LinkInv, KindInv
    <2>2. "handshake" \in Greetings /\ "response" \in Greetings
      BY DEF Greetings
    <2>3. /\ Has(sessions'[q][l].out, "handshake") => Has(sessions[q][l].out, "handshake")
          /\ Has(sessions'[q][l].out, "response") => Has(sessions[q][l].out, "response")
      BY <2>2, LinkStep
    <2> QED
      BY <2>1, <2>3, SentKinds
  <1>3. ASSUME l \in DOMAIN links, Answered(l)' PROVE Answered(l)
    <2>1. PICK f \in Peer : f = links[l].from
      BY <1>3, LinkStep
    <2>2. PICK o \in Peer : o = links[l].to
      BY <1>3, LinkStep
    <2>3. f # o /\ links'[l].from = f /\ links'[l].to = o /\ "response" \in Greetings
      BY <1>3, <2>1, <2>2, LinkStep DEF Greetings
    <2>4. \/ Has(sessions'[o][l].out, "response")
          \/ Has(wire'[f][l], "response")
          \/ sessions'[f][l].place \in {"session", "duplicate"}
      BY <1>3, <2>3 DEF Answered
    <2>5. Has(wire'[f][l], "response") => Has(wire[f][l], "response") \/ Has(sessions[o][l].out, "response")
      BY <1>3, <2>1, <2>2, <2>3, GreetedFrom
    <2>6. Has(sessions'[o][l].out, "response") => Has(sessions[o][l].out, "response")
      BY <2>3, LinkStep
    <2>7. sessions'[f][l].place \in {"session", "duplicate"} => sessions[f][l].place = sessions'[f][l].place
      BY LinkStep
    <2> QED
      BY <2>1, <2>2, <2>4, <2>5, <2>6, <2>7 DEF Answered
  <1>4. AnswerInv(l)'
    <2> SUFFICES ASSUME l \in DOMAIN links, Answered(l)'
                 PROVE  links'[l].accepted /\ sessions'[links'[l].to][l].place # "connecting"
      BY LinkStep DEF AnswerInv
    <2>1. links[l].accepted /\ sessions[links[l].to][l].place # "connecting"
      BY <1>3 DEF PeerInv, SessionInv, LinkInv, AnswerInv
    <2> QED
      BY <2>1, LinkStep
  <1>5. LowerInv(l)'
    <2> SUFFICES ASSUME l \in DOMAIN links, <<links[l].from, links[l].to>> \in Lower
                 PROVE  /\ sessions'[links[l].from][l].place # "duplicate"
                        /\ sessions'[links[l].to][l].place = "duplicate" => ~Answered(l)'
      BY LinkStep DEF LowerInv
    <2>1. /\ sessions[links[l].from][l].place # "duplicate"
          /\ sessions[links[l].to][l].place = "duplicate" => ~Answered(l)
      BY DEF PeerInv, SessionInv, LinkInv, LowerInv
    <2> QED
      BY <1>3, <2>1, LinkStep
  <1> QED
    BY <1>1, <1>2, <1>4, <1>5, Zenon DEF LinkInv

LEMMA PairKept ==
    ASSUME PeerInv, PairStep
    PROVE  PairInv'
  <1>1. \A p, q \in Peer, l \in Link :
            /\ Made(l, p, q)' <=> Made(l, p, q)
            /\ Joins(l, p, q)' <=> Joins(l, p, q)
    BY DEF PairStep, Made, Joins
  <1>2. OwnInv'
    <2> SUFFICES ASSUME NEW p \in Peer, NEW q \in Peer, NEW l \in Link, NEW k \in Link,
                        Made(l, p, q)', sessions'[p][l].place \in Live
                 PROVE  /\ q \notin pending'[p]
                        /\ Made(k, p, q)' /\ sessions'[p][k].place \in Live => l = k
      BY DEF OwnInv
    <2>1. Made(l, p, q) /\ (Made(k, p, q)' => Made(k, p, q))
      BY <1>1
    <2>2. /\ sessions[p][l].place \in Live
          /\ Made(k, p, q) /\ sessions'[p][k].place \in Live => sessions[p][k].place \in Live
      BY <2>1 DEF PairStep, Made
    <2>3. q \notin pending[p] /\ (Made(k, p, q) /\ sessions[p][k].place \in Live => l = k)
      BY <2>1, <2>2 DEF PeerInv, SessionInv, PairInv, OwnInv
    <2>4. l \in SessionsWith(sessions[p], p, q) \/ l \in ConnectingTo(sessions[p], p, q)
      <3>1. l \in DOMAIN links /\ links[l].from = p /\ Joins(l, p, q)
        BY <2>1 DEF Made, Joins
      <3>2. sessions[p][l].place = "connecting" => sessions[p][l].hosted
        BY <3>1 DEF PeerInv, SessionInv, LinkInv, StateInv
      <3> QED
        BY <2>2, <3>1, <3>2 DEF Live, SessionsWith, ConnectingTo
    <2>5. q \notin pending'[p]
      BY <2>3, <2>4 DEF PairStep, Connects
    <2> QED
      BY <2>1, <2>2, <2>3, <2>5
  <1>3. OneInv'
    <2> SUFFICES ASSUME NEW p \in Peer, NEW q \in Peer, NEW l \in Link, NEW k \in Link,
                        Joins(l, p, q)', sessions'[p][l].place = "session",
                        Joins(k, p, q)', sessions'[p][k].place = "session"
                 PROVE  l = k
      BY DEF OneInv
    <2>1. Joins(l, p, q) /\ Joins(k, p, q)
      BY <1>1
    <2>2. sessions[p][l].place = "session" /\ sessions[p][k].place = "session"
      BY DEF PairStep
    <2> QED
      BY <2>1, <2>2 DEF PeerInv, SessionInv, PairInv, OneInv
  <1>4. HigherInv'
    <2> SUFFICES ASSUME NEW p \in Peer, NEW q \in Peer, NEW l \in Link, NEW k \in Link,
                        <<p, q>> \in Lower, Made(l, q, p)', Made(k, q, p)',
                        sessions'[p][k].place = "session", sessions'[p][l].place = "duplicate",
                        sessions'[q][k].place \in Live \cup {"duplicate"},
                        sessions'[q][l].place \in Live
                 PROVE  FALSE
      BY DEF HigherInv
    <2>1. Made(l, q, p) /\ Made(k, q, p)
      BY <1>1
    <2>2. sessions[p][k].place = "session" /\ sessions[p][l].place = "duplicate"
      BY DEF PairStep
    <2>3. /\ sessions[q][k].place \in Live \cup {"duplicate"}
          /\ sessions[q][l].place \in Live
      BY <2>1 DEF PairStep, Made, Live
    <2> QED
      BY <2>1, <2>2, <2>3 DEF PeerInv, SessionInv, PairInv, HigherInv
  <1> QED
    BY <1>2, <1>3, <1>4 DEF PairInv

CalmStep ==
    /\ Greeted /\ Connects /\ sessions' \in [Peer -> Table]
    /\ \A l \in Link : SameLink(l) /\ FallsAt(l) /\ WireInv(l)'

LEMMA CalmInv ==
    ASSUME PeerInv, CalmStep
    PROVE  SessionInv'
  <1>1. \A l \in Link : LinkInv(l)'
    BY CalmLink DEF CalmStep
  <1>2. PairStep
    <2>1. Connects
      BY DEF CalmStep
    <2>2. ASSUME NEW l \in Link
          PROVE  /\ l \in DOMAIN links' <=> l \in DOMAIN links
                 /\ l \in DOMAIN links => links'[l].from = links[l].from /\ links'[l].to = links[l].to
                 /\ \A q \in Peer :
                       /\ sessions'[q][l].place \in {"session", "duplicate"} =>
                             sessions'[q][l].place = sessions[q][l].place
                       /\ l \in DOMAIN links /\ links[l].from = q /\ sessions'[q][l].place \in Live =>
                             sessions'[q][l].place = sessions[q][l].place
      BY LinkStep DEF CalmStep, Live
    <2> QED
      BY <2>1, <2>2, Zenon DEF PairStep
  <1> QED
    BY <1>1, <1>2, PairKept DEF SessionInv

LEMMA NoSessionThere ==
    ASSUME PeerInv, NEW p \in Peer, NEW l \in Link, sessions[p][l].place = "none"
    PROVE  sessions[p][l] = NoSession
  BY DEF PeerInv, SessionInv, LinkInv, StateInv

-----------------------------------------------------------------------------
(* Each action keeps the invariant.                                         *)

LEMMA QuietInv ==
    ASSUME PeerInv, UNCHANGED <<links, sessions, wire, pending>>
    PROVE  SessionInv' /\ EndsInv'
  <1>1. CalmStep
    <2>1. Greeted /\ Connects
      BY DEF Greeted, Connects
    <2>2. sessions' \in [Peer -> Table]
      BY DEF PeerInv, NetInv, TypeOK, Table
    <2>3. ASSUME NEW l \in Link PROVE SameLink(l) /\ FallsAt(l) /\ WireInv(l)'
      <3>1. SameLink(l)
        BY DEF SameLink
      <3>2. StateInv(l) /\ WireInv(l)
        BY DEF PeerInv, SessionInv, LinkInv
      <3>3. FallsAt(l) /\ WireInv(l)'
        BY <3>2 DEF StateInv, FallsAt, Falls, WireInv, Gone
      <3> QED
        BY <3>1, <3>3
    <2> QED
      BY <2>1, <2>2, <2>3 DEF CalmStep
  <1>2. EndsInv'
    BY DEF PeerInv, NetInv, EndsInv
  <1> QED
    BY <1>1, <1>2, CalmInv

\* What the end of a handler keeps.
Handled ==
    /\ SessionInv' /\ EndsInv'
    /\ sessions' \in [Peer -> [Link -> Session]]
    /\ wire' \in [Peer -> [Link -> Seq(Message)]]
    /\ procs' \in [Peer -> Seq(AnyEvent)]

\* Sessions stay at ends of links.
LEMMA FinishedEnds ==
    ASSUME PeerInv, NEW p \in Peer, NEW t, NEW w, Finished(p, t, w), links' = links,
           \A l \in Link : t[l].place # "none" => sessions[p][l].place # "none"
    PROVE  EndsInv'
  <1> SUFFICES ASSUME NEW q \in Peer, NEW l \in Link, sessions'[q][l].place # "none"
               PROVE  sessions[q][l].place # "none"
    BY DEF EndsInv, PeerInv, NetInv
  <1>1. CASE q # p
    BY <1>1 DEF Finished
  <1>2. CASE q = p
    <2>1. PrunedTo(t[l], sessions'[p][l])
      BY DEF Finished
    <2> QED
      BY <1>2, <2>1 DEF PrunedTo
  <1> QED
    BY <1>1, <1>2

LEMMA CalmHandled ==
    ASSUME PeerInv, NEW p \in Peer, NEW t \in Table, NEW es \in Seq(AnyEvent), NEW w \in Wire,
           Finish(p, t, es, w), Calm(p, t), Wired(p, w), links' = links, Connects
    PROVE  Handled
  <1>1. ASSUME NEW l \in Link, t[l].place # "none" PROVE sessions[p][l].place # "none"
    BY <1>1 DEF Calm, Alike
  <1>2. Ends(p, t)
    BY <1>1 DEF Ends, PeerInv, NetInv, EndsInv
  <1>3. Finished(p, t, w)
    BY <1>2, FinishFacts DEF PeerInv, NetInv
  <1>4. \A l \in Link : SameLink(l)
    BY DEF SameLink
  <1>5. CalmStep
    <2>1. Greeted /\ \A l \in Link : WireInv(l)'
      BY <1>3, <1>4, FinishedWire
    <2>2. \A l \in Link : FallsAt(l)
      BY <1>3, FinishedFalls DEF Calm
    <2> QED
      BY <1>3, <1>4, <2>1, <2>2 DEF CalmStep, Finished
  <1>6. SessionInv'
    BY <1>5, CalmInv
  <1>7. EndsInv'
    BY <1>1, <1>3, FinishedEnds
  <1> QED
    BY <1>3, <1>6, <1>7 DEF Handled, Finished, Table, Wire

LEMMA SamePendingConnects ==
    ASSUME \A p \in Peer : pending'[p] \subseteq pending[p]
    PROVE  Connects
  BY DEF Connects

LEMMA SessionsAreTable ==
    ASSUME PeerInv, NEW p \in Peer
    PROVE  /\ sessions[p] \in Table /\ wire \in Wire /\ Wired(p, wire) /\ <<>> \in Seq(AnyEvent)
           /\ Calm(p, sessions[p])
           /\ \A l \in Link : sessions[p][l] \in Session
  <1>1. sessions[p] \in Table /\ wire \in Wire
    BY DEF PeerInv, NetInv, TypeOK, Table, Wire
  <1>2. Calm(p, sessions[p])
    BY DEF Calm, Alike
  <1>3. <<>> \in Seq(AnyEvent)
    OBVIOUS
  <1> QED
    BY <1>1, <1>2, <1>3, WiredSame DEF Table

LEMMA PostType ==
    ASSUME TypeOK, NEW p \in Peer, NEW kind \in {"connect", "remove", "write"}, NEW q \in Peer,
           Post(p, [kind |-> kind, peer |-> q])
    PROVE  tasks' \in [Peer -> Seq([kind : {"connect", "remove", "write"}, peer : Peer])]
  <1> DEFINE T == [kind : {"connect", "remove", "write"}, peer : Peer]
  <1>1. PICK x \in T : x = [kind |-> kind, peer |-> q]
    OBVIOUS
  <1>2. tasks \in [Peer -> Seq(T)] /\ tasks' = [tasks EXCEPT ![p] = Append(@, x)]
    BY <1>1 DEF TypeOK, Post
  <1> HIDE DEF T
  <1>3. tasks[p] \in Seq(T)
    BY <1>2
  <1>4. Append(tasks[p], x) \in Seq(T)
    BY <1>3, AppendProperties
  <1>5. tasks' \in [Peer -> Seq(T)]
    BY <1>2, <1>4
  <1> QED
    BY <1>5 DEF T

LEMMA DoneType ==
    ASSUME TypeOK, NEW p \in Peer, tasks[p] # <<>>, tasks' = [tasks EXCEPT ![p] = Tail(@)]
    PROVE  tasks' \in [Peer -> Seq([kind : {"connect", "remove", "write"}, peer : Peer])]
  <1> DEFINE T == [kind : {"connect", "remove", "write"}, peer : Peer]
  <1>1. tasks \in [Peer -> Seq(T)]
    BY DEF TypeOK
  <1> HIDE DEF T
  <1>2. Tail(tasks[p]) \in Seq(T)
    BY <1>1, HeadTailProperties
  <1>3. tasks' \in [Peer -> Seq(T)]
    BY <1>1, <1>2
  <1> QED
    BY <1>3 DEF T

LEMMA AddHostInv ==
    ASSUME PeerInv, NEW p \in Peer, NEW q \in Hosts[p], AddHost(p, q)
    PROVE  PeerInv'
  <1>1. q \in Peer /\ q # p
    BY PeerAssumption
  <1>2. SessionInv' /\ EndsInv'
    BY QuietInv DEF AddHost, asio
  <1>3. tasks' \in [Peer -> Seq([kind : {"connect", "remove", "write"}, peer : Peer])]
    BY <1>1, PostType DEF AddHost, PeerInv, NetInv
  <1>4. HostsInv'
    <2>1. queued' = [queued EXCEPT ![p] = @ \cup {q}] /\ queued \in [Peer -> SUBSET Peer]
      BY DEF AddHost, PeerInv, NetInv, TypeOK
    <2>2. ASSUME NEW r \in Peer PROVE r \notin queued'[r] /\ r \notin pending'[r]
      BY <1>1, <2>1 DEF AddHost, PeerInv, NetInv, HostsInv
    <2>3. links' = links
      BY DEF AddHost, asio
    <2> QED
      BY <2>2, <2>3 DEF PeerInv, NetInv, HostsInv
  <1>5. known' \in [Peer -> SUBSET Peer] /\ queued' \in [Peer -> SUBSET Peer]
        /\ {adds', sends', losses'} \subseteq Nat
    <2>1. known \in [Peer -> SUBSET Peer] /\ queued \in [Peer -> SUBSET Peer]
          /\ adds \in Nat /\ sends \in Nat /\ losses \in Nat
      BY DEF PeerInv, NetInv, TypeOK
    <2> QED
      BY <1>1, <2>1 DEF AddHost
  <1>6. TypeOK'
    <2>1. UNCHANGED <<links, sessions, wire, pending, writes, procs, recvs, todo>>
      BY DEF AddHost, asio
    <2> QED
      BY <1>3, <1>5, <2>1 DEF PeerInv, NetInv, TypeOK
  <1> QED
    BY <1>2, <1>4, <1>6 DEF PeerInv, NetInv

LEMMA EnsureHostsInv ==
    ASSUME PeerInv, NEW p \in Peer, EnsureHosts(p)
    PROVE  PeerInv'
  <1>1. PICK missing : missing = Persistent[p] \ known[p]
    OBVIOUS
  <1>2. missing \in SUBSET Peer /\ p \notin missing
    BY <1>1, PeerAssumption
  <1>3. /\ known' = [known EXCEPT ![p] = @ \cup missing]
        /\ queued' = [queued EXCEPT ![p] = @ \cup missing]
        /\ Post(p, [kind |-> "connect", peer |-> p])
        /\ UNCHANGED <<asio, pending, writes, procs, recvs, todo, bounds>>
    BY <1>1 DEF EnsureHosts
  <1>4. SessionInv' /\ EndsInv'
    BY <1>3, QuietInv DEF asio
  <1>5. tasks' \in [Peer -> Seq([kind : {"connect", "remove", "write"}, peer : Peer])]
    BY <1>3, PostType DEF PeerInv, NetInv
  <1>6. HostsInv'
    <2>1. ASSUME NEW r \in Peer PROVE r \notin queued'[r] /\ r \notin pending'[r]
      BY <1>2, <1>3 DEF PeerInv, NetInv, HostsInv, TypeOK
    <2>2. links' = links
      BY <1>3 DEF asio
    <2> QED
      BY <2>1, <2>2 DEF PeerInv, NetInv, HostsInv
  <1>7. known' \in [Peer -> SUBSET Peer] /\ queued' \in [Peer -> SUBSET Peer]
    BY <1>2, <1>3 DEF PeerInv, NetInv, TypeOK
  <1>8. TypeOK'
    BY <1>3, <1>5, <1>7 DEF asio, bounds, PeerInv, NetInv, TypeOK
  <1> QED
    BY <1>4, <1>6, <1>8 DEF PeerInv, NetInv

LEMMA RemoveHostInv ==
    ASSUME PeerInv, NEW p \in Peer, NEW q \in Removable[p], RemoveHost(p, q)
    PROVE  PeerInv'
  <1>1. q \in Peer
    BY PeerAssumption
  <1>2. SessionInv' /\ EndsInv'
    BY QuietInv DEF RemoveHost, asio
  <1>3. tasks' \in [Peer -> Seq([kind : {"connect", "remove", "write"}, peer : Peer])]
    BY <1>1, PostType DEF RemoveHost, PeerInv, NetInv
  <1>4. HostsInv'
    BY DEF RemoveHost, asio, PeerInv, NetInv, HostsInv
  <1>5. known' \in [Peer -> SUBSET Peer]
    BY DEF RemoveHost, PeerInv, NetInv, TypeOK
  <1>6. TypeOK'
    BY <1>3, <1>5 DEF RemoveHost, asio, bounds, PeerInv, NetInv, TypeOK
  <1> QED
    BY <1>2, <1>4, <1>6 DEF PeerInv, NetInv

LEMMA TakeProcessesInv ==
    ASSUME PeerInv, NEW p \in Peer, TakeProcesses(p)
    PROVE  PeerInv'
  <1>1. SessionInv' /\ EndsInv' /\ HostsInv'
    BY QuietInv DEF TakeProcesses, asio, PeerInv, NetInv, HostsInv
  <1>2. procs[p] \in Seq(AnyEvent) /\ recvs[p] \in Seq(AnyEvent) /\ <<>> \in Seq(AnyEvent)
    BY DEF PeerInv, NetInv, TypeOK
  <1>3. PICK s \in Seq(AnyEvent) : s = procs[p] \o recvs[p]
    <2>1. procs[p] \o recvs[p] \in Seq(AnyEvent)
      BY <1>2
    <2> QED
      BY <2>1, Zenon
  <1>4. todo' \in [Peer -> Seq(AnyEvent)] /\ procs' \in [Peer -> Seq(AnyEvent)]
        /\ recvs' \in [Peer -> Seq(AnyEvent)]
    BY <1>2, <1>3 DEF TakeProcesses, PeerInv, NetInv, TypeOK
  <1>5. TypeOK'
    BY <1>4 DEF TakeProcesses, asio, bounds, PeerInv, NetInv, TypeOK
  <1> QED
    BY <1>1, <1>5 DEF PeerInv, NetInv

Tasks == [kind : {"connect", "remove", "write"}, peer : Peer]

\* What is sent is queued, and its writing is posted.
LEMMA QueueTypes ==
    ASSUME PeerInv, NEW p \in Peer, NEW q \in Peer, NEW b \in Body, Queue(p, q, b)
    PROVE  writes' \in [Peer -> [Peer -> Seq(Body)]] /\ tasks' \in [Peer -> Seq(Tasks)]
  <1>1. /\ writes \in [Peer -> [Peer -> Seq(Body)]] /\ writes[p][q] \in Seq(Body)
        /\ tasks \in [Peer -> Seq(Tasks)]
    BY DEF PeerInv, NetInv, TypeOK, Tasks
  <1>2. CASE q \notin known[p]
    BY <1>1, <1>2 DEF Queue
  <1>3. CASE q \in known[p]
    <2>1. /\ writes' = [writes EXCEPT ![p][q] = Append(@, b)]
          /\ Post(p, [kind |-> "write", peer |-> q])
      BY <1>3 DEF Queue
    <2>2. tasks' \in [Peer -> Seq(Tasks)]
      BY <2>1, PostType DEF PeerInv, NetInv, Tasks
    <2>3. PICK s \in Seq(Body) : s = Append(writes[p][q], b)
      BY <1>1, AppendProperties
    <2>4. [writes[p] EXCEPT ![q] = s] \in [Peer -> Seq(Body)]
      BY <1>1
    <2>5. writes' = [writes EXCEPT ![p] = [writes[p] EXCEPT ![q] = s]]
      BY <2>1, <2>3
    <2>6. writes' \in [Peer -> [Peer -> Seq(Body)]]
      BY <1>1, <2>4, <2>5
    <2> QED
      BY <2>2, <2>6
  <1> QED
    BY <1>2, <1>3

\* Whatever a handler of an event leaves to do next.
LEMMA HandleInv ==
    ASSUME PeerInv, NEW p \in Peer, NEW kind, NEW more \in Seq(AnyEvent), Handle(p, kind, more),
           writes' \in [Peer -> [Peer -> Seq(Body)]], tasks' \in [Peer -> Seq(Tasks)]
    PROVE  PeerInv'
  <1>1. SessionInv' /\ EndsInv' /\ HostsInv'
    BY QuietInv DEF Handle, asio, PeerInv, NetInv, HostsInv
  <1>2. todo[p] \in Seq(AnyEvent) /\ todo[p] # <<>> /\ todo \in [Peer -> Seq(AnyEvent)]
    BY DEF Handle, PeerInv, NetInv, TypeOK
  <1>3. PICK s \in Seq(AnyEvent) : s = more \o Tail(todo[p])
    <2>1. Tail(todo[p]) \in Seq(AnyEvent)
      BY <1>2, HeadTailProperties
    <2>2. more \o Tail(todo[p]) \in Seq(AnyEvent)
      BY <2>1
    <2> QED
      BY <2>2, Zenon
  <1>4. todo' = [todo EXCEPT ![p] = s]
    BY <1>3 DEF Handle
  <1>5. todo' \in [Peer -> Seq(AnyEvent)]
    BY <1>2, <1>4
  <1>6. known' \in [Peer -> SUBSET Peer]
    <2>1. known \in [Peer -> SUBSET Peer]
      BY DEF PeerInv, NetInv, TypeOK
    <2> QED
      BY <2>1 DEF Handle
  <1>7. TypeOK'
    <2>1. UNCHANGED <<links, sessions, wire, queued, pending, procs, recvs, adds, sends, losses>>
      BY DEF Handle, asio, bounds
    <2> QED
      BY <1>5, <1>6, <2>1 DEF Tasks, PeerInv, NetInv, TypeOK
  <1> QED
    BY <1>1, <1>7 DEF PeerInv, NetInv

LEMMA HandleAnyInv ==
    ASSUME PeerInv, NEW p \in Peer, HandleAny(p)
    PROVE  PeerInv'
  <1>1. PICK kind : Handle(p, kind, <<>>) /\ UNCHANGED <<tasks, writes>>
    BY DEF HandleAny
  <1>2. writes' \in [Peer -> [Peer -> Seq(Body)]] /\ tasks' \in [Peer -> Seq(Tasks)]
    BY <1>1 DEF Tasks, PeerInv, NetInv, TypeOK
  <1>3. <<>> \in Seq(AnyEvent)
    OBVIOUS
  <1> QED
    BY <1>1, <1>2, <1>3, HandleInv

LEMMA AppSendInv ==
    ASSUME PeerInv, NEW p \in Peer, NEW q \in Peer, NEW b \in Body, AppSend(p, q, b)
    PROVE  PeerInv'
  <1>1. SessionInv' /\ EndsInv' /\ HostsInv'
    BY QuietInv DEF AppSend, asio, PeerInv, NetInv, HostsInv
  <1>2. writes' \in [Peer -> [Peer -> Seq(Body)]] /\ tasks' \in [Peer -> Seq(Tasks)]
    BY QueueTypes DEF AppSend
  <1>3. {adds', sends', losses'} \subseteq Nat
    <2>1. adds \in Nat /\ sends \in Nat /\ losses \in Nat
      BY DEF PeerInv, NetInv, TypeOK
    <2> QED
      BY <2>1 DEF AppSend
  <1>4. TypeOK'
    <2>1. UNCHANGED <<links, sessions, wire, known, queued, pending, procs, recvs, todo>>
      BY DEF AppSend, asio
    <2> QED
      BY <1>2, <1>3, <2>1 DEF Tasks, PeerInv, NetInv, TypeOK
  <1> QED
    BY <1>1, <1>4 DEF PeerInv, NetInv

LEMMA AddConnectionsInv ==
    ASSUME PeerInv, NEW p \in Peer, AddConnections(p)
    PROVE  PeerInv'
  <1>1. PICK new \in SUBSET queued[p] :
            /\ pending' = [pending EXCEPT ![p] = @ \cup new]
            /\ \A q \in new : SessionsWith(sessions[p], p, q) = {} /\ ConnectingTo(sessions[p], p, q) = {}
    <2> DEFINE new == {q \in queued[p] : /\ SessionsWith(sessions[p], p, q) = {}
                                         /\ ConnectingTo(sessions[p], p, q) = {}}
    <2>1. new \in SUBSET queued[p]
      OBVIOUS
    <2>2. pending' = [pending EXCEPT ![p] = @ \cup new]
      BY DEF AddConnections
    <2> QED
      BY <2>1, <2>2
  <1>2. /\ Finish(p, sessions[p], <<>>, wire)
        /\ queued' = [queued EXCEPT ![p] = {}]
        /\ tasks' = [tasks EXCEPT ![p] = Tail(@)] /\ tasks[p] # <<>>
        /\ UNCHANGED <<links, known, writes, recvs, todo, bounds>>
    BY DEF AddConnections, Task, Done
  <1>3. pending \in [Peer -> SUBSET Peer] /\ queued \in [Peer -> SUBSET Peer]
    BY DEF PeerInv, NetInv, TypeOK
  <1>4. Connects
    BY <1>1, <1>3 DEF Connects
  <1>5. Handled
    BY <1>2, <1>4, CalmHandled, SessionsAreTable
  <1>6. HostsInv'
    <2>1. ASSUME NEW r \in Peer PROVE r \notin queued'[r] /\ r \notin pending'[r]
      BY <1>1, <1>2, <1>3 DEF PeerInv, NetInv, HostsInv
    <2> QED
      BY <1>2, <2>1 DEF PeerInv, NetInv, HostsInv
  <1>7. queued' \in [Peer -> SUBSET Peer] /\ pending' \in [Peer -> SUBSET Peer]
    BY <1>1, <1>2, <1>3
  <1>8. tasks' \in [Peer -> Seq([kind : {"connect", "remove", "write"}, peer : Peer])]
    BY <1>2, DoneType DEF PeerInv, NetInv
  <1>9. TypeOK'
    BY <1>2, <1>5, <1>7, <1>8 DEF Handled, bounds, PeerInv, NetInv, TypeOK
  <1> QED
    BY <1>5, <1>6, <1>9 DEF Handled, PeerInv, NetInv

LEMMA ShutdownSessionInv ==
    ASSUME PeerInv, NEW p \in Peer, ShutdownSession(p)
    PROVE  PeerInv'
  <1>1. PICK q : q = Head(tasks[p]).peer
    OBVIOUS
  <1>2. PICK t : t = [l \in Link |-> IF l \in SessionsWith(sessions[p], p, q) /\ sessions[p][l].active
                                     THEN Shutdown(sessions[p][l]) ELSE sessions[p][l]]
    OBVIOUS
  <1>3. /\ Finish(p, t, <<>>, wire)
        /\ tasks' = [tasks EXCEPT ![p] = Tail(@)] /\ tasks[p] # <<>>
        /\ UNCHANGED <<links, known, queued, pending, writes, recvs, todo, bounds>>
    BY <1>1, <1>2 DEF ShutdownSession, Task, Done
  <1>4. ASSUME NEW l \in Link PROVE t[l] \in Session /\ Alike(sessions[p][l], t[l])
    <2>1. PICK r \in Session : r = sessions[p][l]
      BY SessionsAreTable
    <2>2. \/ t[l] = r
          \/ t[l] = Shutdown(r) /\ r.place = "session"
      BY <1>2, <2>1 DEF SessionsWith
    <2> QED
      BY <2>1, <2>2, ShutdownFacts, HasNone DEF Alike
  <1>5. t \in Table /\ Calm(p, t)
    BY <1>2, <1>4 DEF Table, Calm
  <1>6. Handled
    <2>1. Connects
      BY <1>3, SamePendingConnects
    <2> QED
      BY <1>3, <1>5, <2>1, CalmHandled, SessionsAreTable
  <1>7. HostsInv'
    BY <1>3 DEF PeerInv, NetInv, HostsInv
  <1>8. tasks' \in [Peer -> Seq([kind : {"connect", "remove", "write"}, peer : Peer])]
    BY <1>3, DoneType DEF PeerInv, NetInv
  <1>9. TypeOK'
    BY <1>3, <1>6, <1>8 DEF Handled, bounds, PeerInv, NetInv, TypeOK
  <1> QED
    BY <1>6, <1>7, <1>9 DEF Handled, PeerInv, NetInv

LEMMA RoutesFacts ==
    ASSUME NEW r \in Session, NEW bodies \in Seq(Body)
    PROVE  /\ WriteRoutes(r, bodies) \in Session
           /\ WriteRoutes(r, bodies).place = r.place /\ WriteRoutes(r, bodies).hosted = r.hosted
           /\ \A K \in Greetings : Has(WriteRoutes(r, bodies).out, K) => Has(r.out, K)
  <1>1. PICK s : s = [i \in DOMAIN bodies |-> [kind |-> "route", body |-> bodies[i]]]
    OBVIOUS
  <1>2. \A i \in 1..Len(bodies) : bodies[i] \in Body
    OBVIOUS
  <1>3. s \in Seq(Message)
    <2>1. DOMAIN bodies = 1..Len(bodies) /\ Len(bodies) \in Nat
      OBVIOUS
    <2>2. s \in [1..Len(bodies) -> Message]
      BY <1>1, <1>2, <2>1 DEF Message
    <2> QED
      BY <2>1, <2>2
  <1>4. \A K \in Greetings : ~Has(s, K)
    BY <1>1 DEF Has, Greetings
  <1>5. r.out \in Seq(Message)
    BY DEF Session
  <1>6. PICK o : o = r.out \o s
    OBVIOUS
  <1>7. o \in Seq(Message) /\ \A K : Has(o, K) <=> Has(r.out, K) \/ Has(s, K)
    BY <1>3, <1>5, <1>6, HasBoth
  <1>8. WriteRoutes(r, bodies) = IF r.active THEN [r EXCEPT !.out = o] ELSE r
    BY <1>1, <1>6 DEF WriteRoutes
  <1> QED
    BY <1>4, <1>7, <1>8 DEF Session

LEMMA ProcessWritesInv ==
    ASSUME PeerInv, NEW p \in Peer, ProcessWrites(p)
    PROVE  PeerInv'
  <1>1. PICK t : t = [l \in Link |->
                   IF l \in DOMAIN links /\ l \in WriteTo(p, Other(p, l))
                   THEN WriteRoutes(sessions[p][l], writes[p][Other(p, l)]) ELSE sessions[p][l]]
    OBVIOUS
  <1>2. /\ Finish(p, t, <<>>, wire)
        /\ writes' = [writes EXCEPT ![p] = [q \in Peer |-> <<>>]]
        /\ tasks' = [tasks EXCEPT ![p] = Tail(@)] /\ tasks[p] # <<>>
        /\ UNCHANGED <<links, known, queued, pending, recvs, todo, bounds>>
    BY <1>1 DEF ProcessWrites, Task, Done
  <1>3. ASSUME NEW l \in Link PROVE t[l] \in Session /\ Alike(sessions[p][l], t[l])
    <2>1. PICK r \in Session : r = sessions[p][l]
      BY SessionsAreTable
    <2>2. CASE l \in DOMAIN links /\ l \in WriteTo(p, Other(p, l))
      <3>1. r.place # "none"
        BY <2>1, <2>2 DEF WriteTo, ConnectingTo, SessionsWith
      <3>2. p \in {links[l].from, links[l].to}
        BY <2>1, <3>1 DEF PeerInv, NetInv, EndsInv
      <3>3. Other(p, l) \in Peer
        BY <2>2, <3>2, OtherType DEF PeerInv, NetInv
      <3>4. PICK bodies \in Seq(Body) : bodies = writes[p][Other(p, l)]
        BY <3>3 DEF PeerInv, NetInv, TypeOK
      <3>5. t[l] = WriteRoutes(r, bodies)
        BY <1>1, <2>1, <2>2, <3>4
      <3> QED
        BY <2>1, <3>1, <3>5, RoutesFacts DEF Alike
    <2>3. CASE ~(l \in DOMAIN links /\ l \in WriteTo(p, Other(p, l)))
      <3>1. t[l] = r
        BY <1>1, <2>1, <2>3
      <3> QED
        BY <2>1, <3>1 DEF Alike
    <2> QED
      BY <2>2, <2>3
  <1>4. t \in Table /\ Calm(p, t)
    BY <1>1, <1>3 DEF Table, Calm
  <1>5. Handled
    <2>1. Connects
      BY <1>2, SamePendingConnects
    <2> QED
      BY <1>2, <1>4, <2>1, CalmHandled, SessionsAreTable
  <1>6. HostsInv'
    BY <1>2 DEF PeerInv, NetInv, HostsInv
  <1>7. tasks' \in [Peer -> Seq([kind : {"connect", "remove", "write"}, peer : Peer])]
    BY <1>2, DoneType DEF PeerInv, NetInv
  <1>8. writes' \in [Peer -> [Peer -> Seq(Body)]]
    <2>1. <<>> \in Seq(Body)
      OBVIOUS
    <2> QED
      BY <1>2, <2>1 DEF PeerInv, NetInv, TypeOK
  <1>9. TypeOK'
    BY <1>2, <1>5, <1>7, <1>8 DEF Handled, bounds, PeerInv, NetInv, TypeOK
  <1> QED
    BY <1>5, <1>6, <1>9 DEF Handled, PeerInv, NetInv

LEMMA ConnectFailedInv ==
    ASSUME PeerInv, NEW p \in Peer, NEW q \in Peer, ConnectFailed(p, q)
    PROVE  PeerInv'
  <1>1. /\ Finish(p, sessions[p], <<>>, wire)
        /\ losses' = losses + 1
        /\ known' = [known EXCEPT ![p] = @ \ {q}]
        /\ pending' = [pending EXCEPT ![p] = @ \ {q}]
        /\ UNCHANGED <<links, queued, tasks, writes, recvs, todo, adds, sends>>
    BY DEF ConnectFailed
  <1>2. \A r \in Peer : pending'[r] \subseteq pending[r]
    BY <1>1 DEF PeerInv, NetInv, TypeOK
  <1>3. Handled
    <2>1. Connects
      BY <1>2, SamePendingConnects
    <2> QED
      BY <1>1, <2>1, CalmHandled, SessionsAreTable
  <1>4. HostsInv'
    BY <1>1, <1>2 DEF PeerInv, NetInv, HostsInv
  <1>5. known' \in [Peer -> SUBSET Peer] /\ pending' \in [Peer -> SUBSET Peer]
        /\ {adds', sends', losses'} \subseteq Nat
    <2>1. known \in [Peer -> SUBSET Peer] /\ pending \in [Peer -> SUBSET Peer]
          /\ adds \in Nat /\ sends \in Nat /\ losses \in Nat
      BY DEF PeerInv, NetInv, TypeOK
    <2> QED
      BY <1>1, <2>1
  <1>6. TypeOK'
    <2>1. UNCHANGED <<links, queued, tasks, writes, recvs, todo>>
      BY <1>1
    <2>2. /\ sessions' \in [Peer -> [Link -> Session]] /\ wire' \in [Peer -> [Link -> Seq(Message)]]
          /\ procs' \in [Peer -> Seq(AnyEvent)]
      BY <1>3 DEF Handled
    <2> QED
      BY <1>5, <2>1, <2>2 DEF PeerInv, NetInv, TypeOK
  <1> QED
    BY <1>3, <1>4, <1>6 DEF Handled, PeerInv, NetInv

\* One session replaced by another that is alike.
LEMMA ReplaceOne ==
    ASSUME PeerInv, NEW p \in Peer, NEW l \in Link, NEW x \in Session, Alike(sessions[p][l], x)
    PROVE  [sessions[p] EXCEPT ![l] = x] \in Table /\ Calm(p, [sessions[p] EXCEPT ![l] = x])
  <1>1. sessions[p] \in Table
    BY SessionsAreTable
  <1>2. \A k \in Link : Alike(sessions[p][k], sessions[p][k])
    BY DEF Alike
  <1> QED
    BY <1>1, <1>2 DEF Table, Calm

LEMMA WriteDoneInv ==
    ASSUME PeerInv, NEW p \in Peer, NEW l \in Link, WriteDone(p, l)
    PROVE  PeerInv'
  <1>1. PICK r \in Session : r = sessions[p][l]
    BY SessionsAreTable
  <1>2. /\ l \in DOMAIN links /\ r.open /\ r.out # <<>> /\ r.place # "none"
        /\ Transmit(p, l) \/ WriteFails(p, l)
        /\ UNCHANGED <<links, known, queued, pending, tasks, writes, recvs, todo, bounds>>
    BY <1>1, NoSessionThere DEF WriteDone, NoSession
  <1>3. Connects
    BY <1>2, SamePendingConnects
  <1>4. ASSUME Transmit(p, l) PROVE Handled
    <2>1. PICK s : s = Tail(r.out)
      OBVIOUS
    <2>2. s \in Seq(Message) /\ \A K : Has(s, K) => Has(r.out, K)
      BY <1>1, <1>2, <2>1, HasOf, SessionTypes
    <2>3. PICK x : x = [r EXCEPT !.out = s]
      OBVIOUS
    <2>4. x \in Session /\ Alike(r, x)
      BY <1>2, <2>2, <2>3 DEF Session, Alike
    <2>5. Finish(p, [sessions[p] EXCEPT ![l] = x], <<>>, Written(p, l))
      BY <1>1, <1>4, <2>1, <2>3 DEF Transmit
    <2>6. [sessions[p] EXCEPT ![l] = x] \in Table /\ Calm(p, [sessions[p] EXCEPT ![l] = x])
      BY <1>1, <2>4, ReplaceOne
    <2>7. Wired(p, Written(p, l)) /\ Written(p, l) \in Wire
      BY <1>1, <1>2, WiredWritten DEF PeerInv
    <2>8. <<>> \in Seq(AnyEvent) /\ links' = links
      BY <1>2
    <2> QED
      BY <1>3, <2>5, <2>6, <2>7, <2>8, CalmHandled
  <1>5. ASSUME WriteFails(p, l) PROVE Handled
    <2>1. <<>> \in Seq(Message)
      OBVIOUS
    <2>2. PICK y \in Session : y = [r EXCEPT !.out = <<>>]
      BY <2>1 DEF Session
    <2>3. y.place = r.place /\ y.hosted = r.hosted /\ y.out = <<>>
      BY <2>2 DEF Session
    <2>4. PICK x \in Session : x = Close(y)
      BY CloseFacts
    <2>5. Alike(r, x)
      BY <1>2, <2>3, <2>4, CloseFacts, HasNone DEF Alike
    <2>6. Finish(p, [sessions[p] EXCEPT ![l] = x], <<>>, wire)
      BY <1>1, <1>5, <2>2, <2>4 DEF WriteFails
    <2>7. [sessions[p] EXCEPT ![l] = x] \in Table /\ Calm(p, [sessions[p] EXCEPT ![l] = x])
      BY <1>1, <2>5, ReplaceOne
    <2> QED
      BY <1>2, <1>3, <2>6, <2>7, CalmHandled, SessionsAreTable
  <1>6. Handled
    BY <1>2, <1>4, <1>5
  <1>7. HostsInv'
    BY <1>2 DEF PeerInv, NetInv, HostsInv
  <1>8. TypeOK'
    BY <1>2, <1>6 DEF Handled, bounds, PeerInv, NetInv, TypeOK
  <1> QED
    BY <1>6, <1>7, <1>8 DEF Handled, PeerInv, NetInv

\* p reads from a link that it is on and has not left.
LEMMA ReadableFacts ==
    ASSUME PeerInv, NEW p \in Peer, NEW l \in Link, NEW kind, Readable(p, l, kind)
    PROVE  /\ l \in DOMAIN links /\ sessions[p][l].place # "none"
           /\ p \in {links[l].from, links[l].to} /\ Other(p, l) \in Peer /\ Other(p, l) # p
           /\ Joins(l, p, Other(p, l)) /\ {p, Other(p, l)} = {links[l].from, links[l].to}
           /\ Wired(p, Read(p, l)) /\ Read(p, l) \in Wire
           /\ Head(wire[p][l]) \in Message /\ Has(wire[p][l], kind)
  <1>1. l \in DOMAIN links /\ sessions[p][l].reading /\ wire[p][l] # <<>> /\ Head(wire[p][l]).kind = kind
    BY DEF Readable
  <1>2. sessions[p][l].place # "none"
    BY <1>1, NoSessionThere DEF NoSession
  <1>3. p \in {links[l].from, links[l].to}
    BY <1>2 DEF PeerInv, NetInv, EndsInv
  <1>4. Other(p, l) \in Peer /\ Joins(l, p, Other(p, l))
        /\ {p, Other(p, l)} = {links[l].from, links[l].to}
    BY <1>1, <1>3, OtherType DEF PeerInv, NetInv
  <1>5. Other(p, l) # p
    BY <1>1, <1>4 DEF PeerInv, NetInv, HostsInv
  <1>6. wire[p][l] \in Seq(Message)
    BY DEF PeerInv, NetInv, TypeOK
  <1>7. Head(wire[p][l]) \in Message /\ Has(wire[p][l], kind)
    BY <1>1, <1>6, HasOf
  <1> QED
    BY <1>1, <1>2, <1>3, <1>4, <1>5, <1>7, WiredRead DEF PeerInv, NetInv

LEMMA RoutedInv ==
    ASSUME PeerInv, NEW p \in Peer, NEW l \in Link, Routed(p, l)
    PROVE  PeerInv'
  <1>1. PICK e : e = [kind |-> "received", peer |-> Other(p, l), body |-> Head(wire[p][l]).body]
    OBVIOUS
  <1>2. /\ Readable(p, l, "route")
        /\ recvs' = [recvs EXCEPT ![p] = Append(@, e)]
        /\ Finish(p, sessions[p], <<>>, Read(p, l))
        /\ UNCHANGED <<links, known, queued, pending, tasks, writes, todo, bounds>>
    BY <1>1 DEF Routed
  <1>3. e \in AnyEvent
    <2>1. PICK m \in Message : m = Head(wire[p][l])
      BY <1>2, ReadableFacts
    <2>2. m.kind = "route"
      BY <1>2, <2>1 DEF Readable
    <2>3. m.body \in Body
      BY <2>2 DEF Message
    <2> QED
      BY <1>1, <1>2, <2>1, <2>3, ReadableFacts DEF AnyEvent
  <1>4. Handled
    <2>1. Connects /\ Wired(p, Read(p, l)) /\ Read(p, l) \in Wire
      BY <1>2, SamePendingConnects, ReadableFacts
    <2> QED
      BY <1>2, <2>1, CalmHandled, SessionsAreTable
  <1>5. recvs' \in [Peer -> Seq(AnyEvent)]
    <2>1. recvs \in [Peer -> Seq(AnyEvent)] /\ recvs[p] \in Seq(AnyEvent)
      BY DEF PeerInv, NetInv, TypeOK
    <2>2. Append(recvs[p], e) \in Seq(AnyEvent)
      BY <1>3, <2>1, AppendProperties
    <2> QED
      BY <1>2, <2>1, <2>2
  <1>6. HostsInv'
    BY <1>2 DEF PeerInv, NetInv, HostsInv
  <1>7. TypeOK'
    BY <1>2, <1>4, <1>5 DEF Handled, bounds, PeerInv, NetInv, TypeOK
  <1> QED
    BY <1>4, <1>6, <1>7 DEF Handled, PeerInv, NetInv

LEMMA ReadEndsInv ==
    ASSUME PeerInv, NEW p \in Peer, NEW l \in Link, ReadEnds(p, l)
    PROVE  PeerInv'
  <1>1. PICK r \in Session : r = sessions[p][l]
    BY SessionsAreTable
  <1>2. PICK y \in Session : y = [r EXCEPT !.reading = FALSE]
    BY DEF Session
  <1>3. y.place = r.place /\ y.hosted = r.hosted /\ y.out = r.out
    BY <1>2 DEF Session
  <1>4. PICK x \in Session : x = Close(y)
    BY CloseFacts
  <1>5. /\ Readable(p, l, "end")
        /\ Finish(p, [sessions[p] EXCEPT ![l] = x], <<>>, Read(p, l))
        /\ UNCHANGED <<links, known, queued, pending, tasks, writes, recvs, todo, bounds>>
    BY <1>1, <1>2, <1>4 DEF ReadEnds
  <1>6. Alike(r, x)
    BY <1>1, <1>3, <1>4, <1>5, CloseFacts, ReadableFacts DEF Alike
  <1>7. [sessions[p] EXCEPT ![l] = x] \in Table /\ Calm(p, [sessions[p] EXCEPT ![l] = x])
    BY <1>1, <1>6, ReplaceOne
  <1>8. Handled
    <2>1. Connects /\ Wired(p, Read(p, l)) /\ Read(p, l) \in Wire
      BY <1>5, SamePendingConnects, ReadableFacts
    <2> QED
      BY <1>5, <1>7, <2>1, CalmHandled, SessionsAreTable
  <1>9. HostsInv'
    BY <1>5 DEF PeerInv, NetInv, HostsInv
  <1>10. TypeOK'
    BY <1>5, <1>8 DEF Handled, bounds, PeerInv, NetInv, TypeOK
  <1> QED
    BY <1>8, <1>9, <1>10 DEF Handled, PeerInv, NetInv

LEMMA LinkLostInv ==
    ASSUME PeerInv, NEW l \in Link, LinkLost(l)
    PROVE  PeerInv'
  <1>1. PICK e \in Message : e = Plain("end") /\ e.kind = "end"
    BY PlainType
  <1>2. /\ l \in DOMAIN links /\ losses' = losses + 1
        /\ links' = [links EXCEPT ![l].up = FALSE]
        /\ wire' = [p \in Peer |-> IF p \in {links[l].from, links[l].to} /\ ~ Gone(p, l)
                              THEN [wire[p] EXCEPT ![l] = <<e>>] ELSE wire[p]]
        /\ UNCHANGED <<sessions, known, queued, pending, tasks, writes, procs, recvs, todo, adds, sends>>
    BY <1>1 DEF LinkLost
  <1>3. DOMAIN links \subseteq Link /\ \A k \in DOMAIN links :
            /\ links[k] \in [from : Peer, to : Peer, up : BOOLEAN, accepted : BOOLEAN]
            /\ links[k].from # links[k].to
    BY DEF PeerInv, NetInv, TypeOK, HostsInv
  <1>4. /\ \A k \in Link : SameLink(k)
        /\ HostsInv' /\ DOMAIN links' \subseteq Link
        /\ \A k \in DOMAIN links' : links'[k] \in [from : Peer, to : Peer, up : BOOLEAN, accepted : BOOLEAN]
    <2>1. ASSUME NEW k \in DOMAIN links
          PROVE  /\ links'[k].from = links[k].from /\ links'[k].to = links[k].to
                 /\ links'[k].accepted = links[k].accepted
                 /\ links'[k] \in [from : Peer, to : Peer, up : BOOLEAN, accepted : BOOLEAN]
      BY <1>2, <1>3
    <2>2. DOMAIN links' = DOMAIN links
      BY <1>2
    <2> QED
      BY <1>2, <1>3, <2>1, <2>2 DEF SameLink, HostsInv, PeerInv, NetInv
  <1>5. <<e>> \in Seq(Message) /\ \A K \in Greetings : ~Has(<<e>>, K)
    BY <1>1 DEF Has, Greetings
  <1>6. ASSUME NEW q \in Peer, NEW k \in Link
        PROVE  \/ wire'[q][k] = wire[q][k]
               \/ k = l /\ q \in {links[l].from, links[l].to} /\ ~Gone(q, l) /\ wire'[q][k] = <<e>>
    BY <1>2 DEF PeerInv, NetInv, TypeOK
  <1>7. wire' \in [Peer -> [Link -> Seq(Message)]]
    <2>1. wire \in [Peer -> [Link -> Seq(Message)]]
      BY DEF PeerInv, NetInv, TypeOK
    <2>2. ASSUME NEW q \in Peer PROVE [wire[q] EXCEPT ![l] = <<e>>] \in [Link -> Seq(Message)]
      BY <1>5, <2>1
    <2> QED
      BY <1>2, <2>1, <2>2
  <1>8. Greeted
    <2> SUFFICES ASSUME NEW q \in Peer, NEW k \in Link, NEW K \in Greetings, Has(wire'[q][k], K)
                 PROVE  Has(wire[q][k], K)
      BY DEF Greeted
    <2> QED
      BY <1>5, <1>6
  <1>9. ASSUME NEW k \in Link PROVE WireInv(k)'
    <2> SUFFICES ASSUME NEW q \in Peer,
                        \/ k \notin DOMAIN links'
                        \/ k \in DOMAIN links' /\ (q \notin {links'[k].from, links'[k].to} \/ Gone(q, k)')
                 PROVE  wire'[q][k] = <<>>
      BY DEF WireInv
    <2>1. \/ k \notin DOMAIN links
          \/ k \in DOMAIN links /\ (q \notin {links[k].from, links[k].to} \/ Gone(q, k))
      BY <1>2, <1>4 DEF SameLink, Gone
    <2>2. wire[q][k] = <<>>
      BY <2>1 DEF PeerInv, SessionInv, LinkInv, WireInv
    <2>3. wire'[q][k] = wire[q][k]
      BY <1>2, <1>6, <2>1
    <2> QED
      BY <2>2, <2>3
  <1>10. CalmStep
    <2>1. Connects
      BY <1>2 DEF Connects
    <2>2. sessions' \in [Peer -> Table]
      BY <1>2 DEF PeerInv, NetInv, TypeOK, Table
    <2>3. ASSUME NEW k \in Link PROVE FallsAt(k)
      BY <1>2 DEF PeerInv, SessionInv, LinkInv, StateInv, FallsAt, Falls
    <2> QED
      BY <1>4, <1>8, <1>9, <2>1, <2>2, <2>3 DEF CalmStep
  <1>11. EndsInv'
    BY <1>2, <1>4 DEF EndsInv, SameLink, PeerInv, NetInv
  <1>12. TypeOK'
    <2>1. {adds', sends', losses'} \subseteq Nat
      <3>1. adds \in Nat /\ sends \in Nat /\ losses \in Nat
        BY DEF PeerInv, NetInv, TypeOK
      <3> QED
        BY <1>2, <3>1
    <2>2. UNCHANGED <<sessions, known, queued, pending, tasks, writes, procs, recvs, todo>>
      BY <1>2
    <2> QED
      BY <1>4, <1>7, <2>1, <2>2 DEF PeerInv, NetInv, TypeOK
  <1> QED
    BY <1>4, <1>10, <1>11, <1>12, CalmInv DEF PeerInv, NetInv

LEMMA AcceptInv ==
    ASSUME PeerInv, NEW p \in Peer, NEW l \in Link, Accept(p, l)
    PROVE  PeerInv'
  <1>1. PICK x : x = Fresh(FALSE)
    OBVIOUS
  <1>2. /\ x \in Session /\ x.place = "connecting" /\ ~x.hosted /\ x.active /\ x.open /\ x.out = <<>>
    <2>1. <<>> \in Seq(Message)
      OBVIOUS
    <2> QED
      BY <1>1, <2>1 DEF Fresh, Session, Place
  <1>3. PICK t : t = [sessions[p] EXCEPT ![l] = x]
    OBVIOUS
  <1>4. /\ l \in DOMAIN links /\ links[l].to = p /\ ~links[l].accepted
        /\ links' = [links EXCEPT ![l].accepted = TRUE]
        /\ Finish(p, t, <<>>, wire)
        /\ UNCHANGED <<known, queued, pending, tasks, writes, recvs, todo, bounds>>
    BY <1>1, <1>3 DEF Accept
  <1>5. DOMAIN links \subseteq Link /\ \A k \in DOMAIN links :
            /\ links[k] \in [from : Peer, to : Peer, up : BOOLEAN, accepted : BOOLEAN]
            /\ links[k].from # links[k].to
    BY DEF PeerInv, NetInv, TypeOK, HostsInv
  <1>6. sessions[p][l].place = "none" /\ sessions[p][l] = NoSession
    <2>1. sessions[p][l].place = "none"
      BY <1>4, <1>5 DEF PeerInv, NetInv, EndsInv
    <2> QED
      BY <2>1, NoSessionThere
  <1>7. /\ t \in Table /\ t[l] = x /\ \A k \in Link : k # l => t[k] = sessions[p][k]
    BY <1>2, <1>3, SessionsAreTable DEF Table
  <1>8. Ends(p, t)
    BY <1>2, <1>7 DEF Ends, PeerInv, NetInv, EndsInv
  <1>9. Finished(p, t, wire)
    <2>1. TypeOK
      BY DEF PeerInv, NetInv
    <2> QED
      BY <1>4, <1>7, <1>8, <2>1, FinishFacts, SessionsAreTable
  <1>10. sessions'[p][l] = x
    <2>1. PrunedTo(x, sessions'[p][l])
      BY <1>7, <1>9 DEF Finished
    <2> QED
      BY <1>2, <2>1 DEF PrunedTo
  <1>11. /\ DOMAIN links' = DOMAIN links
         /\ \A k \in DOMAIN links :
                /\ links'[k].from = links[k].from /\ links'[k].to = links[k].to
                /\ links'[k] \in [from : Peer, to : Peer, up : BOOLEAN, accepted : BOOLEAN]
                /\ k # l => links'[k].accepted = links[k].accepted
         /\ links'[l].accepted
    BY <1>4, <1>5
  <1>12. Greeted /\ \A k \in Link : SameLink(k) => WireInv(k)'
    BY <1>9, FinishedWire, SessionsAreTable
  <1>13. sessions' \in [Peer -> Table] /\ \A q \in Peer : q # p => sessions'[q] = sessions[q]
    BY <1>9 DEF Finished
  <1>14. ASSUME NEW k \in Link, k # l PROVE SameLink(k) /\ FallsAt(k) /\ LinkInv(k)'
    <2>1. SameLink(k)
      BY <1>11, <1>14 DEF SameLink
    <2>2. Alike(sessions[p][k], t[k])
      BY <1>7, <1>14 DEF Alike
    <2>3. FallsAt(k)
      BY <1>9, <2>2, FinishedFalls
    <2> QED
      BY <1>12, <1>13, <2>1, <2>3, CalmLink
  <1>15. PICK f \in Peer : f = links[l].from /\ f # p
    BY <1>4, <1>5
  <1>16. LinkInv(l)
    BY <1>4 DEF PeerInv, SessionInv
  <1>17. StateInv(l)'
    <2> SUFFICES ASSUME NEW q \in Peer
                 PROVE  /\ sessions'[q][l].place = "none" => sessions'[q][l] = NoSession
                        /\ sessions'[q][l].place = "duplicate" => ~sessions'[q][l].active
                        /\ sessions'[q][l].place = "connecting" =>
                                (sessions'[q][l].hosted <=> links'[l].from = q)
      BY DEF StateInv
    <2>1. CASE q = p
      BY <1>2, <1>4, <1>10, <1>11, <1>15, <2>1
    <2>2. CASE q # p
      <3>1. sessions'[q][l] = sessions[q][l] /\ links'[l].from = links[l].from
        BY <1>4, <1>11, <1>13, <2>2
      <3> QED
        BY <1>16, <3>1 DEF LinkInv, StateInv
    <2> QED
      BY <2>1, <2>2
  <1>18. WireInv(l)'
    <2> SUFFICES ASSUME NEW q \in Peer,
                        q \notin {links'[l].from, links'[l].to} \/ Gone(q, l)'
                 PROVE  wire'[q][l] = <<>>
      BY <1>4, <1>11 DEF WireInv
    <2>1. q # p
      BY <1>2, <1>4, <1>10, <1>11 DEF Gone
    <2>2. q \notin {links[l].from, links[l].to} \/ Gone(q, l)
      BY <1>4, <1>11, <1>13, <2>1 DEF Gone
    <2>3. wire[q][l] = <<>>
      BY <1>4, <1>16, <2>2 DEF LinkInv, WireInv
    <2>4. ~(Joins(l, p, q) /\ ~Gone(q, l))
      BY <2>2 DEF Joins
    <2> QED
      BY <1>9, <2>1, <2>3, <2>4 DEF Finished
  <1>19. KindInv(l)'
    <2> SUFFICES ASSUME NEW q \in Peer
                 PROVE  /\ Has(sessions'[q][l].out, "handshake") => links[l].from = q
                        /\ Has(sessions'[q][l].out, "response") => links[l].to = q
                        /\ Has(wire'[q][l], "handshake") => links[l].to = q
                        /\ Has(wire'[q][l], "response") => links[l].from = q
      BY <1>4, <1>11 DEF KindInv
    <2>1. /\ Has(sessions[q][l].out, "handshake") => links[l].from = q
          /\ Has(sessions[q][l].out, "response") => links[l].to = q
      BY <1>4, <1>16 DEF LinkInv, KindInv
    <2>2. sessions'[q][l] = sessions[q][l] \/ sessions'[q][l].out = <<>>
      BY <1>2, <1>10, <1>13
    <2> QED
      BY <1>4, <1>12, <2>1, <2>2, SentKinds, HasNone
  <1>20. ~Answered(l)'
    <2>1. ~Answered(l)
      BY <1>4, <1>16 DEF LinkInv, AnswerInv
    <2>2. sessions'[f][l] = sessions[f][l] /\ "response" \in Greetings
      BY <1>13, <1>15 DEF Greetings
    <2>3. ~Has(wire'[f][l], "response")
      <3>1. ~Has(sessions[p][l].out, "response") /\ ~Has(wire[f][l], "response")
        BY <1>4, <1>15, <2>1 DEF Answered
      <3> QED
        BY <1>4, <1>12, <1>15, <2>2, <3>1, GreetedFrom
    <2>4. ~Has(sessions'[p][l].out, "response")
      BY <1>2, <1>10, HasNone
    <2> QED
      BY <1>4, <1>11, <1>15, <2>1, <2>2, <2>3, <2>4 DEF Answered
  <1>21. AnswerInv(l)'
    BY <1>20 DEF AnswerInv
  <1>22. LowerInv(l)'
    <2> SUFFICES ASSUME <<links[l].from, links[l].to>> \in Lower
                 PROVE  sessions'[f][l].place # "duplicate"
      BY <1>4, <1>11, <1>15, <1>20 DEF LowerInv
    <2> QED
      BY <1>4, <1>13, <1>15, <1>16 DEF LinkInv, LowerInv
  <1>23. \A k \in Link : LinkInv(k)'
    BY <1>14, <1>17, <1>18, <1>19, <1>21, <1>22 DEF LinkInv
  <1>24. PairStep
    <2>1. Connects
      BY <1>4, SamePendingConnects
    <2>2. ASSUME NEW k \in Link
          PROVE  /\ k \in DOMAIN links' <=> k \in DOMAIN links
                 /\ k \in DOMAIN links => links'[k].from = links[k].from /\ links'[k].to = links[k].to
                 /\ \A q \in Peer :
                       /\ sessions'[q][k].place \in {"session", "duplicate"} =>
                             sessions'[q][k].place = sessions[q][k].place
                       /\ k \in DOMAIN links /\ links[k].from = q /\ sessions'[q][k].place \in Live =>
                             sessions'[q][k].place = sessions[q][k].place
      <3>1. CASE k # l
        BY <1>13, <1>14, <3>1, LinkStep DEF Live
      <3>2. CASE k = l
        BY <1>2, <1>4, <1>10, <1>11, <1>13, <1>15, <3>2
      <3> QED
        BY <3>1, <3>2
    <2> QED
      BY <2>1, <2>2, Zenon DEF PairStep
  <1>25. EndsInv'
    <2> SUFFICES ASSUME NEW q \in Peer, NEW k \in Link, sessions'[q][k].place # "none"
                 PROVE  /\ k \in DOMAIN links'
                        /\ links'[k].from = q \/ (links'[k].to = q /\ links'[k].accepted)
      BY DEF EndsInv
    <2>1. CASE q = p /\ k = l
      BY <1>4, <1>11, <2>1
    <2>2. CASE ~(q = p /\ k = l)
      <3>1. sessions[q][k].place # "none"
        <4>1. CASE q # p
          BY <1>13, <4>1
        <4>2. CASE q = p /\ k # l
          BY <1>7, <1>9, <4>2 DEF Finished, PrunedTo
        <4> QED
          BY <2>2, <4>1, <4>2
      <3>2. k \in DOMAIN links /\ (links[k].from = q \/ (links[k].to = q /\ links[k].accepted))
        BY <3>1 DEF PeerInv, NetInv, EndsInv
      <3> QED
        BY <1>4, <1>11, <3>2
    <2> QED
      BY <2>1, <2>2
  <1>26. HostsInv'
    BY <1>4, <1>5, <1>11 DEF PeerInv, NetInv, HostsInv
  <1>27. TypeOK'
    BY <1>4, <1>5, <1>9, <1>11 DEF Finished, Table, Wire, bounds, PeerInv, NetInv, TypeOK
  <1> QED
    BY <1>23, <1>24, <1>25, <1>26, <1>27, PairKept DEF PeerInv, NetInv, SessionInv

LEMMA ConnectedInv ==
    ASSUME PeerInv, NEW p \in Peer, NEW q \in Peer, Connected(p, q)
    PROVE  PeerInv'
  <1>1. PICK m \in Message : m = Plain("handshake") /\ m.kind = "handshake"
    BY PlainType
  <1>2. PICK y \in Session : y = Fresh(TRUE) /\ y.place = "connecting" /\ y.hosted /\ y.active /\ y.open
                             /\ y.out = <<>>
    <2>1. <<>> \in Seq(Message)
      OBVIOUS
    <2>2. Fresh(TRUE) \in Session
      BY <2>1 DEF Fresh, Session, Place
    <2>3. /\ Fresh(TRUE).place = "connecting" /\ Fresh(TRUE).hosted /\ Fresh(TRUE).active
          /\ Fresh(TRUE).open /\ Fresh(TRUE).out = <<>>
      BY DEF Fresh
    <2> QED
      BY <2>2, <2>3, Zenon
  <1>3. PICK x \in Session : x = Write(y, m)
    BY WriteFacts
  <1>4. /\ x.place = "connecting" /\ x.hosted /\ x.active /\ x.open
        /\ ~Has(x.out, "response")
    <2>1. x.out = Append(<<>>, m) /\ <<>> \in Seq(Message)
      <3>1. Write(y, m).out = IF y.active THEN Append(y.out, m) ELSE y.out
        BY WriteFacts
      <3>2. <<>> \in Seq(Message)
        OBVIOUS
      <3> QED
        BY <1>2, <1>3, <3>1, <3>2
    <2>2. ~Has(x.out, "response")
      <3>1. Has(Append(<<>>, m), "response") <=> Has(<<>>, "response") \/ m.kind = "response"
        BY <2>1, HasOf
      <3> QED
        BY <1>1, <2>1, <3>1, HasNone
    <2> QED
      BY <1>2, <1>3, <2>2, WriteFacts
  <1>5. PICK c : c = [from |-> p, to |-> q, up |-> TRUE, accepted |-> FALSE]
    OBVIOUS
  <1>6. PICK l \in FreeLinks :
            /\ links' = [k \in DOMAIN links \cup {l} |-> IF k = l THEN c ELSE links[k]]
            /\ Finish(p, [sessions[p] EXCEPT ![l] = x], <<>>, wire)
    BY <1>1, <1>2, <1>3, <1>5 DEF Connected
  <1>7. /\ q \in pending[p] /\ pending' = [pending EXCEPT ![p] = @ \ {q}]
        /\ UNCHANGED <<known, queued, tasks, writes, recvs, todo, bounds>>
    BY DEF Connected
  <1>8. q # p
    BY <1>7 DEF PeerInv, NetInv, HostsInv
  <1>9. l \in Link /\ (l \in DOMAIN links => Gone(links[l].from, l) /\ Gone(links[l].to, l))
    BY DEF FreeLinks
  <1>10. DOMAIN links \subseteq Link /\ \A k \in DOMAIN links :
            /\ links[k] \in [from : Peer, to : Peer, up : BOOLEAN, accepted : BOOLEAN]
            /\ links[k].from # links[k].to
    BY DEF PeerInv, NetInv, TypeOK, HostsInv
  <1>11. LinkInv(l)
    BY <1>9 DEF PeerInv, SessionInv
  <1>12. ASSUME NEW r \in Peer
         PROVE  /\ sessions[r][l].place = "none" /\ sessions[r][l] = NoSession
                /\ wire[r][l] = <<>> /\ ~(Joins(l, p, r) /\ ~Gone(r, l))
    <2>1. sessions[r][l].place = "none"
      <3>1. CASE sessions[r][l].place # "none"
        <4>1. l \in DOMAIN links /\ r \in {links[l].from, links[l].to}
          BY <1>9, <3>1 DEF PeerInv, NetInv, EndsInv
        <4> QED
          BY <1>9, <3>1, <4>1 DEF Gone
      <3> QED
        BY <3>1
    <2>2. wire[r][l] = <<>>
      BY <1>9, <1>11 DEF LinkInv, WireInv
    <2>3. ~(Joins(l, p, r) /\ ~Gone(r, l))
      BY <1>9 DEF Joins
    <2> QED
      BY <1>9, <2>1, <2>2, <2>3, NoSessionThere
  <1>13. PICK t : t = [sessions[p] EXCEPT ![l] = x]
    OBVIOUS
  <1>14. t \in Table /\ t[l] = x /\ \A k \in Link : k # l => t[k] = sessions[p][k]
    BY <1>9, <1>13, SessionsAreTable DEF Table
  <1>15. Ends(p, t)
    BY <1>4, <1>14 DEF Ends, PeerInv, NetInv, EndsInv
  <1>16. Finished(p, t, wire)
    <2>1. TypeOK /\ Finish(p, t, <<>>, wire)
      BY <1>6, <1>13 DEF PeerInv, NetInv
    <2> QED
      BY <1>14, <1>15, <2>1, FinishFacts, SessionsAreTable
  <1>17. sessions'[p][l] = x
    <2>1. PrunedTo(x, sessions'[p][l])
      BY <1>9, <1>14, <1>16 DEF Finished
    <2> QED
      BY <1>4, <2>1 DEF PrunedTo
  <1>18. /\ DOMAIN links' = DOMAIN links \cup {l} /\ links'[l] = c
         /\ \A k \in DOMAIN links : k # l => links'[k] = links[k]
    BY <1>6
  <1>19. Greeted /\ \A k \in Link : SameLink(k) => WireInv(k)'
    BY <1>16, FinishedWire, SessionsAreTable
  <1>20. sessions' \in [Peer -> Table] /\ \A r \in Peer : r # p => sessions'[r] = sessions[r]
    BY <1>16 DEF Finished
  <1>21. ASSUME NEW k \in Link, k # l PROVE SameLink(k) /\ FallsAt(k) /\ LinkInv(k)'
    <2>1. SameLink(k)
      BY <1>18, <1>21 DEF SameLink
    <2>2. Alike(sessions[p][k], t[k])
      BY <1>14, <1>21 DEF Alike
    <2>3. FallsAt(k)
      BY <1>16, <2>2, FinishedFalls
    <2> QED
      BY <1>19, <1>20, <2>1, <2>3, CalmLink
  <1>22. ASSUME NEW r \in Peer
         PROVE  /\ wire'[r][l] = <<>>
                /\ r # p => sessions'[r][l] = NoSession
    <2>1. CASE r = p
      <3>1. sessions[p][l].place = "none" /\ wire[p][l] = <<>>
        BY <1>12
      <3> QED
        BY <1>9, <1>16, <2>1, <3>1 DEF Finished
    <2>2. CASE r # p
      <3>1. wire'[r][l] = wire[r][l]
        BY <1>9, <1>12, <1>16, <2>2 DEF Finished
      <3> QED
        BY <1>12, <1>20, <2>2, <3>1
    <2> QED
      BY <2>1, <2>2
  <1>23. NoSession.place = "none" /\ NoSession.out = <<>>
    BY DEF NoSession
  <1>24. links'[l].from = p /\ links'[l].to = q /\ l \in DOMAIN links'
    BY <1>5, <1>18
  <1>25. StateInv(l)'
    BY <1>4, <1>8, <1>17, <1>22, <1>23, <1>24 DEF StateInv
  <1>26. WireInv(l)'
    BY <1>22 DEF WireInv
  <1>27. KindInv(l)'
    <2> SUFFICES ASSUME NEW r \in Peer
                 PROVE  /\ Has(sessions'[r][l].out, "handshake") => r = p
                        /\ ~Has(sessions'[r][l].out, "response")
                        /\ ~Has(wire'[r][l], "handshake") /\ ~Has(wire'[r][l], "response")
      BY <1>24 DEF KindInv
    <2> QED
      BY <1>4, <1>17, <1>22, <1>23, HasNone
  <1>28. ~Answered(l)'
    BY <1>4, <1>8, <1>17, <1>22, <1>23, <1>24, HasNone DEF Answered
  <1>29. AnswerInv(l)' /\ LowerInv(l)'
    BY <1>4, <1>17, <1>24, <1>28 DEF AnswerInv, LowerInv
  <1>30. \A k \in Link : LinkInv(k)'
    BY <1>21, <1>25, <1>26, <1>27, <1>29 DEF LinkInv
  <1>31. \A k \in Link, r \in Peer :
            sessions'[r][k].place \in {"session", "duplicate"} =>
                k # l /\ sessions'[r][k].place = sessions[r][k].place
    <2> SUFFICES ASSUME NEW k \in Link, NEW r \in Peer,
                        sessions'[r][k].place \in {"session", "duplicate"}
                 PROVE  k # l /\ sessions'[r][k].place = sessions[r][k].place
      OBVIOUS
    <2>1. k # l
      BY <1>4, <1>17, <1>22, <1>23
    <2> QED
      BY <1>20, <1>21, <2>1, LinkStep
  <1>32. \A k \in Link, r \in Peer :
            k # l /\ sessions'[r][k].place \in Live => sessions[r][k].place = sessions'[r][k].place
    BY <1>20, <1>21, LinkStep DEF Live
  <1>33. \A k \in Link, r, o \in Peer : k # l =>
            (Made(k, r, o)' <=> Made(k, r, o)) /\ (Joins(k, r, o)' <=> Joins(k, r, o))
    BY <1>18 DEF Made, Joins
  <1>34. \A k \in Link : ~(Made(k, p, q) /\ sessions[p][k].place \in Live)
    BY <1>7 DEF PeerInv, SessionInv, PairInv, OwnInv
  <1>35. OwnInv'
    <2> SUFFICES ASSUME NEW r \in Peer, NEW o \in Peer, NEW j \in Link, NEW k \in Link,
                        Made(j, r, o)', sessions'[r][j].place \in Live
                 PROVE  /\ o \notin pending'[r]
                        /\ Made(k, r, o)' /\ sessions'[r][k].place \in Live => j = k
      BY DEF OwnInv
    <2>0. pending \in [Peer -> SUBSET Peer]
      BY DEF PeerInv, NetInv, TypeOK
    <2>1. CASE j = l
      <3>1. r = p /\ o = q
        BY <1>24, <2>1 DEF Made
      <3>2. q \notin pending'[p]
        BY <1>7, <2>0
      <3>3. ASSUME k # l, Made(k, p, q)', sessions'[p][k].place \in Live PROVE FALSE
        BY <1>32, <1>33, <1>34, <3>3
      <3> QED
        BY <2>1, <3>1, <3>2, <3>3
    <2>2. CASE j # l
      <3>1. Made(j, r, o) /\ sessions[r][j].place \in Live
        BY <1>32, <1>33, <2>2
      <3>2. o \notin pending[r] /\ (Made(k, r, o) /\ sessions[r][k].place \in Live => j = k)
        BY <3>1 DEF PeerInv, SessionInv, PairInv, OwnInv
      <3>3. o \notin pending'[r]
        BY <1>7, <2>0, <3>2
      <3>4. ASSUME k = l, Made(k, r, o)' PROVE FALSE
        <4>1. r = p /\ o = q
          BY <1>24, <3>4 DEF Made
        <4> QED
          BY <1>34, <3>1, <4>1
      <3> QED
        BY <1>32, <1>33, <3>2, <3>3, <3>4
    <2> QED
      BY <2>1, <2>2
  <1>36. OneInv'
    <2> SUFFICES ASSUME NEW r \in Peer, NEW o \in Peer, NEW j \in Link, NEW k \in Link,
                        Joins(j, r, o)', sessions'[r][j].place = "session",
                        Joins(k, r, o)', sessions'[r][k].place = "session"
                 PROVE  j = k
      BY DEF OneInv
    <2>1. /\ Joins(j, r, o) /\ sessions[r][j].place = "session"
          /\ Joins(k, r, o) /\ sessions[r][k].place = "session"
      BY <1>31, <1>33
    <2> QED
      BY <2>1 DEF PeerInv, SessionInv, PairInv, OneInv
  <1>37. HigherInv'
    <2> SUFFICES ASSUME NEW r \in Peer, NEW o \in Peer, NEW j \in Link, NEW k \in Link,
                        <<r, o>> \in Lower, Made(j, o, r)', Made(k, o, r)',
                        sessions'[r][k].place = "session", sessions'[r][j].place = "duplicate",
                        sessions'[o][k].place \in Live \cup {"duplicate"},
                        sessions'[o][j].place \in Live
                 PROVE  FALSE
      BY DEF HigherInv
    <2>1. /\ j # l /\ k # l /\ sessions[r][k].place = "session" /\ sessions[r][j].place = "duplicate"
      BY <1>31
    <2>2. Made(j, o, r) /\ Made(k, o, r)
      BY <1>33, <2>1
    <2>3. sessions[o][j].place \in Live /\ sessions[o][k].place \in Live \cup {"duplicate"}
      BY <1>31, <1>32, <2>1
    <2> QED
      BY <2>1, <2>2, <2>3 DEF PeerInv, SessionInv, PairInv, HigherInv
  <1>38. EndsInv'
    <2> SUFFICES ASSUME NEW r \in Peer, NEW k \in Link, sessions'[r][k].place # "none"
                 PROVE  /\ k \in DOMAIN links'
                        /\ links'[k].from = r \/ (links'[k].to = r /\ links'[k].accepted)
      BY DEF EndsInv
    <2>1. CASE k = l
      BY <1>22, <1>23, <1>24, <2>1
    <2>2. CASE k # l
      <3>1. sessions[r][k].place # "none"
        <4>1. CASE r # p
          BY <1>20, <4>1
        <4>2. CASE r = p
          BY <1>14, <1>16, <2>2, <4>2 DEF Finished, PrunedTo
        <4> QED
          BY <4>1, <4>2
      <3>2. k \in DOMAIN links /\ (links[k].from = r \/ (links[k].to = r /\ links[k].accepted))
        BY <3>1 DEF PeerInv, NetInv, EndsInv
      <3> QED
        BY <1>18, <2>2, <3>2
    <2> QED
      BY <2>1, <2>2
  <1>39. HostsInv'
    <2>1. \A k \in DOMAIN links' : links'[k].from # links'[k].to
      BY <1>8, <1>10, <1>18, <1>24
    <2>2. \A r \in Peer : pending'[r] \subseteq pending[r]
      BY <1>7 DEF PeerInv, NetInv, TypeOK
    <2> QED
      BY <1>7, <2>1, <2>2 DEF PeerInv, NetInv, HostsInv
  <1>40. TypeOK'
    <2>1. c \in [from : Peer, to : Peer, up : BOOLEAN, accepted : BOOLEAN]
      BY <1>5
    <2>2. DOMAIN links' \subseteq Link /\ \A k \in DOMAIN links' :
                links'[k] \in [from : Peer, to : Peer, up : BOOLEAN, accepted : BOOLEAN]
      BY <1>9, <1>10, <1>18, <2>1
    <2>3. pending' \in [Peer -> SUBSET Peer]
      BY <1>7 DEF PeerInv, NetInv, TypeOK
    <2> QED
      BY <1>7, <1>16, <2>2, <2>3 DEF Finished, Table, Wire, bounds, PeerInv, NetInv, TypeOK
  <1> QED
    BY <1>30, <1>35, <1>36, <1>37, <1>38, <1>39, <1>40 DEF PeerInv, NetInv, SessionInv, PairInv

-----------------------------------------------------------------------------
(* Handshakes and responses.                                                *)

\* What p's handler does with its end of a link that both peers have: it is, or
\* becomes, a session or a discarded one, and may answer.
Takes(p, l, t) ==
    /\ t[l].place \notin {"none", "connecting"}
    /\ \A K \in Greetings : Has(t[l].out, K) =>
            \/ Has(sessions[p][l].out, K)
            \/ K = "response" /\ links[l].to = p /\ t[l].place # "duplicate"
    /\ links[l].to = p \/ (links[l].from = p /\ Answered(l))
    /\ <<links[l].from, links[l].to>> \in Lower /\ t[l].place = "duplicate" =>
            links[l].to = p /\ ~Answered(l)

LEMMA TakenLink ==
    ASSUME PeerInv, NEW p \in Peer, NEW t \in Table, NEW w, Finished(p, t, w), Wired(p, w),
           links' = links, NEW l \in DOMAIN links, sessions[p][l].place # "none", Takes(p, l, t)
    PROVE  LinkInv(l)'
  <1>1. /\ l \in Link /\ links[l].from \in Peer /\ links[l].to \in Peer /\ links[l].from # links[l].to
    BY DEF PeerInv, NetInv, TypeOK, HostsInv
  <1>2. PICK n : n = sessions'[p][l]
    OBVIOUS
  <1>3. PICK x : x = t[l]
    OBVIOUS
  <1>4. /\ n.place = "none" => n = NoSession
        /\ n.place = "duplicate" => ~n.active /\ x.place = "duplicate"
        /\ n.place # "connecting"
        /\ n.out = x.out \/ n.out = <<>>
    <2>1. PrunedTo(x, n)
      BY <1>1, <1>2, <1>3 DEF Finished
    <2>2. x.place \notin {"none", "connecting"}
      BY <1>3 DEF Takes
    <2> QED
      BY <2>1, <2>2 DEF PrunedTo
  <1>5. \A q \in Peer : q # p => sessions'[q] = sessions[q]
    BY DEF Finished
  <1>6. LinkInv(l)
    BY <1>1 DEF PeerInv, SessionInv
  <1>7. Greeted /\ WireInv(l)'
    BY <1>1, FinishedWire DEF SameLink
  <1>8. \A K \in Greetings : Has(n.out, K) =>
            \/ Has(sessions[p][l].out, K)
            \/ K = "response" /\ links[l].to = p /\ x.place # "duplicate"
    BY <1>3, <1>4, HasNone DEF Takes
  <1>9. "handshake" \in Greetings /\ "response" \in Greetings /\ "handshake" # "response"
    BY DEF Greetings
  <1>10. StateInv(l)'
    <2> SUFFICES ASSUME NEW q \in Peer
                 PROVE  /\ sessions'[q][l].place = "none" => sessions'[q][l] = NoSession
                        /\ sessions'[q][l].place = "duplicate" => ~sessions'[q][l].active
                        /\ sessions'[q][l].place = "connecting" =>
                                (sessions'[q][l].hosted <=> links[l].from = q)
      BY DEF StateInv
    <2>1. CASE q = p
      BY <1>2, <1>4, <2>1
    <2>2. CASE q # p
      BY <1>5, <1>6, <2>2 DEF LinkInv, StateInv
    <2> QED
      BY <2>1, <2>2
  <1>11. KindInv(l)'
    <2> SUFFICES ASSUME NEW q \in Peer
                 PROVE  /\ Has(sessions'[q][l].out, "handshake") => links[l].from = q
                        /\ Has(sessions'[q][l].out, "response") => links[l].to = q
                        /\ Has(wire'[q][l], "handshake") => links[l].to = q
                        /\ Has(wire'[q][l], "response") => links[l].from = q
      BY DEF KindInv
    <2>1. /\ Has(sessions[q][l].out, "handshake") => links[l].from = q
          /\ Has(sessions[q][l].out, "response") => links[l].to = q
      BY <1>6 DEF LinkInv, KindInv
    <2>2. /\ Has(sessions'[q][l].out, "handshake") => links[l].from = q
          /\ Has(sessions'[q][l].out, "response") => links[l].to = q
      <3>1. CASE q = p
        BY <1>2, <1>8, <1>9, <2>1, <3>1
      <3>2. CASE q # p
        BY <1>5, <2>1, <3>2
      <3> QED
        BY <3>1, <3>2
    <2> QED
      BY <1>7, <2>2, SentKinds
  <1>12. ASSUME Answered(l)' PROVE Answered(l) \/ (links[l].to = p /\ x.place # "duplicate")
    <2>1. CASE links[l].from = p
      BY <1>1, <2>1 DEF Takes
    <2>2. CASE links[l].to = p
      <3>1. PICK f \in Peer : f = links[l].from /\ f # p
        BY <1>1, <2>2
      <3>2. sessions'[f][l] = sessions[f][l]
        BY <1>5, <3>1
      <3>3. \/ Has(n.out, "response")
            \/ Has(wire'[f][l], "response")
            \/ sessions[f][l].place \in {"session", "duplicate"}
        BY <1>2, <1>12, <2>2, <3>1, <3>2 DEF Answered
      <3>4. Has(n.out, "response") => Has(sessions[p][l].out, "response") \/ x.place # "duplicate"
        BY <1>8, <1>9
      <3>5. Has(wire'[f][l], "response") => Has(wire[f][l], "response") \/ Has(sessions[p][l].out, "response")
        BY <1>7, <1>9, <2>2, <3>1, GreetedFrom
      <3> QED
        BY <2>2, <3>1, <3>3, <3>4, <3>5 DEF Answered
    <2> QED
      BY <2>1, <2>2 DEF Takes
  <1>13. AnswerInv(l)'
    <2> SUFFICES ASSUME Answered(l)'
                 PROVE  links[l].accepted /\ sessions'[links[l].to][l].place # "connecting"
      BY DEF AnswerInv
    <2>1. CASE links[l].to = p
      <3>1. links[l].accepted
        BY <1>1, <2>1 DEF PeerInv, NetInv, EndsInv
      <3> QED
        BY <1>2, <1>4, <2>1, <3>1
    <2>2. CASE links[l].to # p
      <3>1. Answered(l)
        BY <2>2 DEF Takes
      <3> QED
        BY <1>1, <1>5, <1>6, <2>2, <3>1 DEF LinkInv, AnswerInv
    <2> QED
      BY <2>1, <2>2
  <1>14. LowerInv(l)'
    <2> SUFFICES ASSUME <<links[l].from, links[l].to>> \in Lower
                 PROVE  /\ sessions'[links[l].from][l].place # "duplicate"
                        /\ sessions'[links[l].to][l].place = "duplicate" => ~Answered(l)'
      BY DEF LowerInv
    <2>1. /\ sessions[links[l].from][l].place # "duplicate"
          /\ sessions[links[l].to][l].place = "duplicate" => ~Answered(l)
      BY <1>6 DEF LinkInv, LowerInv
    <2>2. x.place = "duplicate" => links[l].to = p /\ ~Answered(l)
      BY <1>3 DEF Takes
    <2>3. CASE links[l].to = p
      BY <1>1, <1>2, <1>4, <1>5, <1>12, <2>1, <2>2, <2>3
    <2>4. CASE links[l].to # p
      <3>1. links[l].from = p /\ Answered(l)
        BY <2>4 DEF Takes
      <3> QED
        BY <1>1, <1>2, <1>4, <1>5, <2>1, <2>2, <2>4, <3>1
    <2> QED
      BY <2>3, <2>4
  <1> QED
    BY <1>7, <1>10, <1>11, <1>13, <1>14, Zenon DEF LinkInv

\* A link being made becomes a session instead of the others with q, or is
\* discarded for one of them.
Resolved(p, q, l, t) ==
    \/ /\ t[l].place = "session"
       /\ \A k \in Link : k # l =>
             IF k \in SessionsWith(sessions[p], p, q)
             THEN t[k].place = "duplicate" /\ t[k].out = <<>> /\ NewSurvives(p, q, k)
             ELSE t[k] = sessions[p][k]
    \/ /\ t[l].place = "duplicate"
       /\ \E k \in SessionsWith(sessions[p], p, q) : ~NewSurvives(p, q, k)
       /\ \A k \in Link : k # l => t[k] = sessions[p][k]

\* What Takes asks of l, without the order of the uuids.
Greets(p, l, t) ==
    /\ \A K \in Greetings : Has(t[l].out, K) =>
            \/ Has(sessions[p][l].out, K)
            \/ K = "response" /\ links[l].to = p /\ t[l].place # "duplicate"
    /\ links[l].to = p \/ (links[l].from = p /\ Answered(l))

LEMMA SurvivesOrder ==
    ASSUME NEW p \in Peer, NEW q \in Peer, p # q, NEW k, Joins(k, p, q), links[k].from # links[k].to
    PROVE  NewSurvives(p, q, k) <=> <<links[k].from, links[k].to>> \notin Lower
  <1>1. <<p, q>> \in Lower <=> <<q, p>> \notin Lower
    BY PeerAssumption
  <1>2. (links[k].from = p /\ links[k].to = q) \/ (links[k].from = q /\ links[k].to = p)
    BY DEF Joins
  <1> QED
    BY <1>1, <1>2 DEF NewSurvives

LEMMA ResolvedLinks ==
    ASSUME PeerInv, NEW p \in Peer, NEW q \in Peer, NEW t \in Table, NEW w, Finished(p, t, w),
           Wired(p, w), links' = links, NEW l \in DOMAIN links, Joins(l, p, q), p # q,
           sessions[p][l].place = "connecting", Resolved(p, q, l, t), Greets(p, l, t)
    PROVE  \A k \in Link : LinkInv(k)'
  <1>1. l \in Link /\ \A k \in DOMAIN links : links[k].from # links[k].to
    BY DEF PeerInv, NetInv, TypeOK, HostsInv
  <1>2. (links[l].from = p /\ links[l].to = q) \/ (links[l].from = q /\ links[l].to = p)
    BY DEF Joins
  <1>3. LinkInv(l)'
    <2>1. t[l].place \in {"session", "duplicate"}
      BY DEF Resolved
    <2>2. ASSUME <<links[l].from, links[l].to>> \in Lower, t[l].place = "duplicate"
          PROVE  links[l].to = p /\ ~Answered(l)
      <3>1. PICK k \in SessionsWith(sessions[p], p, q) : ~NewSurvives(p, q, k)
        BY <2>2 DEF Resolved
      <3>2. k \in Link /\ sessions[p][k].place = "session" /\ Joins(k, p, q) /\ k \in DOMAIN links
        BY <3>1 DEF SessionsWith, Joins
      <3>3. <<links[k].from, links[k].to>> \in Lower
        BY <1>1, <3>1, <3>2, SurvivesOrder
      <3>4. links[l].to = p
        <4>1. ASSUME links[l].from = p PROVE FALSE
          <5>1. <<p, q>> \in Lower /\ <<q, p>> \notin Lower
            BY <1>1, <1>2, <2>2, <4>1, PeerAssumption
          <5>2. links[k].from = p /\ links[k].to = q
            BY <3>2, <3>3, <5>1 DEF Joins
          <5>3. Made(k, p, q) /\ Made(l, p, q)
            BY <1>1, <1>2, <3>2, <4>1, <5>2 DEF Made
          <5>4. l = k
            BY <1>1, <3>2, <5>3 DEF Live, PeerInv, SessionInv, PairInv, OwnInv
          <5> QED
            BY <3>2, <5>4
        <4> QED
          BY <1>2, <4>1
      <3>5. ~Answered(l)
        BY <1>1, <3>4 DEF PeerInv, SessionInv, LinkInv, AnswerInv
      <3> QED
        BY <3>4, <3>5
    <2>3. Takes(p, l, t)
      BY <2>1, <2>2 DEF Greets, Takes
    <2> QED
      BY <2>3, TakenLink
  <1>4. ASSUME NEW k \in Link, k # l, t[k] = sessions[p][k] PROVE LinkInv(k)'
    <2>1. Alike(sessions[p][k], t[k])
      BY <1>4 DEF Alike
    <2>2. SameLink(k) /\ FallsAt(k)
      BY <2>1, FinishedFalls DEF SameLink
    <2>3. Greeted /\ WireInv(k)' /\ sessions' \in [Peer -> Table]
      BY <2>2, FinishedWire DEF Finished
    <2> QED
      BY <2>2, <2>3, CalmLink
  <1>5. ASSUME NEW k \in Link, k # l, t[k] # sessions[p][k] PROVE LinkInv(k)'
    <2>1. /\ k \in SessionsWith(sessions[p], p, q)
          /\ t[k].place = "duplicate" /\ t[k].out = <<>> /\ NewSurvives(p, q, k)
      BY <1>5 DEF Resolved
    <2>2. k \in DOMAIN links /\ sessions[p][k].place = "session" /\ Joins(k, p, q)
      BY <2>1 DEF SessionsWith, Joins
    <2>3. <<links[k].from, links[k].to>> \notin Lower
      BY <1>1, <2>1, <2>2, SurvivesOrder
    <2>4. links[k].to = p \/ (links[k].from = p /\ Answered(k))
      BY <2>2 DEF Joins, Answered
    <2>5. Takes(p, k, t)
      BY <2>1, <2>3, <2>4, HasNone DEF Takes
    <2> QED
      BY <2>2, <2>5, TakenLink
  <1> QED
    BY <1>3, <1>4, <1>5

LEMMA ResolvedPairs ==
    ASSUME PeerInv, NEW p \in Peer, NEW q \in Peer, NEW t \in Table, NEW w, Finished(p, t, w),
           links' = links, pending' = pending, NEW l \in DOMAIN links, Joins(l, p, q), p # q,
           sessions[p][l].place = "connecting", Resolved(p, q, l, t)
    PROVE  PairInv'
  <1>1. l \in Link /\ \A k \in DOMAIN links : links[k].from # links[k].to
    BY DEF PeerInv, NetInv, TypeOK, HostsInv
  <1>2. \A r \in Peer : r # p => sessions'[r] = sessions[r]
    BY DEF Finished
  \* What is live, a session or discarded afterwards is so in t.
  <1>3. ASSUME NEW k \in Link
        PROVE  /\ sessions'[p][k].place \in {"connecting", "session", "duplicate"} =>
                        t[k].place = sessions'[p][k].place
               /\ sessions'[p][k].place \in Live => t[k].place = sessions'[p][k].place
    <2>1. PrunedTo(t[k], sessions'[p][k])
      BY DEF Finished
    <2> QED
      BY <2>1 DEF PrunedTo, Live
  <1>4. ASSUME NEW k \in Link, k # l, ~(Joins(k, p, q) /\ sessions[p][k].place = "session")
        PROVE  t[k] = sessions[p][k]
    BY <1>4 DEF Resolved, SessionsWith
  <1>5. ASSUME NEW k \in Link
        PROVE  sessions'[p][k].place \in Live => sessions[p][k].place \in Live
    <2>1. CASE k = l
      BY <2>1 DEF Live
    <2>2. CASE k # l /\ ~(Joins(k, p, q) /\ sessions[p][k].place = "session")
      BY <1>3, <1>4, <2>2
    <2>3. CASE sessions[p][k].place = "session"
      BY <2>3 DEF Live
    <2> QED
      BY <2>1, <2>2, <2>3
  <1>6. ASSUME NEW k \in Link
        PROVE  sessions'[p][k].place \in Live \cup {"duplicate"} =>
                    sessions[p][k].place \in Live \cup {"duplicate"}
    <2>1. CASE k = l
      BY <2>1 DEF Live
    <2>2. CASE k # l /\ ~(Joins(k, p, q) /\ sessions[p][k].place = "session")
      BY <1>3, <1>4, <2>2 DEF Live
    <2>3. CASE sessions[p][k].place = "session"
      BY <2>3 DEF Live
    <2> QED
      BY <2>1, <2>2, <2>3
  <1>7. OwnInv'
    <2> SUFFICES ASSUME NEW r \in Peer, NEW o \in Peer, NEW j \in Link, NEW k \in Link,
                        Made(j, r, o), sessions'[r][j].place \in Live
                 PROVE  /\ o \notin pending[r]
                        /\ Made(k, r, o) /\ sessions'[r][k].place \in Live => j = k
      BY DEF OwnInv, Made
    <2>1. sessions[r][j].place \in Live /\ (sessions'[r][k].place \in Live => sessions[r][k].place \in Live)
      BY <1>2, <1>5
    <2> QED
      BY <2>1 DEF PeerInv, SessionInv, PairInv, OwnInv
  <1>8. OneInv'
    <2> SUFFICES ASSUME NEW r \in Peer, NEW o \in Peer, NEW j \in Link, NEW k \in Link,
                        Joins(j, r, o)', sessions'[r][j].place = "session",
                        Joins(k, r, o)', sessions'[r][k].place = "session"
                 PROVE  j = k
      BY DEF OneInv
    <2>0. Joins(j, r, o) /\ Joins(k, r, o)
      BY DEF Joins
    <2>1. CASE r # p \/ (j # l /\ k # l)
      <3>1. sessions[r][j].place = "session" /\ sessions[r][k].place = "session"
        BY <1>2, <1>3, <1>4, <2>1
      <3> QED
        BY <2>0, <3>1 DEF PeerInv, SessionInv, PairInv, OneInv
    <2>2. CASE r = p /\ (j = l \/ k = l)
      <3>1. o = q /\ Joins(j, p, q) /\ Joins(k, p, q)
        BY <2>0, <2>2 DEF Joins
      <3>2. t[l].place = "session" /\ t[j].place = "session" /\ t[k].place = "session"
        BY <1>3, <2>2
      <3>3. ASSUME NEW i \in Link, i # l, Joins(i, p, q), t[i].place = "session" PROVE FALSE
        <4>1. i \in SessionsWith(sessions[p], p, q)
          BY <1>4, <3>3 DEF SessionsWith
        <4> QED
          BY <3>2, <3>3, <4>1 DEF Resolved
      <3> QED
        BY <3>1, <3>2, <3>3
    <2> QED
      BY <2>1, <2>2
  <1>9. HigherInv'
    <2> SUFFICES ASSUME NEW r \in Peer, NEW o \in Peer, NEW j \in Link, NEW k \in Link,
                        <<r, o>> \in Lower, Made(j, o, r), Made(k, o, r),
                        sessions'[r][k].place = "session", sessions'[r][j].place = "duplicate",
                        sessions'[o][k].place \in Live \cup {"duplicate"},
                        sessions'[o][j].place \in Live
                 PROVE  FALSE
      BY DEF HigherInv, Made
    <2>1. sessions[o][k].place \in Live \cup {"duplicate"} /\ sessions[o][j].place \in Live
      BY <1>2, <1>5, <1>6
    <2>2. CASE sessions[r][k].place = "session" /\ sessions[r][j].place = "duplicate"
      BY <2>1, <2>2 DEF PeerInv, SessionInv, PairInv, HigherInv
    <2>3. CASE ~(sessions[r][k].place = "session" /\ sessions[r][j].place = "duplicate")
      <3>1. r = p /\ t[k].place = "session" /\ t[j].place = "duplicate" /\ j # k
        BY <1>2, <1>3, <2>3
      <3>2. o # r /\ Joins(k, r, o) /\ Joins(j, r, o) /\ k \in DOMAIN links
        BY <1>1 DEF Made, Joins
      <3>3. CASE k = l
        <4>1. sessions[r][l].place = "connecting" /\ links[l].to = r /\ links[l].from = o
          BY <3>1, <3>3 DEF Made
        <4>2. ~Answered(l)
          BY <1>1, <4>1 DEF PeerInv, SessionInv, LinkInv, AnswerInv
        <4>3. sessions[o][l].place \in Live
          BY <2>1, <3>3, <4>1, <4>2 DEF Answered
        <4>4. j = l
          BY <1>1, <2>1, <3>3, <4>3 DEF PeerInv, SessionInv, PairInv, OwnInv
        <4> QED
          BY <3>1, <3>3, <4>4
      <3>4. CASE k # l
        <4>1. sessions[r][k].place = "session"
          BY <1>4, <3>1, <3>4
        <4>2. CASE j = l
          <5>1. o = q
            BY <3>1, <3>2, <4>2 DEF Joins
          <5>2. PICK i \in SessionsWith(sessions[p], p, q) : ~NewSurvives(p, q, i)
            BY <3>1, <4>2 DEF Resolved
          <5>3. i \in Link /\ Joins(i, p, q) /\ sessions[p][i].place = "session"
            BY <5>2 DEF SessionsWith
          <5>4. i = k
            BY <3>1, <3>2, <4>1, <5>1, <5>3 DEF PeerInv, SessionInv, PairInv, OneInv
          <5>5. links[k].from = p
            BY <3>1, <5>1, <5>2, <5>4 DEF NewSurvives
          <5> QED
            BY <3>1, <3>2, <5>5 DEF Made
        <4>3. CASE j # l
          <5>1. sessions[r][j].place = "session"
            BY <1>4, <2>3, <3>1, <4>1, <4>3
          <5>2. j = k
            BY <3>2, <4>1, <5>1 DEF PeerInv, SessionInv, PairInv, OneInv
          <5> QED
            BY <3>1, <5>2
        <4> QED
          BY <4>2, <4>3
      <3> QED
        BY <3>3, <3>4
    <2> QED
      BY <2>2, <2>3
  <1> QED
    BY <1>7, <1>8, <1>9 DEF PairInv

LEMMA ResolvedHandled ==
    ASSUME PeerInv, NEW p \in Peer, NEW q \in Peer, NEW t \in Table, NEW w \in Wire,
           NEW es \in Seq(AnyEvent), Finish(p, t, es, w),
           Wired(p, w), links' = links, pending' = pending, NEW l \in DOMAIN links, Joins(l, p, q), p # q,
           sessions[p][l].place = "connecting", Resolved(p, q, l, t), Greets(p, l, t)
    PROVE  Handled
  <1>1. \A k \in Link : t[k].place # "none" => sessions[p][k].place # "none"
    BY DEF Resolved, SessionsWith
  <1>2. \A k \in Link : sessions[p][k].place # "none" => k \in DOMAIN links /\ p \in {links[k].from, links[k].to}
    BY DEF PeerInv, NetInv, EndsInv
  <1>3. Ends(p, t)
    BY <1>1, <1>2 DEF Ends
  <1>4. Finished(p, t, w)
    BY <1>3, FinishFacts DEF PeerInv, NetInv
  <1>5. (\A k \in Link : LinkInv(k)') /\ PairInv'
    BY <1>4, ResolvedLinks, ResolvedPairs
  <1>6. EndsInv'
    BY <1>1, <1>4, FinishedEnds
  <1> QED
    BY <1>4, <1>5, <1>6 DEF Handled, Finished, SessionInv, Table, Wire

\* What Resolve makes of a link being made.
LEMMA ResolveFacts ==
    ASSUME PeerInv, NEW p \in Peer, NEW q \in Peer, NEW l \in Link,
           sessions[p][l].place = "connecting"
    PROVE  /\ Resolve(p, q, l) \in Table /\ Resolved(p, q, l, Resolve(p, q, l))
           /\ \A K \in Greetings : Has(Resolve(p, q, l)[l].out, K) => Has(sessions[p][l].out, K)
           /\ Resolve(p, q, l)[l].place = "duplicate" => ~Resolve(p, q, l)[l].active
  <1>1. PICK s \in Table : s = sessions[p]
    BY SessionsAreTable
  <1>2. ASSUME NEW k \in Link
        PROVE  /\ Discard(s, k) \in Table
               /\ \A j \in Link : j # k => Discard(s, k)[j] = s[j]
               /\ Discard(s, k)[k].place = "duplicate" /\ Discard(s, k)[k].out = <<>>
               /\ ~Discard(s, k)[k].active
    <2>1. PICK r \in Session : r = Shutdown(s[k]) /\ r.out = <<>> /\ ~r.active
      <3>1. s[k] \in Session
        BY DEF Table
      <3> QED
        BY <3>1, ShutdownFacts
    <2>2. PICK x \in Session : x = [r EXCEPT !.place = "duplicate"]
                               /\ x.place = "duplicate" /\ x.out = r.out /\ x.active = r.active
      <3>1. [r EXCEPT !.place = "duplicate"] \in Session
        BY DEF Session, Place
      <3>2. /\ [r EXCEPT !.place = "duplicate"].place = "duplicate"
            /\ [r EXCEPT !.place = "duplicate"].out = r.out
            /\ [r EXCEPT !.place = "duplicate"].active = r.active
        BY DEF Session
      <3> QED
        BY <3>1, <3>2
    <2>3. Discard(s, k) = [s EXCEPT ![k] = x]
      BY <2>1, <2>2 DEF Discard
    <2> QED
      BY <2>1, <2>2, <2>3 DEF Table
  <1>3. ASSUME NEW u \in Table
        PROVE  /\ Keep(u, l) \in Table
               /\ \A j \in Link : j # l => Keep(u, l)[j] = u[j]
               /\ Keep(u, l)[l].place = "session" /\ Keep(u, l)[l].out = u[l].out
    <2>1. PICK r \in Session : r = u[l]
      BY DEF Table
    <2>2. PICK x : x = [r EXCEPT !.place = "session", !.hosted = TRUE]
      OBVIOUS
    <2>3. x \in Session /\ x.place = "session" /\ x.out = r.out
      BY <2>2 DEF Session, Place
    <2>4. Keep(u, l) = [u EXCEPT ![l] = x]
      BY <2>1, <2>2 DEF Keep
    <2> QED
      BY <2>1, <2>3, <2>4 DEF Table
  <1>4. PICK old \in SUBSET Link : old = SessionsWith(s, p, q)
    BY DEF SessionsWith
  <1>5. \A k \in old : s[k].place = "session" /\ Joins(k, p, q) /\ k # l
    BY <1>1, <1>4 DEF SessionsWith
  <1>6. PICK k : k = CHOOSE x \in old : TRUE
    OBVIOUS
  <1>7. Resolve(p, q, l) = IF old = {} THEN Keep(s, l)
                           ELSE IF NewSurvives(p, q, k) THEN Keep(Discard(s, k), l) ELSE Discard(s, l)
    BY <1>1, <1>4, <1>6 DEF Resolve
  <1>8. CASE old = {}
    <2>1. Resolve(p, q, l) = Keep(s, l)
      BY <1>7, <1>8
    <2>2. PICK t : t = Keep(s, l)
      OBVIOUS
    <2>3. t \in Table /\ (\A j \in Link : j # l => t[j] = s[j]) /\ t[l].place = "session" /\ t[l].out = s[l].out
      BY <1>3, <2>2
    <2>4. Resolved(p, q, l, t)
      BY <1>1, <1>4, <1>8, <2>3 DEF Resolved
    <2> QED
      BY <1>1, <2>1, <2>2, <2>3, <2>4
  <1>9. ASSUME old # {} PROVE k \in old /\ k \in Link /\ \A j \in old : j = k
    <2>1. k \in old
      BY <1>6, <1>9
    <2>2. ASSUME NEW j \in old PROVE j = k
      BY <1>1, <1>5, <2>1 DEF PeerInv, SessionInv, PairInv, OneInv
    <2> QED
      BY <2>1, <2>2
  <1>10. CASE old # {} /\ NewSurvives(p, q, k)
    <2>1. PICK u \in Table : u = Discard(s, k)
      BY <1>2, <1>9, <1>10
    <2>2. PICK t : t = Keep(u, l)
      OBVIOUS
    <2>3. /\ t \in Table /\ \A j \in Link : j # l => t[j] = u[j]
          /\ t[l].place = "session" /\ t[l].out = u[l].out
      BY <1>3, <2>1, <2>2
    <2>4. /\ \A j \in Link : j # k => u[j] = s[j]
          /\ u[k].place = "duplicate" /\ u[k].out = <<>>
      BY <1>2, <1>9, <1>10, <2>1
    <2>5. Resolve(p, q, l) = t
      BY <1>7, <1>10, <2>1, <2>2
    <2>6. k # l
      BY <1>5, <1>9, <1>10
    <2>7. ASSUME NEW j \in Link, j # l
          PROVE  IF j \in old THEN t[j].place = "duplicate" /\ t[j].out = <<>> /\ NewSurvives(p, q, j)
                 ELSE t[j] = s[j]
      <3>1. t[j] = u[j] /\ (j \in old <=> j = k)
        BY <1>9, <1>10, <2>3, <2>7
      <3> QED
        BY <1>10, <2>4, <3>1
    <2>8. Resolved(p, q, l, t)
      BY <1>1, <1>4, <2>3, <2>7 DEF Resolved
    <2> QED
      BY <1>1, <2>3, <2>4, <2>5, <2>6, <2>8
  <1>11. CASE old # {} /\ ~NewSurvives(p, q, k)
    <2>1. PICK t \in Table : t = Discard(s, l)
      BY <1>2
    <2>2. /\ \A j \in Link : j # l => t[j] = s[j]
          /\ t[l].place = "duplicate" /\ t[l].out = <<>> /\ ~t[l].active
      BY <1>2, <2>1
    <2>3. Resolve(p, q, l) = t
      BY <1>7, <1>11, <2>1
    <2>4. Resolved(p, q, l, t)
      BY <1>1, <1>4, <1>9, <1>11, <2>2 DEF Resolved
    <2> QED
      BY <2>2, <2>3, <2>4, HasNone
  <1> QED
    BY <1>8, <1>10, <1>11

LEMMA ResolveEventsType ==
    ASSUME NEW p \in Peer, NEW q \in Peer, NEW l
    PROVE  ResolveEvents(p, q, l) \in Seq(AnyEvent)
  <1>1. PICK e \in AnyEvent : e = Event("connected", q)
    BY EventType
  <1>2. <<e>> \in Seq(AnyEvent) /\ <<>> \in Seq(AnyEvent)
    OBVIOUS
  <1> QED
    BY <1>1, <1>2 DEF ResolveEvents

\* A handshake on a link that is not being made is only answered.
LEMMA AnsweredAgain ==
    ASSUME PeerInv, NEW p \in Peer, NEW es \in Seq(AnyEvent), NEW w \in Wire, NEW l \in DOMAIN links,
           links[l].to = p, sessions[p][l].place \notin {"none", "connecting"},
           NEW m \in Message, m.kind = "response",
           Finish(p, [sessions[p] EXCEPT ![l] = Write(sessions[p][l], m)], es, w),
           Wired(p, w), links' = links, Connects
    PROVE  Handled
  <1>1. PICK r \in Session : r = sessions[p][l]
    BY SessionsAreTable DEF PeerInv, NetInv, TypeOK
  <1>2. PICK x \in Session : x = Write(r, m)
    BY WriteFacts
  <1>3. x.place = r.place /\ x.hosted = r.hosted /\ x.out = IF r.active THEN Append(r.out, m) ELSE r.out
    BY <1>2, WriteFacts
  <1>4. PICK t : t = [sessions[p] EXCEPT ![l] = x]
    OBVIOUS
  <1>5. l \in Link /\ t \in Table /\ t[l] = x /\ \A k \in Link : k # l => t[k] = sessions[p][k]
    BY <1>4, SessionsAreTable DEF Table, PeerInv, NetInv, TypeOK
  <1>6. Finish(p, t, es, w)
    BY <1>1, <1>2, <1>4
  <1>7. \A k \in Link : t[k].place = sessions[p][k].place
    BY <1>1, <1>3, <1>5
  <1>8. Ends(p, t)
    BY <1>7 DEF Ends, PeerInv, NetInv, EndsInv
  <1>9. Finished(p, t, w)
    BY <1>5, <1>6, <1>8, FinishFacts DEF PeerInv, NetInv
  <1>10. Takes(p, l, t)
    <2>1. r.place = "duplicate" => ~r.active
      BY <1>1, <1>5 DEF PeerInv, SessionInv, LinkInv, StateInv
    <2>2. ASSUME NEW K \in Greetings, Has(x.out, K)
          PROVE  Has(r.out, K) \/ (K = "response" /\ r.place # "duplicate")
      <3>1. r.out \in Seq(Message)
        BY SessionTypes
      <3>2. Has(Append(r.out, m), K) <=> Has(r.out, K) \/ m.kind = K
        BY <3>1, HasOf
      <3>3. CASE r.active
        <4>1. Has(Append(r.out, m), K)
          BY <1>3, <2>2, <3>3
        <4> QED
          BY <2>1, <3>2, <3>3, <4>1
      <3>4. CASE ~r.active
        BY <1>3, <2>2, <3>4
      <3> QED
        BY <3>3, <3>4
    <2>3. ASSUME <<links[l].from, links[l].to>> \in Lower, x.place = "duplicate" PROVE ~Answered(l)
      BY <1>1, <1>3, <1>5, <2>3 DEF PeerInv, SessionInv, LinkInv, LowerInv
    <2> QED
      BY <1>1, <1>3, <1>5, <2>2, <2>3 DEF Takes
  <1>11. LinkInv(l)'
    BY <1>5, <1>9, <1>10, TakenLink
  <1>12. ASSUME NEW k \in Link, k # l PROVE LinkInv(k)'
    <2>1. Alike(sessions[p][k], t[k])
      BY <1>5, <1>12 DEF Alike
    <2>2. SameLink(k) /\ FallsAt(k)
      BY <1>9, <2>1, FinishedFalls DEF SameLink
    <2>3. Greeted /\ WireInv(k)' /\ sessions' \in [Peer -> Table]
      BY <1>9, <2>2, FinishedWire DEF Finished
    <2> QED
      BY <2>2, <2>3, CalmLink
  <1>13. PairStep
    <2>1. ASSUME NEW k \in Link, NEW q \in Peer, sessions'[q][k].place \in {"connecting", "session", "duplicate"}
          PROVE  sessions'[q][k].place = sessions[q][k].place
      <3>1. CASE q # p
        BY <1>9, <3>1 DEF Finished
      <3>2. CASE q = p
        <4>1. PrunedTo(t[k], sessions'[p][k])
          BY <1>9 DEF Finished
        <4> QED
          BY <1>7, <2>1, <3>2, <4>1 DEF PrunedTo
      <3> QED
        BY <3>1, <3>2
    <2> QED
      BY <2>1 DEF PairStep, Live
  <1>14. PairInv'
    BY <1>13, PairKept
  <1>15. EndsInv'
    BY <1>7, <1>9, FinishedEnds
  <1> QED
    BY <1>9, <1>11, <1>12, <1>14, <1>15 DEF Handled, Finished, SessionInv, Table, Wire

LEMMA HandshakeInv ==
    ASSUME PeerInv, NEW p \in Peer, NEW l \in Link, Handshake(p, l)
    PROVE  PeerInv'
  <1>1. PICK q : q = Other(p, l)
    OBVIOUS
  <1>2. PICK m \in Message : m = Plain("response") /\ m.kind = "response"
    BY PlainType
  <1>3. PICK t : t = Resolve(p, q, l)
    OBVIOUS
  <1>4. /\ Readable(p, l, "handshake")
        /\ known' = [known EXCEPT ![p] = @ \cup {q}]
        /\ Finish(p, [t EXCEPT ![l] = Write(t[l], m)], ResolveEvents(p, q, l), Read(p, l))
        /\ UNCHANGED <<links, queued, pending, tasks, writes, recvs, todo, bounds>>
    BY <1>1, <1>2, <1>3 DEF Handshake
  <1>5. /\ l \in DOMAIN links /\ sessions[p][l].place # "none" /\ q \in Peer /\ q # p /\ Joins(l, p, q)
        /\ Wired(p, Read(p, l)) /\ Read(p, l) \in Wire /\ Has(wire[p][l], "handshake")
    BY <1>1, <1>4, ReadableFacts
  <1>6. links[l].to = p
    BY <1>5 DEF PeerInv, SessionInv, LinkInv, KindInv
  <1>7. ResolveEvents(p, q, l) \in Seq(AnyEvent)
    BY <1>5, ResolveEventsType
  <1>8. ASSUME sessions[p][l].place # "connecting" PROVE Handled
    <2>1. t = sessions[p]
      BY <1>3, <1>8 DEF Resolve
    <2>2. Connects
      BY <1>4, SamePendingConnects
    <2>3. Finish(p, [sessions[p] EXCEPT ![l] = Write(sessions[p][l], m)], ResolveEvents(p, q, l), Read(p, l))
      BY <1>4, <2>1
    <2> QED
      BY <1>2, <1>4, <1>5, <1>6, <1>7, <1>8, <2>2, <2>3, AnsweredAgain
  <1>9. ASSUME sessions[p][l].place = "connecting" PROVE Handled
    <2>1. /\ t \in Table /\ Resolved(p, q, l, t)
          /\ \A K \in Greetings : Has(t[l].out, K) => Has(sessions[p][l].out, K)
          /\ t[l].place = "duplicate" => ~t[l].active
      BY <1>3, <1>5, <1>9, ResolveFacts
    <2>2. PICK r \in Session : r = t[l]
      BY <2>1 DEF Table
    <2>3. PICK x \in Session : x = Write(r, m)
      BY WriteFacts
    <2>4. x.place = r.place /\ x.out = IF r.active THEN Append(r.out, m) ELSE r.out
      BY <2>3, WriteFacts
    <2>5. PICK u : u = [t EXCEPT ![l] = x]
      OBVIOUS
    <2>6. u \in Table /\ u[l] = x /\ \A k \in Link : k # l => u[k] = t[k]
      BY <2>1, <2>5 DEF Table
    <2>7. Resolved(p, q, l, u)
      BY <2>1, <2>2, <2>4, <2>6 DEF Resolved
    <2>8. Greets(p, l, u)
      <3>1. ASSUME NEW K \in Greetings, Has(x.out, K)
            PROVE  Has(sessions[p][l].out, K) \/ (K = "response" /\ x.place # "duplicate")
        <4>1. r.out \in Seq(Message)
          BY SessionTypes
        <4>2. Has(Append(r.out, m), K) <=> Has(r.out, K) \/ m.kind = K
          BY <4>1, HasOf
        <4>3. CASE r.active
          <5>1. Has(Append(r.out, m), K)
            BY <2>4, <3>1, <4>3
          <5> QED
            BY <1>2, <2>1, <2>2, <2>4, <4>2, <4>3, <5>1
        <4>4. CASE ~r.active
          BY <2>1, <2>2, <2>4, <3>1, <4>4
        <4> QED
          BY <4>3, <4>4
      <3> QED
        BY <1>6, <2>6, <3>1 DEF Greets
    <2>9. Finish(p, u, ResolveEvents(p, q, l), Read(p, l))
      BY <1>4, <2>2, <2>3, <2>5
    <2> QED
      BY <1>4, <1>5, <1>7, <1>9, <2>6, <2>7, <2>8, <2>9, ResolvedHandled
  <1>10. Handled
    BY <1>8, <1>9
  <1>11. HostsInv'
    BY <1>4 DEF PeerInv, NetInv, HostsInv
  <1>12. known' \in [Peer -> SUBSET Peer]
    BY <1>4, <1>5 DEF PeerInv, NetInv, TypeOK
  <1>13. TypeOK'
    BY <1>4, <1>10, <1>12 DEF Handled, bounds, PeerInv, NetInv, TypeOK
  <1> QED
    BY <1>10, <1>11, <1>13 DEF Handled, PeerInv, NetInv

LEMMA ResponseInv ==
    ASSUME PeerInv, NEW p \in Peer, NEW l \in Link, Response(p, l)
    PROVE  PeerInv'
  <1>1. PICK q : q = Other(p, l)
    OBVIOUS
  <1>2. PICK t : t = Resolve(p, q, l)
    OBVIOUS
  <1>3. /\ Readable(p, l, "response")
        /\ known' = [known EXCEPT ![p] = @ \cup {q}]
        /\ Finish(p, t, ResolveEvents(p, q, l), Read(p, l))
        /\ UNCHANGED <<links, queued, pending, tasks, writes, recvs, todo, bounds>>
    BY <1>1, <1>2 DEF Response
  <1>4. /\ l \in DOMAIN links /\ sessions[p][l].place # "none" /\ q \in Peer /\ q # p /\ Joins(l, p, q)
        /\ Wired(p, Read(p, l)) /\ Read(p, l) \in Wire /\ Has(wire[p][l], "response")
    BY <1>1, <1>3, ReadableFacts
  <1>5. links[l].from = p
    BY <1>4 DEF PeerInv, SessionInv, LinkInv, KindInv
  <1>6. Answered(l)
    BY <1>4, <1>5 DEF Answered
  <1>7. ResolveEvents(p, q, l) \in Seq(AnyEvent)
    BY <1>4, ResolveEventsType
  <1>8. ASSUME sessions[p][l].place # "connecting" PROVE Handled
    <2>1. t = sessions[p]
      BY <1>2, <1>8 DEF Resolve
    <2>2. Connects
      BY <1>3, SamePendingConnects
    <2> QED
      BY <1>3, <1>4, <1>7, <2>1, <2>2, CalmHandled, SessionsAreTable
  <1>9. ASSUME sessions[p][l].place = "connecting" PROVE Handled
    <2>1. /\ t \in Table /\ Resolved(p, q, l, t)
          /\ \A K \in Greetings : Has(t[l].out, K) => Has(sessions[p][l].out, K)
      BY <1>2, <1>4, <1>9, ResolveFacts
    <2>2. Greets(p, l, t)
      BY <1>5, <1>6, <2>1 DEF Greets
    <2> QED
      BY <1>3, <1>4, <1>7, <1>9, <2>1, <2>2, ResolvedHandled
  <1>10. Handled
    BY <1>8, <1>9
  <1>11. HostsInv'
    BY <1>3 DEF PeerInv, NetInv, HostsInv
  <1>12. known' \in [Peer -> SUBSET Peer]
    BY <1>3, <1>4 DEF PeerInv, NetInv, TypeOK
  <1>13. TypeOK'
    BY <1>3, <1>10, <1>12 DEF Handled, bounds, PeerInv, NetInv, TypeOK
  <1> QED
    BY <1>10, <1>11, <1>13 DEF Handled, PeerInv, NetInv

-----------------------------------------------------------------------------
LEMMA InitInv == Init => PeerInv
  <1> SUFFICES ASSUME Init PROVE PeerInv
    OBVIOUS
  <1>1. links = <<>> /\ DOMAIN links = {}
    BY DEF Init
  <1>2. \A p \in Peer, l \in Link : sessions[p][l] = NoSession /\ wire[p][l] = <<>>
    BY DEF Init
  <1>3. NoSession \in Session /\ NoSession.place = "none"
    BY NoSessionType DEF NoSession
  <1>4. TypeOK
    <2>1. sessions \in [Peer -> [Link -> Session]]
      BY <1>3 DEF Init
    <2>2. /\ wire \in [Peer -> [Link -> Seq(Message)]] /\ known \in [Peer -> SUBSET Peer]
          /\ queued \in [Peer -> SUBSET Peer] /\ pending \in [Peer -> SUBSET Peer]
      BY DEF Init
    <2>3. /\ tasks \in [Peer -> Seq([kind : {"connect", "remove", "write"}, peer : Peer])]
          /\ writes \in [Peer -> [Peer -> Seq(Body)]]
      BY DEF Init
    <2>4. procs \in [Peer -> Seq(AnyEvent)] /\ recvs \in [Peer -> Seq(AnyEvent)] /\ todo \in [Peer -> Seq(AnyEvent)]
      BY DEF Init
    <2>5. {adds, sends, losses} \subseteq Nat
      BY DEF Init
    <2> QED
      BY <1>1, <2>1, <2>2, <2>3, <2>4, <2>5 DEF TypeOK
  <1>5. HostsInv
    BY <1>1 DEF Init, HostsInv
  <1>6. EndsInv
    BY <1>2, <1>3 DEF EndsInv
  <1>7. \A l \in Link : LinkInv(l)
    BY <1>1, <1>2, <1>3 DEF LinkInv, StateInv, WireInv, KindInv, AnswerInv, LowerInv
  <1>8. PairInv
    BY <1>2, <1>3 DEF PairInv, OwnInv, OneInv, HigherInv, Live
  <1> QED
    BY <1>4, <1>5, <1>6, <1>7, <1>8 DEF PeerInv, NetInv, SessionInv

LEMMA NetworkStepInv ==
    ASSUME PeerInv, NetworkStep
    PROVE  PeerInv'
  <1>1. ASSUME NEW p \in Peer, AsioStep(p) PROVE PeerInv'
    BY <1>1, AddConnectionsInv, ShutdownSessionInv, ProcessWritesInv, ConnectedInv, AcceptInv,
       WriteDoneInv, HandshakeInv, ResponseInv, RoutedInv, ReadEndsInv DEF AsioStep
  <1> QED
    BY <1>1, AddHostInv, RemoveHostInv, EnsureHostsInv, TakeProcessesInv, LinkLostInv DEF NetworkStep

LEMMA StutterInv ==
    ASSUME PeerInv, UNCHANGED vars
    PROVE  PeerInv'
  <1>1. SessionInv' /\ EndsInv'
    BY QuietInv DEF vars
  <1>2. HostsInv' /\ TypeOK'
    BY DEF vars, PeerInv, NetInv, HostsInv, TypeOK
  <1> QED
    BY <1>1, <1>2 DEF PeerInv, NetInv

LEMMA NextInv == PeerInv /\ [Next]_vars => PeerInv'
  BY NetworkStepInv, StutterInv, HandleAnyInv, ConnectFailedInv, AppSendInv DEF Next

THEOREM PeerInvCorrect == Spec => []PeerInv
  BY InitInv, NextInv, PTL DEF Spec

\* The variables keep their types.
THEOREM TypeCorrect == Spec => []TypeOK
  <1>1. PeerInv => TypeOK
    BY DEF PeerInv, NetInv
  <1> QED
    BY <1>1, PeerInvCorrect, PTL

LEMMA ConnectOnceIs == PeerInv => ConnectOnce
  <1> SUFFICES ASSUME PeerInv, NEW p \in Peer, NEW q \in Peer
               PROVE  /\ q \in pending[p] => ConnectingTo(sessions[p], p, q) = {}
                      /\ Cardinality(SessionsWith(sessions[p], p, q)) <= 1
    BY DEF ConnectOnce
  <1>1. ASSUME q \in pending[p], NEW l \in ConnectingTo(sessions[p], p, q) PROVE FALSE
    <2>1. l \in Link /\ sessions[p][l].place = "connecting" /\ sessions[p][l].hosted /\ Joins(l, p, q)
      BY <1>1 DEF ConnectingTo
    <2>2. Made(l, p, q)
      BY <2>1 DEF PeerInv, NetInv, HostsInv, SessionInv, LinkInv, StateInv, Joins, Made
    <2> QED
      BY <1>1, <2>1, <2>2 DEF Live, PeerInv, SessionInv, PairInv, OwnInv
  <1>2. \A l, k \in SessionsWith(sessions[p], p, q) : l = k
    BY DEF SessionsWith, PeerInv, SessionInv, PairInv, OneInv
  <1>3. PICK S : S = SessionsWith(sessions[p], p, q)
    OBVIOUS
  <1>4. Cardinality(S) <= 1
    <2>1. CASE S = {}
      BY <2>1, FS_EmptySet
    <2>2. CASE S # {}
      <3>1. PICK x \in S : S = {x}
        <4>1. PICK x : x \in S
          BY <2>2
        <4>2. S = {x}
          BY <1>2, <1>3, <4>1
        <4> QED
          BY <4>1, <4>2
      <3>2. Cardinality(S) = 1
        BY <3>1, FS_Singleton
      <3> QED
        BY <3>2
    <2> QED
      BY <2>1, <2>2
  <1> QED
    BY <1>1, <1>3, <1>4

\* Neither of two such links may be one that the peer with the lower uuid made.
LEMMA SameLinkKeptIs == PeerInv => SameLinkKept
  <1>1. ASSUME PeerInv, NEW p \in Peer, NEW q \in Peer, NEW l \in Link, NEW k \in Link,
               <<p, q>> \in Lower, p # q, Joins(l, p, q), Joins(k, p, q),
               sessions[p][l].place = "duplicate", sessions[q][l].place = "session",
               sessions[q][k].place = "duplicate", sessions[p][k].place = "session"
        PROVE  FALSE
    <2>1. /\ l \in DOMAIN links /\ k \in DOMAIN links
          /\ LinkInv(l) /\ LinkInv(k)
      BY <1>1 DEF Joins, PeerInv, SessionInv
    <2>2. /\ links[l].from = q /\ links[l].to = p
      <3>1. links[l].from # p \/ links[l].to # q
        BY <1>1, <2>1 DEF LinkInv, LowerInv
      <3> QED
        BY <1>1, <3>1 DEF Joins
    <2>3. links[k].from = q /\ links[k].to = p
      <3>1. links[k].from # p \/ links[k].to # q
        BY <1>1, <2>1 DEF LinkInv, LowerInv, Answered
      <3> QED
        BY <1>1, <3>1 DEF Joins
    <2>4. Made(l, q, p) /\ Made(k, q, p)
      BY <2>1, <2>2, <2>3 DEF Made
    <2> QED
      BY <1>1, <2>4 DEF PeerInv, SessionInv, PairInv, HigherInv, Live
  <1> SUFFICES ASSUME PeerInv, NEW p \in Peer, NEW q \in Peer, NEW l \in Link, NEW k \in Link,
                      p # q, Joins(l, p, q), Joins(k, p, q),
                      sessions[p][l].place = "duplicate", sessions[q][l].place = "session",
                      sessions[q][k].place = "duplicate", sessions[p][k].place = "session"
               PROVE  FALSE
    BY DEF SameLinkKept
  <1>2. <<p, q>> \in Lower \/ <<q, p>> \in Lower
    BY PeerAssumption
  <1>3. Joins(l, q, p) /\ Joins(k, q, p)
    BY DEF Joins
  <1> QED
    BY <1>1, <1>2, <1>3

\* A peer never has two links it made to one host, nor two sessions with one peer.
THEOREM ConnectOnceCorrect == Spec => []ConnectOnce
  BY ConnectOnceIs, PeerInvCorrect, PTL

\* Of two links between two peers, they never each keep the one that the other
\* discards.
THEOREM SameLinkKeptCorrect == Spec => []SameLinkKept
  BY SameLinkKeptIs, PeerInvCorrect, PTL

-----------------------------------------------------------------------------
(* That the ends of a link agree.                                           *)

\* p has taken its end of link l and given it up, or left.
Left(p, l) == sessions[p][l].place \notin Live /\ (links[l].from = p \/ links[l].accepted)

\* p has left link l, or has read that it ends, or will.
Told(p, l) ==
    \/ Gone(p, l)
    \/ Has(wire[p][l], "end")
    \/ sessions[p][l].place # "none" /\ ~sessions[p][l].reading

\* Who goes on can still end the link, and so tell the other end.
OpenInv(l) ==
    \A p \in Peer : sessions[p][l].place \in Live => sessions[p][l].active /\ sessions[p][l].open

\* When one end of a link is given up or the link is lost, the other is told.
EndInv(l) ==
    \A p, q \in Peer : Joins(l, p, q) /\ (Left(p, l) \/ ~links[l].up) => Told(q, l)

\* Who made the link has the response of an established session on its way.
ReplyInv(l) ==
    \A p, q \in Peer :
        /\ Made(l, p, q) /\ sessions[p][l].place = "connecting" /\ sessions[q][l].place = "session"
        => Has(sessions[q][l].out, "response") \/ Has(wire[p][l], "response") \/ Told(p, l)

TellInvAt(l) == OpenInv(l) /\ EndInv(l) /\ ReplyInv(l)

TellInv == \A l \in Link : TellInvAt(l)

LEMMA PruneTells ==
    ASSUME NEW r \in Session, NEW n, n = PruneOne(r)
    PROVE  /\ n.place \in Live => n = r /\ n.active /\ n.open
           /\ n.place \notin Live /\ (r.place # "none" \/ r = NoSession) => ~(n.active /\ n.open)
           /\ n.place # "none" => n.reading = r.reading /\ r.place # "none"
  <1>1. r.place \in {"none", "connecting", "session", "closing", "duplicate"}
    BY SessionTypes DEF Place
  <1>2. NoSession.place = "none" /\ ~NoSession.active
    BY DEF NoSession
  <1>3. CASE r.place \in {"duplicate", "closing"} /\ ~r.open
    <2>1. n = NoSession
      BY <1>3 DEF PruneOne
    <2> QED
      BY <1>2, <2>1 DEF Live
  <1>4. CASE r.place \in {"duplicate", "closing"} /\ r.open
    <2>1. n = IF r.active THEN Shutdown(r) ELSE Close(r)
      BY <1>4 DEF PruneOne
    <2>2. ~n.active /\ n.place = r.place /\ n.reading = r.reading
      BY <2>1, ShutdownFacts, CloseFacts
    <2> QED
      BY <1>4, <2>2 DEF Live
  <1>5. CASE r.place \in {"session", "connecting"}
    <2> DEFINE closing == [r EXCEPT !.place = "closing"]
    <2>1. n = IF ~r.open THEN NoSession ELSE IF r.active THEN r ELSE closing
      BY <1>5 DEF PruneOne
    <2>2. closing.place = "closing" /\ closing.active = r.active /\ closing.reading = r.reading
      BY DEF Session
    <2> HIDE DEF closing
    <2> QED
      BY <1>2, <1>5, <2>1, <2>2 DEF Live
  <1>6. CASE r.place = "none"
    <2>1. n = r
      BY <1>6 DEF PruneOne
    <2> QED
      BY <1>2, <1>6, <2>1 DEF Live
  <1> QED
    BY <1>1, <1>3, <1>4, <1>5, <1>6

LEMMA EmittedEnd ==
    ASSUME NEW r \in Session, NEW n, r.active, r.open, ~(n.active /\ n.open)
    PROVE  Has(Emitted(r, n), "end")
  <1>1. PICK e \in Message : e = Plain("end") /\ e.kind = "end"
    BY PlainType
  <1>2. <<e>> \in Seq(Message) /\ Has(<<e>>, "end") /\ r.out \in Seq(Message)
    BY <1>1, SessionTypes DEF Has
  <1>3. PICK s \in Seq(Message) : s = IF r.out = <<>> THEN <<>> ELSE <<Head(r.out)>>
    <2>1. CASE r.out = <<>>
      <3>1. <<>> \in Seq(Message)
        OBVIOUS
      <3> QED
        BY <2>1, <3>1
    <2>2. CASE r.out # <<>>
      <3>1. PICK h \in Message : h = Head(r.out)
        BY <1>2, <2>2, HeadTailProperties
      <3>2. <<h>> \in Seq(Message)
        OBVIOUS
      <3> QED
        BY <2>2, <3>1, <3>2
    <2> QED
      BY <2>1, <2>2
  <1>4. Emitted(r, n) = s \o <<e>>
    BY <1>1, <1>3 DEF Emitted
  <1> QED
    BY <1>2, <1>3, <1>4, HasBoth

\* What the end of a handler tells the other ends.
FinishTold(p, t, w) ==
    /\ \A l \in Link : sessions'[p][l] = PruneOne(t[l])
    /\ \A q \in Peer, l \in Link : q # p =>
            /\ sessions'[q][l] = sessions[q][l]
            /\ \A K : Has(w[q][l], K) => Has(wire'[q][l], K)
            /\ /\ Joins(l, p, q) /\ links[l].up /\ ~Gone(q, l)
               /\ sessions[p][l].active /\ sessions[p][l].open
               /\ ~(sessions'[p][l].active /\ sessions'[p][l].open)
               => Has(wire'[q][l], "end")
    /\ \A l \in Link : sessions'[p][l].place # "none" \/ sessions[p][l].place = "none" =>
            wire'[p][l] = w[p][l]

LEMMA FinishTells ==
    ASSUME PeerInv, NEW p \in Peer, NEW t \in Table, NEW es, NEW w \in Wire, Finish(p, t, es, w)
    PROVE  FinishTold(p, t, w)
  <1>1. PICK n : n = Prune(t)
    OBVIOUS
  <1>2. \A l \in Link : n[l] = PruneOne(t[l])
    BY <1>1 DEF Prune
  <1>3. sessions \in [Peer -> Table]
    BY DEF PeerInv, NetInv, TypeOK, Table
  <1>4. /\ sessions' = [sessions EXCEPT ![p] = n]
        /\ wire' = [q \in Peer |-> [l \in Link |->
              IF q = p THEN IF sessions[p][l].place # "none" /\ n[l].place = "none" THEN <<>>
                            ELSE w[p][l]
              ELSE IF Joins(l, p, q) /\ links[l].up /\ ~ Gone(q, l)
                   THEN w[q][l] \o Emitted(sessions[p][l], n[l])
                   ELSE w[q][l]]]
    BY <1>1 DEF Finish
  <1>5. /\ sessions'[p] = n
        /\ \A q \in Peer : q # p => sessions'[q] = sessions[q]
    BY <1>3, <1>4
  <1>6. ASSUME NEW q \in Peer, NEW l \in Link, q # p
        PROVE  /\ \A K : Has(w[q][l], K) => Has(wire'[q][l], K)
               /\ /\ Joins(l, p, q) /\ links[l].up /\ ~Gone(q, l)
                  /\ sessions[p][l].active /\ sessions[p][l].open
                  /\ ~(n[l].active /\ n[l].open)
                  => Has(wire'[q][l], "end")
    <2>1. w[q][l] \in Seq(Message) /\ sessions[p][l] \in Session
      BY <1>3 DEF Wire, Table
    <2>2. PICK e : e = Emitted(sessions[p][l], n[l])
      OBVIOUS
    <2>3. e \in Seq(Message)
      BY <2>1, <2>2, EmittedFacts
    <2>4. /\ sessions[p][l].active /\ sessions[p][l].open /\ ~(n[l].active /\ n[l].open)
          => Has(e, "end")
      BY <2>1, <2>2, EmittedEnd
    <2>5. wire'[q][l] = IF Joins(l, p, q) /\ links[l].up /\ ~ Gone(q, l)
                        THEN w[q][l] \o e ELSE w[q][l]
      BY <1>4, <1>6, <2>2
    <2>6. \A K : Has(w[q][l] \o e, K) <=> Has(w[q][l], K) \/ Has(e, K)
      BY <2>1, <2>3, HasBoth
    <2>7. CASE Joins(l, p, q) /\ links[l].up /\ ~ Gone(q, l)
      <3>1. wire'[q][l] = w[q][l] \o e
        BY <2>5, <2>7
      <3> QED
        BY <2>4, <2>6, <3>1
    <2>8. CASE ~(Joins(l, p, q) /\ links[l].up /\ ~ Gone(q, l))
      <3>1. wire'[q][l] = w[q][l]
        BY <2>5, <2>8
      <3> QED
        BY <2>8, <3>1
    <2> QED
      BY <2>7, <2>8
  <1>7. \A l \in Link : sessions'[p][l].place # "none" \/ sessions[p][l].place = "none" =>
            wire'[p][l] = w[p][l]
    BY <1>4, <1>5
  <1> QED
    BY <1>2, <1>5, <1>6, <1>7 DEF FinishTold

\* A handler of p does with its end of l what the other end can be told of.
Tells(p, l, t, w) ==
    /\ t[l].place = "none" => t[l] = NoSession
    /\ sessions[p][l].place = "none" <=> t[l].place = "none"
    /\ t[l].place = "connecting" => sessions[p][l].place = "connecting"
    /\ sessions[p][l].place # "none" /\ ~sessions[p][l].reading => ~t[l].reading
    /\ Has(wire[p][l], "end") => Has(w[p][l], "end") \/ (t[l].place # "none" /\ ~t[l].reading)
    /\ t[l].place = "connecting" /\ Has(wire[p][l], "response") => Has(w[p][l], "response")
    /\ \A q \in Peer, K \in Greetings \cup {"end"} :
            q # p /\ Has(wire[q][l], K) => Has(w[q][l], K)
    /\ \A q \in Peer : Made(l, q, p) /\ t[l].place = "session" /\ t[l].active =>
            \/ Has(t[l].out, "response")
            \/ /\ sessions[p][l].place = "session"
               /\ Has(sessions[p][l].out, "response") => Has(w[q][l], "response") \/ Told(q, l)

LEMMA TellsKeptAt ==
    ASSUME PeerInv, TellInv, NEW p \in Peer, NEW t \in Table, NEW es, NEW w \in Wire,
           Finish(p, t, es, w), NEW l \in Link, Tells(p, l, t, w),
           l \in DOMAIN links' <=> l \in DOMAIN links, l \in DOMAIN links => links'[l] = links[l]
    PROVE  TellInvAt(l)'
  <1>1. FinishTold(p, t, w)
    BY FinishTells
  <1>2. PICK n : n = sessions'[p][l]
    OBVIOUS
  <1>3. t[l] \in Session /\ n = PruneOne(t[l]) /\ Tells(p, l, t, w)
    BY <1>1, <1>2 DEF FinishTold, Table
  <1>4. /\ n.place \in Live => n = t[l] /\ n.active /\ n.open
        /\ n.place \notin Live => ~(n.active /\ n.open)
        /\ n.place # "none" => n.reading = t[l].reading /\ t[l].place # "none"
    BY <1>3, PruneTells DEF Tells
  <1>5. OpenInv(l) /\ EndInv(l) /\ ReplyInv(l)
    BY DEF TellInv, TellInvAt
  <1>6. OpenInv(l)'
    BY <1>1, <1>2, <1>4, <1>5 DEF OpenInv, FinishTold
  <1>7. ASSUME NEW q \in Peer, Told(q, l), l \in DOMAIN links, q \in {links[l].from, links[l].to}
        PROVE  Told(q, l)'
    <2>1. CASE q # p
      BY <1>1, <1>3, <1>7, <2>1 DEF Told, Gone, FinishTold, Tells
    <2>2. CASE q = p /\ n.place = "none"
      <3>2. CASE sessions[p][l].place = "none"
        <4>1. wire'[p][l] = w[p][l]
          BY <1>1, <3>2 DEF FinishTold
        <4> QED
          BY <1>2, <1>3, <1>7, <2>2, <3>2, <4>1 DEF Told, Gone, Tells
      <3>3. CASE sessions[p][l].place # "none"
        <4>1. links[l].from = p \/ links[l].accepted
          BY <3>3 DEF PeerInv, NetInv, EndsInv
        <4> QED
          BY <1>2, <1>7, <2>2, <4>1 DEF Told, Gone
      <3> QED
        BY <3>2, <3>3
    <2>3. CASE q = p /\ n.place # "none"
      <3>1. wire'[p][l] = w[p][l] /\ sessions[p][l].place # "none"
        BY <1>1, <1>2, <1>3, <1>4, <2>3 DEF FinishTold, Tells
      <3> QED
        BY <1>2, <1>3, <1>4, <1>7, <2>3, <3>1 DEF Told, Gone, Tells
    <2> QED
      BY <2>1, <2>2, <2>3
  <1>8. EndInv(l)'
    <2> SUFFICES ASSUME NEW r \in Peer, NEW q \in Peer, Joins(l, r, q), Left(r, l)' \/ ~links'[l].up, l \in DOMAIN links
                 PROVE  Told(q, l)'
      BY DEF EndInv, Joins
    <2>1. /\ l \in DOMAIN links /\ q \in {links[l].from, links[l].to}
          /\ r \in {links[l].from, links[l].to} /\ r # q
      BY DEF Joins, PeerInv, NetInv, HostsInv
    <2>2. CASE Left(r, l) \/ ~links[l].up
      <3>1. Told(q, l)
        BY <1>5, <2>2 DEF EndInv
      <3> QED
        BY <1>7, <2>1, <3>1
    <2>3. CASE ~(Left(r, l) \/ ~links[l].up)
      <3>1. /\ r = p /\ n.place \notin Live /\ sessions[p][l].place \in Live
        BY <1>1, <1>2, <2>3 DEF Left, FinishTold
      <3>2. sessions[p][l].active /\ sessions[p][l].open
        BY <1>5, <3>1 DEF OpenInv
      <3>3. CASE Gone(q, l)
        BY <1>7, <2>1, <3>3 DEF Told
      <3>4. CASE ~Gone(q, l)
        <4>1. Has(wire'[q][l], "end")
          BY <1>1, <1>2, <1>4, <2>1, <2>3, <3>1, <3>2, <3>4 DEF FinishTold
        <4> QED
          BY <4>1 DEF Told
      <3> QED
        BY <3>3, <3>4
    <2> QED
      BY <2>2, <2>3
  <1>9. ReplyInv(l)'
    <2> SUFFICES ASSUME NEW a \in Peer, NEW b \in Peer, Made(l, a, b),
                        sessions'[a][l].place = "connecting", sessions'[b][l].place = "session"
                 PROVE  Has(sessions'[b][l].out, "response") \/ Has(wire'[a][l], "response") \/ Told(a, l)'
      BY DEF ReplyInv, Made
    <2>1. l \in DOMAIN links /\ a \in {links[l].from, links[l].to} /\ a # b
      BY DEF Made, PeerInv, NetInv, HostsInv
    <2>2. Told(a, l) => Told(a, l)'
      BY <1>7, <2>1
    <2>3. CASE p = a
      <3>1. n = t[l] /\ n.place = "connecting" /\ sessions[a][l].place = "connecting"
        BY <1>2, <1>3, <1>4, <2>3 DEF Live, Tells
      <3>2. sessions'[b][l] = sessions[b][l] /\ wire'[a][l] = w[a][l]
        BY <1>1, <1>2, <2>1, <2>3, <3>1 DEF FinishTold
      <3>3. Has(sessions[b][l].out, "response") \/ Has(wire[a][l], "response") \/ Told(a, l)
        BY <1>5, <3>1, <3>2 DEF ReplyInv
      <3> QED
        BY <1>3, <2>2, <2>3, <3>1, <3>2, <3>3 DEF Tells
    <2>4. CASE p = b
      <3>1. n = t[l] /\ t[l].place = "session" /\ t[l].active /\ sessions'[a][l] = sessions[a][l]
        BY <1>1, <1>2, <1>4, <2>1, <2>4 DEF Live, FinishTold
      <3>2. \A K \in Greetings : Has(wire[a][l], K) => Has(wire'[a][l], K)
        BY <1>1, <1>3, <2>1, <2>4 DEF FinishTold, Tells
      <3>3. CASE Has(t[l].out, "response")
        BY <1>2, <2>4, <3>1, <3>3
      <3>4. CASE ~Has(t[l].out, "response")
        <4>1. /\ sessions[b][l].place = "session"
              /\ Has(sessions[b][l].out, "response") => Has(w[a][l], "response") \/ Told(a, l)
          BY <1>3, <2>4, <3>1, <3>4 DEF Tells
        <4>2. Has(sessions[b][l].out, "response") \/ Has(wire[a][l], "response") \/ Told(a, l)
          BY <1>5, <3>1, <4>1 DEF ReplyInv
        <4>3. Has(w[a][l], "response") => Has(wire'[a][l], "response")
          BY <1>1, <2>1, <2>4 DEF FinishTold
        <4> QED
          BY <2>2, <3>2, <4>1, <4>2, <4>3 DEF Greetings
      <3> QED
        BY <3>3, <3>4
    <2>5. CASE p # a /\ p # b
      <3>1. /\ sessions'[a][l] = sessions[a][l] /\ sessions'[b][l] = sessions[b][l]
            /\ \A K \in Greetings : Has(wire[a][l], K) => Has(wire'[a][l], K)
        BY <1>1, <1>3, <2>5 DEF FinishTold, Tells
      <3>2. Has(sessions[b][l].out, "response") \/ Has(wire[a][l], "response") \/ Told(a, l)
        BY <1>5, <3>1 DEF ReplyInv
      <3> QED
        BY <2>2, <3>1, <3>2 DEF Greetings
    <2> QED
      BY <2>3, <2>4, <2>5
  <1> QED
    BY <1>6, <1>8, <1>9 DEF TellInvAt

LEMMA TellsKept ==
    ASSUME PeerInv, TellInv, NEW p \in Peer, NEW t \in Table, NEW es, NEW w \in Wire,
           Finish(p, t, es, w), links' = links, \A l \in Link : Tells(p, l, t, w)
    PROVE  TellInv'
  BY TellsKeptAt DEF TellInv

\* The end of p stays where it is, and drops a response only when it gives up or
\* the other end is told.
LEMMA TellsLike ==
    ASSUME PeerInv, NEW p \in Peer, NEW t \in Table, NEW w, NEW l \in Link,
           t[l].place = sessions[p][l].place, t[l].reading = sessions[p][l].reading,
           t[l].place = "none" => t[l] = sessions[p][l],
           \A q \in Peer : w[q][l] = wire[q][l],
           t[l].place = "session" /\ t[l].active /\ Has(sessions[p][l].out, "response") =>
               \/ Has(t[l].out, "response")
               \/ \A q \in Peer : Made(l, q, p) => Told(q, l)
    PROVE  Tells(p, l, t, w)
  BY NoSessionThere DEF Tells

LEMMA TellsSame ==
    ASSUME PeerInv, NEW p \in Peer, NEW l \in Link
    PROVE  Tells(p, l, sessions[p], wire)
  BY TellsLike, SessionsAreTable

LEMMA AddConnectionsTells ==
    ASSUME PeerInv, TellInv, NEW p \in Peer, AddConnections(p)
    PROVE  TellInv'
  <1>1. Finish(p, sessions[p], <<>>, wire) /\ links' = links
    BY DEF AddConnections
  <1> QED
    BY <1>1, TellsSame, TellsKept, SessionsAreTable

LEMMA ConnectFailedTells ==
    ASSUME PeerInv, TellInv, NEW p \in Peer, NEW q \in Peer, ConnectFailed(p, q)
    PROVE  TellInv'
  <1>1. Finish(p, sessions[p], <<>>, wire) /\ links' = links
    BY DEF ConnectFailed
  <1> QED
    BY <1>1, TellsSame, TellsKept, SessionsAreTable

LEMMA ShutdownSessionTells ==
    ASSUME PeerInv, TellInv, NEW p \in Peer, ShutdownSession(p)
    PROVE  TellInv'
  <1>1. PICK q : q = Head(tasks[p]).peer
    OBVIOUS
  <1>2. PICK t : t = [l \in Link |-> IF l \in SessionsWith(sessions[p], p, q) /\ sessions[p][l].active
                                     THEN Shutdown(sessions[p][l]) ELSE sessions[p][l]]
    OBVIOUS
  <1>3. Finish(p, t, <<>>, wire) /\ links' = links
    BY <1>1, <1>2 DEF ShutdownSession
  <1>4. ASSUME NEW l \in Link
        PROVE  /\ t[l] \in Session /\ t[l].place = sessions[p][l].place
               /\ t[l].reading = sessions[p][l].reading
               /\ t[l].place = "none" => t[l] = sessions[p][l]
               /\ t[l].active => t[l] = sessions[p][l]
    <2>1. PICK r \in Session : r = sessions[p][l]
      BY SessionsAreTable
    <2>2. \/ t[l] = r
          \/ t[l] = Shutdown(r) /\ r.place = "session"
      BY <1>2, <2>1 DEF SessionsWith
    <2> QED
      BY <2>1, <2>2, ShutdownFacts
  <1>5. t \in Table
    BY <1>2, <1>4 DEF Table
  <1>6. ASSUME NEW l \in Link PROVE Tells(p, l, t, wire)
    BY <1>4, <1>5, TellsLike
  <1> QED
    BY <1>3, <1>5, <1>6, TellsKept, SessionsAreTable

LEMMA RoutesTell ==
    ASSUME NEW r \in Session, NEW bodies \in Seq(Body)
    PROVE  /\ WriteRoutes(r, bodies).reading = r.reading
           /\ \A K : Has(r.out, K) => Has(WriteRoutes(r, bodies).out, K)
  <1>1. PICK s : s = [i \in DOMAIN bodies |-> [kind |-> "route", body |-> bodies[i]]]
    OBVIOUS
  <1>2. s \in Seq(Message)
    <2>1. DOMAIN bodies = 1..Len(bodies) /\ Len(bodies) \in Nat
          /\ \A i \in 1..Len(bodies) : bodies[i] \in Body
      OBVIOUS
    <2>2. s \in [1..Len(bodies) -> Message]
      BY <1>1, <2>1 DEF Message
    <2> QED
      BY <2>1, <2>2
  <1>3. r.out \in Seq(Message)
    BY DEF Session
  <1>4. PICK o : o = r.out \o s
    OBVIOUS
  <1>5. o \in Seq(Message) /\ \A K : Has(o, K) <=> Has(r.out, K) \/ Has(s, K)
    BY <1>2, <1>3, <1>4, HasBoth
  <1>6. WriteRoutes(r, bodies) = IF r.active THEN [r EXCEPT !.out = o] ELSE r
    BY <1>1, <1>4 DEF WriteRoutes
  <1> QED
    BY <1>5, <1>6 DEF Session

LEMMA ProcessWritesTells ==
    ASSUME PeerInv, TellInv, NEW p \in Peer, ProcessWrites(p)
    PROVE  TellInv'
  <1>1. PICK t : t = [l \in Link |->
                   IF l \in DOMAIN links /\ l \in WriteTo(p, Other(p, l))
                   THEN WriteRoutes(sessions[p][l], writes[p][Other(p, l)]) ELSE sessions[p][l]]
    OBVIOUS
  <1>2. Finish(p, t, <<>>, wire) /\ links' = links
    BY <1>1 DEF ProcessWrites
  <1>3. ASSUME NEW l \in Link
        PROVE  /\ t[l] \in Session /\ t[l].place = sessions[p][l].place
               /\ t[l].reading = sessions[p][l].reading
               /\ t[l].place = "none" => t[l] = sessions[p][l]
               /\ Has(sessions[p][l].out, "response") => Has(t[l].out, "response")
    <2>1. PICK r \in Session : r = sessions[p][l]
      BY SessionsAreTable
    <2>2. CASE l \in DOMAIN links /\ l \in WriteTo(p, Other(p, l))
      <3>1. r.place # "none"
        BY <2>1, <2>2 DEF WriteTo, ConnectingTo, SessionsWith
      <3>2. p \in {links[l].from, links[l].to}
        BY <2>1, <3>1 DEF PeerInv, NetInv, EndsInv
      <3>3. Other(p, l) \in Peer
        BY <2>2, <3>2, OtherType DEF PeerInv, NetInv
      <3>4. PICK bodies \in Seq(Body) : bodies = writes[p][Other(p, l)]
        BY <3>3 DEF PeerInv, NetInv, TypeOK
      <3>5. t[l] = WriteRoutes(r, bodies)
        BY <1>1, <2>1, <2>2, <3>4
      <3>6. PICK x \in Session : /\ x = WriteRoutes(r, bodies) /\ x.place = r.place
                                 /\ x.reading = r.reading
                                 /\ Has(r.out, "response") => Has(x.out, "response")
        BY RoutesFacts, RoutesTell
      <3> QED
        BY <2>1, <3>1, <3>5, <3>6
    <2>3. CASE ~(l \in DOMAIN links /\ l \in WriteTo(p, Other(p, l)))
      <3>1. t[l] = r
        BY <1>1, <2>1, <2>3
      <3> QED
        BY <2>1, <3>1
    <2> QED
      BY <2>2, <2>3
  <1>4. t \in Table
    BY <1>1, <1>3 DEF Table
  <1>5. ASSUME NEW l \in Link PROVE Tells(p, l, t, wire)
    BY <1>3, <1>4, TellsLike
  <1> QED
    BY <1>2, <1>4, <1>5, TellsKept, SessionsAreTable

\* p's end of link l is x; the others stay as they are.
LEMMA TellsOne ==
    ASSUME PeerInv, TellInv, NEW p \in Peer, NEW l \in Link, NEW x \in Session, NEW es,
           NEW w \in Wire, links' = links,
           Finish(p, [sessions[p] EXCEPT ![l] = x], es, w),
           \A q \in Peer, k \in Link : k # l => w[q][k] = wire[q][k],
           Tells(p, l, [sessions[p] EXCEPT ![l] = x], w)
    PROVE  TellInv'
  <1>1. PICK t : t = [sessions[p] EXCEPT ![l] = x]
    OBVIOUS
  <1>2. t \in Table /\ \A k \in Link : k # l => t[k] = sessions[p][k]
    BY <1>1, SessionsAreTable DEF Table
  <1>3. ASSUME NEW k \in Link, k # l PROVE Tells(p, k, t, w)
    BY <1>2, <1>3, TellsLike
  <1> QED
    BY <1>1, <1>2, <1>3, TellsKept

LEMMA WriteDoneTells ==
    ASSUME PeerInv, TellInv, NEW p \in Peer, NEW l \in Link, WriteDone(p, l)
    PROVE  TellInv'
  <1>1. PICK r \in Session : r = sessions[p][l]
    BY SessionsAreTable
  <1>2. /\ l \in DOMAIN links /\ r.open /\ r.out # <<>> /\ r.place # "none"
        /\ Transmit(p, l) \/ WriteFails(p, l)
        /\ links' = links
    BY <1>1, NoSessionThere DEF WriteDone, NoSession
  <1>3. /\ p \in {links[l].from, links[l].to} /\ Joins(l, p, Other(p, l)) /\ Other(p, l) # p
        /\ Other(p, l) \in Peer
    <2>1. p \in {links[l].from, links[l].to}
      BY <1>1, <1>2 DEF PeerInv, NetInv, EndsInv
    <2>2. /\ Other(p, l) \in Peer /\ Joins(l, p, Other(p, l))
          /\ {p, Other(p, l)} = {links[l].from, links[l].to}
      BY <1>2, <2>1, OtherType DEF PeerInv, NetInv
    <2>3. Other(p, l) # p
      BY <1>2, <2>2 DEF PeerInv, NetInv, HostsInv
    <2> QED
      BY <2>1, <2>2, <2>3
  <1>4. ASSUME Transmit(p, l) PROVE TellInv'
    <2>1. PICK s : s = Tail(r.out)
      OBVIOUS
    <2>2. PICK m \in Message : m = Head(r.out)
      BY <1>1, <1>2, HasOf, SessionTypes
    <2>3. s \in Seq(Message) /\ \A K : Has(r.out, K) <=> m.kind = K \/ Has(s, K)
      BY <1>1, <1>2, <2>1, <2>2, HasOf, SessionTypes
    <2>4. PICK x : x = [r EXCEPT !.out = s]
      OBVIOUS
    <2>5. /\ x \in Session /\ x.place = r.place /\ x.reading = r.reading /\ x.out = s
          /\ x.active = r.active
      BY <2>3, <2>4 DEF Session
    <2>6. PICK w \in Wire : w = Written(p, l)
      BY <1>1, <1>2, WiredWritten DEF PeerInv
    <2>7. Finish(p, [sessions[p] EXCEPT ![l] = x], <<>>, w)
      BY <1>1, <1>4, <2>1, <2>4, <2>6 DEF Transmit
    <2>8. PICK q \in Peer : q = Other(p, l)
      BY <1>3
    <2>9. /\ \A k \in Link : k # l => w[q][k] = wire[q][k]
          /\ \A o \in Peer : o # q => w[o] = wire[o]
          /\ w[q][l] = IF Gone(q, l) THEN wire[q][l] ELSE Append(wire[q][l], m)
      <3>1. w = [wire EXCEPT ![q][l] = IF Gone(q, l) THEN wire[q][l] ELSE Append(wire[q][l], m)]
        BY <1>1, <2>2, <2>6, <2>8 DEF Written
      <3> QED
        BY <3>1, SessionsAreTable DEF Wire
    <2>10. /\ \A K : Has(wire[q][l], K) => Has(w[q][l], K)
           /\ ~Gone(q, l) => Has(w[q][l], m.kind)
      <3>1. wire[q][l] \in Seq(Message)
        BY SessionsAreTable DEF Wire
      <3>2. \A K : Has(Append(wire[q][l], m), K) <=> Has(wire[q][l], K) \/ m.kind = K
        BY <3>1, HasOf
      <3> QED
        BY <2>9, <3>2
    <2>11. PICK t : t = [sessions[p] EXCEPT ![l] = x]
      OBVIOUS
    <2>12. t[l] = x
      BY <2>11, SessionsAreTable DEF Table
    <2>13. \A o \in Peer : Made(l, o, p) => o = q
      BY <1>3, <2>8 DEF Joins, Made
    <2>14. Tells(p, l, t, w)
      <3>1. \A o \in Peer, K \in Greetings \cup {"end"} :
                o # p /\ Has(wire[o][l], K) => Has(w[o][l], K)
        BY <2>9, <2>10
      <3>2. w[p][l] = wire[p][l]
        BY <1>3, <2>8, <2>9
      <3>3. Has(r.out, "response") => Has(x.out, "response") \/ Has(w[q][l], "response") \/ Told(q, l)
        BY <2>3, <2>5, <2>10 DEF Told
      <3> QED
        BY <1>1, <1>2, <2>5, <2>12, <2>13, <3>1, <3>2, <3>3 DEF Tells
    <2> QED
      BY <1>2, <2>5, <2>7, <2>9, <2>11, <2>14, TellsOne
  <1>5. ASSUME WriteFails(p, l) PROVE TellInv'
    <2>1. <<>> \in Seq(Message)
      OBVIOUS
    <2>2. PICK y \in Session : y = [r EXCEPT !.out = <<>>]
      BY <2>1 DEF Session
    <2>3. y.place = r.place /\ y.reading = r.reading
      BY <2>2 DEF Session
    <2>4. PICK x \in Session : x = Close(y) /\ x.place = r.place /\ x.reading = r.reading
      BY <2>3, CloseFacts
    <2>5. /\ Finish(p, [sessions[p] EXCEPT ![l] = x], <<>>, wire)
          /\ links[l].up => Gone(Other(p, l), l)
      BY <1>1, <1>5, <2>2, <2>4 DEF WriteFails
    <2>6. ASSUME NEW q \in Peer, Made(l, q, p) PROVE Told(q, l)
      <3>1. q = Other(p, l) /\ Joins(l, p, q)
        BY <1>3, <2>6 DEF Made, Joins
      <3> QED
        BY <2>5, <3>1 DEF Told, TellInv, TellInvAt, EndInv
    <2>7. PICK t : t = [sessions[p] EXCEPT ![l] = x]
      OBVIOUS
    <2>8. t[l] = x /\ t \in Table
      BY <2>7, SessionsAreTable DEF Table
    <2>9. Tells(p, l, t, wire)
      BY <1>1, <1>2, <2>4, <2>6, <2>8, TellsLike
    <2> QED
      BY <1>2, <2>5, <2>7, <2>9, TellsOne, SessionsAreTable
  <1> QED
    BY <1>2, <1>4, <1>5

\* What reading a message leaves on its way.
LEMMA ReadLeaves ==
    ASSUME PeerInv, NEW p \in Peer, NEW l \in Link, NEW kind, Readable(p, l, kind)
    PROVE  /\ \A q \in Peer : q # p => Read(p, l)[q] = wire[q]
           /\ \A k \in Link : k # l => Read(p, l)[p][k] = wire[p][k]
           /\ \A K : K # kind /\ Has(wire[p][l], K) => Has(Read(p, l)[p][l], K)
  <1>1. wire[p][l] \in Seq(Message) /\ wire[p][l] # <<>> /\ Head(wire[p][l]).kind = kind
    BY SessionsAreTable DEF Wire, Readable
  <1>2. PICK s : s = Tail(wire[p][l])
    OBVIOUS
  <1>3. Read(p, l) = [wire EXCEPT ![p][l] = s]
    BY <1>2 DEF Read
  <1>4. /\ Read(p, l)[p][l] = s /\ \A q \in Peer : q # p => Read(p, l)[q] = wire[q]
        /\ \A k \in Link : k # l => Read(p, l)[p][k] = wire[p][k]
    BY <1>3, SessionsAreTable DEF Wire
  <1>5. \A K : Has(wire[p][l], K) <=> kind = K \/ Has(s, K)
    BY <1>1, <1>2, HasOf
  <1> QED
    BY <1>4, <1>5

LEMMA RoutedTells ==
    ASSUME PeerInv, TellInv, NEW p \in Peer, NEW l \in Link, Routed(p, l)
    PROVE  TellInv'
  <1>1. Readable(p, l, "route") /\ Finish(p, sessions[p], <<>>, Read(p, l)) /\ links' = links
    BY DEF Routed
  <1>2. PICK w \in Wire : w = Read(p, l)
    BY <1>1, ReadableFacts
  <1>3. ASSUME NEW k \in Link, k # l PROVE Tells(p, k, sessions[p], w)
    <2>1. \A q \in Peer : w[q][k] = wire[q][k]
      BY <1>1, <1>2, <1>3, ReadLeaves
    <2> QED
      BY <2>1, TellsLike, SessionsAreTable
  <1>4. Tells(p, l, sessions[p], w)
    <2>1. /\ \A q \in Peer : q # p => w[q] = wire[q]
          /\ \A K \in {"response", "end"} : Has(wire[p][l], K) => Has(w[p][l], K)
      BY <1>1, <1>2, ReadLeaves
    <2> QED
      BY <2>1, NoSessionThere DEF Tells
  <1> QED
    BY <1>1, <1>2, <1>3, <1>4, TellsKept, SessionsAreTable

LEMMA ReadEndsTells ==
    ASSUME PeerInv, TellInv, NEW p \in Peer, NEW l \in Link, ReadEnds(p, l)
    PROVE  TellInv'
  <1>1. PICK r \in Session : r = sessions[p][l]
    BY SessionsAreTable
  <1>2. PICK y \in Session : y = [r EXCEPT !.reading = FALSE]
    BY DEF Session
  <1>3. y.place = r.place /\ ~y.reading /\ y.out = r.out
    BY <1>2 DEF Session
  <1>4. PICK x \in Session : x = Close(y) /\ x.place = r.place /\ ~x.reading /\ x.out = r.out
    BY <1>3, CloseFacts
  <1>5. /\ Readable(p, l, "end")
        /\ Finish(p, [sessions[p] EXCEPT ![l] = x], <<>>, Read(p, l))
        /\ links' = links
    BY <1>1, <1>2, <1>4 DEF ReadEnds
  <1>6. PICK w \in Wire : w = Read(p, l)
    BY <1>5, ReadableFacts
  <1>7. /\ \A q \in Peer : q # p => w[q] = wire[q]
        /\ \A k \in Link : k # l => w[p][k] = wire[p][k]
        /\ Has(wire[p][l], "response") => Has(w[p][l], "response")
    BY <1>5, <1>6, ReadLeaves
  <1>8. PICK t : t = [sessions[p] EXCEPT ![l] = x]
    OBVIOUS
  <1>9. t[l] = x /\ r.place # "none"
    BY <1>1, <1>5, <1>8, SessionsAreTable, ReadableFacts DEF Table
  <1>10. Tells(p, l, t, w)
    BY <1>1, <1>4, <1>7, <1>9 DEF Tells
  <1>11. \A q \in Peer, k \in Link : k # l => w[q][k] = wire[q][k]
    BY <1>7
  <1> QED
    BY <1>5, <1>6, <1>8, <1>10, <1>11, TellsOne

\* What resolving a handshake on link l makes of the session r of link k.
ResolvedTo(k, l, r, x) ==
    \/ x = r
    \/ /\ r.place = "session" \/ (k = l /\ r.place = "connecting")
       /\ x.place = "duplicate" /\ x.reading = r.reading /\ ~x.active /\ x.out = <<>>
    \/ /\ k = l /\ r.place = "connecting" /\ x.place = "session" /\ x.reading = r.reading
       /\ x.active = r.active /\ x.open = r.open /\ x.out = r.out

LEMMA ResolveTells ==
    ASSUME PeerInv, NEW p \in Peer, NEW q \in Peer, NEW l \in Link
    PROVE  /\ Resolve(p, q, l) \in Table
           /\ \A k \in Link : ResolvedTo(k, l, sessions[p][k], Resolve(p, q, l)[k])
           /\ Resolve(p, q, l)[l].place # "connecting"
  <1>1. PICK s \in Table : s = sessions[p]
    BY SessionsAreTable
  <1>2. CASE s[l].place # "connecting"
    <2>1. Resolve(p, q, l) = s
      BY <1>1, <1>2 DEF Resolve
    <2> QED
      BY <1>1, <1>2, <2>1 DEF ResolvedTo
  <1>3. CASE s[l].place = "connecting"
    <2>1. ASSUME NEW k \in Link
          PROVE  /\ Discard(s, k) \in Table
                 /\ \A j \in Link : j # k => Discard(s, k)[j] = s[j]
                 /\ Discard(s, k)[k].place = "duplicate"
                 /\ Discard(s, k)[k].reading = s[k].reading
                 /\ ~Discard(s, k)[k].active /\ Discard(s, k)[k].out = <<>>
      <3>1. PICK r \in Session : r = Shutdown(s[k]) /\ r.reading = s[k].reading
                                 /\ ~r.active /\ r.out = <<>>
        <4>1. s[k] \in Session
          BY DEF Table
        <4> QED
          BY <4>1, ShutdownFacts
      <3>2. PICK x : x = [r EXCEPT !.place = "duplicate"]
        OBVIOUS
      <3>3. x \in Session /\ x.place = "duplicate" /\ x.reading = r.reading
            /\ x.active = r.active /\ x.out = r.out
        BY <3>2 DEF Session, Place
      <3>4. Discard(s, k) = [s EXCEPT ![k] = x]
        BY <3>1, <3>2 DEF Discard
      <3> QED
        BY <3>1, <3>3, <3>4 DEF Table
    <2>2. ASSUME NEW u \in Table
          PROVE  /\ Keep(u, l) \in Table
                 /\ \A j \in Link : j # l => Keep(u, l)[j] = u[j]
                 /\ Keep(u, l)[l].place = "session" /\ Keep(u, l)[l].out = u[l].out
                 /\ Keep(u, l)[l].reading = u[l].reading /\ Keep(u, l)[l].active = u[l].active
                 /\ Keep(u, l)[l].open = u[l].open
      <3>1. u[l] \in Session
        BY DEF Table
      <3>2. PICK x : x = [[u[l] EXCEPT !.place = "session"] EXCEPT !.hosted = TRUE]
        OBVIOUS
      <3>3. /\ x \in Session /\ x.place = "session" /\ x.out = u[l].out
            /\ x.reading = u[l].reading /\ x.active = u[l].active /\ x.open = u[l].open
        BY <3>1, <3>2 DEF Session, Place
      <3>4. Keep(u, l) = [u EXCEPT ![l] = x]
        BY <3>2 DEF Keep, Table
      <3> QED
        BY <3>3, <3>4 DEF Table
    <2>3. PICK old : old = SessionsWith(s, p, q)
      OBVIOUS
    <2>4. \A k \in old : k \in Link /\ s[k].place = "session" /\ k # l
      BY <1>3, <2>3 DEF SessionsWith
    <2>5. CASE Resolve(p, q, l) = Keep(s, l)
      BY <1>1, <1>3, <2>2, <2>5 DEF ResolvedTo
    <2>6. CASE Resolve(p, q, l) = Discard(s, l)
      BY <1>1, <1>3, <2>1, <2>6 DEF ResolvedTo, Live
    <2>7. CASE \E k \in old : Resolve(p, q, l) = Keep(Discard(s, k), l)
      <3>1. PICK k \in old : Resolve(p, q, l) = Keep(Discard(s, k), l)
        BY <2>7
      <3>2. PICK u \in Table : /\ u = Discard(s, k) /\ u[l] = s[l]
                               /\ \A j \in Link : j # k => u[j] = s[j]
                               /\ u[k].place = "duplicate" /\ u[k].reading = s[k].reading
                               /\ ~u[k].active /\ u[k].out = <<>>
        BY <2>1, <2>4
      <3> QED
        BY <1>1, <1>3, <2>2, <2>4, <3>1, <3>2 DEF ResolvedTo, Live
    <2> QED
      <3>1. old # {} => (CHOOSE x \in old : TRUE) \in old
        OBVIOUS
      <3>2. PICK k : k = CHOOSE x \in old : TRUE
        OBVIOUS
      <3>3. Resolve(p, q, l) = IF old = {} THEN Keep(s, l)
                               ELSE IF NewSurvives(p, q, k) THEN Keep(Discard(s, k), l) ELSE Discard(s, l)
        BY <1>1, <1>3, <2>3, <3>2 DEF Resolve
      <3> QED
        BY <2>5, <2>6, <2>7, <3>1, <3>2, <3>3
  <1> QED
    BY <1>2, <1>3

\* A session that a handshake on another link may discard.
LEMMA TellsResolved ==
    ASSUME PeerInv, NEW p \in Peer, NEW t \in Table, NEW w, NEW l \in Link, NEW k \in Link, k # l,
           \A q \in Peer : w[q][k] = wire[q][k], ResolvedTo(k, l, sessions[p][k], t[k])
    PROVE  Tells(p, k, t, w)
  <1>1. CASE t[k] = sessions[p][k]
    BY <1>1, TellsLike
  <1>2. CASE t[k].place = "duplicate" /\ sessions[p][k].place = "session"
             /\ t[k].reading = sessions[p][k].reading
    BY <1>2 DEF Tells
  <1> QED
    BY <1>1, <1>2 DEF ResolvedTo

LEMMA HandshakeTells ==
    ASSUME PeerInv, TellInv, NEW p \in Peer, NEW l \in Link, Handshake(p, l)
    PROVE  TellInv'
  <1>1. PICK q : q = Other(p, l)
    OBVIOUS
  <1>2. PICK m \in Message : m = Plain("response") /\ m.kind = "response"
    BY PlainType
  <1>3. PICK t : t = Resolve(p, q, l)
    OBVIOUS
  <1>4. PICK es : es = ResolveEvents(p, q, l)
    OBVIOUS
  <1>5. /\ Readable(p, l, "handshake")
        /\ Finish(p, [t EXCEPT ![l] = Write(t[l], m)], es, Read(p, l))
        /\ links' = links
    BY <1>1, <1>2, <1>3, <1>4 DEF Handshake
  <1>6. q \in Peer /\ sessions[p][l].place # "none"
    BY <1>1, <1>5, ReadableFacts
  <1>7. PICK w \in Wire : w = Read(p, l)
    BY <1>5, ReadableFacts
  <1>8. /\ \A o \in Peer : o # p => w[o] = wire[o]
        /\ \A k \in Link : k # l => w[p][k] = wire[p][k]
        /\ \A K : K # "handshake" /\ Has(wire[p][l], K) => Has(w[p][l], K)
    BY <1>5, <1>7, ReadLeaves
  <1>9. /\ t \in Table /\ t[l].place # "connecting"
        /\ \A k \in Link : ResolvedTo(k, l, sessions[p][k], t[k])
    BY <1>3, <1>6, ResolveTells
  <1>10. PICK r \in Session : r = t[l]
    BY <1>9 DEF Table
  <1>11. PICK x \in Session : /\ x = Write(r, m) /\ x.place = r.place /\ x.reading = r.reading
                              /\ x.active = r.active
                              /\ x.out = IF r.active THEN Append(r.out, m) ELSE r.out
    BY WriteFacts
  <1>12. x.active => Has(x.out, "response")
    <2>1. Has(Append(r.out, m), "response")
      BY <1>2, HasOf, SessionTypes
    <2> QED
      BY <1>11, <2>1
  <1>13. PICK u : u = [t EXCEPT ![l] = x]
    OBVIOUS
  <1>14. u \in Table /\ u[l] = x /\ \A k \in Link : k # l => u[k] = t[k]
    BY <1>9, <1>13 DEF Table
  <1>15. Tells(p, l, u, w)
    <2>1. x.place # "none" /\ x.place # "connecting" /\ x.reading = sessions[p][l].reading
      BY <1>6, <1>9, <1>10, <1>11 DEF ResolvedTo
    <2> QED
      BY <1>6, <1>8, <1>12, <1>14, <2>1 DEF Tells
  <1>16. ASSUME NEW k \in Link, k # l PROVE Tells(p, k, u, w)
    BY <1>8, <1>9, <1>14, <1>16, TellsResolved
  <1>17. Finish(p, u, es, w)
    BY <1>5, <1>7, <1>10, <1>11, <1>13
  <1> QED
    BY <1>5, <1>14, <1>15, <1>16, <1>17, TellsKept

LEMMA ResponseTells ==
    ASSUME PeerInv, TellInv, NEW p \in Peer, NEW l \in Link, Response(p, l)
    PROVE  TellInv'
  <1>1. PICK q : q = Other(p, l)
    OBVIOUS
  <1>2. PICK t : t = Resolve(p, q, l)
    OBVIOUS
  <1>3. PICK es : es = ResolveEvents(p, q, l)
    OBVIOUS
  <1>4. Readable(p, l, "response") /\ Finish(p, t, es, Read(p, l)) /\ links' = links
    BY <1>1, <1>2, <1>3 DEF Response
  <1>5. /\ q \in Peer /\ sessions[p][l].place # "none" /\ l \in DOMAIN links
        /\ Has(wire[p][l], "response")
    BY <1>1, <1>4, ReadableFacts
  <1>6. links[l].from = p /\ links[l].to # p
    <2>1. links[l].from = p
      BY <1>5 DEF PeerInv, SessionInv, LinkInv, KindInv
    <2> QED
      BY <1>5, <2>1 DEF PeerInv, NetInv, HostsInv
  <1>7. PICK w \in Wire : w = Read(p, l)
    BY <1>4, ReadableFacts
  <1>8. /\ \A o \in Peer : o # p => w[o] = wire[o]
        /\ \A k \in Link : k # l => w[p][k] = wire[p][k]
        /\ \A K : K # "response" /\ Has(wire[p][l], K) => Has(w[p][l], K)
    BY <1>4, <1>7, ReadLeaves
  <1>9. /\ t \in Table /\ t[l].place # "connecting"
        /\ \A k \in Link : ResolvedTo(k, l, sessions[p][k], t[k])
    BY <1>2, <1>5, ResolveTells
  <1>10. Tells(p, l, t, w)
    <2>1. t[l].place # "none" /\ t[l].reading = sessions[p][l].reading
      BY <1>5, <1>9 DEF ResolvedTo
    <2>2. \A o \in Peer : ~Made(l, o, p)
      BY <1>6 DEF Made
    <2> QED
      BY <1>5, <1>8, <1>9, <2>1, <2>2 DEF Tells
  <1>11. ASSUME NEW k \in Link, k # l PROVE Tells(p, k, t, w)
    BY <1>8, <1>9, <1>11, TellsResolved
  <1>12. Finish(p, t, es, w)
    BY <1>4, <1>7
  <1> QED
    BY <1>4, <1>9, <1>10, <1>11, <1>12, TellsKept

LEMMA LinkLostTells ==
    ASSUME PeerInv, TellInv, NEW l \in Link, LinkLost(l)
    PROVE  TellInv'
  <1>1. PICK e \in Message : e = Plain("end") /\ e.kind = "end"
    BY PlainType
  <1>2. /\ l \in DOMAIN links
        /\ links' = [links EXCEPT ![l].up = FALSE]
        /\ wire' = [p \in Peer |-> IF p \in {links[l].from, links[l].to} /\ ~ Gone(p, l)
                              THEN [wire[p] EXCEPT ![l] = <<e>>] ELSE wire[p]]
        /\ sessions' = sessions
    BY <1>1 DEF LinkLost
  <1>3. Has(<<e>>, "end")
    BY <1>1 DEF Has
  <1>4. /\ DOMAIN links' = DOMAIN links
        /\ \A k \in DOMAIN links : /\ links'[k].from = links[k].from /\ links'[k].to = links[k].to
                                   /\ links'[k].accepted = links[k].accepted
                                   /\ k # l => links'[k] = links[k]
    <2>1. links[l] \in [from : Peer, to : Peer, up : BOOLEAN, accepted : BOOLEAN]
      BY <1>2 DEF PeerInv, NetInv, TypeOK
    <2> QED
      BY <1>2, <2>1
  <1>5. \A p \in Peer, k \in Link :
            /\ k # l => wire'[p][k] = wire[p][k]
            /\ p \in {links[l].from, links[l].to} /\ ~ Gone(p, l) => wire'[p][l] = <<e>>
    BY <1>2, SessionsAreTable DEF Wire
  <1>6. ASSUME NEW k \in Link, k # l PROVE TellInvAt(k)'
    <2>1. OpenInv(k) /\ EndInv(k) /\ ReplyInv(k)
      BY DEF TellInv, TellInvAt
    <2>2. OpenInv(k)'
      BY <1>2, <2>1 DEF OpenInv
    <2>3. EndInv(k)'
      <3>1. k \in DOMAIN links' => k \in DOMAIN links /\ links'[k] = links[k]
        BY <1>4, <1>6
      <3>2. \A q \in Peer : wire'[q][k] = wire[q][k]
        BY <1>5, <1>6
      <3>3. ASSUME NEW p \in Peer, NEW q \in Peer, Joins(k, p, q)', Left(p, k)' \/ ~links'[k].up
            PROVE  Told(q, k)'
        <4>1. k \in DOMAIN links /\ links'[k] = links[k] /\ Joins(k, p, q)
          BY <3>1, <3>3 DEF Joins
        <4>2. Left(p, k) \/ ~links[k].up
          BY <1>2, <3>3, <4>1 DEF Left
        <4>3. Told(q, k)
          BY <2>1, <4>1, <4>2 DEF EndInv
        <4> QED
          BY <1>2, <3>2, <4>1, <4>3 DEF Told, Gone
      <3> QED
        BY <3>3 DEF EndInv
    <2>4. ReplyInv(k)'
      BY <1>2, <1>4, <1>5, <1>6, <2>1 DEF ReplyInv, Made, Told, Gone
    <2> QED
      BY <2>2, <2>3, <2>4 DEF TellInvAt
  <1>7. TellInvAt(l)'
    <2>1. ASSUME NEW q \in Peer, q \in {links[l].from, links[l].to} PROVE Told(q, l)'
      <3>1. CASE Gone(q, l)
        BY <1>2, <1>4, <3>1 DEF Told, Gone
      <3>2. CASE ~Gone(q, l)
        BY <1>3, <1>5, <2>1, <3>2 DEF Told
      <3> QED
        BY <3>1, <3>2
    <2>2. OpenInv(l)'
      BY <1>2 DEF OpenInv, TellInv, TellInvAt
    <2>3. EndInv(l)'
      BY <1>2, <1>4, <2>1 DEF EndInv, Joins
    <2>4. ReplyInv(l)'
      BY <1>2, <1>4, <2>1 DEF ReplyInv, Made
    <2> QED
      BY <2>2, <2>3, <2>4 DEF TellInvAt
  <1> QED
    BY <1>6, <1>7 DEF TellInv

LEMMA AcceptTells ==
    ASSUME PeerInv, TellInv, NEW p \in Peer, NEW l \in Link, Accept(p, l)
    PROVE  TellInv'
  <1>1. PICK x : x = Fresh(FALSE)
    OBVIOUS
  <1>2. x \in Session /\ x.place = "connecting" /\ x.active /\ x.open
    <2>1. <<>> \in Seq(Message)
      OBVIOUS
    <2> QED
      BY <1>1, <2>1 DEF Fresh, Session, Place
  <1>3. PICK t : t = [sessions[p] EXCEPT ![l] = x]
    OBVIOUS
  <1>4. /\ l \in DOMAIN links /\ links[l].to = p /\ ~links[l].accepted
        /\ links' = [links EXCEPT ![l].accepted = TRUE]
        /\ Finish(p, t, <<>>, wire)
    BY <1>1, <1>3 DEF Accept
  <1>5. t \in Table /\ t[l] = x /\ \A k \in Link : k # l => t[k] = sessions[p][k]
    BY <1>2, <1>3, SessionsAreTable DEF Table
  <1>6. /\ DOMAIN links' = DOMAIN links
        /\ \A k \in DOMAIN links : k # l => links'[k] = links[k]
        /\ links'[l].from = links[l].from /\ links'[l].to = p /\ links'[l].up = links[l].up
        /\ links[l].from # p
    <2>1. links[l] \in [from : Peer, to : Peer, up : BOOLEAN, accepted : BOOLEAN]
          /\ links[l].from # links[l].to
      BY <1>4 DEF PeerInv, NetInv, TypeOK, HostsInv
    <2> QED
      BY <1>4, <2>1
  <1>7. ASSUME NEW k \in Link, k # l PROVE TellInvAt(k)'
    <2>1. Tells(p, k, t, wire)
      BY <1>5, <1>7, TellsLike
    <2> QED
      BY <1>4, <1>5, <1>6, <1>7, <2>1, TellsKeptAt, SessionsAreTable
  <1>8. /\ FinishTold(p, t, wire)
    BY <1>4, <1>5, FinishTells, SessionsAreTable
  <1>9. sessions'[p][l] = x
    <2>1. PruneOne(x) = x
      BY <1>2, PruneFacts DEF PrunedTo
    <2> QED
      BY <1>5, <1>8, <2>1 DEF FinishTold
  <1>10. sessions[p][l].place = "none"
    BY <1>4, <1>6 DEF PeerInv, NetInv, EndsInv
  <1>11. OpenInv(l) /\ EndInv(l) /\ ReplyInv(l)
    BY DEF TellInv, TellInvAt
  <1>12. OpenInv(l)'
    BY <1>2, <1>8, <1>9, <1>11 DEF OpenInv, FinishTold
  <1>13. EndInv(l)'
    <2> SUFFICES ASSUME NEW r \in Peer, NEW q \in Peer, Joins(l, r, q)', (Left(r, l) \/ ~links[l].up)'
                 PROVE  Told(q, l)'
      BY DEF EndInv
    <2> Joins(l, r, q)
      BY <1>4, <1>6 DEF Joins
    <2>1. (r = p /\ q = links[l].from) \/ (q = p /\ r = links[l].from)
      BY <1>4, <1>6 DEF Joins
    <2>2. Left(r, l) \/ ~links[l].up
      BY <1>2, <1>6, <1>8, <1>9, <2>1 DEF Left, Live, FinishTold
    <2>3. Told(q, l)
      BY <1>11, <2>2 DEF EndInv
    <2>4. CASE q = p
      <3>1. Has(wire[p][l], "end")
        BY <1>4, <1>6, <1>10, <2>3, <2>4 DEF Told, Gone
      <3>2. wire'[p][l] = wire[p][l]
        BY <1>8, <1>10 DEF FinishTold
      <3> QED
        BY <2>4, <3>1, <3>2 DEF Told
    <2>5. CASE q # p
      <3>1. sessions'[q][l] = sessions[q][l] /\ (Has(wire[q][l], "end") => Has(wire'[q][l], "end"))
        BY <1>8, <2>5 DEF FinishTold
      <3> QED
        BY <1>6, <2>1, <2>3, <2>5, <3>1 DEF Told, Gone
    <2> QED
      BY <2>4, <2>5
  <1>14. ReplyInv(l)'
    BY <1>2, <1>6, <1>9 DEF ReplyInv, Made
  <1>15. TellInvAt(l)'
    BY <1>12, <1>13, <1>14 DEF TellInvAt
  <1> QED
    BY <1>7, <1>15 DEF TellInv

LEMMA ConnectedTells ==
    ASSUME PeerInv, TellInv, NEW p \in Peer, NEW q \in Peer, Connected(p, q)
    PROVE  TellInv'
  <1>1. PICK m \in Message : m = Plain("handshake")
    BY PlainType
  <1>2. PICK y \in Session : y = Fresh(TRUE) /\ y.place = "connecting" /\ y.active /\ y.open
    <2>1. <<>> \in Seq(Message)
      OBVIOUS
    <2>2. Fresh(TRUE) \in Session
      BY <2>1 DEF Fresh, Session, Place
    <2>3. Fresh(TRUE).place = "connecting" /\ Fresh(TRUE).active /\ Fresh(TRUE).open
      BY DEF Fresh
    <2> QED
      BY <2>2, <2>3, Zenon
  <1>3. PICK x \in Session : x = Write(y, m) /\ x.place = "connecting" /\ x.active /\ x.open
    <2>1. /\ Write(y, m) \in Session /\ Write(y, m).active = y.active
          /\ Write(y, m).place = y.place /\ Write(y, m).open = y.open
      BY WriteFacts
    <2> QED
      BY <1>2, <2>1
  <1>4. PICK c : c = [from |-> p, to |-> q, up |-> TRUE, accepted |-> FALSE]
    OBVIOUS
  <1>5. PICK l \in FreeLinks :
            /\ links' = [k \in DOMAIN links \cup {l} |-> IF k = l THEN c ELSE links[k]]
            /\ Finish(p, [sessions[p] EXCEPT ![l] = x], <<>>, wire)
    BY <1>1, <1>2, <1>3, <1>4 DEF Connected
  <1>6. l \in Link /\ (l \in DOMAIN links => Gone(links[l].from, l) /\ Gone(links[l].to, l))
    BY DEF FreeLinks
  <1>7. q # p
    BY DEF Connected, PeerInv, NetInv, HostsInv
  <1>8. ASSUME NEW r \in Peer PROVE sessions[r][l].place = "none"
    <2>1. CASE sessions[r][l].place # "none"
      <3>1. l \in DOMAIN links /\ r \in {links[l].from, links[l].to}
        BY <1>6, <2>1 DEF PeerInv, NetInv, EndsInv
      <3> QED
        BY <1>6, <2>1, <3>1 DEF Gone
    <2> QED
      BY <2>1
  <1>9. PICK t : t = [sessions[p] EXCEPT ![l] = x]
    OBVIOUS
  <1>10. t \in Table /\ t[l] = x /\ \A k \in Link : k # l => t[k] = sessions[p][k]
    BY <1>6, <1>9, SessionsAreTable DEF Table
  <1>11. ASSUME NEW k \in Link, k # l PROVE TellInvAt(k)'
    <2>1. Tells(p, k, t, wire)
      BY <1>10, <1>11, TellsLike
    <2>2. /\ k \in DOMAIN links' <=> k \in DOMAIN links
          /\ k \in DOMAIN links => links'[k] = links[k]
      BY <1>5, <1>11
    <2> QED
      BY <1>5, <1>9, <1>10, <2>1, <2>2, TellsKeptAt, SessionsAreTable
  <1>12. FinishTold(p, t, wire)
    BY <1>5, <1>9, <1>10, FinishTells, SessionsAreTable
  <1>13. sessions'[p][l] = x
    <2>1. PruneOne(x) = x
      BY <1>3, PruneFacts DEF PrunedTo
    <2> QED
      BY <1>6, <1>10, <1>12, <2>1 DEF FinishTold
  <1>14. \A r \in Peer : r # p => sessions'[r][l].place = "none"
    BY <1>6, <1>8, <1>12 DEF FinishTold
  <1>15. links'[l] = c /\ c.from = p /\ c.to = q /\ c.up /\ ~c.accepted
    BY <1>4, <1>5
  <1>16. OpenInv(l)'
    BY <1>3, <1>13, <1>14 DEF OpenInv, Live
  <1>17. EndInv(l)'
    <2> SUFFICES ASSUME NEW r \in Peer, Left(r, l)' PROVE FALSE
      BY <1>15 DEF EndInv
    <2> QED
      BY <1>3, <1>7, <1>13, <1>15 DEF Left, Live
  <1>18. ReplyInv(l)'
    BY <1>3, <1>13, <1>14 DEF ReplyInv
  <1>19. TellInvAt(l)'
    BY <1>16, <1>17, <1>18 DEF TellInvAt
  <1> QED
    BY <1>11, <1>19 DEF TellInv

\* Steps that leave the links, the sessions and what is on its way alone.
LEMMA QuietTells ==
    ASSUME TellInv, UNCHANGED asio
    PROVE  TellInv'
  <1>1. links' = links /\ sessions' = sessions /\ wire' = wire
    BY DEF asio
  <1> QED
    BY <1>1 DEF TellInv, TellInvAt, OpenInv, EndInv, ReplyInv, Joins, Made, Left, Told, Gone

LEMMA TellInit == Init => TellInv
  <1> SUFFICES ASSUME Init, NEW l \in Link PROVE TellInvAt(l)
    BY DEF TellInv
  <1>1. \A p \in Peer : sessions[p][l].place = "none"
    BY DEF Init, NoSession
  <1>2. l \notin DOMAIN links
    BY DEF Init
  <1> QED
    BY <1>1, <1>2 DEF TellInvAt, OpenInv, EndInv, ReplyInv, Live, Joins, Made

LEMMA TellStep ==
    ASSUME PeerInv, TellInv, [Next]_vars
    PROVE  TellInv'
  <1>1. ASSUME NEW p \in Peer, AsioStep(p) PROVE TellInv'
    BY <1>1, AddConnectionsTells, ShutdownSessionTells, ProcessWritesTells, ConnectedTells,
       AcceptTells, WriteDoneTells, HandshakeTells, ResponseTells, RoutedTells, ReadEndsTells
       DEF AsioStep
  <1>2. ASSUME NEW p \in Peer, NEW q \in Peer, AddHost(p, q) \/ RemoveHost(p, q) PROVE TellInv'
    BY <1>2, QuietTells DEF AddHost, RemoveHost
  <1>3. ASSUME NEW p \in Peer, EnsureHosts(p) \/ TakeProcesses(p) \/ HandleAny(p) PROVE TellInv'
    BY <1>3, QuietTells DEF EnsureHosts, TakeProcesses, HandleAny, Handle
  <1>4. ASSUME NEW p \in Peer, NEW q \in Peer, NEW b \in Body, AppSend(p, q, b) PROVE TellInv'
    BY <1>4, QuietTells DEF AppSend
  <1>5. CASE NetworkStep
    <2>1. \A p \in Peer : Hosts[p] \subseteq Peer /\ Removable[p] \subseteq Peer
      BY PeerAssumption
    <2> QED
      BY <1>1, <1>2, <1>3, <1>5, <2>1, LinkLostTells DEF NetworkStep
  <1>6. CASE UNCHANGED vars
    <2>1. UNCHANGED asio
      BY <1>6 DEF vars, asio
    <2> QED
      BY <2>1, QuietTells
  <1> QED
    BY <1>3, <1>4, <1>5, <1>6, ConnectFailedTells DEF Next

\* When nothing is under way and no session has stalled, both ends agree.
LEMMA AgreeIs == PeerInv /\ TellInv => AgreeUnlessStalled
  <1>1. ASSUME PeerInv, TellInv, ~Stalled, Quiescent, NEW p \in Peer, NEW q \in Peer, p # q,
               NEW l \in Link, sessions[p][l].place = "session", Joins(l, p, q)
        PROVE  sessions[q][l].place = "session"
    <2>1. /\ l \in DOMAIN links /\ links[l].accepted /\ {links[l].from, links[l].to} = {p, q}
          /\ links[l].from # links[l].to
      BY <1>1 DEF Joins, Quiescent, PeerInv, NetInv, HostsInv
    <2>2. /\ sessions[p][l].reading /\ wire[p][l] = <<>> /\ sessions[p][l].out = <<>>
          /\ sessions[q][l].out = <<>>
      BY <1>1 DEF Stalled, Quiescent
    <2>3. ~Told(p, l) /\ ~Has(sessions[p][l].out, "response")
      BY <1>1, <2>2, HasNone DEF Told, Gone
    <2>4. ~Left(q, l)
      BY <1>1, <2>1, <2>3 DEF TellInv, TellInvAt, EndInv, Joins
    <2>5. sessions[q][l].place \in Live
      BY <2>1, <2>4 DEF Left
    <2>6. CASE links[l].from = p
      <3>1. links[l].to = q /\ Answered(l)
        BY <1>1, <2>1, <2>6 DEF Answered
      <3>2. sessions[q][l].place # "connecting"
        BY <1>1, <2>1, <3>1 DEF PeerInv, SessionInv, LinkInv, AnswerInv
      <3> QED
        BY <2>5, <3>2 DEF Live
    <2>7. CASE links[l].from = q
      <3>1. CASE sessions[q][l].place = "connecting"
        <4>1. Made(l, q, p)
          BY <2>1, <2>7 DEF Made
        <4>2. Has(wire[q][l], "response") \/ Told(q, l)
          BY <1>1, <2>3, <3>1, <4>1 DEF TellInv, TellInvAt, ReplyInv
        <4>3. sessions[q][l].reading /\ wire[q][l] = <<>>
          BY <1>1, <3>1 DEF Stalled, Quiescent
        <4> QED
          BY <3>1, <4>2, <4>3, HasNone DEF Told, Gone
      <3> QED
        BY <2>5, <3>1 DEF Live
    <2> QED
      BY <2>1, <2>6, <2>7
  <1> SUFFICES ASSUME PeerInv, TellInv, ~Stalled, Quiescent, NEW p \in Peer, NEW q \in Peer
               PROVE  SessionsWith(sessions[p], p, q) = SessionsWith(sessions[q], q, p)
    BY DEF AgreeUnlessStalled, SessionsAgree
  <1>2. \A l \in Link : Joins(l, p, q) <=> Joins(l, q, p)
    BY DEF Joins
  <1>3. CASE p # q
    <2>1. ASSUME NEW l \in Link, Joins(l, p, q)
          PROVE  sessions[p][l].place = "session" <=> sessions[q][l].place = "session"
      BY <1>1, <1>2, <1>3, <2>1
    <2> QED
      BY <1>2, <2>1 DEF SessionsWith
  <1>4. CASE p = q
    BY <1>4
  <1> QED
    BY <1>3, <1>4

\* Both ends of a link agree that it is the session when nothing is under way,
\* whatever is sent, removed and lost, unless a session goes on that has stopped
\* reading.
THEOREM AgreeUnlessStalledCorrect == Spec => []AgreeUnlessStalled
  <1>1. Init => PeerInv /\ TellInv
    BY InitInv, TellInit
  <1>2. PeerInv /\ TellInv /\ [Next]_vars => (PeerInv /\ TellInv)'
    BY NextInv, TellStep
  <1>3. PeerInv /\ TellInv => AgreeUnlessStalled
    BY AgreeIs
  <1> QED
    BY <1>1, <1>2, <1>3, PTL DEF Spec

-----------------------------------------------------------------------------
(* As long as nothing is sent, no session stalls for good.                  *)

Starting == {"none", "connecting"}

\* The handshake is the first message of a link.
First(s) == \A i \in DOMAIN s : s[i].kind = "handshake" => i = 1

\* Of each end.  It stops reading before it ends only when the link is lost, and
\* writes one message.
OutInv(l) ==
    \A p \in Peer :
        /\ sessions[p][l].place \notin Live =>
              sessions[p][l].out = <<>> /\ ~(sessions[p][l].active /\ sessions[p][l].open)
        /\ sessions[p][l].place \in Live /\ ~sessions[p][l].reading =>
              ~links[l].up /\ sessions[p][l].out # <<>>
        /\ sessions[p][l].out # <<>> =>
              Tail(sessions[p][l].out) = <<>> /\ ~Has(sessions[p][l].out, "end")
        /\ First(wire[p][l])

\* From p to q: an end comes from who has left, and nobody leaves who is written to.
SentInv(l) ==
    \A p, q \in Peer : Joins(l, p, q) =>
        /\ links[l].up /\ Has(wire[q][l], "end") => Left(p, l)
        /\ links[l].up /\ sessions[q][l].out # <<>> => ~Left(p, l)
        /\ ~links[l].up => \A K \in Greetings : ~Has(wire[q][l], K)

\* The handshake of a and the response of b: who greets waits for the other.
HelloInv(l) ==
    \A a, b \in Peer : Made(l, a, b) =>
        /\ links[l].up /\ (~links[l].accepted \/ sessions[b][l].place = "connecting") =>
              sessions[a][l].place = "connecting"
        /\ sessions[a][l].out # <<>> =>
              sessions[b][l].place \in Starting /\ (links[l].up => wire[b][l] = <<>>)
        /\ sessions[b][l].out # <<>> =>
              sessions[a][l].place \in Starting /\ ~Has(wire[a][l], "response")
        /\ Has(wire[b][l], "handshake") => sessions[b][l].place \in Starting
        /\ sessions[b][l].place = "connecting" => sessions[b][l].out = <<>>

SilentInvAt(l) == OutInv(l) /\ SentInv(l) /\ HelloInv(l)

SilentInv ==
    /\ \A p, q \in Peer : writes[p][q] = <<>>
    /\ \A l \in Link : SilentInvAt(l)

LEMMA PruneOut ==
    ASSUME NEW x \in Session, NEW n, n = PruneOne(x), ~x.active \/ x.place \notin Live => x.out = <<>>,
           x.place = "none" => x = NoSession, x.place = "connecting" => x.active
    PROVE  /\ n.place \in Live => n = x /\ x.active /\ x.open
           /\ n.place \notin Live => n.out = <<>> /\ ~(n.active /\ n.open)
           /\ n.place # "none" => x.place # "none"
           /\ x.place \in Starting => n.place \in Starting
           /\ x.place \in Live /\ n.place \notin Live => ~(x.active /\ x.open)
  <1>1. x.place \in {"none", "connecting", "session", "closing", "duplicate"}
    BY SessionTypes DEF Place
  <1>2. NoSession.place = "none" /\ ~NoSession.active /\ NoSession.out = <<>>
    BY DEF NoSession
  <1>3. /\ n.place \in Live => n = x /\ n.active /\ n.open
        /\ n.place \notin Live => ~(n.active /\ n.open)
        /\ n.place # "none" => x.place # "none"
    BY PruneTells
  <1>4. CASE x.place \in {"duplicate", "closing"}
    <2>1. n = NoSession \/ n = Shutdown(x) \/ n = Close(x)
      BY <1>4 DEF PruneOne
    <2>2. n.out = <<>>
      BY <1>2, <1>4, <2>1, ShutdownFacts, CloseFacts DEF Live
    <2> QED
      BY <1>3, <1>4, <2>2 DEF Live, Starting
  <1>5. CASE x.place \in {"session", "connecting"}
    <2> DEFINE closing == [x EXCEPT !.place = "closing"]
    <2>1. n = IF ~x.open THEN NoSession ELSE IF x.active THEN x ELSE closing
      BY <1>5 DEF PruneOne
    <2>2. closing.out = x.out
      BY DEF Session
    <2> HIDE DEF closing
    <2> QED
      BY <1>2, <1>3, <1>5, <2>1, <2>2 DEF Live, Starting
  <1>6. CASE x.place = "none"
    <2>1. n = x
      BY <1>6 DEF PruneOne
    <2> QED
      BY <1>2, <1>6, <2>1 DEF Live, Starting
  <1> QED
    BY <1>1, <1>4, <1>5, <1>6

LEMMA FirstOf ==
    ASSUME NEW s \in Seq(Message), NEW e \in Seq(Message)
    PROVE  /\ First(s) /\ ~Has(e, "handshake") => First(s \o e)
           /\ First(s) /\ s # <<>> => First(Tail(s)) /\ ~Has(Tail(s), "handshake")
           /\ First(<<>>)
           /\ Len(e) <= 1 => First(e)
  <1>1. First(<<>>)
    BY DEF First
  <1>2. ASSUME First(s), ~Has(e, "handshake") PROVE First(s \o e)
    <2>1. /\ Len(s \o e) = Len(s) + Len(e) /\ s \o e \in Seq(Message)
          /\ \A i \in 1..Len(s) : (s \o e)[i] = s[i]
          /\ \A i \in 1..Len(e) : (s \o e)[Len(s) + i] = e[i]
      BY PushOn
    <2>2. DOMAIN s = 1..Len(s) /\ DOMAIN e = 1..Len(e) /\ DOMAIN (s \o e) = 1..Len(s \o e)
          /\ Len(s) \in Nat /\ Len(e) \in Nat
      BY <2>1
    <2>3. ASSUME NEW i \in DOMAIN (s \o e), (s \o e)[i].kind = "handshake" PROVE i = 1
      <3>1. CASE i \in 1..Len(s)
        BY <1>2, <2>1, <2>2, <2>3, <3>1 DEF First
      <3>2. CASE i \notin 1..Len(s)
        <4>1. i - Len(s) \in 1..Len(e) /\ Len(s) + (i - Len(s)) = i
          BY <2>1, <2>2, <2>3, <3>2
        <4> QED
          BY <1>2, <2>1, <2>2, <2>3, <4>1 DEF Has
      <3> QED
        BY <3>1, <3>2
    <2> QED
      BY <2>3 DEF First
  <1>3. ASSUME First(s), s # <<>> PROVE ~Has(Tail(s), "handshake")
    <2>1. /\ Len(s) \in Nat \ {0} /\ DOMAIN s = 1..Len(s) /\ DOMAIN Tail(s) = 1..(Len(s) - 1)
          /\ \A i \in 1..(Len(s) - 1) : Tail(s)[i] = s[i + 1]
      BY <1>3, HeadTailProperties
    <2>2. ASSUME NEW i \in DOMAIN Tail(s) PROVE i + 1 \in DOMAIN s /\ Tail(s)[i] = s[i + 1] /\ i + 1 # 1
      BY <2>1
    <2> QED
      BY <1>3, <2>2 DEF First, Has
  <1>4. ASSUME First(s), s # <<>> PROVE First(Tail(s))
    BY <1>3, <1>4 DEF First, Has
  <1>5. Len(e) <= 1 => First(e)
    BY DEF First
  <1> QED
    BY <1>1, <1>2, <1>3, <1>4, <1>5

LEMMA EmittedFirst ==
    ASSUME NEW r \in Session, NEW n, NEW e, e = Emitted(r, n)
    PROVE  /\ e \in Seq(Message) /\ First(e)
           /\ \A K \in Greetings : Has(e, K) => Has(r.out, K)
           /\ e = <<>> \/ (r.active /\ r.open /\ ~(n.active /\ n.open))
  <1>1. /\ e \in Seq(Message)
        /\ \A K \in Greetings : Has(e, K) => Has(r.out, K)
    BY EmittedFacts
  <1>2. PICK m \in Message : m = Plain("end") /\ m.kind = "end"
    BY PlainType
  <1>3. <<m>> \in Seq(Message) /\ ~Has(<<m>>, "handshake") /\ r.out \in Seq(Message)
    BY <1>2, SessionTypes DEF Has
  <1>4. CASE ~(r.active /\ r.open) \/ (n.active /\ n.open)
    <2>1. e = <<>>
      BY <1>4 DEF Emitted
    <2> QED
      BY <1>1, <2>1, FirstOf
  <1>5. CASE r.active /\ r.open /\ ~(n.active /\ n.open)
    <2>1. PICK s : s = IF r.out = <<>> THEN <<>> ELSE <<Head(r.out)>>
      OBVIOUS
    <2>3. s \in Seq(Message) /\ Len(s) <= 1
      <3>1. CASE r.out = <<>>
        <4>1. s = <<>>
          BY <2>1, <3>1
        <4> QED
          BY <4>1
      <3>2. CASE r.out # <<>>
        <4>1. PICK h \in Message : h = Head(r.out)
          BY <1>3, <3>2, HeadTailProperties
        <4>2. s = <<h>>
          BY <2>1, <3>2, <4>1
        <4> QED
          BY <4>1, <4>2
      <3> QED
        BY <3>1, <3>2
    <2>2. e = s \o <<m>>
      BY <1>2, <1>5, <2>1 DEF Emitted
    <2> QED
      BY <1>1, <1>3, <1>5, <2>2, <2>3, FirstOf
  <1> QED
    BY <1>4, <1>5

\* A handler of p makes x of its end of l and w of what is on its way, in silence.
Plays(p, l, x, w) ==
    /\ x \in Session /\ (x.place = "none" => x = NoSession)
    /\ sessions[p][l].place = "none" <=> x.place = "none"
    /\ sessions[p][l].place \notin Live => x.place \notin Live
    /\ x.place = "connecting" => sessions[p][l].place = "connecting" /\ x.active
    /\ ~x.active \/ x.place \notin Live => x.out = <<>>
    /\ x.place \in Live /\ x.active /\ x.open /\ ~x.reading => ~links[l].up /\ x.out # <<>>
    /\ \/ x.out = <<>> \/ x.out = sessions[p][l].out
       \/ /\ links[l].to = p /\ sessions[p][l].place = "connecting" /\ x.place = "session"
          /\ x.out = <<Plain("response")>> /\ Has(wire[p][l], "handshake")
    /\ sessions[p][l].place = "connecting" /\ x.place # "connecting" =>
          \/ links[l].to = p /\ Has(wire[p][l], "handshake") /\ ~Has(w[p][l], "handshake")
          \/ links[l].from = p /\ Has(wire[p][l], "response")
    /\ x.place \in Live /\ ~(x.active /\ x.open) =>
          \/ sessions[p][l].place = "session"
          \/ ~links[l].up
          \/ Has(wire[p][l], "end")
    /\ \A K : Has(w[p][l], K) => Has(wire[p][l], K)
    /\ First(w[p][l]) /\ (wire[p][l] = <<>> => w[p][l] = <<>>)
    /\ \A q \in Peer : q # p =>
          \/ w[q][l] = wire[q][l]
          \/ /\ Joins(l, p, q) /\ links[l].up /\ sessions[p][l].out # <<>>
             /\ x.out = <<>> /\ x.place = sessions[p][l].place /\ x.active /\ x.open
             /\ w[q][l] = Append(wire[q][l], Head(sessions[p][l].out))

\* What the handler puts on its way to q: nothing while it has more to write.
Adds(p, q, l) ==
    /\ \A K \in Greetings : Has(wire'[q][l], K) =>
          Has(wire[q][l], K) \/ (Joins(l, p, q) /\ links[l].up /\ Has(sessions[p][l].out, K))
    /\ Has(wire'[q][l], "end") =>
          \/ Has(wire[q][l], "end")
          \/ Joins(l, p, q) /\ sessions[p][l].place \in Live /\ sessions'[p][l].place \notin Live
    /\ wire'[q][l] = wire[q][l] \/ (Joins(l, p, q) /\ links[l].up /\ sessions'[p][l].out = <<>>)
    /\ First(wire'[q][l])

LEMMA PlaysAdds ==
    ASSUME PeerInv, TellInv, NEW p \in Peer, NEW t \in Table, NEW es, NEW w \in Wire,
           Finish(p, t, es, w), NEW l \in Link, SilentInvAt(l), Plays(p, l, t[l], w),
           NEW q \in Peer, q # p
    PROVE  Adds(p, q, l)
  <1>1. PICK r \in Session : r = sessions[p][l]
    BY SessionsAreTable
  <1>2. PICK x \in Session : x = t[l]
    BY DEF Table
  <1>3. PICK n : n = sessions'[p][l]
    OBVIOUS
  <1>4. n = PruneOne(x) /\ Plays(p, l, x, w)
    BY <1>2, <1>3, FinishTells DEF FinishTold
  <1>5. /\ n.place \in Live => n = x /\ x.active /\ x.open
        /\ n.place \notin Live => n.out = <<>> /\ ~(n.active /\ n.open)
        /\ x.place \in Live /\ n.place \notin Live => ~(x.active /\ x.open)
    BY <1>4, PruneOut DEF Plays
  <1>6. /\ r.place \notin Live => r.out = <<>> /\ ~(r.active /\ r.open)
        /\ r.out # <<>> => Tail(r.out) = <<>> /\ ~Has(r.out, "end")
        /\ First(wire[q][l]) /\ wire[q][l] \in Seq(Message) /\ w[q][l] \in Seq(Message)
        /\ r.out \in Seq(Message) /\ \A K : r.out # <<>> /\ Head(r.out).kind = K => Has(r.out, K)
    BY <1>1, SessionTypes, SessionsAreTable, HasOf DEF SilentInvAt, OutInv, Wire
  <1>7. PICK e : e = Emitted(r, n)
    OBVIOUS
  <1>8. /\ e \in Seq(Message) /\ First(e)
        /\ \A K \in Greetings : Has(e, K) => Has(r.out, K)
        /\ e = <<>> \/ (r.active /\ r.open /\ ~(n.active /\ n.open))
    BY <1>1, <1>7, EmittedFirst
  <1>9. wire'[q][l] = IF Joins(l, p, q) /\ links[l].up /\ ~Gone(q, l) THEN w[q][l] \o e ELSE w[q][l]
    <2>1. sessions \in [Peer -> Table]
      BY DEF PeerInv, NetInv, TypeOK, Table
    <2>2. n = Prune(t)[l]
      BY <1>3, <2>1 DEF Finish
    <2> QED
      BY <1>1, <1>7, <2>2 DEF Finish
  <1>10. w[q][l] \o <<>> = w[q][l] /\ <<>> \o e = e /\ \A K : ~Has(<<>>, K)
    BY <1>6, <1>8, HasNone
  <1>11. /\ n.place \in Live => e = <<>>
         /\ e # <<>> => r.place \in Live /\ n.place \notin Live /\ n.out = <<>>
    BY <1>5, <1>6, <1>8
  <1>12. Joins(l, p, q) /\ links[l].up /\ Has(r.out, "handshake") => wire[q][l] = <<>>
    <2>1. CASE r.out = <<>>
      BY <1>10, <2>1
    <2>2. CASE Joins(l, p, q) /\ links[l].up /\ Has(r.out, "handshake") /\ r.out # <<>>
      <3>1. links[l].from = p
        BY <1>1, <2>2 DEF Joins, PeerInv, SessionInv, LinkInv, KindInv
      <3>2. Made(l, p, q)
        BY <2>2, <3>1 DEF Joins, Made, PeerInv, NetInv, HostsInv
      <3> QED
        BY <1>1, <2>2, <3>2 DEF SilentInvAt, HelloInv
    <2> QED
      BY <2>1, <2>2
  <1>13. PICK f \in Seq(Message) :
            /\ wire'[q][l] = wire[q][l] \o f /\ First(f)
            /\ f = <<>> \/ (Joins(l, p, q) /\ links[l].up /\ n.out = <<>>)
            /\ \A K \in Greetings : Has(f, K) => Has(r.out, K)
            /\ Has(f, "end") => Joins(l, p, q) /\ r.place \in Live /\ n.place \notin Live
    <2> <<>> \in Seq(Message) /\ First(<<>>) /\ wire[q][l] \o <<>> = wire[q][l]
      BY <1>6, FirstOf
    <2>1. CASE w[q][l] = wire[q][l]
      <3>1. wire'[q][l] = wire[q][l] \o e \/ wire'[q][l] = wire[q][l] \o <<>>
        BY <1>9, <2>1
      <3>2. CASE wire'[q][l] = wire[q][l] \o <<>>
        BY <1>10, <3>2
      <3>3. CASE wire'[q][l] # wire[q][l] \o <<>>
        <4>1. wire'[q][l] = wire[q][l] \o e /\ e # <<>>
          BY <3>1, <3>3
        <4>2. Joins(l, p, q) /\ links[l].up
          BY <1>9, <2>1, <3>3
        <4> QED
          BY <1>8, <1>11, <4>1, <4>2
      <3> QED
        BY <3>2, <3>3
    <2>2. CASE w[q][l] # wire[q][l]
      <3>1. /\ Joins(l, p, q) /\ links[l].up /\ r.out # <<>>
            /\ x.out = <<>> /\ x.place = r.place /\ x.active /\ x.open
            /\ w[q][l] = Append(wire[q][l], Head(r.out))
        BY <1>1, <1>4, <2>2 DEF Plays
      <3>2. n = x /\ n.out = <<>> /\ e = <<>>
        BY <1>5, <1>6, <1>11, <3>1
      <3>3. PICK m \in Message : m = Head(r.out)
        BY <1>6, <3>1, HeadTailProperties
      <3>4. /\ <<m>> \in Seq(Message) /\ Len(<<m>>) <= 1
            /\ \A K : Has(<<m>>, K) => m.kind = K
        BY DEF Has
      <3>5. First(<<m>>) /\ \A K : Has(<<m>>, K) => Has(r.out, K)
        BY <1>6, <3>1, <3>3, <3>4, FirstOf
      <3>6. wire'[q][l] = wire[q][l] \o <<m>>
        <4>1. PICK u \in Seq(Message) : u = wire[q][l]
          BY <1>6
        <4>2. Append(u, m) = u \o <<m>>
          BY <3>3
        <4>3. w[q][l] = wire[q][l] \o <<m>>
          BY <3>1, <3>3, <4>1, <4>2
        <4> QED
          BY <1>9, <1>10, <3>2, <4>3
      <3> QED
        BY <1>6, <3>1, <3>2, <3>4, <3>5, <3>6
    <2> QED
      BY <2>1, <2>2
  <1>14. \A K : Has(wire'[q][l], K) <=> Has(wire[q][l], K) \/ Has(f, K)
    BY <1>6, <1>13, HasBoth
  <1>15. First(wire'[q][l])
    <2>1. CASE Has(f, "handshake")
      <3>1. wire[q][l] = <<>>
        BY <1>10, <1>12, <1>13, <2>1 DEF Greetings
      <3>2. <<>> \o f = f
        OBVIOUS
      <3> QED
        BY <1>13, <3>1, <3>2
    <2>2. CASE ~Has(f, "handshake")
      BY <1>6, <1>13, <2>2, FirstOf
    <2> QED
      BY <2>1, <2>2
  <1>16. wire'[q][l] = wire[q][l] \/ (Joins(l, p, q) /\ links[l].up /\ n.out = <<>>)
    BY <1>6, <1>13
  <1>17. \A K \in Greetings : Has(f, K) => Joins(l, p, q) /\ links[l].up /\ Has(r.out, K)
    BY <1>10, <1>13
  <1> QED
    BY <1>1, <1>3, <1>13, <1>14, <1>15, <1>16, <1>17 DEF Adds

LEMMA PlaysKeptAt ==
    ASSUME PeerInv, TellInv, NEW p \in Peer, NEW t \in Table, NEW es, NEW w \in Wire,
           Finish(p, t, es, w), NEW l \in Link, SilentInvAt(l), Plays(p, l, t[l], w),
           l \in DOMAIN links' <=> l \in DOMAIN links, l \in DOMAIN links => links'[l] = links[l]
    PROVE  SilentInvAt(l)'
  <1>1. PICK r \in Session : r = sessions[p][l]
    BY SessionsAreTable
  <1>2. PICK x \in Session : x = t[l]
    BY DEF Table
  <1>3. PICK n : n = sessions'[p][l]
    OBVIOUS
  <1>4. /\ n = PruneOne(x) /\ Plays(p, l, x, w)
        /\ \A q \in Peer : q # p => sessions'[q][l] = sessions[q][l] /\ Adds(p, q, l)
    BY <1>2, <1>3, FinishTells, PlaysAdds DEF FinishTold
  <1>5. /\ n.place \in Live => n = x /\ x.active /\ x.open
        /\ n.place \notin Live => n.out = <<>> /\ ~(n.active /\ n.open)
        /\ n.place # "none" => x.place # "none"
        /\ x.place \in Starting => n.place \in Starting
        /\ x.place \in Live /\ n.place \notin Live => ~(x.active /\ x.open)
    BY <1>4, PruneOut DEF Plays
  <1>6. OutInv(l) /\ SentInv(l) /\ HelloInv(l)
    BY DEF SilentInvAt
  <1>7. wire'[p][l] = w[p][l] \/ wire'[p][l] = <<>>
    <2>1. sessions \in [Peer -> Table]
      BY DEF PeerInv, NetInv, TypeOK, Table
    <2> QED
      BY <2>1 DEF Finish
  <1>8. /\ \A K : Has(wire'[p][l], K) => Has(w[p][l], K) /\ Has(wire[p][l], K)
        /\ wire[p][l] = <<>> => wire'[p][l] = <<>>
        /\ First(wire'[p][l])
    BY <1>4, <1>7, HasNone, FirstOf DEF Plays, First
  <1>9. PICK m : m = Plain("response")
    OBVIOUS
  <1>10. m.kind = "response" /\ m \in Message /\ <<m>> # <<>> /\ Tail(<<m>>) = <<>> /\ ~Has(<<m>>, "end")
    BY <1>9, PlainType DEF Has
  <1>11. n.out # <<>> => /\ n = x /\ x.place \in Live
                         /\ \/ x.out = r.out
                            \/ /\ links[l].to = p /\ r.place = "connecting" /\ x.place = "session"
                               /\ x.out = <<m>> /\ Has(wire[p][l], "handshake")
    BY <1>1, <1>4, <1>5, <1>9 DEF Plays
  <1>12. /\ r.place \notin Live => n.place \notin Live
         /\ r.place \in Live => links[l].from = p \/ (links[l].to = p /\ links[l].accepted)
         /\ r.place \in Live => l \in DOMAIN links
    <2>1. r.place \in Live => r.place # "none"
      BY DEF Live
    <2>2. r.place \notin Live => n.place \notin Live
      BY <1>1, <1>4, <1>5 DEF Plays
    <2> QED
      BY <1>1, <2>1, <2>2 DEF PeerInv, NetInv, EndsInv
  <1>13. r.place = "connecting" /\ n.place # "connecting" =>
            \/ links[l].to = p /\ Has(wire[p][l], "handshake") /\ ~Has(wire'[p][l], "handshake")
            \/ links[l].from = p /\ Has(wire[p][l], "response")
            \/ /\ n.place = "none"
               /\ ~links[l].up \/ Has(wire[p][l], "end")
    <2>1. CASE x.place # "connecting" /\ r.place = "connecting"
      BY <1>1, <1>4, <1>8, <2>1 DEF Plays
    <2>2. CASE x.place = "connecting" /\ n.place # "connecting"
      <3>1. n.place \notin Live /\ n.place = "none"
        BY <1>5, <2>2 DEF Live, Starting
      <3>2. x.place \in Live /\ ~(x.active /\ x.open) /\ sessions[p][l].place = "connecting"
        BY <1>4, <1>5, <2>2, <3>1 DEF Live, Plays
      <3> QED
        BY <1>4, <3>1, <3>2 DEF Plays
    <2> QED
      BY <2>1, <2>2
  <1>14. OutInv(l)'
    <2>1. ASSUME NEW q \in Peer, q # p, l \in DOMAIN links \/ sessions[q][l].place \notin Live
          PROVE  /\ sessions'[q][l] = sessions[q][l] /\ First(wire'[q][l])
                 /\ sessions[q][l].place \in Live => links'[l] = links[l]
      BY <1>4, <2>1 DEF Adds
    <2>2. \A q \in Peer : l \in DOMAIN links \/ sessions[q][l].place \notin Live
      BY DEF Live, PeerInv, NetInv, EndsInv
    <2>3. /\ n.place \in Live /\ ~n.reading => ~links'[l].up /\ n.out # <<>>
          /\ n.out # <<>> => Tail(n.out) = <<>> /\ ~Has(n.out, "end")
      <3>1. n.out # <<>> => Tail(n.out) = <<>> /\ ~Has(n.out, "end")
        BY <1>1, <1>6, <1>10, <1>11 DEF OutInv
      <3>2. n.place \in Live => r.place \in Live /\ l \in DOMAIN links /\ links'[l] = links[l]
        BY <1>12
      <3> QED
        BY <1>4, <1>5, <3>1, <3>2 DEF Plays
    <2> QED
      BY <1>3, <1>5, <1>6, <1>8, <2>1, <2>2, <2>3 DEF OutInv
  <1>15. ASSUME NEW q \in Peer, q # p, Joins(l, p, q), links[l].up, r.place \in Live,
                n.place \notin Live, sessions[q][l].out # <<>>
         PROVE  FALSE
    <2>1. /\ l \in DOMAIN links /\ (Made(l, p, q) \/ Made(l, q, p)) /\ Joins(l, q, p)
      BY <1>15 DEF Joins, Made, PeerInv, NetInv, HostsInv
    <2>2. r.place \in Starting
      BY <1>1, <1>6, <1>15, <2>1 DEF HelloInv
    <2>3. r.place = "connecting"
      BY <1>15, <2>2 DEF Live, Starting
    <2>4. ~(links[l].from = p /\ Has(wire[p][l], "response"))
      BY <1>6, <1>15, <2>1 DEF HelloInv, Made
    <2>5. ~(links[l].to = p /\ Has(wire[p][l], "handshake"))
      BY <1>6, <1>15, <2>1, HasNone DEF HelloInv, Made
    <2>6. Has(wire[p][l], "end")
      BY <1>13, <1>15, <2>3, <2>4, <2>5 DEF Live
    <2>7. sessions[q][l].place \notin Live
      BY <1>6, <1>15, <2>1, <2>6 DEF SentInv, Left
    <2> QED
      BY <1>6, <1>15, <2>7 DEF OutInv
  <1>16. /\ r.place \in Live /\ n.place \notin Live => Left(p, l)' \/ l \notin DOMAIN links
         /\ l \in DOMAIN links /\ Left(p, l) => Left(p, l)'
         /\ \A q \in Peer : q # p /\ l \in DOMAIN links => (Left(q, l)' <=> Left(q, l))
    <2>1. l \in DOMAIN links => links'[l] = links[l]
      OBVIOUS
    <2> QED
      BY <1>1, <1>3, <1>4, <1>12, <2>1 DEF Left
  <1>17. SentInv(l)'
    <2> SUFFICES ASSUME NEW u \in Peer, NEW v \in Peer, Joins(l, u, v)'
                 PROVE  /\ links'[l].up /\ Has(wire'[v][l], "end") => Left(u, l)'
                        /\ links'[l].up /\ sessions'[v][l].out # <<>> => ~Left(u, l)'
                        /\ ~links'[l].up => \A K \in Greetings : ~Has(wire'[v][l], K)
      BY DEF SentInv
    <2>1. /\ Joins(l, u, v) /\ l \in DOMAIN links /\ links'[l] = links[l] /\ u # v
          /\ (Made(l, u, v) \/ Made(l, v, u))
      BY DEF Joins, Made, PeerInv, NetInv, HostsInv
    <2>2. /\ links[l].up /\ Has(wire[v][l], "end") => Left(u, l)
          /\ links[l].up /\ sessions[v][l].out # <<>> => ~Left(u, l)
          /\ ~links[l].up => \A K \in Greetings : ~Has(wire[v][l], K)
      BY <1>6, <2>1 DEF SentInv
    <2>3. CASE u = p
      <3>1. Adds(p, v, l) /\ sessions'[v][l] = sessions[v][l]
        BY <1>4, <2>1, <2>3
      <3>2. links[l].up /\ Has(wire'[v][l], "end") => Left(u, l)'
        BY <1>1, <1>3, <1>16, <2>1, <2>2, <2>3, <3>1 DEF Adds
      <3>3. ASSUME links[l].up, sessions[v][l].out # <<>> PROVE ~Left(u, l)'
        <4>1. CASE r.place \notin Live
          <5>1. ~(links[l].from = p \/ links[l].accepted)
            BY <1>1, <2>2, <2>3, <3>3, <4>1 DEF Left
          <5> QED
            BY <2>1, <2>3, <5>1 DEF Left
        <4>2. CASE r.place \in Live
          <5>1. n.place \in Live
            BY <1>15, <2>1, <2>3, <3>3, <4>2
          <5> QED
            BY <1>3, <2>3, <5>1 DEF Left
        <4> QED
          BY <4>1, <4>2
      <3>4. ~links[l].up => \A K \in Greetings : ~Has(wire'[v][l], K)
        BY <2>2, <3>1 DEF Adds
      <3> QED
        BY <2>1, <3>1, <3>2, <3>3, <3>4
    <2>4. CASE v = p
      <3>1. Left(u, l)' <=> Left(u, l)
        BY <1>16, <2>1, <2>4
      <3>2. ASSUME links[l].up, n.out # <<>> PROVE ~Left(u, l)
        <4>1. CASE x.out = r.out
          BY <1>1, <1>11, <2>2, <2>4, <3>2, <4>1
        <4>2. CASE x.out # r.out
          <5>1. links[l].to = p /\ r.place = "connecting"
            BY <1>11, <3>2, <4>2
          <5>2. Made(l, u, p)
            BY <2>1, <2>4, <5>1 DEF Made, PeerInv, NetInv, HostsInv
          <5>3. sessions[u][l].place = "connecting"
            BY <1>1, <1>6, <3>2, <5>1, <5>2 DEF HelloInv
          <5> QED
            BY <5>3 DEF Left, Live
        <4> QED
          BY <4>1, <4>2
      <3> QED
        BY <1>3, <1>8, <2>1, <2>2, <2>4, <3>1, <3>2
    <2>5. CASE u # p /\ v # p
      <3>1. Adds(p, v, l) /\ sessions'[v][l] = sessions[v][l] /\ ~Joins(l, p, v)
        BY <1>4, <2>1, <2>5 DEF Joins
      <3>2. wire'[v][l] = wire[v][l]
        BY <3>1 DEF Adds
      <3> QED
        BY <1>16, <2>1, <2>2, <2>5, <3>1, <3>2
    <2> QED
      BY <2>3, <2>4, <2>5
  <1>18. HelloInv(l)'
    <2> SUFFICES ASSUME NEW a \in Peer, NEW b \in Peer, Made(l, a, b)'
                 PROVE  /\ links'[l].up /\ (~links'[l].accepted \/ sessions'[b][l].place = "connecting") =>
                              sessions'[a][l].place = "connecting"
                        /\ sessions'[a][l].out # <<>> =>
                              sessions'[b][l].place \in Starting /\ (links'[l].up => wire'[b][l] = <<>>)
                        /\ sessions'[b][l].out # <<>> =>
                              sessions'[a][l].place \in Starting /\ ~Has(wire'[a][l], "response")
                        /\ Has(wire'[b][l], "handshake") => sessions'[b][l].place \in Starting
                        /\ sessions'[b][l].place = "connecting" => sessions'[b][l].out = <<>>
      BY DEF HelloInv
    <2>1. /\ Made(l, a, b) /\ l \in DOMAIN links /\ links'[l] = links[l] /\ a # b
          /\ links[l].from = a /\ links[l].to = b /\ Joins(l, a, b) /\ Joins(l, b, a)
      BY DEF Joins, Made, PeerInv, NetInv, HostsInv
    <2>2. /\ links[l].up /\ (~links[l].accepted \/ sessions[b][l].place = "connecting") =>
                sessions[a][l].place = "connecting"
          /\ sessions[a][l].out # <<>> =>
                sessions[b][l].place \in Starting /\ (links[l].up => wire[b][l] = <<>>)
          /\ sessions[b][l].out # <<>> =>
                sessions[a][l].place \in Starting /\ ~Has(wire[a][l], "response")
          /\ Has(wire[b][l], "handshake") => sessions[b][l].place \in Starting
          /\ sessions[b][l].place = "connecting" => sessions[b][l].out = <<>>
      BY <1>6, <2>1 DEF HelloInv
    <2>3. /\ ~links[l].up => \A K \in Greetings : ~Has(wire[a][l], K) /\ ~Has(wire[b][l], K)
          /\ links[l].up /\ Has(wire[a][l], "end") => Left(b, l)
          /\ links[l].up /\ Has(wire[b][l], "end") => Left(a, l)
      BY <1>6, <2>1 DEF SentInv
    <2>4. Has(wire[a][l], "response") => links[l].accepted /\ sessions[b][l].place # "connecting"
      BY <2>1 DEF PeerInv, SessionInv, LinkInv, AnswerInv, Answered
    <2>5. CASE p = a
      <3>1. Adds(p, b, l) /\ sessions'[b][l] = sessions[b][l] /\ sessions'[a][l] = n /\ r = sessions[a][l]
        BY <1>1, <1>3, <1>4, <2>1, <2>5
      <3>2. r.place = "connecting" /\ n.place # "connecting" =>
                \/ Has(wire[a][l], "response")
                \/ n.place = "none" /\ (~links[l].up \/ Has(wire[a][l], "end"))
        BY <1>13, <2>1, <2>5
      <3>3. ASSUME links[l].up, ~links[l].accepted \/ sessions[b][l].place = "connecting"
            PROVE  n.place = "connecting"
        <4>1. r.place = "connecting" /\ ~Has(wire[a][l], "response")
          BY <2>2, <2>4, <3>1, <3>3
        <4>2. ~Has(wire[a][l], "end")
          BY <2>1, <2>3, <3>3 DEF Left, Live
        <4> QED
          BY <3>2, <3>3, <4>1, <4>2
      <3>4. ASSUME n.out # <<>>
            PROVE  sessions[b][l].place \in Starting /\ (links[l].up => wire'[b][l] = <<>>)
        <4>1. r.out # <<>>
          BY <1>11, <2>1, <2>5, <3>4
        <4>2. wire'[b][l] = wire[b][l]
          BY <3>1, <3>4, <2>5 DEF Adds
        <4> QED
          BY <2>2, <3>1, <4>1, <4>2
      <3>5. ASSUME sessions[b][l].out # <<>>
            PROVE  n.place \in Starting /\ ~Has(wire'[a][l], "response")
        <4>1. r.place \in Starting /\ ~Has(wire[a][l], "response")
          BY <2>2, <3>1, <3>5
        <4>2. n.place \in Starting
          <5>1. CASE r.place = "none"
            BY <1>4, <1>5, <2>5, <3>1, <5>1 DEF Plays, Starting
          <5>2. CASE r.place = "connecting"
            BY <3>2, <4>1, <5>2 DEF Starting
          <5> QED
            BY <4>1, <5>1, <5>2 DEF Starting
        <4> QED
          BY <1>8, <2>5, <4>1, <4>2
      <3>6. Has(wire'[b][l], "handshake") => sessions[b][l].place \in Starting
        <4>1. r.out = <<>> => ~Has(r.out, "handshake")
          BY HasNone
        <4> QED
          BY <2>2, <2>5, <3>1, <4>1 DEF Adds, Greetings
      <3> QED
        BY <2>1, <2>2, <3>1, <3>3, <3>4, <3>5, <3>6
    <2>6. CASE p = b
      <3>1. Adds(p, a, l) /\ sessions'[a][l] = sessions[a][l] /\ sessions'[b][l] = n /\ r = sessions[b][l]
        BY <1>1, <1>3, <1>4, <2>1, <2>6
      <3>2. r.place = "connecting" /\ n.place # "connecting" =>
                \/ Has(wire[b][l], "handshake") /\ ~Has(wire'[b][l], "handshake")
                \/ n.place = "none"
        BY <1>13, <2>1, <2>6
      <3>3. /\ n.place = "connecting" => r.place = "connecting"
            /\ r.place = "none" => n.place = "none"
        BY <1>4, <1>5, <2>6, <3>1 DEF Plays, Live
      <3>4. ASSUME sessions[a][l].out # <<>>
            PROVE  n.place \in Starting /\ (links[l].up => wire'[b][l] = <<>>)
        <4>1. ~Has(wire[b][l], "handshake")
          BY <2>2, <2>3, <3>4, HasNone DEF Greetings
        <4>2. n.place \in Starting
          BY <2>2, <3>1, <3>2, <3>3, <3>4, <4>1 DEF Starting
        <4> QED
          BY <1>8, <2>2, <2>6, <3>4, <4>2
      <3>5. ASSUME n.out # <<>>
            PROVE  sessions[a][l].place \in Starting /\ ~Has(wire'[a][l], "response")
        <4>1. wire'[a][l] = wire[a][l]
          BY <2>6, <3>1, <3>5 DEF Adds
        <4>2. CASE x.out = r.out
          BY <1>11, <2>2, <3>1, <3>5, <4>1, <4>2
        <4>3. CASE x.out # r.out
          <5>1. r.place = "connecting" /\ Has(wire[b][l], "handshake")
            BY <1>11, <2>6, <3>5, <4>3
          <5>2. links[l].up
            BY <2>3, <5>1 DEF Greetings
          <5> QED
            BY <2>2, <2>4, <3>1, <4>1, <5>1, <5>2 DEF Starting
        <4> QED
          BY <4>2, <4>3
      <3>6. ASSUME Has(wire'[b][l], "handshake") PROVE n.place \in Starting
        <4>1. r.place \in Starting
          BY <1>8, <2>2, <2>6, <3>1, <3>6
        <4> QED
          BY <3>2, <3>3, <3>6, <4>1 DEF Starting
      <3>7. n.place = "connecting" => n.out = <<>>
        BY <1>11, <2>2, <3>1, <3>3
      <3> QED
        BY <2>1, <2>2, <3>1, <3>3, <3>4, <3>5, <3>6, <3>7
    <2>7. CASE p # a /\ p # b
      <3>1. /\ Adds(p, a, l) /\ sessions'[a][l] = sessions[a][l] /\ ~Joins(l, p, a)
            /\ Adds(p, b, l) /\ sessions'[b][l] = sessions[b][l] /\ ~Joins(l, p, b)
        BY <1>4, <2>1, <2>7 DEF Joins
      <3>2. wire'[a][l] = wire[a][l] /\ wire'[b][l] = wire[b][l]
        BY <3>1 DEF Adds
      <3> QED
        BY <2>1, <2>2, <3>1, <3>2
    <2> QED
      BY <2>5, <2>6, <2>7
  <1> QED
    BY <1>14, <1>17, <1>18 DEF SilentInvAt

\* What a handler of p reads from link l; it writes nothing.
Reads(p, l, w) ==
    /\ \A K : Has(w[p][l], K) => Has(wire[p][l], K)
    /\ First(w[p][l]) /\ (wire[p][l] = <<>> => w[p][l] = <<>>)
    /\ \A q \in Peer : q # p => w[q][l] = wire[q][l]

LEMMA ReadsNothing ==
    ASSUME NEW p \in Peer, NEW l \in Link, SilentInvAt(l), NEW w, \A q \in Peer : w[q][l] = wire[q][l]
    PROVE  Reads(p, l, w)
  BY DEF Reads, SilentInvAt, OutInv

LEMMA ReadsOne ==
    ASSUME PeerInv, NEW p \in Peer, NEW l \in Link, NEW kind, Readable(p, l, kind), SilentInvAt(l),
           NEW w, w = Read(p, l)
    PROVE  /\ Reads(p, l, w) /\ ~Has(w[p][l], "handshake")
           /\ Has(wire[p][l], kind) /\ wire[p][l] # <<>>
           /\ \A q \in Peer, k \in Link : k # l => w[q][k] = wire[q][k]
  <1>1. wire[p][l] \in Seq(Message) /\ wire[p][l] # <<>> /\ Head(wire[p][l]).kind = kind
    BY SessionsAreTable DEF Wire, Readable
  <1>2. PICK s : s = Tail(wire[p][l])
    OBVIOUS
  <1>3. w = [wire EXCEPT ![p][l] = s]
    BY <1>2 DEF Read
  <1>4. /\ w[p][l] = s /\ \A q \in Peer : q # p => w[q] = wire[q]
        /\ \A k \in Link : k # l => w[p][k] = wire[p][k]
    BY <1>3, SessionsAreTable DEF Wire
  <1>5. \A K : Has(wire[p][l], K) <=> kind = K \/ Has(s, K)
    BY <1>1, <1>2, HasOf
  <1>6. First(s) /\ ~Has(s, "handshake")
    BY <1>1, <1>2, FirstOf DEF SilentInvAt, OutInv
  <1> QED
    BY <1>1, <1>4, <1>5, <1>6 DEF Reads

\* p's end of l stays as it is.
LEMMA PlaysQuiet ==
    ASSUME PeerInv, TellInv, NEW p \in Peer, NEW l \in Link, SilentInvAt(l), NEW w, Reads(p, l, w)
    PROVE  Plays(p, l, sessions[p][l], w)
  <1>1. PICK r \in Session : r = sessions[p][l]
    BY SessionsAreTable
  <1>2. r.place = "none" => r = NoSession
    BY <1>1, NoSessionThere
  <1>3. r.place \in Live => r.active /\ r.open
    BY <1>1 DEF TellInv, TellInvAt, OpenInv
  <1>4. /\ r.place \notin Live => r.out = <<>>
        /\ r.place \in Live /\ ~r.reading => ~links[l].up /\ r.out # <<>>
    BY <1>1 DEF SilentInvAt, OutInv
  <1> QED
    BY <1>1, <1>2, <1>3, <1>4 DEF Plays, Reads, Live

\* An established session that is shut down or discarded.
LEMMA PlaysEnds ==
    ASSUME PeerInv, NEW p \in Peer, NEW l \in Link, NEW w, Reads(p, l, w), NEW x \in Session,
           sessions[p][l].place = "session", x.place \in {"session", "duplicate"},
           ~x.active, x.out = <<>>
    PROVE  Plays(p, l, x, w)
  BY DEF Plays, Reads, Live

LEMMA PlaysResolved ==
    ASSUME PeerInv, TellInv, NEW p \in Peer, NEW l \in Link, NEW k \in Link, k # l, SilentInvAt(k),
           NEW x \in Session, ResolvedTo(k, l, sessions[p][k], x), NEW w, \A q \in Peer : w[q][k] = wire[q][k]
    PROVE  Plays(p, k, x, w)
  <1>1. Reads(p, k, w)
    BY ReadsNothing
  <1>2. CASE x = sessions[p][k]
    BY <1>1, <1>2, PlaysQuiet
  <1>3. CASE /\ sessions[p][k].place = "session" /\ x.place = "duplicate" /\ ~x.active /\ x.out = <<>>
    BY <1>1, <1>3, PlaysEnds
  <1> QED
    BY <1>2, <1>3 DEF ResolvedTo

LEMMA PlaysKept ==
    ASSUME PeerInv, TellInv, SilentInv, NEW p \in Peer, NEW t \in Table, NEW es, NEW w \in Wire,
           Finish(p, t, es, w), links' = links, \A l \in Link : Plays(p, l, t[l], w)
    PROVE  \A l \in Link : SilentInvAt(l)'
  <1> SUFFICES ASSUME NEW l \in Link PROVE SilentInvAt(l)'
    OBVIOUS
  <1>1. SilentInvAt(l) /\ Plays(p, l, t[l], w)
    BY DEF SilentInv
  <1> QED
    BY <1>1, PlaysKeptAt

\* p's end of link l is x; the others stay as they are.
LEMMA PlaysOne ==
    ASSUME PeerInv, TellInv, SilentInv, NEW p \in Peer, NEW l \in Link, NEW x \in Session, NEW es,
           NEW w \in Wire, links' = links,
           Finish(p, [sessions[p] EXCEPT ![l] = x], es, w),
           \A q \in Peer, k \in Link : k # l => w[q][k] = wire[q][k],
           Plays(p, l, x, w)
    PROVE  \A k \in Link : SilentInvAt(k)'
  <1>1. PICK t : t = [sessions[p] EXCEPT ![l] = x]
    OBVIOUS
  <1>2. t \in Table /\ t[l] = x /\ \A k \in Link : k # l => t[k] = sessions[p][k]
    BY <1>1, SessionsAreTable DEF Table
  <1>3. ASSUME NEW k \in Link, k # l PROVE Plays(p, k, t[k], w)
    <2>1. SilentInvAt(k)
      BY DEF SilentInv
    <2>2. Reads(p, k, w)
      BY <1>3, <2>1, ReadsNothing
    <2> QED
      BY <1>2, <1>3, <2>1, <2>2, PlaysQuiet
  <1>4. \A k \in Link : Plays(p, k, t[k], w)
    BY <1>2, <1>3
  <1>5. Finish(p, t, es, w)
    BY <1>1
  <1> QED
    BY <1>2, <1>4, <1>5, PlaysKept

\* Nothing but what happens on the wire.
LEMMA PlaysSame ==
    ASSUME PeerInv, TellInv, SilentInv, NEW p \in Peer, NEW es, links' = links,
           Finish(p, sessions[p], es, wire)
    PROVE  \A l \in Link : SilentInvAt(l)'
  <1>1. ASSUME NEW l \in Link PROVE Plays(p, l, sessions[p][l], wire)
    <2>1. SilentInvAt(l)
      BY DEF SilentInv
    <2> QED
      BY <2>1, ReadsNothing, PlaysQuiet
  <1>2. sessions[p] \in Table /\ wire \in Wire
    BY SessionsAreTable
  <1> QED
    BY <1>1, <1>2, PlaysKept

LEMMA ShutdownSessionSilent ==
    ASSUME PeerInv, TellInv, SilentInv, NEW p \in Peer, ShutdownSession(p)
    PROVE  \A l \in Link : SilentInvAt(l)'
  <1>1. PICK q : q = Head(tasks[p]).peer
    OBVIOUS
  <1>2. PICK t : t = [l \in Link |-> IF l \in SessionsWith(sessions[p], p, q) /\ sessions[p][l].active
                                     THEN Shutdown(sessions[p][l]) ELSE sessions[p][l]]
    OBVIOUS
  <1>3. Finish(p, t, <<>>, wire) /\ links' = links
    BY <1>1, <1>2 DEF ShutdownSession
  <1>4. ASSUME NEW l \in Link PROVE t[l] \in Session /\ Plays(p, l, t[l], wire)
    <2>1. PICK r \in Session : r = sessions[p][l]
      BY SessionsAreTable
    <2>2. SilentInvAt(l)
      BY DEF SilentInv
    <2>3. Reads(p, l, wire)
      BY <2>2, ReadsNothing
    <2>4. CASE t[l] = r
      BY <2>1, <2>2, <2>3, <2>4, PlaysQuiet
    <2>5. CASE t[l] = Shutdown(r) /\ r.place = "session"
      <3>1. PICK x \in Session : x = Shutdown(r) /\ ~x.active /\ x.out = <<>> /\ x.place = r.place
        BY ShutdownFacts
      <3> QED
        BY <2>1, <2>3, <2>5, <3>1, PlaysEnds
    <2> QED
      BY <1>2, <2>1, <2>4, <2>5 DEF SessionsWith
  <1>5. t \in Table
    BY <1>2, <1>4 DEF Table
  <1>6. wire \in Wire
    BY SessionsAreTable
  <1> QED
    BY <1>3, <1>4, <1>5, <1>6, PlaysKept

LEMMA NoRoutes ==
    ASSUME NEW r \in Session
    PROVE  WriteRoutes(r, <<>>) = r
  <1>1. PICK s : s = [i \in DOMAIN <<>> |-> [kind |-> "route", body |-> <<>>[i]]]
    OBVIOUS
  <1>2. s = <<>>
    <2>1. DOMAIN <<>> = 1..0
      OBVIOUS
    <2>2. s \in [1..0 -> Message]
      BY <1>1, <2>1
    <2>3. s \in Seq(Message) /\ Len(s) = 0
      BY <2>2
    <2> QED
      BY <2>3
  <1>3. r.out \in Seq(Message)
    BY DEF Session
  <1>4. PICK o : o = r.out \o s
    OBVIOUS
  <1>5. o = r.out
    BY <1>2, <1>3, <1>4
  <1>6. WriteRoutes(r, <<>>) = IF r.active THEN [r EXCEPT !.out = o] ELSE r
    BY <1>1, <1>4 DEF WriteRoutes
  <1> QED
    BY <1>5, <1>6 DEF Session

LEMMA ProcessWritesSilent ==
    ASSUME PeerInv, TellInv, SilentInv, NEW p \in Peer, ProcessWrites(p)
    PROVE  \A l \in Link : SilentInvAt(l)'
  <1>1. PICK t : t = [l \in Link |->
                   IF l \in DOMAIN links /\ l \in WriteTo(p, Other(p, l))
                   THEN WriteRoutes(sessions[p][l], writes[p][Other(p, l)]) ELSE sessions[p][l]]
    OBVIOUS
  <1>2. Finish(p, t, <<>>, wire) /\ links' = links
    BY <1>1 DEF ProcessWrites
  <1>3. ASSUME NEW l \in Link PROVE t[l] = sessions[p][l]
    <2>1. PICK r \in Session : r = sessions[p][l]
      BY SessionsAreTable
    <2>2. CASE l \in DOMAIN links /\ l \in WriteTo(p, Other(p, l))
      <3>1. r.place # "none"
        BY <2>1, <2>2 DEF WriteTo, ConnectingTo, SessionsWith
      <3>2. p \in {links[l].from, links[l].to}
        BY <2>1, <3>1 DEF PeerInv, NetInv, EndsInv
      <3>3. Other(p, l) \in Peer
        BY <2>2, <3>2, OtherType DEF PeerInv, NetInv
      <3>4. writes[p][Other(p, l)] = <<>>
        BY <3>3 DEF SilentInv
      <3> QED
        BY <1>1, <2>1, <2>2, <3>4, NoRoutes
    <2>3. CASE ~(l \in DOMAIN links /\ l \in WriteTo(p, Other(p, l)))
      BY <1>1, <2>1, <2>3
    <2> QED
      BY <2>2, <2>3
  <1>4. t = sessions[p]
    BY <1>1, <1>3, SessionsAreTable DEF Table
  <1> QED
    BY <1>2, <1>4, PlaysSame

LEMMA WriteDoneSilent ==
    ASSUME PeerInv, TellInv, SilentInv, NEW p \in Peer, NEW l \in Link, WriteDone(p, l)
    PROVE  \A k \in Link : SilentInvAt(k)'
  <1>1. PICK r \in Session : r = sessions[p][l]
    BY SessionsAreTable
  <1>2. /\ l \in DOMAIN links /\ r.open /\ r.out # <<>> /\ r.place # "none"
        /\ Transmit(p, l) \/ WriteFails(p, l)
        /\ links' = links
    BY <1>1, NoSessionThere DEF WriteDone, NoSession
  <1>3. PICK q \in Peer : q = Other(p, l) /\ Joins(l, p, q) /\ q # p
    <2>1. p \in {links[l].from, links[l].to}
      BY <1>1, <1>2 DEF PeerInv, NetInv, EndsInv
    <2>2. /\ Other(p, l) \in Peer /\ Joins(l, p, Other(p, l))
          /\ {p, Other(p, l)} = {links[l].from, links[l].to}
      BY <1>2, <2>1, OtherType DEF PeerInv, NetInv
    <2>3. Other(p, l) # p
      BY <1>2, <2>2 DEF PeerInv, NetInv, HostsInv
    <2> QED
      BY <2>2, <2>3
  <1>4. SilentInvAt(l)
    BY DEF SilentInv
  <1>5. Reads(p, l, wire)
    BY <1>4, ReadsNothing
  <1>6. /\ r.place \in Live /\ r.active /\ r.open /\ Tail(r.out) = <<>>
        /\ ~r.reading => ~links[l].up
    <2>1. r.place \in Live
      BY <1>1, <1>2, <1>4 DEF SilentInvAt, OutInv
    <2> QED
      BY <1>1, <1>2, <1>4, <2>1 DEF SilentInvAt, OutInv, TellInv, TellInvAt, OpenInv
  <1>7. <<>> \in Seq(Message)
    OBVIOUS
  <1>8. PICK y \in Session : y = [r EXCEPT !.out = <<>>]
    BY <1>7 DEF Session
  <1>9. /\ y.place = r.place /\ y.reading = r.reading /\ y.active = r.active /\ y.open = r.open
        /\ y.out = <<>>
    BY <1>8 DEF Session
  <1>10. ASSUME Transmit(p, l) PROVE \A k \in Link : SilentInvAt(k)'
    <2>1. PICK w \in Wire : w = Written(p, l)
      BY <1>1, <1>2, WiredWritten DEF PeerInv
    <2>2. Finish(p, [sessions[p] EXCEPT ![l] = y], <<>>, w) /\ links[l].up
      BY <1>1, <1>6, <1>8, <1>10, <2>1 DEF Transmit
    <2>3. w = [wire EXCEPT ![q][l] = IF Gone(q, l) THEN wire[q][l] ELSE Append(wire[q][l], Head(r.out))]
      BY <1>1, <1>3, <2>1 DEF Written
    <2>4. /\ \A k \in Link : k # l => w[q][k] = wire[q][k]
          /\ \A o \in Peer : o # q => w[o] = wire[o]
          /\ w[q][l] = IF Gone(q, l) THEN wire[q][l] ELSE Append(wire[q][l], Head(r.out))
      BY <2>3, SessionsAreTable DEF Wire
    <2>5. \A o \in Peer, k \in Link : k # l => w[o][k] = wire[o][k]
      BY <2>4
    <2>6. Plays(p, l, y, w)
      BY <1>1, <1>2, <1>3, <1>5, <1>6, <1>9, <2>2, <2>4 DEF Plays, Reads, Live
    <2> QED
      BY <1>2, <2>2, <2>5, <2>6, PlaysOne
  <1>11. ASSUME WriteFails(p, l) PROVE \A k \in Link : SilentInvAt(k)'
    <2>1. PICK x \in Session : /\ x = Close(y) /\ x.place = y.place /\ x.reading = y.reading
                               /\ x.active = y.active /\ x.out = y.out
                               /\ ~(x.open /\ ~y.reading)
                               /\ y.reading => x = y
      <3>1. y.reading => Close(y) = y
        BY DEF Close
      <3>2. ~y.reading => ~Close(y).open
        BY <1>9 DEF Close, Session
      <3> QED
        BY <3>1, <3>2, CloseFacts
    <2>2. Finish(p, [sessions[p] EXCEPT ![l] = x], <<>>, wire)
      BY <1>1, <1>8, <1>11, <2>1 DEF WriteFails
    <2>3. Plays(p, l, x, wire)
      BY <1>1, <1>2, <1>5, <1>6, <1>9, <2>1 DEF Plays, Reads, Live
    <2> QED
      BY <1>2, <2>2, <2>3, PlaysOne, SessionsAreTable
  <1> QED
    BY <1>2, <1>10, <1>11

LEMMA RoutedSilent ==
    ASSUME PeerInv, TellInv, SilentInv, NEW p \in Peer, NEW l \in Link, Routed(p, l)
    PROVE  \A k \in Link : SilentInvAt(k)'
  <1>1. Readable(p, l, "route") /\ Finish(p, sessions[p], <<>>, Read(p, l)) /\ links' = links
    BY DEF Routed
  <1>2. PICK w \in Wire : w = Read(p, l)
    BY <1>1, ReadableFacts
  <1>3. SilentInvAt(l)
    BY DEF SilentInv
  <1>4. Reads(p, l, w) /\ \A q \in Peer, k \in Link : k # l => w[q][k] = wire[q][k]
    BY <1>1, <1>2, <1>3, ReadsOne
  <1>5. ASSUME NEW k \in Link PROVE Plays(p, k, sessions[p][k], w)
    <2>1. SilentInvAt(k)
      BY DEF SilentInv
    <2>2. Reads(p, k, w)
      BY <1>4, <2>1, ReadsNothing
    <2> QED
      BY <2>1, <2>2, PlaysQuiet
  <1>6. sessions[p] \in Table
    BY SessionsAreTable
  <1> QED
    BY <1>1, <1>2, <1>5, <1>6, PlaysKept

LEMMA ReadEndsSilent ==
    ASSUME PeerInv, TellInv, SilentInv, NEW p \in Peer, NEW l \in Link, ReadEnds(p, l)
    PROVE  \A k \in Link : SilentInvAt(k)'
  <1>1. PICK r \in Session : r = sessions[p][l]
    BY SessionsAreTable
  <1>2. PICK y \in Session : y = [r EXCEPT !.reading = FALSE]
    BY DEF Session
  <1>3. y.place = r.place /\ ~y.reading /\ y.out = r.out /\ y.active = r.active
    BY <1>2 DEF Session
  <1>4. PICK x \in Session : /\ x = Close(y) /\ x.place = r.place /\ ~x.reading /\ x.out = r.out
                             /\ x.active = r.active /\ (r.out = <<>> => ~x.open)
    <2>1. r.out = <<>> => ~Close(y).open
      BY <1>3 DEF Close, Session
    <2> QED
      BY <1>3, <2>1, CloseFacts
  <1>5. /\ Readable(p, l, "end")
        /\ Finish(p, [sessions[p] EXCEPT ![l] = x], <<>>, Read(p, l))
        /\ links' = links
    BY <1>1, <1>2, <1>4 DEF ReadEnds
  <1>6. PICK w \in Wire : w = Read(p, l)
    BY <1>5, ReadableFacts
  <1>7. SilentInvAt(l)
    BY DEF SilentInv
  <1>8. /\ Reads(p, l, w) /\ Has(wire[p][l], "end")
        /\ \A q \in Peer, k \in Link : k # l => w[q][k] = wire[q][k]
    BY <1>5, <1>6, <1>7, ReadsOne
  <1>9. links[l].up => r.out = <<>>
    <2>1. PICK q \in Peer : Joins(l, q, p)
      <3>1. Other(p, l) \in Peer /\ Joins(l, p, Other(p, l))
        BY <1>5, ReadableFacts
      <3> QED
        BY <3>1 DEF Joins
    <2> QED
      BY <1>1, <1>7, <1>8, <2>1 DEF SilentInvAt, SentInv
  <1>10. r.place # "none" /\ (r.place \notin Live => r.out = <<>>) /\ (r.place \in Live => r.active)
    BY <1>1, <1>5, <1>7, ReadableFacts DEF SilentInvAt, OutInv, TellInv, TellInvAt, OpenInv
  <1>11. Plays(p, l, x, w)
    BY <1>1, <1>4, <1>8, <1>9, <1>10 DEF Plays, Reads, Live
  <1> QED
    BY <1>5, <1>6, <1>8, <1>11, PlaysOne

LEMMA HandshakeSilent ==
    ASSUME PeerInv, TellInv, SilentInv, NEW p \in Peer, NEW l \in Link, Handshake(p, l)
    PROVE  \A k \in Link : SilentInvAt(k)'
  <1>1. PICK q : q = Other(p, l)
    OBVIOUS
  <1>2. PICK m \in Message : m = Plain("response")
    BY PlainType
  <1>3. PICK t : t = Resolve(p, q, l)
    OBVIOUS
  <1>4. PICK es : es = ResolveEvents(p, q, l)
    OBVIOUS
  <1>5. /\ Readable(p, l, "handshake")
        /\ Finish(p, [t EXCEPT ![l] = Write(t[l], m)], es, Read(p, l))
        /\ links' = links
    BY <1>1, <1>2, <1>3, <1>4 DEF Handshake
  <1>6. PICK r \in Session : r = sessions[p][l]
    BY SessionsAreTable
  <1>7. /\ q \in Peer /\ q # p /\ Joins(l, p, q) /\ r.place # "none" /\ r.reading /\ l \in DOMAIN links
    BY <1>1, <1>5, <1>6, ReadableFacts DEF Readable
  <1>8. PICK w \in Wire : w = Read(p, l)
    BY <1>5, ReadableFacts
  <1>9. SilentInvAt(l)
    BY DEF SilentInv
  <1>10. /\ Reads(p, l, w) /\ ~Has(w[p][l], "handshake") /\ Has(wire[p][l], "handshake")
         /\ \A o \in Peer, k \in Link : k # l => w[o][k] = wire[o][k]
    BY <1>5, <1>8, <1>9, ReadsOne
  <1>11. links[l].to = p
    BY <1>7, <1>10 DEF PeerInv, SessionInv, LinkInv, KindInv
  <1>12. r.place = "connecting" /\ r.out = <<>> /\ r.active /\ r.open
    <2>1. Made(l, q, p)
      BY <1>7, <1>11 DEF Joins, Made
    <2>2. r.place = "connecting" /\ r.out = <<>>
      BY <1>6, <1>7, <1>9, <1>10, <2>1 DEF SilentInvAt, HelloInv, Starting
    <2> QED
      BY <1>6, <2>2 DEF TellInv, TellInvAt, OpenInv, Live
  <1>13. /\ t \in Table /\ t[l].place # "connecting"
         /\ \A k \in Link : ResolvedTo(k, l, sessions[p][k], t[k])
    BY <1>3, <1>7, ResolveTells
  <1>14. PICK z \in Session : z = t[l]
    BY <1>13 DEF Table
  <1>15. \/ z.place = "duplicate" /\ ~z.active /\ z.out = <<>>
         \/ z.place = "session" /\ z.reading /\ z.active /\ z.open /\ z.out = <<>>
    BY <1>6, <1>7, <1>12, <1>13, <1>14 DEF ResolvedTo
  <1>16. PICK x \in Session : /\ x = Write(z, m) /\ x.place = z.place /\ x.reading = z.reading
                              /\ x.active = z.active /\ x.open = z.open
                              /\ x.out = IF z.active THEN Append(z.out, m) ELSE z.out
    BY WriteFacts
  <1>17. z.active => x.out = <<Plain("response")>>
    BY <1>2, <1>15, <1>16
  <1>18. PICK u : u = [t EXCEPT ![l] = x]
    OBVIOUS
  <1>19. u \in Table /\ u[l] = x /\ \A k \in Link : k # l => u[k] = t[k]
    BY <1>13, <1>18 DEF Table
  <1>20. Plays(p, l, x, w)
    BY <1>6, <1>10, <1>11, <1>12, <1>15, <1>16, <1>17 DEF Plays, Reads, Live
  <1>21. ASSUME NEW k \in Link, k # l PROVE Plays(p, k, u[k], w)
    <2>1. SilentInvAt(k) /\ u[k] \in Session
      BY <1>19 DEF SilentInv, Table
    <2> QED
      BY <1>10, <1>13, <1>19, <1>21, <2>1, PlaysResolved
  <1>22. \A k \in Link : Plays(p, k, u[k], w)
    BY <1>19, <1>20, <1>21
  <1>23. Finish(p, u, es, w)
    BY <1>5, <1>8, <1>14, <1>16, <1>18
  <1> QED
    BY <1>5, <1>19, <1>22, <1>23, PlaysKept

LEMMA ResponseSilent ==
    ASSUME PeerInv, TellInv, SilentInv, NEW p \in Peer, NEW l \in Link, Response(p, l)
    PROVE  \A k \in Link : SilentInvAt(k)'
  <1>1. PICK q : q = Other(p, l)
    OBVIOUS
  <1>2. PICK t : t = Resolve(p, q, l)
    OBVIOUS
  <1>3. PICK es : es = ResolveEvents(p, q, l)
    OBVIOUS
  <1>4. Readable(p, l, "response") /\ Finish(p, t, es, Read(p, l)) /\ links' = links
    BY <1>1, <1>2, <1>3 DEF Response
  <1>5. PICK r \in Session : r = sessions[p][l]
    BY SessionsAreTable
  <1>6. /\ q \in Peer /\ r.place # "none" /\ r.reading /\ l \in DOMAIN links
    BY <1>1, <1>4, <1>5, ReadableFacts DEF Readable
  <1>7. PICK w \in Wire : w = Read(p, l)
    BY <1>4, ReadableFacts
  <1>8. SilentInvAt(l)
    BY DEF SilentInv
  <1>9. /\ Reads(p, l, w) /\ Has(wire[p][l], "response")
        /\ \A o \in Peer, k \in Link : k # l => w[o][k] = wire[o][k]
    BY <1>4, <1>7, <1>8, ReadsOne
  <1>10. links[l].from = p
    BY <1>6, <1>9 DEF PeerInv, SessionInv, LinkInv, KindInv
  <1>11. /\ t \in Table /\ t[l].place # "connecting"
         /\ \A k \in Link : ResolvedTo(k, l, sessions[p][k], t[k])
    BY <1>2, <1>6, ResolveTells
  <1>12. PICK x \in Session : x = t[l]
    BY <1>11 DEF Table
  <1>13. r.place \in Live => r.active /\ r.open
    BY <1>5 DEF TellInv, TellInvAt, OpenInv
  <1>14. Plays(p, l, x, w)
    <2>1. CASE x = r
      BY <1>5, <1>8, <1>9, <2>1, PlaysQuiet
    <2>2. CASE x # r
      <3>1. \/ /\ r.place \in Live
               /\ x.place = "duplicate" /\ ~x.active /\ x.out = <<>>
            \/ /\ r.place = "connecting" /\ x.place = "session"
               /\ x.reading /\ x.active /\ x.open /\ x.out = r.out
        BY <1>5, <1>6, <1>11, <1>12, <1>13, <2>2 DEF ResolvedTo, Live
      <3> QED
        BY <1>5, <1>9, <1>10, <1>12, <3>1 DEF Plays, Reads, Live
    <2> QED
      BY <2>1, <2>2
  <1>15. ASSUME NEW k \in Link, k # l PROVE Plays(p, k, t[k], w)
    <2>1. SilentInvAt(k) /\ t[k] \in Session
      BY <1>11 DEF SilentInv, Table
    <2> QED
      BY <1>9, <1>11, <1>15, <2>1, PlaysResolved
  <1>16. \A k \in Link : Plays(p, k, t[k], w)
    BY <1>12, <1>14, <1>15
  <1>17. Finish(p, t, es, w)
    BY <1>4, <1>7
  <1> QED
    BY <1>4, <1>11, <1>16, <1>17, PlaysKept

LEMMA LinkLostSilent ==
    ASSUME PeerInv, TellInv, SilentInv, NEW l \in Link, LinkLost(l)
    PROVE  \A k \in Link : SilentInvAt(k)'
  <1>1. PICK e \in Message : e = Plain("end") /\ e.kind = "end"
    BY PlainType
  <1>2. /\ l \in DOMAIN links
        /\ links' = [links EXCEPT ![l].up = FALSE]
        /\ wire' = [p \in Peer |-> IF p \in {links[l].from, links[l].to} /\ ~ Gone(p, l)
                              THEN [wire[p] EXCEPT ![l] = <<e>>] ELSE wire[p]]
        /\ sessions' = sessions
    BY <1>1 DEF LinkLost
  <1>3. /\ First(<<e>>) /\ First(<<>>)
        /\ \A K \in Greetings : ~Has(<<e>>, K) /\ ~Has(<<>>, K)
    <2>1. <<e>> \in Seq(Message) /\ Len(<<e>>) <= 1
      OBVIOUS
    <2>2. <<>> \in Seq(Message)
      OBVIOUS
    <2>3. \A K \in Greetings : ~Has(<<e>>, K)
      BY <1>1 DEF Has, Greetings
    <2> QED
      BY <2>1, <2>2, <2>3, FirstOf, HasNone
  <1>4. /\ DOMAIN links' = DOMAIN links
        /\ \A k \in DOMAIN links : /\ links'[k].from = links[k].from /\ links'[k].to = links[k].to
                                   /\ links'[k].accepted = links[k].accepted
                                   /\ k # l => links'[k] = links[k]
        /\ ~links'[l].up
    <2>1. links[l] \in [from : Peer, to : Peer, up : BOOLEAN, accepted : BOOLEAN]
      BY <1>2 DEF PeerInv, NetInv, TypeOK
    <2> QED
      BY <1>2, <2>1
  <1>5. \A p \in Peer, k \in Link :
            /\ k # l => wire'[p][k] = wire[p][k]
            /\ wire'[p][l] = <<e>> \/ wire'[p][l] = wire[p][l]
            /\ p \in {links[l].from, links[l].to} /\ ~ Gone(p, l) => wire'[p][l] = <<e>>
    BY <1>2, SessionsAreTable DEF Wire
  <1>6. ASSUME NEW k \in Link, k # l PROVE SilentInvAt(k)'
    <2>1. OutInv(k) /\ SentInv(k) /\ HelloInv(k)
      BY DEF SilentInv, SilentInvAt
    <2>2. /\ k \in DOMAIN links' <=> k \in DOMAIN links
          /\ k \in DOMAIN links => links'[k] = links[k]
          /\ \A q \in Peer : wire'[q][k] = wire[q][k] /\ sessions'[q][k] = sessions[q][k]
      BY <1>2, <1>4, <1>5, <1>6
    <2>3. OutInv(k)'
      <3>1. \A q \in Peer : sessions[q][k].place \in Live => k \in DOMAIN links
        BY DEF Live, PeerInv, NetInv, EndsInv
      <3> QED
        BY <2>1, <2>2, <3>1 DEF OutInv
    <2>4. SentInv(k)'
      <3>1. \A u, v \in Peer : Joins(k, u, v)' =>
                Joins(k, u, v) /\ links'[k] = links[k] /\ (Left(u, k)' <=> Left(u, k))
        BY <2>2 DEF Joins, Left
      <3> QED
        BY <2>1, <2>2, <3>1 DEF SentInv
    <2>5. HelloInv(k)'
      BY <2>1, <2>2 DEF HelloInv, Made
    <2> QED
      BY <2>3, <2>4, <2>5 DEF SilentInvAt
  <1>7. SilentInvAt(l)'
    <2>1. OutInv(l) /\ SentInv(l) /\ HelloInv(l) /\ WireInv(l)
      BY DEF SilentInv, SilentInvAt, PeerInv, SessionInv, LinkInv
    <2>2. ASSUME NEW q \in Peer
          PROVE  wire'[q][l] = <<e>> \/ wire'[q][l] = <<>>
      <3>1. CASE q \in {links[l].from, links[l].to} /\ ~ Gone(q, l)
        BY <1>5, <3>1
      <3>2. CASE ~(q \in {links[l].from, links[l].to} /\ ~ Gone(q, l))
        BY <1>2, <1>5, <2>1, <3>2 DEF WireInv
      <3> QED
        BY <3>1, <3>2
    <2>3. \A q \in Peer : First(wire'[q][l]) /\ \A K \in Greetings : ~Has(wire'[q][l], K)
      BY <1>3, <2>2
    <2>4. OutInv(l)'
      BY <1>2, <1>4, <2>1, <2>3 DEF OutInv
    <2>5. SentInv(l)'
      BY <1>4, <2>3 DEF SentInv
    <2>6. HelloInv(l)'
      <3> SUFFICES ASSUME NEW a \in Peer, NEW b \in Peer, Made(l, a, b)'
                   PROVE  /\ links'[l].up /\ (~links'[l].accepted \/ sessions'[b][l].place = "connecting") =>
                                sessions'[a][l].place = "connecting"
                          /\ sessions'[a][l].out # <<>> =>
                                sessions'[b][l].place \in Starting /\ (links'[l].up => wire'[b][l] = <<>>)
                          /\ sessions'[b][l].out # <<>> =>
                                sessions'[a][l].place \in Starting /\ ~Has(wire'[a][l], "response")
                          /\ Has(wire'[b][l], "handshake") => sessions'[b][l].place \in Starting
                          /\ sessions'[b][l].place = "connecting" => sessions'[b][l].out = <<>>
        BY DEF HelloInv
      <3>1. Made(l, a, b)
        BY <1>2, <1>4 DEF Made
      <3>2. /\ sessions[a][l].out # <<>> => sessions[b][l].place \in Starting
            /\ sessions[b][l].out # <<>> => sessions[a][l].place \in Starting
            /\ sessions[b][l].place = "connecting" => sessions[b][l].out = <<>>
        BY <2>1, <3>1 DEF HelloInv
      <3>3. ~Has(wire'[b][l], "handshake") /\ ~Has(wire'[a][l], "response")
        BY <2>3 DEF Greetings
      <3> QED
        BY <1>2, <1>4, <3>2, <3>3
    <2> QED
      BY <2>4, <2>5, <2>6 DEF SilentInvAt
  <1> QED
    BY <1>6, <1>7

LEMMA AcceptSilent ==
    ASSUME PeerInv, TellInv, SilentInv, NEW p \in Peer, NEW l \in Link, Accept(p, l)
    PROVE  \A k \in Link : SilentInvAt(k)'
  <1>1. PICK x \in Session : /\ x = Fresh(FALSE) /\ x.place = "connecting" /\ x.active /\ x.open
                             /\ x.reading /\ x.out = <<>>
    <2>1. <<>> \in Seq(Message)
      OBVIOUS
    <2>2. Fresh(FALSE) \in Session
      BY <2>1 DEF Fresh, Session, Place
    <2>3. /\ Fresh(FALSE).place = "connecting" /\ Fresh(FALSE).active /\ Fresh(FALSE).open
          /\ Fresh(FALSE).reading /\ Fresh(FALSE).out = <<>>
      BY DEF Fresh
    <2> QED
      BY <2>2, <2>3, Zenon
  <1>3. PICK t : t = [sessions[p] EXCEPT ![l] = x]
    OBVIOUS
  <1>4. /\ l \in DOMAIN links /\ links[l].to = p /\ ~links[l].accepted
        /\ links' = [links EXCEPT ![l].accepted = TRUE]
        /\ Finish(p, t, <<>>, wire)
    BY <1>1, <1>3 DEF Accept
  <1>5. t \in Table /\ t[l] = x /\ \A k \in Link : k # l => t[k] = sessions[p][k]
    BY <1>1, <1>3, SessionsAreTable DEF Table
  <1>6. /\ DOMAIN links' = DOMAIN links
        /\ \A k \in DOMAIN links : k # l => links'[k] = links[k]
        /\ links'[l].from = links[l].from /\ links'[l].to = p /\ links'[l].up = links[l].up
        /\ links[l].from # p /\ links[l].from \in Peer
    <2>1. links[l] \in [from : Peer, to : Peer, up : BOOLEAN, accepted : BOOLEAN]
          /\ links[l].from # links[l].to
      BY <1>4 DEF PeerInv, NetInv, TypeOK, HostsInv
    <2> QED
      BY <1>4, <2>1
  <1>7. ASSUME NEW k \in Link, k # l PROVE SilentInvAt(k)'
    <2>1. SilentInvAt(k)
      BY DEF SilentInv
    <2>2. Plays(p, k, t[k], wire)
      BY <1>5, <1>7, <2>1, ReadsNothing, PlaysQuiet
    <2> QED
      BY <1>4, <1>5, <1>6, <1>7, <2>1, <2>2, PlaysKeptAt, SessionsAreTable
  <1>8. sessions[p][l].place = "none" /\ ~sessions[p][l].active
    <2>1. sessions[p][l].place = "none"
      BY <1>4, <1>6 DEF PeerInv, NetInv, EndsInv
    <2> QED
      BY <2>1, NoSessionThere DEF NoSession
  <1>9. Finished(p, t, wire)
    <2>1. Ends(p, t)
      BY <1>1, <1>5 DEF Ends, PeerInv, NetInv, EndsInv
    <2>2. <<>> \in Seq(AnyEvent) /\ TypeOK
      BY DEF PeerInv, NetInv
    <2> QED
      BY <1>4, <1>5, <2>1, <2>2, FinishFacts, SessionsAreTable
  <1>10. sessions'[p][l] = x /\ \A q \in Peer : q # p => sessions'[q][l] = sessions[q][l]
    <2>1. PrunedTo(x, sessions'[p][l])
      BY <1>5, <1>9 DEF Finished
    <2> QED
      BY <1>1, <1>9, <2>1 DEF PrunedTo, Finished
  <1>11. \A q \in Peer : wire'[q][l] = wire[q][l]
    BY <1>8, <1>9 DEF Finished
  <1>12. OutInv(l) /\ SentInv(l) /\ HelloInv(l)
    BY DEF SilentInv, SilentInvAt
  <1>13. OutInv(l)'
    <2>1. ASSUME NEW q \in Peer
          PROVE  /\ sessions'[q][l].place \notin Live =>
                        sessions'[q][l].out = <<>> /\ ~(sessions'[q][l].active /\ sessions'[q][l].open)
                 /\ sessions'[q][l].place \in Live /\ ~sessions'[q][l].reading =>
                        ~links'[l].up /\ sessions'[q][l].out # <<>>
                 /\ sessions'[q][l].out # <<>> =>
                        Tail(sessions'[q][l].out) = <<>> /\ ~Has(sessions'[q][l].out, "end")
                 /\ First(wire'[q][l])
      <3>1. First(wire'[q][l])
        BY <1>11, <1>12 DEF OutInv
      <3>2. CASE q = p
        BY <1>1, <1>10, <3>1, <3>2 DEF Live
      <3>3. CASE q # p
        <4>1. sessions'[q][l] = sessions[q][l] /\ links'[l].up = links[l].up
          BY <1>6, <1>10, <3>3
        <4> QED
          BY <1>12, <3>1, <4>1 DEF OutInv
      <3> QED
        BY <3>2, <3>3
    <2> QED
      BY <2>1 DEF OutInv
  <1>14. SentInv(l)'
    <2> SUFFICES ASSUME NEW u \in Peer, NEW v \in Peer, Joins(l, u, v)'
                 PROVE  /\ links'[l].up /\ Has(wire'[v][l], "end") => Left(u, l)'
                        /\ links'[l].up /\ sessions'[v][l].out # <<>> => ~Left(u, l)'
                        /\ ~links'[l].up => \A K \in Greetings : ~Has(wire'[v][l], K)
      BY DEF SentInv
    <2>1. Joins(l, u, v) /\ ((u = p /\ v = links[l].from) \/ (v = p /\ u = links[l].from))
      BY <1>4, <1>6 DEF Joins
    <2>2. /\ links[l].up /\ Has(wire[v][l], "end") => Left(u, l)
          /\ links[l].up /\ sessions[v][l].out # <<>> => ~Left(u, l)
          /\ ~links[l].up => \A K \in Greetings : ~Has(wire[v][l], K)
      BY <1>12, <2>1 DEF SentInv
    <2>3. CASE u = p
      <3>1. ~Left(p, l) /\ ~Left(p, l)'
        BY <1>1, <1>4, <1>6, <1>10 DEF Left, Live
      <3> QED
        BY <1>6, <1>11, <2>2, <2>3, <3>1
    <2>4. CASE v = p /\ u = links[l].from
      <3>1. Left(u, l) <=> Left(u, l)'
        BY <1>6, <1>10, <2>4 DEF Left
      <3> QED
        BY <1>1, <1>6, <1>10, <1>11, <2>2, <2>4, <3>1
    <2> QED
      BY <2>1, <2>3, <2>4
  <1>15. HelloInv(l)'
    <2> SUFFICES ASSUME NEW a \in Peer, NEW b \in Peer, Made(l, a, b)'
                 PROVE  /\ links'[l].up /\ (~links'[l].accepted \/ sessions'[b][l].place = "connecting") =>
                              sessions'[a][l].place = "connecting"
                        /\ sessions'[a][l].out # <<>> =>
                              sessions'[b][l].place \in Starting /\ (links'[l].up => wire'[b][l] = <<>>)
                        /\ sessions'[b][l].out # <<>> =>
                              sessions'[a][l].place \in Starting /\ ~Has(wire'[a][l], "response")
                        /\ Has(wire'[b][l], "handshake") => sessions'[b][l].place \in Starting
                        /\ sessions'[b][l].place = "connecting" => sessions'[b][l].out = <<>>
      BY DEF HelloInv
    <2>1. Made(l, a, b) /\ b = p /\ a # p
      BY <1>4, <1>6 DEF Made
    <2>2. /\ links[l].up => sessions[a][l].place = "connecting"
          /\ sessions[a][l].out # <<>> => (links[l].up => wire[b][l] = <<>>)
      BY <1>4, <1>12, <2>1 DEF HelloInv
    <2> QED
      BY <1>1, <1>6, <1>10, <1>11, <2>1, <2>2 DEF Starting
  <1>16. SilentInvAt(l)'
    BY <1>13, <1>14, <1>15 DEF SilentInvAt
  <1> QED
    BY <1>7, <1>16

LEMMA ConnectedSilent ==
    ASSUME PeerInv, TellInv, SilentInv, NEW p \in Peer, NEW q \in Peer, Connected(p, q)
    PROVE  \A k \in Link : SilentInvAt(k)'
  <1>1. PICK m \in Message : m = Plain("handshake") /\ m.kind = "handshake"
    BY PlainType
  <1>2. PICK y \in Session : /\ y = Fresh(TRUE) /\ y.place = "connecting" /\ y.active /\ y.open
                             /\ y.reading /\ y.out = <<>>
    <2>1. <<>> \in Seq(Message)
      OBVIOUS
    <2>2. Fresh(TRUE) \in Session
      BY <2>1 DEF Fresh, Session, Place
    <2>3. /\ Fresh(TRUE).place = "connecting" /\ Fresh(TRUE).active /\ Fresh(TRUE).open
          /\ Fresh(TRUE).reading /\ Fresh(TRUE).out = <<>>
      BY DEF Fresh
    <2> QED
      BY <2>2, <2>3, Zenon
  <1>3. PICK x \in Session : x = Write(y, m)
    BY WriteFacts
  <1>4. /\ x.place = "connecting" /\ x.active /\ x.open /\ x.reading
        /\ Tail(x.out) = <<>> /\ ~Has(x.out, "end")
    <2>1. /\ x.place = "connecting" /\ x.active /\ x.open /\ x.reading
          /\ x.out = Append(<<>>, m)
      <3>1. /\ x.place = y.place /\ x.active = y.active /\ x.open = y.open /\ x.reading = y.reading
            /\ x.out = IF y.active THEN Append(y.out, m) ELSE y.out
        BY <1>3, WriteFacts
      <3> QED
        BY <1>2, <3>1
    <2>2. Append(<<>>, m) = <<m>> /\ Tail(<<m>>) = <<>>
      OBVIOUS
    <2>3. ~Has(<<m>>, "end")
      BY <1>1 DEF Has
    <2> QED
      BY <2>1, <2>2, <2>3
  <1>5. PICK c : c = [from |-> p, to |-> q, up |-> TRUE, accepted |-> FALSE]
    OBVIOUS
  <1>6. PICK l \in FreeLinks :
            /\ links' = [k \in DOMAIN links \cup {l} |-> IF k = l THEN c ELSE links[k]]
            /\ Finish(p, [sessions[p] EXCEPT ![l] = x], <<>>, wire)
    BY <1>1, <1>2, <1>3, <1>5 DEF Connected
  <1>7. q # p
    BY DEF Connected, PeerInv, NetInv, HostsInv
  <1>8. l \in Link /\ (l \in DOMAIN links => Gone(links[l].from, l) /\ Gone(links[l].to, l))
    BY DEF FreeLinks
  <1>9. LinkInv(l)
    BY <1>8 DEF PeerInv, SessionInv
  <1>10. ASSUME NEW r \in Peer
         PROVE  sessions[r][l] = NoSession /\ wire[r][l] = <<>> /\ ~(Joins(l, p, r) /\ ~Gone(r, l))
    <2>1. sessions[r][l].place = "none"
      <3>1. CASE sessions[r][l].place # "none"
        <4>1. l \in DOMAIN links /\ r \in {links[l].from, links[l].to}
          BY <1>8, <3>1 DEF PeerInv, NetInv, EndsInv
        <4> QED
          BY <1>8, <3>1, <4>1 DEF Gone
      <3> QED
        BY <3>1
    <2>2. wire[r][l] = <<>>
      BY <1>8, <1>9 DEF LinkInv, WireInv
    <2>3. ~(Joins(l, p, r) /\ ~Gone(r, l))
      BY <1>8 DEF Joins
    <2> QED
      BY <1>8, <2>1, <2>2, <2>3, NoSessionThere
  <1>11. PICK t : t = [sessions[p] EXCEPT ![l] = x]
    OBVIOUS
  <1>12. t \in Table /\ t[l] = x /\ \A k \in Link : k # l => t[k] = sessions[p][k]
    BY <1>8, <1>11, SessionsAreTable DEF Table
  <1>13. Finished(p, t, wire)
    <2>1. Ends(p, t)
      BY <1>4, <1>12 DEF Ends, PeerInv, NetInv, EndsInv
    <2>2. <<>> \in Seq(AnyEvent) /\ TypeOK /\ Finish(p, t, <<>>, wire)
      BY <1>6, <1>11 DEF PeerInv, NetInv
    <2> QED
      BY <1>12, <2>1, <2>2, FinishFacts, SessionsAreTable
  <1>14. ASSUME NEW k \in Link, k # l PROVE SilentInvAt(k)'
    <2>1. SilentInvAt(k)
      BY DEF SilentInv
    <2>2. Plays(p, k, t[k], wire)
      BY <1>12, <1>14, <2>1, ReadsNothing, PlaysQuiet
    <2>3. /\ k \in DOMAIN links' <=> k \in DOMAIN links
          /\ k \in DOMAIN links => links'[k] = links[k]
      BY <1>6, <1>14
    <2> QED
      BY <1>6, <1>11, <1>12, <2>1, <2>2, <2>3, PlaysKeptAt, SessionsAreTable
  <1>15. /\ l \in DOMAIN links' /\ links'[l].from = p /\ links'[l].to = q
         /\ links'[l].up /\ ~links'[l].accepted
    BY <1>5, <1>6
  <1>16. /\ NoSession.place = "none" /\ NoSession.out = <<>> /\ ~NoSession.active
    BY DEF NoSession
  <1>17. sessions'[p][l] = x /\ \A r \in Peer : r # p => sessions'[r][l] = NoSession
    <2>1. PrunedTo(x, sessions'[p][l])
      BY <1>8, <1>12, <1>13 DEF Finished
    <2> QED
      BY <1>4, <1>10, <1>13, <2>1 DEF PrunedTo, Finished
  <1>18. \A r \in Peer : wire'[r][l] = <<>>
    <2>1. sessions[p][l].place = "none"
      BY <1>10, <1>16
    <2> QED
      BY <1>8, <1>10, <1>13, <2>1 DEF Finished
  <1>19. OutInv(l)'
    <2>1. First(<<>>)
      BY DEF First
    <2> QED
      BY <1>4, <1>16, <1>17, <1>18, <2>1 DEF OutInv, Live
  <1>20. SentInv(l)'
    <2> SUFFICES ASSUME NEW u \in Peer, NEW v \in Peer, Joins(l, u, v)'
                 PROVE  /\ ~Has(wire'[v][l], "end")
                        /\ sessions'[v][l].out # <<>> => ~Left(u, l)'
      BY <1>15 DEF SentInv
    <2>1. (u = p /\ v = q) \/ (u = q /\ v = p)
      BY <1>15 DEF Joins
    <2>2. ~Left(q, l)'
      BY <1>7, <1>15 DEF Left
    <2> QED
      BY <1>7, <1>16, <1>17, <1>18, <2>1, <2>2, HasNone
  <1>21. HelloInv(l)'
    <2> SUFFICES ASSUME NEW a \in Peer, NEW b \in Peer, Made(l, a, b)'
                 PROVE  /\ links'[l].up /\ (~links'[l].accepted \/ sessions'[b][l].place = "connecting") =>
                              sessions'[a][l].place = "connecting"
                        /\ sessions'[a][l].out # <<>> =>
                              sessions'[b][l].place \in Starting /\ (links'[l].up => wire'[b][l] = <<>>)
                        /\ sessions'[b][l].out # <<>> =>
                              sessions'[a][l].place \in Starting /\ ~Has(wire'[a][l], "response")
                        /\ Has(wire'[b][l], "handshake") => sessions'[b][l].place \in Starting
                        /\ sessions'[b][l].place = "connecting" => sessions'[b][l].out = <<>>
      BY DEF HelloInv
    <2>1. a = p /\ b = q
      BY <1>15 DEF Made
    <2> QED
      BY <1>4, <1>7, <1>16, <1>17, <1>18, <2>1, HasNone DEF Starting
  <1>22. SilentInvAt(l)'
    BY <1>19, <1>20, <1>21 DEF SilentInvAt
  <1> QED
    BY <1>14, <1>22

\* Steps that leave the links, the sessions and what is on its way alone.
LEMMA QuietSilent ==
    ASSUME SilentInv, UNCHANGED asio
    PROVE  \A k \in Link : SilentInvAt(k)'
  <1>1. links' = links /\ sessions' = sessions /\ wire' = wire
    BY DEF asio
  <1> SUFFICES ASSUME NEW k \in Link PROVE SilentInvAt(k)'
    OBVIOUS
  <1>2. OutInv(k) /\ SentInv(k) /\ HelloInv(k)
    BY DEF SilentInv, SilentInvAt
  <1>3. OutInv(k)'
    BY <1>1, <1>2 DEF OutInv
  <1>4. SentInv(k)'
    BY <1>1, <1>2 DEF SentInv, Joins, Left
  <1>5. HelloInv(k)'
    BY <1>1, <1>2 DEF HelloInv, Made
  <1> QED
    BY <1>3, <1>4, <1>5 DEF SilentInvAt

LEMMA SilentInit == Init => SilentInv
  <1> SUFFICES ASSUME Init PROVE SilentInv
    OBVIOUS
  <1>1. \A p, q \in Peer : writes[p][q] = <<>>
    BY DEF Init
  <1>2. \A p \in Peer, l \in Link : sessions[p][l] = NoSession /\ wire[p][l] = <<>> /\ l \notin DOMAIN links
    BY DEF Init
  <1>3. NoSession.place = "none" /\ NoSession.out = <<>> /\ ~NoSession.active
    BY DEF NoSession
  <1>4. First(<<>>)
    BY DEF First
  <1>5. ASSUME NEW l \in Link PROVE SilentInvAt(l)
    <2>1. OutInv(l)
      BY <1>2, <1>3, <1>4 DEF OutInv, Live
    <2>2. SentInv(l) /\ HelloInv(l)
      BY <1>2 DEF SentInv, HelloInv, Joins, Made
    <2> QED
      BY <2>1, <2>2 DEF SilentInvAt
  <1> QED
    BY <1>1, <1>5 DEF SilentInv

\* Only a message that is sent waits to be written.
LEMMA SendsGrow ==
    ASSUME TypeOK, [Next]_vars, sends' = 0
    PROVE  /\ sends = 0
           /\ \A p, q \in Peer : writes[p][q] = <<>> => writes'[p][q] = <<>>
           /\ \A p \in Peer, q \in Peer, b \in Body : ~AppSend(p, q, b)
  <1>1. \A p \in Peer, q \in Peer, b \in Body : ~AppSend(p, q, b)
    <2>1. sends \in Nat
      BY DEF TypeOK
    <2> QED
      BY <2>1 DEF AppSend
  <1>2. CASE UNCHANGED <<writes, sends>>
    BY <1>1, <1>2
  <1>3. ASSUME NEW p \in Peer, ProcessWrites(p)
        PROVE  /\ sends = 0
               /\ \A r, q \in Peer : writes[r][q] = <<>> => writes'[r][q] = <<>>
    <2>1. writes' = [writes EXCEPT ![p] = [q \in Peer |-> <<>>]] /\ sends' = sends
      BY <1>3 DEF ProcessWrites, bounds
    <2>2. writes \in [Peer -> [Peer -> Seq(Body)]]
      BY DEF TypeOK
    <2> QED
      BY <2>1, <2>2
  <1>4. ASSUME NEW p \in Peer, AsioStep(p), ~ProcessWrites(p) PROVE UNCHANGED <<writes, sends>>
    BY <1>4 DEF AsioStep, AddConnections, ShutdownSession, Connected, Accept, WriteDone,
                Handshake, Response, Routed, ReadEnds, bounds
  <1>5. ASSUME NEW p \in Peer, NEW q \in Peer, AddHost(p, q) \/ RemoveHost(p, q) \/ ConnectFailed(p, q)
        PROVE UNCHANGED <<writes, sends>>
    BY <1>5 DEF AddHost, RemoveHost, ConnectFailed, bounds
  <1>6. ASSUME NEW p \in Peer, EnsureHosts(p) \/ TakeProcesses(p) \/ HandleAny(p)
        PROVE UNCHANGED <<writes, sends>>
    BY <1>6 DEF EnsureHosts, TakeProcesses, HandleAny, Handle, bounds
  <1>7. ASSUME NEW l \in Link, LinkLost(l) PROVE UNCHANGED <<writes, sends>>
    BY <1>7 DEF LinkLost
  <1>8. CASE NetworkStep
    <2>1. \A p \in Peer : Hosts[p] \subseteq Peer /\ Removable[p] \subseteq Peer
      BY PeerAssumption
    <2> QED
      BY <1>1, <1>2, <1>3, <1>4, <1>5, <1>6, <1>7, <1>8, <2>1 DEF NetworkStep
  <1>9. CASE UNCHANGED vars
    BY <1>2, <1>9 DEF vars
  <1> QED
    BY <1>1, <1>2, <1>5, <1>6, <1>8, <1>9 DEF Next

LEMMA SilentStep ==
    ASSUME PeerInv, TellInv, SilentInv, [Next]_vars, sends' = 0
    PROVE  SilentInv'
  <1>1. /\ (\A k \in Link : SilentInvAt(k)') => SilentInv'
        /\ \A p \in Peer, q \in Peer, b \in Body : ~AppSend(p, q, b)
    BY SendsGrow DEF SilentInv, PeerInv, NetInv
  <1>2. ASSUME UNCHANGED asio PROVE SilentInv'
    BY <1>1, <1>2, QuietSilent
  <1>3. ASSUME NEW p \in Peer, NEW q \in Peer, ConnectFailed(p, q) PROVE SilentInv'
    <2>1. Finish(p, sessions[p], <<>>, wire) /\ links' = links
      BY <1>3 DEF ConnectFailed
    <2> QED
      BY <1>1, <2>1, PlaysSame
  <1>4. ASSUME NEW p \in Peer, AsioStep(p) PROVE SilentInv'
    <2>1. ASSUME AddConnections(p) PROVE SilentInv'
      <3>1. Finish(p, sessions[p], <<>>, wire) /\ links' = links
        BY <2>1 DEF AddConnections
      <3> QED
        BY <1>1, <3>1, PlaysSame
    <2>2. ASSUME NEW q \in Peer, Connected(p, q) PROVE SilentInv'
      BY <1>1, <2>2, ConnectedSilent
    <2>3. ASSUME ShutdownSession(p) \/ ProcessWrites(p) PROVE SilentInv'
      BY <1>1, <2>3, ShutdownSessionSilent, ProcessWritesSilent
    <2>4. ASSUME NEW l \in Link, Accept(p, l) \/ WriteDone(p, l) PROVE SilentInv'
      BY <1>1, <2>4, AcceptSilent, WriteDoneSilent
    <2>5. ASSUME NEW l \in Link, Handshake(p, l) \/ Response(p, l) PROVE SilentInv'
      BY <1>1, <2>5, HandshakeSilent, ResponseSilent
    <2>6. ASSUME NEW l \in Link, Routed(p, l) \/ ReadEnds(p, l) PROVE SilentInv'
      BY <1>1, <2>6, RoutedSilent, ReadEndsSilent
    <2> QED
      BY <1>4, <2>1, <2>2, <2>3, <2>4, <2>5, <2>6 DEF AsioStep
  <1>5. ASSUME NEW p \in Peer, NEW q \in Peer, AddHost(p, q) \/ RemoveHost(p, q) PROVE SilentInv'
    BY <1>2, <1>5 DEF AddHost, RemoveHost
  <1>6. ASSUME NEW p \in Peer, EnsureHosts(p) \/ TakeProcesses(p) \/ HandleAny(p) PROVE SilentInv'
    BY <1>2, <1>6 DEF EnsureHosts, TakeProcesses, HandleAny, Handle
  <1>7. ASSUME NEW l \in Link, LinkLost(l) PROVE SilentInv'
    BY <1>1, <1>7, LinkLostSilent
  <1>8. CASE NetworkStep
    <2>1. \A p \in Peer : Hosts[p] \subseteq Peer /\ Removable[p] \subseteq Peer
      BY PeerAssumption
    <2> QED
      BY <1>4, <1>5, <1>6, <1>7, <1>8, <2>1 DEF NetworkStep
  <1>9. CASE UNCHANGED vars
    BY <1>2, <1>9 DEF vars, asio
  <1> QED
    BY <1>1, <1>3, <1>6, <1>8, <1>9 DEF Next

\* A session only stalls while something waits to be written.
LEMMA SilentAgree ==
    ASSUME PeerInv, TellInv, SilentInv
    PROVE  SessionsAgree
  <1>1. ASSUME Quiescent PROVE ~Stalled
    <2> SUFFICES ASSUME NEW p \in Peer, NEW l \in Link, sessions[p][l].place \in Live,
                        ~sessions[p][l].reading
                 PROVE  FALSE
      BY DEF Stalled, Live
    <2>1. sessions[p][l].out # <<>>
      BY DEF SilentInv, SilentInvAt, OutInv
    <2> QED
      BY <1>1, <2>1 DEF Quiescent
  <1> QED
    BY <1>1, AgreeIs DEF AgreeUnlessStalled, SessionsAgree

\* As long as no message has been sent, both ends of a link agree that it is the
\* session whenever nothing is under way, whichever hosts are added, removed and
\* lost.
THEOREM SessionsAgreeInSilence == Spec => [](sends = 0 => SessionsAgree)
  <1> DEFINE Inv == PeerInv /\ TellInv /\ (sends = 0 => SilentInv)
  <1>1. Init => Inv
    BY InitInv, TellInit, SilentInit
  <1>2. Inv /\ [Next]_vars => Inv'
    <2> SUFFICES ASSUME Inv, [Next]_vars PROVE Inv'
      OBVIOUS
    <2>1. PeerInv' /\ TellInv'
      BY NextInv, TellStep
    <2>2. ASSUME sends' = 0 PROVE SilentInv'
      <3>1. sends = 0
        BY <2>2, SendsGrow DEF PeerInv, NetInv
      <3> QED
        BY <2>2, <3>1, SilentStep
    <2> QED
      BY <2>1, <2>2
  <1>3. Inv => (sends = 0 => SessionsAgree)
    BY SilentAgree
  <1> QED
    BY <1>1, <1>2, <1>3, PTL DEF Spec
=============================================================================
