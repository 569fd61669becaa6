------------------------ MODULE ActorRouting_proofs ------------------------
(***************************************************************************)
(* Proofs about ActorRouting, for every set of clients and mailboxes: its    *)
(* types, a callback runs once and with its own answer, an actor receives a  *)
(* call once (ExecutedOnce), and the routing keeps RpcPromise.               *)
(*                                                                         *)
(* For the last two a call is followed as a token <<caller, number, state>>  *)
(* through every channel there is: the pipes, the queues, the launcher's     *)
(* outgoing list, what actors hold, and the two histories.  The invariant is *)
(* that a token is in one place, which no action sees as a whole: every      *)
(* action takes it from one place and puts it into at most one other.        *)
(***************************************************************************)
EXTENDS ActorRouting, SequenceTheorems, FiniteSetTheorems, TLAPS

LEMMA NoneNotOffice == Launcher \in Office /\ Client \subseteq Office
  BY DEF Office

-----------------------------------------------------------------------------
(* Routing operators keep to their types.                                   *)

Delivery == Office \X Envelope

LEMMA AppendEachType ==
  ASSUME NEW q \in Seq(Envelope), NEW ds \in SUBSET Delivery
  PROVE  AppendEach(q, ds) \in Seq(Envelope)
  BY DEF AppendEach, Delivery

LEMMA FullAddressType ==
  ASSUME TypeOK, NEW o \in Office, NEW box \in Box
  PROVE  FullAddress(o, box) \in Address
  <1>1. CASE o = Launcher
    BY <1>1 DEF FullAddress, Address, Office
  <1>2. CASE o # Launcher
    <2>1. o \in Client
      BY <1>2 DEF Office
    <2>2. profile[o] \in SUBSET Fact
      BY <2>1 DEF TypeOK
    <2>3. QED
      BY <1>2, <2>2 DEF FullAddress, Address
  <1>3. QED
    BY <1>1, <1>2

LEMMA ReplyToType ==
  ASSUME TypeOK, NEW m \in Envelope, NEW from \in Office, NEW status \in Status
  PROVE  ReplyTo(m, from, status) \in Envelope
  <1>1. m.addr.box \in Box
    BY DEF Envelope, Address
  <1>2. FullAddress(from, m.addr.box) \in Address
    BY <1>1, FullAddressType
  <1>3. QED
    BY <1>2 DEF ReplyTo, Envelope

LEMMA FillAddressType ==
  ASSUME TypeOK, NEW m \in Envelope, NEW o \in Office
  PROVE  FillAddress(m, o) \in Envelope
  <1>1. (IF o = Launcher THEN {} ELSE identity[o]) \in SUBSET Fact
    BY DEF TypeOK, Office
  <1>2. m.addr \in Address
    BY DEF Envelope
  <1>3. [m.addr EXCEPT !.uuid = o, !.pid = o,
                       !.who = IF o = Launcher THEN "launcher" ELSE "client",
                       !.facts = IF o = Launcher THEN {} ELSE identity[o]] \in Address
    BY <1>1, <1>2 DEF Address
  <1>4. QED
    BY <1>3 DEF FillAddress, Envelope

LEMMA RecipientsType ==
  ASSUME TypeOK, NEW addr
  PROVE  Recipients(addr) \subseteq Office
  BY DEF Recipients, Office, TypeOK

LEMMA FailedType ==
  ASSUME TypeOK, NEW m \in Envelope, NEW status \in Status
  PROVE  Failed(m, status) \subseteq Delivery
  <1> DEFINE r == ReplyTo(m, Launcher, status)
  <1>1. r \in Envelope
    BY NoneNotOffice, ReplyToType
  <1>2. Recipients(r.addr) \subseteq Office
    BY RecipientsType
  <1>3. QED
    BY <1>1, <1>2 DEF Failed, Delivery

LEMMA SendMessageType ==
  ASSUME TypeOK, NEW o \in Office, NEW m \in Envelope
  PROVE  SendMessage(o, m) \subseteq Delivery
  <1>1. /\ Failed(m, "RoutingFailed") \subseteq Delivery
        /\ Failed(m, "NoConnection") \subseteq Delivery
    BY FailedType DEF Status
  <1>2. <<o, m>> \in Delivery
    BY DEF Delivery
  <1>3. QED
    BY <1>1, <1>2 DEF SendMessage

LEMMA SendToAllType ==
  ASSUME TypeOK, NEW m \in Envelope, NEW recipients \in SUBSET Office
  PROVE  SendToAll(m, recipients) \subseteq Delivery
  <1>1. /\ Failed(m, "RoutingFailed") \subseteq Delivery
        /\ Failed(m, "Ambiguous") \subseteq Delivery
    BY FailedType DEF Status
  <1>2. \A o \in recipients : SendMessage(o, FillAddress(m, o)) \subseteq Delivery
    BY FillAddressType, SendMessageType
  <1>3. QED
    BY <1>1, <1>2 DEF SendToAll

LEMMA RouteFromConnectionType ==
  ASSUME TypeOK, NEW m \in Envelope
  PROVE  RouteFromConnection(m) \subseteq Delivery
  <1>1. SendMessage(Launcher, m) \subseteq Delivery
    BY NoneNotOffice, SendMessageType
  <1>2. /\ SendToAll(m, Recipients(LocalAddress(m.addr))) \subseteq Delivery
        /\ SendToAll(m, Recipients(m.addr)) \subseteq Delivery
    BY RecipientsType, SendToAllType
  <1>3. QED
    BY <1>1, <1>2 DEF RouteFromConnection

LEMMA ProcessOutgoingMessageType ==
  ASSUME TypeOK, NEW m \in Envelope
  PROVE  ProcessOutgoingMessage(m) \subseteq Delivery
  BY RecipientsType, SendToAllType DEF ProcessOutgoingMessage

\* A set of deliveries leaves pipes and mailboxes well typed.
LEMMA DeliverType ==
  ASSUME TypeOK, NEW sent \in SUBSET Delivery, Deliver(sent)
  PROVE  /\ down' \in [Client -> Seq(Envelope)]
         /\ mail' \in [Office -> [Box -> Seq(Envelope)]]
  <1>1. ASSUME NEW c \in Client
        PROVE  AppendEach(down[c], Received(c, sent)) \in Seq(Envelope)
    <2>1. down[c] \in Seq(Envelope) /\ Received(c, sent) \in SUBSET Delivery
      BY DEF TypeOK, Received
    <2>2. QED
      BY <2>1, AppendEachType
  <1>2. down' \in [Client -> Seq(Envelope)]
    BY <1>1 DEF Deliver, DownAfter
  <1> DEFINE Here(b) == {d \in sent : d[1] = Launcher /\ d[2].addr.box = b}
  <1>3. ASSUME NEW b \in Box
        PROVE  AppendEach(mail[Launcher][b], Here(b)) \in Seq(Envelope)
    <2>1. mail[Launcher][b] \in Seq(Envelope) /\ Here(b) \in SUBSET Delivery
      BY NoneNotOffice DEF TypeOK
    <2>2. QED
      BY <2>1, AppendEachType
  <1>4. mail' = [mail EXCEPT ![Launcher] = [b \in Box |-> AppendEach(mail[Launcher][b], Here(b))]]
    BY DEF Deliver, LauncherMailAfter
  <1>5. [b \in Box |-> AppendEach(mail[Launcher][b], Here(b))] \in [Box -> Seq(Envelope)]
    BY <1>3
  <1>6. mail \in [Office -> [Box -> Seq(Envelope)]]
    BY DEF TypeOK
  <1> HIDE DEF Here
  <1>7. QED
    BY <1>2, <1>4, <1>5, <1>6

-----------------------------------------------------------------------------
(* A client's routing keeps to its types.                                   *)

LEMMA PipeMessageKinds ==
  ASSUME NEW x \in PipeMessage
  PROVE  /\ x.kind = "route" => x.env \in Envelope
         /\ x.kind = "identification" => x.facts \in SUBSET Fact
  BY DEF PipeMessage, Identification, Route, Closed

LEMMA WritePipeType ==
  ASSUME TypeOK, NEW c \in Client, NEW x \in PipeMessage
  PROVE  WritePipe(c, x) \in [Client -> Seq(PipeMessage)]
  BY DEF TypeOK, WritePipe

LEMMA EnqueueType ==
  ASSUME TypeOK, NEW o \in Office, NEW m \in Envelope
  PROVE  Enqueue(o, m) \in [Office -> [Box -> Seq(Envelope)]]
  <1>1. m.addr.box \in Box
    BY DEF Envelope, Address
  <1>2. mail \in [Office -> [Box -> Seq(Envelope)]]
    BY DEF TypeOK
  <1>3. Append(mail[o][m.addr.box], m) \in Seq(Envelope)
    BY <1>1, <1>2
  <1>4. QED
    BY <1>1, <1>2, <1>3 DEF Enqueue

LEMMA RouteInPipe ==
  ASSUME NEW m \in Envelope
  PROVE  [kind |-> "route", env |-> m] \in PipeMessage
  BY DEF PipeMessage, Route

LEMMA ClientReplyType ==
  ASSUME TypeOK, NEW c \in Client, NEW r \in Envelope, ClientReply(c, r)
  PROVE  /\ mail' \in [Office -> [Box -> Seq(Envelope)]]
         /\ up' \in [Client -> Seq(PipeMessage)]
  <1>1. /\ mail \in [Office -> [Box -> Seq(Envelope)]]
        /\ up \in [Client -> Seq(PipeMessage)]
    BY DEF TypeOK
  <1>2. Enqueue(c, r) \in [Office -> [Box -> Seq(Envelope)]]
    BY NoneNotOffice, EnqueueType
  <1>3. WritePipe(c, [kind |-> "route", env |-> r]) \in [Client -> Seq(PipeMessage)]
    BY RouteInPipe, WritePipeType
  <1>4. QED
    BY <1>1, <1>2, <1>3 DEF ClientReply

LEMMA ArriveType ==
  ASSUME TypeOK, NEW c \in Client, NEW m \in Envelope, Arrive(c, m)
  PROVE  /\ mail' \in [Office -> [Box -> Seq(Envelope)]]
         /\ up' \in [Client -> Seq(PipeMessage)]
  <1>1. up \in [Client -> Seq(PipeMessage)]
    BY DEF TypeOK
  <1>2. Enqueue(c, m) \in [Office -> [Box -> Seq(Envelope)]]
    BY NoneNotOffice, EnqueueType
  <1>3. Refusal(c, m) \in Status
    BY DEF Refusal, Status
  <1>4. ReplyTo(m, c, Refusal(c, m)) \in Envelope
    BY <1>3, NoneNotOffice, ReplyToType
  <1>5. CASE m.mode = "call" /\ Refusal(c, m) # "ok"
    BY <1>4, <1>5, ClientReplyType DEF Arrive
  <1>6. CASE ~ (m.mode = "call" /\ Refusal(c, m) # "ok")
    BY <1>1, <1>2, <1>6 DEF Arrive
  <1>7. QED
    BY <1>5, <1>6

-----------------------------------------------------------------------------
(* Type correctness: one step for the initial states, one for each action.  *)

LEMMA InitType == Init => TypeOK
  <1>1. ASSUME Init PROVE profile \in [Client -> SUBSET Fact]
    BY <1>1 DEF Init
  <1>2. QED
    BY <1>1, OfficeAssumption DEF Init, TypeOK, Office

LEMMA RegisterType ==
  ASSUME TypeOK, NEW o \in Office, NEW mode, Register(o, mode)
  PROVE  nextSeq' \in [Office -> Nat] /\ pending' \in [Office -> SUBSET Nat]
  BY DEF TypeOK, Register

LEMMA NewEnvelopeType ==
  ASSUME TypeOK, NEW o \in Office, NEW mode \in Modes, NEW addr \in Targets, NEW box \in Box
  PROVE  NewEnvelope(o, mode, addr, box) \in Envelope
  <1>1. mode \in {"message", "call", "reply"} /\ addr \in Address
    BY OfficeAssumption, TargetsAssumption
  <1>2. FullAddress(o, box) \in Address
    BY FullAddressType
  <1>3. nextSeq[o] + 1 \in Nat
    BY DEF TypeOK
  <1>4. QED
    BY <1>1, <1>2, <1>3 DEF NewEnvelope, Envelope, Status

LEMMA ClientStepType ==
  ASSUME TypeOK, NEW c \in Client, ClientStep(c)
  PROVE  TypeOK'
  <1> USE NoneNotOffice
  <1>1. ASSUME NEW p \in Profiles[c], ChangeProfile(c, p) PROVE TypeOK'
    <2>1. p \in SUBSET Fact
      BY OfficeAssumption
    <2>2. profile' \in [Client -> SUBSET Fact] /\ changes' \in Nat
      BY <1>1, <2>1 DEF TypeOK, ChangeProfile
    <2>3. QED
      BY <1>1, <2>2 DEF TypeOK, ChangeProfile, net, dir
  <1>2. ASSUME NEW inWorld \in BOOLEAN, SetGameState(c, inWorld) PROVE TypeOK'
    <2>1. [kind |-> "identification", facts |-> profile[c]] \in PipeMessage
      BY DEF TypeOK, PipeMessage, Identification
    <2>2. up' \in [Client -> Seq(PipeMessage)]
      BY <1>2, <2>1, WritePipeType DEF SetGameState
    <2>3. loggedIn' \in [Client -> BOOLEAN]
      BY <1>2 DEF TypeOK, SetGameState
    <2>4. changes' \in Nat
      BY <1>2 DEF TypeOK, SetGameState
    <2>5. QED
      BY <1>2, <2>2, <2>3, <2>4 DEF TypeOK, SetGameState, dir
  <1>3. ASSUME Connect(c) PROVE TypeOK'
    <2>1. [kind |-> "identification", facts |-> profile[c]] \in PipeMessage
      BY DEF TypeOK, PipeMessage, Identification
    <2>2. up' \in [Client -> Seq(PipeMessage)]
      BY <1>3, <2>1 DEF TypeOK, Connect
    <2>3. (loggedIn[c] \/ profile[c] \cap CharacterFact # {}) \in BOOLEAN
      OBVIOUS
    <2>4. loggedIn' \in [Client -> BOOLEAN]
      BY <1>3, <2>3 DEF TypeOK, Connect
    <2>5. QED
      BY <1>3, <2>2, <2>4 DEF TypeOK, Connect, dir
  <1>4. ASSUME NEW mode \in Modes, NEW addr \in Targets, NEW b \in boxes[c],
               ClientPost(c, mode, addr, b)
        PROVE  TypeOK'
    <2> DEFINE m == NewEnvelope(c, mode, addr, b)
    <2>1. m \in Envelope
      BY NewEnvelopeType DEF TypeOK
    <2>2. nextSeq' \in [Office -> Nat] /\ pending' \in [Office -> SUBSET Nat]
      BY <1>4, RegisterType DEF ClientPost
    <2>3. mail' \in [Office -> [Box -> Seq(Envelope)]] /\ up' \in [Client -> Seq(PipeMessage)]
      <3>1. CASE addr.uuid = c
        BY <1>4, <2>1, <3>1, ArriveType DEF ClientPost
      <3>2. CASE addr.uuid # c
        <4>1. up' = WritePipe(c, [kind |-> "route", env |-> m]) /\ mail' = mail
          BY <1>4, <3>2 DEF ClientPost
        <4>2. QED
          BY <2>1, <4>1, RouteInPipe, WritePipeType DEF TypeOK
      <3>3. QED
        BY <3>1, <3>2
    <2>4. QED
      BY <1>4, <2>2, <2>3 DEF TypeOK, ClientPost, dir, game
  <1>5. ASSUME ClientReceive(c) PROVE TypeOK'
    <2>1. Head(down[c]) \in Envelope /\ Tail(down[c]) \in Seq(Envelope)
      BY <1>5 DEF TypeOK, ClientReceive
    <2>2. mail' \in [Office -> [Box -> Seq(Envelope)]] /\ up' \in [Client -> Seq(PipeMessage)]
      BY <1>5, <2>1, ArriveType DEF ClientReceive
    <2>3. QED
      BY <1>5, <2>1, <2>2 DEF TypeOK, ClientReceive, dir, game
  <1>6. ASSUME NEW b \in Box, RemoveMailbox(c, b) PROVE TypeOK'
    <2>1. mail' \in [Office -> [Box -> Seq(Envelope)]] /\ boxes' \in [Office -> SUBSET Box]
      BY <1>6 DEF TypeOK, RemoveMailbox
    <2>2. QED
      BY <1>6, <2>1 DEF TypeOK, RemoveMailbox, net, dir, game
  <1>7. ASSUME NEW b \in Box, RegisterAddress(c, b) PROVE TypeOK'
    BY <1>7 DEF TypeOK, RegisterAddress, net, dir, game
  <1>8. ASSUME Crash(c) PROVE TypeOK'
    <2>1. pipe' \in [Client -> {"down", "up", "broken", "closed", "gone"}]
      BY <1>8 DEF TypeOK, Crash
    <2>2. mail' \in [Office -> [Box -> Seq(Envelope)]]
      BY <1>8 DEF TypeOK, Crash
    <2>3. /\ pending' \in [Office -> SUBSET Nat] /\ held' \in [Office -> SUBSET Envelope]
          /\ down' \in [Client -> Seq(Envelope)]
      BY <1>8 DEF TypeOK, Crash
    <2>4. QED
      BY <1>8, <2>1, <2>2, <2>3 DEF TypeOK, Crash, dir, game
  <1>9. QED
    BY <1>1, <1>2, <1>3, <1>4, <1>5, <1>6, <1>7, <1>8 DEF ClientStep

LEMMA LauncherStepType ==
  ASSUME TypeOK, LauncherStep
  PROVE  TypeOK'
  <1> USE NoneNotOffice
  <1>1. ASSUME NEW mode \in Modes, NEW addr \in Targets, NEW b \in boxes[Launcher],
               LauncherPost(mode, addr, b)
        PROVE  TypeOK'
    <2>1. NewEnvelope(Launcher, mode, addr, b) \in Envelope
      BY NewEnvelopeType DEF TypeOK
    <2>2. nextSeq' \in [Office -> Nat] /\ pending' \in [Office -> SUBSET Nat]
      BY <1>1, RegisterType DEF LauncherPost
    <2>3. outgoing' \in Seq(Envelope)
      BY <1>1, <2>1 DEF TypeOK, LauncherPost
    <2>4. QED
      BY <1>1, <2>2, <2>3 DEF TypeOK, LauncherPost, dir, game
  <1>2. ASSUME ProcessOutgoing PROVE TypeOK'
    <2>1. Head(outgoing) \in Envelope /\ Tail(outgoing) \in Seq(Envelope)
      BY <1>2 DEF TypeOK, ProcessOutgoing
    <2>2. /\ down' \in [Client -> Seq(Envelope)]
          /\ mail' \in [Office -> [Box -> Seq(Envelope)]]
      BY <1>2, <2>1, ProcessOutgoingMessageType, DeliverType DEF ProcessOutgoing
    <2>3. QED
      BY <1>2, <2>1, <2>2 DEF TypeOK, ProcessOutgoing, dir, game
  <1>3. ASSUME NEW c \in Client, LauncherRoute(c) PROVE TypeOK'
    <2>1. Head(up[c]) \in PipeMessage /\ Tail(up[c]) \in Seq(PipeMessage)
      BY <1>3 DEF TypeOK, LauncherRoute
    <2>2. Head(up[c]).env \in Envelope
      BY <1>3, <2>1, PipeMessageKinds DEF LauncherRoute
    <2>3. /\ down' \in [Client -> Seq(Envelope)]
          /\ mail' \in [Office -> [Box -> Seq(Envelope)]]
      BY <1>3, <2>2, RouteFromConnectionType, DeliverType DEF LauncherRoute
    <2>4. QED
      BY <1>3, <2>1, <2>3 DEF TypeOK, LauncherRoute, dir, game
  <1>4. ASSUME NEW c \in Client, LauncherIdentify(c) PROVE TypeOK'
    <2>1. Head(up[c]) \in PipeMessage /\ Tail(up[c]) \in Seq(PipeMessage)
      BY <1>4 DEF TypeOK, LauncherIdentify
    <2>2. Head(up[c]).facts \in SUBSET Fact
      BY <1>4, <2>1, PipeMessageKinds DEF LauncherIdentify
    <2>3. QED
      BY <1>4, <2>1, <2>2 DEF TypeOK, LauncherIdentify, game
  <1>5. ASSUME NEW c \in Client, LauncherClosed(c) PROVE TypeOK'
    <2>1. Tail(up[c]) \in Seq(PipeMessage)
      BY <1>5 DEF TypeOK, LauncherClosed
    <2>2. QED
      BY <1>5, <2>1 DEF TypeOK, LauncherClosed, game
  <1>6. ASSUME NEW c \in Client, PipeClosed(c) PROVE TypeOK'
    <2>1. [kind |-> "closed"] \in PipeMessage
      BY DEF PipeMessage, Closed
    <2>2. up' \in [Client -> Seq(PipeMessage)]
      BY <1>6, <2>1 DEF TypeOK, PipeClosed
    <2>3. QED
      BY <1>6, <2>2 DEF TypeOK, PipeClosed, dir, game
  <1>7. QED
    BY <1>1, <1>2, <1>3, <1>4, <1>5, <1>6 DEF LauncherStep

LEMMA MailboxStepType ==
  ASSUME TypeOK, NEW o \in Office, MailboxStep(o)
  PROVE  TypeOK'
  <1> USE NoneNotOffice
  <1>1. ASSUME NEW b \in Box, ProcessReply(o, b) PROVE TypeOK'
    <2>1. Head(mail[o][b]) \in Envelope /\ Tail(mail[o][b]) \in Seq(Envelope)
      BY <1>1 DEF TypeOK, ProcessReply
    <2>2. mail' \in [Office -> [Box -> Seq(Envelope)]]
      BY <1>1, <2>1 DEF TypeOK, ProcessReply
    <2> DEFINE r == Head(mail[o][b])
               a == [seq |-> r.seq, caller |-> r.of, status |-> r.status]
    <2>3. a \in [seq : Nat, caller : Office, status : Status]
      BY <2>1 DEF Envelope
    <2>4. /\ answers' \in [Office -> Seq([seq : Nat, caller : Office, status : Status])]
          /\ pending' \in [Office -> SUBSET Nat]
      <3>1. CASE r.seq \in pending[o]
        <4>1. answers[o] \in Seq([seq : Nat, caller : Office, status : Status])
          BY DEF TypeOK
        <4>2. Append(answers[o], a) \in Seq([seq : Nat, caller : Office, status : Status])
          BY <2>3, <4>1
        <4>3. answers' = [answers EXCEPT ![o] = Append(answers[o], a)]
          BY <1>1, <3>1 DEF ProcessReply
        <4>4. pending' = [pending EXCEPT ![o] = pending[o] \ {r.seq}]
          BY <1>1, <3>1 DEF ProcessReply, EraseRequest
        <4> HIDE DEF a, r
        <4>5. QED
          BY <4>2, <4>3, <4>4 DEF TypeOK
      <3>2. CASE r.seq \notin pending[o]
        BY <1>1, <3>2 DEF TypeOK, ProcessReply
      <3>3. QED
        BY <3>1, <3>2
    <2>5. QED
      BY <1>1, <2>2, <2>4 DEF TypeOK, ProcessReply, net, dir, game
  <1>2. ASSUME NEW b \in Box, ProcessMessage(o, b) PROVE TypeOK'
    <2>1. Head(mail[o][b]) \in Envelope /\ Tail(mail[o][b]) \in Seq(Envelope)
      BY <1>2 DEF TypeOK, ProcessMessage
    <2>2. mail' \in [Office -> [Box -> Seq(Envelope)]]
      BY <1>2, <2>1 DEF TypeOK, ProcessMessage
    <2> DEFINE m == Head(mail[o][b])
               e == [caller |-> m.of, seq |-> m.seq, at |-> o]
    <2>3. e \in [caller : Office, seq : Nat, at : Office]
      BY <2>1 DEF Envelope
    <2>4. /\ held' \in [Office -> SUBSET Envelope]
          /\ executed' \in Seq([caller : Office, seq : Nat, at : Office])
      <3>1. CASE m.mode = "call"
        <4>1. executed' = Append(executed, e) /\ held' = [held EXCEPT ![o] = @ \cup {m}]
          BY <1>2, <3>1 DEF ProcessMessage
        <4>2. executed' \in Seq([caller : Office, seq : Nat, at : Office])
          BY <2>3, <4>1 DEF TypeOK
        <4>3. held' \in [Office -> SUBSET Envelope]
          BY <2>1, <4>1 DEF TypeOK
        <4>4. QED
          BY <4>2, <4>3
      <3>2. CASE m.mode # "call"
        BY <1>2, <3>2 DEF TypeOK, ProcessMessage
      <3>3. QED
        BY <3>1, <3>2
    <2>5. QED
      BY <1>2, <2>2, <2>4 DEF TypeOK, ProcessMessage, net, dir, game
  <1>3. ASSUME NEW m \in held[o], Answer(o, m) PROVE TypeOK'
    <2>1. m \in Envelope
      BY DEF TypeOK
    <2> DEFINE r == ReplyTo(m, o, "ok")
    <2>2. r \in Envelope
      BY <2>1, ReplyToType DEF Status
    <2>3. held' \in [Office -> SUBSET Envelope]
      BY <1>3 DEF TypeOK, Answer
    <2>4. /\ mail' \in [Office -> [Box -> Seq(Envelope)]]
          /\ up' \in [Client -> Seq(PipeMessage)]
          /\ down' \in [Client -> Seq(Envelope)]
      <3>1. CASE UNCHANGED <<mail, up, down>>
        BY <3>1 DEF TypeOK
      <3>2. CASE Deliver(ProcessOutgoingMessage(r)) /\ UNCHANGED up
        BY <2>2, <3>2, ProcessOutgoingMessageType, DeliverType DEF TypeOK
      <3>3. CASE o # Launcher /\ ClientReply(o, r) /\ UNCHANGED down
        <4>1. o \in Client
          BY <3>3 DEF Office
        <4>2. QED
          BY <2>2, <3>3, <4>1, ClientReplyType DEF TypeOK
      <3>4. QED
        BY <1>3, <3>1, <3>2, <3>3 DEF Answer
    <2>5. QED
      BY <1>3, <2>3, <2>4 DEF TypeOK, Answer, dir, game
  <1>4. QED
    BY <1>1, <1>2, <1>3 DEF MailboxStep

LEMMA NextType == TypeOK /\ [Next]_vars => TypeOK'
  <1>1. CASE UNCHANGED vars
    BY <1>1 DEF vars, TypeOK
  <1>2. QED
    BY <1>1, ClientStepType, LauncherStepType, MailboxStepType DEF Next

\* Every reachable state is well typed: the routing only ever builds envelopes
\* with complete addresses, and every queue holds nothing else.
THEOREM TypeCorrect == Spec => []TypeOK
  BY InitType, NextType, PTL DEF Spec

-----------------------------------------------------------------------------
(***************************************************************************)
(* The callback of a call runs at most once.  By itself this is not        *)
(* inductive: a reply that comes late or twice is refused because its      *)
(* sequence has left m_rpcRequests for good, that is, because numbers are  *)
(* not used again.                                                         *)
(***************************************************************************)
PendingIsNumbered(o) == \A n \in pending[o] : n <= nextSeq[o]

AnsweredIsErased(o) ==
    \A i \in DOMAIN answers[o] :
        answers[o][i].seq <= nextSeq[o] /\ answers[o][i].seq \notin pending[o]

OncePerSequence(o) ==
    \A i, j \in DOMAIN answers[o] : answers[o][i].seq = answers[o][j].seq => i = j

CallbackInv ==
    \A o \in Office : PendingIsNumbered(o) /\ AnsweredIsErased(o) /\ OncePerSequence(o)

\* What an office that numbers no message and runs no callback keeps.
LEMMA OfficeUndisturbed ==
  ASSUME CallbackInv, NEW o \in Office,
         nextSeq'[o] = nextSeq[o], pending'[o] \subseteq pending[o], answers'[o] = answers[o]
  PROVE  (PendingIsNumbered(o) /\ AnsweredIsErased(o) /\ OncePerSequence(o))'
  BY DEF CallbackInv, PendingIsNumbered, AnsweredIsErased, OncePerSequence

LEMMA CallbackInvUndisturbed ==
  ASSUME CallbackInv, UNCHANGED <<nextSeq, pending, answers>>
  PROVE  CallbackInv'
  BY DEF CallbackInv, PendingIsNumbered, AnsweredIsErased, OncePerSequence

LEMMA SeqElement ==
  ASSUME NEW S, NEW q \in Seq(S), NEW i \in DOMAIN q
  PROVE  q[i] \in S
  OBVIOUS

LEMMA AnswerSeqType ==
  ASSUME TypeOK, NEW o \in Office, NEW i \in DOMAIN answers[o]
  PROVE  answers[o][i].seq \in Nat
  <1>1. answers[o] \in Seq([seq : Nat, caller : Office, status : Status])
    BY DEF TypeOK
  <1>2. answers[o][i] \in [seq : Nat, caller : Office, status : Status]
    BY <1>1, SeqElement
  <1>3. QED
    BY <1>2

\* A new number is above every number that was used.
LEMMA CallbackInvRegister ==
  ASSUME TypeOK, CallbackInv, NEW p \in Office, NEW mode, Register(p, mode), UNCHANGED answers
  PROVE  CallbackInv'
  <1>1. SUFFICES ASSUME NEW o \in Office
                 PROVE  (PendingIsNumbered(o) /\ AnsweredIsErased(o) /\ OncePerSequence(o))'
    BY DEF CallbackInv
  <1>2. PendingIsNumbered(o) /\ AnsweredIsErased(o) /\ OncePerSequence(o)
    BY DEF CallbackInv
  <1>3. nextSeq[o] \in Nat /\ pending[o] \subseteq Nat
    BY DEF TypeOK
  <1>4. \A i \in DOMAIN answers[o] : answers[o][i].seq \in Nat
    BY AnswerSeqType
  <1>5. CASE o # p
    BY <1>5, OfficeUndisturbed DEF Register, TypeOK
  <1>6. CASE o = p
    <2>1. /\ nextSeq'[o] = nextSeq[o] + 1
          /\ pending'[o] \subseteq pending[o] \cup {nextSeq[o] + 1}
      BY <1>6 DEF Register, TypeOK
    <2>2. QED
      BY <1>2, <1>3, <1>4, <2>1
      DEF PendingIsNumbered, AnsweredIsErased, OncePerSequence
  <1>7. QED
    BY <1>5, <1>6

\* A callback runs for a pending number, which is then erased.
LEMMA CallbackInvReply ==
  ASSUME TypeOK, CallbackInv, NEW p \in Office, NEW b \in Box, ProcessReply(p, b)
  PROVE  CallbackInv'
  <1> DEFINE r == Head(mail[p][b])
             a == [seq |-> r.seq, caller |-> r.of, status |-> r.status]
  <1>1. CASE r.seq \notin pending[p]
    <2>1. UNCHANGED <<nextSeq, pending, answers>>
      BY <1>1 DEF ProcessReply
    <2>2. QED
      BY <2>1, CallbackInvUndisturbed
  <1>2. CASE r.seq \in pending[p]
    <2>1. /\ nextSeq' = nextSeq
          /\ answers' = [answers EXCEPT ![p] = Append(answers[p], a)]
          /\ pending' = [pending EXCEPT ![p] = pending[p] \ {r.seq}]
      BY <1>2 DEF ProcessReply, EraseRequest
    <2>2. a.seq = r.seq
      OBVIOUS
    <2> HIDE DEF a, r
    <2>3. SUFFICES ASSUME NEW o \in Office
                   PROVE  (PendingIsNumbered(o) /\ AnsweredIsErased(o) /\ OncePerSequence(o))'
      BY DEF CallbackInv
    <2>4. CASE o # p
      BY <2>1, <2>4, OfficeUndisturbed DEF TypeOK
    <2>5. CASE o = p
      <3>1. PendingIsNumbered(p) /\ AnsweredIsErased(p) /\ OncePerSequence(p)
        BY DEF CallbackInv
      <3>2. /\ answers'[p] = Append(answers[p], a) /\ pending'[p] = pending[p] \ {a.seq}
            /\ nextSeq'[p] = nextSeq[p]
        BY <2>1, <2>2 DEF TypeOK
      <3>3. answers[p] \in Seq([seq : Nat, caller : Office, status : Status])
        BY DEF TypeOK
      <3>4. \A i \in DOMAIN answers'[p] :
                \/ i \in DOMAIN answers[p] /\ answers'[p][i] = answers[p][i]
                \/ i = Len(answers[p]) + 1 /\ answers'[p][i] = a
        BY <3>2, <3>3
      <3>5. a.seq \in pending[p] /\ a.seq <= nextSeq[p]
        BY <1>2, <2>2, <3>1 DEF PendingIsNumbered
      <3>6. QED
        BY <2>5, <3>1, <3>2, <3>4, <3>5
        DEF PendingIsNumbered, AnsweredIsErased, OncePerSequence
    <2>6. QED
      BY <2>4, <2>5
  <1>3. QED
    BY <1>1, <1>2

LEMMA CallbackInvCrash ==
  ASSUME TypeOK, CallbackInv, NEW c \in Client, Crash(c)
  PROVE  CallbackInv'
  <1>1. SUFFICES ASSUME NEW o \in Office
                 PROVE  (PendingIsNumbered(o) /\ AnsweredIsErased(o) /\ OncePerSequence(o))'
    BY DEF CallbackInv
  <1>2. nextSeq' = nextSeq /\ answers' = answers /\ pending'[o] \subseteq pending[o]
    BY DEF Crash, TypeOK
  <1>3. QED
    BY <1>2, OfficeUndisturbed

LEMMA CallbackInvInit == Init => CallbackInv
  BY DEF Init, CallbackInv, PendingIsNumbered, AnsweredIsErased, OncePerSequence

LEMMA CallbackInvNext == TypeOK /\ CallbackInv /\ [Next]_vars => CallbackInv'
  <1> SUFFICES ASSUME TypeOK, CallbackInv, [Next]_vars PROVE CallbackInv'
    OBVIOUS
  <1> USE NoneNotOffice
  <1>1. CASE UNCHANGED vars
    BY <1>1, CallbackInvUndisturbed DEF vars
  <1>2. ASSUME NEW c \in Client, ClientStep(c) PROVE CallbackInv'
    <2>1. ASSUME NEW mode, NEW addr, NEW b, ClientPost(c, mode, addr, b) PROVE CallbackInv'
      BY <2>1, CallbackInvRegister DEF ClientPost
    <2>2. CASE Crash(c)
      BY <2>2, CallbackInvCrash
    <2>3. CASE UNCHANGED <<nextSeq, pending, answers>>
      BY <2>3, CallbackInvUndisturbed
    <2>4. QED
      BY <1>2, <2>1, <2>2, <2>3
      DEF ClientStep, ChangeProfile, SetGameState, Connect, ClientReceive, RemoveMailbox,
          RegisterAddress
  <1>3. ASSUME LauncherStep PROVE CallbackInv'
    <2>1. ASSUME NEW mode, NEW addr, NEW b, LauncherPost(mode, addr, b) PROVE CallbackInv'
      BY <2>1, CallbackInvRegister DEF LauncherPost
    <2>2. CASE UNCHANGED <<nextSeq, pending, answers>>
      BY <2>2, CallbackInvUndisturbed
    <2>3. QED
      BY <1>3, <2>1, <2>2
      DEF LauncherStep, ProcessOutgoing, LauncherRoute, LauncherIdentify, LauncherClosed,
          PipeClosed
  <1>4. ASSUME NEW o \in Office, MailboxStep(o) PROVE CallbackInv'
    <2>1. CASE \E b \in Box : ProcessReply(o, b)
      BY <2>1, CallbackInvReply
    <2>2. CASE UNCHANGED <<nextSeq, pending, answers>>
      BY <2>2, CallbackInvUndisturbed
    <2>3. QED
      BY <1>4, <2>1, <2>2 DEF MailboxStep, ProcessMessage, Answer
  <1>5. QED
    BY <1>1, <1>2, <1>3, <1>4 DEF Next

LEMMA CallbackInvImplies == CallbackInv => CallbackOnce
  BY DEF CallbackInv, OncePerSequence, CallbackOnce

\* A callback runs at most once, for any number of clients, mailboxes and late
\* or repeated replies.
THEOREM CallbackOnceCorrect == Spec => []CallbackOnce
  <1>1. Init => TypeOK /\ CallbackInv
    BY InitType, CallbackInvInit
  <1>2. TypeOK /\ CallbackInv /\ [Next]_vars => (TypeOK /\ CallbackInv)'
    BY NextType, CallbackInvNext
  <1>3. QED
    BY <1>1, <1>2, CallbackInvImplies, PTL DEF Spec

-----------------------------------------------------------------------------
(***************************************************************************)
(* A callback only gets the reply to its own call.  A reply is matched by  *)
(* its address alone, so what must hold is that the address of every reply *)
(* and the return address of every message under way name their caller,    *)
(* and that nobody else matches them: the launcher forgets uuid and pid    *)
(* (LocalAddress), what is left is the profile.                            *)
(***************************************************************************)

\* Where the elements of a sequence come from when one is added or taken.
LEMMA AppendPlaces ==
  ASSUME NEW S, NEW s \in Seq(S), NEW e \in S
  PROVE  /\ Append(s, e) \in Seq(S) /\ DOMAIN Append(s, e) = 1..(Len(s) + 1)
         /\ \A i \in DOMAIN Append(s, e) :
                \/ i \in DOMAIN s /\ Append(s, e)[i] = s[i]
                \/ i = Len(s) + 1 /\ Append(s, e)[i] = e
  OBVIOUS

LEMMA TailPlaces ==
  ASSUME NEW S, NEW s \in Seq(S), s # <<>>
  PROVE  /\ Tail(s) \in Seq(S) /\ 1 \in DOMAIN s /\ Head(s) = s[1]
         /\ \A i \in DOMAIN Tail(s) : i + 1 \in DOMAIN s /\ i + 1 # 1 /\ Tail(s)[i] = s[i + 1]
  OBVIOUS

\* No profile that the game may give one client is part of one it may give
\* another.  Without this the property fails: a client that has not logged in
\* yet has no facts, and its replies reach everybody.
DistinctProfiles ==
    \A c, d \in Client : c # d =>
        \A p \in Profiles[c], q \in Profiles[d] : ~ (p \subseteq q)

\* addr is what o gives as its return address.
IsReturn(addr, o) ==
    /\ addr.uuid = o /\ addr.pid = o
    /\ addr.who = IF o = Launcher THEN "launcher" ELSE "client"
    /\ o # Launcher => addr.facts \in Profiles[o]

\* A message says where its reply goes, and a reply goes there.
Returns(m) == IF m.mode = "reply" THEN IsReturn(m.addr, m.of) ELSE IsReturn(m.ret, m.of)

\* A reply that has come to o is a reply to o.
ReturnedTo(o, m) == Returns(m) /\ (m.mode = "reply" => m.of = o)

ProfilesInv ==
    \A c \in Client :
       /\ profile[c] \in Profiles[c]
       /\ c \in known => identity[c] \in Profiles[c]
       /\ \A i \in DOMAIN up[c] :
             up[c][i].kind = "identification" => up[c][i].facts \in Profiles[c]

UpReturns(c) == \A i \in DOMAIN up[c] : up[c][i].kind = "route" => Returns(up[c][i].env)
DownReturns(c) == \A i \in DOMAIN down[c] : ReturnedTo(c, down[c][i])
MailReturns(o, b) == \A i \in DOMAIN mail[o][b] : ReturnedTo(o, mail[o][b][i])
HeldReturns(o) == \A m \in held[o] : m.mode = "call" /\ Returns(m)

ReturnsInv ==
    /\ \A i \in DOMAIN outgoing : Returns(outgoing[i])
    /\ \A c \in Client : UpReturns(c) /\ DownReturns(c)
    /\ \A o \in Office : \A b \in Box : MailReturns(o, b)
    /\ \A o \in Office : HeldReturns(o)

OwnInv == ProfilesInv /\ ReturnsInv /\ AnswersAreOwn

-----------------------------------------------------------------------------
(* What the launcher delivers.                                              *)

\* Only its caller matches the address of a reply.
LEMMA OnlyTheCaller ==
  ASSUME DistinctProfiles, TypeOK, ProfilesInv, NEW addr, NEW o \in Office, IsReturn(addr, o)
  PROVE  Recipients(addr) \subseteq {o} /\ Recipients(LocalAddress(addr)) \subseteq {o}
  <1> DEFINE local == LocalAddress(addr)
  <1>1. /\ local.uuid = None /\ local.pid = None /\ local.who = addr.who
        /\ local.facts = addr.facts
    BY DEF LocalAddress
  <1> HIDE DEF local
  <1>2. ASSUME NEW a \in {addr, local}, NEW p \in Recipients(a) PROVE p = o
    <2>1. a.who = addr.who /\ a.facts = addr.facts
      BY <1>1
    <2>2. p \in known \cup {Launcher} /\ IsRecipient(a, p) /\ p \in Office
      BY <1>2 DEF Recipients, TypeOK, Office
    <2>3. CASE o = Launcher
      BY <2>1, <2>2, <2>3 DEF IsReturn, IsRecipient
    <2>4. CASE o # Launcher
      <3>1. o \in Client /\ addr.who = "client" /\ addr.facts \in Profiles[o]
        BY <2>4 DEF IsReturn, Office
      <3>2. p # Launcher /\ addr.facts \subseteq identity[p]
        BY <2>1, <2>2, <3>1 DEF IsRecipient
      <3>3. p \in Client /\ identity[p] \in Profiles[p]
        BY <2>2, <3>2 DEF ProfilesInv, TypeOK
      <3>4. QED
        BY <3>1, <3>2, <3>3 DEF DistinctProfiles
    <2>5. QED
      BY <2>3, <2>4
  <1>3. QED
    BY <1>2 DEF local

\* A delivery that keeps the promise of return addresses.
Returned(sent) == \A d \in sent : ReturnedTo(d[1], d[2])

LEMMA ReturnAddress ==
  ASSUME TypeOK, ProfilesInv, NEW o \in Office, NEW box
  PROVE  IsReturn(FullAddress(o, box), o)
  <1>1. o # Launcher => o \in Client
    BY DEF Office
  <1>2. QED
    BY <1>1 DEF FullAddress, IsReturn, ProfilesInv

LEMMA ReplyReturns ==
  ASSUME NEW m, Returns(m), m.mode # "reply", NEW from, NEW status
  PROVE  /\ Returns(ReplyTo(m, from, status)) /\ ReplyTo(m, from, status).mode = "reply"
         /\ ReplyTo(m, from, status).of = m.of /\ ReplyTo(m, from, status).addr = m.ret
  BY DEF Returns, ReplyTo

LEMMA FailedReturns ==
  ASSUME DistinctProfiles, TypeOK, ProfilesInv, NEW m \in Envelope, Returns(m), NEW status
  PROVE  Returned(Failed(m, status))
  <1>1. CASE m.mode # "call"
    BY <1>1 DEF Failed, Returned
  <1>2. CASE m.mode = "call"
    <2> DEFINE r == ReplyTo(m, Launcher, status)
    <2>1. Returns(r) /\ r.mode = "reply" /\ r.of = m.of /\ r.addr = m.ret
      BY <1>2, ReplyReturns
    <2>2. m.of \in Office
      BY DEF Envelope
    <2>3. IsReturn(r.addr, m.of)
      BY <2>1 DEF Returns
    <2> HIDE DEF r
    <2>4. Recipients(r.addr) \subseteq {m.of}
      BY <2>2, <2>3, OnlyTheCaller
    <2>5. Failed(m, status) = {<<o, r>> : o \in {p \in Recipients(r.addr) : Reachable(p, r.addr.box)}}
      BY <1>2 DEF Failed, r
    <2>6. QED
      BY <2>1, <2>4, <2>5 DEF Returned, ReturnedTo
  <1>3. QED
    BY <1>1, <1>2

LEMMA FillReturns ==
  ASSUME TypeOK, ProfilesInv, NEW m \in Envelope, Returns(m),
         NEW o \in known \cup {Launcher}, m.mode = "reply" => o = m.of
  PROVE  ReturnedTo(o, FillAddress(m, o))
  <1> DEFINE f == FillAddress(m, o)
  <1>1. f.mode = m.mode /\ f.of = m.of /\ f.ret = m.ret
    BY DEF FillAddress, Envelope
  <1>2. /\ f.addr.uuid = o /\ f.addr.pid = o
        /\ f.addr.who = IF o = Launcher THEN "launcher" ELSE "client"
        /\ f.addr.facts = IF o = Launcher THEN {} ELSE identity[o]
    BY DEF FillAddress, Envelope, Address
  <1>3. o # Launcher => o \in Client /\ identity[o] \in Profiles[o]
    BY DEF ProfilesInv, TypeOK
  <1> HIDE DEF f
  <1>4. IsReturn(f.addr, o)
    BY <1>2, <1>3 DEF IsReturn
  <1>5. QED
    BY <1>1, <1>4 DEF ReturnedTo, Returns, f

LEMMA SendReturns ==
  ASSUME DistinctProfiles, TypeOK, ProfilesInv, NEW m \in Envelope, NEW o, ReturnedTo(o, m)
  PROVE  Returned(SendMessage(o, m))
  <1>1. Returns(m)
    BY DEF ReturnedTo
  <1>2. Returned(Failed(m, "RoutingFailed")) /\ Returned(Failed(m, "NoConnection"))
    BY <1>1, FailedReturns
  <1>3. Returned({<<o, m>>})
    BY DEF Returned
  <1>4. QED
    BY <1>2, <1>3 DEF SendMessage

LEMMA SendToAllReturns ==
  ASSUME DistinctProfiles, TypeOK, ProfilesInv, NEW m \in Envelope, Returns(m),
         NEW recipients \in SUBSET (known \cup {Launcher}),
         m.mode = "reply" => recipients \subseteq {m.of}
  PROVE  Returned(SendToAll(m, recipients))
  <1>1. Returned(Failed(m, "RoutingFailed")) /\ Returned(Failed(m, "Ambiguous"))
    BY FailedReturns
  <1>2. \A o \in recipients : Returned(SendMessage(o, FillAddress(m, o)))
    <2> TAKE o \in recipients
    <2>1. ReturnedTo(o, FillAddress(m, o))
      BY FillReturns
    <2>2. FillAddress(m, o) \in Envelope
      BY FillAddressType DEF TypeOK, Office
    <2>3. QED
      BY <2>1, <2>2, SendReturns
  <1>3. Returned(UNION {SendMessage(o, FillAddress(m, o)) : o \in recipients})
    BY <1>2 DEF Returned
  <1>4. QED
    BY <1>1, <1>3 DEF SendToAll

LEMMA RouteReturns ==
  ASSUME DistinctProfiles, TypeOK, ProfilesInv, NEW m \in Envelope, Returns(m)
  PROVE  Returned(RouteFromConnection(m)) /\ Returned(ProcessOutgoingMessage(m))
  <1>1. /\ Recipients(m.addr) \in SUBSET (known \cup {Launcher})
        /\ Recipients(LocalAddress(m.addr)) \in SUBSET (known \cup {Launcher})
    BY DEF Recipients
  <1>2. m.of \in Office
    BY DEF Envelope
  <1>3. m.mode = "reply" => /\ Recipients(m.addr) \subseteq {m.of}
                            /\ Recipients(LocalAddress(m.addr)) \subseteq {m.of}
    BY <1>2, OnlyTheCaller DEF Returns
  <1>4. /\ Returned(SendToAll(m, Recipients(m.addr)))
        /\ Returned(SendToAll(m, Recipients(LocalAddress(m.addr))))
    BY <1>1, <1>3, SendToAllReturns
  <1>5. ASSUME ToThisLauncher(m.addr) PROVE ReturnedTo(Launcher, m)
    BY <1>2, <1>5, OfficeAssumption DEF ToThisLauncher, ReturnedTo, Returns, IsReturn
  <1>6. ToThisLauncher(m.addr) => Returned(SendMessage(Launcher, m))
    BY <1>5, SendReturns
  <1>7. QED
    BY <1>4, <1>6 DEF RouteFromConnection, ProcessOutgoingMessage

-----------------------------------------------------------------------------
(* Queues that grow.                                                        *)

LEMMA AppendEachPlaces ==
  ASSUME NEW q \in Seq(Envelope), NEW ds \in SUBSET Delivery
  PROVE  \A i \in DOMAIN AppendEach(q, ds) :
            \/ i \in DOMAIN q /\ AppendEach(q, ds)[i] = q[i]
            \/ i = Len(q) + 1 /\ \E d \in ds : AppendEach(q, ds)[i] = d[2]
  <1>1. CASE ds = {}
    BY <1>1 DEF AppendEach
  <1>2. CASE ds # {}
    <2> DEFINE d == CHOOSE x \in ds : TRUE
    <2>1. d \in ds /\ d[2] \in Envelope
      BY <1>2 DEF Delivery
    <2>2. AppendEach(q, ds) = Append(q, d[2])
      BY <1>2 DEF AppendEach
    <2> HIDE DEF d
    <2>3. QED
      BY <2>1, <2>2, AppendPlaces
  <1>3. QED
    BY <1>1, <1>2

\* Where what lies in pipes and mailboxes after a delivery comes from.
LEMMA DeliverPlaces ==
  ASSUME TypeOK, NEW sent \in SUBSET Delivery, Deliver(sent)
  PROVE  /\ \A c \in Client : \A i \in DOMAIN down'[c] :
               \/ i \in DOMAIN down[c] /\ down'[c][i] = down[c][i]
               \/ /\ i = Len(down[c]) + 1
                  /\ \E d \in sent : d[1] = c /\ down'[c][i] = d[2]
         /\ \A b \in Box : \A i \in DOMAIN mail'[Launcher][b] :
               \/ i \in DOMAIN mail[Launcher][b] /\ mail'[Launcher][b][i] = mail[Launcher][b][i]
               \/ /\ i = Len(mail[Launcher][b]) + 1
                  /\ \E d \in sent : d[1] = Launcher /\ d[2].addr.box = b
                                     /\ mail'[Launcher][b][i] = d[2]
         /\ \A c \in Client : mail'[c] = mail[c]
  <1>1. ASSUME NEW c \in Client, NEW i \in DOMAIN down'[c]
        PROVE  \/ i \in DOMAIN down[c] /\ down'[c][i] = down[c][i]
               \/ i = Len(down[c]) + 1 /\ \E d \in sent : d[1] = c /\ down'[c][i] = d[2]
    <2>1. down'[c] = AppendEach(down[c], Received(c, sent))
      BY DEF Deliver, DownAfter
    <2>2. down[c] \in Seq(Envelope) /\ Received(c, sent) \in SUBSET Delivery
      BY DEF TypeOK, Received
    <2>3. \A d \in Received(c, sent) : d \in sent /\ d[1] = c
      BY DEF Received
    <2>4. QED
      BY <1>1, <2>1, <2>2, <2>3, AppendEachPlaces
  <1> DEFINE Here(b) == {d \in sent : d[1] = Launcher /\ d[2].addr.box = b}
             after == [b \in Box |-> AppendEach(mail[Launcher][b], Here(b))]
  <1>2. mail' = [mail EXCEPT ![Launcher] = after]
    BY DEF Deliver, LauncherMailAfter
  <1>3. mail'[Launcher] = after /\ \A c \in Client : mail'[c] = mail[c]
    BY <1>2, NoneNotOffice, OfficeAssumption DEF TypeOK
  <1>4. ASSUME NEW b \in Box, NEW i \in DOMAIN mail'[Launcher][b]
        PROVE  \/ i \in DOMAIN mail[Launcher][b] /\ mail'[Launcher][b][i] = mail[Launcher][b][i]
               \/ /\ i = Len(mail[Launcher][b]) + 1
                  /\ \E d \in sent : d[1] = Launcher /\ d[2].addr.box = b
                                     /\ mail'[Launcher][b][i] = d[2]
    <2>1. mail'[Launcher][b] = AppendEach(mail[Launcher][b], Here(b))
      BY <1>3
    <2>2. mail[Launcher][b] \in Seq(Envelope) /\ Here(b) \in SUBSET Delivery
      BY NoneNotOffice DEF TypeOK
    <2>3. \A d \in Here(b) : d \in sent /\ d[1] = Launcher /\ d[2].addr.box = b
      OBVIOUS
    <2> HIDE DEF Here, after
    <2>4. QED
      BY <1>4, <2>1, <2>2, <2>3, AppendEachPlaces
  <1>5. QED
    BY <1>1, <1>3, <1>4

LEMMA EnqueuePlaces ==
  ASSUME TypeOK, NEW o \in Office, NEW m \in Envelope, mail' = Enqueue(o, m)
  PROVE  \A p \in Office, b \in Box : \A i \in DOMAIN mail'[p][b] :
            \/ i \in DOMAIN mail[p][b] /\ mail'[p][b][i] = mail[p][b][i]
            \/ p = o /\ b = m.addr.box /\ i = Len(mail[p][b]) + 1 /\ mail'[p][b][i] = m
  <1> DEFINE x == m.addr.box
  <1>1. CASE x \notin boxes[o]
    BY <1>1 DEF Enqueue
  <1>2. CASE x \in boxes[o]
    <2>1. x \in Box /\ mail \in [Office -> [Box -> Seq(Envelope)]]
      BY <1>2 DEF TypeOK
    <2>2. mail' = [mail EXCEPT ![o][x] = Append(mail[o][x], m)]
      BY <1>2 DEF Enqueue
    <2>3. mail[o][x] \in Seq(Envelope)
      BY <2>1
    <2> HIDE DEF x
    <2>4. ASSUME NEW p \in Office, NEW b \in Box
          PROVE  mail'[p][b] = IF p = o /\ b = x THEN Append(mail[o][x], m) ELSE mail[p][b]
      BY <2>1, <2>2
    <2>5. ASSUME NEW p \in Office, NEW b \in Box, NEW i \in DOMAIN mail'[p][b]
          PROVE  \/ i \in DOMAIN mail[p][b] /\ mail'[p][b][i] = mail[p][b][i]
                 \/ p = o /\ b = x /\ i = Len(mail[p][b]) + 1 /\ mail'[p][b][i] = m
      <3> DEFINE longer == Append(mail[o][x], m)
      <3>1. \A j \in DOMAIN longer :
                \/ j \in DOMAIN mail[o][x] /\ longer[j] = mail[o][x][j]
                \/ j = Len(mail[o][x]) + 1 /\ longer[j] = m
        BY <2>3, AppendPlaces
      <3> HIDE DEF longer
      <3>2. mail'[p][b] = IF p = o /\ b = x THEN longer ELSE mail[p][b]
        BY <2>4 DEF longer
      <3>3. QED
        BY <2>5, <3>1, <3>2
    <2>6. QED
      BY <2>5 DEF x
  <1>3. QED
    BY <1>1, <1>2

LEMMA WritePipePlaces ==
  ASSUME TypeOK, NEW c \in Client, NEW x \in PipeMessage, up' = WritePipe(c, x)
  PROVE  \A d \in Client : \A i \in DOMAIN up'[d] :
            \/ i \in DOMAIN up[d] /\ up'[d][i] = up[d][i]
            \/ d = c /\ i = Len(up[c]) + 1 /\ up'[d][i] = x
  <1>1. up \in [Client -> Seq(PipeMessage)]
    BY DEF TypeOK
  <1>2. CASE pipe[c] # "up"
    BY <1>2 DEF WritePipe
  <1>3. CASE pipe[c] = "up"
    <2>1. up' = [up EXCEPT ![c] = Append(up[c], x)]
      BY <1>3 DEF WritePipe
    <2>2. up[c] \in Seq(PipeMessage)
      BY <1>1
    <2> DEFINE longer == Append(up[c], x)
    <2>3. \A d \in Client : up'[d] = IF d = c THEN longer ELSE up[d]
      BY <1>1, <2>1
    <2>4. \A j \in DOMAIN longer :
              \/ j \in DOMAIN up[c] /\ longer[j] = up[c][j]
              \/ j = Len(up[c]) + 1 /\ longer[j] = x
      BY <2>2, AppendPlaces
    <2> HIDE DEF longer
    <2>5. QED
      BY <2>3, <2>4
  <1>4. QED
    BY <1>2, <1>3

\* Taking the head of one queue of many.
LEMMA MailTail ==
  ASSUME TypeOK, NEW o \in Office, NEW x \in Box, mail[o][x] # <<>>,
         mail' = [mail EXCEPT ![o][x] = Tail(@)]
  PROVE  /\ \A p \in Office, b \in Box : (p = o /\ b = x) \/ mail'[p][b] = mail[p][b]
         /\ 1 \in DOMAIN mail[o][x] /\ Head(mail[o][x]) = mail[o][x][1]
         /\ Head(mail[o][x]) \in Envelope
         /\ \A i \in DOMAIN mail'[o][x] :
               i + 1 \in DOMAIN mail[o][x] /\ i + 1 # 1 /\ mail'[o][x][i] = mail[o][x][i + 1]
  <1>1. mail \in [Office -> [Box -> Seq(Envelope)]] /\ mail[o][x] \in Seq(Envelope)
    BY DEF TypeOK
  <1>2. /\ mail'[o][x] = Tail(mail[o][x])
        /\ \A p \in Office, b \in Box : (p = o /\ b = x) \/ mail'[p][b] = mail[p][b]
    BY <1>1
  <1>3. Head(mail[o][x]) \in Envelope
    BY <1>1
  <1>4. QED
    BY <1>1, <1>2, <1>3, TailPlaces

LEMMA UpTail ==
  ASSUME TypeOK, NEW c \in Client, up[c] # <<>>, up' = [up EXCEPT ![c] = Tail(@)]
  PROVE  /\ \A d \in Client : d = c \/ up'[d] = up[d]
         /\ 1 \in DOMAIN up[c] /\ Head(up[c]) = up[c][1] /\ Head(up[c]) \in PipeMessage
         /\ \A i \in DOMAIN up'[c] :
               i + 1 \in DOMAIN up[c] /\ i + 1 # 1 /\ up'[c][i] = up[c][i + 1]
  <1>1. up \in [Client -> Seq(PipeMessage)] /\ up[c] \in Seq(PipeMessage)
    BY DEF TypeOK
  <1>2. up'[c] = Tail(up[c]) /\ \A d \in Client : d = c \/ up'[d] = up[d]
    BY <1>1
  <1>3. Head(up[c]) \in PipeMessage
    BY <1>1
  <1>4. QED
    BY <1>1, <1>2, <1>3, TailPlaces

LEMMA DownTail ==
  ASSUME TypeOK, NEW c \in Client, down[c] # <<>>, down' = [down EXCEPT ![c] = Tail(@)]
  PROVE  /\ \A d \in Client : d = c \/ down'[d] = down[d]
         /\ 1 \in DOMAIN down[c] /\ Head(down[c]) = down[c][1] /\ Head(down[c]) \in Envelope
         /\ \A i \in DOMAIN down'[c] :
               i + 1 \in DOMAIN down[c] /\ i + 1 # 1 /\ down'[c][i] = down[c][i + 1]
  <1>1. down \in [Client -> Seq(Envelope)] /\ down[c] \in Seq(Envelope)
    BY DEF TypeOK
  <1>2. down'[c] = Tail(down[c]) /\ \A d \in Client : d = c \/ down'[d] = down[d]
    BY <1>1
  <1>3. Head(down[c]) \in Envelope
    BY <1>1
  <1>4. QED
    BY <1>1, <1>2, <1>3, TailPlaces

-----------------------------------------------------------------------------
(* Each queue keeps its part of the invariant.                              *)

Fresh(x, c) ==
    /\ x.kind = "identification" => x.facts \in Profiles[c]
    /\ x.kind = "route" => Returns(x.env)

UpInv(c) == \A i \in DOMAIN up[c] : Fresh(up[c][i], c)

LEMMA UpInvAs == ProfilesInv /\ ReturnsInv => \A c \in Client : UpInv(c)
  BY DEF ProfilesInv, ReturnsInv, UpReturns, UpInv, Fresh

\* The parts that speak of what some actions change, put together again.
LEMMA OwnParts ==
  ASSUME OwnInv, UNCHANGED <<profile, known, identity, answers>>,
         \A c \in Client : UpInv(c)' /\ DownReturns(c)',
         \A o \in Office : HeldReturns(o)',
         \A o \in Office, b \in Box : MailReturns(o, b)',
         \A i \in DOMAIN outgoing' : Returns(outgoing'[i])
  PROVE  OwnInv'
  <1>1. ProfilesInv'
    BY DEF OwnInv, ProfilesInv, UpInv, Fresh
  <1>2. ReturnsInv'
    BY DEF ReturnsInv, UpInv, UpReturns, Fresh
  <1>3. AnswersAreOwn'
    BY DEF OwnInv, AnswersAreOwn
  <1>4. QED
    BY <1>1, <1>2, <1>3 DEF OwnInv

LEMMA MailReturnsKept ==
  ASSUME ReturnsInv, NEW o \in Office, NEW b \in Box,
         \A i \in DOMAIN mail'[o][b] :
            \/ \E j \in DOMAIN mail[o][b] : mail'[o][b][i] = mail[o][b][j]
            \/ ReturnedTo(o, mail'[o][b][i])
  PROVE  MailReturns(o, b)'
  BY DEF ReturnsInv, MailReturns

LEMMA DownReturnsKept ==
  ASSUME ReturnsInv, NEW c \in Client,
         \A i \in DOMAIN down'[c] :
            \/ \E j \in DOMAIN down[c] : down'[c][i] = down[c][j]
            \/ ReturnedTo(c, down'[c][i])
  PROVE  DownReturns(c)'
  BY DEF ReturnsInv, DownReturns

LEMMA UpInvKept ==
  ASSUME OwnInv, NEW c \in Client,
         \A i \in DOMAIN up'[c] :
            \/ \E j \in DOMAIN up[c] : up'[c][i] = up[c][j]
            \/ Fresh(up'[c][i], c)
  PROVE  UpInv(c)'
  <1>1. UpInv(c)
    BY UpInvAs DEF OwnInv
  <1>2. QED
    BY <1>1 DEF UpInv

LEMMA DeliverReturns ==
  ASSUME TypeOK, ReturnsInv, NEW sent \in SUBSET Delivery, Returned(sent), Deliver(sent)
  PROVE  /\ \A c \in Client : DownReturns(c)'
         /\ \A o \in Office, b \in Box : MailReturns(o, b)'
  <1>1. ASSUME NEW c \in Client PROVE DownReturns(c)'
    <2>1. \A i \in DOMAIN down'[c] :
            \/ \E j \in DOMAIN down[c] : down'[c][i] = down[c][j]
            \/ ReturnedTo(c, down'[c][i])
      BY DeliverPlaces DEF Returned
    <2>2. QED
      BY <2>1, DownReturnsKept
  <1>2. ASSUME NEW o \in Office, NEW b \in Box PROVE MailReturns(o, b)'
    <2>1. CASE o = Launcher
      <3>1. \A i \in DOMAIN mail'[Launcher][b] :
              \/ \E j \in DOMAIN mail[Launcher][b] : mail'[Launcher][b][i] = mail[Launcher][b][j]
              \/ ReturnedTo(Launcher, mail'[Launcher][b][i])
        BY DeliverPlaces DEF Returned
      <3>2. QED
        BY <2>1, <3>1, MailReturnsKept
    <2>2. CASE o # Launcher
      <3>1. mail'[o] = mail[o]
        BY <2>2, DeliverPlaces DEF Office
      <3>2. QED
        BY <3>1, MailReturnsKept
    <2>3. QED
      BY <2>1, <2>2
  <1>3. QED
    BY <1>1, <1>2

LEMMA EnqueueReturns ==
  ASSUME TypeOK, ReturnsInv, NEW o \in Office, NEW m \in Envelope, ReturnedTo(o, m),
         mail' = Enqueue(o, m)
  PROVE  \A p \in Office, b \in Box : MailReturns(p, b)'
  <1> TAKE p \in Office, b \in Box
  <1>1. \A i \in DOMAIN mail'[p][b] :
            \/ \E j \in DOMAIN mail[p][b] : mail'[p][b][i] = mail[p][b][j]
            \/ ReturnedTo(p, mail'[p][b][i])
    BY EnqueuePlaces
  <1>2. QED
    BY <1>1, MailReturnsKept

LEMMA WritePipeReturns ==
  ASSUME TypeOK, OwnInv, NEW c \in Client, NEW x \in PipeMessage, Fresh(x, c),
         up' = WritePipe(c, x)
  PROVE  \A d \in Client : UpInv(d)'
  <1> TAKE d \in Client
  <1>1. \A i \in DOMAIN up'[d] :
            \/ \E j \in DOMAIN up[d] : up'[d][i] = up[d][j]
            \/ Fresh(up'[d][i], d)
    BY WritePipePlaces
  <1>2. QED
    BY <1>1, UpInvKept

LEMMA RouteFresh ==
  ASSUME NEW m, Returns(m), NEW c
  PROVE  Fresh([kind |-> "route", env |-> m], c)
  BY DEF Fresh

\* What a step leaves alone keeps its part.
LEMMA UnchangedReturns ==
  ASSUME OwnInv
  PROVE  /\ up' = up => \A c \in Client : UpInv(c)'
         /\ down' = down => \A c \in Client : DownReturns(c)'
         /\ mail' = mail => \A o \in Office, b \in Box : MailReturns(o, b)'
         /\ held' = held => \A o \in Office : HeldReturns(o)'
         /\ outgoing' = outgoing => \A i \in DOMAIN outgoing' : Returns(outgoing'[i])
  <1>1. \A c \in Client : UpInv(c)
    BY UpInvAs DEF OwnInv
  <1>2. QED
    BY <1>1 DEF OwnInv, ReturnsInv, UpInv, DownReturns, MailReturns, HeldReturns

LEMMA ClientReplyReturns ==
  ASSUME TypeOK, OwnInv, NEW c \in Client, NEW r \in Envelope, r.mode = "reply", Returns(r),
         ClientReply(c, r)
  PROVE  /\ \A d \in Client : UpInv(d)'
         /\ \A o \in Office, b \in Box : MailReturns(o, b)'
  <1>1. CASE r.addr.uuid = c
    <2>1. ReturnedTo(c, r)
      BY <1>1 DEF Returns, IsReturn, ReturnedTo
    <2>2. mail' = Enqueue(c, r) /\ up' = up /\ c \in Office
      BY <1>1, NoneNotOffice DEF ClientReply
    <2>3. QED
      BY <2>1, <2>2, EnqueueReturns, UnchangedReturns DEF OwnInv
  <1>2. CASE r.addr.uuid # c
    <2>1. up' = WritePipe(c, [kind |-> "route", env |-> r]) /\ mail' = mail
      BY <1>2 DEF ClientReply
    <2>2. QED
      BY <2>1, RouteInPipe, RouteFresh, WritePipeReturns, UnchangedReturns
  <1>3. QED
    BY <1>1, <1>2

LEMMA ArriveReturns ==
  ASSUME TypeOK, OwnInv, NEW c \in Client, NEW m \in Envelope, ReturnedTo(c, m), Arrive(c, m)
  PROVE  /\ \A d \in Client : UpInv(d)'
         /\ \A o \in Office, b \in Box : MailReturns(o, b)'
  <1>1. CASE m.mode = "call" /\ Refusal(c, m) # "ok"
    <2> DEFINE r == ReplyTo(m, c, Refusal(c, m))
    <2>1. Refusal(c, m) \in Status
      BY DEF Refusal, Status
    <2>2. r \in Envelope
      BY <2>1, NoneNotOffice, ReplyToType
    <2>3. r.mode = "reply" /\ Returns(r)
      BY <1>1, ReplyReturns DEF ReturnedTo
    <2>4. ClientReply(c, r)
      BY <1>1 DEF Arrive
    <2> HIDE DEF r
    <2>5. QED
      BY <2>2, <2>3, <2>4, ClientReplyReturns
  <1>2. CASE ~ (m.mode = "call" /\ Refusal(c, m) # "ok")
    <2>1. mail' = Enqueue(c, m) /\ up' = up /\ c \in Office
      BY <1>2, NoneNotOffice DEF Arrive
    <2>2. QED
      BY <2>1, EnqueueReturns, UnchangedReturns DEF OwnInv
  <1>3. QED
    BY <1>1, <1>2

-----------------------------------------------------------------------------
(* Each action keeps the invariant.                                         *)

LEMMA OwnInvInit == Init => OwnInv
  BY DEF Init, OwnInv, ProfilesInv, ReturnsInv, AnswersAreOwn, UpReturns, DownReturns,
         MailReturns, HeldReturns

LEMMA PostedReturns ==
  ASSUME TypeOK, OwnInv, NEW o \in Office, NEW mode \in Modes, NEW addr, NEW box
  PROVE  ReturnedTo(o, NewEnvelope(o, mode, addr, box))
  <1>1. IsReturn(FullAddress(o, box), o)
    BY ReturnAddress DEF OwnInv
  <1>2. mode # "reply"
    BY OfficeAssumption
  <1>3. QED
    BY <1>1, <1>2 DEF NewEnvelope, ReturnedTo, Returns

LEMMA OwnInvClient ==
  ASSUME DistinctProfiles, TypeOK, OwnInv, NEW c \in Client, ClientStep(c)
  PROVE  OwnInv'
  <1> USE NoneNotOffice
  <1>0. profile[c] \in Profiles[c]
    BY DEF OwnInv, ProfilesInv
  <1> DEFINE hello == [kind |-> "identification", facts |-> profile[c]]
  <1>h. hello \in PipeMessage /\ Fresh(hello, c)
    BY <1>0 DEF TypeOK, PipeMessage, Identification, Fresh
  <1> HIDE DEF hello
  <1>1. ASSUME NEW p \in Profiles[c], ChangeProfile(c, p) PROVE OwnInv'
    <2>1. UNCHANGED <<up, down, mail, held, outgoing, answers, known, identity>>
      BY <1>1 DEF ChangeProfile, net, dir
    <2>2. \A d \in Client : profile'[d] \in Profiles[d]
      BY <1>1 DEF ChangeProfile, TypeOK, OwnInv, ProfilesInv
    <2>3. ProfilesInv'
      BY <2>1, <2>2 DEF OwnInv, ProfilesInv
    <2>4. ReturnsInv' /\ AnswersAreOwn'
      BY <2>1 DEF OwnInv, ReturnsInv, AnswersAreOwn, UpReturns, DownReturns, MailReturns,
                  HeldReturns
    <2>5. QED
      BY <2>3, <2>4 DEF OwnInv
  <1>2. ASSUME NEW inWorld \in BOOLEAN, SetGameState(c, inWorld) PROVE OwnInv'
    <2>1. up' = WritePipe(c, hello)
      BY <1>2 DEF SetGameState, hello
    <2>2. \A d \in Client : UpInv(d)'
      BY <1>h, <2>1, WritePipeReturns
    <2>3. QED
      BY <1>2, <2>2, UnchangedReturns, OwnParts DEF SetGameState, dir
  <1>3. ASSUME Connect(c) PROVE OwnInv'
    <2>1. ASSUME NEW d \in Client PROVE UpInv(d)'
      <3> DEFINE longer == Append(up[c], hello)
      <3>1. up' = [up EXCEPT ![c] = longer]
        BY <1>3 DEF Connect, hello
      <3>2. \A j \in DOMAIN longer : \/ j \in DOMAIN up[c] /\ longer[j] = up[c][j]
                                     \/ longer[j] = hello
        BY <1>h, AppendPlaces DEF TypeOK
      <3> HIDE DEF longer
      <3>3. up'[d] = IF d = c THEN longer ELSE up[d]
        BY <3>1 DEF TypeOK
      <3>4. \A i \in DOMAIN up'[d] :
               \/ \E j \in DOMAIN up[d] : up'[d][i] = up[d][j]
               \/ Fresh(up'[d][i], d)
        BY <1>h, <3>2, <3>3
      <3>5. QED
        BY <3>4, UpInvKept
    <2>2. QED
      BY <1>3, <2>1, UnchangedReturns, OwnParts DEF Connect, dir
  <1>4. ASSUME NEW mode \in Modes, NEW addr \in Targets, NEW b \in boxes[c],
               ClientPost(c, mode, addr, b)
        PROVE  OwnInv'
    <2> DEFINE m == NewEnvelope(c, mode, addr, b)
    <2>1. m \in Envelope
      BY NewEnvelopeType DEF TypeOK
    <2>2. ReturnedTo(c, m)
      BY PostedReturns
    <2> HIDE DEF m
    <2>3. /\ \A d \in Client : UpInv(d)'
          /\ \A o \in Office, x \in Box : MailReturns(o, x)'
      <3>1. CASE addr.uuid = c
        BY <1>4, <2>1, <2>2, <3>1, ArriveReturns DEF ClientPost, m
      <3>2. CASE addr.uuid # c
        <4>1. up' = WritePipe(c, [kind |-> "route", env |-> m]) /\ mail' = mail
          BY <1>4, <3>2 DEF ClientPost, m
        <4>2. Returns(m)
          BY <2>2 DEF ReturnedTo
        <4>3. QED
          BY <2>1, <4>1, <4>2, RouteInPipe, RouteFresh, WritePipeReturns, UnchangedReturns
      <3>3. QED
        BY <3>1, <3>2
    <2>4. QED
      BY <1>4, <2>3, UnchangedReturns, OwnParts DEF ClientPost, dir, game
  <1>5. ASSUME ClientReceive(c) PROVE OwnInv'
    <2>1. down[c] # <<>> /\ down' = [down EXCEPT ![c] = Tail(@)] /\ Arrive(c, Head(down[c]))
      BY <1>5 DEF ClientReceive
    <2>2. Head(down[c]) \in Envelope /\ ReturnedTo(c, Head(down[c]))
      BY <2>1, DownTail DEF OwnInv, ReturnsInv, DownReturns
    <2>3. /\ \A d \in Client : UpInv(d)'
          /\ \A o \in Office, x \in Box : MailReturns(o, x)'
      BY <2>1, <2>2, ArriveReturns
    <2>4. ASSUME NEW d \in Client PROVE DownReturns(d)'
      <3>1. \A i \in DOMAIN down'[d] : \E j \in DOMAIN down[d] : down'[d][i] = down[d][j]
        BY <2>1, DownTail
      <3>2. QED
        BY <3>1, DownReturnsKept DEF OwnInv
    <2>5. QED
      BY <1>5, <2>3, <2>4, UnchangedReturns, OwnParts DEF ClientReceive, dir, game
  <1>6. ASSUME NEW b \in Box, RemoveMailbox(c, b) PROVE OwnInv'
    <2>1. ASSUME NEW o \in Office, NEW x \in Box PROVE MailReturns(o, x)'
      <3>1. mail'[o][x] = IF o = c /\ x = b THEN <<>> ELSE mail[o][x]
        BY <1>6 DEF RemoveMailbox, TypeOK
      <3>2. \A i \in DOMAIN mail'[o][x] : \E j \in DOMAIN mail[o][x] : mail'[o][x][i] = mail[o][x][j]
        BY <3>1
      <3>3. QED
        BY <3>2, MailReturnsKept DEF OwnInv
    <2>2. QED
      BY <1>6, <2>1, UnchangedReturns, OwnParts DEF RemoveMailbox, net, dir, game
  <1>7. ASSUME NEW b \in Box, RegisterAddress(c, b) PROVE OwnInv'
    BY <1>7, UnchangedReturns, OwnParts DEF RegisterAddress, net, dir, game
  <1>8. ASSUME Crash(c) PROVE OwnInv'
    <2>1. ASSUME NEW o \in Office, NEW x \in Box PROVE MailReturns(o, x)'
      <3>1. mail'[o][x] = IF o = c THEN <<>> ELSE mail[o][x]
        BY <1>8 DEF Crash, TypeOK
      <3>2. \A i \in DOMAIN mail'[o][x] : \E j \in DOMAIN mail[o][x] : mail'[o][x][i] = mail[o][x][j]
        BY <3>1
      <3>3. QED
        BY <3>2, MailReturnsKept DEF OwnInv
    <2>2. ASSUME NEW d \in Client PROVE DownReturns(d)'
      <3>1. down'[d] = IF d = c THEN <<>> ELSE down[d]
        BY <1>8 DEF Crash, TypeOK
      <3>2. \A i \in DOMAIN down'[d] : \E j \in DOMAIN down[d] : down'[d][i] = down[d][j]
        BY <3>1
      <3>3. QED
        BY <3>2, DownReturnsKept DEF OwnInv
    <2>3. \A o \in Office : HeldReturns(o)'
      BY <1>8 DEF Crash, TypeOK, OwnInv, ReturnsInv, HeldReturns
    <2>4. QED
      BY <1>8, <2>1, <2>2, <2>3, UnchangedReturns, OwnParts DEF Crash, dir, game
  <1>9. QED
    BY <1>1, <1>2, <1>3, <1>4, <1>5, <1>6, <1>7, <1>8 DEF ClientStep

LEMMA OwnInvLauncher ==
  ASSUME DistinctProfiles, TypeOK, OwnInv, LauncherStep
  PROVE  OwnInv'
  <1> USE NoneNotOffice
  <1>1. ASSUME NEW mode \in Modes, NEW addr \in Targets, NEW b \in boxes[Launcher],
               LauncherPost(mode, addr, b)
        PROVE  OwnInv'
    <2> DEFINE m == NewEnvelope(Launcher, mode, addr, b)
               longer == Append(outgoing, m)
    <2>1. m \in Envelope /\ Returns(m)
      BY NewEnvelopeType, PostedReturns DEF TypeOK, ReturnedTo
    <2>2. outgoing' = longer
      BY <1>1 DEF LauncherPost
    <2> HIDE DEF m
    <2>3. \A j \in DOMAIN longer : \/ j \in DOMAIN outgoing /\ longer[j] = outgoing[j]
                                   \/ longer[j] = m
      BY <2>1, AppendPlaces DEF TypeOK
    <2> HIDE DEF longer
    <2>4. \A i \in DOMAIN outgoing' : Returns(outgoing'[i])
      BY <2>1, <2>2, <2>3 DEF OwnInv, ReturnsInv
    <2>5. QED
      BY <1>1, <2>4, UnchangedReturns, OwnParts DEF LauncherPost, dir, game
  <1>2. ASSUME ProcessOutgoing PROVE OwnInv'
    <2> DEFINE sent == ProcessOutgoingMessage(Head(outgoing))
    <2>1. outgoing \in Seq(Envelope) /\ outgoing # <<>> /\ outgoing' = Tail(outgoing)
      BY <1>2 DEF TypeOK, ProcessOutgoing
    <2>2. Head(outgoing) \in Envelope /\ Returns(Head(outgoing))
      BY <2>1, TailPlaces DEF OwnInv, ReturnsInv
    <2>3. sent \in SUBSET Delivery /\ Returned(sent) /\ Deliver(sent)
      BY <1>2, <2>2, ProcessOutgoingMessageType, RouteReturns DEF ProcessOutgoing, OwnInv
    <2> HIDE DEF sent
    <2>4. \A i \in DOMAIN outgoing' : Returns(outgoing'[i])
      BY <2>1, TailPlaces DEF OwnInv, ReturnsInv
    <2>5. /\ \A c \in Client : DownReturns(c)'
          /\ \A o \in Office, b \in Box : MailReturns(o, b)'
      BY <2>3, DeliverReturns DEF OwnInv
    <2>6. QED
      BY <1>2, <2>4, <2>5, UnchangedReturns, OwnParts DEF ProcessOutgoing, dir, game
  <1>3. ASSUME NEW c \in Client, LauncherRoute(c) \/ LauncherIdentify(c) \/ LauncherClosed(c)
        PROVE  /\ Head(up[c]) \in PipeMessage /\ Fresh(Head(up[c]), c)
               /\ \A d \in Client : UpInv(d)'
    <2>1. up[c] # <<>> /\ up' = [up EXCEPT ![c] = Tail(@)]
      BY <1>3 DEF LauncherRoute, LauncherIdentify, LauncherClosed
    <2>2. \A d \in Client : \A i \in DOMAIN up'[d] : \E j \in DOMAIN up[d] : up'[d][i] = up[d][j]
      BY <2>1, UpTail
    <2>3. \A d \in Client : UpInv(d)'
      BY <2>2, UpInvKept
    <2>4. UpInv(c)
      BY UpInvAs DEF OwnInv
    <2>5. QED
      BY <2>1, <2>3, <2>4, UpTail DEF UpInv
  <1>4. ASSUME NEW c \in Client, LauncherRoute(c) PROVE OwnInv'
    <2> DEFINE m == Head(up[c]).env
               sent == RouteFromConnection(m)
    <2>1. m \in Envelope /\ Returns(m)
      BY <1>3, <1>4, PipeMessageKinds DEF LauncherRoute, Fresh
    <2>2. sent \in SUBSET Delivery /\ Returned(sent) /\ Deliver(sent)
      BY <1>4, <2>1, RouteFromConnectionType, RouteReturns DEF LauncherRoute, OwnInv
    <2> HIDE DEF sent
    <2>3. /\ \A d \in Client : DownReturns(d)'
          /\ \A o \in Office, b \in Box : MailReturns(o, b)'
      BY <2>2, DeliverReturns DEF OwnInv
    <2>4. QED
      BY <1>3, <1>4, <2>3, UnchangedReturns, OwnParts DEF LauncherRoute, dir, game
  <1>5. ASSUME NEW c \in Client, LauncherIdentify(c) PROVE OwnInv'
    <2>1. Head(up[c]).facts \in Profiles[c]
      BY <1>3, <1>5 DEF LauncherIdentify, Fresh
    <2>2. /\ known' = known \cup {c} /\ identity' = [identity EXCEPT ![c] = Head(up[c]).facts]
          /\ UNCHANGED <<down, mail, held, outgoing, answers, profile>>
      BY <1>5 DEF LauncherIdentify, game
    <2>3. \A d \in Client : UpInv(d)'
      BY <1>3, <1>5
    <2>4. \A d \in Client : d \in known' => identity'[d] \in Profiles[d]
      BY <2>1, <2>2 DEF TypeOK, OwnInv, ProfilesInv
    <2>5. ProfilesInv'
      BY <2>2, <2>3, <2>4 DEF OwnInv, ProfilesInv, UpInv, Fresh
    <2>6. ReturnsInv'
      BY <2>2, <2>3, UnchangedReturns DEF ReturnsInv, UpInv, UpReturns, Fresh
    <2>7. QED
      BY <2>2, <2>5, <2>6 DEF OwnInv, AnswersAreOwn
  <1>6. ASSUME NEW c \in Client, LauncherClosed(c) PROVE OwnInv'
    <2>1. /\ known' = known \ {c}
          /\ UNCHANGED <<down, mail, held, outgoing, answers, profile, identity>>
      BY <1>6 DEF LauncherClosed, game
    <2>2. \A d \in Client : UpInv(d)'
      BY <1>3, <1>6
    <2>3. ProfilesInv'
      BY <2>1, <2>2 DEF OwnInv, ProfilesInv, UpInv, Fresh
    <2>4. ReturnsInv'
      BY <2>1, <2>2, UnchangedReturns DEF ReturnsInv, UpInv, UpReturns, Fresh
    <2>5. QED
      BY <2>1, <2>3, <2>4 DEF OwnInv, AnswersAreOwn
  <1>7. ASSUME NEW c \in Client, PipeClosed(c) PROVE OwnInv'
    <2> DEFINE last == [kind |-> "closed"]
               longer == Append(up[c], last)
    <2>1. last \in PipeMessage /\ Fresh(last, c)
      BY DEF PipeMessage, Closed, Fresh
    <2>2. up' = [up EXCEPT ![c] = longer]
      BY <1>7 DEF PipeClosed
    <2> HIDE DEF last
    <2>3. \A j \in DOMAIN longer : \/ j \in DOMAIN up[c] /\ longer[j] = up[c][j]
                                   \/ longer[j] = last
      BY <2>1, AppendPlaces DEF TypeOK
    <2> HIDE DEF longer
    <2>4. ASSUME NEW d \in Client PROVE UpInv(d)'
      <3>1. up'[d] = IF d = c THEN longer ELSE up[d]
        BY <2>2 DEF TypeOK
      <3>2. \A i \in DOMAIN up'[d] :
               \/ \E j \in DOMAIN up[d] : up'[d][i] = up[d][j]
               \/ Fresh(up'[d][i], d)
        BY <2>1, <2>3, <3>1
      <3>3. QED
        BY <3>2, UpInvKept
    <2>5. QED
      BY <1>7, <2>4, UnchangedReturns, OwnParts DEF PipeClosed, dir, game
  <1>8. QED
    BY <1>1, <1>2, <1>4, <1>5, <1>6, <1>7 DEF LauncherStep

LEMMA MailTailReturns ==
  ASSUME TypeOK, OwnInv, NEW o \in Office, NEW x \in Box, mail[o][x] # <<>>,
         mail' = [mail EXCEPT ![o][x] = Tail(@)]
  PROVE  /\ \A p \in Office, b \in Box : MailReturns(p, b)'
         /\ Head(mail[o][x]) \in Envelope /\ ReturnedTo(o, Head(mail[o][x]))
  <1>0. /\ \A p \in Office, b \in Box : (p = o /\ b = x) \/ mail'[p][b] = mail[p][b]
        /\ 1 \in DOMAIN mail[o][x] /\ Head(mail[o][x]) = mail[o][x][1]
        /\ Head(mail[o][x]) \in Envelope
        /\ \A i \in DOMAIN mail'[o][x] :
              i + 1 \in DOMAIN mail[o][x] /\ i + 1 # 1 /\ mail'[o][x][i] = mail[o][x][i + 1]
    BY MailTail
  <1>1. ASSUME NEW p \in Office, NEW b \in Box PROVE MailReturns(p, b)'
    <2>1. \A i \in DOMAIN mail'[p][b] :
             \E j \in DOMAIN mail[p][b] : mail'[p][b][i] = mail[p][b][j]
      BY <1>0
    <2>2. QED
      BY <2>1, MailReturnsKept DEF OwnInv
  <1>2. MailReturns(o, x)
    BY DEF OwnInv, ReturnsInv
  <1>3. /\ 1 \in DOMAIN mail[o][x] /\ Head(mail[o][x]) = mail[o][x][1]
        /\ Head(mail[o][x]) \in Envelope
    BY <1>0
  <1>4. ReturnedTo(o, Head(mail[o][x]))
    BY <1>2, <1>3 DEF MailReturns
  <1>5. QED
    BY <1>1, <1>3, <1>4

LEMMA OwnInvMailbox ==
  ASSUME DistinctProfiles, TypeOK, OwnInv, NEW o \in Office, MailboxStep(o)
  PROVE  OwnInv'
  <1>1. ASSUME NEW b \in Box, ProcessReply(o, b) PROVE OwnInv'
    <2> DEFINE r == Head(mail[o][b])
               a == [seq |-> r.seq, caller |-> r.of, status |-> r.status]
    <2>1. /\ \A p \in Office, x \in Box : MailReturns(p, x)'
          /\ r \in Envelope /\ ReturnedTo(o, r) /\ r.mode = "reply"
      BY <1>1, MailTailReturns DEF ProcessReply
    <2>2. /\ UNCHANGED <<up, down, held, outgoing, profile, known, identity>>
          /\ \/ answers' = answers
             \/ answers' = [answers EXCEPT ![o] = Append(answers[o], a)]
      BY <1>1 DEF ProcessReply, net, dir, game
    <2>3. a.caller = o /\ a \in [seq : Nat, caller : Office, status : Status]
      BY <2>1 DEF ReturnedTo, Envelope
    <2> HIDE DEF a, r
    <2>4. ProfilesInv' /\ ReturnsInv'
      BY <2>1, <2>2 DEF OwnInv, ProfilesInv, ReturnsInv, UpReturns, DownReturns, HeldReturns
    <2>5. AnswersAreOwn'
      <3>1. CASE answers' = answers
        BY <3>1 DEF OwnInv, AnswersAreOwn
      <3>2. CASE answers' = [answers EXCEPT ![o] = Append(answers[o], a)]
        <4> DEFINE longer == Append(answers[o], a)
        <4>1. \A i \in DOMAIN longer : \/ i \in DOMAIN answers[o] /\ longer[i] = answers[o][i]
                                       \/ longer[i] = a
          BY <2>3, AppendPlaces DEF TypeOK
        <4>2. \A p \in Office : answers'[p] = IF p = o THEN longer ELSE answers[p]
          BY <3>2 DEF TypeOK
        <4> HIDE DEF longer
        <4>3. QED
          BY <2>3, <4>1, <4>2 DEF OwnInv, AnswersAreOwn
      <3>3. QED
        BY <2>2, <3>1, <3>2
    <2>6. QED
      BY <2>4, <2>5 DEF OwnInv
  <1>2. ASSUME NEW b \in Box, ProcessMessage(o, b) PROVE OwnInv'
    <2> DEFINE m == Head(mail[o][b])
    <2>1. /\ \A p \in Office, x \in Box : MailReturns(p, x)'
          /\ m \in Envelope /\ ReturnedTo(o, m)
      BY <1>2, MailTailReturns DEF ProcessMessage
    <2>2. /\ UNCHANGED <<up, down, outgoing, profile, known, identity, answers>>
          /\ \/ held' = held
             \/ m.mode = "call" /\ held' = [held EXCEPT ![o] = @ \cup {m}]
      BY <1>2 DEF ProcessMessage, net, dir, game
    <2> HIDE DEF m
    <2>3. \A p \in Office : HeldReturns(p)'
      <3>1. Returns(m)
        BY <2>1 DEF ReturnedTo
      <3>2. \A p \in Office :
               \/ held'[p] = held[p]
               \/ m.mode = "call" /\ held'[p] = held[p] \cup {m}
        BY <2>2 DEF TypeOK
      <3>3. QED
        BY <3>1, <3>2 DEF OwnInv, ReturnsInv, HeldReturns
    <2>4. QED
      BY <2>1, <2>2, <2>3, UnchangedReturns, OwnParts
  <1>3. ASSUME NEW m \in held[o], Answer(o, m) PROVE OwnInv'
    <2> DEFINE r == ReplyTo(m, o, "ok")
    <2>1. m \in Envelope /\ m.mode = "call" /\ Returns(m)
      BY DEF TypeOK, OwnInv, ReturnsInv, HeldReturns
    <2>2. r \in Envelope /\ r.mode = "reply" /\ Returns(r)
      BY <2>1, ReplyToType, ReplyReturns DEF Status
    <2>3. /\ UNCHANGED <<outgoing, profile, known, identity, answers>>
          /\ held' = [held EXCEPT ![o] = @ \ {m}]
          /\ \/ UNCHANGED <<mail, up, down>>
             \/ Deliver(ProcessOutgoingMessage(r)) /\ UNCHANGED up
             \/ o # Launcher /\ ClientReply(o, r) /\ UNCHANGED down
      BY <1>3 DEF Answer, dir, game
    <2> HIDE DEF r
    <2>4. \A p \in Office : HeldReturns(p)'
      BY <2>3 DEF TypeOK, OwnInv, ReturnsInv, HeldReturns
    <2>5. CASE UNCHANGED <<mail, up, down>>
      BY <2>3, <2>4, <2>5, UnchangedReturns, OwnParts
    <2>6. CASE Deliver(ProcessOutgoingMessage(r)) /\ UNCHANGED up
      <3>1. /\ ProcessOutgoingMessage(r) \in SUBSET Delivery
            /\ Returned(ProcessOutgoingMessage(r))
        BY <2>2, ProcessOutgoingMessageType, RouteReturns DEF OwnInv
      <3>2. /\ \A c \in Client : DownReturns(c)'
            /\ \A p \in Office, b \in Box : MailReturns(p, b)'
        BY <2>6, <3>1, DeliverReturns DEF OwnInv
      <3>3. QED
        BY <2>3, <2>4, <2>6, <3>2, UnchangedReturns, OwnParts
    <2>7. CASE o # Launcher /\ ClientReply(o, r) /\ UNCHANGED down
      <3>1. o \in Client
        BY <2>7 DEF Office
      <3>2. /\ \A d \in Client : UpInv(d)'
            /\ \A p \in Office, b \in Box : MailReturns(p, b)'
        BY <2>2, <2>7, <3>1, ClientReplyReturns
      <3>3. QED
        BY <2>3, <2>4, <2>7, <3>2, UnchangedReturns, OwnParts
    <2>8. QED
      BY <2>3, <2>5, <2>6, <2>7
  <1>4. QED
    BY <1>1, <1>2, <1>3 DEF MailboxStep

LEMMA OwnInvNext == DistinctProfiles /\ TypeOK /\ OwnInv /\ [Next]_vars => OwnInv'
  <1>1. ASSUME OwnInv, UNCHANGED vars PROVE OwnInv'
    BY <1>1 DEF vars, OwnInv, ProfilesInv, ReturnsInv, AnswersAreOwn, UpReturns, DownReturns,
                MailReturns, HeldReturns
  <1>2. QED
    BY <1>1, OwnInvClient, OwnInvLauncher, OwnInvMailbox DEF Next

\* When no profile that the game may give a client is part of one it may give
\* another, a callback only ever gets the reply to its own call, for any number
\* of clients, that change their profile, crash and remove mailboxes meanwhile.
THEOREM AnswersAreOwnCorrect ==
  ASSUME DistinctProfiles
  PROVE  Spec => []AnswersAreOwn
  <1>1. Init => TypeOK /\ OwnInv
    BY InitType, OwnInvInit
  <1>2. TypeOK /\ OwnInv /\ [Next]_vars => (TypeOK /\ OwnInv)'
    BY NextType, OwnInvNext
  <1>3. OwnInv => AnswersAreOwn
    BY DEF OwnInv
  <1>4. QED
    BY <1>1, <1>2, <1>3, PTL DEF Spec

-----------------------------------------------------------------------------
(* Tokens and where they are.                                               *)

\* A call or its outcome: whose it is, its number, and what has become of it.
What(m) == IF m.mode = "call" THEN "call" ELSE IF m.status = "ok" THEN "ok" ELSE "error"

Tokens(kinds, m) == IF m.mode \in kinds THEN {<<m.of, m.seq, What(m)>>} ELSE {}

\* What may become of it when a post office routes it.
Outcomes(kinds, m) ==
    Tokens(kinds, m) \cup (IF m.mode = "call" THEN {<<m.of, m.seq, "error">>} ELSE {})

SameCall(x, y) == x[1] = y[1] /\ x[2] = y[2]

Chan == {<<"outgoing">>, <<"executed">>}
        \cup {<<"up", c>> : c \in Client} \cup {<<"down", c>> : c \in Client}
        \cup {<<"mail", o, b>> : o \in Office, b \in Box}
        \cup {<<"held", o>> : o \in Office} \cup {<<"answers", o>> : o \in Office}

\* Calls: to follow a call until an actor has received it.  CallsAndReplies: to
\* follow it until its caller has the answer.
Calls == {"call"}
CallsAndReplies == {"call", "reply"}

ExecutedTokens(kinds, x) == IF "reply" \in kinds THEN {} ELSE {<<x.caller, x.seq, "done">>}
PipeTokens(kinds, x) == IF x.kind = "route" THEN Tokens(kinds, x.env) ELSE {}
HeldTokens(kinds, m) == IF "reply" \in kinds THEN {<<m.of, m.seq, "held">>} ELSE {}
AnswerTokens(kinds, a) ==
    IF "reply" \in kinds THEN {<<a.caller, a.seq, IF a.status = "ok" THEN "ok" ELSE "error">>}
    ELSE {}

Contents(kinds, ch) ==
    CASE ch[1] = "outgoing" -> [i \in DOMAIN outgoing |-> Tokens(kinds, outgoing[i])]
      [] ch[1] = "executed" -> [i \in DOMAIN executed |-> ExecutedTokens(kinds, executed[i])]
      [] ch[1] = "up"       -> [i \in DOMAIN up[ch[2]] |-> PipeTokens(kinds, up[ch[2]][i])]
      [] ch[1] = "down"     -> [i \in DOMAIN down[ch[2]] |-> Tokens(kinds, down[ch[2]][i])]
      [] ch[1] = "mail"     -> [i \in DOMAIN mail[ch[2]][ch[3]] |->
                                   Tokens(kinds, mail[ch[2]][ch[3]][i])]
      [] ch[1] = "held"     -> [m \in held[ch[2]] |-> HeldTokens(kinds, m)]
      [] ch[1] = "answers"  -> [i \in DOMAIN answers[ch[2]] |->
                                   AnswerTokens(kinds, answers[ch[2]][i])]

Flow(kinds) == [ch \in Chan |-> Contents(kinds, ch)]

\* A call is in one place.
Once(q) ==
    \A c, d \in DOMAIN q : \A i \in DOMAIN q[c], j \in DOMAIN q[d] :
        \A x \in q[c][i], y \in q[d][j] : SameCall(x, y) => c = d /\ i = j

\* r[ch] holds what q[ch] did, and at most X at place e of channel t besides.
Landed(q, r, ch, t, e, X) ==
    \A i \in DOMAIN r[ch] : \A x \in r[ch][i] :
        \/ i \in DOMAIN q[ch] /\ x \in q[ch][i]
        \/ ch = t /\ i = e /\ x \in X

\* r[s] holds what q[s] did without place h.
Taken(q, r, s, h, org) ==
    /\ \A i \in DOMAIN r[s] : /\ org[i] \in DOMAIN q[s] /\ org[i] # h
                              /\ r[s][i] \subseteq q[s][org[i]]
    /\ \A i, j \in DOMAIN r[s] : org[i] = org[j] => i = j

LEMMA OnceMoved ==
  ASSUME NEW q, NEW r, DOMAIN r = DOMAIN q, Once(q),
         NEW s \in DOMAIN q, NEW h \in DOMAIN q[s], NEW org, NEW t, NEW e, NEW X,
         \A ch \in DOMAIN q : ch # s => Landed(q, r, ch, t, e, X),
         Taken(q, r, s, h, org),
         \A x \in X : \E y \in q[s][h] : SameCall(x, y)
  PROVE  Once(r)
  <1> SUFFICES ASSUME NEW c \in DOMAIN r, NEW d \in DOMAIN r, NEW i \in DOMAIN r[c],
                      NEW j \in DOMAIN r[d], NEW x \in r[c][i], NEW y \in r[d][j], SameCall(x, y)
               PROVE  c = d /\ i = j
    BY DEF Once
  <1>1. c # s => \/ i \in DOMAIN q[c] /\ x \in q[c][i]
                 \/ c = t /\ i = e /\ x \in X
    BY DEF Landed
  <1>2. d # s => \/ j \in DOMAIN q[d] /\ y \in q[d][j]
                 \/ d = t /\ j = e /\ y \in X
    BY DEF Landed
  <1>3. c = s => org[i] \in DOMAIN q[s] /\ org[i] # h /\ x \in q[s][org[i]]
    BY DEF Taken
  <1>4. d = s => org[j] \in DOMAIN q[s] /\ org[j] # h /\ y \in q[s][org[j]]
    BY DEF Taken
  <1>5. ASSUME NEW k \in DOMAIN q, NEW n \in DOMAIN q[k], NEW z \in q[k][n], NEW w \in X,
               SameCall(z, w) \/ SameCall(w, z)
        PROVE  k = s /\ n = h
    <2>1. PICK v \in q[s][h] : SameCall(w, v)
      OBVIOUS
    <2>2. SameCall(z, v)
      BY <1>5, <2>1 DEF SameCall
    <2>3. QED
      BY <2>1, <2>2 DEF Once
  <1>6. CASE c = s /\ d = s
    <2>1. org[i] = org[j]
      BY <1>3, <1>4, <1>6 DEF Once
    <2>2. QED
      BY <1>6, <2>1 DEF Taken
  <1>7. CASE c = s /\ d # s
    <2>1. CASE j \in DOMAIN q[d] /\ y \in q[d][j]
      BY <1>3, <1>7, <2>1 DEF Once
    <2>2. CASE y \in X
      BY <1>3, <1>5, <1>7, <2>2
    <2>3. QED
      BY <1>2, <1>7, <2>1, <2>2
  <1>8. CASE c # s /\ d = s
    <2>1. CASE i \in DOMAIN q[c] /\ x \in q[c][i]
      BY <1>4, <1>8, <2>1 DEF Once
    <2>2. CASE x \in X
      BY <1>4, <1>5, <1>8, <2>2
    <2>3. QED
      BY <1>1, <1>8, <2>1, <2>2
  <1>9. CASE c # s /\ d # s
    <2>1. CASE i \in DOMAIN q[c] /\ x \in q[c][i] /\ j \in DOMAIN q[d] /\ y \in q[d][j]
      BY <2>1 DEF Once
    <2>2. CASE i \in DOMAIN q[c] /\ x \in q[c][i] /\ y \in X
      BY <1>5, <1>9, <2>2
    <2>3. CASE x \in X /\ j \in DOMAIN q[d] /\ y \in q[d][j]
      BY <1>5, <1>9, <2>3
    <2>4. CASE c = t /\ i = e /\ d = t /\ j = e
      BY <2>4
    <2>5. QED
      BY <1>1, <1>2, <1>9, <2>1, <2>2, <2>3, <2>4
  <1>10. QED
    BY <1>6, <1>7, <1>8, <1>9

LEMMA OnceAdded ==
  ASSUME NEW q, NEW r, DOMAIN r = DOMAIN q, Once(q), NEW t, NEW e, NEW X,
         \A ch \in DOMAIN q : Landed(q, r, ch, t, e, X),
         \A x \in X : \A ch \in DOMAIN q : \A i \in DOMAIN q[ch] : \A y \in q[ch][i] :
            ~ SameCall(x, y)
  PROVE  Once(r)
  <1> SUFFICES ASSUME NEW c \in DOMAIN r, NEW d \in DOMAIN r, NEW i \in DOMAIN r[c],
                      NEW j \in DOMAIN r[d], NEW x \in r[c][i], NEW y \in r[d][j], SameCall(x, y)
               PROVE  c = d /\ i = j
    BY DEF Once
  <1>1. \/ i \in DOMAIN q[c] /\ x \in q[c][i]
        \/ c = t /\ i = e /\ x \in X
    BY DEF Landed
  <1>2. \/ j \in DOMAIN q[d] /\ y \in q[d][j]
        \/ d = t /\ j = e /\ y \in X
    BY DEF Landed
  <1>3. SameCall(y, x)
    BY DEF SameCall
  <1>4. CASE i \in DOMAIN q[c] /\ x \in q[c][i] /\ j \in DOMAIN q[d] /\ y \in q[d][j]
    BY <1>4 DEF Once
  <1>5. QED
    BY <1>1, <1>2, <1>3, <1>4

LEMMA Channels ==
  /\ <<"outgoing">> \in Chan /\ <<"executed">> \in Chan
  /\ \A c \in Client : <<"up", c>> \in Chan /\ <<"down", c>> \in Chan
  /\ \A o \in Office : /\ \A b \in Box : <<"mail", o, b>> \in Chan
                       /\ <<"held", o>> \in Chan /\ <<"answers", o>> \in Chan
  BY DEF Chan

\* kinds, and q: the places of a flow and what they hold.
FlowParts(kinds, q) ==
    /\ DOMAIN q = Chan
    /\ DOMAIN q[<<"outgoing">>] = DOMAIN outgoing
    /\ \A i \in DOMAIN outgoing : q[<<"outgoing">>][i] = Tokens(kinds, outgoing[i])
    /\ DOMAIN q[<<"executed">>] = DOMAIN executed
    /\ \A i \in DOMAIN executed : q[<<"executed">>][i] = ExecutedTokens(kinds, executed[i])
    /\ \A c \in Client :
          /\ DOMAIN q[<<"up", c>>] = DOMAIN up[c]
          /\ \A i \in DOMAIN up[c] : q[<<"up", c>>][i] = PipeTokens(kinds, up[c][i])
          /\ DOMAIN q[<<"down", c>>] = DOMAIN down[c]
          /\ \A i \in DOMAIN down[c] : q[<<"down", c>>][i] = Tokens(kinds, down[c][i])
    /\ \A o \in Office : \A b \in Box :
          /\ DOMAIN q[<<"mail", o, b>>] = DOMAIN mail[o][b]
          /\ \A i \in DOMAIN mail[o][b] : q[<<"mail", o, b>>][i] = Tokens(kinds, mail[o][b][i])
    /\ \A o \in Office :
          /\ DOMAIN q[<<"held", o>>] = held[o]
          /\ \A m \in held[o] : q[<<"held", o>>][m] = HeldTokens(kinds, m)
          /\ DOMAIN q[<<"answers", o>>] = DOMAIN answers[o]
          /\ \A i \in DOMAIN answers[o] :
                q[<<"answers", o>>][i] = AnswerTokens(kinds, answers[o][i])

LEMMA FlowIs ==
  ASSUME NEW kinds
  PROVE  FlowParts(kinds, Flow(kinds))
  <1> DEFINE q == Flow(kinds)
  <1>1. DOMAIN q = Chan /\ \A ch \in Chan : q[ch] = Contents(kinds, ch)
    BY DEF Flow
  <1> HIDE DEF q
  <1>2. /\ DOMAIN q[<<"outgoing">>] = DOMAIN outgoing
        /\ \A i \in DOMAIN outgoing : q[<<"outgoing">>][i] = Tokens(kinds, outgoing[i])
    <2>1. q[<<"outgoing">>] = Contents(kinds, <<"outgoing">>)
      BY <1>1, Channels
    <2>2. QED
      BY <2>1 DEF Contents
  <1>3. /\ DOMAIN q[<<"executed">>] = DOMAIN executed
        /\ \A i \in DOMAIN executed : q[<<"executed">>][i] = ExecutedTokens(kinds, executed[i])
    <2>1. q[<<"executed">>] = Contents(kinds, <<"executed">>)
      BY <1>1, Channels
    <2>2. QED
      BY <2>1 DEF Contents
  <1>4. ASSUME NEW c \in Client
        PROVE  /\ DOMAIN q[<<"up", c>>] = DOMAIN up[c]
               /\ \A i \in DOMAIN up[c] : q[<<"up", c>>][i] = PipeTokens(kinds, up[c][i])
               /\ DOMAIN q[<<"down", c>>] = DOMAIN down[c]
               /\ \A i \in DOMAIN down[c] : q[<<"down", c>>][i] = Tokens(kinds, down[c][i])
    <2>1. /\ q[<<"up", c>>] = Contents(kinds, <<"up", c>>)
          /\ q[<<"down", c>>] = Contents(kinds, <<"down", c>>)
      BY <1>1, Channels
    <2>2. QED
      BY <2>1 DEF Contents
  <1>5. ASSUME NEW o \in Office, NEW b \in Box
        PROVE  /\ DOMAIN q[<<"mail", o, b>>] = DOMAIN mail[o][b]
               /\ \A i \in DOMAIN mail[o][b] :
                     q[<<"mail", o, b>>][i] = Tokens(kinds, mail[o][b][i])
    <2>1. q[<<"mail", o, b>>] = Contents(kinds, <<"mail", o, b>>)
      BY <1>1, Channels
    <2>2. QED
      BY <2>1 DEF Contents
  <1>6. ASSUME NEW o \in Office
        PROVE  /\ DOMAIN q[<<"held", o>>] = held[o]
               /\ \A m \in held[o] : q[<<"held", o>>][m] = HeldTokens(kinds, m)
               /\ DOMAIN q[<<"answers", o>>] = DOMAIN answers[o]
               /\ \A i \in DOMAIN answers[o] :
                     q[<<"answers", o>>][i] = AnswerTokens(kinds, answers[o][i])
    <2>1. /\ q[<<"held", o>>] = Contents(kinds, <<"held", o>>)
          /\ q[<<"answers", o>>] = Contents(kinds, <<"answers", o>>)
      BY <1>1, Channels
    <2>2. QED
      BY <2>1 DEF Contents
  <1>7. QED
    BY <1>1, <1>2, <1>3, <1>4, <1>5, <1>6 DEF q, FlowParts

LEMMA FlowWillBe ==
  ASSUME NEW kinds
  PROVE  FlowParts(kinds, Flow(kinds))'
  <1>1. FlowParts(kinds, Flow(kinds))
    BY FlowIs
  <1>2. QED
    BY <1>1, PTL

-----------------------------------------------------------------------------
(* What a step puts into a channel.                                         *)

Lands(kinds, ch, t, e, X) == Landed(Flow(kinds), Flow(kinds)', ch, t, e, X)

LEMMA StayedLands ==
  ASSUME NEW kinds, NEW t, NEW e, NEW X
  PROVE  /\ outgoing' = outgoing => Lands(kinds, <<"outgoing">>, t, e, X)
         /\ executed' = executed => Lands(kinds, <<"executed">>, t, e, X)
         /\ \A c \in Client :
               /\ up'[c] = up[c] => Lands(kinds, <<"up", c>>, t, e, X)
               /\ down'[c] = down[c] => Lands(kinds, <<"down", c>>, t, e, X)
         /\ \A o \in Office :
               /\ \A b \in Box : mail'[o][b] = mail[o][b] => Lands(kinds, <<"mail", o, b>>, t, e, X)
               /\ held'[o] = held[o] => Lands(kinds, <<"held", o>>, t, e, X)
               /\ answers'[o] = answers[o] => Lands(kinds, <<"answers", o>>, t, e, X)
  <1> DEFINE q == Flow(kinds)
  <1>1. FlowParts(kinds, q)
    BY FlowIs
  <1>2. FlowParts(kinds, q)'
    BY FlowWillBe
  <1> HIDE DEF q
  <1>3. outgoing' = outgoing => Landed(q, q', <<"outgoing">>, t, e, X)
    BY <1>1, <1>2 DEF FlowParts, Landed
  <1>4. executed' = executed => Landed(q, q', <<"executed">>, t, e, X)
    BY <1>1, <1>2 DEF FlowParts, Landed
  <1>5. ASSUME NEW c \in Client
        PROVE  /\ up'[c] = up[c] => Landed(q, q', <<"up", c>>, t, e, X)
               /\ down'[c] = down[c] => Landed(q, q', <<"down", c>>, t, e, X)
    BY <1>1, <1>2 DEF FlowParts, Landed
  <1>6. ASSUME NEW o \in Office, NEW b \in Box
        PROVE  mail'[o][b] = mail[o][b] => Landed(q, q', <<"mail", o, b>>, t, e, X)
    BY <1>1, <1>2 DEF FlowParts, Landed
  <1>7. ASSUME NEW o \in Office
        PROVE  /\ held'[o] = held[o] => Landed(q, q', <<"held", o>>, t, e, X)
               /\ answers'[o] = answers[o] => Landed(q, q', <<"answers", o>>, t, e, X)
    BY <1>1, <1>2 DEF FlowParts, Landed
  <1>8. QED
    BY <1>3, <1>4, <1>5, <1>6, <1>7 DEF Lands, q

\* Putting the channels together.
LEMMA ChannelsLand ==
  ASSUME NEW kinds, NEW s, NEW t, NEW e, NEW X,
         outgoing' = outgoing \/ <<"outgoing">> = s \/ Lands(kinds, <<"outgoing">>, t, e, X),
         executed' = executed \/ Lands(kinds, <<"executed">>, t, e, X),
         up' = up \/ \A c \in Client : <<"up", c>> # s => Lands(kinds, <<"up", c>>, t, e, X),
         down' = down \/ \A c \in Client : <<"down", c>> # s => Lands(kinds, <<"down", c>>, t, e, X),
         mail' = mail \/ \A o \in Office, b \in Box :
                            <<"mail", o, b>> # s => Lands(kinds, <<"mail", o, b>>, t, e, X),
         held' = held \/ \A o \in Office : <<"held", o>> # s => Lands(kinds, <<"held", o>>, t, e, X),
         answers' = answers \/ \A o \in Office : Lands(kinds, <<"answers", o>>, t, e, X)
  PROVE  \A ch \in Chan : ch # s => Lands(kinds, ch, t, e, X)
  <1>1. <<"outgoing">> = s \/ Lands(kinds, <<"outgoing">>, t, e, X)
    BY StayedLands
  <1>2. Lands(kinds, <<"executed">>, t, e, X)
    BY StayedLands
  <1>3. \A c \in Client : <<"up", c>> # s => Lands(kinds, <<"up", c>>, t, e, X)
    BY StayedLands
  <1>4. \A c \in Client : <<"down", c>> # s => Lands(kinds, <<"down", c>>, t, e, X)
    BY StayedLands
  <1>5. \A o \in Office, b \in Box : <<"mail", o, b>> # s => Lands(kinds, <<"mail", o, b>>, t, e, X)
    BY StayedLands
  <1>6. \A o \in Office : <<"held", o>> # s => Lands(kinds, <<"held", o>>, t, e, X)
    BY StayedLands
  <1>7. \A o \in Office : Lands(kinds, <<"answers", o>>, t, e, X)
    BY StayedLands
  <1>8. QED
    BY <1>1, <1>2, <1>3, <1>4, <1>5, <1>6, <1>7 DEF Chan

-----------------------------------------------------------------------------
(* A call is routed to one place, or to one place as its refusal.           *)

\* What is known of a message that is followed: nothing for calls, that its
\* reply finds its caller for calls and replies.
Traced(kinds, m) ==
    \/ kinds = Calls
    \/ kinds = CallsAndReplies /\ DistinctProfiles /\ ProfilesInv /\ Returns(m)

Single(kinds, sent) ==
    \A d, f \in sent : Tokens(kinds, d[2]) # {} /\ Tokens(kinds, f[2]) # {} => d = f

Sends(kinds, m, sent) ==
    /\ Single(kinds, sent)
    /\ \A d \in sent : Tokens(kinds, d[2]) \subseteq Outcomes(kinds, m)

LEMMA ReplyTokens ==
  ASSUME NEW kinds, NEW m, m.mode = "call", NEW from, NEW status
  PROVE  /\ kinds = Calls => Tokens(kinds, ReplyTo(m, from, status)) = {}
         /\ Tokens(kinds, ReplyTo(m, from, status))
               \subseteq {<<m.of, m.seq, IF status = "ok" THEN "ok" ELSE "error">>}
  BY DEF Tokens, ReplyTo, What, Calls

LEMMA OutcomesOf ==
  ASSUME NEW kinds, "call" \in kinds, NEW m
  PROVE  /\ Tokens(kinds, m) \subseteq Outcomes(kinds, m)
         /\ \A x \in Outcomes(kinds, m) : \E y \in Tokens(kinds, m) : SameCall(x, y)
         /\ m.mode \notin kinds => Outcomes(kinds, m) = {}
  <1>1. ASSUME NEW x \in Outcomes(kinds, m) PROVE \E y \in Tokens(kinds, m) : SameCall(x, y)
    <2> DEFINE y == <<m.of, m.seq, What(m)>>
    <2>1. m.mode \in kinds /\ x[1] = m.of /\ x[2] = m.seq
      BY DEF Outcomes, Tokens
    <2>2. y \in Tokens(kinds, m)
      BY <2>1 DEF Tokens
    <2>3. SameCall(x, y)
      BY <2>1 DEF SameCall
    <2>4. QED
      BY <2>2, <2>3
  <1>2. QED
    BY <1>1 DEF Outcomes, Tokens

LEMMA FailedSends ==
  ASSUME TypeOK, NEW kinds, NEW m \in Envelope, Traced(kinds, m), NEW status, status # "ok"
  PROVE  Sends(kinds, m, Failed(m, status))
  <1>1. CASE m.mode # "call"
    BY <1>1 DEF Failed, Sends, Single
  <1>2. CASE m.mode = "call"
    <2> DEFINE r == ReplyTo(m, Launcher, status)
               to == {p \in Recipients(r.addr) : Reachable(p, r.addr.box)}
    <2>1. Failed(m, status) = {<<o, r>> : o \in to}
      BY <1>2 DEF Failed
    <2>2. /\ kinds = Calls => Tokens(kinds, r) = {}
          /\ Tokens(kinds, r) \subseteq Outcomes(kinds, m)
      BY <1>2, ReplyTokens DEF Outcomes
    <2>3. ASSUME kinds # Calls PROVE to \subseteq {m.of}
      <3>1. r.addr = m.ret /\ IsReturn(m.ret, m.of) /\ m.of \in Office
        BY <1>2, <2>3 DEF Traced, ReplyTo, Returns, Envelope
      <3>2. Recipients(r.addr) \subseteq {m.of}
        BY <2>3, <3>1, OnlyTheCaller DEF Traced
      <3>3. QED
        BY <3>2
    <2> HIDE DEF r, to
    <2>4. QED
      BY <2>1, <2>2, <2>3 DEF Sends, Single
  <1>3. QED
    BY <1>1, <1>2

LEMMA SendMessageSends ==
  ASSUME TypeOK, NEW kinds, "call" \in kinds, NEW m \in Envelope, Traced(kinds, m), NEW o
  PROVE  Sends(kinds, m, SendMessage(o, m))
  <1>1. Sends(kinds, m, {<<o, m>>})
    BY OutcomesOf DEF Sends, Single
  <1>2. /\ Sends(kinds, m, Failed(m, "RoutingFailed"))
        /\ Sends(kinds, m, Failed(m, "NoConnection"))
    BY FailedSends
  <1>3. QED
    BY <1>1, <1>2 DEF SendMessage

LEMMA FillTokens ==
  ASSUME NEW kinds, NEW m \in Envelope, NEW o
  PROVE  /\ FillAddress(m, o).mode = m.mode
         /\ Tokens(kinds, FillAddress(m, o)) = Tokens(kinds, m)
         /\ Outcomes(kinds, FillAddress(m, o)) = Outcomes(kinds, m)
  <1> DEFINE f == FillAddress(m, o)
  <1>1. f.mode = m.mode /\ f.of = m.of /\ f.seq = m.seq /\ f.status = m.status
    BY DEF FillAddress, Envelope
  <1> HIDE DEF f
  <1>2. QED
    BY <1>1 DEF f, Tokens, Outcomes, What

LEMMA AtMostOne ==
  ASSUME NEW S, IsFiniteSet(S), ~ (Cardinality(S) > 1)
  PROVE  \A x, y \in S : x = y
  <1>1. Cardinality(S) \in Nat
    BY FS_CardinalityType
  <1>2. Cardinality(S) = 0 \/ Cardinality(S) = 1
    BY <1>1
  <1>3. CASE Cardinality(S) = 0
    BY <1>3, FS_EmptySet
  <1>4. CASE Cardinality(S) = 1
    BY <1>4, FS_Singleton
  <1>5. QED
    BY <1>2, <1>3, <1>4

LEMMA SendToAllSends ==
  ASSUME TypeOK, NEW kinds, kinds = Calls \/ kinds = CallsAndReplies,
         NEW m \in Envelope, Traced(kinds, m),
         NEW recipients \in SUBSET (known \cup {Launcher}), IsFiniteSet(recipients),
         kinds # Calls /\ m.mode = "reply" => recipients \subseteq {m.of}
  PROVE  Sends(kinds, m, SendToAll(m, recipients))
  <1> DEFINE Sent(o) == SendMessage(o, FillAddress(m, o))
             all == UNION {Sent(o) : o \in recipients}
  <1>1. "call" \in kinds
    BY DEF Calls, CallsAndReplies
  <1>2. /\ Sends(kinds, m, Failed(m, "RoutingFailed"))
        /\ Sends(kinds, m, Failed(m, "Ambiguous"))
    BY FailedSends
  <1>3. ASSUME NEW o \in recipients PROVE Sends(kinds, m, Sent(o))
    <2> DEFINE f == FillAddress(m, o)
    <2>1. f \in Envelope
      BY FillAddressType DEF TypeOK, Office
    <2>2. Traced(kinds, f)
      BY FillReturns DEF Traced, ReturnedTo
    <2>3. Outcomes(kinds, f) = Outcomes(kinds, m)
      BY FillTokens
    <2> HIDE DEF f
    <2>4. Sends(kinds, f, SendMessage(o, f))
      BY <1>1, <2>1, <2>2, SendMessageSends
    <2>5. QED
      BY <2>3, <2>4 DEF Sends, f
  <1>4. ASSUME \A o, p \in recipients : o = p PROVE Sends(kinds, m, all)
    <2> HIDE DEF Sent
    <2>1. ASSUME NEW d \in all, NEW f \in all PROVE \E o \in recipients : d \in Sent(o) /\ f \in Sent(o)
      BY <1>4
    <2>2. QED
      BY <1>3, <2>1 DEF Sends, Single
  <1>5. ASSUME m.mode \notin kinds PROVE Sends(kinds, m, all)
    <2>1. \A d \in all : Tokens(kinds, d[2]) = {}
      <3>1. Outcomes(kinds, m) = {}
        BY <1>1, <1>5, OutcomesOf
      <3> HIDE DEF Sent
      <3>2. QED
        BY <1>3, <3>1 DEF Sends
    <2>2. QED
      BY <2>1 DEF Sends, Single
  <1>6. CASE m.mode = "call" /\ (recipients = {} \/ Cardinality(recipients) > 1)
    BY <1>2, <1>6 DEF SendToAll
  <1>7. CASE m.mode = "call" /\ ~ (recipients = {} \/ Cardinality(recipients) > 1)
    <2>1. SendToAll(m, recipients) = all
      BY <1>7 DEF SendToAll
    <2>2. QED
      BY <1>4, <1>7, <2>1, AtMostOne
  <1>8. CASE m.mode # "call"
    <2>1. SendToAll(m, recipients) = all
      BY <1>8 DEF SendToAll
    <2>2. m.mode = "reply" \/ m.mode = "message"
      BY <1>8 DEF Envelope
    <2>3. m.mode \notin kinds \/ \A o, p \in recipients : o = p
      BY <1>8, <2>2 DEF Calls, CallsAndReplies
    <2>4. QED
      BY <1>4, <1>5, <2>1, <2>3
  <1>9. QED
    BY <1>6, <1>7, <1>8

LEMMA RouteSends ==
  ASSUME TypeOK, IsFiniteSet(known), NEW kinds, kinds = Calls \/ kinds = CallsAndReplies,
         NEW m \in Envelope, Traced(kinds, m)
  PROVE  /\ Sends(kinds, m, RouteFromConnection(m))
         /\ Sends(kinds, m, ProcessOutgoingMessage(m))
  <1>1. IsFiniteSet(known \cup {Launcher})
    BY FS_AddElement
  <1>2. ASSUME NEW a \in {m.addr, LocalAddress(m.addr)}
        PROVE  Sends(kinds, m, SendToAll(m, Recipients(a)))
    <2>1. Recipients(a) \in SUBSET (known \cup {Launcher})
      BY DEF Recipients
    <2>2. IsFiniteSet(Recipients(a))
      BY <1>1, <2>1, FS_Subset
    <2>3. ASSUME kinds # Calls, m.mode = "reply" PROVE Recipients(a) \subseteq {m.of}
      <3>1. m.of \in Office /\ IsReturn(m.addr, m.of)
        BY <2>3 DEF Traced, Returns, Envelope
      <3>2. QED
        BY <1>2, <2>3, <3>1, OnlyTheCaller DEF Traced
    <2>4. QED
      BY <2>1, <2>2, <2>3, SendToAllSends
  <1>3. Sends(kinds, m, SendMessage(Launcher, m))
    BY SendMessageSends DEF Calls, CallsAndReplies
  <1>4. QED
    BY <1>2, <1>3 DEF RouteFromConnection, ProcessOutgoingMessage

-----------------------------------------------------------------------------
(* What the parts of a step put into the channels.                          *)

LEMMA DeliverLands ==
  ASSUME TypeOK, NEW kinds, NEW m, NEW sent \in SUBSET Delivery, Sends(kinds, m, sent),
         Deliver(sent)
  PROVE  \E t, e :
            /\ \A c \in Client : Lands(kinds, <<"down", c>>, t, e, Outcomes(kinds, m))
            /\ \A o \in Office, b \in Box : Lands(kinds, <<"mail", o, b>>, t, e, Outcomes(kinds, m))
  <1> DEFINE q == Flow(kinds)
             X == Outcomes(kinds, m)
  <1>1. FlowParts(kinds, q) /\ FlowParts(kinds, q)'
    BY FlowIs, FlowWillBe
  <1> HIDE DEF q, X
  <1>2. \A d \in sent : Tokens(kinds, d[2]) \subseteq X
    BY DEF Sends, X
  <1> DEFINE Place(d, t, e) ==
               /\ \A c \in Client : d[1] = c => t = <<"down", c>> /\ e = Len(down[c]) + 1
               /\ d[1] = Launcher => /\ t = <<"mail", Launcher, d[2].addr.box>>
                                     /\ e = Len(mail[Launcher][d[2].addr.box]) + 1
  <1>3. ASSUME NEW t, NEW e, \A d \in sent : Tokens(kinds, d[2]) # {} => Place(d, t, e)
        PROVE  /\ \A c \in Client : Landed(q, q', <<"down", c>>, t, e, X)
               /\ \A o \in Office, b \in Box : Landed(q, q', <<"mail", o, b>>, t, e, X)
    <2>1. ASSUME NEW c \in Client PROVE Landed(q, q', <<"down", c>>, t, e, X)
      <3>1. \A i \in DOMAIN down'[c] :
               \/ i \in DOMAIN down[c] /\ down'[c][i] = down[c][i]
               \/ /\ i = Len(down[c]) + 1
                  /\ \E d \in sent : d[1] = c /\ down'[c][i] = d[2]
        BY DeliverPlaces
      <3>2. ASSUME NEW i \in DOMAIN q'[<<"down", c>>], NEW x \in q'[<<"down", c>>][i]
            PROVE  \/ i \in DOMAIN q[<<"down", c>>] /\ x \in q[<<"down", c>>][i]
                   \/ <<"down", c>> = t /\ i = e /\ x \in X
        <4>1. i \in DOMAIN down'[c] /\ x \in Tokens(kinds, down'[c][i])
          BY <1>1, <3>2 DEF FlowParts
        <4>2. CASE i \in DOMAIN down[c] /\ down'[c][i] = down[c][i]
          <5>1. /\ i \in DOMAIN q[<<"down", c>>]
                /\ q[<<"down", c>>][i] = Tokens(kinds, down[c][i])
            BY <1>1, <4>2 DEF FlowParts
          <5>2. QED
            BY <4>1, <4>2, <5>1
        <4>3. ASSUME NEW d \in sent, d[1] = c, down'[c][i] = d[2], i = Len(down[c]) + 1
              PROVE  <<"down", c>> = t /\ i = e /\ x \in X
          BY <1>2, <1>3, <4>1, <4>3
        <4>4. QED
          BY <3>1, <4>1, <4>2, <4>3
      <3>3. QED
        BY <3>2 DEF Landed
    <2>2. ASSUME NEW b \in Box PROVE Landed(q, q', <<"mail", Launcher, b>>, t, e, X)
      <3>1. \A i \in DOMAIN mail'[Launcher][b] :
               \/ i \in DOMAIN mail[Launcher][b] /\ mail'[Launcher][b][i] = mail[Launcher][b][i]
               \/ /\ i = Len(mail[Launcher][b]) + 1
                  /\ \E d \in sent : d[1] = Launcher /\ d[2].addr.box = b
                                     /\ mail'[Launcher][b][i] = d[2]
        BY DeliverPlaces
      <3>2. ASSUME NEW i \in DOMAIN q'[<<"mail", Launcher, b>>],
                   NEW x \in q'[<<"mail", Launcher, b>>][i]
            PROVE  \/ i \in DOMAIN q[<<"mail", Launcher, b>>] /\ x \in q[<<"mail", Launcher, b>>][i]
                   \/ <<"mail", Launcher, b>> = t /\ i = e /\ x \in X
        <4>1. i \in DOMAIN mail'[Launcher][b] /\ x \in Tokens(kinds, mail'[Launcher][b][i])
          BY <1>1, <3>2, NoneNotOffice DEF FlowParts
        <4>2. CASE i \in DOMAIN mail[Launcher][b] /\ mail'[Launcher][b][i] = mail[Launcher][b][i]
          <5>1. /\ i \in DOMAIN q[<<"mail", Launcher, b>>]
                /\ q[<<"mail", Launcher, b>>][i] = Tokens(kinds, mail[Launcher][b][i])
            BY <1>1, <4>2, NoneNotOffice DEF FlowParts
          <5>2. QED
            BY <4>1, <4>2, <5>1
        <4>3. ASSUME NEW d \in sent, d[1] = Launcher, d[2].addr.box = b,
                     mail'[Launcher][b][i] = d[2], i = Len(mail[Launcher][b]) + 1
              PROVE  <<"mail", Launcher, b>> = t /\ i = e /\ x \in X
          BY <1>2, <1>3, <4>1, <4>3
        <4>4. QED
          BY <3>1, <4>1, <4>2, <4>3
      <3>3. QED
        BY <3>2 DEF Landed
    <2>3. ASSUME NEW c \in Client, NEW b \in Box PROVE Landed(q, q', <<"mail", c, b>>, t, e, X)
      <3>1. mail'[c][b] = mail[c][b]
        BY DeliverPlaces
      <3>2. QED
        BY <3>1, NoneNotOffice, StayedLands DEF Lands, q
    <2>4. QED
      BY <2>1, <2>2, <2>3 DEF Office
  <1>4. CASE \A d \in sent : Tokens(kinds, d[2]) = {}
    BY <1>3, <1>4 DEF Lands, q, X
  <1>5. ASSUME NEW d \in sent, Tokens(kinds, d[2]) # {}
        PROVE  \E t, e : /\ \A c \in Client : Lands(kinds, <<"down", c>>, t, e, X)
                         /\ \A o \in Office, b \in Box : Lands(kinds, <<"mail", o, b>>, t, e, X)
    <2>1. d[1] \in Office
      BY DEF Delivery
    <2>2. \A f \in sent : Tokens(kinds, f[2]) # {} => f = d
      BY <1>5 DEF Sends, Single
    <2>3. \E t, e : Place(d, t, e)
      <3>1. CASE d[1] = Launcher
        BY <3>1, OfficeAssumption
      <3>2. CASE d[1] # Launcher
        <4>1. Place(d, <<"down", d[1]>>, Len(down[d[1]]) + 1)
          BY <3>2
        <4>2. QED
          BY <4>1
      <3>3. QED
        BY <3>1, <3>2
    <2>4. PICK t, e : Place(d, t, e)
      BY <2>3
    <2> HIDE DEF Place
    <2>5. \A f \in sent : Tokens(kinds, f[2]) # {} => Place(f, t, e)
      BY <2>2, <2>4
    <2>6. QED
      BY <1>3, <2>5 DEF Lands, q
  <1>6. QED
    BY <1>4, <1>5 DEF X

LEMMA EnqueueLands ==
  ASSUME TypeOK, NEW kinds, NEW o \in Office, NEW m \in Envelope, mail' = Enqueue(o, m)
  PROVE  \E t, e : \A p \in Office, b \in Box :
            Lands(kinds, <<"mail", p, b>>, t, e, Tokens(kinds, m))
  <1> DEFINE q == Flow(kinds)
             X == Tokens(kinds, m)
             t == <<"mail", o, m.addr.box>>
             e == Len(mail[o][m.addr.box]) + 1
  <1>1. FlowParts(kinds, q) /\ FlowParts(kinds, q)'
    BY FlowIs, FlowWillBe
  <1> HIDE DEF q
  <1>2. ASSUME NEW p \in Office, NEW b \in Box, NEW i \in DOMAIN q'[<<"mail", p, b>>],
               NEW x \in q'[<<"mail", p, b>>][i]
        PROVE  \/ i \in DOMAIN q[<<"mail", p, b>>] /\ x \in q[<<"mail", p, b>>][i]
               \/ <<"mail", p, b>> = t /\ i = e /\ x \in X
    <2>1. i \in DOMAIN mail'[p][b] /\ x \in Tokens(kinds, mail'[p][b][i])
      BY <1>1, <1>2 DEF FlowParts
    <2>2. \/ i \in DOMAIN mail[p][b] /\ mail'[p][b][i] = mail[p][b][i]
          \/ p = o /\ b = m.addr.box /\ i = Len(mail[p][b]) + 1 /\ mail'[p][b][i] = m
      BY <2>1, EnqueuePlaces
    <2>3. QED
      BY <1>1, <2>1, <2>2 DEF FlowParts
  <1> HIDE DEF t, e, X
  <1>3. \A p \in Office, b \in Box : Lands(kinds, <<"mail", p, b>>, t, e, X)
    BY <1>2 DEF Lands, Landed, q
  <1>4. QED
    BY <1>3 DEF X

LEMMA WritePipeLands ==
  ASSUME TypeOK, NEW kinds, NEW c \in Client, NEW x \in PipeMessage, up' = WritePipe(c, x)
  PROVE  \E t, e : \A d \in Client : Lands(kinds, <<"up", d>>, t, e, PipeTokens(kinds, x))
  <1> DEFINE q == Flow(kinds)
             X == PipeTokens(kinds, x)
             t == <<"up", c>>
             e == Len(up[c]) + 1
  <1>1. FlowParts(kinds, q) /\ FlowParts(kinds, q)'
    BY FlowIs, FlowWillBe
  <1> HIDE DEF q
  <1>2. ASSUME NEW d \in Client, NEW i \in DOMAIN q'[<<"up", d>>], NEW y \in q'[<<"up", d>>][i]
        PROVE  \/ i \in DOMAIN q[<<"up", d>>] /\ y \in q[<<"up", d>>][i]
               \/ <<"up", d>> = t /\ i = e /\ y \in X
    <2>1. i \in DOMAIN up'[d] /\ y \in PipeTokens(kinds, up'[d][i])
      BY <1>1, <1>2 DEF FlowParts
    <2>2. CASE i \in DOMAIN up[d] /\ up'[d][i] = up[d][i]
      <3>1. i \in DOMAIN q[<<"up", d>>] /\ q[<<"up", d>>][i] = PipeTokens(kinds, up[d][i])
        BY <1>1, <2>2 DEF FlowParts
      <3>2. QED
        BY <2>1, <2>2, <3>1
    <2>3. CASE d = c /\ i = Len(up[c]) + 1 /\ up'[d][i] = x
      BY <2>1, <2>3
    <2>4. QED
      BY <2>1, <2>2, <2>3, WritePipePlaces
  <1> HIDE DEF t, e, X
  <1>3. \A d \in Client : Lands(kinds, <<"up", d>>, t, e, X)
    BY <1>2 DEF Lands, Landed, q
  <1>4. QED
    BY <1>3 DEF X

LEMMA ClientReplyLands ==
  ASSUME TypeOK, NEW kinds, NEW c \in Client, NEW r \in Envelope, ClientReply(c, r)
  PROVE  \E t, e :
            /\ \A d \in Client : Lands(kinds, <<"up", d>>, t, e, Tokens(kinds, r))
            /\ \A o \in Office, b \in Box : Lands(kinds, <<"mail", o, b>>, t, e, Tokens(kinds, r))
  <1>1. CASE r.addr.uuid = c
    <2>1. mail' = Enqueue(c, r) /\ up' = up /\ c \in Office
      BY <1>1, NoneNotOffice DEF ClientReply
    <2>2. QED
      BY <2>1, EnqueueLands, StayedLands
  <1>2. CASE r.addr.uuid # c
    <2> DEFINE x == [kind |-> "route", env |-> r]
    <2>1. up' = WritePipe(c, x) /\ mail' = mail
      BY <1>2 DEF ClientReply
    <2>2. x \in PipeMessage /\ PipeTokens(kinds, x) = Tokens(kinds, r)
      BY RouteInPipe DEF PipeTokens
    <2>3. QED
      BY <2>1, <2>2, WritePipeLands, StayedLands
  <1>3. QED
    BY <1>1, <1>2

LEMMA LandsMore ==
  ASSUME NEW kinds, NEW ch, NEW t, NEW e, NEW X, NEW Y, X \subseteq Y, Lands(kinds, ch, t, e, X)
  PROVE  Lands(kinds, ch, t, e, Y)
  BY DEF Lands, Landed

LEMMA ArriveLands ==
  ASSUME TypeOK, NEW kinds, NEW c \in Client, NEW m \in Envelope, Arrive(c, m)
  PROVE  \E t, e :
            /\ \A d \in Client : Lands(kinds, <<"up", d>>, t, e, Outcomes(kinds, m))
            /\ \A o \in Office, b \in Box : Lands(kinds, <<"mail", o, b>>, t, e, Outcomes(kinds, m))
  <1>1. CASE m.mode = "call" /\ Refusal(c, m) # "ok"
    <2> DEFINE r == ReplyTo(m, c, Refusal(c, m))
    <2>1. Refusal(c, m) \in Status
      BY DEF Refusal, Status
    <2>2. r \in Envelope
      BY <2>1, NoneNotOffice, ReplyToType
    <2>3. ClientReply(c, r)
      BY <1>1 DEF Arrive
    <2>4. Tokens(kinds, r) \subseteq Outcomes(kinds, m)
      BY <1>1, ReplyTokens DEF Outcomes
    <2> HIDE DEF r
    <2>5. QED
      BY <2>2, <2>3, <2>4, ClientReplyLands, LandsMore
  <1>2. CASE ~ (m.mode = "call" /\ Refusal(c, m) # "ok")
    <2>1. mail' = Enqueue(c, m) /\ up' = up /\ c \in Office
      BY <1>2, NoneNotOffice DEF Arrive
    <2>2. Tokens(kinds, m) \subseteq Outcomes(kinds, m)
      BY DEF Outcomes
    <2> DEFINE X == Tokens(kinds, m)
    <2>3. PICK t, e : \A o \in Office, b \in Box : Lands(kinds, <<"mail", o, b>>, t, e, X)
      BY <2>1, EnqueueLands
    <2>4. \A d \in Client : Lands(kinds, <<"up", d>>, t, e, X)
      BY <2>1, StayedLands
    <2>5. QED
      BY <2>2, <2>3, <2>4, LandsMore
  <1>3. QED
    BY <1>1, <1>2

-----------------------------------------------------------------------------
(* The place a step takes a message from.                                   *)

Next1 == [i \in Nat |-> i + 1]

LEMMA UpTaken ==
  ASSUME TypeOK, NEW kinds, NEW c \in Client, up[c] # <<>>, up' = [up EXCEPT ![c] = Tail(@)]
  PROVE  /\ 1 \in DOMAIN Flow(kinds)[<<"up", c>>]
         /\ Flow(kinds)[<<"up", c>>][1] = PipeTokens(kinds, Head(up[c]))
         /\ Taken(Flow(kinds), Flow(kinds)', <<"up", c>>, 1, Next1)
         /\ \A d \in Client : \A t, e, X : d # c => Lands(kinds, <<"up", d>>, t, e, X)
  <1> DEFINE q == Flow(kinds)
  <1>1. FlowParts(kinds, q) /\ FlowParts(kinds, q)'
    BY FlowIs, FlowWillBe
  <1>2. /\ \A d \in Client : d = c \/ up'[d] = up[d]
        /\ 1 \in DOMAIN up[c] /\ Head(up[c]) = up[c][1]
        /\ \A i \in DOMAIN up'[c] :
              i + 1 \in DOMAIN up[c] /\ i + 1 # 1 /\ up'[c][i] = up[c][i + 1]
    BY UpTail
  <1>3. DOMAIN up'[c] \subseteq Nat
    BY DEF TypeOK
  <1> HIDE DEF q
  <1>4. 1 \in DOMAIN q[<<"up", c>>] /\ q[<<"up", c>>][1] = PipeTokens(kinds, Head(up[c]))
    <2>1. /\ DOMAIN q[<<"up", c>>] = DOMAIN up[c]
          /\ \A i \in DOMAIN up[c] : q[<<"up", c>>][i] = PipeTokens(kinds, up[c][i])
      BY <1>1 DEF FlowParts
    <2>2. QED
      BY <1>2, <2>1
  <1>5. ASSUME NEW i \in DOMAIN q'[<<"up", c>>]
        PROVE  /\ i \in Nat /\ i + 1 \in DOMAIN q[<<"up", c>>] /\ i + 1 # 1
               /\ q'[<<"up", c>>][i] = q[<<"up", c>>][i + 1]
    <2>1. i \in DOMAIN up'[c]
      BY <1>1 DEF FlowParts
    <2>2. i \in Nat /\ i + 1 \in DOMAIN up[c] /\ i + 1 # 1 /\ up'[c][i] = up[c][i + 1]
      BY <1>2, <1>3, <2>1
    <2>3. q'[<<"up", c>>][i] = PipeTokens(kinds, up'[c][i])
      BY <1>1, <2>1 DEF FlowParts
    <2>4. i + 1 \in DOMAIN q[<<"up", c>>] /\ q[<<"up", c>>][i + 1] = PipeTokens(kinds, up[c][i + 1])
      BY <1>1, <2>2 DEF FlowParts
    <2>5. QED
      BY <2>2, <2>3, <2>4
  <1>6. Taken(q, q', <<"up", c>>, 1, Next1)
    BY <1>5 DEF Taken, Next1
  <1>7. QED
    BY <1>2, <1>4, <1>6, StayedLands DEF q

LEMMA DownTaken ==
  ASSUME TypeOK, NEW kinds, NEW c \in Client, down[c] # <<>>,
         down' = [down EXCEPT ![c] = Tail(@)]
  PROVE  /\ 1 \in DOMAIN Flow(kinds)[<<"down", c>>]
         /\ Flow(kinds)[<<"down", c>>][1] = Tokens(kinds, Head(down[c]))
         /\ Taken(Flow(kinds), Flow(kinds)', <<"down", c>>, 1, Next1)
         /\ \A d \in Client : \A t, e, X : d # c => Lands(kinds, <<"down", d>>, t, e, X)
  <1> DEFINE q == Flow(kinds)
  <1>1. FlowParts(kinds, q) /\ FlowParts(kinds, q)'
    BY FlowIs, FlowWillBe
  <1>2. /\ \A d \in Client : d = c \/ down'[d] = down[d]
        /\ 1 \in DOMAIN down[c] /\ Head(down[c]) = down[c][1]
        /\ \A i \in DOMAIN down'[c] :
              i + 1 \in DOMAIN down[c] /\ i + 1 # 1 /\ down'[c][i] = down[c][i + 1]
    BY DownTail
  <1>3. DOMAIN down'[c] \subseteq Nat
    BY DEF TypeOK
  <1> HIDE DEF q
  <1>4. 1 \in DOMAIN q[<<"down", c>>] /\ q[<<"down", c>>][1] = Tokens(kinds, Head(down[c]))
    <2>1. /\ DOMAIN q[<<"down", c>>] = DOMAIN down[c]
          /\ \A i \in DOMAIN down[c] : q[<<"down", c>>][i] = Tokens(kinds, down[c][i])
      BY <1>1 DEF FlowParts
    <2>2. QED
      BY <1>2, <2>1
  <1>5. ASSUME NEW i \in DOMAIN q'[<<"down", c>>]
        PROVE  /\ i \in Nat /\ i + 1 \in DOMAIN q[<<"down", c>>] /\ i + 1 # 1
               /\ q'[<<"down", c>>][i] = q[<<"down", c>>][i + 1]
    <2>1. i \in DOMAIN down'[c]
      BY <1>1 DEF FlowParts
    <2>2. i \in Nat /\ i + 1 \in DOMAIN down[c] /\ i + 1 # 1 /\ down'[c][i] = down[c][i + 1]
      BY <1>2, <1>3, <2>1
    <2>3. q'[<<"down", c>>][i] = Tokens(kinds, down'[c][i])
      BY <1>1, <2>1 DEF FlowParts
    <2>4. /\ i + 1 \in DOMAIN q[<<"down", c>>]
          /\ q[<<"down", c>>][i + 1] = Tokens(kinds, down[c][i + 1])
      BY <1>1, <2>2 DEF FlowParts
    <2>5. QED
      BY <2>2, <2>3, <2>4
  <1>6. Taken(q, q', <<"down", c>>, 1, Next1)
    BY <1>5 DEF Taken, Next1
  <1>7. QED
    BY <1>2, <1>4, <1>6, StayedLands DEF q

LEMMA MailTaken ==
  ASSUME TypeOK, NEW kinds, NEW o \in Office, NEW b \in Box, mail[o][b] # <<>>,
         mail' = [mail EXCEPT ![o][b] = Tail(@)]
  PROVE  /\ 1 \in DOMAIN Flow(kinds)[<<"mail", o, b>>]
         /\ Flow(kinds)[<<"mail", o, b>>][1] = Tokens(kinds, Head(mail[o][b]))
         /\ Taken(Flow(kinds), Flow(kinds)', <<"mail", o, b>>, 1, Next1)
         /\ \A p \in Office, x \in Box : \A t, e, X :
               p # o \/ x # b => Lands(kinds, <<"mail", p, x>>, t, e, X)
  <1> DEFINE q == Flow(kinds)
             ch == <<"mail", o, b>>
  <1>1. FlowParts(kinds, q) /\ FlowParts(kinds, q)'
    BY FlowIs, FlowWillBe
  <1>2. /\ \A p \in Office, x \in Box : (p = o /\ x = b) \/ mail'[p][x] = mail[p][x]
        /\ 1 \in DOMAIN mail[o][b] /\ Head(mail[o][b]) = mail[o][b][1]
        /\ \A i \in DOMAIN mail'[o][b] :
              i + 1 \in DOMAIN mail[o][b] /\ i + 1 # 1 /\ mail'[o][b][i] = mail[o][b][i + 1]
    BY MailTail
  <1>3. DOMAIN mail'[o][b] \subseteq Nat
    BY DEF TypeOK
  <1> HIDE DEF q
  <1>4. 1 \in DOMAIN q[ch] /\ q[ch][1] = Tokens(kinds, Head(mail[o][b]))
    BY <1>1, <1>2 DEF FlowParts
  <1>5. ASSUME NEW i \in DOMAIN q'[ch]
        PROVE  i \in Nat /\ i + 1 \in DOMAIN q[ch] /\ i + 1 # 1 /\ q'[ch][i] = q[ch][i + 1]
    <2>1. i \in DOMAIN mail'[o][b]
      BY <1>1 DEF FlowParts
    <2>2. i \in Nat /\ i + 1 \in DOMAIN mail[o][b] /\ i + 1 # 1 /\ mail'[o][b][i] = mail[o][b][i + 1]
      BY <1>2, <1>3, <2>1
    <2>3. q'[ch][i] = Tokens(kinds, mail'[o][b][i])
      BY <1>1, <2>1 DEF FlowParts
    <2>4. i + 1 \in DOMAIN q[ch] /\ q[ch][i + 1] = Tokens(kinds, mail[o][b][i + 1])
      BY <1>1, <2>2 DEF FlowParts
    <2>5. QED
      BY <2>2, <2>3, <2>4
  <1> HIDE DEF ch
  <1>6. Taken(q, q', ch, 1, Next1)
    BY <1>5 DEF Taken, Next1
  <1>7. \A p \in Office, x \in Box : \A t, e, X :
               p # o \/ x # b => Lands(kinds, <<"mail", p, x>>, t, e, X)
    BY <1>2, StayedLands
  <1>8. QED
    BY <1>4, <1>6, <1>7 DEF q, ch

LEMMA OutgoingTaken ==
  ASSUME TypeOK, NEW kinds, outgoing # <<>>, outgoing' = Tail(outgoing)
  PROVE  /\ 1 \in DOMAIN Flow(kinds)[<<"outgoing">>]
         /\ Flow(kinds)[<<"outgoing">>][1] = Tokens(kinds, Head(outgoing))
         /\ Taken(Flow(kinds), Flow(kinds)', <<"outgoing">>, 1, Next1)
  <1> DEFINE q == Flow(kinds)
             ch == <<"outgoing">>
  <1>1. FlowParts(kinds, q) /\ FlowParts(kinds, q)'
    BY FlowIs, FlowWillBe
  <1>2. /\ 1 \in DOMAIN outgoing /\ Head(outgoing) = outgoing[1]
        /\ \A i \in DOMAIN outgoing' :
              i + 1 \in DOMAIN outgoing /\ i + 1 # 1 /\ outgoing'[i] = outgoing[i + 1]
    BY TailPlaces DEF TypeOK
  <1>3. DOMAIN outgoing' \subseteq Nat
    BY DEF TypeOK
  <1> HIDE DEF q
  <1>4. 1 \in DOMAIN q[ch] /\ q[ch][1] = Tokens(kinds, Head(outgoing))
    BY <1>1, <1>2 DEF FlowParts
  <1>5. ASSUME NEW i \in DOMAIN q'[ch]
        PROVE  i \in Nat /\ i + 1 \in DOMAIN q[ch] /\ i + 1 # 1 /\ q'[ch][i] = q[ch][i + 1]
    <2>1. i \in DOMAIN outgoing'
      BY <1>1 DEF FlowParts
    <2>2. i \in Nat /\ i + 1 \in DOMAIN outgoing /\ i + 1 # 1 /\ outgoing'[i] = outgoing[i + 1]
      BY <1>2, <1>3, <2>1
    <2>3. q'[ch][i] = Tokens(kinds, outgoing'[i])
      BY <1>1, <2>1 DEF FlowParts
    <2>4. i + 1 \in DOMAIN q[ch] /\ q[ch][i + 1] = Tokens(kinds, outgoing[i + 1])
      BY <1>1, <2>2 DEF FlowParts
    <2>5. QED
      BY <2>2, <2>3, <2>4
  <1> HIDE DEF ch
  <1>6. Taken(q, q', ch, 1, Next1)
    BY <1>5 DEF Taken, Next1
  <1>7. QED
    BY <1>4, <1>6 DEF q, ch

LEMMA HeldTaken ==
  ASSUME TypeOK, NEW kinds, NEW o \in Office, NEW m \in held[o],
         held' = [held EXCEPT ![o] = @ \ {m}]
  PROVE  /\ m \in DOMAIN Flow(kinds)[<<"held", o>>]
         /\ Flow(kinds)[<<"held", o>>][m] = HeldTokens(kinds, m)
         /\ Taken(Flow(kinds), Flow(kinds)', <<"held", o>>, m, [x \in held[o] |-> x])
         /\ \A p \in Office : \A t, e, X : p # o => Lands(kinds, <<"held", p>>, t, e, X)
  <1> DEFINE q == Flow(kinds)
             ch == <<"held", o>>
             same == [x \in held[o] |-> x]
  <1>1. FlowParts(kinds, q) /\ FlowParts(kinds, q)'
    BY FlowIs, FlowWillBe
  <1> HIDE DEF q
  <1>2. held'[o] = held[o] \ {m} /\ \A p \in Office : p # o => held'[p] = held[p]
    BY DEF TypeOK
  <1>3. m \in DOMAIN q[ch] /\ q[ch][m] = HeldTokens(kinds, m)
    BY <1>1 DEF FlowParts
  <1>4. ASSUME NEW i \in DOMAIN q'[ch]
        PROVE  i \in held[o] /\ i \in DOMAIN q[ch] /\ i # m /\ q'[ch][i] = q[ch][i]
    <2>1. DOMAIN q[ch] = held[o] /\ \A x \in held[o] : q[ch][x] = HeldTokens(kinds, x)
      BY <1>1 DEF FlowParts
    <2>2. DOMAIN q'[ch] = held'[o] /\ \A x \in held'[o] : q'[ch][x] = HeldTokens(kinds, x)
      BY <1>1 DEF FlowParts
    <2>3. QED
      BY <1>2, <1>4, <2>1, <2>2
  <1> HIDE DEF ch
  <1>5. Taken(q, q', ch, m, same)
    BY <1>4 DEF Taken
  <1>6. QED
    BY <1>2, <1>3, <1>5, StayedLands DEF q, ch

-----------------------------------------------------------------------------
(* The steps, as moves of tokens.                                           *)

NoPlace == <<"none">>

\* The step takes what is at place h of channel s, and puts at most X in one place.
TokenStep(kinds, s, h, X) ==
    /\ \E t, e : \A ch \in Chan : ch # s => Lands(kinds, ch, t, e, X)
    /\ s \in Chan => /\ h \in DOMAIN Flow(kinds)[s]
                     /\ \E org : Taken(Flow(kinds), Flow(kinds)', s, h, org)

\* An actor has received the call.
Settled(x) == x[3] \in {"ok", "held"}

Continues(kinds, s, h, X) ==
    \A x \in X : \E y \in Flow(kinds)[s][h] : SameCall(x, y) /\ (Settled(x) <=> Settled(y))

\* A step that neither posts a message nor gives a call to an actor.
MoveStep(kinds) ==
    /\ UNCHANGED <<nextSeq, executed>>
    /\ \E s, h, X : /\ TokenStep(kinds, s, h, X) /\ Continues(kinds, s, h, X)
                    /\ s \in Chan \/ X = {}

\* Messages are followed as far as their return addresses are known to hold.
Followed(kinds) ==
    \/ kinds = Calls
    \/ kinds = CallsAndReplies /\ DistinctProfiles /\ OwnInv

LEMMA FollowedKinds ==
  ASSUME NEW kinds, Followed(kinds)
  PROVE  (kinds = Calls \/ kinds = CallsAndReplies) /\ "call" \in kinds
  BY DEF Followed, Calls, CallsAndReplies

LEMMA NoPlaceSteps ==
  ASSUME NEW kinds, NEW X, NEW t, NEW e,
         \A ch \in Chan : ch # NoPlace => Lands(kinds, ch, t, e, X)
  PROVE  TokenStep(kinds, NoPlace, 0, X)
  BY DEF TokenStep, NoPlace, Chan

LEMMA OutcomesContinue ==
  ASSUME NEW kinds, "call" \in kinds, NEW m, NEW s, NEW h, Flow(kinds)[s][h] = Tokens(kinds, m)
  PROVE  Continues(kinds, s, h, Outcomes(kinds, m))
  <1> SUFFICES ASSUME NEW x \in Outcomes(kinds, m)
               PROVE  \E y \in Tokens(kinds, m) : SameCall(x, y) /\ (Settled(x) <=> Settled(y))
    BY DEF Continues
  <1>1. m.mode \in kinds
    BY OutcomesOf
  <1> DEFINE y == <<m.of, m.seq, What(m)>>
  <1>2. y \in Tokens(kinds, m)
    BY <1>1 DEF Tokens
  <1>3. x = y \/ (m.mode = "call" /\ x = <<m.of, m.seq, "error">>)
    <2>1. CASE m.mode = "call"
      <3>1. Outcomes(kinds, m) = Tokens(kinds, m) \cup {<<m.of, m.seq, "error">>}
        BY <2>1 DEF Outcomes
      <3>2. QED
        BY <1>1, <2>1, <3>1 DEF Tokens
    <2>2. CASE m.mode # "call"
      <3>1. Outcomes(kinds, m) = Tokens(kinds, m)
        BY <2>2 DEF Outcomes
      <3>2. QED
        BY <1>1, <3>1 DEF Tokens
    <2>3. QED
      BY <2>1, <2>2
  <1>4. SameCall(x, y) /\ (Settled(x) <=> Settled(y))
    BY <1>3 DEF SameCall, Settled, What
  <1>5. QED
    BY <1>2, <1>4

LEMMA EmptiedLands ==
  ASSUME NEW kinds, NEW t, NEW e, NEW X
  PROVE  /\ \A c \in Client : down'[c] = <<>> => Lands(kinds, <<"down", c>>, t, e, X)
         /\ \A o \in Office, b \in Box : mail'[o][b] = <<>> => Lands(kinds, <<"mail", o, b>>, t, e, X)
         /\ \A o \in Office : held'[o] = {} => Lands(kinds, <<"held", o>>, t, e, X)
  <1> DEFINE q == Flow(kinds)
  <1>1. FlowParts(kinds, q)'
    BY FlowWillBe
  <1> HIDE DEF q
  <1>2. ASSUME NEW c \in Client, down'[c] = <<>> PROVE Landed(q, q', <<"down", c>>, t, e, X)
    <2>1. DOMAIN q'[<<"down", c>>] = DOMAIN down'[c]
      BY <1>1 DEF FlowParts
    <2>2. DOMAIN q'[<<"down", c>>] = {}
      BY <1>2, <2>1
    <2>3. QED
      BY <2>2 DEF Landed
  <1>3. ASSUME NEW o \in Office, NEW b \in Box, mail'[o][b] = <<>>
        PROVE  Landed(q, q', <<"mail", o, b>>, t, e, X)
    BY <1>1, <1>3 DEF FlowParts, Landed
  <1>4. ASSUME NEW o \in Office, held'[o] = {} PROVE Landed(q, q', <<"held", o>>, t, e, X)
    BY <1>1, <1>4 DEF FlowParts, Landed
  <1>5. QED
    BY <1>2, <1>3, <1>4 DEF Lands, q

\* What is not a routed message.
LEMMA UpAppended ==
  ASSUME TypeOK, NEW kinds, NEW c \in Client, NEW x \in PipeMessage, x.kind # "route",
         up' = [up EXCEPT ![c] = Append(@, x)] \/ up' = WritePipe(c, x),
         NEW d \in Client, NEW t, NEW e, NEW X
  PROVE  Lands(kinds, <<"up", d>>, t, e, X)
  <1> DEFINE q == Flow(kinds)
             longer == Append(up[c], x)
  <1>1. FlowParts(kinds, q) /\ FlowParts(kinds, q)'
    BY FlowIs, FlowWillBe
  <1>2. up \in [Client -> Seq(PipeMessage)] /\ up[c] \in Seq(PipeMessage)
    BY DEF TypeOK
  <1>3. \A i \in DOMAIN longer : \/ i \in DOMAIN up[c] /\ longer[i] = up[c][i]
                                 \/ longer[i] = x
    BY <1>2, AppendPlaces
  <1>4. up'[d] = up[d] \/ (d = c /\ up'[d] = longer)
    <2>1. up' = up \/ up' = [up EXCEPT ![c] = longer]
      BY DEF WritePipe
    <2> HIDE DEF longer
    <2>2. QED
      BY <1>2, <2>1
  <1> HIDE DEF q, longer
  <1>5. CASE up'[d] = up[d]
    BY <1>5, StayedLands
  <1>6. CASE d = c /\ up'[d] = longer
    <2>1. DOMAIN q'[<<"up", d>>] = DOMAIN longer
          /\ \A i \in DOMAIN longer : q'[<<"up", d>>][i] = PipeTokens(kinds, longer[i])
      BY <1>1, <1>6 DEF FlowParts
    <2>2. DOMAIN q[<<"up", d>>] = DOMAIN up[c]
          /\ \A i \in DOMAIN up[c] : q[<<"up", d>>][i] = PipeTokens(kinds, up[c][i])
      BY <1>1, <1>6 DEF FlowParts
    <2>3. PipeTokens(kinds, x) = {}
      BY DEF PipeTokens
    <2>4. QED
      BY <1>3, <2>1, <2>2, <2>3 DEF Lands, Landed, q
  <1>7. QED
    BY <1>4, <1>5, <1>6

LEMMA QuietSteps ==
  ASSUME TypeOK, NEW kinds, NEW c \in Client,
         \/ \E p \in Profiles[c] : ChangeProfile(c, p)
         \/ \E inWorld \in BOOLEAN : SetGameState(c, inWorld)
         \/ Connect(c)
         \/ \E b \in Box : RemoveMailbox(c, b) \/ RegisterAddress(c, b)
         \/ Crash(c)
         \/ PipeClosed(c)
  PROVE  TokenStep(kinds, NoPlace, 0, {})
  <1> USE NoneNotOffice
  <1>1. UNCHANGED <<outgoing, executed, answers>>
    BY DEF ChangeProfile, SetGameState, Connect, RemoveMailbox, RegisterAddress, Crash, PipeClosed,
           net
  <1>2. ASSUME NEW d \in Client PROVE Lands(kinds, <<"up", d>>, 0, 0, {})
    <2> DEFINE hello == [kind |-> "identification", facts |-> profile[c]]
               last == [kind |-> "closed"]
    <2>1. hello \in PipeMessage /\ hello.kind # "route" /\ last \in PipeMessage /\ last.kind # "route"
      BY DEF TypeOK, PipeMessage, Identification, Closed
    <2>2. \/ up' = up
          \/ up' = WritePipe(c, hello)
          \/ up' = [up EXCEPT ![c] = Append(@, hello)]
          \/ up' = [up EXCEPT ![c] = Append(@, last)]
      BY DEF ChangeProfile, SetGameState, Connect, RemoveMailbox, RegisterAddress, Crash, PipeClosed,
             net
    <2> HIDE DEF hello, last
    <2>3. QED
      BY <2>1, <2>2, UpAppended, StayedLands
  <1>3. ASSUME NEW d \in Client PROVE Lands(kinds, <<"down", d>>, 0, 0, {})
    <2>1. down'[d] = down[d] \/ down'[d] = <<>>
      BY DEF ChangeProfile, SetGameState, Connect, RemoveMailbox, RegisterAddress, Crash, PipeClosed,
             net, TypeOK
    <2>2. QED
      BY <2>1, StayedLands, EmptiedLands
  <1>4. ASSUME NEW o \in Office, NEW b \in Box PROVE Lands(kinds, <<"mail", o, b>>, 0, 0, {})
    <2>1. mail'[o][b] = mail[o][b] \/ mail'[o][b] = <<>>
      <3>1. mail \in [Office -> [Box -> Seq(Envelope)]]
        BY DEF TypeOK
      <3>2. \/ mail' = mail
            \/ \E x \in Box : mail' = [mail EXCEPT ![c][x] = <<>>]
            \/ mail' = [mail EXCEPT ![c] = [x \in Box |-> <<>>]]
        BY DEF ChangeProfile, SetGameState, Connect, RemoveMailbox, RegisterAddress, Crash,
               PipeClosed
      <3>3. QED
        BY <3>1, <3>2
    <2>2. QED
      BY <2>1, StayedLands, EmptiedLands
  <1>5. ASSUME NEW o \in Office PROVE Lands(kinds, <<"held", o>>, 0, 0, {})
    <2>1. held'[o] = held[o] \/ held'[o] = {}
      BY DEF ChangeProfile, SetGameState, Connect, RemoveMailbox, RegisterAddress, Crash, PipeClosed,
             net, TypeOK
    <2>2. QED
      BY <2>1, StayedLands, EmptiedLands
  <1>6. /\ Lands(kinds, <<"outgoing">>, 0, 0, {}) /\ Lands(kinds, <<"executed">>, 0, 0, {})
        /\ \A o \in Office : Lands(kinds, <<"answers", o>>, 0, 0, {})
    BY <1>1, StayedLands
  <1>7. \A ch \in Chan : Lands(kinds, ch, 0, 0, {})
    BY <1>2, <1>3, <1>4, <1>5, <1>6 DEF Chan
  <1>8. QED
    BY <1>7, NoPlaceSteps

LEMMA PostSteps ==
  ASSUME TypeOK, NEW kinds, NEW mode \in Modes, NEW addr \in Targets,
         NEW o \in Office, NEW b \in boxes[o],
         \/ o \in Client /\ ClientPost(o, mode, addr, b)
         \/ o = Launcher /\ LauncherPost(mode, addr, b)
  PROVE  TokenStep(kinds, NoPlace, 0, Outcomes(kinds, NewEnvelope(o, mode, addr, b)))
  <1> DEFINE m == NewEnvelope(o, mode, addr, b)
             X == Outcomes(kinds, m)
  <1>1. m \in Envelope
    BY NewEnvelopeType DEF TypeOK
  <1>2. Tokens(kinds, m) \subseteq X
    BY DEF Outcomes
  <1>3. CASE o \in Client /\ ClientPost(o, mode, addr, b)
    <2>1. UNCHANGED <<outgoing, down, held, executed, answers>>
      BY <1>3 DEF ClientPost
    <2>2. \/ Arrive(o, m)
          \/ up' = WritePipe(o, [kind |-> "route", env |-> m]) /\ mail' = mail
      BY <1>3 DEF ClientPost
    <2> DEFINE x == [kind |-> "route", env |-> m]
    <2>3. x \in PipeMessage /\ PipeTokens(kinds, x) = Tokens(kinds, m)
      BY <1>1, RouteInPipe DEF PipeTokens
    <2>4. CASE up' = WritePipe(o, x) /\ mail' = mail
      <3> HIDE DEF m, x
      <3> DEFINE Y == Tokens(kinds, m)
      <3>1. PICK t, e : \A d \in Client : Lands(kinds, <<"up", d>>, t, e, Y)
        BY <1>3, <2>3, <2>4, WritePipeLands
      <3>2. \A d \in Client : Lands(kinds, <<"up", d>>, t, e, X)
        BY <1>2, <3>1, LandsMore
      <3> HIDE DEF X
      <3>3. \A ch \in Chan : ch # NoPlace => Lands(kinds, ch, t, e, X)
        BY <2>1, <2>4, <3>2, ChannelsLand
      <3>4. QED
        BY <3>3, NoPlaceSteps DEF X, m
    <2>5. CASE Arrive(o, m)
      <3> HIDE DEF m
      <3>1. PICK t, e :
               /\ \A d \in Client : Lands(kinds, <<"up", d>>, t, e, X)
               /\ \A p \in Office, y \in Box : Lands(kinds, <<"mail", p, y>>, t, e, X)
        BY <1>1, <1>3, <2>5, ArriveLands
      <3> HIDE DEF X
      <3>2. \A ch \in Chan : ch # NoPlace => Lands(kinds, ch, t, e, X)
        BY <2>1, <3>1, ChannelsLand
      <3>3. QED
        BY <3>2, NoPlaceSteps DEF X, m
    <2>6. QED
      BY <2>2, <2>4, <2>5
  <1>4. CASE o = Launcher /\ LauncherPost(mode, addr, b)
    <2> DEFINE q == Flow(kinds)
               longer == Append(outgoing, m)
               t == <<"outgoing">>
               e == Len(outgoing) + 1
    <2>1. outgoing' = longer /\ UNCHANGED <<up, down, mail, held, executed, answers>>
      BY <1>4 DEF LauncherPost
    <2>2. \A i \in DOMAIN longer : \/ i \in DOMAIN outgoing /\ longer[i] = outgoing[i]
                                   \/ i = e /\ longer[i] = m
      BY <1>1, AppendPlaces DEF TypeOK
    <2>3. FlowParts(kinds, q) /\ FlowParts(kinds, q)'
      BY FlowIs, FlowWillBe
    <2> HIDE DEF q, longer, m, e
    <2>4. Landed(q, q', t, t, e, X)
      <3>1. DOMAIN q'[t] = DOMAIN longer /\ \A i \in DOMAIN longer : q'[t][i] = Tokens(kinds, longer[i])
        BY <2>1, <2>3 DEF FlowParts
      <3>2. /\ DOMAIN q[t] = DOMAIN outgoing
            /\ \A i \in DOMAIN outgoing : q[t][i] = Tokens(kinds, outgoing[i])
        BY <2>3 DEF FlowParts
      <3>3. QED
        BY <1>2, <2>2, <3>1, <3>2 DEF Landed
    <2> HIDE DEF X
    <2>5. Lands(kinds, <<"outgoing">>, t, e, X)
      BY <2>4 DEF Lands, q
    <2>6. \A ch \in Chan : ch # NoPlace => Lands(kinds, ch, t, e, X)
      BY <2>1, <2>5, ChannelsLand
    <2>7. QED
      BY <2>6, NoPlaceSteps DEF X, m
  <1>5. QED
    BY <1>3, <1>4

LEMMA ReceiveSteps ==
  ASSUME TypeOK, NEW kinds, NEW c \in Client, ClientReceive(c)
  PROVE  TokenStep(kinds, <<"down", c>>, 1, Outcomes(kinds, Head(down[c])))
  <1> DEFINE m == Head(down[c])
             X == Outcomes(kinds, m)
             s == <<"down", c>>
  <1>1. /\ down[c] # <<>> /\ down' = [down EXCEPT ![c] = Tail(@)] /\ Arrive(c, m)
        /\ UNCHANGED <<outgoing, held, executed, answers>>
    BY DEF ClientReceive
  <1>2. m \in Envelope
    BY <1>1, DownTail
  <1> HIDE DEF m
  <1>3. PICK t, e :
           /\ \A d \in Client : Lands(kinds, <<"up", d>>, t, e, X)
           /\ \A o \in Office, b \in Box : Lands(kinds, <<"mail", o, b>>, t, e, X)
    BY <1>1, <1>2, ArriveLands
  <1>4. /\ 1 \in DOMAIN Flow(kinds)[s] /\ Taken(Flow(kinds), Flow(kinds)', s, 1, Next1)
        /\ \A d \in Client : d # c => Lands(kinds, <<"down", d>>, t, e, X)
    BY <1>1, DownTaken
  <1> HIDE DEF X
  <1>5. \A ch \in Chan : ch # s => Lands(kinds, ch, t, e, X)
    BY <1>1, <1>3, <1>4, ChannelsLand
  <1>6. QED
    BY <1>4, <1>5 DEF TokenStep, X, m

LEMMA OutgoingSteps ==
  ASSUME TypeOK, IsFiniteSet(known), NEW kinds, kinds = Calls \/ kinds = CallsAndReplies,
         ProcessOutgoing, Traced(kinds, Head(outgoing))
  PROVE  TokenStep(kinds, <<"outgoing">>, 1, Outcomes(kinds, Head(outgoing)))
  <1> DEFINE m == Head(outgoing)
             X == Outcomes(kinds, m)
             s == <<"outgoing">>
             sent == ProcessOutgoingMessage(m)
  <1>1. /\ outgoing # <<>> /\ outgoing' = Tail(outgoing) /\ Deliver(sent)
        /\ UNCHANGED <<up, held, executed, answers>>
    BY DEF ProcessOutgoing
  <1>2. m \in Envelope
    BY <1>1 DEF TypeOK
  <1> HIDE DEF m
  <1>3. sent \in SUBSET Delivery /\ Sends(kinds, m, sent)
    BY <1>2, ProcessOutgoingMessageType, RouteSends DEF m
  <1> HIDE DEF sent
  <1>4. PICK t, e :
           /\ \A c \in Client : Lands(kinds, <<"down", c>>, t, e, X)
           /\ \A o \in Office, b \in Box : Lands(kinds, <<"mail", o, b>>, t, e, X)
    BY <1>1, <1>3, DeliverLands
  <1>5. 1 \in DOMAIN Flow(kinds)[s] /\ Taken(Flow(kinds), Flow(kinds)', s, 1, Next1)
    BY <1>1, OutgoingTaken
  <1> HIDE DEF X
  <1>6. \A ch \in Chan : ch # s => Lands(kinds, ch, t, e, X)
    BY <1>1, <1>4, ChannelsLand
  <1>7. QED
    BY <1>5, <1>6 DEF TokenStep, X, m

LEMMA RouteSteps ==
  ASSUME TypeOK, IsFiniteSet(known), NEW kinds, kinds = Calls \/ kinds = CallsAndReplies,
         NEW c \in Client, LauncherRoute(c), Traced(kinds, Head(up[c]).env)
  PROVE  TokenStep(kinds, <<"up", c>>, 1, Outcomes(kinds, Head(up[c]).env))
  <1> DEFINE m == Head(up[c]).env
             X == Outcomes(kinds, m)
             s == <<"up", c>>
             sent == RouteFromConnection(m)
  <1>1. /\ up[c] # <<>> /\ Head(up[c]).kind = "route" /\ up' = [up EXCEPT ![c] = Tail(@)]
        /\ Deliver(sent) /\ UNCHANGED <<outgoing, held, executed, answers>>
    BY DEF LauncherRoute
  <1>2. m \in Envelope
    BY <1>1, UpTail, PipeMessageKinds
  <1> HIDE DEF m
  <1>3. sent \in SUBSET Delivery /\ Sends(kinds, m, sent)
    BY <1>2, RouteFromConnectionType, RouteSends DEF m
  <1> HIDE DEF sent
  <1>4. PICK t, e :
           /\ \A d \in Client : Lands(kinds, <<"down", d>>, t, e, X)
           /\ \A o \in Office, b \in Box : Lands(kinds, <<"mail", o, b>>, t, e, X)
    BY <1>1, <1>3, DeliverLands
  <1>5. /\ 1 \in DOMAIN Flow(kinds)[s] /\ Taken(Flow(kinds), Flow(kinds)', s, 1, Next1)
        /\ \A d \in Client : d # c => Lands(kinds, <<"up", d>>, t, e, X)
    BY <1>1, UpTaken
  <1> HIDE DEF X
  <1>6. \A ch \in Chan : ch # s => Lands(kinds, ch, t, e, X)
    BY <1>1, <1>4, <1>5, ChannelsLand
  <1>7. QED
    BY <1>5, <1>6 DEF TokenStep, X, m

LEMMA ListenSteps ==
  ASSUME TypeOK, NEW kinds, NEW c \in Client, LauncherIdentify(c) \/ LauncherClosed(c)
  PROVE  TokenStep(kinds, <<"up", c>>, 1, {})
  <1> DEFINE s == <<"up", c>>
  <1>1. /\ up[c] # <<>> /\ up' = [up EXCEPT ![c] = Tail(@)]
        /\ UNCHANGED <<outgoing, down, mail, held, executed, answers>>
    BY DEF LauncherIdentify, LauncherClosed
  <1>2. /\ 1 \in DOMAIN Flow(kinds)[s] /\ Taken(Flow(kinds), Flow(kinds)', s, 1, Next1)
        /\ \A d \in Client : d # c => Lands(kinds, <<"up", d>>, 0, 0, {})
    BY <1>1, UpTaken
  <1>3. \A ch \in Chan : ch # s => Lands(kinds, ch, 0, 0, {})
    BY <1>1, <1>2, ChannelsLand
  <1>4. QED
    BY <1>2, <1>3 DEF TokenStep

LEMMA ReplySteps ==
  ASSUME TypeOK, NEW kinds, NEW o \in Office, NEW b \in Box, ProcessReply(o, b)
  PROVE  TokenStep(kinds, <<"mail", o, b>>, 1, Tokens(kinds, Head(mail[o][b])))
  <1> DEFINE r == Head(mail[o][b])
             a == [seq |-> r.seq, caller |-> r.of, status |-> r.status]
             X == Tokens(kinds, r)
             s == <<"mail", o, b>>
             t == <<"answers", o>>
             e == Len(answers[o]) + 1
             longer == Append(answers[o], a)
             q == Flow(kinds)
  <1>1. /\ mail[o][b] # <<>> /\ mail' = [mail EXCEPT ![o][b] = Tail(@)] /\ r.mode = "reply"
        /\ UNCHANGED <<up, down, outgoing, held, executed>>
        /\ answers' = answers \/ answers' = [answers EXCEPT ![o] = longer]
    BY DEF ProcessReply, net
  <1>2. /\ 1 \in DOMAIN q[s] /\ Taken(q, q', s, 1, Next1)
        /\ \A p \in Office, x \in Box : \A t1, e1, X1 :
              p # o \/ x # b => Lands(kinds, <<"mail", p, x>>, t1, e1, X1)
    BY <1>1, MailTaken
  <1>3. r \in Envelope
    BY <1>1, MailTail
  <1>4. AnswerTokens(kinds, a) \subseteq X
    BY <1>1 DEF AnswerTokens, Tokens, What
  <1>5. a \in [seq : Nat, caller : Office, status : Status]
    BY <1>3 DEF Envelope
  <1> HIDE DEF a, r, X
  <1>6. answers' = answers \/ \A p \in Office : Lands(kinds, <<"answers", p>>, t, e, X)
    <2> SUFFICES ASSUME answers' # answers, NEW p \in Office
                 PROVE  Lands(kinds, <<"answers", p>>, t, e, X)
      OBVIOUS
    <2>0. answers[o] \in Seq([seq : Nat, caller : Office, status : Status])
      BY DEF TypeOK
    <2>1. \A i \in DOMAIN longer : \/ i \in DOMAIN answers[o] /\ longer[i] = answers[o][i]
                                   \/ i = e /\ longer[i] = a
      BY <1>5, <2>0, AppendPlaces
    <2> HIDE DEF longer, e
    <2>2. answers'[p] = IF p = o THEN longer ELSE answers[p]
      BY <1>1 DEF TypeOK
    <2>3. CASE p # o
      BY <2>2, <2>3, StayedLands
    <2>4. CASE p = o
      <3>1. FlowParts(kinds, q) /\ FlowParts(kinds, q)'
        BY FlowIs, FlowWillBe
      <3> HIDE DEF q
      <3>2. DOMAIN q'[t] = DOMAIN longer /\ \A i \in DOMAIN longer : q'[t][i] = AnswerTokens(kinds, longer[i])
        <4>1. /\ DOMAIN q'[t] = DOMAIN answers'[o]
              /\ \A i \in DOMAIN answers'[o] : q'[t][i] = AnswerTokens(kinds, answers'[o][i])
          BY <3>1 DEF FlowParts
        <4>2. QED
          BY <2>2, <2>4, <4>1
      <3>3. /\ DOMAIN q[t] = DOMAIN answers[o]
            /\ \A i \in DOMAIN answers[o] : q[t][i] = AnswerTokens(kinds, answers[o][i])
        BY <3>1 DEF FlowParts
      <3>4. Landed(q, q', t, t, e, X)
        BY <1>4, <2>1, <3>2, <3>3 DEF Landed
      <3>5. QED
        BY <2>4, <3>4 DEF Lands, q
    <2>5. QED
      BY <2>3, <2>4
  <1> HIDE DEF q
  <1>7. \A ch \in Chan : ch # s => Lands(kinds, ch, t, e, X)
    <2>1. \A p \in Office, x \in Box : <<"mail", p, x>> # s => Lands(kinds, <<"mail", p, x>>, t, e, X)
      BY <1>2
    <2> HIDE DEF s, t, e
    <2>2. QED
      BY <1>1, <1>6, <2>1, ChannelsLand
  <1>8. QED
    BY <1>2, <1>7 DEF TokenStep, q, X, r

\* What a call is once an actor has received it.
ReceivedTokens(kinds, m) ==
    IF m.mode # "call" THEN {}
    ELSE IF "reply" \in kinds THEN {<<m.of, m.seq, "held">>} ELSE {<<m.of, m.seq, "done">>}

LEMMA MessageSteps ==
  ASSUME TypeOK, NEW kinds, NEW o \in Office, NEW b \in Box, ProcessMessage(o, b)
  PROVE  TokenStep(kinds, <<"mail", o, b>>, 1, ReceivedTokens(kinds, Head(mail[o][b])))
  <1> DEFINE m == Head(mail[o][b])
             x == [caller |-> m.of, seq |-> m.seq, at |-> o]
             X == ReceivedTokens(kinds, m)
             s == <<"mail", o, b>>
             t == IF "reply" \in kinds THEN <<"held", o>> ELSE <<"executed">>
             e == IF "reply" \in kinds THEN m ELSE Len(executed) + 1
             longer == Append(executed, x)
             q == Flow(kinds)
  <1>1. /\ mail[o][b] # <<>> /\ mail' = [mail EXCEPT ![o][b] = Tail(@)]
        /\ UNCHANGED <<up, down, outgoing, answers>>
        /\ \/ UNCHANGED <<held, executed>>
           \/ m.mode = "call" /\ held' = [held EXCEPT ![o] = @ \cup {m}] /\ executed' = longer
    BY DEF ProcessMessage, net
  <1>2. /\ 1 \in DOMAIN q[s] /\ Taken(q, q', s, 1, Next1)
        /\ \A p \in Office, y \in Box : p # o \/ y # b => Lands(kinds, <<"mail", p, y>>, t, e, X)
    BY <1>1, MailTaken
  <1>3. m \in Envelope
    BY <1>1, MailTail
  <1>4. x \in [caller : Office, seq : Nat, at : Office]
    BY <1>3 DEF Envelope
  <1>5. m.mode = "call" => /\ "reply" \in kinds => HeldTokens(kinds, m) \subseteq X
                           /\ "reply" \notin kinds => ExecutedTokens(kinds, x) \subseteq X
    BY DEF ReceivedTokens, HeldTokens, ExecutedTokens
  <1>6. FlowParts(kinds, q) /\ FlowParts(kinds, q)'
    BY FlowIs, FlowWillBe
  <1> HIDE DEF m, x, X, q
  <1>7. held' = held \/ \A p \in Office : Lands(kinds, <<"held", p>>, t, e, X)
    <2> SUFFICES ASSUME held' # held, NEW p \in Office PROVE Lands(kinds, <<"held", p>>, t, e, X)
      OBVIOUS
    <2>1. m.mode = "call" /\ held'[p] = IF p = o THEN held[p] \cup {m} ELSE held[p]
      BY <1>1 DEF TypeOK
    <2>2. /\ DOMAIN q'[<<"held", p>>] = held'[p]
          /\ \A i \in held'[p] : q'[<<"held", p>>][i] = HeldTokens(kinds, i)
      BY <1>6 DEF FlowParts
    <2>3. /\ DOMAIN q[<<"held", p>>] = held[p]
          /\ \A i \in held[p] : q[<<"held", p>>][i] = HeldTokens(kinds, i)
      BY <1>6 DEF FlowParts
    <2>4. CASE "reply" \in kinds
      BY <1>5, <2>1, <2>2, <2>3, <2>4 DEF Lands, Landed, q
    <2>5. CASE "reply" \notin kinds
      <3>1. \A i \in held'[p] : HeldTokens(kinds, i) = {}
        BY <2>5 DEF HeldTokens
      <3>2. QED
        BY <2>2, <3>1 DEF Lands, Landed, q
    <2>6. QED
      BY <2>4, <2>5
  <1>8. executed' = executed \/ Lands(kinds, <<"executed">>, t, e, X)
    <2> SUFFICES ASSUME executed' # executed PROVE Lands(kinds, <<"executed">>, t, e, X)
      OBVIOUS
    <2>0. executed \in Seq([caller : Office, seq : Nat, at : Office])
      BY DEF TypeOK
    <2>1. \A i \in DOMAIN longer : \/ i \in DOMAIN executed /\ longer[i] = executed[i]
                                   \/ i = Len(executed) + 1 /\ longer[i] = x
      BY <1>4, <2>0, AppendPlaces
    <2> HIDE DEF longer
    <2>2. m.mode = "call" /\ executed' = longer
      BY <1>1
    <2>3. /\ DOMAIN q'[<<"executed">>] = DOMAIN longer
          /\ \A i \in DOMAIN longer : q'[<<"executed">>][i] = ExecutedTokens(kinds, longer[i])
      BY <1>6, <2>2 DEF FlowParts
    <2>4. /\ DOMAIN q[<<"executed">>] = DOMAIN executed
          /\ \A i \in DOMAIN executed : q[<<"executed">>][i] = ExecutedTokens(kinds, executed[i])
      BY <1>6 DEF FlowParts
    <2>5. CASE "reply" \notin kinds
      BY <1>5, <2>1, <2>2, <2>3, <2>4, <2>5 DEF Lands, Landed, q
    <2>6. CASE "reply" \in kinds
      <3>1. \A i \in DOMAIN longer : ExecutedTokens(kinds, longer[i]) = {}
        BY <2>6 DEF ExecutedTokens
      <3>2. QED
        BY <2>3, <3>1 DEF Lands, Landed, q
    <2>7. QED
      BY <2>5, <2>6
  <1>9. \A ch \in Chan : ch # s => Lands(kinds, ch, t, e, X)
    <2>1. \A p \in Office, y \in Box : <<"mail", p, y>> # s => Lands(kinds, <<"mail", p, y>>, t, e, X)
      BY <1>2
    <2> HIDE DEF s, t, e
    <2>2. /\ outgoing' = outgoing /\ up' = up /\ down' = down /\ answers' = answers
      BY <1>1
    <2>3. \A p \in Office : Lands(kinds, <<"held", p>>, t, e, X)
      BY <1>7, StayedLands
    <2>4. Lands(kinds, <<"executed">>, t, e, X)
      BY <1>8, StayedLands
    <2>5. QED
      BY <2>1, <2>2, <2>3, <2>4, ChannelsLand
  <1>10. QED
    BY <1>2, <1>9 DEF TokenStep, q, X, m

LEMMA AnswerSteps ==
  ASSUME TypeOK, IsFiniteSet(known), NEW kinds, kinds = Calls \/ kinds = CallsAndReplies,
         NEW o \in Office, NEW m \in held[o], Answer(o, m),
         Traced(kinds, ReplyTo(m, o, "ok"))
  PROVE  TokenStep(kinds, <<"held", o>>, m, Tokens(kinds, ReplyTo(m, o, "ok")))
  <1> DEFINE r == ReplyTo(m, o, "ok")
             X == Tokens(kinds, r)
             s == <<"held", o>>
             sent == ProcessOutgoingMessage(r)
  <1>1. /\ held' = [held EXCEPT ![o] = @ \ {m}]
        /\ UNCHANGED <<outgoing, executed, answers>>
        /\ \/ UNCHANGED <<mail, up, down>>
           \/ Deliver(sent) /\ UNCHANGED up
           \/ o # Launcher /\ ClientReply(o, r) /\ UNCHANGED down
    BY DEF Answer
  <1>2. m \in Envelope
    BY DEF TypeOK
  <1>3. r \in Envelope /\ r.mode = "reply"
    BY <1>2, ReplyToType DEF Status, ReplyTo
  <1>4. Outcomes(kinds, r) = X
    BY <1>3 DEF Outcomes
  <1>5. sent \in SUBSET Delivery /\ Sends(kinds, r, sent)
    BY <1>3, ProcessOutgoingMessageType, RouteSends
  <1> HIDE DEF r, sent
  <1>6. /\ m \in DOMAIN Flow(kinds)[s]
        /\ \E org : Taken(Flow(kinds), Flow(kinds)', s, m, org)
        /\ \A p \in Office : \A t, e : p # o => Lands(kinds, <<"held", p>>, t, e, X)
    BY <1>1, HeldTaken
  <1> HIDE DEF X
  <1>7. ASSUME NEW t, NEW e,
               up' = up \/ \A d \in Client : Lands(kinds, <<"up", d>>, t, e, X),
               down' = down \/ \A d \in Client : Lands(kinds, <<"down", d>>, t, e, X),
               mail' = mail \/ \A p \in Office, b \in Box : Lands(kinds, <<"mail", p, b>>, t, e, X)
        PROVE  TokenStep(kinds, s, m, X)
    <2>1. \A p \in Office : <<"held", p>> # s => Lands(kinds, <<"held", p>>, t, e, X)
      BY <1>6
    <2>2. /\ outgoing' = outgoing /\ executed' = executed /\ answers' = answers
          /\ up' = up \/ \A d \in Client : <<"up", d>> # s => Lands(kinds, <<"up", d>>, t, e, X)
          /\ down' = down \/ \A d \in Client : <<"down", d>> # s => Lands(kinds, <<"down", d>>, t, e, X)
          /\ mail' = mail \/ \A p \in Office, b \in Box :
                                <<"mail", p, b>> # s => Lands(kinds, <<"mail", p, b>>, t, e, X)
      BY <1>1, <1>7
    <2> HIDE DEF s
    <2>3. \A ch \in Chan : ch # s => Lands(kinds, ch, t, e, X)
      BY <2>1, <2>2, ChannelsLand
    <2>4. QED
      BY <1>6, <2>3 DEF TokenStep, s
  <1>8. CASE UNCHANGED <<mail, up, down>>
    BY <1>7, <1>8 DEF X, r
  <1>9. CASE Deliver(sent) /\ UNCHANGED up
    <2>1. \E t, e : /\ \A d \in Client : Lands(kinds, <<"down", d>>, t, e, X)
                    /\ \A p \in Office, b \in Box : Lands(kinds, <<"mail", p, b>>, t, e, X)
      BY <1>4, <1>5, <1>9, DeliverLands
    <2>2. QED
      BY <1>7, <1>9, <2>1 DEF X, r
  <1>10. CASE o # Launcher /\ ClientReply(o, r) /\ UNCHANGED down
    <2>1. \E t, e : /\ \A d \in Client : Lands(kinds, <<"up", d>>, t, e, X)
                    /\ \A p \in Office, b \in Box : Lands(kinds, <<"mail", p, b>>, t, e, X)
      BY <1>3, <1>10, ClientReplyLands DEF X, Office
    <2>2. QED
      BY <1>7, <1>10, <2>1 DEF X, r
  <1>11. QED
    BY <1>1, <1>8, <1>9, <1>10 DEF X, r

-----------------------------------------------------------------------------
(* Each call is in one place.                                               *)

Numbered(q) ==
    \A ch \in DOMAIN q : \A i \in DOMAIN q[ch] : \A x \in q[ch][i] :
        x[1] \in Office /\ x[2] \in 1 .. nextSeq[x[1]]

TokenInv(kinds) == Once(Flow(kinds)) /\ Numbered(Flow(kinds))

LEMMA MovePreserves ==
  ASSUME TypeOK, NEW kinds, TokenInv(kinds), NEW s, NEW h, NEW X, TokenStep(kinds, s, h, X),
         \A x \in X : s \in Chan /\ \E y \in Flow(kinds)[s][h] : SameCall(x, y),
         nextSeq' = nextSeq
  PROVE  TokenInv(kinds)'
  <1> DEFINE q == Flow(kinds)
  <1>1. DOMAIN q = Chan /\ DOMAIN q' = Chan
    BY FlowIs, FlowWillBe DEF FlowParts
  <1>2. PICK t, e : \A ch \in Chan : ch # s => Landed(q, q', ch, t, e, X)
    BY DEF TokenStep, Lands
  <1>3. s \in Chan => h \in DOMAIN q[s]
    BY DEF TokenStep
  <1>4. PICK org : s \in Chan => Taken(q, q', s, h, org)
    BY DEF TokenStep
  <1>5. Once(q) /\ Numbered(q)
    BY DEF TokenInv
  <1>6. \A x \in X : s \in Chan /\ \E y \in q[s][h] : SameCall(x, y)
    OBVIOUS
  <1> HIDE DEF q
  <1>7. Once(q')
    <2>1. CASE s \in Chan
      BY <1>1, <1>2, <1>3, <1>4, <1>5, <1>6, <2>1, OnceMoved
    <2>2. CASE s \notin Chan
      BY <1>1, <1>2, <1>5, <1>6, <2>2, OnceAdded
    <2>3. QED
      BY <2>1, <2>2
  <1>8. ASSUME NEW ch \in DOMAIN q', NEW i \in DOMAIN q'[ch], NEW x \in q'[ch][i]
        PROVE  x[1] \in Office /\ x[2] \in 1 .. nextSeq[x[1]]
    <2>1. x \in X \/ \E d \in DOMAIN q : \E j \in DOMAIN q[d] : x \in q[d][j]
      <3>1. CASE ch # s
        <4>1. Landed(q, q', ch, t, e, X)
          BY <1>1, <1>2, <3>1
        <4>2. QED
          BY <1>1, <1>8, <4>1 DEF Landed
      <3>2. CASE ch = s
        <4>1. Taken(q, q', s, h, org) /\ s \in DOMAIN q
          BY <1>1, <1>4, <3>2
        <4>2. QED
          BY <1>8, <3>2, <4>1 DEF Taken
      <3>3. QED
        BY <3>1, <3>2
    <2>2. CASE x \in X
      <3>1. PICK y \in q[s][h] : s \in Chan /\ SameCall(x, y)
        BY <1>6, <2>2
      <3>2. y[1] \in Office /\ y[2] \in 1 .. nextSeq[y[1]]
        BY <1>1, <1>3, <1>5, <3>1 DEF Numbered
      <3>3. QED
        BY <3>1, <3>2 DEF SameCall
    <2>3. CASE \E d \in DOMAIN q : \E j \in DOMAIN q[d] : x \in q[d][j]
      BY <1>5, <2>3 DEF Numbered
    <2>4. QED
      BY <2>1, <2>2, <2>3
  <1>9. Numbered(q)'
    BY <1>8 DEF Numbered
  <1>10. QED
    BY <1>7, <1>9 DEF TokenInv, q

LEMMA PostPreserves ==
  ASSUME TypeOK, NEW kinds, TokenInv(kinds), NEW o \in Office, NEW X,
         TokenStep(kinds, NoPlace, 0, X), nextSeq' = [nextSeq EXCEPT ![o] = @ + 1],
         \A x \in X : x[1] = o /\ x[2] = nextSeq[o] + 1
  PROVE  TokenInv(kinds)'
  <1> DEFINE q == Flow(kinds)
  <1>1. DOMAIN q = Chan /\ DOMAIN q' = Chan
    BY FlowIs, FlowWillBe DEF FlowParts
  <1>2. PICK t, e : \A ch \in Chan : ch # NoPlace => Landed(q, q', ch, t, e, X)
    BY DEF TokenStep, Lands
  <1>3. \A ch \in Chan : ch # NoPlace
    BY DEF Chan, NoPlace
  <1>4. Once(q) /\ Numbered(q)
    BY DEF TokenInv
  <1>5. \A p \in Office : /\ nextSeq[p] \in Nat
                          /\ nextSeq'[p] = IF p = o THEN nextSeq[p] + 1 ELSE nextSeq[p]
    BY DEF TypeOK
  <1> HIDE DEF q
  <1>6. ASSUME NEW x \in X, NEW ch \in DOMAIN q, NEW i \in DOMAIN q[ch], NEW y \in q[ch][i]
        PROVE  ~ SameCall(x, y)
    <2>1. y[1] \in Office /\ y[2] \in 1 .. nextSeq[y[1]]
      BY <1>4 DEF Numbered
    <2>2. x[1] = o /\ x[2] = nextSeq[o] + 1
      OBVIOUS
    <2>3. QED
      BY <1>5, <2>1, <2>2 DEF SameCall
  <1>7. Once(q')
    BY <1>1, <1>2, <1>3, <1>4, <1>6, OnceAdded
  <1>8. ASSUME NEW ch \in DOMAIN q', NEW i \in DOMAIN q'[ch], NEW x \in q'[ch][i]
        PROVE  x[1] \in Office /\ x[2] \in 1 .. nextSeq'[x[1]]
    <2>1. x \in X \/ (i \in DOMAIN q[ch] /\ x \in q[ch][i])
      BY <1>1, <1>2, <1>3, <1>8 DEF Landed
    <2>2. CASE x \in X
      BY <1>5, <2>2
    <2>3. CASE i \in DOMAIN q[ch] /\ x \in q[ch][i]
      <3>1. x[1] \in Office /\ x[2] \in 1 .. nextSeq[x[1]]
        BY <1>1, <1>4, <1>8, <2>3 DEF Numbered
      <3>2. QED
        BY <1>5, <3>1
    <2>4. QED
      BY <2>1, <2>2, <2>3
  <1>9. Numbered(q)'
    BY <1>8 DEF Numbered
  <1>10. QED
    BY <1>7, <1>9 DEF TokenInv, q

\* The messages in the pipes, in the queues and with the actors, traced.
LEMMA TracedMessages ==
  ASSUME TypeOK, NEW kinds, Followed(kinds)
  PROVE  /\ outgoing # <<>> => Traced(kinds, Head(outgoing))
         /\ \A c \in Client : up[c] # <<>> /\ Head(up[c]).kind = "route"
                                 => Traced(kinds, Head(up[c]).env)
         /\ \A o \in Office : \A m \in held[o] : Traced(kinds, ReplyTo(m, o, "ok"))
  <1>1. CASE kinds = Calls
    BY <1>1 DEF Traced
  <1>2. CASE kinds = CallsAndReplies /\ DistinctProfiles /\ OwnInv
    <2>1. ReturnsInv /\ ProfilesInv
      BY <1>2 DEF OwnInv
    <2>2. outgoing # <<>> => Returns(Head(outgoing))
      BY <2>1, TailPlaces DEF ReturnsInv, TypeOK
    <2>3. ASSUME NEW c \in Client, up[c] # <<>>, Head(up[c]).kind = "route"
          PROVE  Returns(Head(up[c]).env)
      <3>1. up[c] \in Seq(PipeMessage)
        BY DEF TypeOK
      <3>2. 1 \in DOMAIN up[c] /\ Head(up[c]) = up[c][1]
        BY <2>3, <3>1, TailPlaces
      <3>3. QED
        BY <2>1, <2>3, <3>2 DEF ReturnsInv, UpReturns
    <2>4. ASSUME NEW o \in Office, NEW m \in held[o] PROVE Returns(ReplyTo(m, o, "ok"))
      <3>1. m.mode = "call" /\ Returns(m)
        BY <2>1 DEF ReturnsInv, HeldReturns
      <3>2. QED
        BY <3>1, ReplyReturns
    <2>5. QED
      BY <1>2, <2>1, <2>2, <2>3, <2>4 DEF Traced
  <1>3. QED
    BY <1>1, <1>2 DEF Followed

\* The other steps: a post, and the reception of a message by an actor.
PostStep ==
    \E mode \in Modes, addr \in Targets, o \in Office : \E b \in boxes[o] :
        \/ o \in Client /\ ClientPost(o, mode, addr, b)
        \/ o = Launcher /\ LauncherPost(mode, addr, b)

MessageStep == \E o \in Office, b \in Box : ProcessMessage(o, b)

LEMMA QuietMoves ==
  ASSUME NEW kinds, TokenStep(kinds, NoPlace, 0, {}), UNCHANGED <<nextSeq, executed>>
  PROVE  MoveStep(kinds)
  BY DEF MoveStep, Continues

LEMMA StepKinds ==
  ASSUME TypeOK, IsFiniteSet(known), NEW kinds, Followed(kinds), [Next]_vars
  PROVE  PostStep \/ MessageStep \/ MoveStep(kinds)
  <1> USE NoneNotOffice
  <1>1. (kinds = Calls \/ kinds = CallsAndReplies) /\ "call" \in kinds
    BY FollowedKinds
  <1>2. ASSUME NEW c \in Client, ClientStep(c) PROVE PostStep \/ MoveStep(kinds)
    <2>1. CASE ClientReceive(c)
      <3> DEFINE m == Head(down[c])
                 s == <<"down", c>>
      <3>1. TokenStep(kinds, s, 1, Outcomes(kinds, m))
        BY <2>1, ReceiveSteps
      <3>2. down[c] # <<>> /\ down' = [down EXCEPT ![c] = Tail(@)] /\ UNCHANGED <<nextSeq, executed>>
        BY <2>1 DEF ClientReceive
      <3>3. Flow(kinds)[s][1] = Tokens(kinds, m)
        BY <3>2, DownTaken
      <3>4. Continues(kinds, s, 1, Outcomes(kinds, m))
        BY <1>1, <3>3, OutcomesContinue
      <3>5. s \in Chan
        BY Channels
      <3>6. QED
        BY <3>1, <3>2, <3>4, <3>5 DEF MoveStep
    <2>2. CASE \E mode \in Modes, addr \in Targets, b \in boxes[c] : ClientPost(c, mode, addr, b)
      BY <2>2 DEF PostStep
    <2>3. CASE \/ \E p \in Profiles[c] : ChangeProfile(c, p)
               \/ \E inWorld \in BOOLEAN : SetGameState(c, inWorld)
               \/ Connect(c)
               \/ \E b \in Box : RemoveMailbox(c, b) \/ RegisterAddress(c, b)
               \/ Crash(c)
      <3>1. TokenStep(kinds, NoPlace, 0, {})
        BY <2>3, QuietSteps
      <3>2. UNCHANGED <<nextSeq, executed>>
        BY <2>3 DEF ChangeProfile, SetGameState, Connect, RemoveMailbox, RegisterAddress, Crash
      <3>3. QED
        BY <3>1, <3>2, QuietMoves
    <2>4. QED
      BY <1>2, <2>1, <2>2, <2>3 DEF ClientStep
  <1>3. ASSUME LauncherStep PROVE PostStep \/ MoveStep(kinds)
    <2>1. CASE \E mode \in Modes, addr \in Targets, b \in boxes[Launcher] : LauncherPost(mode, addr, b)
      BY <2>1 DEF PostStep
    <2>2. CASE ProcessOutgoing
      <3> DEFINE m == Head(outgoing)
                 s == <<"outgoing">>
      <3>1. outgoing # <<>> /\ outgoing' = Tail(outgoing) /\ UNCHANGED <<nextSeq, executed>>
        BY <2>2 DEF ProcessOutgoing
      <3>2. TokenStep(kinds, s, 1, Outcomes(kinds, m))
        BY <1>1, <2>2, <3>1, TracedMessages, OutgoingSteps
      <3>3. Flow(kinds)[s][1] = Tokens(kinds, m)
        BY <3>1, OutgoingTaken
      <3>4. Continues(kinds, s, 1, Outcomes(kinds, m))
        BY <1>1, <3>3, OutcomesContinue
      <3>5. s \in Chan
        BY Channels
      <3>6. QED
        BY <3>1, <3>2, <3>4, <3>5 DEF MoveStep
    <2>3. ASSUME NEW c \in Client, LauncherRoute(c) PROVE MoveStep(kinds)
      <3> DEFINE m == Head(up[c]).env
                 s == <<"up", c>>
      <3>1. /\ up[c] # <<>> /\ Head(up[c]).kind = "route" /\ up' = [up EXCEPT ![c] = Tail(@)]
            /\ UNCHANGED <<nextSeq, executed>>
        BY <2>3 DEF LauncherRoute
      <3>2. TokenStep(kinds, s, 1, Outcomes(kinds, m))
        BY <1>1, <2>3, <3>1, TracedMessages, RouteSteps
      <3>3. Flow(kinds)[s][1] = PipeTokens(kinds, Head(up[c]))
        BY <3>1, UpTaken
      <3>4. Flow(kinds)[s][1] = Tokens(kinds, m)
        BY <3>1, <3>3 DEF PipeTokens
      <3>5. Continues(kinds, s, 1, Outcomes(kinds, m))
        BY <1>1, <3>4, OutcomesContinue
      <3>6. s \in Chan
        BY Channels
      <3>7. QED
        BY <3>1, <3>2, <3>5, <3>6 DEF MoveStep
    <2>4. ASSUME NEW c \in Client, LauncherIdentify(c) \/ LauncherClosed(c) PROVE MoveStep(kinds)
      <3>1. TokenStep(kinds, <<"up", c>>, 1, {})
        BY <2>4, ListenSteps
      <3>2. UNCHANGED <<nextSeq, executed>>
        BY <2>4 DEF LauncherIdentify, LauncherClosed
      <3>3. QED
        BY <3>1, <3>2 DEF MoveStep, Continues
    <2>5. ASSUME NEW c \in Client, PipeClosed(c) PROVE MoveStep(kinds)
      <3>1. TokenStep(kinds, NoPlace, 0, {})
        BY <2>5, QuietSteps
      <3>2. QED
        BY <2>5, <3>1, QuietMoves DEF PipeClosed
    <2>6. QED
      BY <1>3, <2>1, <2>2, <2>3, <2>4, <2>5 DEF LauncherStep
  <1>4. ASSUME NEW o \in Office, MailboxStep(o) PROVE MessageStep \/ MoveStep(kinds)
    <2>1. ASSUME NEW b \in Box, ProcessReply(o, b) PROVE MoveStep(kinds)
      <3> DEFINE r == Head(mail[o][b])
                 s == <<"mail", o, b>>
      <3>1. /\ mail[o][b] # <<>> /\ mail' = [mail EXCEPT ![o][b] = Tail(@)]
            /\ UNCHANGED <<nextSeq, executed>>
        BY <2>1 DEF ProcessReply
      <3>2. TokenStep(kinds, s, 1, Tokens(kinds, r))
        BY <2>1, ReplySteps
      <3>3. Flow(kinds)[s][1] = Tokens(kinds, r)
        BY <3>1, MailTaken
      <3>4. Continues(kinds, s, 1, Tokens(kinds, r))
        BY <3>3 DEF Continues, SameCall
      <3>5. s \in Chan
        BY Channels
      <3>6. QED
        BY <3>1, <3>2, <3>4, <3>5 DEF MoveStep
    <2>2. ASSUME NEW b \in Box, ProcessMessage(o, b) PROVE MessageStep
      BY <2>2 DEF MessageStep
    <2>3. ASSUME NEW m \in held[o], Answer(o, m) PROVE MoveStep(kinds)
      <3> DEFINE X == Tokens(kinds, ReplyTo(m, o, "ok"))
                 s == <<"held", o>>
      <3>1. held' = [held EXCEPT ![o] = @ \ {m}] /\ UNCHANGED <<nextSeq, executed>>
        BY <2>3 DEF Answer
      <3>2. TokenStep(kinds, s, m, X)
        BY <1>1, <2>3, TracedMessages, AnswerSteps
      <3>3. Flow(kinds)[s][m] = HeldTokens(kinds, m)
        BY <3>1, HeldTaken
      <3>4. ASSUME NEW x \in X
            PROVE  \E y \in HeldTokens(kinds, m) : SameCall(x, y) /\ (Settled(x) <=> Settled(y))
        <4>1. "reply" \in kinds /\ x = <<m.of, m.seq, "ok">>
          BY DEF Tokens, ReplyTo, What
        <4> DEFINE y == <<m.of, m.seq, "held">>
        <4>2. y \in HeldTokens(kinds, m)
          BY <4>1 DEF HeldTokens
        <4>3. SameCall(x, y) /\ (Settled(x) <=> Settled(y))
          BY <4>1 DEF SameCall, Settled
        <4>4. QED
          BY <4>2, <4>3
      <3>5. Continues(kinds, s, m, X)
        BY <3>3, <3>4 DEF Continues
      <3>6. s \in Chan
        BY Channels
      <3>7. QED
        BY <3>1, <3>2, <3>5, <3>6 DEF MoveStep
    <2>4. QED
      BY <1>4, <2>1, <2>2, <2>3 DEF MailboxStep
  <1>5. CASE UNCHANGED vars
    <2>1. UNCHANGED <<up, down, mail, held, outgoing, executed, answers, nextSeq>>
      BY <1>5 DEF vars
    <2>2. \A ch \in Chan : ch # NoPlace => Lands(kinds, ch, 0, 0, {})
      BY <2>1, ChannelsLand
    <2>3. QED
      BY <2>1, <2>2, NoPlaceSteps, QuietMoves
  <1>6. QED
    BY <1>2, <1>3, <1>4, <1>5 DEF Next

LEMMA KnownFinite ==
  ASSUME IsFiniteSet(known), [Next]_vars
  PROVE  IsFiniteSet(known)'
  <1>1. known' = known \/ \E c \in Client : known' = known \cup {c} \/ known' = known \ {c}
    BY DEF Next, ClientStep, LauncherStep, MailboxStep, ChangeProfile, SetGameState, Connect,
           ClientPost, ClientReceive, RemoveMailbox, RegisterAddress, Crash, LauncherPost,
           ProcessOutgoing, LauncherRoute, LauncherIdentify, LauncherClosed, PipeClosed,
           ProcessReply, ProcessMessage, Answer, vars, dir
  <1>2. QED
    BY <1>1, FS_AddElement, FS_RemoveElement

LEMMA NothingFlows ==
  ASSUME NEW kinds, Init
  PROVE  \A ch \in Chan : DOMAIN Flow(kinds)[ch] = {}
  <1> DEFINE q == Flow(kinds)
  <1>1. FlowParts(kinds, q)
    BY FlowIs
  <1> HIDE DEF q
  <1>2. \A ch \in Chan : DOMAIN q[ch] = {}
    <2>1. /\ \A c \in Client : up[c] = <<>> /\ down[c] = <<>>
          /\ \A o \in Office : /\ \A b \in Box : mail[o][b] = <<>>
                               /\ held[o] = {} /\ answers[o] = <<>>
          /\ outgoing = <<>> /\ executed = <<>>
      BY DEF Init
    <2>2. DOMAIN q[<<"outgoing">>] = {} /\ DOMAIN q[<<"executed">>] = {}
      <3>1. DOMAIN q[<<"outgoing">>] = DOMAIN outgoing
        BY <1>1 DEF FlowParts
      <3>2. DOMAIN q[<<"executed">>] = DOMAIN executed
        BY <1>1 DEF FlowParts
      <3>3. QED
        BY <2>1, <3>1, <3>2
    <2>3. ASSUME NEW c \in Client
          PROVE  DOMAIN q[<<"up", c>>] = {} /\ DOMAIN q[<<"down", c>>] = {}
      <3>1. DOMAIN q[<<"up", c>>] = DOMAIN up[c]
        BY <1>1 DEF FlowParts
      <3>2. DOMAIN q[<<"down", c>>] = DOMAIN down[c]
        BY <1>1 DEF FlowParts
      <3>3. up[c] = <<>> /\ down[c] = <<>>
        BY <2>1
      <3>4. QED
        BY <3>1, <3>2, <3>3
    <2>4. ASSUME NEW o \in Office, NEW b \in Box PROVE DOMAIN q[<<"mail", o, b>>] = {}
      <3>1. DOMAIN q[<<"mail", o, b>>] = DOMAIN mail[o][b]
        BY <1>1 DEF FlowParts
      <3>2. mail[o][b] = <<>>
        BY <2>1
      <3>3. QED
        BY <3>1, <3>2
    <2>5. ASSUME NEW o \in Office
          PROVE  DOMAIN q[<<"held", o>>] = {} /\ DOMAIN q[<<"answers", o>>] = {}
      <3>1. DOMAIN q[<<"held", o>>] = held[o]
        BY <1>1 DEF FlowParts
      <3>2. DOMAIN q[<<"answers", o>>] = DOMAIN answers[o]
        BY <1>1 DEF FlowParts
      <3>3. held[o] = {} /\ answers[o] = <<>>
        BY <2>1
      <3>4. QED
        BY <3>1, <3>2, <3>3
    <2>6. ASSUME NEW ch \in Chan PROVE DOMAIN q[ch] = {}
      <3>1. CASE ch = <<"outgoing">> \/ ch = <<"executed">>
        BY <2>2, <3>1
      <3>2. CASE \E c \in Client : ch = <<"up", c>> \/ ch = <<"down", c>>
        BY <2>3, <3>2
      <3>3. CASE \E o \in Office, b \in Box : ch = <<"mail", o, b>>
        BY <2>4, <3>3
      <3>4. CASE \E o \in Office : ch = <<"held", o>> \/ ch = <<"answers", o>>
        BY <2>5, <3>4
      <3>5. QED
        BY <3>1, <3>2, <3>3, <3>4 DEF Chan
    <2>7. QED
      BY <2>6
  <1>3. QED
    BY <1>2 DEF q

LEMMA TokenInvInit == ASSUME NEW kinds, Init PROVE TokenInv(kinds) /\ IsFiniteSet(known)
  <1> DEFINE q == Flow(kinds)
  <1>2. \A ch \in Chan : DOMAIN q[ch] = {}
    BY NothingFlows
  <1>3. DOMAIN q = Chan
    BY FlowIs DEF FlowParts
  <1> HIDE DEF q
  <1>4. Once(q) /\ Numbered(q)
    BY <1>2, <1>3 DEF Once, Numbered
  <1>5. known = {}
    BY DEF Init
  <1>6. QED
    BY <1>4, <1>5, FS_EmptySet DEF TokenInv, q

LEMMA TokenInvNext ==
  ASSUME TypeOK, IsFiniteSet(known), NEW kinds, Followed(kinds), TokenInv(kinds), [Next]_vars
  PROVE  TokenInv(kinds)'
  <1>1. CASE MoveStep(kinds)
    <2>1. PICK s, h, X : /\ TokenStep(kinds, s, h, X) /\ Continues(kinds, s, h, X)
                         /\ s \in Chan \/ X = {}
      BY <1>1 DEF MoveStep
    <2>2. \A x \in X : s \in Chan /\ \E y \in Flow(kinds)[s][h] : SameCall(x, y)
      BY <2>1 DEF Continues
    <2>3. nextSeq' = nextSeq
      BY <1>1 DEF MoveStep
    <2>4. QED
      BY <2>1, <2>2, <2>3, MovePreserves
  <1>2. CASE PostStep
    <2>1. PICK mode \in Modes, addr \in Targets, o \in Office : \E b \in boxes[o] :
            \/ o \in Client /\ ClientPost(o, mode, addr, b)
            \/ o = Launcher /\ LauncherPost(mode, addr, b)
      BY <1>2 DEF PostStep
    <2>2. PICK b \in boxes[o] :
            \/ o \in Client /\ ClientPost(o, mode, addr, b)
            \/ o = Launcher /\ LauncherPost(mode, addr, b)
      BY <2>1
    <2> DEFINE m == NewEnvelope(o, mode, addr, b)
               X == Outcomes(kinds, m)
    <2>3. TokenStep(kinds, NoPlace, 0, X)
      BY <2>2, PostSteps
    <2>4. nextSeq' = [nextSeq EXCEPT ![o] = @ + 1]
      BY <2>2 DEF ClientPost, LauncherPost, Register
    <2>5. m.of = o /\ m.seq = nextSeq[o] + 1
      BY DEF NewEnvelope
    <2> HIDE DEF m
    <2>6. \A x \in X : x[1] = o /\ x[2] = nextSeq[o] + 1
      BY <2>5 DEF Outcomes, Tokens
    <2> HIDE DEF X
    <2>7. QED
      BY <2>3, <2>4, <2>6, PostPreserves
  <1>3. CASE MessageStep
    <2>1. PICK o \in Office, b \in Box : ProcessMessage(o, b)
      BY <1>3 DEF MessageStep
    <2> DEFINE m == Head(mail[o][b])
               s == <<"mail", o, b>>
               X == ReceivedTokens(kinds, m)
    <2>2. TokenStep(kinds, s, 1, X)
      BY <2>1, MessageSteps
    <2>3. mail[o][b] # <<>> /\ mail' = [mail EXCEPT ![o][b] = Tail(@)] /\ nextSeq' = nextSeq
      BY <2>1 DEF ProcessMessage
    <2>4. Flow(kinds)[s][1] = Tokens(kinds, m)
      BY <2>3, MailTaken
    <2>5. s \in Chan /\ "call" \in kinds
      BY Channels, FollowedKinds
    <2>6. ASSUME NEW x \in X PROVE \E y \in Tokens(kinds, m) : SameCall(x, y)
      <3> DEFINE y == <<m.of, m.seq, What(m)>>
      <3>1. m.mode = "call" /\ x[1] = m.of /\ x[2] = m.seq
        BY DEF ReceivedTokens
      <3>2. y \in Tokens(kinds, m)
        BY <2>5, <3>1 DEF Tokens
      <3>3. SameCall(x, y)
        BY <3>1 DEF SameCall
      <3>4. QED
        BY <3>2, <3>3
    <2> HIDE DEF X, m
    <2>7. \A x \in X : s \in Chan /\ \E y \in Flow(kinds)[s][1] : SameCall(x, y)
      BY <2>4, <2>5, <2>6
    <2> HIDE DEF s
    <2>8. QED
      BY <2>2, <2>3, <2>7, MovePreserves
  <1>4. QED
    BY <1>1, <1>2, <1>3, StepKinds

\* A call is received by at most one actor, once, wherever its address is
\* resolved, for any number of clients, whatever their profiles.
THEOREM ExecutedOnceCorrect == Spec => []ExecutedOnce
  <1> DEFINE Inv == TypeOK /\ IsFiniteSet(known) /\ TokenInv(Calls)
  <1>1. Init => Inv
    BY InitType, TokenInvInit
  <1>2. Inv /\ [Next]_vars => Inv'
    BY NextType, KnownFinite, TokenInvNext DEF Followed
  <1>3. Inv => ExecutedOnce
    <2> SUFFICES ASSUME Inv, NEW i \in DOMAIN executed, NEW j \in DOMAIN executed,
                        executed[i].caller = executed[j].caller, executed[i].seq = executed[j].seq
                 PROVE  i = j
      BY DEF ExecutedOnce
    <2> DEFINE q == Flow(Calls)
               s == <<"executed">>
    <2>1. FlowParts(Calls, q)
      BY FlowIs
    <2> HIDE DEF q
    <2>2. DOMAIN q[s] = DOMAIN executed /\ s \in DOMAIN q
          /\ \A k \in DOMAIN executed : q[s][k] = ExecutedTokens(Calls, executed[k])
      BY <2>1, Channels DEF FlowParts
    <2>3. \A k \in DOMAIN executed :
             <<executed[k].caller, executed[k].seq, "done">> \in q[s][k]
      BY <2>2 DEF ExecutedTokens, Calls
    <2>4. Once(q)
      BY DEF TokenInv, q
    <2>5. SameCall(<<executed[i].caller, executed[i].seq, "done">>,
                   <<executed[j].caller, executed[j].seq, "done">>)
      BY DEF SameCall
    <2>6. QED
      BY <2>2, <2>3, <2>4, <2>5 DEF Once
  <1>4. QED
    BY <1>1, <1>2, <1>3, PTL DEF Spec

-----------------------------------------------------------------------------
(***************************************************************************)
(* A call that nobody has executed yet is on its way, or has failed.       *)
(***************************************************************************)
WasExecuted(o, n) == \E i \in DOMAIN executed : executed[i].caller = o /\ executed[i].seq = n

\* What has become of a call is what its executions say.
Fits(x) == Settled(x) <=> WasExecuted(x[1], x[2])

AllFit(q) == \A ch \in DOMAIN q : \A i \in DOMAIN q[ch] : \A x \in q[ch][i] : Fits(x)

FitsInv == AllFit(Flow(CallsAndReplies))

LEMMA FitsPreserved ==
  ASSUME FitsInv, NEW s, NEW h, NEW X, TokenStep(CallsAndReplies, s, h, X),
         \A x \in X : (Settled(x) <=> WasExecuted(x[1], x[2])'),
         \A ch \in Chan : \A i \in DOMAIN Flow(CallsAndReplies)[ch] :
            ch # s \/ i # h =>
               \A x \in Flow(CallsAndReplies)[ch][i] :
                  WasExecuted(x[1], x[2])' <=> WasExecuted(x[1], x[2])
  PROVE  FitsInv'
  <1> DEFINE q == Flow(CallsAndReplies)
             same(x) == WasExecuted(x[1], x[2])' <=> WasExecuted(x[1], x[2])
             fits(x) == Settled(x) <=> WasExecuted(x[1], x[2])'
  <1>1. DOMAIN q = Chan /\ DOMAIN q' = Chan
    BY FlowIs, FlowWillBe DEF FlowParts
  <1>2. PICK t, e : \A ch \in Chan : ch # s => Landed(q, q', ch, t, e, X)
    BY DEF TokenStep, Lands
  <1>3. PICK org : s \in Chan => Taken(q, q', s, h, org)
    BY DEF TokenStep
  <1>4. \A ch \in Chan : \A i \in DOMAIN q[ch] : \A x \in q[ch][i] : Fits(x)
    BY <1>1 DEF FitsInv, AllFit
  <1>5. \A ch \in Chan : \A i \in DOMAIN q[ch] : ch # s \/ i # h => \A x \in q[ch][i] : same(x)
    OBVIOUS
  <1>6. \A x \in X : fits(x)
    OBVIOUS
  <1>7. \A x : Fits(x) /\ same(x) => fits(x)
    BY DEF Fits
  <1> HIDE DEF q, same, fits
  <1>8. ASSUME NEW ch \in Chan, NEW i \in DOMAIN q'[ch], NEW x \in q'[ch][i]
        PROVE  fits(x)
    <2>1. CASE ch # s
      <3>1. \/ i \in DOMAIN q[ch] /\ x \in q[ch][i]
            \/ x \in X
        BY <1>2, <2>1 DEF Landed
      <3>2. QED
        BY <1>4, <1>5, <1>6, <1>7, <2>1, <3>1
    <2>2. CASE ch = s
      <3>1. org[i] \in DOMAIN q[s] /\ org[i] # h /\ x \in q[s][org[i]]
        BY <1>3, <2>2 DEF Taken
      <3>2. QED
        BY <1>4, <1>5, <1>7, <2>2, <3>1
    <2>3. QED
      BY <2>1, <2>2
  <1>9. FitsInv' <=> \A ch \in DOMAIN q' : \A i \in DOMAIN q'[ch] : \A x \in q'[ch][i] : fits(x)
    BY DEF FitsInv, AllFit, Fits, fits, q
  <1>10. QED
    BY <1>1, <1>8, <1>9

LEMMA FitsMove ==
  ASSUME FitsInv, MoveStep(CallsAndReplies)
  PROVE  FitsInv'
  <1> DEFINE q == Flow(CallsAndReplies)
  <1>1. PICK s, h, X : /\ TokenStep(CallsAndReplies, s, h, X)
                       /\ Continues(CallsAndReplies, s, h, X)
                       /\ s \in Chan \/ X = {}
    BY DEF MoveStep
  <1>2. \A x : WasExecuted(x[1], x[2])' <=> WasExecuted(x[1], x[2])
    BY DEF MoveStep, WasExecuted
  <1>3. DOMAIN q = Chan
    BY FlowIs DEF FlowParts
  <1>4. ASSUME NEW x \in X PROVE Settled(x) <=> WasExecuted(x[1], x[2])'
    <2>1. s \in Chan /\ h \in DOMAIN q[s]
      BY <1>1 DEF TokenStep
    <2>2. PICK y \in q[s][h] : SameCall(x, y) /\ (Settled(x) <=> Settled(y))
      BY <1>1 DEF Continues
    <2>3. Fits(y)
      BY <1>3, <2>1, <2>2 DEF FitsInv, AllFit
    <2>4. QED
      BY <1>2, <2>2, <2>3 DEF Fits, SameCall
  <1> HIDE DEF q
  <1>5. QED
    BY <1>1, <1>2, <1>4, FitsPreserved

\* What is executed has a number.
LEMMA ExecutedNumbers ==
  ASSUME TokenInv(Calls), NEW o, NEW n, WasExecuted(o, n)
  PROVE  o \in Office /\ n \in 1 .. nextSeq[o]
  <1> DEFINE q == Flow(Calls)
             s == <<"executed">>
  <1>1. PICK i \in DOMAIN executed : executed[i].caller = o /\ executed[i].seq = n
    BY DEF WasExecuted
  <1>2. FlowParts(Calls, q)
    BY FlowIs
  <1>3. Numbered(q)
    BY DEF TokenInv
  <1> HIDE DEF q
  <1>4. /\ s \in DOMAIN q /\ i \in DOMAIN q[s]
        /\ q[s][i] = ExecutedTokens(Calls, executed[i])
    BY <1>2, Channels DEF FlowParts
  <1>5. <<o, n, "done">> \in q[s][i]
    BY <1>1, <1>4 DEF ExecutedTokens, Calls
  <1>6. QED
    BY <1>3, <1>4, <1>5 DEF Numbered

LEMMA FitsPost ==
  ASSUME TypeOK, TokenInv(Calls), FitsInv, PostStep
  PROVE  FitsInv'
  <1>1. PICK mode \in Modes, addr \in Targets, o \in Office : \E b \in boxes[o] :
          \/ o \in Client /\ ClientPost(o, mode, addr, b)
          \/ o = Launcher /\ LauncherPost(mode, addr, b)
    BY DEF PostStep
  <1>2. PICK b \in boxes[o] :
          \/ o \in Client /\ ClientPost(o, mode, addr, b)
          \/ o = Launcher /\ LauncherPost(mode, addr, b)
    BY <1>1
  <1> DEFINE m == NewEnvelope(o, mode, addr, b)
             X == Outcomes(CallsAndReplies, m)
  <1>3. TokenStep(CallsAndReplies, NoPlace, 0, X)
    BY <1>2, PostSteps
  <1>4. executed' = executed
    BY <1>2 DEF ClientPost, LauncherPost
  <1>5. m.of = o /\ m.seq = nextSeq[o] + 1 /\ m.status = "ok" /\ m.mode = mode
    BY DEF NewEnvelope
  <1>5a. mode # "reply"
    BY OfficeAssumption
  <1> HIDE DEF m
  <1>6. ASSUME NEW x \in X PROVE x[1] = o /\ x[2] = nextSeq[o] + 1 /\ ~ Settled(x)
    BY <1>5, <1>5a DEF Outcomes, Tokens, CallsAndReplies, What, Settled
  <1>7. ~ WasExecuted(o, nextSeq[o] + 1)
    BY ExecutedNumbers DEF TypeOK
  <1>8. \A x : WasExecuted(x[1], x[2])' <=> WasExecuted(x[1], x[2])
    BY <1>4 DEF WasExecuted
  <1> HIDE DEF X
  <1>9. QED
    BY <1>3, <1>6, <1>7, <1>8, FitsPreserved

LEMMA ExecutedAppended ==
  ASSUME TypeOK, NEW x \in [caller : Office, seq : Nat, at : Office],
         executed' = Append(executed, x), NEW o, NEW n
  PROVE  WasExecuted(o, n)' <=> WasExecuted(o, n) \/ (x.caller = o /\ x.seq = n)
  <1> DEFINE longer == Append(executed, x)
  <1>1. executed \in Seq([caller : Office, seq : Nat, at : Office])
    BY DEF TypeOK
  <1>2. /\ \A i \in DOMAIN longer : \/ i \in DOMAIN executed /\ longer[i] = executed[i]
                                    \/ i = Len(executed) + 1 /\ longer[i] = x
        /\ \A i \in DOMAIN executed : i \in DOMAIN longer /\ longer[i] = executed[i]
        /\ Len(executed) + 1 \in DOMAIN longer /\ longer[Len(executed) + 1] = x
    BY <1>1
  <1> HIDE DEF longer
  <1>3. executed' = longer
    BY DEF longer
  <1>4. QED
    BY <1>2, <1>3 DEF WasExecuted

LEMMA FitsMessage ==
  ASSUME TypeOK, TokenInv(CallsAndReplies), FitsInv, MessageStep
  PROVE  FitsInv'
  <1>1. PICK o \in Office, b \in Box : ProcessMessage(o, b)
    BY DEF MessageStep
  <1> DEFINE K == CallsAndReplies
             m == Head(mail[o][b])
             s == <<"mail", o, b>>
             X == ReceivedTokens(K, m)
             q == Flow(K)
  <1>2. TokenStep(K, s, 1, X)
    BY <1>1, MessageSteps
  <1>3. /\ mail[o][b] # <<>> /\ mail' = [mail EXCEPT ![o][b] = Tail(@)]
        /\ m.mode # "call" => executed' = executed
        /\ m.mode = "call" => executed' = Append(executed, [caller |-> m.of, seq |-> m.seq, at |-> o])
    BY <1>1 DEF ProcessMessage
  <1>4. q[s][1] = Tokens(K, m) /\ 1 \in DOMAIN q[s] /\ s \in DOMAIN q /\ DOMAIN q = Chan
    <2>1. DOMAIN q = Chan
      BY FlowIs DEF FlowParts
    <2>2. q[s][1] = Tokens(K, m) /\ 1 \in DOMAIN q[s]
      BY <1>3, MailTaken
    <2>3. s \in Chan
      BY Channels
    <2> HIDE DEF q, s, m
    <2>4. QED
      BY <2>1, <2>2, <2>3
  <1>5. m \in Envelope
    BY <1>3, MailTail
  <1>6. Once(q)
    BY DEF TokenInv
  <1> HIDE DEF q, s, m
  <1>7. CASE m.mode # "call"
    <2>1. X = {}
      BY <1>7 DEF ReceivedTokens
    <2>2. \A x : WasExecuted(x[1], x[2])' <=> WasExecuted(x[1], x[2])
      BY <1>3, <1>7 DEF WasExecuted
    <2> HIDE DEF X
    <2>3. QED
      BY <1>2, <2>1, <2>2, FitsPreserved DEF q
  <1>8. CASE m.mode = "call"
    <2> DEFINE y == <<m.of, m.seq, "call">>
    <2>1. \A u, n : WasExecuted(u, n)' <=> WasExecuted(u, n) \/ (m.of = u /\ m.seq = n)
      <3> DEFINE z == [caller |-> m.of, seq |-> m.seq, at |-> o]
      <3>1. z \in [caller : Office, seq : Nat, at : Office] /\ z.caller = m.of /\ z.seq = m.seq
        BY <1>5 DEF Envelope
      <3>2. executed' = Append(executed, z)
        BY <1>3, <1>8
      <3> HIDE DEF z
      <3>3. QED
        BY <3>1, <3>2, ExecutedAppended
    <2>2. \A x \in X : Settled(x) /\ x[1] = m.of /\ x[2] = m.seq
      BY <1>8 DEF ReceivedTokens, CallsAndReplies, Settled
    <2>3. y \in q[s][1]
      BY <1>4, <1>8 DEF Tokens, What, CallsAndReplies
    <2>4. ASSUME NEW ch \in Chan, NEW i \in DOMAIN q[ch], ch # s \/ i # 1, NEW x \in q[ch][i]
          PROVE  WasExecuted(x[1], x[2])' <=> WasExecuted(x[1], x[2])
      <3>1. ~ SameCall(x, y)
        BY <1>4, <1>6, <2>3, <2>4 DEF Once
      <3>2. QED
        BY <2>1, <3>1 DEF SameCall
    <2>5. \A x \in X : Settled(x) <=> WasExecuted(x[1], x[2])'
      BY <2>1, <2>2
    <2> HIDE DEF X, y
    <2>6. QED
      BY <1>2, <2>4, <2>5, FitsPreserved DEF q
  <1>9. QED
    BY <1>7, <1>8

LEMMA FitsInit == Init => FitsInv
  <1> SUFFICES ASSUME Init PROVE FitsInv
    OBVIOUS
  <1>1. TokenInv(CallsAndReplies)
    BY TokenInvInit
  <1>2. \A ch \in Chan : DOMAIN Flow(CallsAndReplies)[ch] = {}
    BY NothingFlows
  <1>3. DOMAIN Flow(CallsAndReplies) = Chan
    BY FlowIs DEF FlowParts
  <1>4. QED
    BY <1>2, <1>3 DEF FitsInv, AllFit

-----------------------------------------------------------------------------
NumberBound == \A o \in Office : nextSeq[o] <= MaxPost /\ 0 \notin pending[o]

LEMMA NumberBoundNext ==
  ASSUME TypeOK, NumberBound, [Next]_vars
  PROVE  NumberBound'
  <1> USE NoneNotOffice
  <1> DEFINE Counts == \E o \in Office, mode \in Modes : nextSeq[o] < MaxPost /\ Register(o, mode)
             Keeps == nextSeq' = nextSeq /\ \A o \in Office : pending'[o] \subseteq pending[o]
  <1>0. UNCHANGED <<nextSeq, pending>> => Keeps
    OBVIOUS
  <1>1. Keeps \/ Counts
    <2>1. ASSUME NEW c \in Client, ClientStep(c) PROVE Keeps \/ Counts
      <3>1. ASSUME NEW mode \in Modes, NEW addr, NEW b, ClientPost(c, mode, addr, b) PROVE Counts
        BY <3>1 DEF ClientPost
      <3>2. CASE Crash(c)
        BY <3>2 DEF Crash, TypeOK
      <3> HIDE DEF Counts, Keeps
      <3>3. QED
        BY <1>0, <2>1, <3>1, <3>2 DEF ClientStep, ChangeProfile, SetGameState, Connect,
                                      ClientReceive, RemoveMailbox, RegisterAddress
    <2>2. ASSUME LauncherStep PROVE Keeps \/ Counts
      <3>1. ASSUME NEW mode \in Modes, NEW addr, NEW b, LauncherPost(mode, addr, b) PROVE Counts
        BY <3>1 DEF LauncherPost
      <3> HIDE DEF Counts, Keeps
      <3>2. QED
        BY <1>0, <2>2, <3>1 DEF LauncherStep, ProcessOutgoing, LauncherRoute, LauncherIdentify,
                                LauncherClosed, PipeClosed
    <2>3. ASSUME NEW o \in Office, MailboxStep(o) PROVE Keeps
      <3>1. ASSUME NEW b \in Box, ProcessReply(o, b) PROVE Keeps
        <4>1. nextSeq' = nextSeq /\ (pending' = pending \/ \E n : pending' = [pending EXCEPT ![o] = pending[o] \ {n}])
          BY <3>1 DEF ProcessReply, EraseRequest
        <4>2. QED
          BY <4>1 DEF TypeOK
      <3> HIDE DEF Keeps
      <3>2. QED
        BY <1>0, <2>3, <3>1 DEF MailboxStep, ProcessMessage, Answer
    <2>4. UNCHANGED vars => Keeps
      BY DEF vars
    <2> HIDE DEF Counts, Keeps
    <2>5. QED
      BY <2>1, <2>2, <2>3, <2>4 DEF Next
  <1>2. MaxPost \in Nat /\ nextSeq \in [Office -> Nat] /\ pending \in [Office -> SUBSET Nat]
    BY OfficeAssumption DEF TypeOK
  <1>3. CASE Keeps
    BY <1>2, <1>3 DEF NumberBound
  <1>4. CASE Counts
    <2>1. PICK o \in Office, mode \in Modes : nextSeq[o] < MaxPost /\ Register(o, mode)
      BY <1>4
    <2>2. ASSUME NEW p \in Office PROVE nextSeq'[p] <= MaxPost /\ 0 \notin pending'[p]
      <3>1. nextSeq[o] \in Nat /\ nextSeq[p] <= MaxPost /\ 0 \notin pending[p]
        BY <1>2 DEF NumberBound
      <3>2. CASE p = o
        BY <1>2, <2>1, <3>1, <3>2 DEF Register
      <3>3. CASE p # o
        BY <1>2, <2>1, <3>1, <3>3 DEF Register
      <3>4. QED
        BY <3>2, <3>3
    <2>3. QED
      BY <2>2 DEF NumberBound
  <1>5. QED
    BY <1>1, <1>3, <1>4

PromiseInv ==
    /\ TypeOK /\ IsFiniteSet(known) /\ OwnInv
    /\ TokenInv(Calls) /\ TokenInv(CallsAndReplies) /\ FitsInv
    /\ CallbackInv /\ NumberBound

LEMMA PromiseInvInit == Init => PromiseInv
  <1> SUFFICES ASSUME Init PROVE PromiseInv
    OBVIOUS
  <1>1. NumberBound
    BY OfficeAssumption DEF NumberBound, Init
  <1>2. QED
    BY <1>1, InitType, OwnInvInit, TokenInvInit, FitsInit, CallbackInvInit DEF PromiseInv

LEMMA PromiseInvNext == DistinctProfiles /\ PromiseInv /\ [Next]_vars => PromiseInv'
  <1> SUFFICES ASSUME DistinctProfiles, PromiseInv, [Next]_vars PROVE PromiseInv'
    OBVIOUS
  <1>1. /\ TypeOK /\ IsFiniteSet(known) /\ OwnInv /\ CallbackInv /\ NumberBound
        /\ TokenInv(Calls) /\ TokenInv(CallsAndReplies) /\ FitsInv
    BY DEF PromiseInv
  <1>2. Followed(Calls) /\ Followed(CallsAndReplies)
    BY <1>1 DEF Followed
  <1>3. TypeOK' /\ OwnInv' /\ CallbackInv' /\ NumberBound' /\ IsFiniteSet(known)'
    BY <1>1, NextType, OwnInvNext, CallbackInvNext, NumberBoundNext, KnownFinite
  <1>4. TokenInv(Calls)' /\ TokenInv(CallsAndReplies)'
    BY <1>1, <1>2, TokenInvNext
  <1>5. FitsInv'
    BY <1>1, <1>2, StepKinds, FitsMove, FitsPost, FitsMessage
  <1>6. QED
    BY <1>3, <1>4, <1>5 DEF PromiseInv

-----------------------------------------------------------------------------
(* The states of the calls.                                                 *)

\* The cases of CallStateOf do not overlap.
ReadsAs(o, n) ==
    /\ n > nextSeq[o] => CallStateOf(o, n) = "unused"
    /\ n \in pending[o] => CallStateOf(o, n) = "pending"
    /\ n <= nextSeq[o] /\ n \notin pending[o]
          /\ (\A i \in DOMAIN answers[o] : answers[o][i].seq # n)
          => CallStateOf(o, n) = "closed"
    /\ \A i \in DOMAIN answers[o] : answers[o][i].seq = n =>
          CallStateOf(o, n) = IF answers[o][i].status = "ok" THEN "ok" ELSE "error"

LEMMA CallStates ==
  ASSUME TypeOK, CallbackInv, NEW o \in Office, NEW n \in Nat
  PROVE  ReadsAs(o, n)
  <1> DEFINE mine == {i \in DOMAIN answers[o] : answers[o][i].seq = n}
  <1>1. PendingIsNumbered(o) /\ AnsweredIsErased(o) /\ OncePerSequence(o)
    BY DEF CallbackInv
  <1>2. nextSeq[o] \in Nat
    BY DEF TypeOK
  <1>3. n > nextSeq[o] => n \notin pending[o] /\ mine = {} /\ ~ (n <= nextSeq[o])
    BY <1>1, <1>2 DEF PendingIsNumbered, AnsweredIsErased
  <1>4. n \in pending[o] => ~ (n > nextSeq[o]) /\ mine = {}
    BY <1>1, <1>2 DEF PendingIsNumbered, AnsweredIsErased
  <1>5. ASSUME NEW i \in mine
        PROVE  /\ n \notin pending[o] /\ ~ (n > nextSeq[o]) /\ mine # {}
               /\ (\E j \in mine : answers[o][j].status = "ok") <=> answers[o][i].status = "ok"
    BY <1>1, <1>2 DEF AnsweredIsErased, OncePerSequence
  <1>6. CallStateOf(o, n) =
          CASE n > nextSeq[o]    -> "unused"
            [] n \in pending[o]  -> "pending"
            [] n \notin pending[o] /\ n <= nextSeq[o] /\ mine = {} -> "closed"
            [] OTHER -> IF \E i \in mine : answers[o][i].status = "ok" THEN "ok" ELSE "error"
    BY DEF CallStateOf
  <1>7. \A i \in DOMAIN answers[o] : answers[o][i].seq = n <=> i \in mine
    OBVIOUS
  <1>8. (\A i \in DOMAIN answers[o] : answers[o][i].seq # n) => mine = {}
    OBVIOUS
  <1> HIDE DEF mine
  <1>9. n > nextSeq[o] => CallStateOf(o, n) = "unused"
    BY <1>3, <1>6
  <1>10. n \in pending[o] => CallStateOf(o, n) = "pending"
    BY <1>4, <1>6
  <1>11. n <= nextSeq[o] /\ n \notin pending[o] /\ mine = {} => CallStateOf(o, n) = "closed"
    BY <1>2, <1>6
  <1>12. ASSUME NEW i \in mine
         PROVE  CallStateOf(o, n) = IF answers[o][i].status = "ok" THEN "ok" ELSE "error"
    BY <1>5, <1>6
  <1>13. QED
    BY <1>7, <1>8, <1>9, <1>10, <1>11, <1>12 DEF ReadsAs

\* ... neither before a step nor after it.
LEMMA CallStatesNext ==
  ASSUME NEW o \in Office, NEW n \in Nat
  PROVE  TypeOK' /\ CallbackInv' => ReadsAs(o, n)'
  <1>1. TypeOK /\ CallbackInv => ReadsAs(o, n)
    BY CallStates
  <1>2. TypeOK' /\ CallbackInv' => ReadsAs(o, n)'
    BY <1>1, PTL
  <1>3. QED
    BY <1>2

\* Where neither number, table nor callbacks change.
LEMMA CallStateStays ==
  ASSUME NEW o \in Office, NEW n, nextSeq'[o] = nextSeq[o], pending'[o] = pending[o],
         answers'[o] = answers[o]
  PROVE  CallStateOf(o, n)' = CallStateOf(o, n)
  BY DEF CallStateOf

\* The variables of the promise.
CallTable == [o \in Office |-> [n \in 1 .. MaxPost |-> CallStateOf(o, n)]]
Receptions == [i \in DOMAIN executed |-> <<executed[i].caller, executed[i].seq>>]

LEMMA TableStays ==
  ASSUME UNCHANGED <<nextSeq, pending, answers>>
  PROVE  CallTable' = CallTable
  <1>1. \A o \in Office : \A n \in 1 .. MaxPost : CallStateOf(o, n)' = CallStateOf(o, n)
    BY CallStateStays
  <1>2. QED
    BY <1>1 DEF CallTable

LEMMA ReceptionsStay ==
  ASSUME UNCHANGED executed
  PROVE  Receptions' = Receptions
  BY DEF Receptions

\* The table after a step that changes the call n of o, or all calls of o.
LEMMA TableChanges ==
  ASSUME NEW o \in Office, NEW n \in 1 .. MaxPost, NEW st, CallStateOf(o, n)' = st,
         \A p \in Office : \A k \in 1 .. MaxPost :
            p # o \/ k # n => CallStateOf(p, k)' = CallStateOf(p, k)
  PROVE  CallTable' = [CallTable EXCEPT ![o] = [CallTable[o] EXCEPT ![n] = st]]
  <1>1. \A p \in Office : \A k \in 1 .. MaxPost :
           CallStateOf(p, k)' = IF p = o /\ k = n THEN st ELSE CallStateOf(p, k)
    OBVIOUS
  <1>2. CallTable' = [p \in Office |-> [k \in 1 .. MaxPost |->
                        IF p = o /\ k = n THEN st ELSE CallStateOf(p, k)]]
    BY <1>1 DEF CallTable
  <1>3. [CallTable EXCEPT ![o] = [CallTable[o] EXCEPT ![n] = st]]
          = [p \in Office |-> [k \in 1 .. MaxPost |->
                        IF p = o /\ k = n THEN st ELSE CallStateOf(p, k)]]
    <2> DEFINE row(p) == [k \in 1 .. MaxPost |-> CallStateOf(p, k)]
    <2>1. [row(o) EXCEPT ![n] = st] = [k \in 1 .. MaxPost |-> IF k = n THEN st ELSE CallStateOf(o, k)]
      OBVIOUS
    <2>2. CallTable[o] = row(o)
      BY DEF CallTable
    <2>3. [CallTable EXCEPT ![o] = [CallTable[o] EXCEPT ![n] = st]]
            = [p \in Office |-> IF p = o THEN [row(o) EXCEPT ![n] = st] ELSE row(p)]
      BY <2>2 DEF CallTable
    <2>4. ASSUME NEW p \in Office
          PROVE  (IF p = o THEN [row(o) EXCEPT ![n] = st] ELSE row(p))
                   = [k \in 1 .. MaxPost |-> IF p = o /\ k = n THEN st ELSE CallStateOf(p, k)]
      <3>1. CASE p = o
        BY <2>1, <3>1
      <3>2. CASE p # o
        BY <3>2
      <3>3. QED
        BY <3>1, <3>2
    <2>5. QED
      BY <2>3, <2>4
  <1>4. QED
    BY <1>2, <1>3

LEMMA TableEntry ==
  ASSUME NEW o \in Office, NEW n \in 1 .. MaxPost
  PROVE  CallTable[o][n] = CallStateOf(o, n)
  BY DEF CallTable

\* Only a number that was not used yet reads "unused".
LEMMA UsedNumbers ==
  ASSUME TypeOK, CallbackInv, NEW o \in Office, NEW n \in Nat, n <= nextSeq[o]
  PROVE  CallStateOf(o, n) # "unused"
  <1>1. ReadsAs(o, n)
    BY CallStates
  <1>2. QED
    BY <1>1 DEF ReadsAs

LEMMA PostPromised ==
  ASSUME PromiseInv, PromiseInv', PostStep
  PROVE  \E o \in Office : \E n \in 1 .. MaxPost : Promise!Post(o, n)
  <1>1. PICK o \in Office, mode \in Modes :
             /\ nextSeq[o] < MaxPost /\ Register(o, mode) /\ UNCHANGED <<executed, answers>>
    BY DEF PostStep, ClientPost, LauncherPost
  <1>2. TypeOK /\ CallbackInv /\ TypeOK' /\ CallbackInv'
    BY DEF PromiseInv
  <1>2a. nextSeq[o] \in Nat /\ MaxPost \in Nat
    BY <1>2, OfficeAssumption DEF TypeOK
  <1>3. PICK n \in 1 .. MaxPost : n = nextSeq[o] + 1
    BY <1>1, <1>2a
  <1>3a. PICK st \in {"pending", "closed"} : st = IF mode = "call" THEN "pending" ELSE "closed"
    OBVIOUS
  <1>3b. n \in Nat /\ n > nextSeq[o]
    BY <1>2a, <1>3
  <1>4. /\ nextSeq'[o] = n
        /\ pending'[o] = IF mode = "call" THEN pending[o] \cup {n} ELSE pending[o]
        /\ answers' = answers /\ executed' = executed
        /\ \A p \in Office : p # o => nextSeq'[p] = nextSeq[p] /\ pending'[p] = pending[p]
    BY <1>1, <1>2, <1>3 DEF Register, TypeOK
  <1>5. AnsweredIsErased(o) /\ PendingIsNumbered(o)
    BY <1>2 DEF CallbackInv
  <1>6. CallStateOf(o, n)' = st
    <2>1. ReadsAs(o, n)'
      BY <1>2, <1>2a, <1>3, <1>3b, CallStatesNext
    <2>2. \A i \in DOMAIN answers'[o] : answers'[o][i].seq # n
      BY <1>2a, <1>3, <1>3b, <1>4, <1>5 DEF AnsweredIsErased
    <2>3. mode # "call" => n \notin pending'[o]
      BY <1>2a, <1>3, <1>3b, <1>4, <1>5 DEF PendingIsNumbered
    <2>4. mode = "call" => n \in pending'[o]
      BY <1>4
    <2>5. QED
      BY <1>2a, <1>3, <1>3b, <1>4, <2>1, <2>2, <2>3, <2>4, <1>3a DEF ReadsAs
  <1>7. ASSUME NEW p \in Office, NEW k \in 1 .. MaxPost, p # o \/ k # n
        PROVE  CallStateOf(p, k)' = CallStateOf(p, k)
    <2>1. CASE p # o
      BY <1>4, <2>1, CallStateStays
    <2>2. CASE p = o
      <3>1. k # n /\ k \in Nat
        BY <1>7, <2>2
      <3>2. k > nextSeq[o] <=> k > n
        BY <1>2a, <1>3, <1>3b, <3>1
      <3>3. k \in pending'[o] <=> k \in pending[o]
        BY <1>4, <3>1
      <3>4. (k > nextSeq[o])' <=> k > nextSeq[o]
        BY <1>4, <3>2
      <3>5. (k <= nextSeq[o])' <=> k <= nextSeq[o]
        BY <1>2a, <1>3, <1>3b, <1>4, <3>2, <3>1
      <3>6. QED
        BY <1>4, <2>2, <3>3, <3>4, <3>5 DEF CallStateOf
    <2>3. QED
      BY <2>1, <2>2
  <1>8. CallTable' = [CallTable EXCEPT ![o] = [CallTable[o] EXCEPT ![n] = st]]
    <2>1. QED
      BY <1>2a, <1>3, <1>3b, <1>6, <1>7, TableChanges
  <1>9. CallTable[o][n] = "unused"
    <2>1. ReadsAs(o, n) /\ n > nextSeq[o]
      BY <1>2, <1>2a, <1>3, <1>3b, CallStates
    <2>2. QED
      BY <1>2a, <1>3, <1>3b, <2>1, TableEntry DEF ReadsAs
  <1>10. ASSUME NEW k \in 1 .. n - 1 PROVE CallTable[o][k] # "unused"
    <2>1. k \in 1 .. MaxPost /\ k \in Nat /\ k <= nextSeq[o]
      BY <1>2a, <1>3
    <2>2. QED
      BY <1>2, <2>1, UsedNumbers, TableEntry
  <1>11. Receptions' = Receptions
    BY <1>4, ReceptionsStay
  <1>13. Promise!Post(o, n)
    BY <1>8, <1>9, <1>10, <1>11 DEF Promise!Post, CallTable, Receptions
  <1>14. QED
    BY <1>2a, <1>3, <1>3b, <1>13

\* What a message in a mailbox says of its call.
LEMMA MailFits ==
  ASSUME PromiseInv, NEW o \in Office, NEW b \in Box, mail[o][b] # <<>>
  PROVE  LET m == Head(mail[o][b])
         IN /\ m \in Envelope
            /\ m.mode = "reply" => m.of = o /\ (m.status = "ok" <=> WasExecuted(m.of, m.seq))
            /\ m.mode = "call" =>
                  /\ ~ WasExecuted(m.of, m.seq) /\ m.seq \in 1 .. nextSeq[m.of]
                  /\ \A i \in DOMAIN answers[m.of] : answers[m.of][i].seq # m.seq
  <1> DEFINE m == Head(mail[o][b])
             s == <<"mail", o, b>>
             x == <<m.of, m.seq, What(m)>>
             K == CallsAndReplies
             q == Flow(K)
  <1>1. /\ TypeOK /\ Once(q) /\ Numbered(q) /\ AllFit(q)
        /\ MailReturns(o, b) /\ AnswersAreOwn
    BY DEF PromiseInv, TokenInv, FitsInv, OwnInv, ReturnsInv
  <1>1a. mail[o][b] \in Seq(Envelope)
    BY <1>1 DEF TypeOK
  <1>2. m \in Envelope
    BY <1>1a
  <1>3. FlowParts(K, q)
    BY FlowIs
  <1>4. 1 \in DOMAIN mail[o][b] /\ m = mail[o][b][1]
    BY <1>1a
  <1>5. m.mode = "reply" => m.of = o
    BY <1>1, <1>4 DEF MailReturns, ReturnedTo
  <1> HIDE DEF m, q
  <1>6. s \in DOMAIN q /\ 1 \in DOMAIN q[s] /\ q[s][1] = Tokens(K, m)
    <2>1. s \in DOMAIN q
      BY <1>3, Channels DEF FlowParts
    <2>2. /\ DOMAIN q[s] = DOMAIN mail[o][b]
          /\ \A i \in DOMAIN mail[o][b] : q[s][i] = Tokens(K, mail[o][b][i])
      BY <1>3 DEF FlowParts
    <2>3. QED
      BY <1>4, <2>1, <2>2
  <1>7. m.mode \in K => x \in q[s][1]
    BY <1>6 DEF Tokens
  <1>8. /\ x[1] = m.of /\ x[2] = m.seq
        /\ m.mode = "call" => ~ Settled(x)
        /\ m.mode = "reply" => (Settled(x) <=> m.status = "ok")
    BY DEF Settled, What
  <1> HIDE DEF s, x
  <1>9. m.mode \in K => Fits(x) /\ x[2] \in 1 .. nextSeq[x[1]]
    BY <1>1, <1>6, <1>7 DEF AllFit, Numbered
  <1>10. ASSUME m.mode = "call", NEW i \in DOMAIN answers[m.of], answers[m.of][i].seq = m.seq
         PROVE  FALSE
    <2> DEFINE t == <<"answers", m.of>>
               a == answers[m.of][i]
    <2>1. m.of \in Office
      BY <1>2 DEF Envelope
    <2>2. a.caller = m.of
      BY <1>1, <2>1 DEF AnswersAreOwn
    <2>3. t \in DOMAIN q /\ i \in DOMAIN q[t] /\ q[t][i] = AnswerTokens(K, a)
      <3>1. t \in DOMAIN q
        BY <1>3, <2>1, Channels DEF FlowParts
      <3>2. /\ DOMAIN q[t] = DOMAIN answers[m.of]
            /\ \A j \in DOMAIN answers[m.of] : q[t][j] = AnswerTokens(K, answers[m.of][j])
        BY <1>3, <2>1 DEF FlowParts
      <3>3. QED
        BY <1>10, <3>1, <3>2
    <2>4. PICK y \in q[t][i] : y[1] = m.of /\ y[2] = m.seq
      <3> DEFINE z == <<a.caller, a.seq, IF a.status = "ok" THEN "ok" ELSE "error">>
      <3>1. AnswerTokens(K, a) = {z}
        BY DEF AnswerTokens, CallsAndReplies
      <3>2. a.seq = m.seq
        BY <1>10
      <3>3. z[1] = m.of /\ z[2] = m.seq
        BY <2>2, <3>2
      <3> HIDE DEF z
      <3>4. QED
        BY <2>3, <3>1, <3>3
    <2>5. SameCall(x, y)
      BY <1>8, <2>4 DEF SameCall
    <2>6. s # t
      BY DEF s
    <2> HIDE DEF t
    <2>7. m.mode \in K
      BY <1>10 DEF CallsAndReplies
    <2>8. QED
      BY <1>1, <1>6, <1>7, <2>3, <2>4, <2>5, <2>6, <2>7 DEF Once
  <1>11. m.mode = "call" \/ m.mode = "reply" => m.mode \in K
    BY DEF CallsAndReplies
  <1>12. QED
    BY <1>2, <1>5, <1>8, <1>9, <1>10, <1>11 DEF Fits, m

LEMMA PromiseExecuted ==
  ASSUME NEW o, NEW n
  PROVE  Promise!Executed(o, n) <=> WasExecuted(o, n)
  BY DEF Promise!Executed, WasExecuted

LEMMA ReceptionsAppended ==
  ASSUME TypeOK, NEW x \in [caller : Office, seq : Nat, at : Office],
         executed' = Append(executed, x)
  PROVE  Receptions' = Append(Receptions, <<x.caller, x.seq>>)
  <1>1. executed \in Seq([caller : Office, seq : Nat, at : Office])
    BY DEF TypeOK
  <1>2. Len(executed) \in Nat /\ DOMAIN executed = 1 .. Len(executed)
    BY <1>1
  <1>3. /\ DOMAIN executed' = 1 .. Len(executed) + 1
        /\ \A i \in 1 .. Len(executed) : executed'[i] = executed[i]
        /\ executed'[Len(executed) + 1] = x
    BY <1>1
  <1>4. /\ Receptions \in Seq(Office \X Nat) /\ Len(Receptions) = Len(executed)
        /\ \A i \in 1 .. Len(executed) : Receptions[i] = <<executed[i].caller, executed[i].seq>>
    <2>1. \A i \in 1 .. Len(executed) : <<executed[i].caller, executed[i].seq>> \in Office \X Nat
      <3>1. ASSUME NEW i \in 1 .. Len(executed)
            PROVE  executed[i] \in [caller : Office, seq : Nat, at : Office]
        BY <1>1, ElementOfSeq
      <3>2. QED
        BY <3>1
    <2>2. Receptions = [i \in 1 .. Len(executed) |-> <<executed[i].caller, executed[i].seq>>]
      BY <1>2 DEF Receptions
    <2>3. QED
      BY <1>2, <2>1, <2>2
  <1>5. Receptions' = [i \in 1 .. Len(executed) + 1 |-> <<executed'[i].caller, executed'[i].seq>>]
    BY <1>3 DEF Receptions
  <1>6. Append(Receptions, <<x.caller, x.seq>>)
          = [i \in 1 .. Len(executed) + 1 |->
                IF i = Len(executed) + 1 THEN <<x.caller, x.seq>> ELSE Receptions[i]]
    BY <1>4
  <1>7. \A i \in 1 .. Len(executed) + 1 :
           <<executed'[i].caller, executed'[i].seq>>
             = IF i = Len(executed) + 1 THEN <<x.caller, x.seq>> ELSE Receptions[i]
    BY <1>2, <1>3, <1>4
  <1>8. QED
    BY <1>5, <1>6, <1>7

LEMMA MessagePromised ==
  ASSUME PromiseInv, MessageStep
  PROVE  \/ CallTable' = CallTable /\ Receptions' = Receptions
         \/ \E o \in Office : \E n \in 1 .. MaxPost : Promise!Execute(o, n)
  <1>1. PICK o \in Office, b \in Box : ProcessMessage(o, b)
    BY DEF MessageStep
  <1> DEFINE m == Head(mail[o][b])
             x == [caller |-> m.of, seq |-> m.seq, at |-> o]
  <1>2. /\ mail[o][b] # <<>> /\ UNCHANGED <<nextSeq, pending, answers>>
        /\ m.mode # "call" => executed' = executed
        /\ m.mode = "call" => executed' = Append(executed, x)
    BY <1>1 DEF ProcessMessage
  <1>3. CallTable' = CallTable
    BY <1>2, TableStays
  <1>4. CASE m.mode # "call"
    BY <1>2, <1>3, <1>4, ReceptionsStay
  <1>5. CASE m.mode = "call"
    <2>1. /\ m \in Envelope /\ ~ WasExecuted(m.of, m.seq) /\ m.seq \in 1 .. nextSeq[m.of]
          /\ \A i \in DOMAIN answers[m.of] : answers[m.of][i].seq # m.seq
      BY <1>2, <1>5, MailFits
    <2>2. m.of \in Office /\ x \in [caller : Office, seq : Nat, at : Office]
          /\ x.caller = m.of /\ x.seq = m.seq
      BY <2>1 DEF Envelope
    <2> HIDE DEF x
    <2>3. Receptions' = Append(Receptions, <<m.of, m.seq>>)
      BY <1>2, <1>5, <2>2, ReceptionsAppended DEF PromiseInv
    <2>4. PICK u \in Office, n \in Nat : u = m.of /\ n = m.seq
      BY <2>1, <2>2 DEF Envelope
    <2> HIDE DEF m
    <2>5. n \in 1 .. MaxPost /\ n <= nextSeq[u]
      BY <2>1, <2>4, OfficeAssumption DEF PromiseInv, NumberBound, TypeOK
    <2>6. CallTable[u][n] \in {"pending", "closed"}
      <3>1. ReadsAs(u, n)
        BY CallStates DEF PromiseInv
      <3>2. QED
        BY <2>1, <2>4, <2>5, <3>1, TableEntry DEF ReadsAs
    <2>7. ~ Promise!Executed(u, n)
      BY <2>1, <2>4, PromiseExecuted
    <2>8. Promise!Execute(u, n)
      BY <1>3, <2>3, <2>4, <2>6, <2>7 DEF Promise!Execute, CallTable, Receptions
    <2>9. QED
      BY <2>5, <2>8
  <1>6. QED
    BY <1>4, <1>5

LEMMA ReplyPromised ==
  ASSUME PromiseInv, PromiseInv', NEW o \in Office, NEW b \in Box, ProcessReply(o, b)
  PROVE  \/ CallTable' = CallTable /\ Receptions' = Receptions
         \/ \E n \in 1 .. MaxPost : Promise!Succeed(o, n) \/ Promise!Fail(o, n)
  <1> DEFINE r == Head(mail[o][b])
             a == [seq |-> r.seq, caller |-> r.of, status |-> r.status]
             longer == Append(answers[o], a)
  <1>1. mail[o][b] # <<>> /\ r.mode = "reply" /\ UNCHANGED <<nextSeq, executed>>
    BY DEF ProcessReply
  <1>2. Receptions' = Receptions
    BY <1>1, ReceptionsStay
  <1>3. CASE r.seq \notin pending[o]
    <2>1. UNCHANGED <<nextSeq, pending, answers>>
      BY <1>3 DEF ProcessReply
    <2>2. QED
      BY <1>2, <2>1, TableStays
  <1>4. CASE r.seq \in pending[o]
    <2>1. /\ TypeOK /\ CallbackInv /\ NumberBound /\ TypeOK' /\ CallbackInv'
      BY DEF PromiseInv
    <2>2. /\ answers' = [answers EXCEPT ![o] = longer]
          /\ pending' = [pending EXCEPT ![o] = pending[o] \ {r.seq}]
      BY <1>4 DEF ProcessReply, EraseRequest
    <2>3. r \in Envelope /\ r.of = o /\ (r.status = "ok" <=> WasExecuted(r.of, r.seq))
      BY <1>1, MailFits
    <2>4. a.seq = r.seq /\ a.caller = r.of /\ a.status = r.status
          /\ a \in [seq : Nat, caller : Office, status : Status]
      BY <2>3 DEF Envelope
    <2>5. answers[o] \in Seq([seq : Nat, caller : Office, status : Status])
      BY <2>1 DEF TypeOK
    <2> HIDE DEF a, r
    <2>6. /\ \A i \in DOMAIN longer : \/ i \in DOMAIN answers[o] /\ longer[i] = answers[o][i]
                                      \/ i = Len(answers[o]) + 1 /\ longer[i] = a
          /\ \A i \in DOMAIN answers[o] : i \in DOMAIN longer /\ longer[i] = answers[o][i]
          /\ \E i \in DOMAIN longer : longer[i] = a
      <3>1. /\ \A i \in DOMAIN longer : \/ i \in DOMAIN answers[o] /\ longer[i] = answers[o][i]
                                        \/ i = Len(answers[o]) + 1 /\ longer[i] = a
            /\ \A i \in DOMAIN answers[o] : i \in DOMAIN longer /\ longer[i] = answers[o][i]
            /\ Len(answers[o]) + 1 \in DOMAIN longer /\ longer[Len(answers[o]) + 1] = a
        BY <2>4, <2>5
      <3> HIDE DEF longer
      <3>2. QED
        BY <3>1
    <2> HIDE DEF longer
    <2>7. PICK n \in Nat, st \in {"ok", "error"} :
             n = r.seq /\ st = IF r.status = "ok" THEN "ok" ELSE "error"
      BY <2>3 DEF Envelope
    <2>8. n \in pending[o] /\ PendingIsNumbered(o)
      BY <1>4, <2>1, <2>7 DEF CallbackInv
    <2>9. n \in 1 .. MaxPost
      <3>1. n <= nextSeq[o] /\ nextSeq[o] <= MaxPost /\ nextSeq[o] \in Nat /\ MaxPost \in Nat
        BY <2>1, <2>8, OfficeAssumption DEF PendingIsNumbered, NumberBound, TypeOK
      <3>2. n # 0
        BY <2>1, <2>8 DEF NumberBound
      <3>3. QED
        BY <3>1, <3>2
    <2>10. answers'[o] = longer /\ pending'[o] = pending[o] \ {n} /\ nextSeq' = nextSeq
           /\ \A p \in Office : p # o => answers'[p] = answers[p] /\ pending'[p] = pending[p]
      BY <1>1, <2>1, <2>2, <2>7 DEF TypeOK
    <2>11. CallStateOf(o, n)' = st
      <3>1. ReadsAs(o, n)'
        BY <2>1, CallStatesNext
      <3>2. PICK i \in DOMAIN longer : longer[i] = a
        BY <2>6
      <3>3. i \in DOMAIN answers'[o] /\ answers'[o][i].seq = n /\ answers'[o][i].status = r.status
        BY <2>4, <2>7, <2>10, <3>2
      <3>4. QED
        BY <2>7, <3>1, <3>3 DEF ReadsAs
    <2>12. ASSUME NEW p \in Office, NEW k \in 1 .. MaxPost, p # o \/ k # n
           PROVE  CallStateOf(p, k)' = CallStateOf(p, k)
      <3>1. CASE p # o
        BY <2>10, <3>1, CallStateStays
      <3>2. CASE p = o
        <4> DEFINE mine == {i \in DOMAIN answers[o] : answers[o][i].seq = k}
        <4>1. k # n /\ (k \in pending'[o] <=> k \in pending[o])
          BY <2>10, <2>12, <3>2
        <4>2. a.seq # k
          BY <2>4, <2>7, <4>1
        <4>3. {i \in DOMAIN longer : longer[i].seq = k} = mine
              /\ \A i \in mine : longer[i] = answers[o][i]
          BY <2>6, <4>2
        <4>4. {i \in DOMAIN answers'[o] : answers'[o][i].seq = k} = mine
              /\ \A i \in mine : answers'[o][i] = answers[o][i]
          BY <2>10, <4>3
        <4>5. (\E i \in mine : answers'[o][i].status = "ok")
                 <=> (\E i \in mine : answers[o][i].status = "ok")
          BY <4>4
        <4>6. CallStateOf(o, k) =
                CASE k > nextSeq[o]    -> "unused"
                  [] k \in pending[o]  -> "pending"
                  [] k \notin pending[o] /\ k <= nextSeq[o] /\ mine = {} -> "closed"
                  [] OTHER -> IF \E i \in mine : answers[o][i].status = "ok" THEN "ok" ELSE "error"
          BY DEF CallStateOf
        <4>7. CallStateOf(o, k)' =
                CASE k > nextSeq[o]    -> "unused"
                  [] k \in pending'[o]  -> "pending"
                  [] k \notin pending'[o] /\ k <= nextSeq[o] /\ mine = {} -> "closed"
                  [] OTHER -> IF \E i \in mine : answers'[o][i].status = "ok" THEN "ok" ELSE "error"
          BY <2>10, <4>4 DEF CallStateOf
        <4> HIDE DEF mine
        <4>8. QED
          BY <3>2, <4>1, <4>5, <4>6, <4>7
      <3>3. QED
        BY <3>1, <3>2
    <2>13. CallTable' = [CallTable EXCEPT ![o] = [CallTable[o] EXCEPT ![n] = st]]
      BY <2>9, <2>11, <2>12, TableChanges
    <2>14. CallTable[o][n] = "pending"
      <3>1. ReadsAs(o, n)
        BY <2>1, CallStates
      <3>2. QED
        BY <2>8, <2>9, <3>1, TableEntry DEF ReadsAs
    <2>15. Promise!Executed(o, n) <=> st = "ok"
      BY <2>3, <2>7, PromiseExecuted
    <2>16. CASE st = "ok"
      <3>1. Promise!Succeed(o, n)
        BY <1>2, <2>13, <2>14, <2>15, <2>16 DEF Promise!Succeed, CallTable, Receptions
      <3>2. QED
        BY <2>9, <3>1
    <2>17. CASE st = "error"
      <3>1. Promise!Fail(o, n)
        BY <1>2, <2>13, <2>14, <2>15, <2>17 DEF Promise!Fail, CallTable, Receptions
      <3>2. QED
        BY <2>9, <3>1
    <2>18. QED
      BY <2>7, <2>16, <2>17
  <1>5. QED
    BY <1>3, <1>4

LEMMA CrashPromised ==
  ASSUME PromiseInv, PromiseInv', NEW c \in Client, Crash(c)
  PROVE  Promise!CallerGone(c)
  <1>1. TypeOK /\ CallbackInv /\ TypeOK' /\ CallbackInv'
    BY DEF PromiseInv
  <1>2. c \in Office
    BY NoneNotOffice
  <1>3. /\ UNCHANGED <<nextSeq, answers, executed>>
        /\ pending'[c] = {} /\ \A p \in Office : p # c => pending'[p] = pending[p]
    BY <1>1, <1>2 DEF Crash, TypeOK
  <1>4. \A p \in Office : p # c => \A k \in 1 .. MaxPost : CallStateOf(p, k)' = CallStateOf(p, k)
    BY <1>3, CallStateStays
  <1>5. ASSUME NEW k \in 1 .. MaxPost
        PROVE  CallStateOf(c, k)' = IF CallStateOf(c, k) = "pending" THEN "closed" ELSE CallStateOf(c, k)
    <2>1. ReadsAs(c, k) /\ ReadsAs(c, k)' /\ nextSeq[c] \in Nat
      <3>1. k \in Nat
        OBVIOUS
      <3>2. ReadsAs(c, k) /\ ReadsAs(c, k)'
        BY <1>1, <1>2, <3>1, CallStates, CallStatesNext
      <3>3. QED
        BY <1>1, <1>2, <3>2 DEF TypeOK
    <2>2. PendingIsNumbered(c) /\ AnsweredIsErased(c)
      BY <1>1, <1>2 DEF CallbackInv
    <2>3. CASE k \in pending[c]
      <3>1. CallStateOf(c, k) = "pending"
        BY <2>1, <2>3 DEF ReadsAs
      <3>2. k <= nextSeq'[c] /\ k \notin pending'[c]
            /\ \A i \in DOMAIN answers'[c] : answers'[c][i].seq # k
        BY <1>3, <2>2, <2>3 DEF PendingIsNumbered, AnsweredIsErased
      <3>3. CallStateOf(c, k)' = "closed"
        BY <2>1, <3>2 DEF ReadsAs
      <3>4. QED
        BY <3>1, <3>3
    <2>4. CASE k \notin pending[c]
      <3>1. CallStateOf(c, k)' = CallStateOf(c, k)
        BY <1>3, <2>4 DEF CallStateOf
      <3>2. CallStateOf(c, k) # "pending"
        BY <2>1, <2>4 DEF ReadsAs
      <3>3. QED
        BY <3>1, <3>2
    <2>5. QED
      BY <2>3, <2>4
  <1>6. CallTable' = [CallTable EXCEPT ![c] =
           [n \in 1 .. MaxPost |-> IF CallTable[c][n] = "pending" THEN "closed" ELSE CallTable[c][n]]]
    <2> DEFINE row == [n \in 1 .. MaxPost |->
                          IF CallTable[c][n] = "pending" THEN "closed" ELSE CallTable[c][n]]
    <2>1. row = [n \in 1 .. MaxPost |-> CallStateOf(c, n)']
      BY <1>2, <1>5, TableEntry
    <2>2. [CallTable EXCEPT ![c] = row]
            = [p \in Office |-> IF p = c THEN row ELSE [n \in 1 .. MaxPost |-> CallStateOf(p, n)]]
      BY DEF CallTable
    <2>3. CallTable' = [p \in Office |-> [n \in 1 .. MaxPost |-> CallStateOf(p, n)']]
      BY DEF CallTable
    <2> HIDE DEF row
    <2>4. ASSUME NEW p \in Office
          PROVE  [n \in 1 .. MaxPost |-> CallStateOf(p, n)']
                   = IF p = c THEN row ELSE [n \in 1 .. MaxPost |-> CallStateOf(p, n)]
      BY <1>4, <2>1
    <2>5. QED
      BY <2>2, <2>3, <2>4 DEF row
  <1>7. Receptions' = Receptions
    BY <1>3, ReceptionsStay
  <1>8. QED
    BY <1>6, <1>7 DEF Promise!CallerGone, Promise!Sequence, CallTable, Receptions

LEMMA InitPromised ==
  ASSUME Init
  PROVE  Promise!Init
  <1>1. ASSUME NEW o \in Office, NEW n \in 1 .. MaxPost PROVE CallStateOf(o, n) = "unused"
    <2>1. n > nextSeq[o] /\ pending[o] = {} /\ answers[o] = <<>> /\ nextSeq[o] = 0
      BY DEF Init
    <2>2. ReadsAs(o, n)
      BY InitType, CallbackInvInit, CallStates
    <2>3. QED
      BY <2>1, <2>2 DEF ReadsAs
  <1>2. CallTable = [o \in Office |-> [n \in 1 .. MaxPost |-> "unused"]]
    BY <1>1 DEF CallTable
  <1>3. Receptions = <<>>
    BY DEF Init, Receptions
  <1>4. QED
    BY <1>2, <1>3 DEF Promise!Init, Promise!Sequence, CallTable, Receptions

LEMMA StepPromised ==
  ASSUME PromiseInv, PromiseInv', [Next]_vars
  PROVE  [Promise!Next]_(Promise!vars)
  <1> USE NoneNotOffice
  <1> DEFINE Stutters == CallTable' = CallTable /\ Receptions' = Receptions
  <1>0. Stutters => UNCHANGED Promise!vars
    BY DEF Promise!vars, CallTable, Receptions
  <1>1. ASSUME NEW o \in Office, NEW n \in 1 .. MaxPost,
               Promise!Post(o, n) \/ Promise!Execute(o, n) \/ Promise!Succeed(o, n) \/ Promise!Fail(o, n)
        PROVE  Promise!Next
    BY <1>1 DEF Promise!Next, Promise!Sequence
  <1>2. UNCHANGED <<nextSeq, pending, answers, executed>> => Stutters
    BY TableStays, ReceptionsStay
  <1>3. CASE PostStep
    BY <1>1, <1>3, PostPromised
  <1>4. CASE MessageStep
    BY <1>0, <1>1, <1>4, MessagePromised
  <1>5. ASSUME NEW o \in Office, NEW b \in Box, ProcessReply(o, b)
        PROVE  Stutters \/ Promise!Next
    BY <1>1, <1>5, ReplyPromised
  <1>6. ASSUME NEW c \in Client, Crash(c) PROVE Promise!Next
    BY <1>6, CrashPromised DEF Promise!Next
  <1> HIDE DEF Stutters
  <1>7. ASSUME NEW c \in Client, ClientStep(c) PROVE PostStep \/ Promise!Next \/ Stutters
    <2>1. CASE \E mode \in Modes, addr \in Targets, b \in boxes[c] : ClientPost(c, mode, addr, b)
      BY <2>1 DEF PostStep
    <2>2. CASE Crash(c)
      BY <1>6, <2>2
    <2>3. CASE UNCHANGED <<nextSeq, pending, answers, executed>>
      BY <1>2, <2>3
    <2>4. QED
      BY <1>7, <2>1, <2>2, <2>3
      DEF ClientStep, ChangeProfile, SetGameState, Connect, ClientReceive, RemoveMailbox,
          RegisterAddress
  <1>8. ASSUME LauncherStep PROVE PostStep \/ Stutters
    <2>1. CASE \E mode \in Modes, addr \in Targets, b \in boxes[Launcher] : LauncherPost(mode, addr, b)
      BY <2>1 DEF PostStep
    <2>2. CASE UNCHANGED <<nextSeq, pending, answers, executed>>
      BY <1>2, <2>2
    <2>3. QED
      BY <1>8, <2>1, <2>2
      DEF LauncherStep, ProcessOutgoing, LauncherRoute, LauncherIdentify, LauncherClosed,
          PipeClosed
  <1>9. ASSUME NEW o \in Office, MailboxStep(o) PROVE MessageStep \/ Promise!Next \/ Stutters
    <2>1. CASE \E b \in Box : ProcessReply(o, b)
      BY <1>5, <2>1
    <2>2. CASE \E b \in Box : ProcessMessage(o, b)
      BY <2>2 DEF MessageStep
    <2>3. CASE UNCHANGED <<nextSeq, pending, answers, executed>>
      BY <1>2, <2>3
    <2>4. QED
      BY <1>9, <2>1, <2>2, <2>3 DEF MailboxStep, Answer
  <1>10. UNCHANGED vars => Stutters
    BY <1>2 DEF vars
  <1>11. QED
    BY <1>0, <1>3, <1>4, <1>7, <1>8, <1>9, <1>10 DEF Next

\* The routing implements the promise to the caller, when no profile that the
\* game may give one client is part of a profile of another.
THEOREM KeepsPromiseCorrect ==
  ASSUME DistinctProfiles
  PROVE  Spec => KeepsPromise
  <1>1. Init => PromiseInv /\ Promise!Init
    BY PromiseInvInit, InitPromised
  <1>2. PromiseInv /\ [Next]_vars => PromiseInv'
    BY PromiseInvNext
  <1>3. PromiseInv /\ PromiseInv' /\ [Next]_vars => [Promise!Next]_(Promise!vars)
    BY StepPromised
  <1>4. QED
    BY <1>1, <1>2, <1>3, PTL DEF Spec, KeepsPromise, Promise!Spec
=============================================================================
